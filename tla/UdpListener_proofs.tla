-------------------------- MODULE UdpListener_proofs --------------------------
(***************************************************************************)
(* The receive loop keeps the invariant of UdpListenerInv, and the safety  *)
(* properties follow: for any clients, targets and sessions and any number *)
(* of updates, with operations dropped at will.                            *)
(***************************************************************************)
EXTENDS UdpTasks_proofs

-----------------------------------------------------------------------------
(* The receive loop finds or makes a session for each datagram of a batch. *)

(* What its steps do to the tasks; the spawn of a reply loop aside. *)
RxMoves(label) ==
  /\ Alive("rx")
  /\ label \in Labels("rx")
  /\ DOMAIN pc' = Actors
  /\ pc'["rx"] = label
  /\ work' \in [Actors -> Sessions \cup {None}]
  /\ \A b \in Actors \ {"rx"} : pc'[b] = pc[b] /\ work'[b] = work[b]
  /\ list' \in [{"rx", "control"} -> SUBSET Sessions]
  /\ list'["control"] = list["control"]
  /\ UNCHANGED <<target, generation, dropped>>

LEMMA RxFrame ==
  ASSUME UdpInv, NEW label, RxMoves(label)
  PROVE  /\ pc'["control"] = pc["control"] /\ work'["control"] = work["control"]
         /\ \A s \in Sessions : pc'[s] = pc[s] /\ (Alive(s)' <=> Alive(s)) /\ work'[s] = work[s]
         /\ pc["rx"] # "done" /\ "cleanup" \notin aborted /\ "rx" \in Actors
         /\ ~ (pc["control"] = "done" /\ ~ dropped)
         /\ LabelsInv'
<1>1. LabelsInv /\ DeleteInv
  BY Zenon DEF UdpInv
<1>2. /\ pc'["control"] = pc["control"] /\ work'["control"] = work["control"]
      /\ \A s \in Sessions : pc'[s] = pc[s] /\ work'[s] = work[s]
      /\ "rx" \in Actors
  BY ActorsDiffer, Zenon DEF RxMoves
<1>3. pc["rx"] # "done"
  BY Zenon DEF RxMoves, Alive
<1>4. LabelsInv'
  BY <1>1, <1>2, Zenon DEF LabelsInv, RxMoves
<1> QED BY <1>1, <1>2, <1>3, <1>4, Zenon DEF DeleteInv, Alive

(* The sessions, as far as the steps of the receive loop leave the table and the tasks alone. *)
LEMMA RxCreated ==
  ASSUME UdpInv, NEW label, RxMoves(label), UNCHANGED session,
         Current' \cup closed' \cup asked' \cup handle' \cup Found' \subseteq Created,
         work'["rx"] \in Created \cup {None},
         label = "remove" => work'["rx"] # None,
         list'["rx"] \subseteq Created
  PROVE  CreatedInv'
<1>1. CreatedInv /\ Created' = Created
  BY Zenon DEF UdpInv, Created
<1>2. \A a \in Actors : work'[a] \in Created' \cup {None} /\ (pc'[a] = "remove" => work'[a] # None)
  <2>1. ASSUME NEW a \in Actors, a # "rx"
        PROVE  work'[a] \in Created \cup {None} /\ (pc'[a] = "remove" => work'[a] # None)
    BY <1>1, <2>1, Zenon DEF CreatedInv, RxMoves
  <2> QED BY <1>1, <2>1, Zenon DEF RxMoves
<1>3. \A a \in {"rx", "control"} : list'[a] \subseteq Created'
  BY <1>1, Zenon DEF CreatedInv, RxMoves
<1>4. \A s \in Sessions : (pc'[s] # "none" => s \in Created') /\ (Alive(s)' => work'[s] = s)
  BY <1>1, RxFrame, Zenon DEF CreatedInv
<1> QED BY <1>1, <1>2, <1>3, <1>4, Zenon DEF CreatedInv

(* A step that changes nothing but the locals of the loop, and finds a session for a datagram *)
(* only if it was found before, is closed, or can be reached.                                 *)
LEMMA RxLocalKeepsInv ==
  ASSUME UdpInv, NEW label, RxMoves(label),
         UNCHANGED <<sessions, session, closed, asked, handle, aborted>>,
         label \notin {"send", "remove"},
         pc["rx"] # "handle" \/ label = "done",
         work'["rx"] \in Created \cup {None},
         list'["rx"] \subseteq Created,
         unwaited \subseteq unwaited', unwaited' \subseteq Sessions,
         \A s \in list["rx"] : s \in list'["rx"] \cup unwaited' \/ ~ Alive(s),
         batch' \in Seq(Peers), snap' \in Snapshots \cup {None},
         prepared' \in Seq(Sessions \cup {None}),
         snap' # None => snap' = snap \/ snap' = [target |-> target, generation |-> generation],
         Found' \subseteq Created,
         \A s \in Found' \ Found : s \in closed \/ ~ Alive(s) \/ Reachable(s),
         BatchInv', MakingInv'
  PROVE  UdpInv'
<1>1. /\ TypeOK /\ LabelsInv /\ CreatedInv /\ TargetsInv /\ TableInv /\ DeleteInv /\ RepliesInv
  BY Zenon DEF UdpInv
<1>2. Created' = Created /\ Current' = Current
  BY Zenon DEF Created, Current
<1>3. UNCHANGED <<target, generation, dropped>> /\ work' \in [Actors -> Sessions \cup {None}]
      /\ DOMAIN pc' = Actors /\ pc'["rx"] = label
      /\ list' \in [{"rx", "control"} -> SUBSET Sessions] /\ list'["control"] = list["control"]
  BY Zenon DEF RxMoves
<1>4. TypeOK'
  BY <1>1, <1>3, Zenon DEF TypeOK
<1>5. CreatedInv'
  BY <1>1, <1>2, RxCreated, Zenon DEF CreatedInv
<1>6. TargetsInv'
  BY <1>1, <1>2, <1>3 DEF TargetsInv, TypeOK
<1>7. TableInv'
  <2>1. TableFresh'
    BY <1>1, <1>3, RxFrame, Zenon DEF TableInv, TableFresh
  <2> QED BY <1>1, <1>2, <1>3, <2>1, RxFrame, Zenon DEF TableInv, SessionLimit
<1>8. DeleteInv'
  BY <1>1, <1>2, <1>3, RxFrame, Zenon DEF DeleteInv
<1>9. RepliesInv'
  <2>1. ASSUME NEW s \in Sessions, Alive(s), Reachable(s) PROVE Reachable(s)'
    BY <1>2, <1>3, <2>1, RxFrame, Zenon DEF Reachable
  <2>2. \A s \in Sessions : (Alive(s)' <=> Alive(s)) /\ pc'[s] = pc[s]
    BY RxFrame, Zenon
  <2>3. pc["rx"] # "done"
    BY RxFrame, Zenon
  <2>4. ASSUME NEW s \in Sessions, Alive(s), s \in Found', s \notin closed PROVE Reachable(s)
    BY <1>1, <2>4, Zenon DEF RepliesInv
  <2> QED BY <1>1, <1>2, <1>3, <2>1, <2>2, <2>3, <2>4, Zenon DEF RepliesInv
<1> QED BY <1>4, <1>5, <1>6, <1>7, <1>8, <1>9, RxFrame, Zenon DEF UdpInv

(* The receive loop ends. *)
LEMMA RxEnds ==
  ASSUME UdpInv, ReceiveFails \/ Die("rx") \/ Shutdown("rx")
  PROVE  UdpInv'
<1>1. TypeOK /\ CreatedInv /\ LabelsInv
  BY Zenon DEF UdpInv
<1>2. Alive("rx") /\ End("rx") /\ UNCHANGED <<closed, asked>>
  BY Zenon DEF ReceiveFails, Die, Shutdown, Alive, flags
<1>3. /\ UNCHANGED <<target, generation, sessions, session, handle, aborted, dropped>>
      /\ batch' = << >> /\ snap' = None /\ prepared' = << >>
      /\ unwaited' = unwaited \cup list["rx"]
  BY <1>2, Zenon DEF End, table, tasks
<1>4. /\ DOMAIN pc' = Actors /\ pc'["rx"] = "done"
      /\ work' \in [Actors -> Sessions \cup {None}] /\ work'["rx"] = None
      /\ \A b \in Actors \ {"rx"} : pc'[b] = pc[b] /\ work'[b] = work[b]
  BY <1>1, <1>2, ActorsDiffer, Zenon DEF End, Go, TypeOK
<1>5. /\ list' \in [{"rx", "control"} -> SUBSET Sessions]
      /\ list'["rx"] = {} /\ list'["control"] = list["control"]
      /\ list["rx"] \subseteq Sessions /\ unwaited' \subseteq Sessions
  BY <1>1, <1>2, <1>3, Zenon DEF End, TypeOK
<1>6. RxMoves("done")
  BY <1>2, <1>3, <1>4, <1>5, Zenon DEF RxMoves, Labels
<1>7. Found' = {}
  BY <1>3 DEF Found
<1>8. BatchInv' /\ MakingInv'
  BY <1>3, <1>4, <1>5 DEF BatchInv, MakingInv, Making
<1>9. /\ batch' \in Seq(Peers) /\ snap' \in Snapshots \cup {None}
      /\ prepared' \in Seq(Sessions \cup {None})
  BY <1>3
<1> QED BY <1>2, <1>3, <1>4, <1>5, <1>6, <1>7, <1>8, <1>9, RxLocalKeepsInv, Zenon

LEMMA ReceiveKeepsInv ==
  ASSUME UdpInv, Receive
  PROVE  UdpInv'
<1>1. TypeOK /\ BatchInv /\ CreatedInv /\ MakingInv
  BY Zenon DEF UdpInv
<1>2. /\ UNCHANGED <<target, generation, sessions, session, closed, asked, handle, aborted, work,
                     prepared, list, dropped, unwaited>>
      /\ pc["rx"] = "recv" /\ prepared = << >> /\ target \in Targets
  BY <1>1, Zenon DEF Receive, table, flags, tasks, history, BatchInv, HasTarget, TypeOK
<1>3. batch' \in Seq(Peers) /\ Len(batch') \in Nat
  <2>1. PICK n \in 1..BatchSize : batch' \in [1..n -> Peers]
    BY Zenon DEF Receive
  <2> QED BY <2>1, UdpAssumption
<1>4. snap' = [target |-> target, generation |-> generation] /\ snap' \in Snapshots /\ snap' # None
  BY <1>1, <1>2, UdpAssumption DEF Receive, Snapshots, TypeOK
<1>5. /\ DOMAIN pc' = Actors /\ pc'["rx"] = "lookup"
      /\ \A b \in Actors \ {"rx"} : pc'[b] = pc[b]
  BY <1>1, ActorsDiffer, Zenon DEF Receive, Go, TypeOK
<1>6. RxMoves("lookup")
  BY <1>1, <1>2, <1>5, Zenon DEF RxMoves, Labels, Alive, TypeOK
<1>7. Found' = {} /\ Len(prepared') = 0
  BY <1>2 DEF Found
<1>8. BatchInv'
  BY <1>2, <1>3, <1>4, <1>5, <1>7 DEF BatchInv, Making
<1>9. MakingInv'
  BY <1>1, <1>2, <1>5, Zenon DEF MakingInv, Making
<1>10. work["rx"] \in Created \cup {None} /\ list["rx"] \subseteq Created
  BY <1>1, ActorsDiffer, Zenon DEF CreatedInv
<1>11. unwaited \subseteq Sessions /\ prepared \in Seq(Sessions \cup {None})
  BY <1>1, Zenon DEF TypeOK
<1> QED BY <1>2, <1>3, <1>4, <1>6, <1>7, <1>8, <1>9, <1>10, <1>11, RxLocalKeepsInv, Zenon

(* What the first earlier datagram of the same peer got is one of the sessions found. *)
LEMMA LeastElement ==
  ASSUME NEW S \in SUBSET Nat, S # {}
  PROVE  \E m \in S : \A x \in S : m <= x
<1> DEFINE R == {z \in Nat \X Nat : z[1] < z[2]}
<1>1. IsWellFoundedOn(R, Nat)
  BY NatLessThanWellFounded, Zenon DEF OpToRel
<1>2. PICK m \in S : \A y \in S : ~ (<<y, m>> \in R)
  <2> HIDE DEF R
  <2> QED BY <1>1, WFMin, Zenon
<1>3. ASSUME NEW x \in S PROVE m <= x
  <2>1. ~ (<<x, m>> \in Nat \X Nat /\ x < m)
    BY <1>2, Zenon
  <2> QED BY <2>1
<1> QED BY <1>3, Zenon

LEMMA EarlierIsFound ==
  ASSUME TypeOK, Earlier # None
  PROVE  \E j \in 1..Len(prepared) : batch[j] = batch[Index] /\ Earlier = prepared[j]
<1> DEFINE same == {j \in 1..Len(prepared) : batch[j] = batch[Index]}
<1>1. same # {} /\ Earlier = prepared[CHOOSE j \in same : \A k \in same : j <= k]
  BY Zenon DEF Earlier
<1>2. same \in SUBSET Nat
  BY DEF TypeOK
<1>3. \E m \in same : \A x \in same : m <= x
  <2> HIDE DEF same
  <2> QED BY <1>1, <1>2, LeastElement, Zenon
<1>4. (CHOOSE j \in same : \A k \in same : j <= k) \in same
  <2> HIDE DEF same
  <2> QED BY <1>3, Zenon
<1> QED BY <1>1, <1>4, Zenon

(* The sessions found, after one more datagram. *)
LEMMA PreparedFrame ==
  ASSUME UdpInv, NEW s \in Created \cup {None}, Prepared(s), UNCHANGED <<session>>,
         pc["rx"] \notin {"recv", "done"}, Len(prepared) < Len(batch),
         s # None => session[s].peer = batch[Index] /\ session[s].generation = snap.generation
  PROVE  /\ prepared' \in Seq(Sessions \cup {None}) /\ UNCHANGED <<batch, snap>>
         /\ Found' = (Found \cup {s}) \ {None}
         /\ BatchInv'
         /\ DOMAIN pc' = Actors /\ pc'["rx"] = "lookup"
         /\ work' \in [Actors -> Sessions \cup {None}] /\ work'["rx"] = None
         /\ \A b \in Actors \ {"rx"} : pc'[b] = pc[b] /\ work'[b] = work[b]
<1>1. TypeOK /\ BatchInv /\ s \in Sessions \cup {None}
  BY Zenon DEF UdpInv, Created
<1>2. prepared' = Append(prepared, s) /\ UNCHANGED <<batch, snap>>
  BY Zenon DEF Prepared
<1>3. /\ prepared' \in Seq(Sessions \cup {None})
      /\ Len(prepared) \in Nat /\ Len(batch) \in Nat /\ Len(prepared') = Len(prepared) + 1
      /\ DOMAIN prepared = 1..Len(prepared) /\ DOMAIN prepared' = 1..(Len(prepared) + 1)
      /\ \A i \in 1..Len(prepared) : prepared'[i] = prepared[i]
      /\ prepared'[Len(prepared) + 1] = s
  BY <1>1, <1>2 DEF TypeOK
<1>4. Found' = (Found \cup {s}) \ {None}
  BY <1>3 DEF Found
<1>5. /\ DOMAIN pc' = Actors /\ pc'["rx"] = "lookup"
      /\ work' \in [Actors -> Sessions \cup {None}] /\ work'["rx"] = None
      /\ \A b \in Actors \ {"rx"} : pc'[b] = pc[b] /\ work'[b] = work[b]
  BY <1>1, ActorsDiffer, Zenon DEF Prepared, Go, TypeOK
<1>6. \A i \in 1..Len(prepared') :
        prepared'[i] # None => /\ session'[prepared'[i]].peer = batch'[i]
                               /\ session'[prepared'[i]].generation = snap'.generation
  <2>1. ASSUME NEW i \in 1..(Len(prepared) + 1), prepared'[i] # None
        PROVE  session[prepared'[i]].peer = batch[i] /\ session[prepared'[i]].generation = snap.generation
    <3>1. CASE i = Len(prepared) + 1
      BY <1>3, <2>1, <3>1, Zenon DEF Index
    <3>2. CASE i \in 1..Len(prepared)
      BY <1>1, <1>3, <2>1, <3>2, Zenon DEF BatchInv
    <3> QED BY <1>3, <3>1, <3>2
  <2> QED BY <1>2, <1>3, <2>1, Zenon
<1>7. BatchInv'
  BY <1>1, <1>2, <1>3, <1>5, <1>6 DEF BatchInv, Making
<1> QED BY <1>2, <1>3, <1>4, <1>5, <1>7, Zenon

(* A session is found for a datagram, or none, and nothing else happens. *)
LEMMA FindKeepsInv ==
  ASSUME UdpInv, NEW s \in Created \cup {None}, Prepared(s),
         pc["rx"] \in {"lookup", "insert", "spawn"}, Len(prepared) < Len(batch),
         s # None => session[s].peer = batch[Index] /\ session[s].generation = snap.generation,
         s \in Found \cup closed \cup {None} \/ ~ Alive(s) \/ Reachable(s),
         UNCHANGED <<table, flags, tasks, list, history>>
  PROVE  UdpInv'
<1>1. TypeOK /\ CreatedInv /\ MakingInv
  BY Zenon DEF UdpInv
<1>2. UNCHANGED <<target, generation, sessions, session, closed, asked, handle, aborted, list,
                  dropped, unwaited>>
  BY Zenon DEF table, flags, tasks, history
<1>3. /\ prepared' \in Seq(Sessions \cup {None}) /\ UNCHANGED <<batch, snap>>
      /\ Found' = (Found \cup {s}) \ {None}
      /\ BatchInv'
      /\ DOMAIN pc' = Actors /\ pc'["rx"] = "lookup"
      /\ work' \in [Actors -> Sessions \cup {None}] /\ work'["rx"] = None
      /\ \A b \in Actors \ {"rx"} : pc'[b] = pc[b] /\ work'[b] = work[b]
  BY <1>2, PreparedFrame, Zenon
<1>4. RxMoves("lookup")
  BY <1>1, <1>2, <1>3, Zenon DEF RxMoves, Labels, Alive, TypeOK
<1>5. MakingInv'
  BY <1>1, <1>2, <1>3, Zenon DEF MakingInv, Making
<1>6. /\ list["rx"] \subseteq Created /\ unwaited \subseteq Sessions /\ Found' \subseteq Created
      /\ batch \in Seq(Peers) /\ snap \in Snapshots \cup {None}
  BY <1>1, <1>3, Zenon DEF CreatedInv, TypeOK
<1>7. \A t \in Found' \ Found : t \in closed \/ ~ Alive(t) \/ Reachable(t)
  BY <1>3, Zenon
<1> QED BY <1>2, <1>3, <1>4, <1>5, <1>6, <1>7, RxLocalKeepsInv, Zenon

(* A session of the table, of the generation of the batch, can be used for a datagram. *)
LEMMA TableSessionIsGood ==
  ASSUME UdpInv, NEW p \in Peers, OfGeneration(sessions[p], snap.generation),
         pc["rx"] \in {"lookup", "insert"}
  PROVE  /\ sessions[p] \in Created /\ sessions[p] # None
         /\ session[sessions[p]].peer = p /\ session[sessions[p]].generation = snap.generation
         /\ ~ Alive(sessions[p]) \/ Reachable(sessions[p])
<1>1. CreatedInv /\ TableInv /\ RepliesInv
  BY Zenon DEF UdpInv
<1>2. /\ sessions[p] \in Current /\ sessions[p] # None
      /\ session[sessions[p]].generation = snap.generation
  BY Zenon DEF OfGeneration, Current
<1>3. sessions[p] \in Created /\ sessions[p] \in Sessions
  BY <1>1, <1>2, Zenon DEF CreatedInv, Created
<1>4. session[sessions[p]].peer = p
  BY <1>1, <1>2, Zenon DEF TableInv, TableFresh
<1> QED BY <1>1, <1>2, <1>3, <1>4, Zenon DEF RepliesInv, Reachable

LEMMA LookupKeepsInv ==
  ASSUME UdpInv, Lookup
  PROVE  UdpInv'
<1>1. /\ TypeOK /\ LabelsInv /\ CreatedInv /\ TargetsInv /\ BatchInv /\ MakingInv /\ TableInv
      /\ DeleteInv /\ RepliesInv
  BY Zenon DEF UdpInv
<1>2. /\ pc["rx"] = "lookup" /\ Len(prepared) < Len(batch)
      /\ UNCHANGED <<target, generation, sessions, flags, tasks, list, history>>
  BY Zenon DEF Lookup
<1>3. /\ Len(prepared) \in Nat /\ Len(batch) \in Nat /\ batch[Index] \in Peers
      /\ snap \in Snapshots /\ snap # None
      /\ \A i \in 1..Len(prepared) : prepared[i] # None => prepared[i] \in Found
  BY <1>1, <1>2 DEF TypeOK, Index, BatchInv, Found
<1>4. PICK found : found = (IF Earlier # None THEN Earlier ELSE sessions[batch[Index]])
  OBVIOUS
<1>5. CASE /\ Earlier # None \/ OfGeneration(found, snap.generation)
           /\ Prepared(found)
           /\ UNCHANGED session
  <2>1. UNCHANGED <<table, flags, tasks, list, history>>
    BY <1>2, <1>5, Zenon DEF table
  <2>2. CASE Earlier # None
    <3>1. PICK j \in 1..Len(prepared) : batch[j] = batch[Index] /\ found = prepared[j]
      BY <1>1, <1>4, <2>2, EarlierIsFound, Zenon
    <3>2. found # None /\ found \in Found /\ found \in Created
      BY <1>1, <1>3, <1>4, <2>2, <3>1, Zenon DEF CreatedInv
    <3>3. session[found].peer = batch[Index] /\ session[found].generation = snap.generation
      BY <1>1, <3>1, <3>2, Zenon DEF BatchInv
    <3> QED BY <1>2, <1>5, <2>1, <3>2, <3>3, FindKeepsInv, Zenon
  <2>3. CASE Earlier = None
    <3>1. found = sessions[batch[Index]] /\ OfGeneration(found, snap.generation)
      BY <1>4, <1>5, <2>3, Zenon
    <3>2. /\ found \in Created /\ found # None
          /\ session[found].peer = batch[Index] /\ session[found].generation = snap.generation
          /\ ~ Alive(found) \/ Reachable(found)
      BY <1>2, <1>3, <3>1, TableSessionIsGood, Zenon
    <3> QED BY <1>2, <1>5, <2>1, <3>2, FindKeepsInv, Zenon
  <2> QED BY <2>2, <2>3, Zenon
<1>6. CASE Prepared(None) /\ UNCHANGED session
  <2>1. UNCHANGED <<table, flags, tasks, list, history>>
    BY <1>2, <1>6, Zenon DEF table
  <2> QED BY <1>2, <1>6, <2>1, FindKeepsInv, Zenon
<1>7. CASE /\ ~ TableFull
           /\ \E s \in Sessions :
                /\ session[s] = None
                /\ session' = [session EXCEPT ![s] =
                     [peer |-> batch[Index], target |-> snap.target,
                      generation |-> snap.generation]]
                /\ work' = [work EXCEPT !["rx"] = s]
           /\ Go("rx", "insert")
           /\ UNCHANGED locals
  <2>1. PICK s \in Sessions :
          /\ session[s] = None
          /\ session' = [session EXCEPT ![s] =
               [peer |-> batch[Index], target |-> snap.target, generation |-> snap.generation]]
          /\ work' = [work EXCEPT !["rx"] = s]
    BY <1>7, Zenon
  <2>2. UNCHANGED <<target, generation, sessions, closed, asked, handle, aborted, list, dropped,
                    unwaited, batch, snap, prepared>>
    BY <1>2, <1>7, Zenon DEF flags, tasks, history, locals
  <2>3. [peer |-> batch[Index], target |-> snap.target, generation |-> snap.generation] \in SessionFields
    BY <1>3, Zenon DEF SessionFields, Snapshots
  <2>4. /\ session'[s] = [peer |-> batch[Index], target |-> snap.target,
                          generation |-> snap.generation]
        /\ \A t \in Sessions \ {s} : session'[t] = session[t]
        /\ session' \in [Sessions -> SessionFields \cup {None}]
        /\ session'[s] # None
    BY <1>1, <2>1, <2>3, UdpAssumption, Zenon DEF TypeOK
  <2>5. Created' = Created \cup {s} /\ s \notin Created
    BY <2>1, <2>4, Zenon DEF Created
  <2>6. /\ DOMAIN pc' = Actors /\ pc'["rx"] = "insert"
        /\ work' \in [Actors -> Sessions \cup {None}] /\ work'["rx"] = s
        /\ \A b \in Actors \ {"rx"} : pc'[b] = pc[b] /\ work'[b] = work[b]
    BY <1>1, <1>7, <2>1, ActorsDiffer, Zenon DEF Go, TypeOK
  <2>7. RxMoves("insert")
    BY <1>1, <1>2, <2>2, <2>6, Zenon DEF RxMoves, Labels, Alive, TypeOK
  <2>8. Current' = Current /\ Found' = Found /\ Index' = Index
    BY <2>2, Zenon DEF Current, Found, Index
  <2>9. \A t \in Created : session'[t] = session[t] /\ t \in Sessions
    BY <2>4, <2>5, Zenon DEF Created
  <2>10. TypeOK'
    BY <1>1, <2>2, <2>4, <2>6, Zenon DEF TypeOK
  <2>11. CreatedInv'
    <3>1. \A a \in Actors : work'[a] \in Created' \cup {None} /\ (pc'[a] = "remove" => work'[a] # None)
      <4>1. ASSUME NEW a \in Actors, a # "rx"
            PROVE  work'[a] \in Created \cup {None} /\ (pc'[a] = "remove" => work'[a] # None)
        BY <1>1, <2>6, <4>1, Zenon DEF CreatedInv
      <4> QED BY <2>5, <2>6, <4>1, Zenon
    <3>2. \A t \in Sessions : (pc'[t] # "none" => t \in Created') /\ (Alive(t)' => work'[t] = t)
      BY <1>1, <2>5, <2>7, RxFrame, Zenon DEF CreatedInv
    <3> QED BY <1>1, <2>2, <2>5, <2>8, <3>1, <3>2, Zenon DEF CreatedInv
  <2>12. TargetsInv'
    BY <1>1, <1>3, <2>2, <2>4, <2>5, <2>9 DEF TargetsInv
  <2>13. BatchInv'
    <3>1. \A i \in 1..Len(prepared) : prepared[i] # None => session'[prepared[i]] = session[prepared[i]]
      BY <1>1, <1>3, <2>9, Zenon DEF CreatedInv
    <3> QED BY <1>1, <1>2, <1>3, <2>2, <2>6, <3>1, Zenon DEF BatchInv, Making
  <2>14. MakingInv'
    <3>1. pc'[s] = "none"
      BY <1>1, <2>5, <2>7, RxFrame, Zenon DEF CreatedInv
    <3>2. s \notin asked \cup Found \cup handle \cup closed \cup Current \cup list["control"]
      BY <1>1, <2>5, Zenon DEF CreatedInv
    <3>3. Cardinality(Current) < MaxSessions
      BY <1>1, <1>7, FS_CardinalityType, UdpAssumption DEF TableFull, TableInv
    <3>4. list'["rx"] = {} /\ s # None
      BY <1>1, <1>2, <2>2, ActorsDiffer, Zenon DEF MakingInv
    <3> QED BY <2>2, <2>4, <2>6, <2>8, <3>1, <3>2, <3>3, <3>4, Zenon DEF MakingInv, Making
  <2>15. TableInv'
    <3>1. \A p \in Peers : sessions[p] # None => session'[sessions[p]] = session[sessions[p]]
      BY <1>1, <2>9 DEF CreatedInv, Current
    <3>2. TableFresh'
      BY <1>1, <2>2, <2>7, <3>1, RxFrame, Zenon DEF TableInv, TableFresh
    <3> QED BY <1>1, <2>2, <2>7, <2>8, <3>1, <3>2, RxFrame, Zenon DEF TableInv, SessionLimit
  <2>16. DeleteInv'
    BY <1>1, <2>2, <2>7, <2>8, RxFrame, Zenon DEF DeleteInv
  <2>17. RepliesInv'
    <3>1. ASSUME NEW t \in Sessions PROVE Reachable(t)' <=> Reachable(t)
      BY <2>2, <2>7, <2>8, RxFrame, Zenon DEF Reachable
    <3> QED BY <1>1, <1>2, <2>2, <2>6, <2>7, <2>8, <3>1, RxFrame, Zenon DEF RepliesInv
  <2> QED BY <2>7, <2>10, <2>11, <2>12, <2>13, <2>14, <2>15, <2>16, <2>17, RxFrame, Zenon DEF UdpInv
<1> QED
  <2>1. \/ /\ Earlier # None \/ OfGeneration(found, snap.generation)
           /\ Prepared(found)
           /\ UNCHANGED session
        \/ Prepared(None) /\ UNCHANGED session
        \/ /\ ~ TableFull
           /\ \E s \in Sessions :
                /\ session[s] = None
                /\ session' = [session EXCEPT ![s] =
                     [peer |-> batch[Index], target |-> snap.target,
                      generation |-> snap.generation]]
                /\ work' = [work EXCEPT !["rx"] = s]
           /\ Go("rx", "insert")
           /\ UNCHANGED locals
    BY <1>4, Zenon DEF Lookup
  <2> QED BY <1>5, <1>6, <1>7, <2>1, Zenon

(* The new session enters the table; the one it replaces is closed. *)
NewSessionStep(s, p, old) ==
  /\ pc["rx"] = "insert" /\ ~ Overtaken
  /\ s = work["rx"] /\ p = batch[Index] /\ old = sessions[p]
  /\ ~ OfGeneration(old, snap.generation)
  /\ sessions' = [sessions EXCEPT ![p] = s]
  /\ IF old = None
     THEN Go("rx", "spawn") /\ UNCHANGED <<closed, tasks, list>>
     ELSE /\ closed' = closed \cup {old}
          /\ TakeHandle(old)
          /\ list' = [list EXCEPT !["rx"] = handle \cap {old}]
          /\ Go("rx", "replaced")
  /\ UNCHANGED <<work, locals>> /\ UNCHANGED <<target, generation, session, asked, history>>

LEMMA NewSessionKeepsInv ==
  ASSUME UdpInv, NEW s, NEW p, NEW old, NewSessionStep(s, p, old)
  PROVE  UdpInv'
<1>1. /\ TypeOK /\ LabelsInv /\ CreatedInv /\ TargetsInv /\ BatchInv /\ MakingInv /\ TableInv
      /\ DeleteInv /\ RepliesInv
  BY Zenon DEF UdpInv
<1>0. /\ pc["rx"] = "insert" /\ s = work["rx"] /\ p = batch[Index] /\ old = sessions[p]
  BY Zenon DEF NewSessionStep
<1>2. /\ s \in Sessions /\ s \in Created /\ s # None
      /\ session[s] = [peer |-> p, target |-> snap.target, generation |-> snap.generation]
      /\ s \notin asked \cup Found \cup handle \cup closed \cup Current \cup list["control"]
      /\ pc[s] = "none" /\ Cardinality(Current) < MaxSessions /\ list["rx"] = {}
  BY <1>0, <1>1, ActorsDiffer, Zenon DEF MakingInv, Making, CreatedInv, Created
<1>3. p \in Peers /\ snap # None /\ old \in Sessions \cup {None} /\ old # s
      /\ (old # None => old \in Current /\ old \in Created)
  <2>1. p \in Peers /\ snap # None
    BY <1>0, <1>1 DEF TypeOK, BatchInv, Making, Index
  <2> QED BY <1>0, <1>1, <1>2, <2>1 DEF TypeOK, Current, CreatedInv
<1>4. /\ generation = snap.generation
      /\ session[s].target = target /\ session[s].generation = generation /\ session[s].peer = p
  BY <1>1, <1>2, <1>3 DEF NewSessionStep, Overtaken, TargetsInv
<1>5. /\ sessions' \in [Peers -> Sessions \cup {None}] /\ sessions'[p] = s
      /\ \A q \in Peers \ {p} : sessions'[q] = sessions[q]
      /\ UNCHANGED <<target, generation, session, asked, dropped, unwaited, work, batch, snap, prepared>>
  BY <1>1, <1>2, <1>3, Zenon DEF NewSessionStep, TypeOK, locals, history
<1>6. \A q \in Peers \ {p} : sessions[q] # None => sessions[q] # old
  BY <1>0, <1>1, <1>3 DEF TableInv, TableFresh
<1>7. Current' = (Current \ {old}) \cup {s}
  BY <1>0, <1>2, <1>3, <1>5, <1>6 DEF Current
<1>8. PICK label \in {"spawn", "replaced"} :
        /\ RxMoves(label)
        /\ closed' = closed \cup ({old} \ {None})
        /\ handle' = handle \ {old}
        /\ aborted' = aborted \cup (handle \cap {old})
        /\ list'["rx"] = handle \cap {old}
        /\ label = "spawn" => list'["rx"] = {}
  <2>1. Alive("rx") /\ "rx" \in Actors /\ None \notin handle
    BY <1>1, ActorsDiffer, Zenon DEF NewSessionStep, Alive, TypeOK
  <2>2. CASE old = None
    <3>1. UNCHANGED <<closed, handle, aborted, list>> /\ Go("rx", "spawn")
      BY <2>2, Zenon DEF NewSessionStep, tasks
    <3>2. RxMoves("spawn")
      BY <1>1, <1>5, <2>1, <3>1, Zenon DEF RxMoves, Go, Labels, TypeOK
    <3> QED BY <1>2, <2>1, <2>2, <3>1, <3>2, Zenon
  <2>3. CASE old # None
    <3>1. /\ closed' = closed \cup {old} /\ handle' = handle \ {old}
          /\ aborted' = aborted \cup (handle \cap {old})
          /\ list' = [list EXCEPT !["rx"] = handle \cap {old}]
          /\ Go("rx", "replaced")
      BY <2>3, Zenon DEF NewSessionStep, TakeHandle
    <3>2. /\ list' \in [{"rx", "control"} -> SUBSET Sessions]
          /\ list'["rx"] = handle \cap {old} /\ list'["control"] = list["control"]
      BY <1>1, <3>1, Zenon DEF TypeOK
    <3>3. RxMoves("replaced")
      BY <1>1, <1>5, <2>1, <3>1, <3>2, Zenon DEF RxMoves, Go, Labels, TypeOK
    <3> QED BY <2>3, <3>1, <3>2, <3>3, Zenon
  <2> QED BY <2>2, <2>3, Zenon
<1>9. Created' = Created /\ Found' = Found /\ Index' = Index
  BY <1>5, Zenon DEF Created, Found, Index
<1>10. /\ DOMAIN pc' = Actors /\ pc'["rx"] = label /\ list'["control"] = list["control"]
       /\ list' \in [{"rx", "control"} -> SUBSET Sessions]
  BY <1>8, Zenon DEF RxMoves
<1>11. TypeOK'
  <2>1. closed' \subseteq Sessions /\ handle' \subseteq Sessions /\ aborted' \subseteq Actors
    BY <1>1, <1>3, <1>8, ActorsDiffer, Zenon DEF TypeOK
  <2> QED BY <1>1, <1>5, <1>10, <2>1, Zenon DEF TypeOK
<1>12. CreatedInv'
  <2>1. Current' \cup closed' \cup asked' \cup handle' \cup Found' \subseteq Created
    BY <1>1, <1>2, <1>3, <1>5, <1>7, <1>8, <1>9 DEF CreatedInv
  <2>2. list'["rx"] \subseteq Created
    BY <1>1, <1>8, Zenon DEF CreatedInv
  <2> QED BY <1>0, <1>2, <1>5, <1>8, <2>1, <2>2, RxCreated
<1>13. TargetsInv'
  BY <1>1, <1>5, <1>9, Zenon DEF TargetsInv
<1>14. BatchInv'
  BY <1>0, <1>1, <1>5, <1>10, Zenon DEF BatchInv, Making
<1>15. MakingInv'
  BY <1>0, <1>2, <1>5, <1>7, <1>8, <1>9, <1>10, RxFrame DEF MakingInv, Making
<1>16. IsFiniteSet(Current') /\ SessionLimit'
  <2>1. IsFiniteSet(Current \cup {s}) /\ Cardinality(Current \cup {s}) = Cardinality(Current) + 1
    BY <1>1, <1>2, FS_AddElement, Zenon DEF TableInv
  <2>2. Current' \subseteq Current \cup {s}
    BY <1>7, Zenon
  <2>3. IsFiniteSet(Current') /\ Cardinality(Current') <= Cardinality(Current \cup {s})
    BY <2>1, <2>2, FS_Subset, Zenon
  <2>4. Cardinality(Current) \in Nat /\ Cardinality(Current') \in Nat /\ MaxSessions \in Nat
    BY <1>1, <2>3, FS_CardinalityType, UdpAssumption, Zenon DEF TableInv
  <2> QED BY <1>2, <2>1, <2>3, <2>4 DEF SessionLimit
<1>17. TableInv'
  <2>1. TableFresh'
    <3>1. pc'["control"] = pc["control"] /\ closed' = closed \cup ({old} \ {None})
      BY <1>8, RxFrame, Zenon
    <3>2. UNCHANGED <<target, generation, session, dropped>>
      BY <1>5, Zenon
    <3>3. ASSUME NEW q \in Peers, q # p, sessions'[q] # None
          PROVE  /\ session[sessions'[q]].peer = q
                 /\ session[sessions'[q]].generation = generation
                    => session[sessions'[q]].target = target /\ sessions'[q] \notin closed'
                 /\ pc["control"] # "drain" /\ ~ dropped => session[sessions'[q]].generation = generation
      <4>1. sessions'[q] = sessions[q] /\ sessions[q] # None /\ sessions[q] # old
        BY <1>5, <1>6, <3>3, Zenon
      <4>2. TableFresh
        BY <1>1, Zenon DEF TableInv
      <4> QED BY <3>1, <4>1, <4>2, Zenon DEF TableFresh
    <3>4. s \notin closed'
      BY <1>2, <1>3, <3>1, Zenon
    <3> QED BY <1>4, <1>5, <3>1, <3>2, <3>3, <3>4 DEF TableFresh
  <2>2. list'["control"] \cap Current' = {}
    BY <1>1, <1>2, <1>7, <1>10, Zenon DEF TableInv
  <2>3. pc["control"] \in {"close", "wait"} =>
          \A q \in Peers : sessions'[q] # None => session[sessions'[q]].generation = generation
    BY <1>1, <1>4, <1>5, Zenon DEF TableInv
  <2> QED BY <1>1, <1>5, <1>8, <1>10, <1>16, <2>1, <2>2, <2>3, RxFrame, Zenon DEF TableInv
<1>18. DeleteInv'
  <2>1. "control" \notin aborted' /\ "cleanup" \notin aborted'
    BY <1>1, <1>8, RxFrame, ActorsDiffer, Zenon DEF DeleteInv, TypeOK
  <2> QED BY <1>1, <1>5, <1>8, <2>1, RxFrame, Zenon DEF DeleteInv
<1>19. RepliesInv'
  <2>1. ASSUME NEW t \in Sessions, Reachable(t) PROVE Reachable(t)'
    BY <1>2, <1>5, <1>7, <1>8, <1>10, <2>1, RxFrame, Zenon DEF Reachable
  <2>2. ~ Alive(s)
    BY <1>2, Zenon DEF Alive
  <2>3. ASSUME NEW t \in Sessions
        PROVE  /\ pc'[t] = pc[t] /\ work'[t] = work[t] /\ (Alive(t)' <=> Alive(t))
               /\ Alive(t) /\ t \in Current' => t \in Current /\ t # old
    BY <1>7, <1>8, <2>2, RxFrame, Zenon
  <2>4. ASSUME NEW t \in Sessions, pc'[t] \in {"check", "send", "remove"}
        PROVE  t \in asked'
    BY <1>1, <1>5, <2>3, <2>4, Zenon DEF RepliesInv
  <2>5. ASSUME NEW t \in Sessions, Alive(t)', t \in Current'
        PROVE  t \in handle'
    BY <1>0, <1>1, <1>8, <2>3, <2>5, Zenon DEF RepliesInv
  <2>6. ASSUME NEW t \in Sessions, Alive(t)', t \in Found', t \notin closed'
        PROVE  Reachable(t)'
    BY <1>1, <1>8, <1>9, <2>1, <2>3, <2>6, Zenon DEF RepliesInv
  <2>7. ASSUME NEW t \in Sessions, Alive(t)',
               t \in asked' \/ (pc'["rx"] \in {"send", "remove"} /\ t \in Found')
        PROVE  Reachable(t)'
    <3>1. t \in asked
      BY <1>5, <1>8, <1>10, <2>7, Zenon
    <3> QED BY <1>1, <2>1, <2>3, <2>7, <3>1, Zenon DEF RepliesInv
  <2> QED BY <2>4, <2>5, <2>6, <2>7, Zenon DEF RepliesInv
<1> QED BY <1>8, <1>11, <1>12, <1>13, <1>14, <1>15, <1>17, <1>18, <1>19, RxFrame, Zenon DEF UdpInv

LEMMA InsertKeepsInv ==
  ASSUME UdpInv, Insert
  PROVE  UdpInv'
<1>1. TypeOK /\ BatchInv
  BY Zenon DEF UdpInv
<1>2. PICK s, p, old : s = work["rx"] /\ p = batch[Index] /\ old = sessions[p]
  OBVIOUS
<1>3. /\ pc["rx"] = "insert" /\ Len(prepared) < Len(batch)
      /\ UNCHANGED <<target, generation, session, asked, history>>
  BY <1>1, Zenon DEF Insert, BatchInv, Making
<1>4. p \in Peers
  BY <1>1, <1>2, <1>3 DEF TypeOK, Index
<1>5. CASE OfGeneration(old, snap.generation)
  <2>1. Prepared(old) /\ UNCHANGED <<sessions, closed, tasks, list>>
    BY <1>2, <1>5, Zenon DEF Insert
  <2>2. UNCHANGED <<table, flags, tasks, list, history>>
    BY <1>3, <2>1, Zenon DEF table, flags
  <2>3. /\ old \in Created
        /\ session[old].peer = batch[Index] /\ session[old].generation = snap.generation
        /\ ~ Alive(old) \/ Reachable(old)
    BY <1>2, <1>3, <1>4, <1>5, TableSessionIsGood, Zenon
  <2> QED BY <1>3, <2>1, <2>2, <2>3, FindKeepsInv, Zenon
<1>6. CASE ~ OfGeneration(old, snap.generation) /\ Overtaken
  <2>1. Prepared(None) /\ UNCHANGED <<sessions, closed, tasks, list>>
    BY <1>2, <1>6, Zenon DEF Insert
  <2>2. UNCHANGED <<table, flags, tasks, list, history>>
    BY <1>3, <2>1, Zenon DEF table, flags
  <2> QED BY <1>3, <2>1, <2>2, FindKeepsInv, Zenon
<1>7. CASE ~ OfGeneration(old, snap.generation) /\ ~ Overtaken
  <2>1. /\ sessions' = [sessions EXCEPT ![p] = s]
        /\ IF old = None
           THEN Go("rx", "spawn") /\ UNCHANGED <<closed, tasks, list>>
           ELSE /\ closed' = closed \cup {old}
                /\ TakeHandle(old)
                /\ list' = [list EXCEPT !["rx"] = handle \cap {old}]
                /\ Go("rx", "replaced")
        /\ UNCHANGED <<work, locals>>
    BY <1>2, <1>7, Zenon DEF Insert
  <2>2. NewSessionStep(s, p, old)
    BY <1>2, <1>3, <1>7, <2>1, Zenon DEF NewSessionStep
  <2> QED BY <2>2, NewSessionKeepsInv, Zenon
<1> QED BY <1>5, <1>6, <1>7, Zenon

(* abort_reply_task(replaced, true) returns. *)
LEMMA ReplacedKeepsInv ==
  ASSUME UdpInv, Replaced
  PROVE  UdpInv'
<1>1. TypeOK /\ BatchInv /\ CreatedInv /\ MakingInv
  BY Zenon DEF UdpInv
<1>2. /\ UNCHANGED <<target, generation, sessions, session, closed, asked, handle, aborted, work,
                     batch, snap, prepared, dropped, unwaited>>
      /\ pc["rx"] = "replaced" /\ \A s \in list["rx"] : ~ Alive(s)
  BY Zenon DEF Replaced, table, flags, tasks, locals, history, Joined
<1>3. /\ list' \in [{"rx", "control"} -> SUBSET Sessions]
      /\ list'["rx"] = {} /\ list'["control"] = list["control"]
  BY <1>1, Zenon DEF Replaced, TypeOK
<1>4. /\ DOMAIN pc' = Actors /\ pc'["rx"] = "spawn" /\ "rx" \in Actors
      /\ \A b \in Actors \ {"rx"} : pc'[b] = pc[b]
  BY <1>1, ActorsDiffer, Zenon DEF Replaced, Go, TypeOK
<1>5. RxMoves("spawn")
  BY <1>1, <1>2, <1>3, <1>4, Zenon DEF RxMoves, Labels, Alive, TypeOK
<1>6. Found' = Found /\ Index' = Index /\ Current' = Current
  BY <1>2, Zenon DEF Found, Index, Current
<1>7. BatchInv'
  BY <1>1, <1>2, <1>4, Zenon DEF BatchInv, Making
<1>8. work["rx"] \in Sessions /\ work["rx"] \in Created
  BY <1>1, <1>2, <1>4, Zenon DEF CreatedInv, MakingInv, Making, Created
<1>9. MakingInv'
  BY <1>1, <1>2, <1>3, <1>4, <1>5, <1>6, <1>8, RxFrame, Zenon DEF MakingInv, Making
<1>10. /\ unwaited \subseteq Sessions /\ prepared \in Seq(Sessions \cup {None})
       /\ batch \in Seq(Peers) /\ snap \in Snapshots \cup {None} /\ Found \subseteq Created
  BY <1>1, Zenon DEF TypeOK, CreatedInv
<1> QED BY <1>2, <1>3, <1>5, <1>6, <1>7, <1>8, <1>9, <1>10, RxLocalKeepsInv, Zenon

LEMMA SpawnKeepsInv ==
  ASSUME UdpInv, SpawnReplyLoop
  PROVE  UdpInv'
<1>1. /\ TypeOK /\ LabelsInv /\ CreatedInv /\ TargetsInv /\ BatchInv /\ MakingInv /\ TableInv
      /\ DeleteInv /\ RepliesInv
  BY Zenon DEF UdpInv
<1>2. PICK s : s = work["rx"]
  OBVIOUS
<1>3. /\ pc["rx"] = "spawn" /\ Len(prepared) < Len(batch) /\ snap # None
      /\ s \in Sessions /\ s \in Created /\ s # None
      /\ session[s] = [peer |-> batch[Index], target |-> snap.target, generation |-> snap.generation]
      /\ s \notin asked \cup Found \cup handle
      /\ s \in closed \cup Current \cup list["control"] \cup unwaited
      /\ pc[s] = "none" /\ list["rx"] = {}
      /\ UNCHANGED <<table, flags, tasks, list, history>>
  BY <1>1, <1>2, ActorsDiffer, Zenon
     DEF SpawnReplyLoop, MakingInv, Making, BatchInv, CreatedInv, Created
<1>4. CASE s \in closed
  <2>1. Prepared(s)
    BY <1>2, <1>4, Zenon DEF SpawnReplyLoop
  <2> QED BY <1>3, <1>4, <2>1, FindKeepsInv
<1>5. CASE s \notin closed
  <2>1. /\ pc' = [pc EXCEPT !["rx"] = "handle", ![s] = "loop"]
        /\ work' = [work EXCEPT ![s] = s]
        /\ UNCHANGED <<target, generation, sessions, session, closed, asked, handle, aborted, list,
                       batch, snap, prepared, dropped, unwaited>>
    BY <1>2, <1>3, <1>5, Zenon DEF SpawnReplyLoop, table, flags, tasks, locals, history
  <2>2. /\ DOMAIN pc' = Actors /\ pc'["rx"] = "handle" /\ pc'[s] = "loop"
        /\ \A b \in Actors \ {"rx", s} : pc'[b] = pc[b]
        /\ pc'["control"] = pc["control"]
        /\ work' \in [Actors -> Sessions \cup {None}] /\ work'[s] = s
        /\ \A b \in Actors \ {s} : work'[b] = work[b]
        /\ work'["control"] = work["control"] /\ work'["rx"] = s
    BY <1>1, <1>2, <1>3, <2>1, ActorsDiffer, Zenon DEF TypeOK
  <2>3. Created' = Created /\ Found' = Found /\ Index' = Index /\ Current' = Current
    BY <2>1, Zenon DEF Created, Found, Index, Current
  <2>4. \A t \in Sessions \ {s} : t \in Actors /\ t # "rx" /\ pc'[t] = pc[t] /\ work'[t] = work[t]
                                  /\ (Alive(t)' <=> Alive(t))
    BY <2>2, ActorsDiffer, Zenon DEF Alive
  <2>5. TypeOK'
    BY <1>1, <2>1, <2>2, Zenon DEF TypeOK
  <2>6. LabelsInv'
    <3>1. "handle" \in Labels("rx") /\ "loop" \in Labels(s)
      BY <1>3, ActorsDiffer, Zenon DEF Labels
    <3> QED BY <1>1, <2>2, <3>1, Zenon DEF LabelsInv
  <2>7. CreatedInv'
    <3>1. \A a \in Actors : work'[a] \in Created' \cup {None} /\ (pc'[a] = "remove" => work'[a] # None)
      BY <1>1, <1>3, <2>2, <2>3 DEF CreatedInv
    <3>2. \A t \in Sessions : (pc'[t] # "none" => t \in Created') /\ (Alive(t)' => work'[t] = t)
      BY <1>1, <1>3, <2>2, <2>3, <2>4 DEF CreatedInv
    <3> QED BY <1>1, <2>1, <2>3, <3>1, <3>2, Zenon DEF CreatedInv
  <2>8. TargetsInv'
    BY <1>1, <2>1, <2>3, Zenon DEF TargetsInv
  <2>9. BatchInv'
    BY <1>1, <1>3, <2>1, <2>2, Zenon DEF BatchInv, Making
  <2>10. MakingInv'
    BY <1>3, <2>1, <2>2, <2>3, Zenon DEF MakingInv, Making
  <2>11. TableInv'
    <3>1. TableFresh'
      BY <1>1, <2>1, <2>2, Zenon DEF TableInv, TableFresh
    <3> QED BY <1>1, <2>1, <2>2, <2>3, <3>1, Zenon DEF TableInv, SessionLimit
  <2>12. DeleteInv'
    BY <1>1, <1>3, <2>1, <2>2, <2>3, Zenon DEF DeleteInv
  <2>13. RepliesInv'
    <3>1. ASSUME NEW t \in Sessions, Reachable(t) PROVE Reachable(t)'
      BY <2>1, <2>2, <2>3, <3>1, Zenon DEF Reachable
    <3> QED BY <1>1, <1>3, <2>1, <2>2, <2>3, <2>4, <3>1, Zenon DEF RepliesInv
  <2> QED BY <2>5, <2>6, <2>7, <2>8, <2>9, <2>10, <2>11, <2>12, <2>13, Zenon DEF UdpInv
<1> QED BY <1>4, <1>5, Zenon

LEMMA StoreHandleKeepsInv ==
  ASSUME UdpInv, StoreHandle
  PROVE  UdpInv'
<1>1. /\ TypeOK /\ LabelsInv /\ CreatedInv /\ TargetsInv /\ BatchInv /\ MakingInv /\ TableInv
      /\ DeleteInv /\ RepliesInv
  BY Zenon DEF UdpInv
<1>2. PICK s : s = work["rx"]
  OBVIOUS
<1>3. /\ pc["rx"] = "handle" /\ Len(prepared) < Len(batch)
      /\ s \in Sessions /\ s \in Created /\ s # None
      /\ session[s] = [peer |-> batch[Index], target |-> snap.target, generation |-> snap.generation]
      /\ s \notin asked \cup Found
      /\ s \in closed \cup Current \cup list["control"] \cup unwaited
      /\ list["rx"] = {}
  BY <1>1, <1>2, ActorsDiffer, Zenon
     DEF StoreHandle, MakingInv, Making, BatchInv, CreatedInv, Created
<1>4. /\ handle' = handle \cup {s} /\ Prepared(s)
      /\ UNCHANGED <<target, generation, sessions, session, closed, asked, aborted, list, dropped,
                     unwaited>>
  BY <1>2, Zenon DEF StoreHandle, table, flags, history
<1>5. /\ prepared' \in Seq(Sessions \cup {None}) /\ UNCHANGED <<batch, snap>>
      /\ Found' = Found \cup {s}
      /\ BatchInv'
      /\ DOMAIN pc' = Actors /\ pc'["rx"] = "lookup"
      /\ work' \in [Actors -> Sessions \cup {None}] /\ work'["rx"] = None
      /\ \A b \in Actors \ {"rx"} : pc'[b] = pc[b] /\ work'[b] = work[b]
  <2>1. session[s].peer = batch[Index] /\ session[s].generation = snap.generation
    BY <1>3
  <2>2. None \notin Found
    BY Zenon DEF Found
  <2> QED BY <1>3, <1>4, <2>1, <2>2, PreparedFrame, Zenon
<1>6. RxMoves("lookup")
  BY <1>1, <1>3, <1>4, <1>5, Zenon DEF RxMoves, Labels, Alive, TypeOK
<1>7. Created' = Created /\ Current' = Current
  BY <1>4, Zenon DEF Created, Current
<1>8. TypeOK'
  BY <1>1, <1>3, <1>4, <1>5, Zenon DEF TypeOK
<1>9. CreatedInv'
  BY <1>1, <1>3, <1>4, <1>5, <1>6, <1>7, RxCreated DEF CreatedInv
<1>10. TargetsInv'
  BY <1>1, <1>4, <1>5, <1>7, Zenon DEF TargetsInv
<1>11. MakingInv'
  BY <1>3, <1>4, <1>5, Zenon DEF MakingInv, Making
<1>12. TableInv'
  <2>1. TableFresh'
    BY <1>1, <1>4, <1>6, RxFrame, Zenon DEF TableInv, TableFresh
  <2> QED BY <1>1, <1>4, <1>6, <1>7, <2>1, RxFrame, Zenon DEF TableInv, SessionLimit
<1>13. DeleteInv'
  BY <1>1, <1>4, <1>6, <1>7, RxFrame, Zenon DEF DeleteInv
<1>14. RepliesInv'
  <2>1. ASSUME NEW t \in Sessions, Reachable(t) PROVE Reachable(t)'
    BY <1>4, <1>6, <1>7, <2>1, RxFrame, Zenon DEF Reachable
  <2>2. s \notin closed => Reachable(s)'
    BY <1>3, <1>4, <1>7, Zenon DEF Reachable
  <2> QED BY <1>1, <1>2, <1>3, <1>4, <1>5, <1>6, <1>7, <2>1, <2>2, RxFrame, Zenon DEF RepliesInv
<1> QED BY <1>5, <1>6, <1>8, <1>9, <1>10, <1>11, <1>12, <1>13, <1>14, RxFrame, Zenon DEF UdpInv

-----------------------------------------------------------------------------
(* The batch is sent, session by session: the table only loses sessions, nobody is forgotten. *)
TableShrinks ==
  /\ sessions' \in [Peers -> Sessions \cup {None}]
  /\ \A p \in Peers : sessions'[p] # None => sessions'[p] = sessions[p]
  /\ Current' \subseteq Current
  /\ \A t \in Current \ Current' : t \in unwaited'
  /\ closed \subseteq closed' /\ closed' \subseteq Created
  /\ \A t \in Current' : t \in closed' => t \in closed \/ session[t].generation # generation
  /\ handle' \subseteq handle
  /\ \A t \in handle \ handle' : t \in unwaited'
  /\ \A t \in Current' : t \in handle => t \in handle'
  /\ aborted \subseteq aborted' /\ aborted' \subseteq aborted \cup Sessions
  /\ unwaited \subseteq unwaited' /\ unwaited' \subseteq Sessions

LEMMA RxSendsKeepsInv ==
  ASSUME UdpInv, NEW label, RxMoves(label),
         pc["rx"] \in {"lookup", "send", "remove"}, label \in {"recv", "send", "remove"},
         TableShrinks, UNCHANGED <<session, list>>,
         Found' \subseteq Found,
         pc["rx"] = "lookup" => Found' \cap closed' = {},
         asked \subseteq asked',
         asked' \subseteq asked \/ (pc["rx"] = "send" /\ asked' \subseteq asked \cup Found),
         work'["rx"] \in Created \cup {None}, label = "remove" => work'["rx"] # None,
         batch' \in Seq(Peers), snap' = snap \/ snap' = None,
         prepared' \in Seq(Sessions \cup {None}), BatchInv'
  PROVE  UdpInv'
<1>1. /\ TypeOK /\ LabelsInv /\ CreatedInv /\ TargetsInv /\ BatchInv /\ MakingInv /\ TableInv
      /\ DeleteInv /\ RepliesInv
  BY Zenon DEF UdpInv
<1>2. Created' = Created /\ Found \subseteq Created /\ Created \subseteq Sessions
  BY <1>1, Zenon DEF Created, CreatedInv
<1>3. /\ UNCHANGED <<target, generation, dropped>> /\ work' \in [Actors -> Sessions \cup {None}]
      /\ DOMAIN pc' = Actors /\ pc'["rx"] = label
  BY Zenon DEF RxMoves
<1>4. TypeOK'
  <2>1. /\ closed' \subseteq Sessions /\ asked' \subseteq Sessions /\ handle' \subseteq Sessions
        /\ aborted' \subseteq Actors
    BY <1>1, <1>2, ActorsDiffer, Zenon DEF TypeOK, TableShrinks
  <2> QED BY <1>1, <1>3, <2>1, Zenon DEF TypeOK, TableShrinks
<1>5. CreatedInv'
  BY <1>1, <1>2, RxCreated, Zenon DEF CreatedInv, TableShrinks
<1>6. TargetsInv'
  BY <1>1, <1>2, <1>3, Zenon DEF TargetsInv
<1>7. MakingInv'
  BY <1>1, <1>3, Zenon DEF MakingInv, Making
<1>8. IsFiniteSet(Current') /\ SessionLimit'
  <2>1. IsFiniteSet(Current') /\ Cardinality(Current') <= Cardinality(Current)
    BY <1>1, FS_Subset, Zenon DEF TableInv, TableShrinks
  <2>2. Cardinality(Current) \in Nat /\ Cardinality(Current') \in Nat /\ MaxSessions \in Nat
    BY <1>1, <2>1, FS_CardinalityType, UdpAssumption, Zenon DEF TableInv
  <2> QED BY <1>1, <2>1, <2>2 DEF TableInv, SessionLimit
<1>9. TableInv'
  <2>1. \A p \in Peers : sessions'[p] # None => sessions'[p] \in Current'
    BY Zenon DEF Current
  <2>2. TableFresh'
    <3>1. pc'["control"] = pc["control"] /\ session' = session
      BY RxFrame, Zenon
    <3>2. ASSUME NEW p \in Peers, sessions'[p] # None
          PROVE  /\ session[sessions'[p]].peer = p
                 /\ session[sessions'[p]].generation = generation
                    => session[sessions'[p]].target = target /\ sessions'[p] \notin closed'
                 /\ pc["control"] # "drain" /\ ~ dropped => session[sessions'[p]].generation = generation
      <4>1. sessions'[p] = sessions[p] /\ sessions[p] # None /\ sessions[p] \in Current'
        BY <2>1, <3>2 DEF TableShrinks
      <4>2. TableFresh
        BY <1>1, Zenon DEF TableInv
      <4>3. session[sessions[p]].generation = generation /\ sessions[p] \in closed'
            => sessions[p] \in closed
        BY <4>1, Zenon DEF TableShrinks
      <4> QED BY <4>1, <4>2, <4>3, Zenon DEF TableFresh
    <3> QED BY <1>3, <3>1, <3>2, Zenon DEF TableFresh
  <2> QED BY <1>1, <1>3, <1>8, <2>2, RxFrame, Zenon DEF TableInv, TableShrinks
<1>10. DeleteInv'
  <2>1. "control" \notin aborted' /\ "cleanup" \notin aborted'
    BY <1>1, RxFrame, ActorsDiffer, Zenon DEF DeleteInv, TableShrinks
  <2> QED BY <1>1, <1>3, <2>1, RxFrame DEF DeleteInv
<1>11. RepliesInv'
  <2>1. ASSUME NEW t \in Sessions, Reachable(t) PROVE Reachable(t)'
    BY <2>1, RxFrame, Zenon DEF Reachable, TableShrinks
  <2>2. \A t \in Sessions : (Alive(t)' <=> Alive(t)) /\ pc'[t] = pc[t]
    BY RxFrame, Zenon
  <2>3. ASSUME NEW t \in Sessions, Alive(t), t \in asked' \cup Found', t \notin closed' \/ t \in asked'
                 \/ label \in {"send", "remove"}
        PROVE  Reachable(t)
    BY <1>1, <2>3, Zenon DEF RepliesInv, TableShrinks
  <2> QED BY <1>1, <1>3, <2>1, <2>2, <2>3, Zenon DEF RepliesInv, TableShrinks
<1> QED BY <1>4, <1>5, <1>6, <1>7, <1>9, <1>10, <1>11, RxFrame, Zenon DEF UdpInv

(* The sessions that are left of a batch. *)
LEMMA OnlyFrame ==
  ASSUME UdpInv, NEW keep \in SUBSET Found, pc["rx"] \notin {"recv", "done"},
         Len(prepared) = Len(batch), prepared' = Only(keep), UNCHANGED <<batch, snap, session>>,
         pc'["rx"] \in {"send", "remove"}
  PROVE  prepared' \in Seq(Sessions \cup {None}) /\ Found' \subseteq keep /\ BatchInv'
<1>1. TypeOK /\ BatchInv
  BY Zenon DEF UdpInv
<1>2. DOMAIN prepared = 1..Len(prepared) /\ Len(prepared) \in Nat
      /\ \A i \in 1..Len(prepared) : prepared[i] \in Sessions \cup {None}
  BY <1>1 DEF TypeOK
<1>3. prepared' = [i \in 1..Len(prepared) |-> IF prepared[i] \in keep THEN prepared[i] ELSE None]
  BY <1>2, Zenon DEF Only
<1>4. /\ prepared' \in Seq(Sessions \cup {None}) /\ Len(prepared') = Len(prepared)
      /\ DOMAIN prepared' = 1..Len(prepared)
      /\ \A i \in 1..Len(prepared) : prepared'[i] = IF prepared[i] \in keep THEN prepared[i] ELSE None
  BY <1>2, <1>3
<1>5. Found' \subseteq keep
  BY <1>4, Zenon DEF Found
<1>6. BatchInv'
  BY <1>1, <1>2, <1>4, Zenon DEF BatchInv, Making
<1> QED BY <1>4, <1>5, <1>6, Zenon

LEMMA RemainingFrame ==
  ASSUME UdpInv, NEW keep \in SUBSET Found, pc["rx"] \in {"lookup", "send"},
         Len(prepared) = Len(batch), Remaining(Only(keep), "send"), UNCHANGED session
  PROVE  /\ \E label \in {"recv", "send"} : Go("rx", label)
         /\ batch' \in Seq(Peers) /\ (snap' = snap \/ snap' = None)
         /\ prepared' \in Seq(Sessions \cup {None}) /\ Found' \subseteq keep /\ BatchInv'
<1>1. TypeOK /\ "rx" \in Actors
  BY ActorsDiffer, Zenon DEF UdpInv
<1>2. CASE NextBatch
  <2>1. batch' = << >> /\ snap' = None /\ prepared' = << >> /\ Go("rx", "recv")
    BY <1>2, Zenon DEF NextBatch
  <2>2. pc'["rx"] = "recv"
    BY <1>1, <2>1, Zenon DEF Go, TypeOK
  <2>3. Found' = {} /\ Len(prepared') = 0
    BY <2>1 DEF Found
  <2>4. BatchInv'
    BY <2>1, <2>2, <2>3 DEF BatchInv, Making
  <2> QED BY <2>1, <2>3, <2>4
<1>3. CASE prepared' = Only(keep) /\ Go("rx", "send") /\ UNCHANGED <<batch, snap>>
  <2>1. pc'["rx"] = "send"
    BY <1>1, <1>3, Zenon DEF Go, TypeOK
  <2>2. prepared' \in Seq(Sessions \cup {None}) /\ Found' \subseteq keep /\ BatchInv'
    BY <1>3, <2>1, OnlyFrame, Zenon
  <2> QED BY <1>1, <1>3, <2>2, Zenon DEF TypeOK
<1> QED BY <1>2, <1>3, Zenon DEF Remaining

(* A step of the receive loop that leaves the tasks' sessions and the lists alone. *)
LEMMA RxGoes ==
  ASSUME UdpInv, Alive("rx"), NEW label \in Labels("rx"), Go("rx", label),
         NEW w \in Sessions \cup {None}, work' = [work EXCEPT !["rx"] = w],
         UNCHANGED <<target, generation, list, dropped>>
  PROVE  RxMoves(label) /\ work'["rx"] = w
<1>1. TypeOK
  BY Zenon DEF UdpInv
<1>2. /\ DOMAIN pc' = Actors /\ pc'["rx"] = label
      /\ work' \in [Actors -> Sessions \cup {None}] /\ work'["rx"] = w
      /\ \A b \in Actors \ {"rx"} : pc'[b] = pc[b] /\ work'[b] = work[b]
  BY <1>1, ActorsDiffer, Zenon DEF Go, TypeOK
<1> QED BY <1>1, <1>2, Zenon DEF RxMoves, TypeOK

LEMMA VerifyKeepsInv ==
  ASSUME UdpInv, Verify
  PROVE  UdpInv'
<1>1. TypeOK /\ CreatedInv /\ BatchInv /\ MakingInv
  BY Zenon DEF UdpInv
<1>2. PICK good : good = {s \in Found : /\ ~ Overtaken
                                        /\ session[s].generation = snap.generation
                                        /\ s \notin closed}
  BY Zenon
<1>3. /\ pc["rx"] = "lookup" /\ Len(prepared) = Len(batch)
      /\ closed' = closed \cup (Found \ good)
      /\ Remaining(Only(good), "send")
      /\ UNCHANGED <<table, asked, tasks, work, list, history>>
  BY <1>2, Zenon DEF Verify
<1>4. UNCHANGED <<target, generation, sessions, session, handle, aborted, dropped, unwaited>>
  BY <1>3, Zenon DEF table, tasks, history
<1>5. good \in SUBSET Found /\ Found \subseteq Created
  BY <1>1, <1>2, Zenon DEF CreatedInv
<1>6. /\ \E label \in {"recv", "send"} : Go("rx", label)
      /\ batch' \in Seq(Peers) /\ (snap' = snap \/ snap' = None)
      /\ prepared' \in Seq(Sessions \cup {None}) /\ Found' \subseteq good /\ BatchInv'
  BY <1>3, <1>4, <1>5, RemainingFrame, Zenon
<1>7. PICK label \in {"recv", "send"} : Go("rx", label)
  BY <1>6, Zenon
<1>8. RxMoves(label) /\ work'["rx"] \in Created \cup {None}
  <2>1. /\ Alive("rx") /\ label \in Labels("rx") /\ work["rx"] \in Created \cup {None}
        /\ work["rx"] \in Sessions \cup {None}
    BY <1>1, <1>3, ActorsDiffer, Zenon DEF Alive, Labels, CreatedInv, Created
  <2>2. work' = [work EXCEPT !["rx"] = work["rx"]]
    BY <1>1, <1>3, Zenon DEF TypeOK
  <2> QED BY <1>3, <1>4, <1>7, <2>1, <2>2, RxGoes, Zenon
<1>9. TableShrinks
  <2>1. Current' = Current
    BY <1>4, Zenon DEF Current
  <2>2. \A t \in Found : session[t].generation = snap.generation
    BY <1>1, <1>3 DEF Found, BatchInv, TypeOK
  <2>3. \A t \in Found \ good : t \in closed \/ session[t].generation # generation
    BY <1>2, <2>2, Zenon DEF Overtaken
  <2> QED BY <1>1, <1>3, <1>4, <1>5, <2>1, <2>3, Zenon DEF TableShrinks, TypeOK, CreatedInv
<1>10. Found' \subseteq Found /\ Found' \cap closed' = {}
  BY <1>2, <1>3, <1>5, <1>6, Zenon
<1> QED BY <1>3, <1>4, <1>6, <1>7, <1>8, <1>9, <1>10, RxSendsKeepsInv, Zenon

(* The table and the tasks are left alone. *)
LEMMA NothingShrinks ==
  ASSUME UdpInv, UNCHANGED <<sessions, closed, handle, aborted, unwaited>>
  PROVE  TableShrinks
<1>1. TypeOK /\ CreatedInv /\ Current' = Current
  BY Zenon DEF UdpInv, Current
<1> QED BY <1>1, Zenon DEF TableShrinks, TypeOK, CreatedInv

LEMMA SendKeepsInv ==
  ASSUME UdpInv, Send
  PROVE  UdpInv'
<1>1. TypeOK /\ CreatedInv /\ BatchInv
  BY Zenon DEF UdpInv
<1>2. /\ pc["rx"] = "send" /\ Len(prepared) = Len(batch)
      /\ UNCHANGED <<target, generation, sessions, session, closed, handle, aborted, list, dropped,
                     unwaited>>
  BY <1>1, Zenon DEF Send, table, tasks, history, BatchInv
<1>3. PICK s \in Found :
       \/ /\ asked' = asked \cup {s}
          /\ Remaining(Only(Found \ {s}), "send")
          /\ UNCHANGED work
       \/ /\ asked' \in {asked, asked \cup {s}}
          /\ prepared' = Only(Found \ {s})
          /\ work' = [work EXCEPT !["rx"] = s]
          /\ Go("rx", "remove")
          /\ UNCHANGED <<batch, snap>>
  BY Zenon DEF Send
<1>4. s \in Created /\ s \in Sessions /\ s # None /\ Alive("rx") /\ "rx" \in Actors
  BY <1>1, <1>2, ActorsDiffer, Zenon DEF CreatedInv, Created, Alive
<1>5. TableShrinks
  BY <1>2, NothingShrinks, Zenon
<1>6. CASE /\ asked' = asked \cup {s}
           /\ Remaining(Only(Found \ {s}), "send")
           /\ UNCHANGED work
  <2>1. /\ \E label \in {"recv", "send"} : Go("rx", label)
        /\ batch' \in Seq(Peers) /\ (snap' = snap \/ snap' = None)
        /\ prepared' \in Seq(Sessions \cup {None}) /\ Found' \subseteq Found \ {s} /\ BatchInv'
    BY <1>2, <1>6, RemainingFrame, Zenon
  <2>2. PICK label \in {"recv", "send"} : Go("rx", label)
    BY <2>1, Zenon
  <2>3. RxMoves(label) /\ work'["rx"] \in Created \cup {None}
    <3>1. /\ label \in Labels("rx") /\ work["rx"] \in Created \cup {None}
          /\ work["rx"] \in Sessions \cup {None}
      BY <1>1, <1>4, Zenon DEF Labels, CreatedInv, Created
    <3>2. work' = [work EXCEPT !["rx"] = work["rx"]]
      BY <1>1, <1>6, Zenon DEF TypeOK
    <3> QED BY <1>2, <1>4, <2>2, <3>1, <3>2, RxGoes, Zenon
  <2> QED BY <1>2, <1>5, <1>6, <2>1, <2>2, <2>3, RxSendsKeepsInv, Zenon
<1>7. CASE /\ asked' \in {asked, asked \cup {s}}
           /\ prepared' = Only(Found \ {s})
           /\ work' = [work EXCEPT !["rx"] = s]
           /\ Go("rx", "remove")
           /\ UNCHANGED <<batch, snap>>
  <2>1. RxMoves("remove") /\ work'["rx"] = s
    <3>1. "remove" \in Labels("rx")
      BY Zenon DEF Labels
    <3> QED BY <1>2, <1>4, <1>7, <3>1, RxGoes, Zenon
  <2>2. pc'["rx"] = "remove"
    BY <2>1, Zenon DEF RxMoves
  <2>3. prepared' \in Seq(Sessions \cup {None}) /\ Found' \subseteq Found \ {s} /\ BatchInv'
    BY <1>2, <1>7, <2>2, OnlyFrame, Zenon
  <2>4. batch' \in Seq(Peers)
    BY <1>1, <1>7, Zenon DEF TypeOK
  <2> QED BY <1>2, <1>4, <1>5, <1>7, <2>1, <2>3, <2>4, RxSendsKeepsInv, Zenon
<1> QED BY <1>3, <1>6, <1>7, Zenon

LEMMA ResumeKeepsInv ==
  ASSUME UdpInv, Resume
  PROVE  UdpInv'
<1>1. TypeOK /\ CreatedInv
  BY Zenon DEF UdpInv
<1>2. /\ pc["rx"] = "send"
      /\ Go("rx", "recv") /\ batch' = << >> /\ snap' = None /\ prepared' = << >>
      /\ UNCHANGED <<target, generation, sessions, session, closed, asked, handle, aborted, work, list,
                     dropped, unwaited>>
  BY Zenon DEF Resume, NextBatch, table, flags, tasks, history
<1>3. TableShrinks
  BY <1>2, NothingShrinks, Zenon
<1>4. RxMoves("recv") /\ work'["rx"] \in Created \cup {None}
  <2>1. /\ Alive("rx") /\ "recv" \in Labels("rx") /\ work["rx"] \in Created \cup {None}
        /\ work["rx"] \in Sessions \cup {None}
    BY <1>1, <1>2, ActorsDiffer, Zenon DEF Alive, Labels, CreatedInv, Created
  <2>2. work' = [work EXCEPT !["rx"] = work["rx"]]
    BY <1>1, <1>2, Zenon DEF TypeOK
  <2> QED BY <1>2, <2>1, <2>2, RxGoes, Zenon
<1>5. Found' = {} /\ Len(prepared') = 0 /\ pc'["rx"] = "recv"
  BY <1>2, <1>4 DEF Found, RxMoves
<1>6. BatchInv'
  BY <1>2, <1>5 DEF BatchInv, Making
<1>7. batch' \in Seq(Peers) /\ prepared' \in Seq(Sessions \cup {None})
  BY <1>2
<1> QED BY <1>2, <1>3, <1>4, <1>5, <1>6, <1>7, RxSendsKeepsInv, Zenon

(* The upstream of a session could not be sent to. *)
LEMMA RxRemoveKeepsInv ==
  ASSUME UdpInv, Remove("rx")
  PROVE  UdpInv'
<1>1. TypeOK /\ CreatedInv /\ BatchInv /\ TableInv
  BY Zenon DEF UdpInv
<1>2. pc["rx"] = "remove" /\ "rx" \in Actors /\ Alive("rx")
  BY ActorsDiffer, Zenon DEF Remove, Alive
<1>3. PICK s \in Sessions : s = work["rx"] /\ s \in Created
  BY <1>1, <1>2, Zenon DEF CreatedInv, Created
<1>4. PICK p \in Peers : p = session[s].peer
  BY <1>1, <1>3, Zenon DEF TypeOK, Created, SessionFields
<1>5. /\ UNCHANGED <<target, generation, session, asked, batch, snap, prepared, list, dropped>>
      /\ work' = [work EXCEPT !["rx"] = None] /\ Go("rx", "send")
  BY Zenon DEF Remove, locals, Caller
<1>6. RxMoves("send") /\ work'["rx"] = None
  <2>1. "send" \in Labels("rx")
    BY Zenon DEF Labels
  <2> QED BY <1>2, <1>5, <2>1, RxGoes, Zenon
<1>7. TableShrinks
  <2>1. CASE sessions[p] # s
    BY <1>3, <1>4, <2>1, NothingShrinks, Zenon DEF Remove, tasks
  <2>2. CASE sessions[p] = s
    <3>1. s \in Current
      BY <2>2, ActorsDiffer, Zenon DEF Current
    <3>2. Removes(s)
      BY <1>3, <1>4, <2>2, <3>1, Zenon DEF Remove, Removes
    <3>3. /\ sessions' \in [Peers -> Sessions \cup {None}]
          /\ Current' = Current \ {s}
          /\ \A q \in Peers : sessions'[q] # None => sessions'[q] = sessions[q]
      BY <1>1, <3>2, RemovesFromTable, Zenon DEF TableInv
    <3>4. closed \subseteq Created
      BY <1>1, Zenon DEF CreatedInv
    <3>5. unwaited \subseteq Sessions
      BY <1>1, Zenon DEF TypeOK
    <3> QED BY <1>3, <3>2, <3>3, <3>4, <3>5, Zenon DEF TableShrinks, Removes, TakeHandle
  <2> QED BY <2>1, <2>2, Zenon
<1>8. Found' = Found /\ BatchInv'
  BY <1>1, <1>2, <1>5, <1>6 DEF Found, BatchInv, Making, RxMoves
<1>9. batch \in Seq(Peers) /\ prepared \in Seq(Sessions \cup {None})
  BY <1>1, Zenon DEF TypeOK
<1> QED BY <1>2, <1>5, <1>6, <1>7, <1>8, <1>9, RxSendsKeepsInv, Zenon

-----------------------------------------------------------------------------
LEMMA InitInv == Init => UdpInv
<1> SUFFICES ASSUME Init PROVE UdpInv
  OBVIOUS
<1>1. /\ Current = {} /\ Created = {} /\ Found = {}
      /\ pc["rx"] = "recv" /\ pc["cleanup"] = "tick" /\ pc["control"] = "ready"
      /\ \A s \in Sessions : pc[s] = "none"
      /\ DOMAIN pc = Actors
      /\ \A a \in Actors : work[a] = None
      /\ list["rx"] = {} /\ list["control"] = {}
  <2>1. Current = {}
    BY Zenon DEF Init, Current
  <2>2. Created = {} /\ Found = {}
    BY DEF Init, Created, Found
  <2>3. pc["rx"] = "recv" /\ pc["cleanup"] = "tick" /\ pc["control"] = "ready" /\ DOMAIN pc = Actors
    BY ActorsDiffer, Zenon DEF Init
  <2>4. \A s \in Sessions : pc[s] = "none"
    BY ActorsDiffer, Zenon DEF Init
  <2>5. (\A a \in Actors : work[a] = None) /\ list["rx"] = {} /\ list["control"] = {}
    BY Zenon DEF Init
  <2> QED BY <2>1, <2>2, <2>3, <2>4, <2>5, Zenon
<1>2. TypeOK
  <2>1. target \in Targets \cup {None} /\ generation \in 0..MaxGeneration
    BY UdpAssumption, SMT DEF Init
  <2>6. dropped \in BOOLEAN
    BY Zenon DEF Init
  <2>2. /\ sessions \in [Peers -> Sessions \cup {None}]
        /\ session \in [Sessions -> SessionFields \cup {None}]
        /\ work \in [Actors -> Sessions \cup {None}]
    BY Zenon DEF Init
  <2>3. list \in [{"rx", "control"} -> SUBSET Sessions]
    BY Zenon DEF Init
  <2>4. /\ batch \in Seq(Peers) /\ prepared \in Seq(Sessions \cup {None})
        /\ snap \in Snapshots \cup {None}
    BY DEF Init
  <2>5. /\ closed \subseteq Sessions /\ asked \subseteq Sessions /\ handle \subseteq Sessions
        /\ aborted \subseteq Actors /\ unwaited \subseteq Sessions
    BY Zenon DEF Init
  <2> QED BY <1>1, <2>1, <2>2, <2>3, <2>4, <2>5, <2>6, Zenon DEF TypeOK
<1>3. LabelsInv
  BY <1>1, ActorsDiffer, Zenon DEF LabelsInv, Labels
<1>4. CreatedInv
  <2>1. \A a \in Actors : pc[a] # "remove"
    BY <1>1, ActorsDiffer, Zenon
  <2> QED BY <1>1, <2>1, Zenon DEF Init, CreatedInv, Alive
<1>5. TargetsInv
  BY <1>1, Zenon DEF Init, TargetsInv
<1>6. BatchInv
  BY <1>1 DEF Init, BatchInv, Making
<1>7. MakingInv
  BY <1>1, Zenon DEF MakingInv, Making
<1>8. TableInv
  <2>1. IsFiniteSet(Current) /\ Cardinality(Current) = 0
    BY <1>1, FS_EmptySet, Zenon
  <2>2. \A p \in Peers : sessions[p] = None
    BY Zenon DEF Init
  <2> QED BY <1>1, <2>1, <2>2, UdpAssumption DEF TableInv, SessionLimit, TableFresh
<1>9. DeleteInv
  BY <1>1, Zenon DEF Init, DeleteInv
<1>10. RepliesInv
  BY <1>1, Zenon DEF RepliesInv, Alive
<1> QED BY <1>2, <1>3, <1>4, <1>5, <1>6, <1>7, <1>8, <1>9, <1>10, Zenon DEF UdpInv

LEMMA NextKeepsInv ==
  ASSUME UdpInv, [Next]_vars
  PROVE  UdpInv'
<1>1. CASE Receive
  BY <1>1, ReceiveKeepsInv, Zenon
<1>2. CASE ReceiveFails
  BY <1>2, RxEnds, Zenon
<1>3. CASE ReceiveStep
  BY <1>3, LookupKeepsInv, InsertKeepsInv, ReplacedKeepsInv, SpawnKeepsInv, StoreHandleKeepsInv,
     VerifyKeepsInv, SendKeepsInv, RxRemoveKeepsInv, ResumeKeepsInv, Zenon DEF ReceiveStep
<1>4. CASE \E s \in Sessions : ReplyReceived(s) \/ ReplyStep(s)
  BY <1>4, ReplyKeepsInv, Zenon
<1>5. CASE Expire \/ Remove("cleanup")
  BY <1>5, CleanupKeepsInv, Zenon
<1>6. CASE Update \/ Delete \/ ControlStep \/ Dropped
  BY <1>6, ControlKeepsInv, Zenon
<1>7. CASE \E a \in Actors : Die(a)
  <2>1. PICK a \in Actors : Die(a)
    BY <1>7, Zenon
  <2>2. a # "control"
    BY <2>1, Zenon DEF UdpInv, DeleteInv, Die
  <2>3. a = "rx" \/ a \in Sessions \cup {"cleanup"}
    BY <2>2, ActorsDiffer, Zenon
  <2> QED BY <2>1, <2>3, RxEnds, OtherDies, Zenon
<1>8. CASE \E a \in {"rx", "cleanup"} : Shutdown(a)
  BY <1>8, RxEnds, OtherDies, Zenon
<1>9. CASE UNCHANGED vars
  <2>1. UNCHANGED <<target, generation, sessions, session, closed, asked, handle, aborted,
                    pc, work, batch, snap, prepared, list, dropped, unwaited>>
    BY <1>9, Zenon DEF vars
  <2>2. Created' = Created /\ Current' = Current /\ Found' = Found /\ Index' = Index
        /\ (Making' <=> Making)
    BY <2>1, Zenon DEF Created, Current, Found, Index, Making
  <2>3. TypeOK' /\ LabelsInv' /\ CreatedInv'
    BY <2>1, <2>2, Zenon DEF UdpInv, TypeOK, LabelsInv, CreatedInv, Alive
  <2>4. TargetsInv' /\ BatchInv' /\ MakingInv'
    BY <2>1, <2>2, Zenon DEF UdpInv, TargetsInv, BatchInv, MakingInv
  <2>5. TableInv' /\ DeleteInv'
    BY <2>1, <2>2, Zenon DEF UdpInv, TableInv, SessionLimit, TableFresh, DeleteInv
  <2>6. RepliesInv'
    BY <2>1, <2>2, Zenon DEF UdpInv, RepliesInv, Reachable, Alive
  <2> QED BY <2>3, <2>4, <2>5, <2>6, Zenon DEF UdpInv
<1> QED BY <1>1, <1>2, <1>3, <1>4, <1>5, <1>6, <1>7, <1>8, <1>9, Zenon DEF Next

(* The inductive invariant: however the receive, reply and cleanup loops of runtime/udp.rs  *)
(* interleave at their awaits with update and delete, and wherever an operation is dropped. *)
THEOREM UdpInvariance == Spec => []UdpInv
<1>1. Init => UdpInv
  BY InitInv, Zenon
<1>2. UdpInv /\ [Next]_vars => UdpInv'
  BY NextKeepsInv, Zenon
<1> QED BY <1>1, <1>2, PTL DEF Spec

(* session_for looks at max_sessions under one lock of the table and inserts under another,  *)
(* and the table still never holds more than max_sessions.                                   *)
THEOREM SessionLimitHolds == Spec => []SessionLimit
<1>1. UdpInv => SessionLimit
  BY Zenon DEF UdpInv, TableInv
<1> QED BY <1>1, UdpInvariance, PTL

(* A session that session_for finds in the table is its client's own, and one of the current *)
(* generation leads to the current target and is open; outside of an update every session is *)
(* of the current generation.                                                                *)
THEOREM TableFreshHolds == Spec => []TableFresh
<1>1. UdpInv => TableFresh
  BY Zenon DEF UdpInv, TableInv
<1> QED BY <1>1, UdpInvariance, PTL

(* What send_prepared_batch sends goes to the target that prepare_datagram_batch read, over a *)
(* session of the datagram's own client, whatever updates come between.                       *)
THEOREM RightTargetHolds == Spec => []RightTarget
<1>1. ASSUME UdpInv PROVE RightTarget
  <2>1. TypeOK /\ CreatedInv /\ TargetsInv /\ BatchInv
    BY <1>1, Zenon DEF UdpInv
  <2>2. ASSUME pc["rx"] = "send", NEW i \in DOMAIN prepared, prepared[i] # None
        PROVE  session[prepared[i]].peer = batch[i] /\ session[prepared[i]].target = snap.target
    <3>1. i \in 1..Len(prepared) /\ snap # None
      BY <2>1, <2>2 DEF TypeOK, BatchInv
    <3>2. prepared[i] \in Created
      BY <2>1, <2>2, Zenon DEF Found, CreatedInv
    <3> QED BY <2>1, <2>2, <3>1, <3>2, Zenon DEF BatchInv, TargetsInv
  <2> QED BY <2>2, Zenon DEF RightTarget
<1>2. UdpInv => RightTarget
  BY <1>1, Zenon
<1> QED BY <1>2, UdpInvariance, PTL

(* close_sessions waits for every reply loop it aborts: when update or delete has returned,  *)
(* a reply on its way to a client is of a session of the current generation, or of one that  *)
(* was removed before and waited for by nobody, or that the receive loop waits for itself.   *)
THEOREM NoLateRepliesHolds == Spec => []NoLateReplies
<1>1. ASSUME UdpInv PROVE NoLateReplies
  <2>1. TableInv /\ DeleteInv /\ RepliesInv
    BY <1>1, Zenon DEF UdpInv
  <2>2. ASSUME NEW s \in Sessions, pc[s] = "send", ~ dropped,
               \/ pc["control"] = "done"
               \/ pc["control"] = "ready" /\ session[s].generation # generation
        PROVE  s \in unwaited \cup list["rx"]
    <3>1. Reachable(s)
      BY <2>1, <2>2, Zenon DEF RepliesInv, Alive
    <3>2. s \notin list["control"]
      BY <2>1, <2>2, Zenon DEF TableInv
    <3>3. s \notin Current
      BY <2>1, <2>2 DEF TableInv, TableFresh, DeleteInv, Current
    <3> QED BY <2>2, <3>1, <3>2, <3>3, Zenon DEF Reachable
  <2> QED BY <2>2, Zenon DEF NoLateReplies
<1>2. UdpInv => NoLateReplies
  BY <1>1, Zenon
<1> QED BY <1>2, UdpInvariance, PTL
=============================================================================
