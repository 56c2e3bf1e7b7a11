--------------------------- MODULE UdpTasks_proofs ---------------------------
(***************************************************************************)
(* The invariant of UdpListenerInv is kept by the reply loops, the cleanup *)
(* loop and the control operations.                                        *)
(***************************************************************************)
EXTENDS UdpListenerInv, FiniteSetTheorems, TLAPS

(* The tasks are four kinds of things. *)
LEMMA ActorsDiffer ==
  /\ Actors = {"rx", "cleanup", "control"} \cup Sessions
  /\ "rx" \notin Sessions /\ "cleanup" \notin Sessions /\ "control" \notin Sessions
  /\ None \notin Sessions
BY UdpAssumption, Zenon DEF Actors

-----------------------------------------------------------------------------
(* The reply loops and the cleanup loop. *)

(* What they may do to the table and the flags: nothing; close a session that is no longer   *)
(* current; or take a session out of the table, close it and abort its reply loop.            *)
Closes(s) ==
  /\ s \in Created
  /\ Alive(s)
  /\ s \in Current => session[s].generation # generation
  /\ closed' = closed \cup {s}
  /\ UNCHANGED <<sessions, handle, aborted, unwaited>>

Removes(s) ==
  /\ s \in Current
  /\ \E p \in Peers : sessions[p] = s /\ sessions' = [sessions EXCEPT ![p] = None]
  /\ closed' = closed \cup {s}
  /\ TakeHandle(s)
  /\ unwaited' = unwaited \cup {s}

Leaves(s) == UNCHANGED <<sessions, closed, handle, aborted, unwaited>> \/ Closes(s) \/ Removes(s)

(* Task a goes to a label, on behalf of work'[a]. *)
OtherMoves(a, label) ==
  /\ a \in Sessions \cup {"cleanup"}
  /\ Alive(a)
  /\ label \in Labels(a) \ {"none"}
  /\ pc' = [pc EXCEPT ![a] = label]
  /\ work' \in [Actors -> Sessions \cup {None}]
  /\ \A b \in Actors \ {a} : work'[b] = work[b]
  /\ work'[a] \in Created \cup {None}
  /\ label = "remove" => work'[a] # None
  /\ (a \in Sessions /\ label # "done") => work'[a] = a
  /\ (a \in Sessions /\ label \in {"check", "send", "remove"}) => a \in asked
  /\ UNCHANGED <<target, generation, session, asked, batch, snap, prepared, list, dropped>>
  /\ \E s \in Sessions \cup {None} : Leaves(s)

(* The table loses at most the session that is removed. *)
LEMMA RemovesFromTable ==
  ASSUME TypeOK, TableFresh, NEW s \in Sessions \cup {None}, Removes(s)
  PROVE  /\ sessions' \in [Peers -> Sessions \cup {None}]
         /\ Current' = Current \ {s}
         /\ \A p \in Peers : sessions'[p] # None => sessions'[p] = sessions[p]
<1>1. PICK p \in Peers : sessions[p] = s /\ sessions' = [sessions EXCEPT ![p] = None]
  BY Zenon DEF Removes
<1>2. \A q \in Peers : sessions[q] = s => q = p
  BY <1>1, Zenon DEF TableFresh, Removes, Current
<1>3. \A q \in Peers : sessions'[q] = IF q = p THEN None ELSE sessions[q]
  BY <1>1, Zenon DEF TypeOK
<1>4. sessions' \in [Peers -> Sessions \cup {None}]
  BY <1>1, Zenon DEF TypeOK
<1>5. Current' = Current \ {s}
  BY <1>1, <1>2, <1>3, ActorsDiffer, Zenon DEF Current
<1> QED BY <1>3, <1>4, <1>5, Zenon

LEMMA OtherKeepsInv ==
  ASSUME UdpInv, NEW a, NEW label, OtherMoves(a, label)
  PROVE  UdpInv'
<1>1. PICK s \in Sessions \cup {None} : Leaves(s)
  BY Zenon DEF OtherMoves
<1>2. /\ TypeOK /\ LabelsInv /\ CreatedInv /\ TargetsInv /\ BatchInv /\ MakingInv /\ TableInv
      /\ DeleteInv /\ RepliesInv
  BY Zenon DEF UdpInv
<1>3. /\ a \in Actors /\ a \notin {"rx", "control"}
      /\ pc' = [pc EXCEPT ![a] = label] /\ DOMAIN pc = Actors
      /\ pc'["rx"] = pc["rx"] /\ pc'["control"] = pc["control"]
      /\ \A b \in Actors \ {a} : pc'[b] = pc[b]
      /\ pc'[a] = label
      /\ work'["rx"] = work["rx"] /\ work'["control"] = work["control"]
  BY <1>2, ActorsDiffer DEF OtherMoves, TypeOK
<1>4. /\ Created' = Created /\ Found' = Found /\ Index' = Index /\ (Making' <=> Making)
      /\ UNCHANGED <<target, generation, session, asked, batch, snap, prepared, list, dropped>>
  BY <1>3 DEF OtherMoves, Created, Found, Index, Making
<1>5. /\ Current' \subseteq Current
      /\ sessions' \in [Peers -> Sessions \cup {None}]
      /\ \A p \in Peers : sessions'[p] # None => sessions'[p] = sessions[p]
      /\ s \in Created \/ UNCHANGED <<closed, aborted, unwaited>>
      /\ closed \subseteq closed' /\ closed' \subseteq closed \cup {s}
      /\ unwaited \subseteq unwaited' /\ unwaited' \subseteq unwaited \cup {s}
      /\ handle' \subseteq handle
      /\ aborted' \subseteq aborted \cup {s} /\ aborted \subseteq aborted'
      /\ \A t \in Current \ Current' : t \in unwaited' /\ t \in closed'
      /\ \A t \in handle \ handle' : t \in unwaited'
      /\ \A t \in Current' : t \in closed' => t \in closed \/ session[t].generation # generation
      /\ \A t \in Current' : t \in handle => t \in handle'
  <2>1. CASE UNCHANGED <<sessions, closed, handle, aborted, unwaited>>
    <3>1. Current' = Current
      BY <2>1, Zenon DEF Current
    <3> QED BY <1>2, <2>1, <3>1, Zenon DEF TypeOK
  <2>2. CASE Closes(s)
    <3>1. Current' = Current
      BY <2>2, Zenon DEF Current, Closes
    <3> QED BY <1>2, <2>2, <3>1, Zenon DEF TypeOK, Closes
  <2>3. CASE Removes(s)
    <3>1. s \in Created
      BY <1>2, <2>3, Zenon DEF Removes, CreatedInv
    <3>2. /\ sessions' \in [Peers -> Sessions \cup {None}]
          /\ Current' = Current \ {s}
          /\ \A p \in Peers : sessions'[p] # None => sessions'[p] = sessions[p]
      BY <1>2, <2>3, RemovesFromTable, Zenon DEF TableInv
    <3> QED BY <1>2, <2>3, <3>1, <3>2, Zenon DEF Removes, TakeHandle
  <2> QED BY <1>1, <2>1, <2>2, <2>3, Zenon DEF Leaves
<1>6. TypeOK'
  <2>1. closed' \subseteq Sessions /\ aborted' \subseteq Actors /\ unwaited' \subseteq Sessions
        /\ handle' \subseteq Sessions
    BY <1>2, <1>5, ActorsDiffer DEF TypeOK, Created
  <2> QED BY <1>2, <1>3, <1>4, <1>5, <2>1 DEF TypeOK, OtherMoves
<1>7. LabelsInv'
  BY <1>2, <1>3, Zenon DEF LabelsInv, OtherMoves
<1>8. CreatedInv'
  BY <1>2, <1>3, <1>4, <1>5, ActorsDiffer DEF CreatedInv, OtherMoves, LabelsInv, Alive
<1>9. TargetsInv'
  BY <1>2, <1>4, Zenon DEF TargetsInv
<1>10. BatchInv'
  BY <1>2, <1>3, <1>4, Zenon DEF BatchInv
<1>11. IsFiniteSet(Current') /\ Cardinality(Current') <= Cardinality(Current)
  BY <1>2, <1>5, FS_Subset, Zenon DEF TableInv
<1>12. TableInv'
  <2>1. Cardinality(Current) \in Nat /\ Cardinality(Current') \in Nat /\ MaxSessions \in Nat
    BY <1>2, <1>11, FS_CardinalityType, UdpAssumption, Zenon DEF TableInv
  <2>2. SessionLimit'
    BY <1>2, <1>11, <2>1 DEF TableInv, SessionLimit
  <2>3. \A p \in Peers : sessions'[p] # None => sessions'[p] \in Current'
    BY Zenon DEF Current
  <2>4. TableFresh'
    BY <1>2, <1>3, <1>4, <1>5, <2>3 DEF TableInv, TableFresh
  <2> QED BY <1>2, <1>3, <1>4, <1>5, <1>11, <2>2, <2>4, Zenon DEF TableInv
<1>15. MakingInv'
  <2>1. Cardinality(Current) \in Nat /\ Cardinality(Current') \in Nat /\ MaxSessions \in Nat
    BY <1>2, <1>11, FS_CardinalityType, UdpAssumption, Zenon DEF TableInv
  <2>2. ASSUME Making, work["rx"] = a PROVE pc["rx"] = "handle"
    BY <1>2, <2>2, Zenon DEF MakingInv, Making, OtherMoves, Alive
  <2>3. ASSUME pc["rx"] = "insert" PROVE work["rx"] \notin closed'
    BY <1>1, <1>2, <2>3, Zenon DEF Leaves, Closes, Removes, MakingInv, Alive
  <2> QED BY <1>2, <1>3, <1>4, <1>5, <1>11, <2>1, <2>2, <2>3 DEF MakingInv, Making
<1>13. DeleteInv'
  BY <1>2, <1>3, <1>4, <1>5, ActorsDiffer, Zenon DEF DeleteInv, Created
<1>14. RepliesInv'
  <2>1. ASSUME NEW t \in Sessions, Reachable(t) PROVE Reachable(t)'
    BY <1>3, <1>4, <1>5, <2>1, Zenon DEF Reachable
  <2>2. ASSUME NEW t \in Sessions, Alive(t)' PROVE Alive(t)
    BY <1>2, <1>3, <2>2 DEF Alive, OtherMoves
  <2> QED BY <1>2, <1>3, <1>4, <1>5, <2>1, <2>2 DEF RepliesInv, OtherMoves
<1> QED BY <1>6, <1>7, <1>8, <1>9, <1>10, <1>12, <1>13, <1>14, <1>15, Zenon DEF UdpInv

(* One of these tasks ends. *)
LEMMA OtherEnds ==
  ASSUME UdpInv, NEW a \in Sessions \cup {"cleanup"}, Alive(a), End(a), UNCHANGED asked,
         NEW s \in Sessions \cup {None}, closed' = closed \/ Closes(s)
  PROVE  UdpInv'
<1>1. TypeOK
  BY Zenon DEF UdpInv
<1>2. a \in Actors /\ a \notin {"rx", "control"}
  BY ActorsDiffer, Zenon
<1>3. UNCHANGED <<list, unwaited>>
  BY <1>1, <1>2, Zenon DEF End, TypeOK
<1>4. UNCHANGED <<target, generation, session, sessions, handle, aborted, batch, snap, prepared,
                  dropped>>
  BY <1>2, Zenon DEF End, table, tasks, locals
<1>5. /\ pc' = [pc EXCEPT ![a] = "done"]
      /\ work' = [work EXCEPT ![a] = None]
  BY Zenon DEF End, Go
<1>6. /\ work' \in [Actors -> Sessions \cup {None}]
      /\ work'[a] = None
      /\ \A b \in Actors \ {a} : work'[b] = work[b]
  BY <1>1, <1>2, <1>5, Zenon DEF TypeOK
<1>7. "done" \in Labels(a) \ {"none"}
  BY <1>2, Zenon DEF Labels
<1>8. Leaves(s)
  BY <1>3, <1>4, Zenon DEF Leaves
<1>9. OtherMoves(a, "done")
  BY <1>3, <1>4, <1>5, <1>6, <1>7, <1>8, Zenon DEF OtherMoves
<1> QED BY <1>9, OtherKeepsInv, Zenon

(* One of them removes its session. *)
LEMMA OtherRemoves ==
  ASSUME UdpInv, NEW a \in Sessions \cup {"cleanup"}, Remove(a)
  PROVE  UdpInv'
<1>1. TypeOK /\ CreatedInv /\ TableInv
  BY Zenon DEF UdpInv
<1>2. a \in Actors /\ a \notin {"rx", "control"} /\ pc[a] = "remove"
  BY ActorsDiffer, Zenon DEF Remove
<1>3. PICK s \in Sessions : s = work[a] /\ s \in Created
  BY <1>1, <1>2, Zenon DEF CreatedInv, Created
<1>4. PICK p \in Peers : p = session[s].peer
  BY <1>1, <1>3, Zenon DEF TypeOK, Created, SessionFields
<1>5. UNCHANGED <<target, generation, session, asked, batch, snap, prepared, list, dropped>>
  BY Zenon DEF Remove, locals
<1>6. /\ pc' = [pc EXCEPT ![a] = Caller(a)]
      /\ work' = [work EXCEPT ![a] = None]
  BY Zenon DEF Remove, Go
<1>7. /\ work' \in [Actors -> Sessions \cup {None}]
      /\ work'[a] = None
      /\ \A b \in Actors \ {a} : work'[b] = work[b]
  BY <1>1, <1>2, <1>6, Zenon DEF TypeOK
<1>8. /\ Caller(a) \in Labels(a) \ {"none"} /\ Caller(a) \notin {"check", "send", "remove"}
      /\ a \in Sessions => Caller(a) = "done"
  BY <1>2, ActorsDiffer, Zenon DEF Labels, Caller
<1>9. Leaves(s)
  <2>1. CASE sessions[p] = s
    <3>1. s \in Current
      BY <2>1, ActorsDiffer, Zenon DEF Current
    <3> QED BY <1>3, <1>4, <2>1, <3>1, Zenon DEF Remove, Leaves, Removes
  <2>2. CASE sessions[p] # s
    BY <1>3, <1>4, <2>2, Zenon DEF Remove, Leaves, tasks
  <2> QED BY <2>1, <2>2, Zenon
<1>10. Alive(a)
  BY <1>2, Zenon DEF Alive
<1>11. OtherMoves(a, Caller(a))
  BY <1>5, <1>6, <1>7, <1>8, <1>9, <1>10, Zenon DEF OtherMoves
<1> QED BY <1>11, OtherKeepsInv, Zenon

(* One of them goes on and changes nothing else. *)
LEMMA OtherGoesOn ==
  ASSUME UdpInv, NEW a \in Sessions \cup {"cleanup"}, Alive(a), NEW label, Go(a, label),
         label \in Labels(a) \ {"none"},
         NEW w \in Created \cup {None}, work' = [work EXCEPT ![a] = w],
         label = "remove" => w # None, (a \in Sessions /\ label # "done") => w = a,
         (a \in Sessions /\ label \in {"check", "send", "remove"}) => a \in asked,
         UNCHANGED <<table, flags, tasks, locals, list, history>>
  PROVE  UdpInv'
<1>1. TypeOK
  BY Zenon DEF UdpInv
<1>2. a \in Actors /\ w \in Sessions \cup {None}
  BY ActorsDiffer, Zenon DEF Created
<1>3. /\ work' \in [Actors -> Sessions \cup {None}]
      /\ work'[a] = w
      /\ \A b \in Actors \ {a} : work'[b] = work[b]
  BY <1>1, <1>2, Zenon DEF TypeOK
<1>4. Leaves(None)
  BY Zenon DEF Leaves, table, flags, tasks, history
<1>5. OtherMoves(a, label)
  BY <1>3, <1>4, Zenon DEF OtherMoves, Go, table, flags, tasks, locals, history
<1> QED BY <1>5, OtherKeepsInv, Zenon

LEMMA ReplyKeepsInv ==
  ASSUME UdpInv, NEW s \in Sessions, ReplyReceived(s) \/ ReplyStep(s)
  PROVE  UdpInv'
<1>1. TypeOK /\ CreatedInv /\ RepliesInv /\ LabelsInv /\ TableInv
  BY Zenon DEF UdpInv
<1>2. s \in Actors /\ s \notin {"rx", "cleanup", "control"}
  BY ActorsDiffer, Zenon
<1>3. Labels(s) = {"none", "loop", "recv", "check", "send", "remove", "done"}
  BY <1>2, Zenon DEF Labels
<1>4. work[s] \in Created \cup {None} /\ work = [work EXCEPT ![s] = work[s]]
  BY <1>1, <1>2, Zenon DEF CreatedInv, TypeOK
<1>5. ASSUME Alive(s) PROVE s \in Created /\ work[s] = s /\ s # None
  BY <1>1, <1>5, ActorsDiffer, Zenon DEF CreatedInv, Alive
<1>6. CASE ReplyLoop(s)
  <2>1. Alive(s)
    BY <1>6, Zenon DEF ReplyLoop, Alive
  <2>2. CASE s \in closed
    BY <1>6, <2>1, <2>2, OtherEnds, Zenon DEF ReplyLoop, flags
  <2>3. CASE s \notin closed
    <3>1. Go(s, "recv") /\ UNCHANGED <<table, flags, tasks, work, locals, list, history>>
      BY <1>6, <2>3, Zenon DEF ReplyLoop
    <3> QED BY <1>3, <1>4, <1>5, <2>1, <3>1, OtherGoesOn
  <2> QED BY <2>2, <2>3, Zenon
<1>7. CASE ReplyReceived(s)
  <2>1. Alive(s) /\ s \in asked
    BY <1>7, Zenon DEF ReplyReceived, Alive
  <2>2. PICK label \in {"check", "remove"} :
          Go(s, label) /\ UNCHANGED <<table, flags, tasks, work, locals, list, history>>
    BY <1>7, Zenon DEF ReplyReceived
  <2> QED BY <1>3, <1>4, <1>5, <2>1, <2>2, OtherGoesOn, Zenon
<1>8. CASE ReplyChecked(s)
  <2>1. Alive(s) /\ s \in asked
    BY <1>1, <1>8, Zenon DEF ReplyChecked, Alive, RepliesInv
  <2>2. CASE IsCurrent(s)
    <3>1. Go(s, "send") /\ UNCHANGED <<table, flags, tasks, work, locals, list, history>>
      BY <1>8, <2>2, Zenon DEF ReplyChecked, flags
    <3> QED BY <1>3, <1>4, <1>5, <2>1, <3>1, OtherGoesOn, Zenon
  <2>3. CASE ~ IsCurrent(s)
    <3>1. closed' = closed \cup {s} /\ End(s) /\ UNCHANGED asked
      BY <1>8, <2>3, Zenon DEF ReplyChecked
    <3>2. s \in Current => session[s].generation # generation
      BY <1>1, <2>3, Zenon DEF IsCurrent, Current, TableInv, TableFresh
    <3>3. UNCHANGED <<sessions, handle, aborted, unwaited>>
      BY <1>2, <3>1, Zenon DEF End, table, tasks
    <3>4. Closes(s)
      BY <1>5, <2>1, <3>1, <3>2, <3>3, Zenon DEF Closes
    <3> QED BY <2>1, <3>1, <3>4, OtherEnds, Zenon
  <2> QED BY <2>2, <2>3, Zenon
<1>9. CASE ReplySent(s) \/ ReplyNotSent(s)
  <2>1. Alive(s) /\ s \in asked
    BY <1>1, <1>9, Zenon DEF ReplySent, ReplyNotSent, Alive, RepliesInv
  <2>2. PICK label \in {"loop", "remove"} :
          Go(s, label) /\ UNCHANGED <<table, flags, tasks, work, locals, list, history>>
    BY <1>9, Zenon DEF ReplySent, ReplyNotSent
  <2> QED BY <1>3, <1>4, <1>5, <2>1, <2>2, OtherGoesOn, Zenon
<1>10. CASE Remove(s)
  BY <1>10, OtherRemoves, Zenon
<1> QED BY <1>6, <1>7, <1>8, <1>9, <1>10, Zenon DEF ReplyStep

LEMMA CleanupKeepsInv ==
  ASSUME UdpInv, Expire \/ Remove("cleanup")
  PROVE  UdpInv'
<1>1. TypeOK /\ CreatedInv
  BY Zenon DEF UdpInv
<1>2. "cleanup" \in Actors /\ Labels("cleanup") = {"tick", "remove", "done"}
  BY ActorsDiffer, Zenon DEF Labels
<1>3. CASE Expire
  <2>1. PICK s \in Current : work' = [work EXCEPT !["cleanup"] = s]
    BY <1>3, Zenon DEF Expire
  <2>2. s \in Created /\ s \in Sessions /\ s # None
    BY <1>1, ActorsDiffer, Zenon DEF CreatedInv, Created
  <2>3. Alive("cleanup") /\ Go("cleanup", "remove")
    BY <1>3, Zenon DEF Expire, Alive
  <2>4. UNCHANGED <<table, flags, tasks, locals, list, history>>
    BY <1>3, Zenon DEF Expire
  <2> QED BY <1>2, <2>1, <2>2, <2>3, <2>4, ActorsDiffer, OtherGoesOn, Zenon
<1>4. CASE Remove("cleanup")
  BY <1>4, OtherRemoves, Zenon
<1> QED BY <1>3, <1>4, Zenon

(* The end of a task other than the receive loop: it was aborted, or saw the shutdown. *)
LEMMA OtherDies ==
  ASSUME UdpInv, NEW a \in Sessions \cup {"cleanup"}, Die(a) \/ Shutdown(a)
  PROVE  UdpInv'
<1>1. Alive(a) /\ End(a) /\ UNCHANGED <<closed, asked>>
  BY Zenon DEF Die, Shutdown, Alive, flags
<1> QED BY <1>1, OtherEnds, Zenon

-----------------------------------------------------------------------------
(* The control operations. *)

(* What no step of an operation changes. *)
ControlMoves(label) ==
  /\ label \in Labels("control")
  /\ DOMAIN pc' = Actors
  /\ pc'["control"] = label
  /\ work' \in [Actors -> Sessions \cup {None}]
  /\ \A b \in Actors \ {"control"} : pc'[b] = pc[b] /\ work'[b] = work[b]
  /\ UNCHANGED <<session, asked, batch, snap, prepared>>

LEMMA ControlFrame ==
  ASSUME UdpInv, NEW label, ControlMoves(label)
  PROVE  /\ Created' = Created /\ Found' = Found /\ Index' = Index /\ (Making' <=> Making)
         /\ pc'["control"] = label /\ pc'["rx"] = pc["rx"] /\ work'["rx"] = work["rx"]
         /\ \A b \in Actors \ {"control"} : pc'[b] = pc[b]
         /\ \A s \in Sessions : pc'[s] = pc[s] /\ (Alive(s)' <=> Alive(s)) /\ work'[s] = work[s]
         /\ DOMAIN pc' = Actors
         /\ label # "remove"
         /\ Making => work["rx"] \in Sessions /\ pc'[work["rx"]] = pc[work["rx"]]
         /\ LabelsInv'
         /\ BatchInv'
<1>1. TypeOK /\ LabelsInv /\ BatchInv
  BY Zenon DEF UdpInv
<1>2. /\ pc'["control"] = label
      /\ \A b \in Actors \ {"control"} : pc'[b] = pc[b]
      /\ DOMAIN pc' = Actors
  BY <1>1, ActorsDiffer, Zenon DEF ControlMoves, TypeOK
<1>3. pc'["rx"] = pc["rx"] /\ work'["rx"] = work["rx"] /\ \A s \in Sessions : pc'[s] = pc[s] /\ work'[s] = work[s]
  BY <1>2, ActorsDiffer, Zenon DEF ControlMoves
<1>4. Created' = Created /\ Found' = Found /\ Index' = Index /\ (Making' <=> Making)
  BY <1>3, Zenon DEF ControlMoves, Created, Found, Index, Making
<1>5. LabelsInv'
  BY <1>1, <1>2, Zenon DEF LabelsInv, ControlMoves
<1>6. BatchInv'
  BY <1>1, <1>3, <1>4, Zenon DEF BatchInv, ControlMoves
<1>7. label # "remove"
  BY Zenon DEF ControlMoves, Labels
<1>8. Making => work["rx"] \in Sessions /\ pc'[work["rx"]] = pc[work["rx"]]
  <2>1. "rx" \in Actors /\ CreatedInv /\ MakingInv
    BY ActorsDiffer, Zenon DEF UdpInv
  <2> QED BY <1>3, <2>1, Zenon DEF CreatedInv, MakingInv, Created
<1> QED BY <1>2, <1>3, <1>4, <1>5, <1>6, <1>7, <1>8, Zenon DEF Alive

LEMMA UpdateKeepsInv ==
  ASSUME UdpInv, Update
  PROVE  UdpInv'
<1>1. /\ TypeOK /\ LabelsInv /\ CreatedInv /\ TargetsInv /\ BatchInv /\ MakingInv /\ TableInv
      /\ DeleteInv /\ RepliesInv
  BY Zenon DEF UdpInv
<1>2. /\ UNCHANGED <<sessions, session, closed, asked, handle, aborted, work, batch, snap, prepared,
                     list, dropped, unwaited>>
      /\ generation \in Nat /\ generation' = generation + 1 /\ generation' \in 0..MaxGeneration
      /\ target' \in Targets \cup {None}
      /\ pc["control"] = "ready"
  BY <1>1, UdpAssumption DEF Update, flags, tasks, locals, history, TypeOK
<1>3. ControlMoves("drain")
  BY <1>1, <1>2, ActorsDiffer, Zenon DEF ControlMoves, Update, Go, Labels, TypeOK
<1>4. Current' = Current
  BY <1>2, Zenon DEF Current
<1>5. TypeOK'
  BY <1>1, <1>2, <1>3, ControlFrame, Zenon DEF TypeOK
<1>6. CreatedInv'
  BY <1>1, <1>2, <1>3, <1>4, ControlFrame, ActorsDiffer DEF CreatedInv
<1>7. TargetsInv'
  <2>1. \A s \in Created : session[s].generation \in Nat
    BY <1>1 DEF TypeOK, Created, SessionFields
  <2>2. snap # None => snap.generation \in Nat
    BY <1>1 DEF TypeOK, Snapshots
  <2> QED BY <1>1, <1>2, <1>3, <2>1, <2>2, ControlFrame DEF TargetsInv
<1>8. MakingInv'
  BY <1>1, <1>2, <1>3, <1>4, ControlFrame, Zenon DEF MakingInv, Making
<1>9. TableInv'
  <2>1. \A p \in Peers : sessions[p] # None =>
          sessions[p] \in Created /\ session[sessions[p]].generation # generation'
    <3>1. \A p \in Peers : sessions[p] # None => sessions[p] \in Created
      BY <1>1, Zenon DEF CreatedInv, Current
    <3>2. \A s \in Created : session[s].generation \in Nat /\ session[s].generation <= generation
      BY <1>1 DEF TypeOK, Created, SessionFields, TargetsInv
    <3> QED BY <1>2, <3>1, <3>2
  <2>2. TableFresh'
    BY <1>1, <1>2, <1>3, <2>1, ControlFrame, Zenon DEF TableInv, TableFresh
  <2> QED BY <1>1, <1>2, <1>3, <1>4, <2>2, ControlFrame DEF TableInv, SessionLimit
<1>10. DeleteInv'
  BY <1>1, <1>2, <1>3, <1>4, ControlFrame DEF DeleteInv
<1>11. RepliesInv'
  BY <1>1, <1>2, <1>3, <1>4, ControlFrame, Zenon DEF RepliesInv, Reachable
<1> QED BY <1>3, <1>5, <1>6, <1>7, <1>8, <1>9, <1>10, <1>11, ControlFrame, Zenon DEF UdpInv

(* delete before it drains the table, and the end of a wait. *)
LEMMA WaitsKeepInv ==
  ASSUME UdpInv, Delete \/ StopLoop \/ Wait
  PROVE  UdpInv'
<1>1. /\ TypeOK /\ LabelsInv /\ CreatedInv /\ TargetsInv /\ BatchInv /\ MakingInv /\ TableInv
      /\ DeleteInv /\ RepliesInv
  BY Zenon DEF UdpInv
<1>2. /\ UNCHANGED <<target, generation, sessions, session, closed, asked, handle, batch, snap,
                     prepared, list, dropped, unwaited>>
      /\ Current' = Current
  <2>1. UNCHANGED <<table, flags, handle, locals, list, history>>
    BY Zenon DEF Delete, StopLoop, Wait, tasks
  <2>2. UNCHANGED <<target, generation, sessions, session, closed, asked, handle, batch, snap,
                    prepared, list, dropped, unwaited>>
    BY <2>1, Zenon DEF table, flags, locals, history
  <2>3. Current' = Current
    BY <2>2, Zenon DEF Current
  <2> QED BY <2>2, <2>3, Zenon
<1>3. "control" \in Actors /\ "rx" \in Actors /\ "cleanup" \in Actors
  BY ActorsDiffer, Zenon
<1>4. PICK label \in Labels("control") :
        /\ ControlMoves(label)
        /\ label # "drain" => (pc["control"] = "drain" => FALSE)
        /\ label \notin {"done", "ready"}
        /\ label \in {"close", "wait"} => pc["control"] \in {"close", "wait"} /\ aborted' = aborted
        /\ pc["control"] \in {"close", "wait"} => label = "close" /\ pc["control"] = "wait"
                                                 /\ ~ Alive(work["control"])
        /\ aborted \subseteq aborted' /\ aborted' \subseteq aborted \cup {"rx", "cleanup"}
        /\ "cleanup" \in aborted' \ aborted => ~ Alive("rx")
        /\ label = "stop_cleanup" => "cleanup" \in aborted'
        /\ work'["control"] \in {work["control"], None}
  <2>1. CASE Delete
    <3>1. ControlMoves("stop_rx")
      BY <1>1, <1>3, <2>1, Zenon DEF Delete, ControlMoves, Go, Labels, TypeOK, table, flags, locals
    <3> QED BY <2>1, <3>1, Zenon DEF Delete, Labels
  <2>2. CASE StopLoop
    <3>1. PICK label \in {"stop_cleanup", "drain"} : Go("control", label)
      BY <2>2, Zenon DEF StopLoop
    <3>2. ControlMoves(label)
      BY <1>1, <1>3, <2>2, <3>1, Zenon
         DEF StopLoop, ControlMoves, Go, Labels, TypeOK, table, flags, locals
    <3>3. pc'["control"] = label
      BY <3>2, ControlFrame, Zenon
    <3> QED BY <1>1, <1>3, <2>2, <3>1, <3>2, <3>3, Zenon DEF StopLoop, Labels, Joined, TypeOK, Go
  <2>3. CASE Wait
    <3>1. work' \in [Actors -> Sessions \cup {None}] /\ work'["control"] = None
          /\ \A b \in Actors \ {"control"} : work'[b] = work[b]
      BY <1>1, <1>3, <2>3, Zenon DEF Wait, TypeOK
    <3>2. ControlMoves("close")
      BY <1>1, <1>3, <2>3, <3>1, Zenon
         DEF Wait, ControlMoves, Go, Labels, TypeOK, table, flags, locals
    <3> QED BY <2>3, <3>1, <3>2, Zenon DEF Wait, Labels, Joined, tasks
  <2> QED BY <2>1, <2>2, <2>3, Zenon
<1>5. TypeOK'
  BY <1>1, <1>2, <1>3, <1>4, ControlFrame, Zenon DEF TypeOK, ControlMoves
<1>6. CreatedInv'
  <2>1. \A a \in Actors : work'[a] \in Created' \cup {None} /\ (pc'[a] = "remove" => work'[a] # None)
    <3>1. \A a \in Actors \ {"control"} : pc'[a] = pc[a] /\ work'[a] = work[a]
      BY <1>4, ControlFrame, Zenon DEF ControlMoves
    <3>2. pc'["control"] # "remove" /\ Created' = Created
      BY <1>4, ControlFrame, Zenon
    <3>3. work["control"] \in Created \cup {None}
      BY <1>1, <1>3, Zenon DEF CreatedInv
    <3>4. ASSUME NEW a \in Actors, a # "control"
          PROVE  work'[a] \in Created' \cup {None} /\ (pc'[a] = "remove" => work'[a] # None)
      BY <1>1, <3>1, <3>2, <3>4, Zenon DEF CreatedInv
    <3> QED BY <1>4, <3>2, <3>3, <3>4, Zenon
  <2> QED BY <1>1, <1>2, <1>4, <2>1, ControlFrame, ActorsDiffer DEF CreatedInv
<1>7. TargetsInv'
  BY <1>1, <1>2, <1>4, ControlFrame, Zenon DEF TargetsInv
<1>8. MakingInv'
  BY <1>1, <1>2, <1>4, ControlFrame, Zenon DEF MakingInv, Making
<1>9. TableInv'
  <2>1. TableFresh'
    BY <1>1, <1>2, <1>4, ControlFrame, Zenon DEF TableInv, TableFresh
  <2> QED BY <1>1, <1>2, <1>4, <2>1, ControlFrame, Zenon DEF TableInv, SessionLimit
<1>10. DeleteInv'
  <2>1. ~ Alive("rx") => pc["rx"] = "done"
    BY <1>1, <1>3, Zenon DEF LabelsInv, Labels, Alive
  <2> QED BY <1>1, <1>2, <1>4, <2>1, ControlFrame, Zenon DEF DeleteInv
<1>11. RepliesInv'
  <2>1. ASSUME NEW s \in Sessions, Alive(s), Reachable(s) PROVE Reachable(s)'
    BY <1>1, <1>2, <1>4, <2>1, ControlFrame, Zenon DEF Reachable
  <2> QED BY <1>1, <1>2, <1>4, <2>1, ControlFrame, Zenon DEF RepliesInv
<1> QED BY <1>4, <1>5, <1>6, <1>7, <1>8, <1>9, <1>10, <1>11, ControlFrame, Zenon DEF UdpInv

LEMMA DrainKeepsInv ==
  ASSUME UdpInv, Drain
  PROVE  UdpInv'
<1>1. /\ TypeOK /\ LabelsInv /\ CreatedInv /\ TargetsInv /\ BatchInv /\ MakingInv /\ TableInv
      /\ DeleteInv /\ RepliesInv
  BY Zenon DEF UdpInv
<1>2. /\ UNCHANGED <<target, generation, session, closed, asked, handle, aborted, work, batch, snap,
                     prepared, dropped, unwaited>>
      /\ pc["control"] = "drain"
      /\ \A p \in Peers : sessions'[p] = None
      /\ sessions' \in [Peers -> Sessions \cup {None}]
      /\ Current \subseteq Sessions
      /\ "rx" \in Actors /\ "control" \in Actors
  BY <1>1, ActorsDiffer, Zenon DEF Drain, flags, tasks, locals, history, TypeOK, CreatedInv, Created
<1>3. ControlMoves("close")
  BY <1>1, <1>2, Zenon DEF ControlMoves, Drain, Go, Labels, TypeOK
<1>4. Current' = {}
  BY <1>2, Zenon DEF Current
<1>5. /\ list'["control"] = Current /\ list'["rx"] = list["rx"] /\ list["control"] = {}
      /\ list' \in [{"rx", "control"} -> SUBSET Sessions]
  BY <1>1, <1>2, Zenon DEF Drain, TypeOK, TableInv
<1>6. TypeOK'
  BY <1>1, <1>2, <1>3, <1>5, ControlFrame, Zenon DEF TypeOK
<1>7. CreatedInv'
  BY <1>1, <1>2, <1>3, <1>4, <1>5, ControlFrame, ActorsDiffer DEF CreatedInv
<1>8. TargetsInv'
  BY <1>1, <1>2, <1>3, ControlFrame, Zenon DEF TargetsInv
<1>9. IsFiniteSet(Current') /\ Cardinality(Current') = 0
  BY <1>4, FS_EmptySet, Zenon
<1>10. MakingInv'
  <2>1. Cardinality(Current) \in Nat /\ MaxSessions \in Nat
    BY <1>1, FS_CardinalityType, UdpAssumption, Zenon DEF TableInv
  <2>2. pc'["rx"] = pc["rx"] /\ work'["rx"] = work["rx"] /\ Found' = Found /\ Index' = Index
    BY <1>2, <1>3, ControlFrame, ActorsDiffer, Zenon DEF Found, Index
  <2>3. \A t \in Sessions : pc[t] = "none" => pc'[t] = "none"
    BY <1>3, ControlFrame, ActorsDiffer, Zenon
  <2>4. CASE Making
    <3>1. work["rx"] \in Sessions
      BY <1>1, <1>2, <2>4, Zenon DEF MakingInv, TypeOK
    <3> QED BY <1>1, <1>2, <1>4, <1>5, <1>9, <2>1, <2>2, <2>3, <2>4, <3>1 DEF MakingInv, Making
  <2>5. CASE ~ Making
    BY <1>1, <1>5, <2>2, <2>5, Zenon DEF MakingInv, Making
  <2> QED BY <2>4, <2>5, Zenon
<1>11. TableInv'
  <2>1. TableFresh'
    BY <1>2, <1>9, Zenon DEF TableFresh
  <2>2. SessionLimit'
    BY <1>9, UdpAssumption DEF SessionLimit
  <2> QED BY <1>2, <1>3, <1>4, <1>9, <2>1, <2>2, ControlFrame, Zenon DEF TableInv
<1>12. DeleteInv'
  BY <1>1, <1>2, <1>3, <1>4, ControlFrame DEF DeleteInv
<1>13. RepliesInv'
  <2>1. ASSUME NEW s \in Sessions, Reachable(s) PROVE Reachable(s)'
    BY <1>2, <1>4, <1>5, <2>1, Zenon DEF Reachable
  <2> QED BY <1>1, <1>2, <1>3, <1>4, <2>1, ControlFrame, Zenon DEF RepliesInv
<1> QED BY <1>3, <1>6, <1>7, <1>8, <1>10, <1>11, <1>12, <1>13, ControlFrame, Zenon DEF UdpInv

(* One of the sessions taken out of the table is closed, and waited for if it had a handle. *)
LEMMA CloseOneKeepsInv ==
  ASSUME UdpInv, Close, list["control"] # {}
  PROVE  UdpInv'
<1>1. /\ TypeOK /\ LabelsInv /\ CreatedInv /\ TargetsInv /\ BatchInv /\ MakingInv /\ TableInv
      /\ DeleteInv /\ RepliesInv
  BY Zenon DEF UdpInv
<1>2. PICK s \in list["control"] :
        /\ list' = [list EXCEPT !["control"] = @ \ {s}]
        /\ closed' = closed \cup {s}
        /\ TakeHandle(s)
        /\ IF s \in handle
           THEN Go("control", "wait") /\ work' = [work EXCEPT !["control"] = s]
           ELSE UNCHANGED <<pc, work>>
        /\ UNCHANGED history
  BY Zenon DEF Close
<1>3. /\ UNCHANGED <<target, generation, sessions, session, asked, batch, snap, prepared, dropped,
                     unwaited>>
      /\ pc["control"] = "close" /\ Current' = Current
      /\ "rx" \in Actors /\ "control" \in Actors /\ s \in Created /\ s \in Sessions /\ s # None
  <2>1. UNCHANGED <<target, generation, sessions, session, asked, batch, snap, prepared, dropped,
                    unwaited>> /\ pc["control"] = "close"
    BY <1>2, Zenon DEF Close, table, locals, history
  <2>2. Current' = Current
    BY <2>1, Zenon DEF Current
  <2>3. s \in Created /\ s \in Sessions /\ s # None
    BY <1>1, <1>2, ActorsDiffer, Zenon DEF CreatedInv, Created
  <2> QED BY <2>1, <2>2, <2>3, ActorsDiffer, Zenon
<1>4. /\ list'["control"] = list["control"] \ {s} /\ list'["rx"] = list["rx"]
      /\ list' \in [{"rx", "control"} -> SUBSET Sessions]
      /\ handle' = handle \ {s} /\ aborted \subseteq aborted' /\ aborted' \subseteq aborted \cup {s}
      /\ s \notin Current
  BY <1>1, <1>2, <1>3, Zenon DEF TypeOK, TakeHandle, TableInv
<1>5. PICK label \in {"close", "wait"} :
        /\ ControlMoves(label)
        /\ s \in handle => label = "wait" /\ work'["control"] = s
        /\ work'["control"] \in {work["control"], s}
  <2>1. CASE s \in handle
    <3>1. /\ work' \in [Actors -> Sessions \cup {None}] /\ work'["control"] = s
          /\ \A b \in Actors \ {"control"} : work'[b] = work[b]
      BY <1>1, <1>2, <1>3, <2>1, Zenon DEF TypeOK
    <3>2. ControlMoves("wait")
      BY <1>1, <1>2, <1>3, <2>1, <3>1, Zenon DEF ControlMoves, Labels, Go, TypeOK
    <3> QED BY <3>1, <3>2, Zenon
  <2>2. CASE s \notin handle
    <3>1. pc' = pc /\ work' = work
      BY <1>2, <2>2, Zenon
    <3>2. ControlMoves("close")
      BY <1>1, <1>3, <3>1, Zenon DEF ControlMoves, Labels, TypeOK
    <3> QED BY <2>2, <3>1, <3>2, Zenon
  <2> QED BY <2>1, <2>2, Zenon
<1>6. TypeOK'
  <2>1. closed' \subseteq Sessions /\ handle' \subseteq Sessions /\ aborted' \subseteq Actors
    BY <1>1, <1>2, <1>3, <1>4, ActorsDiffer, Zenon DEF TypeOK
  <2>2. work' \in [Actors -> Sessions \cup {None}]
    BY <1>5, Zenon DEF ControlMoves
  <2> QED BY <1>1, <1>3, <1>4, <1>5, <2>1, <2>2, ControlFrame, Zenon DEF TypeOK
<1>7. CreatedInv'
  <2>1. \A a \in Actors : work'[a] \in Created' \cup {None} /\ (pc'[a] = "remove" => work'[a] # None)
    <3>1. \A a \in Actors \ {"control"} : pc'[a] = pc[a] /\ work'[a] = work[a]
      BY <1>5, ControlFrame, Zenon DEF ControlMoves
    <3>2. pc'["control"] # "remove" /\ Created' = Created
      BY <1>5, ControlFrame, Zenon
    <3>3. work["control"] \in Created \cup {None}
      BY <1>1, <1>3, Zenon DEF CreatedInv
    <3>4. ASSUME NEW a \in Actors, a # "control"
          PROVE  work'[a] \in Created' \cup {None} /\ (pc'[a] = "remove" => work'[a] # None)
      BY <1>1, <3>1, <3>2, <3>4, Zenon DEF CreatedInv
    <3> QED BY <1>3, <1>5, <3>2, <3>3, <3>4, Zenon
  <2>2. Created' = Created /\ Found' = Found
    BY <1>3, Zenon DEF Created, Found
  <2>3. Current' \cup closed' \cup asked' \cup handle' \cup Found' \subseteq Created'
    BY <1>1, <1>2, <1>3, <1>4, <2>2 DEF CreatedInv
  <2>4. list'["rx"] \subseteq Created' /\ list'["control"] \subseteq Created'
    BY <1>1, <1>4, <2>2, Zenon DEF CreatedInv
  <2>5. ASSUME NEW t \in Sessions
        PROVE  (pc'[t] # "none" => t \in Created') /\ (Alive(t)' => work'[t] = t)
    BY <1>1, <1>5, <2>2, ControlFrame, ActorsDiffer, Zenon DEF CreatedInv
  <2> QED BY <2>1, <2>3, <2>4, <2>5, Zenon DEF CreatedInv
<1>8. TargetsInv'
  BY <1>1, <1>3, <1>5, ControlFrame, Zenon DEF TargetsInv
<1>9. MakingInv'
  <2>1. pc["rx"] = "insert" => work["rx"] # s
    BY <1>1, <1>2, Zenon DEF MakingInv
  <2> QED BY <1>1, <1>2, <1>3, <1>4, <1>5, <2>1, ControlFrame, Zenon DEF MakingInv, Making
<1>10. TableInv'
  <2>1. \A p \in Peers : sessions[p] # None => sessions[p] \in Current
    BY Zenon DEF Current
  <2>2. \A p \in Peers : sessions[p] # None => /\ session[sessions[p]].peer = p
                                                /\ session[sessions[p]].generation = generation
                                                /\ session[sessions[p]].target = target
                                                /\ sessions[p] \notin closed
    BY <1>1, <1>3, Zenon DEF TableInv, TableFresh
  <2>3. ASSUME NEW p \in Peers, sessions[p] # None PROVE sessions[p] \notin closed'
    <3>1. sessions[p] \notin closed /\ sessions[p] # s
      BY <1>4, <2>1, <2>2, <2>3
    <3>2. closed' = closed \cup {s}
      BY <1>2, Zenon
    <3> QED BY <3>1, <3>2, Zenon
  <2>4. TableFresh'
    BY <1>3, <2>2, <2>3, Zenon DEF TableFresh
  <2> QED BY <1>1, <1>3, <1>4, <1>5, <2>4, ControlFrame, Zenon DEF TableInv, SessionLimit
<1>11. DeleteInv'
  <2>1. "control" \notin aborted' /\ ("cleanup" \in aborted' <=> "cleanup" \in aborted)
    BY <1>1, <1>3, <1>4, ActorsDiffer, Zenon DEF DeleteInv
  <2> QED BY <1>1, <1>3, <1>5, <2>1, ControlFrame, Zenon DEF DeleteInv
<1>12. RepliesInv'
  <2>1. ASSUME NEW t \in Sessions, Reachable(t) PROVE Reachable(t)'
    BY <1>3, <1>4, <1>5, <2>1, ControlFrame, Zenon DEF Reachable
  <2> QED BY <1>1, <1>2, <1>3, <1>4, <1>5, <2>1, ControlFrame, Zenon DEF RepliesInv
<1> QED BY <1>5, <1>6, <1>7, <1>8, <1>9, <1>10, <1>11, <1>12, ControlFrame, Zenon DEF UdpInv

(* The end of an operation: it is complete, or its future is dropped. *)
LEMMA OperationEndsKeepsInv ==
  ASSUME UdpInv, (Close /\ list["control"] = {}) \/ Dropped
  PROVE  UdpInv'
<1>1. /\ TypeOK /\ LabelsInv /\ CreatedInv /\ TargetsInv /\ BatchInv /\ MakingInv /\ TableInv
      /\ DeleteInv /\ RepliesInv
  BY Zenon DEF UdpInv
<1>2. /\ UNCHANGED <<target, generation, sessions, session, closed, asked, handle, aborted, batch, snap,
                     prepared>>
      /\ Current' = Current
      /\ "rx" \in Actors /\ "control" \in Actors /\ DOMAIN list = {"rx", "control"}
  <2>1. UNCHANGED <<target, generation, sessions, session, closed, asked, handle, aborted, batch, snap,
                    prepared>>
    <3>1. CASE Close /\ list["control"] = {}
      BY <3>1, Zenon DEF Close, table, flags, tasks, locals
    <3>2. CASE Dropped
      BY <3>2, Zenon DEF Dropped, table, flags, tasks, locals
    <3> QED BY <3>1, <3>2, Zenon
  <2>2. Current' = Current
    BY <2>1, Zenon DEF Current
  <2>3. DOMAIN list = {"rx", "control"}
    BY <1>1, Zenon DEF TypeOK
  <2> QED BY <2>1, <2>2, <2>3, ActorsDiffer, Zenon
<1>3. PICK label \in {"ready", "done"} :
        /\ ControlMoves(label)
        /\ work'["control"] \in {work["control"], None}
        /\ unwaited' = unwaited \cup list["control"] \cup ({work["control"]} \ {None})
           \/ (unwaited' = unwaited /\ pc["control"] = "close" /\ list["control"] = {})
        /\ list' \in [{"rx", "control"} -> SUBSET Sessions]
        /\ list'["control"] = {} /\ list'["rx"] = list["rx"]
        /\ dropped' \/ pc["control"] = "close"
        /\ dropped' \/ (label = "done" => "cleanup" \in aborted)
        /\ dropped' \in BOOLEAN
  <2>1. CASE Close /\ list["control"] = {}
    <3>1. PICK label \in {"ready", "done"} : Go("control", label) /\ (label = "done" => "cleanup" \in aborted)
      BY <2>1, Zenon DEF Close, Complete
    <3>2. UNCHANGED <<work, list, unwaited>> /\ dropped' = FALSE /\ pc["control"] = "close"
      BY <2>1, Zenon DEF Close, Complete
    <3>3. ControlMoves(label)
      BY <1>1, <1>2, <3>1, <3>2, Zenon DEF ControlMoves, Labels, Go, TypeOK
    <3> QED BY <1>1, <2>1, <3>1, <3>2, <3>3, Zenon DEF TypeOK
  <2>2. CASE Dropped
    <3>1. PICK label \in {"ready", "done"} : Go("control", label)
      BY <2>2, Zenon DEF Dropped
    <3>2. /\ work' \in [Actors -> Sessions \cup {None}] /\ work'["control"] = None
          /\ \A b \in Actors \ {"control"} : work'[b] = work[b]
      BY <1>1, <1>2, <2>2, Zenon DEF Dropped, TypeOK
    <3>3. ControlMoves(label)
      BY <1>1, <1>2, <3>1, <3>2, Zenon DEF ControlMoves, Labels, Go, TypeOK
    <3>4. /\ list' \in [{"rx", "control"} -> SUBSET Sessions]
          /\ list'["control"] = {} /\ list'["rx"] = list["rx"]
      BY <1>1, <1>2, <2>2, Zenon DEF Dropped, TypeOK
    <3> QED BY <2>2, <3>1, <3>2, <3>3, <3>4, Zenon DEF Dropped
  <2> QED BY <2>1, <2>2, Zenon
<1>4. work["control"] \in Created \cup {None} /\ list["control"] \subseteq Created
  BY <1>1, <1>2, Zenon DEF CreatedInv
<1>5. unwaited \subseteq unwaited' /\ unwaited' \subseteq Sessions
  BY <1>1, <1>3, <1>4, Zenon DEF TypeOK, Created
<1>6. TypeOK'
  BY <1>1, <1>2, <1>3, <1>5, ControlFrame, Zenon DEF TypeOK, ControlMoves
<1>7. CreatedInv'
  <2>1. \A a \in Actors : work'[a] \in Created' \cup {None} /\ (pc'[a] = "remove" => work'[a] # None)
    <3>1. \A a \in Actors \ {"control"} : pc'[a] = pc[a] /\ work'[a] = work[a]
      BY <1>3, ControlFrame, Zenon DEF ControlMoves
    <3>2. pc'["control"] # "remove" /\ Created' = Created
      BY <1>3, ControlFrame, Zenon
    <3>4. ASSUME NEW a \in Actors, a # "control"
          PROVE  work'[a] \in Created' \cup {None} /\ (pc'[a] = "remove" => work'[a] # None)
      BY <1>1, <3>1, <3>2, <3>4, Zenon DEF CreatedInv
    <3> QED BY <1>3, <1>4, <3>2, <3>4, Zenon
  <2> QED BY <1>1, <1>2, <1>3, <2>1, ControlFrame, ActorsDiffer DEF CreatedInv
<1>8. TargetsInv'
  BY <1>1, <1>2, <1>3, ControlFrame, Zenon DEF TargetsInv
<1>9. MakingInv'
  BY <1>1, <1>2, <1>3, <1>5, ControlFrame, Zenon DEF MakingInv, Making
<1>10. TableInv'
  <2>1. TableFresh'
    BY <1>1, <1>2, <1>3, ControlFrame, Zenon DEF TableInv, TableFresh
  <2> QED BY <1>1, <1>2, <1>3, <2>1, ControlFrame, Zenon DEF TableInv, SessionLimit
<1>11. DeleteInv'
  BY <1>1, <1>2, <1>3, ControlFrame, Zenon DEF DeleteInv
<1>12. RepliesInv'
  <2>1. ASSUME NEW s \in Sessions, Reachable(s) PROVE Reachable(s)'
    <3>1. CASE unwaited' = unwaited \cup list["control"] \cup ({work["control"]} \ {None})
      BY <1>2, <1>3, <2>1, <3>1, ControlFrame, ActorsDiffer, Zenon DEF Reachable
    <3>2. CASE unwaited' = unwaited /\ pc["control"] = "close" /\ list["control"] = {}
      BY <1>2, <1>3, <2>1, <3>2, ControlFrame, Zenon DEF Reachable
    <3> QED BY <1>3, <3>1, <3>2, Zenon
  <2> QED BY <1>1, <1>2, <1>3, <2>1, ControlFrame, Zenon DEF RepliesInv
<1> QED BY <1>3, <1>6, <1>7, <1>8, <1>9, <1>10, <1>11, <1>12, ControlFrame, Zenon DEF UdpInv

LEMMA ControlKeepsInv ==
  ASSUME UdpInv, Update \/ Delete \/ ControlStep \/ Dropped
  PROVE  UdpInv'
<1>1. CASE Update
  BY <1>1, UpdateKeepsInv, Zenon
<1>2. CASE Delete \/ StopLoop \/ Wait
  BY <1>2, WaitsKeepInv, Zenon
<1>3. CASE Drain
  BY <1>3, DrainKeepsInv, Zenon
<1>4. CASE Close
  BY <1>4, CloseOneKeepsInv, OperationEndsKeepsInv, Zenon
<1>5. CASE Dropped
  BY <1>5, OperationEndsKeepsInv, Zenon
<1> QED BY <1>1, <1>2, <1>3, <1>4, <1>5, Zenon DEF ControlStep
=============================================================================
