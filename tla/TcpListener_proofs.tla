-------------------------- MODULE TcpListener_proofs --------------------------
(***************************************************************************)
(* The safety properties of TcpListener, for any number of sessions and    *)
(* updates and any configuration.                                          *)
(***************************************************************************)
EXTENDS TcpListenerInv, FiniteSetTheorems, TLAPS

Labels == {"connect", "copy", "fail", "refused", "remove", "done"}

(* The task of s goes to a label and no other task takes a step. *)
Moves(s, label) ==
  /\ session' \in [Sessions -> SessionTasks \cup {None}]
  /\ \A t \in Sessions \ {s} : session'[t] = session[t]
  /\ session[s] # None
  /\ session'[s] # None
  /\ session'[s].pc = label
  /\ session'[s].born = session[s].born

GuardedSessions == {s \in Sessions : Guarded(s)}

(* Sessions are finitely many, and so are the ones that are guarded. *)
LEMMA SessionsFinite ==
  /\ MaxSessionId \in Nat
  /\ IsFiniteSet(Sessions)
  /\ Cardinality(Sessions) \in Nat
  /\ \A S \in SUBSET Sessions : IsFiniteSet(S) /\ Cardinality(S) \in 0..Cardinality(Sessions)
<1>1. MaxSessionId \in Nat
  BY TcpAssumption, Zenon
<1>2. IsFiniteSet(Sessions) /\ Cardinality(Sessions) \in Nat
  BY <1>1, FS_Interval, FS_CardinalityType DEF Sessions
<1>3. ASSUME NEW S \in SUBSET Sessions
      PROVE  IsFiniteSet(S) /\ Cardinality(S) \in 0..Cardinality(Sessions)
  <2>1. IsFiniteSet(S) /\ Cardinality(S) <= Cardinality(Sessions)
    BY <1>2, FS_Subset, Zenon
  <2>2. Cardinality(S) \in Nat
    BY <2>1, FS_CardinalityType, Zenon
  <2>. QED  BY <1>2, <2>1, <2>2
<1>. QED  BY <1>1, <1>2, <1>3, Zenon

(* Step moves the task and keeps its target. *)
LEMMA StepMoves ==
  ASSUME session \in [Sessions -> SessionTasks \cup {None}],
         NEW s \in Sessions, session[s] # None,
         NEW label \in Labels, Step(s, label)
  PROVE  Moves(s, label)
<1>1. session[s] \in SessionTasks
  OBVIOUS
<1>2. Idle \in [splice : BOOLEAN, open : SUBSET Directions, hard : BOOLEAN]
  BY Zenon DEF Idle
<1>3. session' = [session EXCEPT ![s] = [session[s] EXCEPT !.pc = label, !.copy = Idle]]
  BY Zenon DEF Step
<1>4. [session[s] EXCEPT !.pc = label, !.copy = Idle] \in SessionTasks
  BY <1>1, <1>2, Zenon DEF SessionTasks, Labels
<1>5. None \notin SessionTasks
  BY TcpAssumption, Zenon
<1>6. /\ [session[s] EXCEPT !.pc = label, !.copy = Idle].pc = label
      /\ [session[s] EXCEPT !.pc = label, !.copy = Idle].born = session[s].born
  BY <1>1, Zenon DEF SessionTasks
<1>. QED  BY <1>3, <1>4, <1>5, <1>6, Zenon DEF Moves

(* The gauge follows the guards of the one task that moves. *)
LEMMA GaugeMoves ==
  ASSUME TypeOK, GaugeExact, NEW s \in Sessions, NEW label \in Labels, Moves(s, label),
         \/ active' = active + 1 /\ ~ Guarded(s) /\ label \in {"copy", "fail"}
         \/ active' = active - 1 /\ Guarded(s) /\ label \notin {"copy", "fail"}
         \/ active' = active /\ (Guarded(s) <=> label \in {"copy", "fail"})
  PROVE  GaugeExact' /\ active' \in 0..Cardinality(Sessions)
<1>1. \A t \in Sessions : Guarded(t)' <=> IF t = s THEN label \in {"copy", "fail"} ELSE Guarded(t)
  BY Zenon DEF Moves, Guarded, At
<1>2. active = Cardinality(GuardedSessions) /\ active \in Nat
  BY DEF GaugeExact, GuardedSessions, TypeOK
<1>3. IsFiniteSet(GuardedSessions)
  BY SessionsFinite, Zenon DEF GuardedSessions
<1>4. active' = Cardinality(GuardedSessions')
  <2>1. CASE active' = active + 1 /\ ~ Guarded(s) /\ label \in {"copy", "fail"}
    <3>1. GuardedSessions' = GuardedSessions \cup {s}
      BY <1>1, <2>1, Zenon DEF GuardedSessions
    <3>2. s \notin GuardedSessions
      BY <2>1, Zenon DEF GuardedSessions
    <3>. QED  BY <1>2, <1>3, <2>1, <3>1, <3>2, FS_AddElement, Zenon
  <2>2. CASE active' = active - 1 /\ Guarded(s) /\ label \notin {"copy", "fail"}
    <3>1. GuardedSessions' = GuardedSessions \ {s}
      BY <1>1, <2>2, Zenon DEF GuardedSessions
    <3>2. s \in GuardedSessions
      BY <2>2, Zenon DEF GuardedSessions
    <3>. QED  BY <1>2, <1>3, <2>2, <3>1, <3>2, FS_RemoveElement, Zenon
  <2>3. CASE active' = active /\ (Guarded(s) <=> label \in {"copy", "fail"})
    <3>1. GuardedSessions' = GuardedSessions
      BY <1>1, <2>3, Zenon DEF GuardedSessions
    <3>. QED  BY <1>2, <2>3, <3>1, Zenon
  <2>. QED  BY <2>1, <2>2, <2>3, Zenon
<1>5. GuardedSessions' \in SUBSET Sessions
  BY Zenon DEF GuardedSessions
<1>. QED  BY <1>4, <1>5, SessionsFinite, Zenon DEF GaugeExact, GuardedSessions

(* A step of a session's task: its forwarding goes on or ends, perhaps with an error that it *)
(* leaves in the state, or it takes its handle out of the table.                              *)
TaskMoves(s, label) ==
  /\ Moves(s, label)
  /\ label \in Labels \ {"connect"}
  /\ Forwarding(s) \/ label = "done"
  /\ handles' = IF label = "done" THEN handles \ {s} ELSE handles
  /\ state' = state \/ (Forwarding(s) /\ state' = [state EXCEPT !.error = s])
  /\ GaugeExact' /\ active' \in 0..Cardinality(Sessions)
  /\ UNCHANGED <<control, listed, generation, shutdown, loop, signalled, history>>

LEMMA TaskKeepsInv ==
  ASSUME TcpInv, NEW s \in Sessions, NEW label, TaskMoves(s, label)
  PROVE  TcpInv'
<1>. USE DEF TaskMoves, loop, history
<1>1. /\ Spawned' = Spawned
      /\ s \in Spawned
      /\ \A t \in Sessions : Forwarding(t)' => Forwarding(t)
      /\ \A t \in Spawned : session'[t].born = session[t].born
  BY Zenon DEF Moves, Spawned, Forwarding, At, Labels
<1>2. /\ accept # "none"
      /\ state \in EntryStates /\ state.error \in Spawned \cup {None}
      /\ state' \in EntryStates
      /\ state'.error = state.error \/ (Forwarding(s) /\ state'.error = s)
  <2>1. accept # "none"
    BY <1>1, Zenon DEF TcpInv, LoopInv
  <2>2. state \in EntryStates /\ state.error \in Spawned \cup {None}
    BY <2>1, Zenon DEF TcpInv, LoopInv
  <2>. QED  BY <2>1, <2>2, Zenon DEF EntryStates
<1>3. TypeOK'
  BY <1>2, Zenon DEF TcpInv, TypeOK, Moves
<1>4. NumbersInv'
  BY <1>1, Zenon DEF TcpInv, NumbersInv
<1>5. LoopInv'
  BY <1>1, <1>2, Zenon DEF TcpInv, LoopInv
<1>6. EntryInv'
  BY Zenon DEF TcpInv, EntryInv
<1>7. HandlesExact'
  BY <1>1, Zenon DEF TcpInv, TypeOK, HandlesExact, Moves, At, Forwarding
<1>8. DeleteInv'
  BY <1>1, Zenon DEF TcpInv, DeleteInv, DeletedClean
<1>9. Stale' \subseteq Stale
  BY <1>1, Zenon DEF Stale, Spawned, Forwarding, At
<1>10. StragglerInv'
  BY <1>9, Zenon DEF TcpInv, StragglerInv
<1>11. QuietInv'
  <2>1. quiet => \A t \in Sessions : Forwarding(t)' => session'[t].born = generation
    BY <1>1, Zenon DEF TcpInv, QuietInv, Spawned, Forwarding, At
  <2>2. ErrorOfTarget'
    BY <1>1, <1>2, TcpAssumption, Zenon DEF TcpInv, QuietInv, ErrorOfTarget
  <2>. QED  BY <2>1, <2>2, Zenon DEF TcpInv, QuietInv
<1>. QED  BY <1>3, <1>4, <1>5, <1>6, <1>7, <1>8, <1>10, <1>11, Zenon DEF TcpInv

(* Every step of a session's task keeps the invariant. *)
LEMMA TaskStep ==
  ASSUME TcpInv, NEW s \in Sessions, Task(s)
  PROVE  TcpInv'
<1>. DEFINE t == session[s]
<1>1. t # None
  BY Zenon DEF Task, Connect, ConnectFails, WriteError, Close, remove_session_handle, DirectionEnds,
         Forwarding, At
<1>2. TypeOK /\ GaugeExact /\ t \in SessionTasks
  BY <1>1, Zenon DEF TcpInv, TypeOK
<1>3. ASSUME NEW label \in Labels, Step(s, label)
      PROVE  Moves(s, label)
  BY <1>1, <1>2, <1>3, StepMoves, Zenon DEF TypeOK
<1>4. CASE Connect(s)
  <2>1. PICK splice \in BOOLEAN :
          session' = [session EXCEPT ![s].pc = "copy", ![s].copy.splice = splice]
    BY <1>4, Zenon DEF Connect
  <2>. DEFINE u == [t EXCEPT !.pc = "copy", !.copy = [t.copy EXCEPT !.splice = splice]]
  <2>2. session' = [session EXCEPT ![s] = u]
    BY <1>2, <2>1, Zenon DEF TypeOK
  <2>3. u \in SessionTasks /\ u.pc = "copy" /\ u.born = t.born
    BY <1>2, Zenon DEF SessionTasks
  <2>4. Moves(s, "copy")
    BY <1>1, <1>2, <2>2, <2>3, TcpAssumption, Zenon DEF Moves, TypeOK
  <2>5. GaugeExact' /\ active' \in 0..Cardinality(Sessions)
    BY <1>2, <1>4, <2>4, GaugeMoves, Zenon DEF Connect, Guarded, At, Labels
  <2>6. TaskMoves(s, "copy")
    BY <1>4, <2>4, <2>5, Zenon DEF TaskMoves, Connect, others, entry, Forwarding, At, Labels
  <2>. QED  BY <2>6, TaskKeepsInv, Zenon
<1>5. CASE ConnectFails(s)
  <2>1. Moves(s, "refused")
    BY <1>3, <1>5, Zenon DEF ConnectFails, Labels
  <2>2. GaugeExact' /\ active' \in 0..Cardinality(Sessions)
    BY <1>2, <1>5, <2>1, GaugeMoves, Zenon DEF ConnectFails, Guarded, At, Labels
  <2>3. TaskMoves(s, "refused")
    BY <1>5, <2>1, <2>2, Zenon DEF TaskMoves, ConnectFails, others, entry, Forwarding, At, Labels
  <2>. QED  BY <2>3, TaskKeepsInv, Zenon
<1>6. CASE WriteError(s)
  <2>1. Moves(s, "remove")
    BY <1>3, <1>6, Zenon DEF WriteError, Labels
  <2>2. GaugeExact' /\ active' \in 0..Cardinality(Sessions)
    BY <1>2, <1>6, <2>1, GaugeMoves, Zenon DEF WriteError, DropGuard, Labels
  <2>3. TaskMoves(s, "remove")
    BY <1>6, <2>1, <2>2, Zenon DEF TaskMoves, WriteError, Forwarding, At, Labels
  <2>. QED  BY <2>3, TaskKeepsInv, Zenon
<1>7. CASE Close(s)
  <2>1. Moves(s, "remove")
    BY <1>3, <1>7, Zenon DEF Close, Labels
  <2>2. GaugeExact' /\ active' \in 0..Cardinality(Sessions)
    BY <1>2, <1>7, <2>1, GaugeMoves, Zenon DEF Close, DropGuard, Labels
  <2>3. TaskMoves(s, "remove")
    BY <1>7, <2>1, <2>2, Zenon DEF TaskMoves, Close, others, entry, Labels
  <2>. QED  BY <2>3, TaskKeepsInv, Zenon
<1>8. CASE remove_session_handle(s)
  <2>1. Moves(s, "done")
    BY <1>3, <1>8, Zenon DEF remove_session_handle, Labels
  <2>2. GaugeExact' /\ active' \in 0..Cardinality(Sessions)
    BY <1>2, <1>8, <2>1, GaugeMoves, Zenon DEF remove_session_handle, Guarded, At, Labels
  <2>3. TaskMoves(s, "done")
    BY <1>8, <2>1, <2>2, Zenon DEF TaskMoves, remove_session_handle, entry, Labels
  <2>. QED  BY <2>3, TaskKeepsInv, Zenon
<1>9. ASSUME NEW d \in Directions, DirectionEnds(s, d)
      PROVE  TcpInv'
  <2>. DEFINE copy(hard) == [t.copy EXCEPT !.open = @ \ {d}, !.hard = @ \/ hard]
  <2>1. At(s, {"copy"}) /\ Forwarding(s) /\ Guarded(s) /\ UNCHANGED others
    BY <1>9, Zenon DEF DirectionEnds, At, Forwarding, Guarded
  <2>2. PICK label \in {"copy", "fail", "remove"} :
          /\ Moves(s, label)
          /\ active' = IF label = "remove" THEN active - 1 ELSE active
    <3>1. PICK hard \in BOOLEAN :
            \/ session' = [session EXCEPT ![s].copy = copy(hard)] /\ active' = active
            \/ Step(s, "fail") /\ active' = active
            \/ Step(s, "remove") /\ DropGuard(s)
      BY <1>9, Zenon DEF DirectionEnds
    <3>2. CASE session' = [session EXCEPT ![s].copy = copy(hard)] /\ active' = active
      <4>. DEFINE u == [t EXCEPT !.copy = copy(hard)]
      <4>1. session' = [session EXCEPT ![s] = u]
        BY <3>2, Zenon
      <4>2. copy(hard) \in [splice : BOOLEAN, open : SUBSET Directions, hard : BOOLEAN]
        BY <1>2, Zenon DEF SessionTasks
      <4>3. u \in SessionTasks /\ u.pc = "copy" /\ u.born = t.born
        BY <1>2, <2>1, <4>2, Zenon DEF SessionTasks, At
      <4>4. Moves(s, "copy")
        BY <1>1, <1>2, <4>1, <4>3, TcpAssumption, Zenon DEF Moves, TypeOK
      <4>. QED  BY <3>2, <4>4, Zenon
    <3>3. CASE Step(s, "fail") /\ active' = active
      BY <1>3, <3>3, Zenon DEF Labels
    <3>4. CASE Step(s, "remove") /\ DropGuard(s)
      BY <1>3, <2>1, <3>4, Zenon DEF Labels, DropGuard
    <3>. QED  BY <3>1, <3>2, <3>3, <3>4, Zenon
  <2>3. GaugeExact' /\ active' \in 0..Cardinality(Sessions)
    BY <1>2, <2>1, <2>2, GaugeMoves, Zenon DEF Labels
  <2>4. TaskMoves(s, label)
    BY <2>1, <2>2, <2>3, Zenon DEF TaskMoves, others, entry, Labels
  <2>. QED  BY <2>4, TaskKeepsInv, Zenon
<1>. QED  BY <1>4, <1>5, <1>6, <1>7, <1>8, <1>9, Zenon DEF Task

(* The next session has the number after the last one. *)
LEMMA NextNumber ==
  ASSUME TcpInv
  PROVE  \E n \in 0..MaxSessionId :
           /\ Spawned = 1..n
           /\ next_session_id = n + 1
           /\ accept \in {"read", "register"} => n < MaxSessionId
<1>1. PICK n \in 0..MaxSessionId :
        Spawned = 1..n /\ (accept \in {"read", "register"} => n < MaxSessionId)
  BY Zenon DEF TcpInv, NumbersInv
<1>2. n \in Nat
  BY SessionsFinite
<1>3. Cardinality(1..n) = n
  BY <1>2, FS_Interval
<1>4. next_session_id = 1 + Cardinality(Spawned)
  BY Zenon DEF next_session_id, Spawned
<1>5. next_session_id = n + 1
  BY <1>1, <1>2, <1>3, <1>4
<1>. QED  BY <1>1, <1>5, Zenon

(* What every step of the accept loop does that spawns no session. *)
LEMMA LoopKeepsInv ==
  ASSUME TcpInv,
         UNCHANGED <<control, entry, aborted, tasks, dropped, quiet>>,
         accept \notin {"none", "done"},
         accept' \in {"accept", "read", "reject", "register", "done"},
         lost' \in BOOLEAN, lost => lost',
         snap' \in {snap, generation, None},
         accept' = "register" <=> snap' # None,
         accept' \in {"read", "register"} => (accept = "read" \/ next_session_id \in Sessions),
         accept' = "done" => (lost' \/ shutdown \/ aborted)
  PROVE  TcpInv'
<1>. USE DEF entry, tasks
<1>1. /\ Spawned' = Spawned
      /\ Stale' = Stale
      /\ \A s \in Sessions : Forwarding(s)' <=> Forwarding(s)
  BY Zenon DEF Spawned, Stale, Forwarding, At
<1>2. TypeOK'
  BY Zenon DEF TcpInv, TypeOK
<1>3. NumbersInv'
  <2>1. PICK n \in 0..MaxSessionId :
          /\ Spawned = 1..n
          /\ next_session_id = n + 1
          /\ accept \in {"read", "register"} => n < MaxSessionId
    BY NextNumber, Zenon
  <2>2. accept' \in {"read", "register"} => n < MaxSessionId
    BY <2>1, SessionsFinite DEF Sessions
  <2>. QED  BY <1>1, <2>1, <2>2, Zenon DEF TcpInv, NumbersInv
<1>4. LoopInv'
  BY <1>1, Zenon DEF TcpInv, LoopInv
<1>5. EntryInv'
  BY Zenon DEF TcpInv, EntryInv, TypeOK
<1>6. DeleteInv'
  BY <1>1, Zenon DEF TcpInv, DeleteInv, DeletedClean
<1>7. HandlesExact' /\ GaugeExact'
  BY Zenon DEF TcpInv, HandlesExact, GaugeExact, Forwarding, Guarded, At
<1>8. StragglerInv'
  BY <1>1, Zenon DEF TcpInv, StragglerInv
<1>9. QuietInv'
  BY <1>1, Zenon DEF TcpInv, QuietInv, ErrorOfTarget
<1>. QED  BY <1>2, <1>3, <1>4, <1>5, <1>6, <1>7, <1>8, <1>9, Zenon DEF TcpInv

(* A session is registered: it takes the number after the last, its handle is in the table,  *)
(* and if its client had read an older state it is the one straggler.                        *)
LEMMA RegisterStep ==
  ASSUME TcpInv, Register
  PROVE  TcpInv'
<1>. DEFINE u == [born |-> snap, pc |-> "connect", copy |-> Idle]
<1>. USE DEF entry, history
<1>1. PICK s \in Sessions :
        /\ s \notin Spawned
        /\ s = next_session_id
        /\ \E n \in 0..MaxSessionId : Spawned \cup {s} = 1..n
  <2>1. PICK n \in 0..MaxSessionId :
          Spawned = 1..n /\ next_session_id = n + 1 /\ n < MaxSessionId
    BY NextNumber, Zenon DEF Register
  <2>2. n + 1 \in 0..MaxSessionId /\ Spawned \cup {n + 1} = 1..(n + 1)
    BY <2>1, SessionsFinite
  <2>3. n + 1 \in Sessions \ Spawned
    BY <2>1, SessionsFinite DEF Sessions
  <2>. QED  BY <2>1, <2>2, <2>3, Zenon
<1>2. u \in SessionTasks /\ u # None /\ u.born = snap /\ u.pc = "connect"
  <2>1. snap \in 0..MaxGeneration
    BY Zenon DEF TcpInv, TypeOK, LoopInv, Register
  <2>2. Idle \in [splice : BOOLEAN, open : SUBSET Directions, hard : BOOLEAN]
    BY Zenon DEF Idle
  <2>3. u \in SessionTasks
    BY <2>1, <2>2, Zenon DEF SessionTasks
  <2>. QED  BY <2>3, TcpAssumption, Zenon
<1>3. /\ accept = "register" /\ accept' = "accept" /\ snap # None /\ snap' = None
      /\ handles' = handles \cup {s}
      /\ UNCHANGED <<control, entry, aborted, signalled, active, history>>
      /\ session' = [session EXCEPT ![s] = u]
  BY <1>1, Zenon DEF TcpInv, LoopInv, Register
<1>. HIDE DEF u
<1>4. /\ session' \in [Sessions -> SessionTasks \cup {None}]
      /\ session'[s] = u
      /\ \A t \in Sessions \ {s} : session'[t] = session[t]
      /\ session[s] = None
  BY <1>1, <1>2, <1>3, Zenon DEF TcpInv, TypeOK, Spawned
<1>5. /\ Spawned' = Spawned \cup {s}
      /\ \A t \in Sessions \ {s} : (Forwarding(t)' <=> Forwarding(t)) /\ (Guarded(t)' <=> Guarded(t))
      /\ Forwarding(s)' /\ ~ Guarded(s)' /\ ~ Guarded(s) /\ ~ Forwarding(s)
  BY <1>1, <1>2, <1>4, Zenon DEF Spawned, Forwarding, Guarded, At
<1>6. TypeOK'
  BY <1>1, <1>3, <1>4, Zenon DEF TcpInv, TypeOK
<1>7. NumbersInv'
  BY <1>1, <1>3, <1>5, Zenon DEF TcpInv, NumbersInv
<1>8. LoopInv'
  BY <1>3, <1>5, Zenon DEF TcpInv, LoopInv
<1>9. EntryInv'
  BY <1>3, Zenon DEF TcpInv, EntryInv
<1>10. DeleteInv'
  BY <1>3, Zenon DEF TcpInv, DeleteInv, DeletedClean
<1>11. HandlesExact'
  BY <1>1, <1>2, <1>3, <1>4, <1>5, Zenon DEF TcpInv, TypeOK, NumbersInv, HandlesExact, At, Spawned
<1>12. GaugeExact'
  <2>1. {t \in Sessions : Guarded(t)}' = {t \in Sessions : Guarded(t)}
    BY <1>5, Zenon
  <2>. QED  BY <1>3, <2>1, Zenon DEF TcpInv, GaugeExact
<1>13. StragglerInv'
  <2>1. Stale' = Stale \/ (Stale' = Stale \cup {s} /\ snap # generation)
    BY <1>1, <1>2, <1>3, <1>4, <1>5 DEF Stale
  <2>. QED  BY <1>3, <2>1, Zenon DEF TcpInv, StragglerInv
<1>14. QuietInv'
  <2>1. ErrorOfTarget'
    BY <1>1, <1>3, <1>4, Zenon DEF TcpInv, TypeOK, LoopInv, QuietInv, ErrorOfTarget, Spawned
  <2>. QED  BY <1>2, <1>3, <1>4, <1>5, <2>1, Zenon DEF TcpInv, QuietInv
<1>. QED  BY <1>6, <1>7, <1>8, <1>9, <1>10, <1>11, <1>12, <1>13, <1>14, Zenon DEF TcpInv

(* Every step of the accept loop keeps the invariant. *)
LEMMA LoopStep ==
  ASSUME TcpInv, AcceptLoop \/ AcceptFails
  PROVE  TcpInv'
<1>. USE DEF Accepting, history, entry, tasks
<1>1. TypeOK /\ LoopInv
  BY Zenon DEF TcpInv
<1>2. CASE Accept
  BY <1>1, <1>2, LoopKeepsInv, Zenon DEF Accept, TypeOK, LoopInv
<1>3. CASE StopAccepting
  BY <1>1, <1>3, LoopKeepsInv, Zenon DEF StopAccepting, TypeOK, LoopInv
<1>4. CASE ReadState
  <2>1. generation # None
    BY <1>1, TcpAssumption DEF TypeOK
  <2>. QED  BY <1>1, <1>4, <2>1, LoopKeepsInv, Zenon DEF ReadState, TypeOK, LoopInv
<1>5. CASE Reject
  BY <1>1, <1>5, LoopKeepsInv, Zenon DEF Reject, TypeOK, LoopInv
<1>6. CASE Die
  BY <1>1, <1>6, LoopKeepsInv, Zenon DEF Die, TypeOK, LoopInv
<1>7. CASE AcceptFails
  BY <1>1, <1>7, LoopKeepsInv, Zenon DEF AcceptFails, TypeOK, LoopInv
<1>8. CASE Register
  BY <1>8, RegisterStep, Zenon
<1>. QED  BY <1>2, <1>3, <1>4, <1>5, <1>6, <1>7, <1>8, Zenon DEF AcceptLoop

(* A step of a control operation that leaves the tasks and the state alone. *)
LEMMA ControlKeepsInv ==
  ASSUME TcpInv,
         UNCHANGED <<state, generation, accept, snap, tasks, quiet, lost>>,
         control # "absent",
         control' \in {"insert", "ready", "write", "close", "join", "drain", "deleted"},
         control' = "deleted" => dropped',
         control' = "drain" => accept = "done",
         control' \in {"insert", "ready", "write"} /\ ~ dropped'
           => control \in {"insert", "ready", "write"} /\ ~ dropped,
         {listed', shutdown', aborted', dropped'} \subseteq BOOLEAN,
         EntryInv'
  PROVE  TcpInv'
<1>. USE DEF tasks
<1>1. /\ Spawned' = Spawned
      /\ Stale' = Stale
      /\ \A s \in Sessions : Forwarding(s)' <=> Forwarding(s)
  BY Zenon DEF Spawned, Stale, Forwarding, At
<1>2. TypeOK'
  BY Zenon DEF TcpInv, TypeOK
<1>3. NumbersInv'
  BY <1>1, Zenon DEF TcpInv, NumbersInv
<1>4. LoopInv'
  BY <1>1, Zenon DEF TcpInv, LoopInv
<1>5. DeleteInv'
  BY Zenon DEF TcpInv, DeleteInv, DeletedClean
<1>6. HandlesExact' /\ GaugeExact'
  BY Zenon DEF TcpInv, HandlesExact, GaugeExact, Forwarding, Guarded, At
<1>7. StragglerInv'
  BY <1>1, Zenon DEF TcpInv, StragglerInv
<1>8. QuietInv'
  BY <1>1, Zenon DEF TcpInv, QuietInv, ErrorOfTarget
<1>. QED  BY <1>2, <1>3, <1>4, <1>5, <1>6, <1>7, <1>8, Zenon DEF TcpInv

(* close_sessions: nobody who forwards is left untold. *)
LEMMA CloseStep ==
  ASSUME TcpInv, CloseOnUpdate \/ CloseOnDelete
  PROVE  TcpInv'
<1>. USE DEF close_sessions, entry, loop
<1>1. /\ UNCHANGED <<entry, loop, session, active, quiet, lost>>
      /\ control \in {"close", "drain"}
      /\ control' = IF control = "close" THEN "ready" ELSE "deleted"
      /\ signalled' = signalled \cup handles /\ handles' = {} /\ dropped' = FALSE
  BY Zenon DEF CloseOnUpdate, CloseOnDelete
<1>2. /\ Spawned' = Spawned
      /\ \A s \in Sessions : (Forwarding(s)' <=> Forwarding(s)) /\ (Forwarding(s) => s \in signalled')
      /\ Stale' = {}
  <2>1. \A s \in Sessions : Forwarding(s)' <=> Forwarding(s)
    BY <1>1, Zenon DEF Forwarding, At
  <2>2. \A s \in Sessions : Forwarding(s) => s \in signalled'
    BY <1>1, Zenon DEF TcpInv, HandlesExact
  <2>. QED  BY <1>1, <2>1, <2>2, Zenon DEF Spawned, Stale
<1>3. TypeOK'
  BY <1>1, Zenon DEF TcpInv, TypeOK
<1>4. NumbersInv'
  BY <1>1, <1>2, Zenon DEF TcpInv, NumbersInv
<1>5. LoopInv'
  BY <1>1, <1>2, Zenon DEF TcpInv, LoopInv
<1>6. EntryInv'
  BY <1>1, Zenon DEF TcpInv, EntryInv
<1>7. DeleteInv'
  BY <1>1, <1>2, Zenon DEF TcpInv, DeleteInv, DeletedClean
<1>8. HandlesExact' /\ GaugeExact'
  BY <1>1, <1>2, Zenon DEF TcpInv, HandlesExact, GaugeExact, Guarded, At
<1>9. StragglerInv'
  BY <1>1, <1>2, Zenon DEF TcpInv, StragglerInv
<1>10. QuietInv'
  BY <1>1, <1>2, Zenon DEF TcpInv, QuietInv, ErrorOfTarget
<1>. QED  BY <1>3, <1>4, <1>5, <1>6, <1>7, <1>8, <1>9, <1>10, Zenon DEF TcpInv

(* create: the accept loop begins, with no session yet. *)
LEMMA CreateStep ==
  ASSUME TcpInv, Create
  PROVE  TcpInv'
<1>. USE DEF entry, tasks, history
<1>1. /\ control = "absent" /\ control' = "insert" /\ accept = "none" /\ accept' = "accept"
      /\ state' \in EntryStates /\ state'.error = None
      /\ UNCHANGED <<listed, generation, shutdown, aborted, snap, tasks, history>>
  BY DEF TcpInv, LoopInv, Create, bind_entry, entry_state_for, EntryStates
<1>2. snap = None /\ Spawned' = Spawned /\ Spawned = {}
  BY <1>1, Zenon DEF TcpInv, LoopInv, Spawned
<1>3. \A s \in Sessions : ~ Forwarding(s) /\ ~ Forwarding(s)'
  BY <1>1, <1>2, Zenon DEF Forwarding, At, Spawned
<1>4. TypeOK'
  BY <1>1, Zenon DEF TcpInv, TypeOK
<1>5. NumbersInv'
  BY <1>1, <1>2, Zenon DEF TcpInv, NumbersInv
<1>6. LoopInv'
  BY <1>1, <1>2, Zenon DEF LoopInv
<1>7. EntryInv'
  BY <1>1, Zenon DEF TcpInv, EntryInv
<1>8. DeleteInv'
  BY <1>1, Zenon DEF DeleteInv, DeletedClean
<1>9. HandlesExact' /\ GaugeExact'
  BY <1>1, Zenon DEF TcpInv, HandlesExact, GaugeExact, Forwarding, Guarded, At
<1>10. StragglerInv'
  BY <1>1, <1>2, <1>3, Zenon DEF StragglerInv, Stale
<1>11. QuietInv'
  BY <1>1, <1>2, <1>3, Zenon DEF QuietInv, ErrorOfTarget
<1>. QED  BY <1>4, <1>5, <1>6, <1>7, <1>8, <1>9, <1>10, <1>11, Zenon DEF TcpInv

(* update writes the state: what is under way may be of the target before. *)
LEMMA WriteStep ==
  ASSUME TcpInv, WriteState
  PROVE  TcpInv'
<1>. USE DEF loop, tasks
<1>1. /\ control = "write" /\ control' = "close" /\ accept # "none"
      /\ state' \in EntryStates /\ state'.error = None
      /\ generation' \in 0..MaxGeneration
      /\ UNCHANGED <<listed, shutdown, loop, tasks, dropped, lost>>
  BY TcpAssumption
     DEF TcpInv, TypeOK, LoopInv, EntryInv, WriteState, entry_state_for, EntryStates
<1>2. /\ Spawned' = Spawned
      /\ \A s \in Sessions : Forwarding(s)' <=> Forwarding(s)
  BY <1>1, Zenon DEF Spawned, Forwarding, At
<1>3. quiet' \in BOOLEAN /\ (quiet' => snap = None /\ \A s \in Sessions : ~ Forwarding(s))
  BY Zenon DEF WriteState
<1>4. TypeOK'
  BY <1>1, <1>3, Zenon DEF TcpInv, TypeOK
<1>5. NumbersInv'
  BY <1>1, <1>2, Zenon DEF TcpInv, NumbersInv
<1>6. LoopInv'
  BY <1>1, Zenon DEF TcpInv, LoopInv
<1>7. EntryInv'
  BY <1>1, Zenon DEF TcpInv, EntryInv
<1>8. DeleteInv' /\ StragglerInv'
  BY <1>1, Zenon DEF DeleteInv, DeletedClean, StragglerInv
<1>9. HandlesExact' /\ GaugeExact'
  BY <1>1, Zenon DEF TcpInv, HandlesExact, GaugeExact, Forwarding, Guarded, At
<1>10. QuietInv'
  BY <1>1, <1>2, <1>3, Zenon DEF QuietInv, ErrorOfTarget
<1>. QED  BY <1>4, <1>5, <1>6, <1>7, <1>8, <1>9, <1>10, Zenon DEF TcpInv

(* Every step of a control operation keeps the invariant, and so does dropping it. *)
LEMMA ControlStep ==
  ASSUME TcpInv, Control \/ Cancel
  PROVE  TcpInv'
<1>. USE DEF entry, loop, tasks, history
<1>1. TypeOK /\ EntryInv /\ LoopInv /\ DeleteInv
  BY Zenon DEF TcpInv
<1>2. CASE Insert
  <2>1. EntryInv'
    BY <1>1, <1>2, Zenon DEF Insert, EntryInv
  <2>. QED  BY <1>1, <1>2, <2>1, ControlKeepsInv, Zenon DEF Insert, TypeOK
<1>3. CASE Update
  <2>1. EntryInv'
    BY <1>1, <1>3, Zenon DEF Update, EntryInv
  <2>. QED  BY <1>1, <1>3, <2>1, ControlKeepsInv, Zenon DEF Update, TypeOK
<1>4. CASE Delete
  <2>1. EntryInv'
    BY <1>1, <1>4, Zenon DEF Delete, EntryInv
  <2>. QED  BY <1>1, <1>4, <2>1, ControlKeepsInv, Zenon DEF Delete, TypeOK
<1>5. CASE Join
  <2>1. EntryInv'
    BY <1>1, <1>5, Zenon DEF Join, EntryInv
  <2>. QED  BY <1>1, <1>5, <2>1, ControlKeepsInv, Zenon DEF Join, Joined, TypeOK
<1>6. CASE Cancel
  <2>1. EntryInv'
    BY <1>1, <1>6, Zenon DEF Cancel, EntryInv
  <2>2. /\ control \in {"insert", "write", "close", "join", "drain"}
        /\ control' \in {"ready", "deleted"}
        /\ control' = "deleted" => dropped'
        /\ control' = "ready" => (control = "write" /\ dropped' = dropped) \/ dropped'
        /\ dropped' \in BOOLEAN
        /\ UNCHANGED <<entry, loop, tasks, quiet, lost>>
    BY <1>1, <1>6, Zenon DEF Cancel, TypeOK
  <2>. QED  BY <1>1, <2>1, <2>2, ControlKeepsInv DEF TypeOK
<1>7. CASE Create
  BY <1>7, CreateStep, Zenon
<1>8. CASE WriteState
  BY <1>8, WriteStep, Zenon
<1>9. CASE CloseOnUpdate \/ CloseOnDelete
  BY <1>9, CloseStep, Zenon
<1>. QED  BY <1>2, <1>3, <1>4, <1>5, <1>6, <1>7, <1>8, <1>9, Zenon DEF Control

(* The invariant holds of every behaviour of a TCP listener: the accept loop, the session    *)
(* tasks and the control operations of runtime/tcp.rs, in every order their awaits allow.    *)
THEOREM TcpInvariance == Spec => []TcpInv
<1>1. Init => TcpInv
  <2>. SUFFICES ASSUME Init PROVE TcpInv
    OBVIOUS
  <2>. USE DEF Init
  <2>1. Spawned = {} /\ \A s \in Sessions : ~ Forwarding(s) /\ ~ Guarded(s)
    BY Zenon DEF Spawned, Forwarding, Guarded, At
  <2>2. TypeOK
    <3>1. generation \in 0..MaxGeneration /\ active \in 0..Cardinality(Sessions)
      BY SessionsFinite, TcpAssumption
    <3>2. session \in [Sessions -> SessionTasks \cup {None}]
      OBVIOUS
    <3>3. {listed, shutdown, aborted, dropped, quiet, lost} \subseteq BOOLEAN
      BY Zenon
    <3>. QED  BY <3>1, <3>2, <3>3, Zenon DEF TypeOK
  <2>3. NumbersInv
    <3>1. 0 \in 0..MaxSessionId /\ 1..0 = {}
      BY SessionsFinite
    <3>. QED  BY <2>1, <3>1, Zenon DEF NumbersInv
  <2>4. LoopInv /\ EntryInv /\ DeleteInv
    BY <2>1, Zenon DEF LoopInv, EntryInv, DeleteInv, DeletedClean
  <2>5. HandlesExact /\ StragglerInv /\ QuietInv
    BY <2>1, Zenon DEF HandlesExact, StragglerInv, Stale, QuietInv, ErrorOfTarget
  <2>6. GaugeExact
    <3>1. {s \in Sessions : Guarded(s)} = {}
      BY <2>1, Zenon
    <3>. QED  BY <3>1, FS_EmptySet, Zenon DEF GaugeExact
  <2>. QED  BY <2>2, <2>3, <2>4, <2>5, <2>6, Zenon DEF TcpInv
<1>2. TcpInv /\ [Next]_vars => TcpInv'
  <2>. SUFFICES ASSUME TcpInv, [Next]_vars PROVE TcpInv'
    OBVIOUS
  <2>1. CASE Control \/ Cancel
    BY <2>1, ControlStep, Zenon
  <2>2. CASE AcceptLoop \/ AcceptFails
    BY <2>2, LoopStep, Zenon
  <2>3. CASE \E s \in Sessions : Task(s)
    BY <2>3, TaskStep, Zenon
  <2>4. CASE UNCHANGED vars
    BY <2>4 DEF vars, TcpInv, TypeOK, NumbersInv, LoopInv, EntryInv, DeleteInv, DeletedClean,
                HandlesExact, GaugeExact, StragglerInv, QuietInv, ErrorOfTarget, Spawned, Stale,
                Forwarding, Guarded, At
  <2>. QED  BY <2>1, <2>2, <2>3, <2>4, Zenon DEF Next
<1>. QED  BY <1>1, <1>2, PTL DEF Spec

(* However many updates and sessions there are, an update that is over leaves at most one    *)
(* session to an older target untold: close_sessions drains every handle in the table, and   *)
(* handle_client holds one client at a time outside it.                                      *)
THEOREM UpdatesLeaveOne == Spec => []OneStraggler
<1>1. TcpInv => OneStraggler
  <2>. SUFFICES ASSUME TcpInv, control = "ready", ~ dropped
                PROVE  Cardinality(Stale) <= 1
    BY Zenon DEF OneStraggler
  <2>1. \A s, t \in Stale : s = t
    BY Zenon DEF TcpInv, StragglerInv
  <2>2. CASE Stale = {}
    BY <2>2, FS_EmptySet
  <2>3. ASSUME NEW s \in Stale PROVE Cardinality(Stale) <= 1
    <3>1. Stale = {s}
      BY <2>1, <2>3, Zenon
    <3>2. Cardinality({s}) = 1
      BY FS_Singleton, Zenon
    <3>. QED  BY <3>1, <3>2
  <2>. QED  BY <2>2, <2>3, Zenon
<1>. QED  BY <1>1, TcpInvariance, PTL

(* A delete that ran to its end leaves the listener closed, the table empty and every        *)
(* session told, because stop_entry drains the table after the accept task has ended.        *)
THEOREM DeletesClean == Spec => []DeletedClean
<1>1. TcpInv => DeletedClean
  BY Zenon DEF TcpInv, DeleteInv
<1>. QED  BY <1>1, TcpInvariance, PTL

(* The table that close_sessions drains holds the handle of every session that runs untold,  *)
(* and no other, at every await.                                                              *)
THEOREM TablesExact == Spec => []HandlesExact
<1>1. TcpInv => HandlesExact
  BY Zenon DEF TcpInv
<1>. QED  BY <1>1, TcpInvariance, PTL

(* The gauge of active sessions is the number of ActiveSessionGuards that exist, at every      *)
(* await and however a session ends.                                                           *)
THEOREM GaugeCounts == Spec => []GaugeExact
<1>1. TcpInv => GaugeExact
  BY Zenon DEF TcpInv
<1>. QED  BY <1>1, TcpInvariance, PTL

(* The error an entry shows is of its target, after an update that met no older session. *)
THEOREM ErrorsOfTarget == Spec => []ErrorOfTarget
<1>1. TcpInv => ErrorOfTarget
  BY Zenon DEF TcpInv, QuietInv
<1>. QED  BY <1>1, TcpInvariance, PTL

(* What snapshot reports accepts clients, unless accept has failed. *)
THEOREM ListedAccept == Spec => []ListedAccepts
<1>1. TcpInv => ListedAccepts
  BY Zenon DEF TcpInv, EntryInv, ListedAccepts
<1>. QED  BY <1>1, TcpInvariance, PTL
=============================================================================
