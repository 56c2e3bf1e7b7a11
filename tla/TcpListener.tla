----------------------------- MODULE TcpListener -----------------------------
(***************************************************************************)
(* One entry of the TCP runtime (runtime/tcp.rs): its accept loop, a task  *)
(* per session, and the control operations `create`, `restore`, `update`   *)
(* and `delete`, which the service's mutation lock serialises.  A step     *)
(* ends at an await.  The accept loop handles one client at a time up to   *)
(* the spawn of its session.  A target is told apart by the number of the  *)
(* state write that installed it.  Payloads are left out: of the two       *)
(* directions of a copy only whether they have ended is kept.              *)
(***************************************************************************)
EXTENDS Integers, FiniteSets

CONSTANTS
  MaxSessionId,    \* bound: number of sessions
  MaxGeneration,   \* bound: number of updates
  SpliceEnabled,   \* config.tcp_splice_enabled
  ForceFallback,   \* config.force_tcp_copy_fallback
  Cancels,         \* whether a control operation's future may be dropped
  None

Sessions == 1..MaxSessionId

Directions == {"from_client", "from_upstream"}

(* The state of an entry, and the task of a session: the state write under which its client *)
(* was accepted, the await it is at, and its copy.                                           *)
EntryStates == [target : BOOLEAN, error : Sessions \cup {None}]

SessionTasks ==
  [born : 0..MaxGeneration, pc : {"connect", "copy", "fail", "refused", "remove", "done"},
   copy : [splice : BOOLEAN, open : SUBSET Directions, hard : BOOLEAN]]

ASSUME TcpAssumption ==
  /\ {MaxSessionId, MaxGeneration} \subseteq Nat
  /\ {SpliceEnabled, ForceFallback, Cancels} \subseteq BOOLEAN
  /\ None \notin Nat \cup EntryStates \cup SessionTasks

VARIABLES
  control,     \* where the control operation is
  listed,      \* whether `entries` holds the entry
  state,       \* EntryState: whether it has a target, and the session its last_error is from
  generation,  \* number of state writes by `update`
  shutdown,    \* the value of the watch channel
  accept,      \* where the accept loop is
  aborted,     \* whether the accept task was aborted
  snap,        \* the generation of the state that handle_client read, or None
  handles,     \* the keys of entry.sessions: each holds the sender of a oneshot channel
  signalled,   \* the sessions whose sender was used or dropped
  session,     \* the session tasks: None before the spawn
  active,      \* metrics.active, and tcp_active_sessions
  dropped,     \* history: an operation was dropped before it closed the sessions
  quiet,       \* history: at the last state write no older session was under way
  lost         \* history: the accept loop ended because accept failed

entry == <<listed, state, generation, shutdown>>
loop == <<accept, aborted, snap>>
tasks == <<handles, signalled, session, active>>
history == <<dropped, quiet, lost>>
vars == <<control, listed, state, generation, shutdown, accept, aborted, snap,
          handles, signalled, session, active, dropped, quiet, lost>>

(* A copy that has not begun or is over. *)
Idle == [splice |-> FALSE, open |-> Directions, hard |-> FALSE]

Init ==
  /\ control = "absent"
  /\ listed = FALSE
  /\ state = None
  /\ generation = 0
  /\ shutdown = FALSE
  /\ accept = "none"
  /\ aborted = FALSE
  /\ snap = None
  /\ handles = {}
  /\ signalled = {}
  /\ session = [s \in Sessions |-> None]
  /\ active = 0
  /\ dropped = FALSE
  /\ quiet = TRUE
  /\ lost = FALSE

next_session_id == 1 + Cardinality({s \in Sessions : session[s] # None})

At(s, labels) == session[s] # None /\ session[s].pc \in labels

(* The forwarding future of s has not ended. *)
Forwarding(s) == At(s, {"connect", "copy", "fail", "refused"})

(* An ActiveSessionGuard of s exists. *)
Guarded(s) == At(s, {"copy", "fail"})

-----------------------------------------------------------------------------
(* The control operations. *)

(* entry_state_for: with host and target port Active, without either RejectingNoHost; *)
(* no error.                                                                           *)
entry_state_for(bound) == [target |-> bound, error |-> None]

(* bind_entry: the listener is bound, the entry built and the accept loop spawned. *)
bind_entry ==
  /\ \E bound \in BOOLEAN : state' = entry_state_for(bound)
  /\ accept' = "accept"

(* create: a failed bind leaves nothing behind, the next await is on the lock of entries. *)
Create ==
  /\ control = "absent"
  /\ bind_entry
  /\ control' = "insert"
  /\ UNCHANGED <<listed, generation, shutdown, aborted, snap, tasks, history>>

Insert ==
  /\ control = "insert"
  /\ listed' = TRUE
  /\ control' = "ready"
  /\ UNCHANGED <<state, generation, shutdown, loop, tasks, history>>

(* update: the entry is looked up, a missing one is an error. *)
Update ==
  /\ control = "ready"
  /\ listed
  /\ generation < MaxGeneration
  /\ control' = "write"
  /\ UNCHANGED <<entry, loop, tasks, history>>

(* Mutant: the error of the old state stays. *)
WriteTargetOnly ==
  /\ control = "write"
  /\ \E bound \in BOOLEAN : state' = [state EXCEPT !.target = bound]
  /\ generation' = generation + 1
  /\ quiet' = (snap = None /\ \A s \in Sessions : ~ Forwarding(s))
  /\ control' = "close"
  /\ UNCHANGED <<listed, shutdown, loop, tasks, dropped, lost>>

WriteState ==
  /\ control = "write"
  /\ \E bound \in BOOLEAN : state' = entry_state_for(bound)
  /\ generation' = generation + 1
  /\ quiet' = (snap = None /\ \A s \in Sessions : ~ Forwarding(s))
  /\ control' = "close"
  /\ UNCHANGED <<listed, shutdown, loop, tasks, dropped, lost>>

(* Mutant: sessions are closed only when the binding goes. *)
CloseUnlessBound ==
  /\ signalled' = IF state.target THEN signalled ELSE signalled \cup handles
  /\ handles' = IF state.target THEN handles ELSE {}
  /\ dropped' = FALSE

(* close_sessions: the table is drained under its lock, then every session is told. *)
close_sessions ==
  /\ signalled' = signalled \cup handles
  /\ handles' = {}
  /\ dropped' = FALSE

CloseOnUpdate ==
  /\ control = "close"
  /\ close_sessions
  /\ control' = "ready"
  /\ UNCHANGED <<entry, loop, session, active, quiet, lost>>

(* Mutant: delete does not wait for the accept task. *)
JoinedAtOnce == accept \in {"none", "accept", "read", "reject", "register", "done"}

(* task.await *)
Joined == accept = "done"

(* Mutant: the entry is removed and its accept task left alone. *)
DeleteForgetsTask ==
  /\ control = "ready"
  /\ listed
  /\ listed' = FALSE
  /\ control' = "join"
  /\ UNCHANGED <<state, generation, shutdown, loop, tasks, history>>

(* delete, and shutdown_all for every entry: the entry is removed, then stop_entry tells   *)
(* the accept loop and aborts it.  Nobody else holds accept_task by then.                  *)
Delete ==
  /\ control = "ready"
  /\ listed
  /\ listed' = FALSE
  /\ shutdown' = TRUE
  /\ aborted' = TRUE
  /\ control' = "join"
  /\ UNCHANGED <<state, generation, accept, snap, tasks, history>>

Join ==
  /\ control = "join"
  /\ Joined
  /\ control' = "drain"
  /\ UNCHANGED <<entry, loop, tasks, history>>

CloseOnDelete ==
  /\ control = "drain"
  /\ close_sessions
  /\ control' = "deleted"
  /\ UNCHANGED <<entry, loop, session, active, quiet, lost>>

(* The operation's future is dropped at the await it is at. *)
Cancel ==
  /\ Cancels
  /\ \/ /\ control = "write"
        /\ control' = "ready"
        /\ UNCHANGED dropped
     \/ /\ control = "close"
        /\ control' = "ready"
        /\ dropped' = TRUE
     \/ /\ control \in {"insert", "join", "drain"}
        /\ control' = "deleted"
        /\ dropped' = TRUE
  /\ UNCHANGED <<entry, loop, tasks, quiet, lost>>

-----------------------------------------------------------------------------
(* The accept loop. *)

Accepting(from, to) ==
  /\ accept = from
  /\ accept' = to
  /\ UNCHANGED <<control, entry, aborted, tasks, dropped, quiet>>

Accept ==
  /\ next_session_id \in Sessions
  /\ Accepting("accept", "read")
  /\ UNCHANGED <<snap, lost>>

(* accept failed, or the loop saw the shutdown: the task ends and the listener is closed. *)
AcceptFails == Accepting("accept", "done") /\ lost' = TRUE /\ UNCHANGED snap

StopAccepting == shutdown /\ Accepting("accept", "done") /\ UNCHANGED <<snap, lost>>

(* handle_client reads the state; without a target the client is turned away. *)
ReadState ==
  /\ Accepting("read", IF state.target THEN "register" ELSE "reject")
  /\ snap' = IF state.target THEN generation ELSE None
  /\ UNCHANGED lost

(* Mutant: the loop ends with the client it turns away. *)
RejectEnds == Accepting("reject", "done") /\ UNCHANGED <<snap, lost>>

(* At most 50 ms later the client's connection is shut down. *)
Reject == Accepting("reject", "accept") /\ UNCHANGED <<snap, lost>>

(* The session gets the next number and its handle, and its task is spawned. *)
Register ==
  /\ accept = "register"
  /\ LET s == next_session_id
     IN  /\ handles' = handles \cup {s}
         /\ session' = [session EXCEPT ![s] = [born |-> snap, pc |-> "connect", copy |-> Idle]]
  /\ snap' = None
  /\ accept' = "accept"
  /\ UNCHANGED <<control, entry, aborted, signalled, active, history>>

(* The aborted task is dropped at the await it is at. *)
Die ==
  /\ aborted
  /\ accept \notin {"none", "done"}
  /\ accept' = "done"
  /\ snap' = None
  /\ UNCHANGED <<control, entry, aborted, tasks, history>>

-----------------------------------------------------------------------------
(* The task of a session. *)

Step(s, label) == session' = [session EXCEPT ![s].pc = label, ![s].copy = Idle]

(* ActiveSessionGuard::drop, if the guard exists. *)
DropGuard(s) == active' = IF Guarded(s) THEN active - 1 ELSE active

(* What the steps of forwarding leave alone, but for the error and the handles. *)
others == <<control, entry, loop, handles, signalled, history>>

(* The upstream is connected; copy_streams chooses splice when it is enabled and not *)
(* overridden, and falls back to the buffered copy when the pipes cannot be made.    *)
Connect(s) ==
  /\ At(s, {"connect"})
  /\ \E splice \in BOOLEAN :
       /\ splice => SpliceEnabled /\ ~ ForceFallback
       /\ session' = [session EXCEPT ![s].pc = "copy", ![s].copy.splice = splice]
  /\ active' = active + 1
  /\ UNCHANGED others

ConnectFails(s) ==
  /\ At(s, {"connect"})
  /\ Step(s, "refused")
  /\ UNCHANGED <<others, active>>

(* copy_bidirectional gives up at the first error; copy_splice goes on with the other direction. *)
CopyOver(copy) == copy.open = {} \/ (copy.hard /\ ~ copy.splice)

(* A direction ends, by end of stream or by an error; one that only says that the peer has  *)
(* closed is as good as an end of stream.  A copy that is over without a hard error has its *)
(* bytes added to metrics.tx and metrics.rx, and the guard is dropped.                      *)
DirectionEnds(s, d) ==
  /\ At(s, {"copy"})
  /\ d \in session[s].copy.open
  /\ \E hard \in BOOLEAN :
       LET copy == [session[s].copy EXCEPT !.open = @ \ {d}, !.hard = @ \/ hard]
       IN  \/ /\ ~ CopyOver(copy)
              /\ session' = [session EXCEPT ![s].copy = copy]
              /\ UNCHANGED active
           \/ /\ CopyOver(copy) /\ copy.hard
              /\ Step(s, "fail")
              /\ UNCHANGED active
           \/ /\ CopyOver(copy) /\ ~ copy.hard
              /\ DropGuard(s)
              /\ Step(s, "remove")
  /\ UNCHANGED others

(* state.write(): the error of this session becomes the entry's; the status stays. *)
WriteError(s) ==
  /\ At(s, {"fail", "refused"})
  /\ state' = [state EXCEPT !.error = s]
  /\ DropGuard(s)
  /\ Step(s, "remove")
  /\ UNCHANGED <<control, listed, generation, shutdown, loop, handles, signalled, history>>

(* Mutant: the guard is not dropped with the forwarding future. *)
CloseKeepsGuard(s) ==
  /\ s \in signalled
  /\ Forwarding(s)
  /\ Step(s, "remove")
  /\ UNCHANGED <<others, active>>

(* Mutant: the channel is not looked at while bytes are copied. *)
CloseUnlessCopying(s) ==
  /\ s \in signalled
  /\ At(s, {"connect", "refused", "fail"})
  /\ DropGuard(s)
  /\ Step(s, "remove")
  /\ UNCHANGED others

(* select!: the session is told to close and its forwarding future is dropped, guard *)
(* included.  Until then the forwarding may still take steps.                         *)
Close(s) ==
  /\ s \in signalled
  /\ Forwarding(s)
  /\ DropGuard(s)
  /\ Step(s, "remove")
  /\ UNCHANGED others

(* Mutant: a finished session leaves its handle in the table. *)
LeaveHandle(s) ==
  /\ At(s, {"remove"})
  /\ Step(s, "done")
  /\ UNCHANGED <<others, active>>

remove_session_handle(s) ==
  /\ At(s, {"remove"})
  /\ handles' = handles \ {s}
  /\ Step(s, "done")
  /\ UNCHANGED <<control, entry, loop, signalled, active, history>>

-----------------------------------------------------------------------------
Control == Create \/ Insert \/ Update \/ WriteState \/ CloseOnUpdate \/ Delete \/ Join
           \/ CloseOnDelete

AcceptLoop == Accept \/ StopAccepting \/ ReadState \/ Reject \/ Die
              \/ Register

Task(s) ==
  \/ Connect(s) \/ ConnectFails(s) \/ WriteError(s)
  \/ Close(s) \/ remove_session_handle(s)
  \/ \E d \in Directions : DirectionEnds(s, d)

Next == Control \/ Cancel \/ AcceptLoop \/ AcceptFails \/ \E s \in Sessions : Task(s)

Spec == Init /\ [][Next]_vars

(* An operation that has begun goes on; an aborted task is dropped; a client that was      *)
(* accepted is handled; a session that was told to close sees it, and cleans up.  Nothing  *)
(* says that a client comes, that a copy ends or that an operation is asked for.           *)
Fairness ==
  /\ WF_vars(Insert \/ WriteState \/ CloseOnUpdate \/ Join \/ CloseOnDelete)
  /\ WF_vars(Die)
  /\ WF_vars(ReadState \/ Reject \/ Register)
  /\ \A s \in Sessions : WF_vars(Close(s)) /\ WF_vars(WriteError(s))
                         /\ WF_vars(remove_session_handle(s))

FairSpec == Spec /\ Fairness

-----------------------------------------------------------------------------
TypeOK ==
  /\ control \in {"absent", "insert", "ready", "write", "close", "join", "drain", "deleted"}
  /\ accept \in {"none", "accept", "read", "reject", "register", "done"}
  /\ {listed, shutdown, aborted, dropped, quiet, lost} \subseteq BOOLEAN
  /\ state \in EntryStates \cup {None}
  /\ generation \in 0..MaxGeneration
  /\ snap \in (0..MaxGeneration) \cup {None}
  /\ handles \subseteq Sessions
  /\ signalled \subseteq Sessions
  /\ session \in [Sessions -> SessionTasks \cup {None}]
  /\ active \in 0..Cardinality(Sessions)

(* The sessions that forward to an older target and that nobody has told to close. *)
Stale == {s \in Sessions : Forwarding(s) /\ s \notin signalled /\ session[s].born # generation}

(* "Updating or deleting a binding closes existing active sessions for that allocation so    *)
(* stale target connections do not continue indefinitely": when an update is over, a session *)
(* that forwards to an older target and was not told to close comes to an end or is told.    *)
StaleSessionsEnd == \A s \in Sessions : (control = "ready" /\ s \in Stale) ~> (s \notin Stale)

(* How far update is from that: at most one session is left to an older target, the one whose *)
(* client handle_client had in hand, state read and handle not yet in the table, when update  *)
(* wrote the state and close_sessions drained the table.  The next update closes it.          *)
OneStraggler == (control = "ready" /\ ~ dropped) => Cardinality(Stale) <= 1

(* When a delete is over, the listener is closed, the table is empty, and every session has  *)
(* been told to close: stop_entry waits for the accept task before it drains the table.      *)
DeletedClean ==
  (control = "deleted" /\ ~ dropped) =>
    /\ accept = "done"
    /\ handles = {}
    /\ \A s \in Sessions : Forwarding(s) => s \in signalled

(* close_sessions reaches every session that runs, and nothing else: a session whose forwarding  *)
(* goes on and that was not told to close has its handle in the table, and the table holds no *)
(* handle of a session that has ended or was told already.                                    *)
HandlesExact ==
  /\ \A s \in Sessions : (Forwarding(s) /\ s \notin signalled) => s \in handles
  /\ \A s \in handles : s \notin signalled /\ ~ At(s, {"done"})

(* The gauge metrics.active counts the sessions that have their upstream, however they end:   *)
(* by themselves, with an error, or closed by an update or a delete.                          *)
GaugeExact == active = Cardinality({s \in Sessions : Guarded(s)})

(* If no older session was under way when update wrote the state, the error the entry shows   *)
(* is of a session to the target the entry shows.                                             *)
ErrorOfTarget ==
  (quiet /\ state # None) => (state.error # None => session[state.error].born = generation)

(* An entry that snapshot reports has its listener open, unless accept has failed once:       *)
(* then the loop is over, and the entry goes on to report its target as active.               *)
ListedAccepts == (listed /\ ~ lost) => accept \notin {"none", "done"}

(* Every operation that has begun ends. *)
OperationsEnd ==
  /\ (control \in {"insert", "write", "close"}) ~> (control \in {"ready", "deleted"})
  /\ (control \in {"join", "drain"}) ~> (control = "deleted")

(* A session that was told to close ends, whatever its clients do. *)
ClosedEnds == \A s \in Sessions : (s \in signalled) ~> At(s, {"done"})

(* A delete that has begun gives the port back even if its future is dropped while it waits   *)
(* for the accept task, which it has aborted by then.                                         *)
PortReleased == (control = "join") ~> (accept = "done")
=============================================================================
