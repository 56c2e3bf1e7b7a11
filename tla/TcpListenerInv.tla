---------------------------- MODULE TcpListenerInv ----------------------------
(***************************************************************************)
(* The inductive invariant of TcpListener: what the safety properties need *)
(* beside themselves.                                                      *)
(***************************************************************************)
EXTENDS TcpListener

Spawned == {s \in Sessions : session[s] # None}

(* Sessions are numbered without gaps, a client in hand has a number left, and handles and *)
(* signals are of sessions that exist.                                                      *)
NumbersInv ==
  /\ \E n \in 0..MaxSessionId :
       /\ Spawned = 1..n
       /\ accept \in {"read", "register"} => n < MaxSessionId
  /\ handles \cup signalled \subseteq Spawned

(* The accept loop begins with the entry; a snapshot of the state is held exactly between *)
(* reading it and registering the session; an error is of a session that exists.           *)
LoopInv ==
  /\ control = "absent" <=> accept = "none"
  /\ accept = "none" => Spawned = {}
  /\ accept # "none" => state \in EntryStates /\ state.error \in Spawned \cup {None}
  /\ accept = "register" <=> snap # None

(* Only delete tells the accept loop to stop, and it has removed the entry by then; an update *)
(* that has begun has a state to write.                                                       *)
EntryInv ==
  /\ control \in {"absent", "insert", "ready", "write", "close"} => ~ shutdown /\ ~ aborted
  /\ control \in {"absent", "insert", "join", "drain", "deleted"} => ~ listed
  /\ (control = "insert" \/ listed) /\ ~ lost => accept \notin {"none", "done"}
  /\ control = "write" => generation < MaxGeneration

DeleteInv ==
  /\ control = "drain" => accept = "done"
  /\ DeletedClean

(* Between two operations the client in hand and the sessions of an older target are one at *)
(* most, together.                                                                           *)
StragglerInv ==
  (control \in {"absent", "insert", "ready", "write"} /\ ~ dropped) =>
    /\ \A s, t \in Stale : s = t
    /\ (snap # None /\ snap # generation) => Stale = {}

(* After a quiet update everything under way is of the target it wrote. *)
QuietInv ==
  /\ quiet => /\ \A s \in Sessions : Forwarding(s) => session[s].born = generation
              /\ snap \in {None, generation}
  /\ ErrorOfTarget

(* The whole of it: the tasks, the table and the entry of a TCP listener as the steps of     *)
(* runtime/tcp.rs leave them.                                                                *)
TcpInv ==
  /\ TypeOK
  /\ NumbersInv
  /\ LoopInv
  /\ EntryInv
  /\ DeleteInv
  /\ HandlesExact
  /\ GaugeExact
  /\ StragglerInv
  /\ QuietInv
=============================================================================
