------------------------- MODULE AllocationServiceInv -------------------------
(***************************************************************************)
(* The inductive invariant of AllocationService: what a handler knows of   *)
(* the two stores at each await.  The mutation lock makes it stable: only  *)
(* the lock holder changes what its own assertions are about.              *)
(***************************************************************************)
EXTENDS AllocationService

(* Exactly the handler past the lock holds it, and only a serving process has any. *)
LockInv ==
  /\ MutualExclusion
  /\ phase # "serving" => \A c \in Clients : pc[c] = "idle"

(* A row without a binding is unbound, or still to be migrated. *)
RowsInv ==
  /\ NoPortOverlap
  /\ phase # "down" => RowMirrorsBinding
  /\ phase = "down" =>
       \A id \in Ids :
         IF allocations[id] # None /\ bindings[id] = None
         THEN allocations[id].target_port > 0 \/ allocations[id].host = None
         ELSE IF allocations[id] = None THEN bindings[id] = None
              ELSE /\ allocations[id].target_port = bindings[id].target_port
                   /\ allocations[id].host = bindings[id].host

(* The startup has restored the listed allocations that are no longer to do. *)
StartupInv ==
  /\ phase # "serving" => suspect = {}
  /\ phase # "restoring" => todo = {}
  /\ phase \in {"down", "opened"} => entries = NoEntries
  /\ phase = "restoring" =>
       \A id \in Ids : IF id \in todo THEN entries[id] = None /\ allocations[id] # None
                                      ELSE entries[id] = GetAllocation(id)

(* A handler that waits has no locals yet. *)
IdleInv(c) ==
  pc[c] \in {"idle", "lock"} =>
    /\ cur[c] = None
    /\ refused[c] = {}

(* create_allocation: all ports before next_port are held or refused, ... *)
Scanned(c) ==
  /\ next_port[c] # None => next_port[c] >= RangeStart
  /\ \A port \in RangeStart..RangeEnd :
       next_port[c] = None \/ port < next_port[c] =>
         port \in OccupiedPorts(req[c].protocol, RangeStart, RangeEnd) \cup refused[c]

(* ... except, while one is tried, that port, which no overlapping row holds. *)
Trying(c) ==
  /\ allocation[c] = [protocol |-> req[c].protocol, port |-> allocation[c].port,
                      target_port |-> req[c].target_port, host |-> None]
  /\ allocation[c].port \in RangeStart..RangeEnd
  /\ next_port[c] = CheckedSucc(allocation[c].port)
  /\ \A port \in RangeStart..(allocation[c].port - 1) :
       port \in OccupiedPorts(req[c].protocol, RangeStart, RangeEnd) \cup refused[c]
  /\ \A id \in ListedIds :
       allocations[id].port = allocation[c].port
         => allocations[id].protocol \notin ConflictingProtocols(req[c].protocol)

CreateInv(c) ==
  /\ pc[c] \in {"find", "create", "persist", "rollback"} => req[c] \in CreateRequests
  /\ pc[c] = "find" => Scanned(c) /\ cur[c] = None
  /\ pc[c] \in {"create", "persist", "rollback"} =>
       /\ Trying(c)
       /\ cur[c] \in Ids \ suspect
       /\ allocations[cur[c]] = None
       /\ entries[cur[c]] = IF pc[c] = "create" THEN None ELSE allocation[c]

ChangeInv(c) ==
  /\ pc[c] \in {"read", "commit", "update", "delete", "db_delete"} =>
       /\ req[c] \in Requests \ CreateRequests
       /\ cur[c] = req[c].id
  /\ pc[c] \in {"commit", "update", "delete", "db_delete"} => allocations[cur[c]] # None
  /\ pc[c] \in {"commit", "update"} => req[c].op # "delete"
  /\ pc[c] \in {"delete", "db_delete"} => req[c].op = "delete"
  /\ pc[c] = "commit" =>
       /\ allocation[c] = Updated(req[c], cur[c])
       /\ Refusal(req[c], cur[c]) = "ok"
  /\ pc[c] = "update" =>
       /\ allocation[c] = GetAllocation(cur[c])
       /\ AppliedConfig(req[c], allocation[c])
  /\ pc[c] = "db_delete" => entries[cur[c]] = None

HandlerInv == \A c \in Clients : IdleInv(c) /\ CreateInv(c) /\ ChangeInv(c)

Inv ==
  /\ TypeOK
  /\ LockInv
  /\ RowsInv
  /\ StartupInv
  /\ HandlerInv
  /\ RuntimeAgrees
=============================================================================
