-------------------------- MODULE AllocationService --------------------------
(***************************************************************************)
(* The service (service/allocation_service.rs) over the repository and the *)
(* runtime, driven by HTTP handlers (http/control_plane.rs) and started by *)
(* bin/relayd.rs.  A step ends where the code awaits the mutation lock,    *)
(* the database or the runtime: between two steps other handlers run, the  *)
(* client may disconnect (axum then drops the handler's future, and with   *)
(* it the lock guard), and the process may die.                            *)
(***************************************************************************)
EXTENDS RuntimeFacade

CONSTANTS
  Clients,          \* connections with at most one request in progress each
  RangeStart, RangeEnd,  \* Config.port_range
  Targets,          \* the target ports requests name
  BadHost,          \* a host that is no IP literal
  LegacyIds,        \* ids a database left by an earlier version may hold
  MaxHalfDone       \* bound: operations left half done between two starts

(* The outcomes of a request: Ok, and the ServiceErrors. *)
Results == {"ok", "NotFound", "NoAvailablePort", "InvalidHost", "Runtime", "Repository"}

(* parse_port_range accepts 1 <= start <= end <= u16::MAX only. *)
ASSUME RangeAssumption ==
  /\ RangeStart \in Ports
  /\ RangeEnd \in Ports
  /\ RangeStart <= RangeEnd
ASSUME RequestAssumption ==
  /\ Targets \subseteq Ports
  /\ BadHost \notin Hosts \cup {None}
  /\ LegacyIds \subseteq Ids
  /\ None \notin Clients
  /\ MaxHalfDone \in Nat
ASSUME ReplyAssumption == None \notin [client: Clients, result: Results]

VARIABLES
  phase,          \* "down", "opened", "restoring", "serving"
  todo,           \* restore_all: the ids still to restore
  mutation_lock,  \* the client whose handler holds the lock, or None
  pc,             \* per client: the await its handler is at
  req,            \* per client: the request, None when idle
  next_port,      \* per client: local of create_allocation
  cur,            \* per client: the id the handler works on
  allocation,     \* per client: local (updated_)allocation
  reply,          \* the response sent by the last step, or None
  refused,        \* history: ports the runtime refused to the current create
  suspect,        \* history: ids an operation left half done since the last start
  half_done       \* history: how many operations were left half done since then

locals == <<next_port, cur, allocation, refused>>
repo == <<allocations, bindings>>
vars == <<allocations, bindings, entries, phase, todo, mutation_lock, pc, req,
          next_port, cur, allocation, reply, refused, suspect, half_done>>
history == <<suspect, half_done>>

CreateRequests == [op: {"create"}, protocol: Protocols, target_port: Targets \cup {None}]
PutRequests == [op: {"put_binding"}, id: Ids, target_port: Targets, host: Hosts]
UpdateRequests ==
  {r \in [op: {"update"}, id: Ids, target_port: Targets \cup {None},
          host: Hosts \cup {BadHost, None}] : r.target_port # None \/ r.host # None}
DeleteRequests == [op: {"delete_binding", "delete"}, id: Ids]
Requests == CreateRequests \cup PutRequests \cup UpdateRequests \cup DeleteRequests

(* The awaits at which a handler holds the mutation lock. *)
LockedLabels ==
  {"find", "create", "persist", "rollback", "read", "commit", "update", "delete", "db_delete"}

ServiceTypeOK ==
  /\ phase \in {"down", "opened", "restoring", "serving"}
  /\ todo \in SUBSET Ids
  /\ mutation_lock \in Clients \cup {None}
  /\ pc \in [Clients -> LockedLabels \cup {"idle", "lock"}]
  /\ req \in [Clients -> Requests \cup {None}]
  /\ next_port \in [Clients -> Ports \cup {None}]
  /\ cur \in [Clients -> Ids \cup {None}]
  /\ allocation \in [Clients -> Allocation \cup {None}]
  /\ reply \in [client: Clients, result: Results] \cup {None}
  /\ refused \in [Clients -> SUBSET Ports]
  /\ suspect \in SUBSET Ids
  /\ half_done \in 0..MaxHalfDone

TypeOK == RepositoryTypeOK /\ RuntimeTypeOK /\ ServiceTypeOK

-----------------------------------------------------------------------------
(* Steps of a handler. *)

(* The handler goes on to await `label`. *)
Goto(c, label) ==
  /\ pc' = [pc EXCEPT ![c] = label]
  /\ reply' = None
  /\ UNCHANGED <<phase, todo, mutation_lock, req>>

(* The handler's future ends or is dropped: its guard and its locals go with it. *)
Leave(c) ==
  /\ mutation_lock' = IF mutation_lock = c THEN None ELSE mutation_lock
  /\ pc' = [pc EXCEPT ![c] = "idle"]
  /\ req' = [req EXCEPT ![c] = None]
  /\ next_port' = [next_port EXCEPT ![c] = None]
  /\ cur' = [cur EXCEPT ![c] = None]
  /\ allocation' = [allocation EXCEPT ![c] = None]
  /\ refused' = [refused EXCEPT ![c] = {}]
  /\ UNCHANGED <<phase, todo>>

Reply(c, result) ==
  /\ Leave(c)
  /\ reply' = [client |-> c, result |-> result]

(* An id no store and no handler knows: ids are fresh UUIDs. *)
FreshIds ==
  {id \in Ids \ suspect : /\ allocations[id] = None
                          /\ entries[id] = None
                          /\ \A c \in Clients : cur[c] # id}

(* The operation of c ends with one store changed and the other not. *)
LeaveHalfDone(c) ==
  /\ half_done < MaxHalfDone
  /\ half_done' = half_done + 1
  /\ suspect' = suspect \cup {cur[c]}

(* The operation of c ends with both stores in agreement. *)
LeaveDone(c) ==
  /\ suspect' = suspect \ {cur[c]}
  /\ UNCHANGED half_done

(* A request reaches its handler and waits for self.mutation_lock.  Its arguments *)
(* are first read under the lock, so Lock chooses them.                           *)
Call(c) ==
  /\ phase = "serving"
  /\ pc[c] = "idle"
  /\ Goto(c, "lock")
  /\ UNCHANGED <<repo, entries, locals, history>>

(* put_binding alone looks at an argument before it locks: the host. *)
CallRefused(c) ==
  /\ phase = "serving"
  /\ pc[c] = "idle"
  /\ Reply(c, "InvalidHost")
  /\ UNCHANGED <<repo, entries, history>>

(* Mutant: the handler does not wait for the lock. *)
LockAnyway(c, r) ==
  /\ pc[c] = "lock"
  /\ mutation_lock' = c
  /\ req' = [req EXCEPT ![c] = r]
  /\ IF r.op = "create"
     THEN /\ FreshIds # {}
          /\ pc' = [pc EXCEPT ![c] = "find"]
          /\ next_port' = [next_port EXCEPT ![c] = RangeStart]
          /\ UNCHANGED cur
     ELSE /\ pc' = [pc EXCEPT ![c] = "read"]
          /\ cur' = [cur EXCEPT ![c] = r.id]
          /\ UNCHANGED next_port
  /\ reply' = None
  /\ UNCHANGED <<repo, entries, phase, todo, allocation, refused, history>>

(* The lock is acquired.  A create is only accepted while an id is left: a bound. *)
Lock(c, r) ==
  /\ pc[c] = "lock"
  /\ mutation_lock = None
  /\ mutation_lock' = c
  /\ req' = [req EXCEPT ![c] = r]
  /\ IF r.op = "create"
     THEN /\ FreshIds # {}
          /\ pc' = [pc EXCEPT ![c] = "find"]
          /\ next_port' = [next_port EXCEPT ![c] = RangeStart]
          /\ UNCHANGED cur
     ELSE /\ pc' = [pc EXCEPT ![c] = "read"]
          /\ cur' = [cur EXCEPT ![c] = r.id]
          /\ UNCHANGED next_port
  /\ reply' = None
  /\ UNCHANGED <<repo, entries, phase, todo, allocation, refused, history>>

-----------------------------------------------------------------------------
(* create_allocation *)

(* Mutant: a refused port is tried again. *)
CheckedSuccStays(port) == port

(* u16::checked_add(1) *)
CheckedSucc(port) == IF port = MaxPort THEN None ELSE port + 1

(* One turn of the while loop up to the runtime's create, or its end. *)
FindPort(c) ==
  /\ pc[c] = "find"
  /\ LET port == IF next_port[c] = None THEN None
                 ELSE FindAvailablePort(req[c].protocol, next_port[c], RangeEnd)
     IN  IF port = None
         THEN Reply(c, "NoAvailablePort")
         ELSE /\ \E id \in FreshIds : cur' = [cur EXCEPT ![c] = id]
              /\ allocation' = [allocation EXCEPT ![c] =
                   [protocol |-> req[c].protocol, port |-> port,
                    target_port |-> req[c].target_port, host |-> None]]
              /\ next_port' = [next_port EXCEPT ![c] = CheckedSucc(port)]
              /\ UNCHANGED refused
              /\ Goto(c, "create")
  /\ UNCHANGED <<repo, entries, history>>

(* self.runtime.create: Ok goes on to persist, RuntimeCreateFailed tries the next *)
(* port, any other error is returned.                                             *)
CreateListener(c) ==
  /\ pc[c] = "create"
  /\ \/ /\ RuntimeCreateOk(cur[c], allocation[c])
        /\ Goto(c, "persist")
        /\ UNCHANGED locals
     \/ /\ RuntimeCreateErr
        /\ Goto(c, "find")
        /\ refused' = [refused EXCEPT ![c] = @ \cup {allocation[c].port}]
        /\ cur' = [cur EXCEPT ![c] = None]
        /\ allocation' = [allocation EXCEPT ![c] = None]
        /\ UNCHANGED next_port
     \/ /\ RuntimeCreateErr
        /\ Reply(c, "Runtime")
  /\ UNCHANGED <<repo, history>>

(* persist_created_allocation *)
Persist(c) ==
  /\ pc[c] = "persist"
  /\ \/ /\ IF allocation[c].target_port # None
           THEN InsertAllocationWithBinding(cur[c], allocation[c],
                  [target_port |-> allocation[c].target_port, host |-> allocation[c].host])
           ELSE InsertAllocation(cur[c], allocation[c])
        /\ Reply(c, "ok")
     \/ /\ UNCHANGED repo
        /\ Goto(c, "rollback")
        /\ UNCHANGED locals
  /\ UNCHANGED <<entries, history>>

(* Mutant: the error is returned and the listener stays. *)
RollbackNothing(c) ==
  /\ pc[c] = "rollback"
  /\ Reply(c, "Repository")
  /\ UNCHANGED <<repo, entries, history>>

(* let _ = self.runtime.delete(..); return Err(error) *)
Rollback(c) ==
  /\ pc[c] = "rollback"
  /\ \/ RuntimeDeleteOk(cur[c]) /\ UNCHANGED history
     \/ RuntimeDeleteErr /\ LeaveHalfDone(c)
  /\ Reply(c, "Repository")
  /\ UNCHANGED repo

-----------------------------------------------------------------------------
(* put_binding, update_allocation (and set_target), delete_binding *)

(* The binding an update resolves to: what the request names, else what is stored. *)
ResolvedTarget(r, id) ==
  IF r.target_port # None THEN r.target_port
  ELSE IF bindings[id] # None THEN bindings[id].target_port ELSE None

(* Mutant: the stored host wins over the requested one. *)
ResolvedHostStored(r, id) ==
  IF GetAllocation(id).host # None THEN GetAllocation(id).host ELSE r.host

ResolvedHost(r, id) == IF r.host # None THEN r.host ELSE GetAllocation(id).host

(* Mutant: an update of an unbound allocation needs no target port. *)
RefusalWithoutTarget(r, id) ==
  IF allocations[id] = None THEN "NotFound"
  ELSE CASE r.op = "update" /\ r.host = BadHost -> "InvalidHost"
         [] r.op = "delete_binding" /\ bindings[id] = None -> "NotFound"
         [] OTHER -> "ok"

(* The error an update or delete returns on what it reads, "ok" to go on. *)
Refusal(r, id) ==
  IF allocations[id] = None THEN "NotFound"
  ELSE CASE r.op = "update" /\ r.host = BadHost -> "InvalidHost"
         [] r.op = "update" /\ r.host # BadHost /\ ResolvedTarget(r, id) = None -> "NotFound"
         [] r.op = "delete_binding" /\ bindings[id] = None -> "NotFound"
         [] OTHER -> "ok"

(* The allocation after the operation: allocation_with_binding, or unbound. *)
Updated(r, id) ==
  IF r.op = "delete_binding"
  THEN [GetAllocation(id) EXCEPT !.target_port = None, !.host = None]
  ELSE [GetAllocation(id) EXCEPT !.target_port = ResolvedTarget(r, id),
                                 !.host = ResolvedHost(r, id)]

(* self.repo.get_allocation(_with_binding) and the checks on its result. *)
Read(c) ==
  /\ pc[c] = "read"
  /\ LET refusal == Refusal(req[c], cur[c])
     IN  IF refusal # "ok"
         THEN Reply(c, refusal)
         ELSE /\ IF req[c].op = "delete"
                 THEN /\ Goto(c, "delete")
                      /\ UNCHANGED allocation
                 ELSE /\ Goto(c, "commit")
                      /\ allocation' = [allocation EXCEPT ![c] = Updated(req[c], cur[c])]
              /\ UNCHANGED <<next_port, cur, refused>>
  /\ UNCHANGED <<repo, entries, history>>

(* self.repo.put_binding or self.repo.delete_binding *)
Commit(c) ==
  /\ pc[c] = "commit"
  /\ IF req[c].op = "delete_binding" /\ bindings[cur[c]] = None
     THEN Reply(c, "NotFound") /\ UNCHANGED repo
     ELSE /\ IF req[c].op = "delete_binding"
             THEN DeleteBinding(cur[c])
             ELSE PutBinding(cur[c], [target_port |-> allocation[c].target_port,
                                      host |-> allocation[c].host])
          /\ Goto(c, "update")
          /\ UNCHANGED locals
  /\ UNCHANGED <<entries, history>>

(* self.runtime.update: its error is returned with the database already changed. *)
UpdateListener(c) ==
  /\ pc[c] = "update"
  /\ \/ /\ RuntimeUpdateOk(cur[c], allocation[c])
        /\ Reply(c, "ok")
        /\ LeaveDone(c)
     \/ /\ RuntimeUpdateErr(cur[c], allocation[c])
        /\ Reply(c, "Runtime")
        /\ LeaveHalfDone(c)
  /\ UNCHANGED repo

-----------------------------------------------------------------------------
(* delete_allocation *)

(* self.runtime.delete *)
DeleteListener(c) ==
  /\ pc[c] = "delete"
  /\ \/ /\ RuntimeDeleteOk(cur[c])
        /\ Goto(c, "db_delete")
        /\ UNCHANGED locals
     \/ /\ RuntimeDeleteErr
        /\ Reply(c, "Runtime")
  /\ UNCHANGED <<repo, history>>

(* self.repo.delete_allocation: its error is returned with the listener gone. *)
DeleteRow(c) ==
  /\ pc[c] = "db_delete"
  /\ \/ /\ DeleteAllocation(cur[c])
        /\ Reply(c, IF allocations[cur[c]] = None THEN "NotFound" ELSE "ok")
        /\ LeaveDone(c)
     \/ /\ UNCHANGED repo
        /\ Reply(c, "Repository")
        /\ LeaveHalfDone(c)
  /\ UNCHANGED entries

-----------------------------------------------------------------------------
(* Failures *)

(* A database error before anything was changed: every `?` on the repository. *)
RepositoryFails(c) ==
  /\ pc[c] \in {"find", "read", "commit"}
  /\ Reply(c, "Repository")
  /\ UNCHANGED <<repo, entries, history>>

(* The handlers that changed one of the two stores and not yet the other. *)
HalfDone(c) == pc[c] \in {"persist", "rollback", "update", "db_delete"}

(* A dropped future takes the runtime call it awaits with it. *)
RuntimeDropped(c) ==
  \/ pc[c] = "create" /\ RuntimeCreateDropped(cur[c], allocation[c])
  \/ pc[c] = "update" /\ RuntimeUpdateErr(cur[c], allocation[c])
  \/ pc[c] \in {"delete", "rollback"} /\ RuntimeDeleteDropped(cur[c])

(* The client disconnects and the handler's future is dropped at its await.  A     *)
(* transaction that is awaited then takes effect or not: that it does is the step  *)
(* Persist, Commit or DeleteRow, its reply unread (and a Cancel at "update").      *)
Cancel(c) ==
  /\ pc[c] # "idle"
  /\ Leave(c)
  /\ reply' = None
  /\ \/ ~ HalfDone(c) /\ UNCHANGED <<entries, history>>
     \/ HalfDone(c) /\ LeaveHalfDone(c) /\ UNCHANGED entries
     \/ RuntimeDropped(c) /\ LeaveHalfDone(c)
  /\ UNCHANGED repo

(* The process ends: everything but the database is gone. *)
Exit ==
  /\ phase' = "down"
  /\ todo' = {}
  /\ entries' = NoEntries
  /\ mutation_lock' = None
  /\ pc' = [c \in Clients |-> "idle"]
  /\ req' = [c \in Clients |-> None]
  /\ next_port' = [c \in Clients |-> None]
  /\ cur' = [c \in Clients |-> None]
  /\ allocation' = [c \in Clients |-> None]
  /\ refused' = [c \in Clients |-> {}]
  /\ suspect' = {}
  /\ half_done' = 0
  /\ reply' = None
  /\ UNCHANGED repo

Crash == phase # "down" /\ Exit

-----------------------------------------------------------------------------
(* Startup: Repository::open, then restore_all, and only then the HTTP server. *)

(* Repository::open *)
Open ==
  /\ phase = "down"
  /\ phase' = "opened"
  /\ MigrateLegacyBindings
  /\ reply' = None
  /\ UNCHANGED <<entries, todo, mutation_lock, pc, req, locals, history>>

(* Mutant: allocations without a binding are not restored. *)
ListBoundForRestore ==
  /\ phase = "opened"
  /\ phase' = "restoring"
  /\ todo' = {id \in ListedIds : bindings[id] # None}
  /\ reply' = None
  /\ UNCHANGED <<repo, entries, mutation_lock, pc, req, locals, history>>

(* runtime.initialize and list_allocations *)
ListForRestore ==
  /\ phase = "opened"
  /\ phase' = "restoring"
  /\ todo' = ListedIds
  /\ reply' = None
  /\ UNCHANGED <<repo, entries, mutation_lock, pc, req, locals, history>>

(* Mutant: the loop does not advance. *)
RestoreAgain(id) ==
  /\ phase = "restoring"
  /\ id \in todo
  /\ RuntimeRestoreOk(id, GetAllocation(id))
  /\ reply' = None
  /\ UNCHANGED <<repo, phase, todo, mutation_lock, pc, req, locals, history>>

(* runtime.restore of the next allocation; the order of the list is left open. *)
Restore(id) ==
  /\ phase = "restoring"
  /\ id \in todo
  /\ todo' = todo \ {id}
  /\ RuntimeRestoreOk(id, GetAllocation(id))
  /\ reply' = None
  /\ UNCHANGED <<repo, phase, mutation_lock, pc, req, locals, history>>

(* Any `?` of the startup: relayd exits. *)
StartupFails == phase \in {"opened", "restoring"} /\ Exit

Serve ==
  /\ phase = "restoring"
  /\ todo = {}
  /\ phase' = "serving"
  /\ reply' = None
  /\ UNCHANGED <<repo, entries, todo, mutation_lock, pc, req, locals, history>>

-----------------------------------------------------------------------------
(* A database left by a version without the table `bindings`, or an empty one.  Its *)
(* ports need not be in the range that is configured now.                          *)
LegacyRows ==
  [protocol: Protocols, port: Ports, target_port: Targets, host: Hosts \cup {None}]

Init ==
  /\ allocations \in [Ids -> LegacyRows \cup {None}]
  /\ ListedIds \subseteq LegacyIds
  /\ NoPortOverlap
  /\ bindings = [id \in Ids |-> None]
  /\ entries = NoEntries
  /\ phase = "down"
  /\ todo = {}
  /\ mutation_lock = None
  /\ pc = [c \in Clients |-> "idle"]
  /\ req = [c \in Clients |-> None]
  /\ next_port = [c \in Clients |-> None]
  /\ cur = [c \in Clients |-> None]
  /\ allocation = [c \in Clients |-> None]
  /\ refused = [c \in Clients |-> {}]
  /\ suspect = {}
  /\ half_done = 0
  /\ reply = None

(* A step of a handler that has been called. *)
Step(c) ==
  \/ \E r \in Requests : Lock(c, r)
  \/ FindPort(c)
  \/ CreateListener(c)
  \/ Persist(c)
  \/ Rollback(c)
  \/ Read(c)
  \/ Commit(c)
  \/ UpdateListener(c)
  \/ DeleteListener(c)
  \/ DeleteRow(c)

Next ==
  \/ \E c \in Clients : Call(c)
  \/ \E c \in Clients : CallRefused(c)
  \/ \E c \in Clients : Step(c)
  \/ \E c \in Clients : RepositoryFails(c)
  \/ \E c \in Clients : Cancel(c)
  \/ Crash
  \/ Open
  \/ ListForRestore
  \/ \E id \in Ids : Restore(id)
  \/ StartupFails
  \/ Serve

Spec == Init /\ [][Next]_vars

-----------------------------------------------------------------------------
(* Properties *)

(* Outside the initial, unmigrated database every row repeats its binding. *)
MirrorOnceOpen == phase # "down" => RowMirrorsBinding

(* While the service runs, the runtime serves exactly what the database holds:   *)
(* no listener without a row, no row without a listener, no stale target.  The   *)
(* exceptions are the allocation the lock holder is working on and those that a  *)
(* failed or dropped operation left half done since the last start.              *)
RuntimeAgrees ==
  phase = "serving" =>
    \A id \in Ids \ suspect :
      (\A c \in Clients : ~ (HalfDone(c) /\ cur[c] = id)) => entries[id] = GetAllocation(id)

(* Nobody else is ever inside a handler while one handler holds the lock. *)
MutualExclusion ==
  \A c \in Clients : pc[c] \in LockedLabels <=> mutation_lock = c

Answers(c, result) == reply' = [client |-> c, result |-> result]

(* create_allocation answers NoAvailablePort only when every port of the range   *)
(* is held by an overlapping row or was refused by the runtime to this request.  *)
ExhaustionIsReal ==
  [][\A c \in Clients :
       Answers(c, "NoAvailablePort") =>
         \A port \in RangeStart..RangeEnd :
           port \in OccupiedPorts(req[c].protocol, RangeStart, RangeEnd) \cup refused[c]]_vars

(* What a successful request asked for, in both stores. *)
AppliedConfig(r, a) ==
  /\ r.op = "create" => a.protocol = r.protocol /\ a.target_port = r.target_port /\ a.host = None
  /\ r.op = "create" => a.port \in RangeStart..RangeEnd
  /\ r.op = "put_binding" => a.target_port = r.target_port /\ a.host = r.host
  /\ r.op = "update" => r.target_port \in {a.target_port, None} /\ r.host \in {a.host, None}
  /\ r.op = "delete_binding" => a.target_port = None /\ a.host = None

(* A success reply is the truth: at that moment the database and the runtime     *)
(* hold the same allocation, and it is what the request asked for.               *)
OkMeansApplied ==
  [][\A c \in Clients, id \in Ids :
       Answers(c, "ok") /\ cur[c] = id =>
         /\ entries'[id] = GetAllocation(id)'
         /\ IF req[c].op = "delete" THEN entries'[id] = None
            ELSE entries'[id] # None /\ AppliedConfig(req[c], entries'[id])]_vars

(* The tables, read through the mappers, change like the abstract registry. *)
Registry == INSTANCE PortRegistry
  WITH registry <- [id \in Ids |-> GetAllocation(id)], PortRange <- RangeStart..RangeEnd
ImplementsRegistry == Registry!Spec

-----------------------------------------------------------------------------
(* Liveness *)

(* The executor runs every ready task, the mutex queue is first in first out, and *)
(* a process that is started goes on with its startup.                            *)
FairSpec ==
  /\ Spec
  /\ \A c \in Clients : WF_vars(Step(c) \/ RepositoryFails(c))
  /\ \A c \in Clients : SF_vars(\E r \in Requests : Lock(c, r))
  /\ WF_vars(Open \/ ListForRestore \/ Serve)
  /\ \A id \in Ids : WF_vars(Restore(id))

(* No handler waits for ever, whoever else is served, fails or disconnects. *)
EveryCallEnds == \A c \in Clients : pc[c] # "idle" ~> pc[c] = "idle"

(* If the process stops crashing and its startup stops failing, it comes to serve. *)
Recovers ==
  <>[][~ (Crash \/ StartupFails)]_vars => <>[](phase = "serving")
=============================================================================
