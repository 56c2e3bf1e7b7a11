---------------------- MODULE AllocationService_proofs ----------------------
(* The invariant of AllocationServiceInv is inductive, and what follows from it. *)
EXTENDS ServiceSteps_proofs

LEMMA InitInv == Init => Inv
<1> SUFFICES ASSUME Init PROVE Inv
  OBVIOUS
<1>1. TypeOK
  <2>1. LegacyRows \subseteq AllocationRows
    <3>1. RangeStart..RangeEnd \subseteq Ports /\ Targets \subseteq 0..MaxPort
      BY MaxPortAssumption, RangeAssumption, RequestAssumption DEF Ports
    <3> QED BY <3>1, Zenon DEF LegacyRows, AllocationRows
  <2>2. RepositoryTypeOK
    BY <2>1, Zenon DEF Init, RepositoryTypeOK
  <2>3. RuntimeTypeOK
    BY Zenon DEF Init, RuntimeTypeOK, NoEntries
  <2>4. ServiceTypeOK
    BY RequestAssumption DEF Init, ServiceTypeOK
  <2> QED BY <2>2, <2>3, <2>4, Zenon DEF TypeOK
<1>2. LockInv
  BY RequestAssumption, Zenon DEF Init, LockInv, MutualExclusion, LockedLabels
<1>3. RowsInv
  <2>1. ASSUME NEW id \in Ids, allocations[id] # None PROVE allocations[id].target_port > 0
    <3>1. allocations[id] \in LegacyRows
      BY <2>1, Zenon DEF Init
    <3>2. allocations[id].target_port \in Ports
      BY RequestAssumption, <3>1, Zenon DEF LegacyRows
    <3> QED BY <3>2 DEF Ports
  <2> QED BY <2>1, Zenon DEF Init, RowsInv
<1>4. StartupInv
  BY Zenon DEF Init, StartupInv
<1>5. HandlerInv
  BY Zenon DEF Init, HandlerInv, IdleInv, CreateInv, ChangeInv
<1>6. RuntimeAgrees
  BY Zenon DEF Init, RuntimeAgrees
<1> QED BY <1>1, <1>2, <1>3, <1>4, <1>5, <1>6, Zenon DEF Inv

LEMMA RepositoryFailsInv == ASSUME Inv, NEW c \in Clients, RepositoryFails(c) PROVE Inv'
<1>1. pc[c] \in LockedLabels /\ ~ HalfDone(c)
  BY Zenon DEF RepositoryFails, LockedLabels, HalfDone
<1>2. phase = "serving"
  BY <1>1, HolderServes, Zenon
<1> QED BY <1>1, <1>2, LeaveUntouched, Zenon DEF RepositoryFails, Reply, repo, history, Results

LEMMA HalfType ==
  ASSUME NEW a \in Allocation \cup {None}, NEW p \in Protocols, NEW half \in Half(a, p)
  PROVE  half \in Allocation
<1>1. a \in Allocation /\ half = [a EXCEPT !.protocol = p]
  BY Zenon DEF Half
<1> QED BY <1>1, Zenon DEF Allocation

LEMMA CancelInv == ASSUME Inv, NEW c \in Clients, Cancel(c) PROVE Inv'
<1>1. Leave(c) /\ reply' = None /\ UNCHANGED <<allocations, bindings>>
  BY Zenon DEF Cancel, repo
<1>2. CASE ~ HalfDone(c) /\ UNCHANGED <<entries, history>>
  <2>1. phase = "serving"
    BY Zenon DEF Cancel, Inv, LockInv
  <2> QED BY <1>1, <1>2, <2>1, LeaveUntouched, Zenon DEF history
<1>3. CASE LeaveHalfDone(c) /\ (RuntimeDropped(c) \/ (HalfDone(c) /\ UNCHANGED entries))
  <2>1. pc[c] \in {"create", "persist", "rollback"} \/ pc[c] \in {"update", "delete", "db_delete"}
    BY <1>3, Zenon DEF RuntimeDropped, HalfDone
  <2>2. mutation_lock = c /\ phase = "serving"
    BY <2>1, HolderServes, Zenon DEF LockedLabels
  <2>3. cur[c] \in Ids
    <3>1. CreateInv(c) /\ ChangeInv(c)
      BY Zenon DEF Inv, HandlerInv
    <3>2. CASE pc[c] \in {"create", "persist", "rollback"}
      BY <3>1, <3>2, Zenon DEF CreateInv
    <3>3. CASE pc[c] \in {"update", "delete", "db_delete"}
      BY <3>1, <3>3, Zenon
         DEF ChangeInv, Requests, CreateRequests, PutRequests, UpdateRequests, DeleteRequests
    <3> QED BY <2>1, <3>2, <3>3, Zenon
  <2>4. PICK x \in Ids : x = cur[c]
    BY <2>3, Zenon
  <2>5. suspect' = suspect \cup {x} /\ half_done < MaxHalfDone /\ half_done' = half_done + 1
    BY <1>3, <2>4, Zenon DEF LeaveHalfDone
  <2>6. suspect' \in SUBSET Ids /\ half_done' \in 0..MaxHalfDone
    BY RequestAssumption, <2>5 DEF Inv, TypeOK, ServiceTypeOK
  <2>7. PICK e \in Allocation \cup {None} : entries' = [entries EXCEPT ![x] = e]
    <3>1. /\ entries \in [Ids -> Allocation \cup {None}]
          /\ allocation[c] \in Allocation \cup {None}
      BY Zenon DEF Inv, TypeOK, RuntimeTypeOK, ServiceTypeOK
    <3>2. CASE pc[c] = "create" /\ RuntimeCreateDropped(x, allocation[c])
      <4>1. PICK left \in {allocation[c]} \cup Half(allocation[c], "tcp") :
               entries' = [entries EXCEPT ![x] = left]
        BY <3>2, Zenon DEF RuntimeCreateDropped
      <4> QED BY <3>1, <4>1, HalfType, Zenon DEF Protocols
    <3>3. CASE RuntimeUpdateErr(x, allocation[c]) \/ UNCHANGED entries
      BY <3>1, <3>3, Zenon DEF RuntimeUpdateErr
    <3>4. CASE RuntimeDeleteDropped(x)
      <4>1. PICK left \in {None} \cup Half(entries[x], "udp") : entries' = [entries EXCEPT ![x] = left]
        BY <3>4, Zenon DEF RuntimeDeleteDropped
      <4> QED BY <3>1, <4>1, HalfType, Zenon DEF Protocols
    <3> QED BY <1>3, <2>4, <3>2, <3>3, <3>4, Zenon DEF RuntimeDropped
  <2>8. RuntimeTypeOK' /\ \A id \in Ids \ {x} : entries'[id] = entries[id]
    BY <2>7, Zenon DEF Inv, TypeOK, RuntimeTypeOK
  <2>9. x \in suspect' /\ \A id \in Ids \ {x} : id \in suspect => id \in suspect'
    BY <2>5, Zenon
  <2> QED BY <1>1, <2>2, <2>4, <2>6, <2>8, <2>9, LeaveTouched, Zenon
<1> QED BY <1>2, <1>3, Zenon DEF Cancel

-----------------------------------------------------------------------------
(* The steps of the process. *)

LEMMA ExitInv == ASSUME Inv, Exit PROVE Inv'
<1>1. UNCHANGED <<allocations, bindings>>
  BY Zenon DEF Exit, repo
<1>2. RepositoryTypeOK' /\ RuntimeTypeOK' /\ ServiceTypeOK'
  BY RequestAssumption, <1>1
     DEF Exit, Inv, TypeOK, RepositoryTypeOK, RuntimeTypeOK, ServiceTypeOK, NoEntries
<1>3. LockInv'
  BY RequestAssumption, Zenon DEF Exit, LockInv, MutualExclusion, LockedLabels
<1>4. RowsInv'
  <2>1. NoPortOverlap'
    BY <1>1, Zenon DEF Inv, RowsInv, NoPortOverlap, ListedIds
  <2>2. CASE phase = "down"
    BY <1>1, <2>1, <2>2, Zenon DEF Exit, Inv, RowsInv
  <2>3. CASE phase # "down"
    BY <1>1, <2>1, <2>3, Zenon DEF Exit, Inv, RowsInv, RowMirrorsBinding
  <2> QED BY <2>2, <2>3, Zenon
<1>5. StartupInv'
  BY Zenon DEF Exit, StartupInv, NoEntries
<1>6. HandlerInv'
  BY Zenon DEF Exit, HandlerInv, IdleInv, CreateInv, ChangeInv
<1>7. RuntimeAgrees'
  BY Zenon DEF Exit, RuntimeAgrees
<1> QED BY <1>2, <1>3, <1>4, <1>5, <1>6, <1>7, Zenon DEF Inv, TypeOK

(* Before the process serves there is no handler, and starting adds none. *)
LEMMA StartupControl ==
  ASSUME Inv, phase # "serving",
         UNCHANGED <<mutation_lock, pc, req, next_port, cur, allocation, refused, suspect, half_done>>,
         reply' = None, todo' \in SUBSET Ids, phase' \in {"opened", "restoring", "serving"}
  PROVE  ServiceTypeOK' /\ LockInv' /\ HandlerInv'
<1>1. ServiceTypeOK'
  BY Zenon DEF Inv, TypeOK, ServiceTypeOK
<1>2. \A c \in Clients : pc[c] = "idle"
  BY Zenon DEF Inv, LockInv
<1>3. LockInv'
  BY <1>2, Zenon DEF Inv, LockInv, MutualExclusion
<1>4. HandlerInv'
  BY <1>2, Zenon DEF Inv, HandlerInv, IdleInv, CreateInv, ChangeInv
<1> QED BY <1>1, <1>3, <1>4, Zenon

LEMMA OpenInv == ASSUME Inv, Open PROVE Inv'
<1>1. /\ phase = "down" /\ phase' = "opened" /\ reply' = None
      /\ UNCHANGED <<allocations, entries, todo, mutation_lock, pc, req, next_port, cur,
                     allocation, refused, suspect, half_done>>
  BY Zenon DEF Open, MigrateLegacyBindings, locals, history
<1>2. ServiceTypeOK' /\ LockInv' /\ HandlerInv'
  BY <1>1, StartupControl, Zenon DEF Inv, TypeOK, ServiceTypeOK
<1>3. ASSUME NEW id \in Ids
      PROVE  bindings'[id] = IF /\ bindings[id] = None /\ allocations[id] # None
                                /\ allocations[id].target_port > 0
                             THEN [target_port |-> allocations[id].target_port,
                                   host |-> allocations[id].host]
                             ELSE bindings[id]
  BY Zenon DEF Open, MigrateLegacyBindings
<1>4. ASSUME NEW id \in Ids
      PROVE  /\ bindings'[id] \in BindingRows \cup {None}
             /\ (bindings[id] = None /\ allocations[id] # None /\ allocations[id].target_port > 0)
                  => bindings'[id] # None
  <2>1. CASE bindings[id] = None /\ allocations[id] # None /\ allocations[id].target_port > 0
    <3>1. allocations[id] \in AllocationRows
      BY <2>1, Zenon DEF Inv, TypeOK, RepositoryTypeOK
    <3>2. allocations[id].target_port \in Ports /\ allocations[id].host \in Hosts \cup {None}
      BY <2>1, <3>1 DEF AllocationRows, Ports
    <3>3. [target_port |-> allocations[id].target_port, host |-> allocations[id].host] \in BindingRows
      BY <3>2, Zenon DEF BindingRows
    <3> QED BY NoneAssumption, <1>3, <2>1, <3>3, Zenon
  <2>2. CASE ~ (bindings[id] = None /\ allocations[id] # None /\ allocations[id].target_port > 0)
    BY <1>3, <2>2, Zenon DEF Inv, TypeOK, RepositoryTypeOK
  <2> QED BY <2>1, <2>2, Zenon
<1>5. RepositoryTypeOK' /\ RuntimeTypeOK'
  <2>1. bindings' = [id \in Ids |-> bindings'[id]]
    BY Zenon DEF Open, MigrateLegacyBindings
  <2> QED BY <1>1, <1>4, <2>1, Zenon DEF Inv, TypeOK, RepositoryTypeOK, RuntimeTypeOK
<1>6. RowsInv'
  <2>1. NoPortOverlap'
    BY <1>1, Zenon DEF Inv, RowsInv, NoPortOverlap, ListedIds
  <2>2. RowMirrorsBinding'
    <3> SUFFICES ASSUME NEW id \in Ids
                 PROVE  IF allocations'[id] = None THEN bindings'[id] = None
                        ELSE IF bindings'[id] = None
                             THEN allocations'[id].target_port = 0 /\ allocations'[id].host = None
                             ELSE /\ allocations'[id].target_port = bindings'[id].target_port
                                  /\ allocations'[id].host = bindings'[id].host
      BY Zenon DEF RowMirrorsBinding
    <3>1. CASE bindings[id] = None /\ allocations[id] # None /\ allocations[id].target_port > 0
      <4>1. bindings'[id] = [target_port |-> allocations[id].target_port,
                             host |-> allocations[id].host]
        BY <1>3, <3>1, Zenon
      <4>2. /\ bindings'[id].target_port = allocations[id].target_port
            /\ bindings'[id].host = allocations[id].host
        BY <4>1
      <4>3. bindings'[id] # None
        BY <1>4, <3>1, Zenon
      <4> QED BY <1>1, <3>1, <4>2, <4>3, Zenon
    <3>2. CASE bindings[id] = None /\ allocations[id] # None /\ ~ (allocations[id].target_port > 0)
      <4>1. allocations[id].target_port = 0
        BY <3>2 DEF Inv, TypeOK, RepositoryTypeOK, AllocationRows
      <4> QED BY <1>1, <1>3, <3>2, <4>1, Zenon DEF Inv, RowsInv
    <3>3. CASE bindings[id] # None \/ allocations[id] = None
      BY <1>1, <1>3, <3>3, Zenon DEF Inv, RowsInv
    <3> QED BY <3>1, <3>2, <3>3, Zenon
  <2> QED BY <1>1, <2>1, <2>2, Zenon DEF RowsInv
<1>7. StartupInv' /\ RuntimeAgrees'
  BY <1>1, Zenon DEF Inv, StartupInv, RuntimeAgrees, NoEntries
<1> QED BY <1>2, <1>5, <1>6, <1>7, Zenon DEF Inv, TypeOK

(* The rest of the startup reads the tables and leaves them as they are. *)
LEMMA StartupRows ==
  ASSUME Inv, phase # "down", phase' # "down", UNCHANGED <<allocations, bindings>>
  PROVE  RepositoryTypeOK' /\ RowsInv'
BY Zenon DEF Inv, TypeOK, RepositoryTypeOK, RowsInv, NoPortOverlap, RowMirrorsBinding, ListedIds

LEMMA ListForRestoreInv == ASSUME Inv, ListForRestore PROVE Inv'
<1>1. /\ phase = "opened" /\ phase' = "restoring" /\ reply' = None /\ todo' = ListedIds
      /\ UNCHANGED <<allocations, bindings, entries, mutation_lock, pc, req, next_port, cur,
                     allocation, refused, suspect, half_done>>
  BY Zenon DEF ListForRestore, repo, locals, history
<1>2. ServiceTypeOK' /\ LockInv' /\ HandlerInv'
  BY <1>1, StartupControl, Zenon DEF ListedIds
<1>3. RuntimeTypeOK' /\ RepositoryTypeOK' /\ RowsInv'
  BY <1>1, StartupRows, Zenon DEF Inv, TypeOK, RuntimeTypeOK
<1>4. StartupInv'
  BY <1>1, Zenon DEF Inv, StartupInv, NoEntries, ListedIds, GetAllocation
<1>5. RuntimeAgrees'
  BY <1>1, Zenon DEF RuntimeAgrees
<1> QED BY <1>2, <1>3, <1>4, <1>5, Zenon DEF Inv, TypeOK

LEMMA RestoreInv == ASSUME Inv, NEW id \in Ids, Restore(id) PROVE Inv'
<1>1. /\ phase = "restoring" /\ phase' = "restoring" /\ reply' = None
      /\ id \in todo /\ todo' = todo \ {id}
      /\ entries' = [entries EXCEPT ![id] = GetAllocation(id)]
      /\ UNCHANGED <<allocations, bindings, mutation_lock, pc, req, next_port, cur,
                     allocation, refused, suspect, half_done>>
  BY Zenon DEF Restore, RuntimeRestoreOk, repo, locals, history
<1>2. ServiceTypeOK' /\ LockInv' /\ HandlerInv'
  BY <1>1, StartupControl, Zenon DEF Inv, TypeOK, ServiceTypeOK
<1>3. RepositoryTypeOK' /\ RowsInv'
  BY <1>1, StartupRows, Zenon
<1>4. RuntimeTypeOK'
  BY <1>1, GetAllocationType, Zenon DEF Inv, TypeOK, RuntimeTypeOK
<1>5. StartupInv'
  BY <1>1, Zenon DEF Inv, TypeOK, RuntimeTypeOK, StartupInv, GetAllocation
<1>6. RuntimeAgrees'
  BY <1>1, Zenon DEF RuntimeAgrees
<1> QED BY <1>2, <1>3, <1>4, <1>5, <1>6, Zenon DEF Inv, TypeOK

LEMMA ServeInv == ASSUME Inv, Serve PROVE Inv'
<1>1. /\ phase = "restoring" /\ phase' = "serving" /\ reply' = None /\ todo = {}
      /\ UNCHANGED <<allocations, bindings, entries, todo, mutation_lock, pc, req, next_port, cur,
                     allocation, refused, suspect, half_done>>
  BY Zenon DEF Serve, repo, locals, history
<1>2. ServiceTypeOK' /\ LockInv' /\ HandlerInv'
  BY <1>1, StartupControl, Zenon DEF Inv, TypeOK, ServiceTypeOK
<1>3. RuntimeTypeOK' /\ RepositoryTypeOK' /\ RowsInv'
  BY <1>1, StartupRows, Zenon DEF Inv, TypeOK, RuntimeTypeOK
<1>4. StartupInv'
  BY <1>1, Zenon DEF Inv, StartupInv
<1>5. RuntimeAgrees'
  BY <1>1, Zenon DEF Inv, StartupInv, RuntimeAgrees, GetAllocation
<1> QED BY <1>2, <1>3, <1>4, <1>5, Zenon DEF Inv, TypeOK

-----------------------------------------------------------------------------
LEMMA StutterInv == Inv /\ UNCHANGED vars => Inv'
<1> SUFFICES ASSUME Inv, UNCHANGED vars PROVE Inv'
  OBVIOUS
<1>1. TypeOK'
  BY Zenon DEF Inv, TypeOK, RepositoryTypeOK, RuntimeTypeOK, ServiceTypeOK, vars
<1>2. LockInv'
  BY Zenon DEF Inv, LockInv, MutualExclusion, vars
<1>3. RowsInv'
  BY Zenon DEF Inv, RowsInv, NoPortOverlap, RowMirrorsBinding, ListedIds, vars
<1>4. StartupInv'
  BY Zenon DEF Inv, StartupInv, GetAllocation, vars
<1>5. HandlerInv'
  BY Undisturbed, Zenon DEF HandlerInv, vars
<1>6. RuntimeAgrees'
  BY Zenon DEF Inv, RuntimeAgrees, HalfDone, GetAllocation, vars
<1> QED BY <1>1, <1>2, <1>3, <1>4, <1>5, <1>6, Zenon DEF Inv

LEMMA NextInv == Inv /\ [Next]_vars => Inv'
<1> SUFFICES ASSUME Inv, [Next]_vars PROVE Inv'
  OBVIOUS
<1>1. ASSUME NEW c \in Clients, Step(c) PROVE Inv'
  BY <1>1, LockStepInv, FindPortInv, CreateListenerInv, PersistInv, RollbackInv, ReadInv, CommitInv,
     UpdateListenerInv, DeleteListenerInv, DeleteRowInv, Zenon DEF Step
<1>2. ASSUME NEW c \in Clients, Call(c) \/ CallRefused(c) \/ RepositoryFails(c) \/ Cancel(c)
      PROVE  Inv'
  BY <1>2, CallInv, CallRefusedInv, RepositoryFailsInv, CancelInv, Zenon
<1>3. ASSUME Crash \/ StartupFails \/ Open \/ ListForRestore \/ Serve PROVE Inv'
  BY <1>3, ExitInv, OpenInv, ListForRestoreInv, ServeInv, Zenon DEF Crash, StartupFails
<1>4. ASSUME NEW id \in Ids, Restore(id) PROVE Inv'
  BY <1>4, RestoreInv, Zenon
<1>5. CASE UNCHANGED vars
  BY <1>5, StutterInv, Zenon
<1> QED BY <1>1, <1>2, <1>3, <1>4, <1>5, Zenon DEF Next

(* The invariant holds of every behaviour of the service, for any ids, clients, *)
(* hosts, ports and port range.                                                 *)
THEOREM Invariance == Spec => []Inv
BY InitInv, NextInv, PTL DEF Spec

(* Every variable keeps its type. *)
THEOREM TypeCorrect == Spec => []TypeOK
BY Invariance, PTL DEF Inv

(* create_allocation, whatever else runs, fails or is dropped, never gives two *)
(* allocations the same socket.                                                *)
THEOREM PortsAreExclusive == Spec => []NoPortOverlap
BY Invariance, PTL DEF Inv, RowsInv

(* The legacy columns of a row always repeat its binding once the database is open. *)
THEOREM RowsMirrorBindings == Spec => []MirrorOnceOpen
BY Invariance, PTL DEF Inv, RowsInv, MirrorOnceOpen

(* The runtime serves what the database holds, but for what an operation has left *)
(* or is about to leave half done.                                                *)
THEOREM RuntimeAgreement == Spec => []RuntimeAgrees
BY Invariance, PTL DEF Inv

-----------------------------------------------------------------------------
(* What no step of AllocationService does: answer wrongly, or change the tables *)
(* in a way the abstract registry cannot.                                       *)

(* A reply names its client and its result. *)
LEMMA ReplyNames ==
  ASSUME NEW c \in Clients, NEW d \in Clients, NEW r, NEW result \in Results,
         reply' = [client |-> d, result |-> r], Answers(c, result)
  PROVE  c = d /\ result = r
BY DEF Answers

LEMMA NoReply ==
  ASSUME NEW c \in Clients, NEW result \in Results, Answers(c, result)
  PROVE  reply' # None
<1>1. [client |-> c, result |-> result] \in [client: Clients, result: Results]
  OBVIOUS
<1> QED BY <1>1, ReplyAssumption, Zenon DEF Answers

(* Which step of which handler sends a reply with a result. *)
LEMMA WhoAnswers ==
  ASSUME Inv, Next, NEW c \in Clients, NEW result \in Results, Answers(c, result)
  PROVE  /\ result = "NoAvailablePort" => FindPort(c)
         /\ result = "ok" => Persist(c) \/ UpdateListener(c) \/ DeleteRow(c)
<1>0. reply' # None
  BY NoReply, Zenon
<1>1. ASSUME NEW d \in Clients, Call(d) \/ Cancel(d) \/ \E r \in Requests : Lock(d, r)
      PROVE  FALSE
  BY <1>0, <1>1, Zenon DEF Call, Cancel, Lock, Goto
<1>2. ASSUME Crash \/ StartupFails \/ Open \/ ListForRestore \/ Serve \/ \E id \in Ids : Restore(id)
      PROVE  FALSE
  BY <1>0, <1>2, Zenon DEF Crash, StartupFails, Exit, Open, ListForRestore, Serve, Restore
<1>3. ASSUME NEW d \in Clients, CallRefused(d) \/ RepositoryFails(d) \/ Rollback(d) \/ Commit(d)
      PROVE  result \in {"InvalidHost", "Repository", "NotFound"}
  BY <1>0, <1>3, ReplyNames DEF CallRefused, RepositoryFails, Rollback, Commit, Reply, Goto
<1>4. ASSUME NEW d \in Clients, CreateListener(d) \/ DeleteListener(d)
      PROVE  result = "Runtime"
  BY <1>0, <1>4, ReplyNames, Zenon DEF CreateListener, DeleteListener, Reply, Goto
<1>5. ASSUME NEW d \in Clients, Read(d)
      PROVE  result \in {"NotFound", "InvalidHost"}
  <2>1. Refusal(req[d], cur[d]) \in {"NotFound", "InvalidHost", "ok"}
    BY Zenon DEF Refusal
  <2>2. Refusal(req[d], cur[d]) # "ok" /\ Reply(d, Refusal(req[d], cur[d]))
    BY <1>0, <1>5, Zenon DEF Read, Goto
  <2> QED BY <2>1, <2>2, ReplyNames, Zenon DEF Reply
<1>6. ASSUME NEW d \in Clients, FindPort(d)
      PROVE  c = d /\ result = "NoAvailablePort"
  <2>1. Reply(d, "NoAvailablePort")
    BY <1>0, <1>6, Zenon DEF FindPort, Goto
  <2> QED BY <2>1, ReplyNames, Zenon DEF Reply
<1>7. ASSUME NEW d \in Clients, Persist(d)
      PROVE  c = d /\ result = "ok"
  BY <1>0, <1>7, ReplyNames, Zenon DEF Persist, Reply, Goto
<1>8. ASSUME NEW d \in Clients, UpdateListener(d) \/ DeleteRow(d)
      PROVE  c = d /\ result \in {"ok", "Runtime", "Repository", "NotFound"}
  BY <1>8, ReplyNames, Zenon DEF UpdateListener, DeleteRow, Reply
<1> QED BY <1>1, <1>2, <1>3, <1>4, <1>5, <1>6, <1>7, <1>8, Zenon DEF Next, Step

-----------------------------------------------------------------------------
(* The search of create_allocation gives up only when every port of the range is *)
(* held or was refused.                                                          *)
THEOREM ExhaustionTheorem == Spec => ExhaustionIsReal
<1> DEFINE Real(c) ==
      \A port \in RangeStart..RangeEnd :
        port \in OccupiedPorts(req[c].protocol, RangeStart, RangeEnd) \cup refused[c]
<1>1. ASSUME Inv, Next, NEW c \in Clients, Answers(c, "NoAvailablePort")
      PROVE  Real(c)
  <2>1. FindPort(c)
    BY <1>1, WhoAnswers, Zenon DEF Results
  <2>2. pc[c] = "find" /\ req[c] \in CreateRequests /\ Scanned(c) /\ RepositoryTypeOK
        /\ next_port[c] \in Ports \cup {None}
    BY <1>1, <2>1, Zenon DEF FindPort, Inv, TypeOK, ServiceTypeOK, HandlerInv, CreateInv
  <2>3. CASE next_port[c] = None
    BY <2>2, <2>3, Zenon DEF Scanned
  <2>4. CASE next_port[c] # None
    <3>1. FindAvailablePort(req[c].protocol, next_port[c], RangeEnd) = None
      <4>1. reply' # None
        BY <1>1, NoReply, Zenon DEF Results
      <4> QED BY <2>1, <2>4, <4>1, Zenon DEF FindPort, Goto
    <3>2. next_port[c]..RangeEnd \subseteq OccupiedPorts(req[c].protocol, next_port[c], RangeEnd)
      <4>1. req[c].protocol \in Protocols /\ next_port[c] \in Ports
        BY <2>2, <2>4, Zenon DEF CreateRequests
      <4> QED BY <2>2, <3>1, <4>1, RangeAssumption, FindAvailablePortIsLeastFree, Zenon
    <3> SUFFICES ASSUME NEW port \in RangeStart..RangeEnd
                 PROVE  port \in OccupiedPorts(req[c].protocol, RangeStart, RangeEnd) \cup refused[c]
      OBVIOUS
    <3>3. CASE port < next_port[c]
      BY <2>2, <3>3, Zenon DEF Scanned
    <3>4. CASE ~ (port < next_port[c])
      <4>1. port \in next_port[c]..RangeEnd
        BY <2>2, <2>4, <3>4, MaxPortAssumption, RangeAssumption DEF Ports
      <4>2. port \in OccupiedPorts(req[c].protocol, next_port[c], RangeEnd)
        BY <3>2, <4>1, Zenon
      <4> QED BY <4>2, OccupiedMember
    <3> QED BY <3>3, <3>4, Zenon
  <2> QED BY <2>3, <2>4, Zenon
<1>2. Inv /\ [Next]_vars =>
        [\A c \in Clients : Answers(c, "NoAvailablePort") => Real(c)]_vars
  BY <1>1, Zenon
<1> QED BY <1>2, Invariance, PTL DEF Spec, ExhaustionIsReal

-----------------------------------------------------------------------------
(* When a handler ends and its id is not left suspect, the two stores agree on it. *)
LEMMA AgreeAtEnd ==
  ASSUME Inv, Inv', NEW c \in Clients, mutation_lock = c, phase = "serving", Leave(c),
         NEW id \in Ids, id \notin suspect'
  PROVE  entries'[id] = GetAllocation(id)'
<1>1. phase' = "serving"
  BY Zenon DEF Leave
<1>2. ASSUME NEW d \in Clients PROVE ~ HalfDone(d)'
  BY OthersWait, Zenon DEF Leave, HalfDone, Inv, TypeOK, ServiceTypeOK
<1> QED BY <1>1, <1>2, Zenon DEF Inv, RuntimeAgrees

(* A handler answers ok only once both stores hold what its request asked for. *)
THEOREM OkTheorem == Spec => OkMeansApplied
<1> DEFINE Applied(c, id) ==
      /\ entries'[id] = GetAllocation(id)'
      /\ IF req[c].op = "delete" THEN entries'[id] = None
         ELSE entries'[id] # None /\ AppliedConfig(req[c], entries'[id])
<1>1. ASSUME Inv, Inv', Next, NEW c \in Clients, NEW id \in Ids, Answers(c, "ok"), cur[c] = id
      PROVE  Applied(c, id)
  <2>0. reply' # None
    BY <1>1, NoReply, Zenon DEF Results
  <2>1. Persist(c) \/ UpdateListener(c) \/ DeleteRow(c)
    BY <1>1, WhoAnswers, Zenon DEF Results
  <2>2. pc[c] \in {"persist", "update", "db_delete"} /\ CreateInv(c) /\ ChangeInv(c)
    BY <1>1, <2>1, Zenon DEF Persist, UpdateListener, DeleteRow, Inv, HandlerInv
  <2>3. mutation_lock = c /\ phase = "serving"
    BY <1>1, <2>2, HolderServes, Zenon DEF LockedLabels
  <2>4. CASE Persist(c)
    <3>1. Leave(c) /\ entries' = entries /\ suspect' = suspect
      BY <2>0, <2>4, Zenon DEF Persist, Reply, Goto, history
    <3>2. /\ req[c] \in CreateRequests /\ Trying(c) /\ id \notin suspect
          /\ entries[id] = allocation[c]
      BY <1>1, <2>2, <2>4, Zenon DEF Persist, CreateInv
    <3>3. entries'[id] = GetAllocation(id)'
      BY <1>1, <2>3, <3>1, <3>2, AgreeAtEnd, Zenon
    <3>4. allocation[c] # None
      BY <3>2, TryingType, NoneAssumption, Zenon
    <3>5. req[c].op = "create" /\ AppliedConfig(req[c], allocation[c])
      BY <3>2 DEF CreateRequests, AppliedConfig, Trying
    <3> QED BY <3>1, <3>2, <3>3, <3>4, <3>5, Zenon
  <2>5. CASE UpdateListener(c)
    <3>1. /\ pc[c] = "update" /\ req[c].op # "delete" /\ AppliedConfig(req[c], allocation[c])
          /\ allocations[id] # None /\ allocation[c] = GetAllocation(id)
      BY <1>1, <2>2, <2>5, Zenon DEF UpdateListener, ChangeInv
    <3>2. Reply(c, "ok") /\ LeaveDone(c) /\ entries' = [entries EXCEPT ![id] = allocation[c]]
      BY <1>1, <2>5, Zenon DEF UpdateListener, RuntimeUpdateOk, Reply, Answers
    <3>3. Leave(c) /\ id \notin suspect'
      BY <1>1, <3>2, Zenon DEF Reply, LeaveDone
    <3>4. entries'[id] = GetAllocation(id)'
      BY <1>1, <2>3, <3>3, AgreeAtEnd, Zenon
    <3>5. entries'[id] = allocation[c] /\ allocation[c] # None
      BY <1>1, <3>1, <3>2, GetAllocationType, Zenon DEF Inv, TypeOK, RuntimeTypeOK
    <3> QED BY <3>1, <3>4, <3>5, Zenon
  <2>6. CASE DeleteRow(c)
    <3>1. pc[c] = "db_delete" /\ req[c].op = "delete" /\ entries[id] = None /\ entries' = entries
      BY <1>1, <2>2, <2>6, Zenon DEF DeleteRow, ChangeInv
    <3>2. Leave(c) /\ LeaveDone(c)
      BY <2>6, <1>1, Zenon DEF DeleteRow, Reply, Answers
    <3>3. id \notin suspect'
      BY <1>1, <3>2, Zenon DEF LeaveDone
    <3> QED BY <1>1, <2>3, <3>1, <3>2, <3>3, AgreeAtEnd, Zenon
  <2> QED BY <2>1, <2>4, <2>5, <2>6, Zenon
<1>2. Inv /\ Inv' /\ [Next]_vars =>
        [\A c \in Clients, id \in Ids : Answers(c, "ok") /\ cur[c] = id => Applied(c, id)]_vars
  <2> HIDE DEF Applied
  <2> QED BY <1>1, Zenon
<1> QED BY <1>2, Invariance, PTL DEF Spec, OkMeansApplied

-----------------------------------------------------------------------------
(* The tables implement the abstract registry. *)

registry == [id \in Ids |-> GetAllocation(id)]

(* A row that does not conflict with a protocol does not overlap it, and back. *)
LEMMA OverlapConflicts ==
  ASSUME NEW p \in Protocols, NEW q \in Protocols
  PROVE  Registry!Overlap(p, q) <=> q \in ConflictingProtocols(p)
BY Zenon DEF Registry!Overlap, ConflictingProtocols, Protocols

LEMMA RegistryRow ==
  ASSUME RepositoryTypeOK, NEW id \in Ids, registry[id] # None
  PROVE  /\ id \in ListedIds
         /\ registry[id].port = allocations[id].port
         /\ registry[id].protocol = allocations[id].protocol
         /\ allocations[id].protocol \in Protocols
<1>1. id \in ListedIds /\ allocations[id] \in AllocationRows
  BY Zenon DEF registry, GetAllocation, ListedIds, RepositoryTypeOK
<1> QED BY <1>1, Zenon DEF registry, GetAllocation, ToAllocation, ListedIds, AllocationRows

LEMMA RegistryInit == Init => Registry!Init
<1> SUFFICES ASSUME Init PROVE Registry!Init
  OBVIOUS
<1>1. RepositoryTypeOK /\ NoPortOverlap
  BY InitInv, Zenon DEF Inv, TypeOK, RowsInv
<1> SUFFICES ASSUME NEW id \in Ids, registry[id] # None, NEW other \in Ids \ {id},
                    registry[other] # None, registry[other].port = registry[id].port,
                    Registry!Overlap(registry[id].protocol, registry[other].protocol)
             PROVE  FALSE
  BY Zenon DEF Registry!Init, Registry!Free, registry
<1> QED BY <1>1, RegistryRow, OverlapConflicts DEF NoPortOverlap

(* A step that changes the registry at one id. *)
LEMMA RegistryAt ==
  ASSUME NEW x \in Ids, NEW a, GetAllocation(x)' = a,
         \A id \in Ids \ {x} : allocations'[id] = allocations[id] /\ bindings'[id] = bindings[id]
  PROVE  registry' = [registry EXCEPT ![x] = a]
<1>1. \A id \in Ids \ {x} : GetAllocation(id)' = GetAllocation(id)
  BY Zenon DEF GetAllocation
<1> QED BY <1>1, Zenon DEF registry

LEMMA PersistCreates ==
  ASSUME Inv, Inv', NEW c \in Clients, Persist(c)
  PROVE  Registry!Next \/ registry' = registry
<1>1. CASE UNCHANGED repo
  BY <1>1, Zenon DEF repo, registry, GetAllocation
<1>2. CASE /\ IF allocation[c].target_port # None
              THEN InsertAllocationWithBinding(cur[c], allocation[c],
                     [target_port |-> allocation[c].target_port, host |-> allocation[c].host])
              ELSE InsertAllocation(cur[c], allocation[c])
           /\ Reply(c, "ok")
  <2>1. /\ req[c] \in CreateRequests /\ Trying(c) /\ cur[c] \in Ids \ suspect
        /\ allocations[cur[c]] = None /\ entries[cur[c]] = allocation[c]
        /\ mutation_lock = c /\ phase = "serving" /\ RepositoryTypeOK
    BY HolderServes, Zenon DEF Persist, LockedLabels, Inv, TypeOK, HandlerInv, CreateInv
  <2>2. PICK x \in Ids : x = cur[c]
    BY <2>1, Zenon
  <2>3. GetAllocation(x)' = allocation[c]
    <3>1. entries' = entries /\ suspect' = suspect /\ Leave(c)
      BY <1>2, Zenon DEF Persist, Reply, history
    <3> QED BY <2>1, <2>2, <3>1, AgreeAtEnd, Zenon
  <2>4. \A id \in Ids \ {x} : allocations'[id] = allocations[id] /\ bindings'[id] = bindings[id]
    BY <1>2, <2>1, <2>2, Zenon DEF RepositoryTypeOK, InsertAllocationWithBinding, InsertAllocation
  <2>5. registry' = [registry EXCEPT ![x] = allocation[c]]
    BY <2>3, <2>4, RegistryAt, Zenon
  <2>6. registry[x] = None
    BY <2>1, <2>2, Zenon DEF registry, GetAllocation
  <2>7. Registry!Free(registry, x, req[c].protocol, allocation[c].port)
    <3> SUFFICES ASSUME NEW other \in Ids \ {x}, registry[other] # None,
                        registry[other].port = allocation[c].port,
                        Registry!Overlap(req[c].protocol, registry[other].protocol)
                 PROVE  FALSE
      BY Zenon DEF Registry!Free
    <3>1. req[c].protocol \in Protocols
      BY <2>1, Zenon DEF CreateRequests
    <3> QED BY <2>1, <3>1, RegistryRow, OverlapConflicts, Zenon DEF Trying
  <2>8. /\ req[c].protocol \in {"tcp", "udp", "both"}
        /\ allocation[c].port \in RangeStart..RangeEnd
        /\ req[c].target_port \in Ports \cup {None}
        /\ allocation[c] = [protocol |-> req[c].protocol, port |-> allocation[c].port,
                            target_port |-> req[c].target_port, host |-> None]
    BY <2>1, RequestAssumption, Zenon DEF CreateRequests, Protocols, Trying
  <2>9. Registry!Create(x)
    <3>1. \E protocol \in {"tcp", "udp", "both"}, port \in RangeStart..RangeEnd,
            target_port \in Ports \cup {None} :
              /\ Registry!Free(registry, x, protocol, port)
              /\ registry' = [registry EXCEPT ![x] =
                   [protocol |-> protocol, port |-> port, target_port |-> target_port, host |-> None]]
      <4> HIDE DEF registry
      <4>1. registry' = [registry EXCEPT ![x] =
              [protocol |-> req[c].protocol, port |-> allocation[c].port,
               target_port |-> req[c].target_port, host |-> None]]
        BY <2>5, <2>8, Zenon
      <4> QED BY <2>7, <2>8, <4>1, Zenon
    <3> QED BY <2>6, <3>1, Zenon DEF Registry!Create, registry
  <2> QED BY <2>9, Zenon DEF Registry!Next
<1> QED BY <1>1, <1>2, Zenon DEF Persist

LEMMA CommitBinds ==
  ASSUME Inv, Inv', NEW c \in Clients, Commit(c)
  PROVE  Registry!Next
<1>1. /\ pc[c] = "commit" /\ req[c] \in Requests \ CreateRequests /\ cur[c] = req[c].id
      /\ req[c].op # "delete" /\ allocations[cur[c]] # None
      /\ allocation[c] = Updated(req[c], cur[c]) /\ Refusal(req[c], cur[c]) = "ok"
      /\ RepositoryTypeOK
  BY Zenon DEF Commit, Inv, TypeOK, HandlerInv, ChangeInv
<1>2. PICK x \in Ids : x = cur[c]
  BY <1>1, Zenon DEF Requests, CreateRequests, PutRequests, UpdateRequests, DeleteRequests
<1>3. pc'[c] = "update" /\ allocation' = allocation /\ cur' = cur
  BY <1>1, FindsWhatItRead, Zenon DEF Commit, Goto, locals, Inv, TypeOK, ServiceTypeOK
<1>4. GetAllocation(x)' = allocation[c]
  BY <1>2, <1>3, Zenon DEF Inv, HandlerInv, ChangeInv
<1>5. \A id \in Ids \ {x} : allocations'[id] = allocations[id] /\ bindings'[id] = bindings[id]
  BY <1>1, <1>2, FindsWhatItRead, Zenon DEF Commit, DeleteBinding, PutBinding, RepositoryTypeOK
<1>6. registry' = [registry EXCEPT ![x] = allocation[c]]
  BY <1>4, <1>5, RegistryAt, Zenon
<1>7. registry[x] = GetAllocation(x) /\ registry[x] \in Allocation /\ registry[x] # None
  BY <1>1, <1>2, GetAllocationType, Zenon DEF registry
<1>8. CASE req[c].op = "delete_binding"
  <2>1. allocation[c] = [registry[x] EXCEPT !.target_port = None, !.host = None]
    BY <1>1, <1>2, <1>7, <1>8, Zenon DEF Updated
  <2>2. registry' = [registry EXCEPT ![x].target_port = None, ![x].host = None]
    BY <1>6, <1>7, <2>1, Zenon DEF Allocation, registry
  <2>3. Registry!Unbind(x)
    BY <1>7, <2>2, Zenon DEF Registry!Unbind, registry
  <2> QED BY <2>3, Zenon DEF Registry!Next
<1>9. CASE req[c].op # "delete_binding"
  <2> DEFINE t == allocation[c].target_port
             h == allocation[c].host
  <2>1. allocation[c] \in Allocation /\ t \in Ports
    BY <1>1, <1>2, <1>9, UpdatedType, Zenon
  <2>2. allocation[c] = [registry[x] EXCEPT !.target_port = t, !.host = h]
    BY <1>1, <1>2, <1>7, <1>9, Zenon DEF Updated, Allocation
  <2>3. t \in Ports /\ h \in Hosts \cup {None}
    BY <2>1, Zenon DEF Allocation
  <2> HIDE DEF t, h
  <2>4. registry' = [registry EXCEPT ![x].target_port = t, ![x].host = h]
    BY <1>6, <1>7, <2>2, Zenon DEF Allocation, registry
  <2>5. Registry!Bind(x)
    BY <1>7, <2>3, <2>4, Zenon DEF Registry!Bind, registry
  <2> QED BY <2>5, Zenon DEF Registry!Next
<1> QED BY <1>8, <1>9, Zenon

LEMMA DeleteRowRemoves ==
  ASSUME Inv, NEW c \in Clients, DeleteRow(c)
  PROVE  Registry!Next \/ registry' = registry
<1>1. CASE UNCHANGED repo
  BY <1>1, Zenon DEF repo, registry, GetAllocation
<1>2. CASE DeleteAllocation(cur[c])
  <2>1. /\ req[c] \in Requests \ CreateRequests /\ cur[c] = req[c].id
        /\ allocations[cur[c]] # None /\ RepositoryTypeOK
    BY Zenon DEF DeleteRow, Inv, TypeOK, HandlerInv, ChangeInv
  <2>2. PICK x \in Ids : x = cur[c]
    BY <2>1, Zenon DEF Requests, CreateRequests, PutRequests, UpdateRequests, DeleteRequests
  <2>3. /\ GetAllocation(x)' = None
        /\ \A id \in Ids \ {x} : allocations'[id] = allocations[id] /\ bindings'[id] = bindings[id]
    BY <1>2, <2>1, <2>2, Zenon DEF DeleteAllocation, GetAllocation, RepositoryTypeOK
  <2>4. registry' = [registry EXCEPT ![x] = None]
    BY <2>3, RegistryAt, Zenon
  <2>5. registry[x] # None
    BY <2>1, <2>2, GetAllocationType, Zenon DEF registry
  <2>6. Registry!Remove(x)
    BY <2>4, <2>5, Zenon DEF Registry!Remove, registry
  <2> QED BY <2>6, Zenon DEF Registry!Next
<1> QED BY <1>1, <1>2, Zenon DEF DeleteRow

(* The migration gives a row the binding that its columns stand for. *)
LEMMA OpenKeeps == ASSUME Inv, Open PROVE registry' = registry
<1> SUFFICES ASSUME NEW id \in Ids PROVE GetAllocation(id)' = GetAllocation(id)
  BY Zenon DEF registry
<1> DEFINE row == allocations[id]
<1>1. row' = row
  BY Zenon DEF Open, MigrateLegacyBindings
<1>2. CASE bindings[id] = None /\ row # None /\ row.target_port > 0
  <2> DEFINE b == [target_port |-> row.target_port, host |-> row.host]
  <2>1. bindings'[id] = b
    BY <1>2, Zenon DEF Open, MigrateLegacyBindings
  <2>2. row \in AllocationRows
    BY <1>2, Zenon DEF Inv, TypeOK, RepositoryTypeOK
  <2>3. b # None
    <3>1. row.target_port \in Ports /\ row.host \in Hosts \cup {None}
      BY <1>2, <2>2 DEF AllocationRows, Ports
    <3>2. b \in BindingRows
      BY <3>1, Zenon DEF BindingRows
    <3> QED BY <3>2, NoneAssumption, Zenon
  <2>4. ToAllocation(row, b) = ToAllocation(row, None)
    BY <1>2, <2>3, Zenon DEF ToAllocation, TargetOfColumn
  <2> QED BY <1>1, <1>2, <2>1, <2>4, Zenon DEF GetAllocation
<1>3. CASE ~ (bindings[id] = None /\ row # None /\ row.target_port > 0)
  <2>1. bindings'[id] = bindings[id]
    BY <1>3, Zenon DEF Open, MigrateLegacyBindings
  <2> QED BY <1>1, <2>1, Zenon DEF GetAllocation
<1> QED BY <1>2, <1>3, Zenon

LEMMA RegistryNext == Inv /\ Inv' /\ [Next]_vars => [Registry!Next]_registry
<1> SUFFICES ASSUME Inv, Inv', [Next]_vars PROVE Registry!Next \/ registry' = registry
  OBVIOUS
<1>1. CASE UNCHANGED repo
  BY <1>1, Zenon DEF repo, registry, GetAllocation
<1>2. ASSUME NEW c \in Clients, Step(c) PROVE Registry!Next \/ registry' = registry
  <2>1. CASE Persist(c) \/ Commit(c) \/ DeleteRow(c)
    BY <2>1, PersistCreates, CommitBinds, DeleteRowRemoves, Zenon
  <2>2. CASE ~ (Persist(c) \/ Commit(c) \/ DeleteRow(c))
    <3>1. UNCHANGED repo
      BY <1>2, <2>2, Zenon DEF Step, Lock, FindPort, CreateListener, Rollback, Read, UpdateListener,
                        DeleteListener
    <3> QED BY <1>1, <3>1, Zenon
  <2> QED BY <2>1, <2>2, Zenon
<1>3. ASSUME NEW c \in Clients, Call(c) \/ CallRefused(c) \/ RepositoryFails(c) \/ Cancel(c)
      PROVE  UNCHANGED repo
  BY <1>3, Zenon DEF Call, CallRefused, RepositoryFails, Cancel
<1>4. ASSUME Crash \/ StartupFails \/ ListForRestore \/ Serve \/ \E id \in Ids : Restore(id)
      PROVE  UNCHANGED repo
  BY <1>4, Zenon DEF Crash, StartupFails, Exit, ListForRestore, Serve, Restore
<1>5. CASE Open
  BY <1>5, OpenKeeps, Zenon
<1>6. CASE UNCHANGED vars
  BY <1>1, <1>6, Zenon DEF vars, repo
<1> QED BY <1>1, <1>2, <1>3, <1>4, <1>5, <1>6, Zenon DEF Next

(* Handlers, failures, crashes and restarts included, the tables change only as *)
(* the abstract registry of PortRegistry may.                                   *)
THEOREM Refinement == Spec => ImplementsRegistry
<1>1. Inv /\ Inv' /\ [Next]_vars => [Registry!Next]_([id \in Ids |-> GetAllocation(id)])
  BY RegistryNext, Zenon DEF registry
<1> QED BY <1>1, RegistryInit, Invariance, PTL DEF Spec, ImplementsRegistry, Registry!Spec
=============================================================================
