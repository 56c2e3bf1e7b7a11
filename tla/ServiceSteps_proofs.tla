------------------------- MODULE ServiceSteps_proofs -------------------------
(* What the port search returns, for every table and every range; what the steps *)
(* of AllocationService leave alone, which the proofs of all its actions share;  *)
(* and that the steps of the updates, the deletes and the creates keep Inv.      *)
EXTENDS AllocationServiceInv, TLAPS, WellFoundedInduction

(* Every set of natural numbers that is not empty has a least element. *)
LEMMA LeastElement ==
  ASSUME NEW S \in SUBSET Nat, S # {}
  PROVE  \E m \in S : \A x \in S : m <= x
<1> DEFINE R == {z \in Nat \X Nat : z[1] < z[2]}
<1>1. IsWellFoundedOn(R, Nat)
  BY NatLessThanWellFounded, Zenon DEF OpToRel
<1>2. PICK m \in S : \A y \in S : ~ (<<y, m>> \in R)
  <2> HIDE DEF R
  <2> QED BY <1>1, WFMin, Zenon
<1>3. ASSUME NEW x \in S PROVE m <= x
  <2>1. ~ (<<x, m>> \in Nat \X Nat /\ x < m)
    BY <1>2, Zenon
  <2> QED BY <2>1
<1> QED BY <1>3, Zenon

(* FiniteSetsExt!Min picks that element. *)
LEMMA MinIsLeast ==
  ASSUME NEW S \in SUBSET Nat, S # {}
  PROVE  Min(S) \in S /\ \A x \in S : Min(S) <= x
BY LeastElement, Zenon DEF Min

(* A port of start..end that is not occupied, and below which all are, is a candidate: *)
(* it is the start of the range or follows an occupied port.                           *)
LEMMA LeastFreeIsCandidate ==
  ASSUME NEW start \in Nat, NEW end \in Nat, NEW occupied \in SUBSET (start..end),
         NEW p \in start..end, p \notin occupied,
         \A q \in (start..end) \ occupied : p <= q
  PROVE  p \in CandidatePorts(occupied, start, end)
<1>1. CASE p = start
  BY <1>1 DEF CandidatePorts
<1>2. CASE p # start
  <2>1. p - 1 \in start..end /\ p - 1 < p
    BY <1>2
  <2>2. p - 1 \in occupied
    BY <2>1
  <2>3. p - 1 < end /\ p = (p - 1) + 1
    OBVIOUS
  <2> QED BY <2>2, <2>3, Zenon DEF CandidatePorts
<1> QED BY <1>1, <1>2, Zenon

(* The query finds the least free port of the range, and NULL only if there is none. *)
THEOREM FindAvailablePortIsLeastFree ==
  ASSUME RepositoryTypeOK,
         NEW protocol \in Protocols, NEW start \in Ports, NEW end \in Ports
  PROVE  LET port     == FindAvailablePort(protocol, start, end)
             occupied == OccupiedPorts(protocol, start, end)
         IN  /\ port = None => start..end \subseteq occupied
             /\ port # None => /\ port \in (start..end) \ occupied
                               /\ \A p \in (start..end) \ occupied : port <= p
<1> DEFINE occupied == OccupiedPorts(protocol, start, end)
           candidate == CandidatePorts(occupied, start, end)
           all == (start..end) \ occupied
<1>1. occupied \in SUBSET (start..end)
  BY Zenon DEF OccupiedPorts
<1>2. start \in Nat /\ end \in Nat
  BY MaxPortAssumption DEF Ports
<1>3. candidate \in SUBSET (start..end)
  <2> HIDE DEF occupied
  <2> QED BY <1>1, <1>2 DEF CandidatePorts
<1>4. CASE all = {}
  <2> HIDE DEF occupied
  <2>1. candidate \ occupied = {}
    BY <1>3, <1>4, Zenon
  <2>2. FindAvailablePort(protocol, start, end) = None
    BY <2>1, Zenon DEF FindAvailablePort, occupied
  <2> QED BY <1>4, <2>2, Zenon DEF occupied
<1>5. CASE all # {}
  <2> HIDE DEF occupied
  <2>1. all \in SUBSET Nat
    BY <1>2
  <2>2. PICK m \in all : \A x \in all : m <= x
    BY <1>5, <2>1, LeastElement, Zenon
  <2>3. m \in candidate \ occupied
    BY <1>1, <1>2, <2>2, LeastFreeIsCandidate, Zenon
  <2> DEFINE free == candidate \ occupied
  <2>4. free \in SUBSET Nat /\ free # {}
    BY <1>2, <1>3, <2>3
  <2>5. Min(free) \in free /\ \A x \in free : Min(free) <= x
    <3> HIDE DEF free
    <3> QED BY <2>4, MinIsLeast, Zenon
  <2>6. FindAvailablePort(protocol, start, end) = Min(free)
    BY <2>4, Zenon DEF FindAvailablePort, occupied
  <2>7. Min(free) = m
    <3>1. Min(free) \in all
      BY <1>3, <2>5, Zenon
    <3>2. m <= Min(free) /\ Min(free) <= m /\ m \in Nat /\ Min(free) \in Nat
      BY <2>1, <2>2, <2>3, <2>5, <3>1, Zenon
    <3> HIDE DEF free, all
    <3> QED BY <3>2
  <2>8. m # None
    BY <2>1, <2>2, NoneAssumption
  <2> QED BY <2>2, <2>6, <2>7, <2>8, Zenon DEF occupied
<1> QED BY <1>4, <1>5, Zenon

-----------------------------------------------------------------------------
(* The steps of AllocationService. *)

LEMMA NoneIsNoPort == None \notin Ports
BY MaxPortAssumption, NoneAssumption DEF Ports

(* The mappers return an Allocation, never None. *)
LEMMA ToAllocationType ==
  ASSUME NEW row \in AllocationRows, NEW binding \in BindingRows \cup {None}
  PROVE  ToAllocation(row, binding) \in Allocation
BY DEF ToAllocation, AllocationRows, BindingRows, Allocation, TargetOfColumn, Ports

LEMMA GetAllocationType ==
  ASSUME RepositoryTypeOK, NEW id \in Ids
  PROVE  /\ GetAllocation(id) \in Allocation \cup {None}
         /\ GetAllocation(id) = None <=> allocations[id] = None
<1>1. CASE allocations[id] = None
  BY <1>1, Zenon DEF GetAllocation
<1>2. CASE allocations[id] # None
  <2>1. allocations[id] \in AllocationRows /\ bindings[id] \in BindingRows \cup {None}
    BY <1>2, Zenon DEF RepositoryTypeOK
  <2>2. ToAllocation(allocations[id], bindings[id]) \in Allocation
    BY <2>1, ToAllocationType, Zenon
  <2> QED BY NoneAssumption, <1>2, <2>2, Zenon DEF GetAllocation
<1> QED BY <1>1, <1>2, Zenon

(* What the steps of a handler have in common. *)

(* While a handler holds the lock every other one waits for it or is idle. *)
LEMMA OthersWait ==
  ASSUME Inv, NEW c \in Clients, mutation_lock = c, NEW d \in Clients \ {c}
  PROVE  pc[d] \in {"idle", "lock"}
BY Zenon DEF Inv, TypeOK, ServiceTypeOK, LockInv, MutualExclusion, LockedLabels

(* A handler past the lock holds it, in a process that serves. *)
LEMMA HolderServes ==
  ASSUME Inv, NEW c \in Clients, pc[c] \in LockedLabels
  PROVE  mutation_lock = c /\ phase = "serving" /\ todo = {}
BY Zenon DEF Inv, LockInv, MutualExclusion, LockedLabels, StartupInv

LEMMA LeaveControl ==
  ASSUME Inv, NEW c \in Clients, Leave(c),
         reply' \in [client: Clients, result: Results] \cup {None},
         suspect' \in SUBSET Ids, half_done' \in 0..MaxHalfDone
  PROVE  ServiceTypeOK' /\ LockInv'
<1>1. ServiceTypeOK'
  BY Zenon DEF Inv, TypeOK, ServiceTypeOK, Leave
<1>2. LockInv'
  BY RequestAssumption, Zenon
     DEF Inv, TypeOK, ServiceTypeOK, LockInv, MutualExclusion, LockedLabels, Leave
<1> QED BY <1>1, <1>2, Zenon

LEMMA LeaveHandlers ==
  ASSUME Inv, NEW c \in Clients, mutation_lock = c, Leave(c)
  PROVE  HandlerInv'
<1> SUFFICES ASSUME NEW d \in Clients PROVE (IdleInv(d) /\ CreateInv(d) /\ ChangeInv(d))'
  BY Zenon DEF HandlerInv
<1>1. pc'[d] \in {"idle", "lock"} /\ cur'[d] = None /\ refused'[d] = {}
  BY OthersWait, Zenon DEF Inv, TypeOK, ServiceTypeOK, HandlerInv, IdleInv, Leave
<1> QED BY <1>1, Zenon DEF IdleInv, CreateInv, ChangeInv

(* A step to another label asserts something new only of the handler that takes it. *)
LEMMA GotoControl ==
  ASSUME Inv, NEW c \in Clients, mutation_lock = c,
         NEW label \in LockedLabels, Goto(c, label)
  PROVE  LockInv'
BY Zenon DEF Inv, TypeOK, ServiceTypeOK, LockInv, MutualExclusion, LockedLabels, Goto

LEMMA GotoHandlers ==
  ASSUME Inv, NEW c \in Clients, mutation_lock = c,
         NEW label \in LockedLabels, Goto(c, label),
         \A d \in Clients \ {c} : cur'[d] = cur[d] /\ refused'[d] = refused[d],
         CreateInv(c)', ChangeInv(c)'
  PROVE  HandlerInv'
<1> SUFFICES ASSUME NEW d \in Clients PROVE (IdleInv(d) /\ CreateInv(d) /\ ChangeInv(d))'
  BY Zenon DEF HandlerInv
<1>1. CASE d = c
  <2>1. pc'[c] = label
    BY Zenon DEF Inv, TypeOK, ServiceTypeOK, Goto
  <2> QED BY <1>1, <2>1, Zenon DEF IdleInv, LockedLabels
<1>2. CASE d # c
  <2>1. pc'[d] \in {"idle", "lock"} /\ cur'[d] = None /\ refused'[d] = {}
    BY <1>2, OthersWait, Zenon DEF Inv, TypeOK, ServiceTypeOK, HandlerInv, IdleInv, Goto
  <2> QED BY <2>1, Zenon DEF IdleInv, CreateInv, ChangeInv
<1> QED BY <1>1, <1>2, Zenon

(* A handler that neither holds the lock nor gets it disturbs no other one. *)
LEMMA Undisturbed ==
  ASSUME Inv, NEW d \in Clients,
         UNCHANGED <<allocations, bindings, entries, suspect>>,
         pc'[d] = pc[d], req'[d] = req[d], next_port'[d] = next_port[d],
         cur'[d] = cur[d], allocation'[d] = allocation[d], refused'[d] = refused[d]
  PROVE  (IdleInv(d) /\ CreateInv(d) /\ ChangeInv(d))'
<1>1. IdleInv(d) /\ CreateInv(d) /\ ChangeInv(d)
  BY Zenon DEF Inv, HandlerInv
<1>2. IdleInv(d)'
  BY <1>1, Zenon DEF IdleInv
<1>3. CreateInv(d)'
  BY <1>1, Zenon DEF CreateInv, Scanned, Trying, OccupiedPorts, ListedIds
<1>4. ChangeInv(d)'
  BY <1>1 DEF ChangeInv, Updated, Refusal, ResolvedTarget, ResolvedHost, GetAllocation
<1> QED BY <1>2, <1>3, <1>4, Zenon

(* A step that leaves both stores and the history alone, in a process that goes on *)
(* serving, keeps the assertions on the tables and on the startup.                 *)
LEMMA SameStores ==
  ASSUME Inv, phase = "serving", UNCHANGED <<allocations, bindings, entries, phase, todo, suspect>>
  PROVE  RepositoryTypeOK' /\ RuntimeTypeOK' /\ RowsInv' /\ StartupInv'
<1>1. RepositoryTypeOK' /\ RuntimeTypeOK'
  BY Zenon DEF Inv, TypeOK, RepositoryTypeOK, RuntimeTypeOK
<1>2. RowsInv'
  BY Zenon DEF Inv, RowsInv, NoPortOverlap, RowMirrorsBinding, ListedIds
<1>3. StartupInv'
  BY Zenon DEF Inv, StartupInv
<1> QED BY <1>1, <1>2, <1>3, Zenon

(* The runtime goes on agreeing when nobody's half-done operation is forgotten. *)
LEMMA SameAgreement ==
  ASSUME Inv, UNCHANGED <<allocations, bindings, entries, phase, suspect, cur>>,
         \A c \in Clients : HalfDone(c) => HalfDone(c)'
  PROVE  RuntimeAgrees'
BY Zenon DEF Inv, RuntimeAgrees, GetAllocation

(* The lock holder changes the stores at the id x it works on, and nowhere else. *)
LEMMA AgreementExcept ==
  ASSUME Inv, phase = "serving", NEW c \in Clients, mutation_lock = c, NEW x \in Ids,
         HalfDone(c) => cur[c] = x,
         \A id \in Ids \ {x} : /\ entries'[id] = entries[id]
                               /\ allocations'[id] = allocations[id]
                               /\ bindings'[id] = bindings[id]
                               /\ id \in suspect => id \in suspect',
         \/ x \in suspect'
         \/ HalfDone(c)' /\ cur'[c] = x
         \/ entries'[x] = GetAllocation(x)'
  PROVE  RuntimeAgrees'
<1> SUFFICES ASSUME NEW id \in Ids \ suspect',
                    \A d \in Clients : ~ (HalfDone(d)' /\ cur'[d] = id)
             PROVE  entries'[id] = GetAllocation(id)'
  BY Zenon DEF RuntimeAgrees
<1>1. CASE id = x
  BY <1>1, Zenon
<1>2. CASE id # x
  <2>1. \A d \in Clients : ~ (HalfDone(d) /\ cur[d] = id)
    BY <1>2, OthersWait, Zenon DEF HalfDone
  <2>2. entries[id] = GetAllocation(id)
    BY <1>2, <2>1, Zenon DEF Inv, RuntimeAgrees
  <2> QED BY <1>2, <2>2, Zenon DEF GetAllocation
<1> QED BY <1>1, <1>2, Zenon

(* A handler that ends before it changed anything. *)
LEMMA LeaveUntouched ==
  ASSUME Inv, NEW c \in Clients, phase = "serving", Leave(c), ~ HalfDone(c),
         reply' \in [client: Clients, result: Results] \cup {None},
         UNCHANGED <<allocations, bindings, entries, suspect, half_done>>
  PROVE  Inv'
<1>1. UNCHANGED <<phase, todo>> /\ pc' = [pc EXCEPT ![c] = "idle"]
  BY Zenon DEF Leave
<1>2. ServiceTypeOK' /\ LockInv'
  BY LeaveControl, Zenon DEF Inv, TypeOK, ServiceTypeOK
<1>3. HandlerInv'
  <2>1. CASE mutation_lock = c
    BY <2>1, LeaveHandlers, Zenon
  <2>2. CASE mutation_lock # c
    <3> SUFFICES ASSUME NEW d \in Clients PROVE (IdleInv(d) /\ CreateInv(d) /\ ChangeInv(d))'
      BY Zenon DEF HandlerInv
    <3>1. CASE d = c
      BY <3>1, Zenon DEF Leave, Inv, TypeOK, ServiceTypeOK, IdleInv, CreateInv, ChangeInv
    <3>2. CASE d # c
      BY <3>2, Undisturbed, Zenon DEF Leave, Inv, TypeOK, ServiceTypeOK
    <3> QED BY <3>1, <3>2, Zenon
  <2> QED BY <2>1, <2>2, Zenon
<1>4. RuntimeAgrees'
  <2>1. \A d \in Clients : HalfDone(d)' <=> HalfDone(d)
    BY <1>1, Zenon DEF HalfDone, Inv, TypeOK, ServiceTypeOK
  <2>2. \A d \in Clients : HalfDone(d) => cur'[d] = cur[d]
    BY Zenon DEF Leave, Inv, TypeOK, ServiceTypeOK
  <2> QED BY <1>1, <2>1, <2>2, Zenon DEF Inv, RuntimeAgrees, GetAllocation
<1> QED BY <1>1, <1>2, <1>3, <1>4, SameStores, Zenon DEF Inv, TypeOK

(* The lock holder ends having changed the runtime's entry x, the database as it is. *)
LEMMA LeaveTouched ==
  ASSUME Inv, NEW c \in Clients, phase = "serving", mutation_lock = c, Leave(c),
         reply' \in [client: Clients, result: Results] \cup {None},
         UNCHANGED <<allocations, bindings>>,
         RuntimeTypeOK', suspect' \in SUBSET Ids, half_done' \in 0..MaxHalfDone,
         NEW x \in Ids, cur[c] = x,
         \A id \in Ids \ {x} : entries'[id] = entries[id] /\ (id \in suspect => id \in suspect'),
         x \in suspect' \/ entries'[x] = GetAllocation(x)'
  PROVE  Inv'
<1>1. UNCHANGED <<phase, todo>>
  BY Zenon DEF Leave
<1>2. ServiceTypeOK' /\ LockInv' /\ HandlerInv'
  BY LeaveControl, LeaveHandlers, Zenon
<1>3. RepositoryTypeOK'
  BY Zenon DEF Inv, TypeOK, RepositoryTypeOK
<1>4. RowsInv'
  BY <1>1, Zenon DEF Inv, RowsInv, NoPortOverlap, RowMirrorsBinding, ListedIds
<1>5. StartupInv'
  BY <1>1, Zenon DEF Inv, StartupInv
<1>6. RuntimeAgrees'
  BY AgreementExcept, Zenon
<1> QED BY <1>2, <1>3, <1>4, <1>5, <1>6, Zenon DEF Inv, TypeOK

-----------------------------------------------------------------------------
(* The allocation an update or an unbind has put together is well formed. *)
LEMMA UpdatedType ==
  ASSUME RepositoryTypeOK, NEW r \in Requests \ CreateRequests, NEW id \in Ids,
         allocations[id] # None, Refusal(r, id) = "ok", r.op # "delete"
  PROVE  /\ Updated(r, id) \in Allocation
         /\ r.op # "delete_binding" => Updated(r, id).target_port \in Ports
<1>1. GetAllocation(id) \in Allocation
  BY GetAllocationType, Zenon
<1>2. CASE r.op = "delete_binding"
  BY <1>1, <1>2, Zenon DEF Updated, Allocation
<1>3. CASE r.op # "delete_binding"
  <2>1. r \in PutRequests \cup UpdateRequests /\ r.host # BadHost
    BY RequestAssumption, <1>3, Zenon
       DEF Requests, DeleteRequests, PutRequests, UpdateRequests, Refusal
  <2>2. r.target_port \in Ports \cup {None} /\ r.host \in Hosts \cup {None}
    BY RequestAssumption, <2>1, Zenon DEF PutRequests, UpdateRequests
  <2>3. ResolvedTarget(r, id) # None
    <3>1. CASE r \in PutRequests
      BY RequestAssumption, <3>1, NoneIsNoPort, Zenon DEF PutRequests, ResolvedTarget
    <3>2. CASE r \in UpdateRequests
      <4>1. r.op = "update"
        BY <3>2, Zenon DEF UpdateRequests
      <4> QED BY <2>1, <4>1, Zenon DEF Refusal
    <3> QED BY <2>1, <3>1, <3>2, Zenon
  <2>4. ResolvedTarget(r, id) \in Ports
    BY <2>2, <2>3, Zenon DEF ResolvedTarget, RepositoryTypeOK, BindingRows
  <2>5. ResolvedHost(r, id) \in Hosts \cup {None}
    BY <1>1, <2>2, Zenon DEF ResolvedHost, Allocation
  <2> QED BY <1>1, <1>3, <2>4, <2>5, Zenon DEF Updated, Allocation
<1> QED BY <1>2, <1>3, Zenon

LEMMA ReadInv == ASSUME Inv, NEW c \in Clients, Read(c) PROVE Inv'
<1> DEFINE refusal == Refusal(req[c], cur[c])
<1>1. pc[c] = "read" /\ pc[c] \in LockedLabels /\ ~ HalfDone(c)
  BY Zenon DEF Read, LockedLabels, HalfDone
<1>2. mutation_lock = c /\ phase = "serving"
  BY <1>1, HolderServes, Zenon
<1>3. UNCHANGED <<allocations, bindings, entries, suspect, half_done>>
  BY Zenon DEF Read, repo, history
<1>4. req[c] \in Requests \ CreateRequests /\ cur[c] = req[c].id /\ cur[c] \in Ids
  <2>1. req[c] \in Requests \ CreateRequests /\ cur[c] = req[c].id
    BY <1>1, Zenon DEF Inv, HandlerInv, ChangeInv
  <2> QED BY <2>1, Zenon DEF Requests, CreateRequests, PutRequests, UpdateRequests, DeleteRequests
<1>5. CASE refusal # "ok"
  <2>1. Leave(c) /\ reply' = [client |-> c, result |-> refusal]
    BY <1>5, Zenon DEF Read, Reply
  <2>2. refusal \in Results
    BY Zenon DEF Refusal, Results
  <2> QED BY <1>1, <1>2, <1>3, <2>1, <2>2, LeaveUntouched, Zenon
<1>6. CASE refusal = "ok" /\ req[c].op = "delete"
  <2>1. Goto(c, "delete") /\ UNCHANGED <<allocation, next_port, cur, refused>>
    BY <1>6, Zenon DEF Read
  <2>2. /\ pc' = [pc EXCEPT ![c] = "delete"] /\ reply' = None
        /\ UNCHANGED <<phase, todo, mutation_lock, req>>
    BY <2>1, Zenon DEF Goto
  <2>3. ServiceTypeOK'
    BY <1>3, <2>1, <2>2, Zenon DEF Inv, TypeOK, ServiceTypeOK, LockedLabels
  <2>4. LockInv'
    BY <1>2, <2>1, GotoControl, Zenon DEF LockedLabels
  <2>5. CreateInv(c)' /\ ChangeInv(c)'
    <3>1. pc'[c] = "delete"
      BY <2>2, Zenon DEF Inv, TypeOK, ServiceTypeOK
    <3>2. allocations[cur[c]] # None
      BY <1>6, Zenon DEF Refusal
    <3> QED BY <1>3, <1>4, <1>6, <2>1, <2>2, <3>1, <3>2, Zenon DEF CreateInv, ChangeInv
  <2>6. HandlerInv'
    BY <1>2, <2>1, <2>5, GotoHandlers, Zenon DEF LockedLabels
  <2>7. RuntimeAgrees'
    <3>1. \A d \in Clients : HalfDone(d) => HalfDone(d)'
      BY <1>1, <2>2, Zenon DEF HalfDone, Inv, TypeOK, ServiceTypeOK
    <3> QED BY <1>3, <2>1, <2>2, <3>1, SameAgreement, Zenon
  <2> QED BY <1>2, <1>3, <2>2, <2>3, <2>4, <2>6, <2>7, SameStores, Zenon DEF Inv, TypeOK
<1>7. CASE refusal = "ok" /\ req[c].op # "delete"
  <2>1. /\ Goto(c, "commit") /\ UNCHANGED <<next_port, cur, refused>>
        /\ allocation' = [allocation EXCEPT ![c] = Updated(req[c], cur[c])]
    BY <1>7, Zenon DEF Read
  <2>2. /\ pc' = [pc EXCEPT ![c] = "commit"] /\ reply' = None
        /\ UNCHANGED <<phase, todo, mutation_lock, req>>
    BY <2>1, Zenon DEF Goto
  <2>3. allocations[cur[c]] # None
    BY <1>7, Zenon DEF Refusal
  <2>4. Updated(req[c], cur[c]) \in Allocation
    BY <1>4, <1>7, <2>3, UpdatedType, Zenon DEF Inv, TypeOK
  <2>5. ServiceTypeOK'
    BY <1>3, <2>1, <2>2, <2>4, Zenon DEF Inv, TypeOK, ServiceTypeOK, LockedLabels
  <2>6. LockInv'
    BY <1>2, <2>1, GotoControl, Zenon DEF LockedLabels
  <2>7. CreateInv(c)' /\ ChangeInv(c)'
    <3>1. pc'[c] = "commit" /\ allocation'[c] = Updated(req[c], cur[c])
      BY <2>1, <2>2, Zenon DEF Inv, TypeOK, ServiceTypeOK
    <3>2. Updated(req[c], cur[c])' = Updated(req[c], cur[c]) /\ Refusal(req[c], cur[c])' = "ok"
      BY <1>3, <1>7, <2>1, <2>2, Zenon
         DEF Updated, Refusal, ResolvedTarget, ResolvedHost, GetAllocation
    <3> QED BY <1>3, <1>4, <1>7, <2>1, <2>2, <2>3, <3>1, <3>2, Zenon DEF CreateInv, ChangeInv
  <2>8. HandlerInv'
    BY <1>2, <2>1, <2>7, GotoHandlers, Zenon DEF LockedLabels
  <2>9. RuntimeAgrees'
    <3>1. \A d \in Clients : HalfDone(d) => HalfDone(d)'
      BY <1>1, <2>2, Zenon DEF HalfDone, Inv, TypeOK, ServiceTypeOK
    <3> QED BY <1>3, <2>1, <2>2, <3>1, SameAgreement, Zenon
  <2> QED BY <1>2, <1>3, <2>2, <2>5, <2>6, <2>8, <2>9, SameStores, Zenon DEF Inv, TypeOK
<1> QED BY <1>5, <1>6, <1>7, Zenon

(* ... and is what the request asked for. *)
LEMMA UpdatedApplies ==
  ASSUME RepositoryTypeOK, NEW r \in Requests \ CreateRequests, NEW id \in Ids,
         allocations[id] # None, Refusal(r, id) = "ok", r.op # "delete"
  PROVE  AppliedConfig(r, Updated(r, id))
<1>1. GetAllocation(id) \in Allocation
  BY GetAllocationType, Zenon
<1>2. r.op # "create"
  BY Zenon DEF Requests, PutRequests, UpdateRequests, DeleteRequests
<1>3. CASE r.op = "delete_binding"
  BY <1>1, <1>3, Zenon DEF Updated, Allocation, AppliedConfig
<1>4. CASE r.op # "delete_binding"
  <2>1. Updated(r, id).target_port = ResolvedTarget(r, id) /\ Updated(r, id).host = ResolvedHost(r, id)
    BY <1>1, <1>4, Zenon DEF Updated, Allocation
  <2>2. r.op = "put_binding" => r.target_port # None /\ r.host # None
    BY RequestAssumption, NoneAssumption, NoneIsNoPort, Zenon
       DEF Requests, PutRequests, UpdateRequests, DeleteRequests
  <2> QED BY <1>2, <1>4, <2>1, <2>2, Zenon DEF AppliedConfig, ResolvedTarget, ResolvedHost
<1> QED BY <1>3, <1>4, Zenon

(* The lock keeps what Read has seen: delete_binding and delete_allocation find the *)
(* row they are after, and their answers NotFound are never given.                 *)
LEMMA FindsWhatItRead ==
  ASSUME Inv, NEW c \in Clients
  PROVE  /\ pc[c] = "commit" => ~ (req[c].op = "delete_binding" /\ bindings[cur[c]] = None)
         /\ pc[c] = "db_delete" => allocations[cur[c]] # None
<1>1. CASE pc[c] = "commit"
  <2>1. Refusal(req[c], cur[c]) = "ok" /\ allocations[cur[c]] # None
    BY <1>1, Zenon DEF Inv, HandlerInv, ChangeInv
  <2>2. SUFFICES ASSUME req[c].op = "delete_binding", bindings[cur[c]] = None PROVE FALSE
    BY <1>1, Zenon
  <2> QED BY <2>1, <2>2, Zenon DEF Refusal
<1>2. CASE pc[c] = "db_delete"
  BY <1>2, Zenon DEF Inv, HandlerInv, ChangeInv
<1> QED BY <1>1, <1>2, Zenon

LEMMA CommitInv == ASSUME Inv, NEW c \in Clients, Commit(c) PROVE Inv'
<1>1. pc[c] = "commit" /\ pc[c] \in LockedLabels /\ ~ HalfDone(c)
  BY Zenon DEF Commit, LockedLabels, HalfDone
<1>2. mutation_lock = c /\ phase = "serving" /\ todo = {}
  BY <1>1, HolderServes, Zenon
<1>3. /\ Goto(c, "update")
      /\ UNCHANGED <<entries, suspect, half_done, next_port, cur, allocation, refused>>
  BY <1>1, FindsWhatItRead, Zenon DEF Commit, locals, history
<1>4. /\ pc' = [pc EXCEPT ![c] = "update"] /\ reply' = None
      /\ UNCHANGED <<phase, todo, mutation_lock, req>>
  BY <1>3, Zenon DEF Goto
<1>5. /\ req[c] \in Requests \ CreateRequests /\ cur[c] = req[c].id
      /\ allocations[cur[c]] # None /\ req[c].op # "delete"
      /\ allocation[c] = Updated(req[c], cur[c]) /\ Refusal(req[c], cur[c]) = "ok"
  BY <1>1, Zenon DEF Inv, HandlerInv, ChangeInv
<1>6. PICK x \in Ids : x = cur[c]
  BY <1>5, Zenon DEF Requests, CreateRequests, PutRequests, UpdateRequests, DeleteRequests
<1>7. /\ allocation[c] \in Allocation
      /\ req[c].op # "delete_binding" => allocation[c].target_port \in Ports
      /\ allocations[x] \in AllocationRows
  <2>1. RepositoryTypeOK
    BY Zenon DEF Inv, TypeOK
  <2> QED BY <1>5, <1>6, <2>1, UpdatedType, Zenon DEF RepositoryTypeOK
<1> DEFINE b == IF req[c].op = "delete_binding" THEN None
                ELSE [target_port |-> allocation[c].target_port, host |-> allocation[c].host]
           t == IF req[c].op = "delete_binding" THEN 0 ELSE allocation[c].target_port
           h == IF req[c].op = "delete_binding" THEN None ELSE allocation[c].host
           row == [allocations[x] EXCEPT !.target_port = t, !.host = h]
<1>8. bindings' = [bindings EXCEPT ![x] = b] /\ allocations' = [allocations EXCEPT ![x] = row]
  <2>1. CASE req[c].op = "delete_binding"
    BY <1>1, <1>5, <1>6, <2>1, FindsWhatItRead, Zenon DEF Commit, DeleteBinding
  <2>2. CASE req[c].op # "delete_binding"
    BY <1>5, <1>6, <2>2, Zenon DEF Commit, PutBinding
  <2> QED BY <2>1, <2>2, Zenon
<1>9. /\ row \in AllocationRows /\ b \in BindingRows \cup {None}
      /\ row.protocol = allocations[x].protocol /\ row.port = allocations[x].port
      /\ row.target_port = t /\ row.host = h
  <2>1. t \in 0..MaxPort /\ h \in Hosts \cup {None}
    BY MaxPortAssumption, <1>7 DEF Allocation, Ports
  <2>2. b \in BindingRows \cup {None}
    BY <1>7, Zenon DEF Allocation, BindingRows
  <2> HIDE DEF t, h, b
  <2> QED BY <1>7, <2>1, <2>2, Zenon DEF AllocationRows
<1>10. b # None => b.target_port = t /\ b.host = h
  OBVIOUS
<1>11. b = None => t = 0 /\ h = None
  <2>1. req[c].op # "delete_binding" => b \in BindingRows
    BY <1>7, Zenon DEF BindingRows, Allocation
  <2> QED BY NoneAssumption, <2>1, Zenon
<1>12. ToAllocation(row, b) = allocation[c]
  <2>1. /\ allocation[c].protocol = allocations[x].protocol
        /\ allocation[c].port = allocations[x].port
        /\ req[c].op = "delete_binding" => allocation[c].target_port = None /\ allocation[c].host = None
    <3>1. GetAllocation(x) \in Allocation
      BY <1>5, <1>6, GetAllocationType, Zenon DEF Inv, TypeOK
    <3>2. GetAllocation(x).protocol = allocations[x].protocol
          /\ GetAllocation(x).port = allocations[x].port
      BY <1>5, <1>6, Zenon DEF GetAllocation, ToAllocation
    <3> QED BY <1>5, <1>6, <3>1, <3>2, Zenon DEF Updated, Allocation
  <2>2. b # None => b \in BindingRows
    BY <1>9, Zenon
  <2>3. ToAllocation(row, b) \in Allocation
    BY <1>9, ToAllocationType, Zenon
  <2>4. /\ ToAllocation(row, b).protocol = allocation[c].protocol
        /\ ToAllocation(row, b).port = allocation[c].port
        /\ ToAllocation(row, b).target_port = allocation[c].target_port
        /\ ToAllocation(row, b).host = allocation[c].host
    <3>1. CASE req[c].op = "delete_binding"
      BY <1>9, <2>1, <3>1 DEF ToAllocation, TargetOfColumn
    <3>2. CASE req[c].op # "delete_binding"
      <4>1. b # None /\ b.target_port = allocation[c].target_port /\ b.host = allocation[c].host
        BY NoneAssumption, <1>7, <3>2 DEF BindingRows, Allocation
      <4> HIDE DEF b, row
      <4> QED BY <1>9, <2>1, <3>2, <4>1, Zenon DEF ToAllocation, h
    <3> QED BY <3>1, <3>2, Zenon
  <2> HIDE DEF b, row
  <2> QED BY <1>7, <2>3, <2>4 DEF Allocation
<1> HIDE DEF b, t, h, row
<1>13. /\ allocations'[x] = row /\ bindings'[x] = b
       /\ \A id \in Ids \ {x} : allocations'[id] = allocations[id] /\ bindings'[id] = bindings[id]
  BY <1>8, Zenon DEF Inv, TypeOK, RepositoryTypeOK
<1>14. TypeOK'
  <2>1. RepositoryTypeOK'
    BY <1>8, <1>9, Zenon DEF Inv, TypeOK, RepositoryTypeOK
  <2>2. RuntimeTypeOK' /\ ServiceTypeOK'
    BY <1>3, <1>4, Zenon DEF Inv, TypeOK, RuntimeTypeOK, ServiceTypeOK, LockedLabels
  <2> QED BY <2>1, <2>2, Zenon DEF TypeOK
<1>15. LockInv'
  BY <1>2, <1>3, GotoControl, Zenon DEF LockedLabels
<1>16. RowsInv'
  <2>1. row # None
    BY NoneAssumption, <1>9, Zenon
  <2>2. NoPortOverlap'
    <3>1. ListedIds' = ListedIds
      BY <1>5, <1>6, <1>13, <2>1, Zenon DEF ListedIds
    <3>2. \A id \in ListedIds : /\ allocations'[id].protocol = allocations[id].protocol
                               /\ allocations'[id].port = allocations[id].port
      BY <1>9, <1>13, Zenon DEF ListedIds
    <3> QED BY <3>1, <3>2 DEF Inv, RowsInv, NoPortOverlap
  <2>3. RowMirrorsBinding'
    <3> SUFFICES ASSUME NEW id \in Ids
                 PROVE  IF allocations'[id] = None THEN bindings'[id] = None
                        ELSE IF bindings'[id] = None
                             THEN allocations'[id].target_port = 0 /\ allocations'[id].host = None
                             ELSE /\ allocations'[id].target_port = bindings'[id].target_port
                                  /\ allocations'[id].host = bindings'[id].host
      BY Zenon DEF RowMirrorsBinding
    <3>1. CASE id = x
      BY <1>9, <1>10, <1>11, <1>13, <2>1, <3>1, Zenon
    <3>2. CASE id # x
      BY <1>2, <1>13, <3>2 DEF Inv, RowsInv, RowMirrorsBinding
    <3> QED BY <3>1, <3>2, Zenon
  <2> QED BY <1>2, <1>4, <2>2, <2>3, Zenon DEF RowsInv
<1>17. StartupInv'
  BY <1>2, <1>4, Zenon DEF StartupInv
<1>18. GetAllocation(x)' = allocation[c]
  BY NoneAssumption, <1>9, <1>12, <1>13, Zenon DEF GetAllocation
<1>19. CreateInv(c)' /\ ChangeInv(c)'
  <2>1. pc'[c] = "update"
    BY <1>4, Zenon DEF Inv, TypeOK, ServiceTypeOK
  <2>2. AppliedConfig(req[c], allocation[c])
    BY <1>5, <1>6, <1>7, UpdatedApplies, Zenon DEF Inv, TypeOK
  <2>3. GetAllocation(cur[c])' = allocation[c]
    BY <1>3, <1>6, <1>18, Zenon DEF GetAllocation
  <2>4. allocations'[cur[c]] # None
    BY NoneAssumption, <1>6, <1>9, <1>13, Zenon
  <2> QED BY <1>3, <1>4, <1>5, <2>1, <2>2, <2>3, <2>4, Zenon DEF CreateInv, ChangeInv, AppliedConfig
<1>20. HandlerInv'
  BY <1>2, <1>3, <1>19, GotoHandlers, Zenon DEF LockedLabels
<1>21. RuntimeAgrees'
  <2>1. HalfDone(c)'
    BY <1>4, Zenon DEF HalfDone, Inv, TypeOK, ServiceTypeOK
  <2> QED BY <1>1, <1>2, <1>3, <1>6, <1>13, <2>1, AgreementExcept, Zenon
<1> QED BY <1>14, <1>15, <1>16, <1>17, <1>20, <1>21, Zenon DEF Inv

LEMMA UpdateListenerInv == ASSUME Inv, NEW c \in Clients, UpdateListener(c) PROVE Inv'
<1>1. pc[c] = "update" /\ pc[c] \in LockedLabels
  BY Zenon DEF UpdateListener, LockedLabels
<1>2. mutation_lock = c /\ phase = "serving"
  BY <1>1, HolderServes, Zenon
<1>3. /\ req[c] \in Requests \ CreateRequests /\ cur[c] = req[c].id
      /\ allocations[cur[c]] # None /\ allocation[c] = GetAllocation(cur[c])
  BY <1>1, Zenon DEF Inv, HandlerInv, ChangeInv
<1>4. PICK x \in Ids : x = cur[c]
  BY <1>3, Zenon DEF Requests, CreateRequests, PutRequests, UpdateRequests, DeleteRequests
<1>5. allocation[c] \in Allocation
  BY <1>3, <1>4, GetAllocationType, Zenon DEF Inv, TypeOK
<1>6. UNCHANGED <<allocations, bindings>>
  BY Zenon DEF UpdateListener, repo
<1>7. CASE RuntimeUpdateOk(cur[c], allocation[c]) /\ Reply(c, "ok") /\ LeaveDone(c)
  <2>1. /\ entries' = [entries EXCEPT ![x] = allocation[c]] /\ Leave(c)
        /\ reply' = [client |-> c, result |-> "ok"]
        /\ suspect' = suspect \ {x} /\ half_done' = half_done
    BY <1>4, <1>7, Zenon DEF RuntimeUpdateOk, Reply, LeaveDone
  <2>2. /\ RuntimeTypeOK' /\ suspect' \in SUBSET Ids /\ half_done' \in 0..MaxHalfDone
        /\ reply' \in [client: Clients, result: Results] \cup {None}
    BY <1>5, <2>1, Zenon DEF Inv, TypeOK, RuntimeTypeOK, ServiceTypeOK, Results
  <2>3. entries'[x] = GetAllocation(x)'
    BY <1>3, <1>4, <1>6, <2>1, Zenon DEF Inv, TypeOK, RuntimeTypeOK, GetAllocation
  <2>4. \A id \in Ids \ {x} : entries'[id] = entries[id] /\ (id \in suspect => id \in suspect')
    BY <2>1, Zenon DEF Inv, TypeOK, RuntimeTypeOK
  <2> QED BY <1>2, <1>4, <1>6, <2>1, <2>2, <2>3, <2>4, LeaveTouched, Zenon
<1>8. CASE RuntimeUpdateErr(cur[c], allocation[c]) /\ Reply(c, "Runtime") /\ LeaveHalfDone(c)
  <2>1. /\ entries' = entries \/ entries' = [entries EXCEPT ![x] = allocation[c]]
        /\ Leave(c) /\ reply' = [client |-> c, result |-> "Runtime"]
        /\ suspect' = suspect \cup {x} /\ half_done < MaxHalfDone /\ half_done' = half_done + 1
    BY <1>4, <1>8, Zenon DEF RuntimeUpdateErr, Reply, LeaveHalfDone
  <2>2. /\ RuntimeTypeOK' /\ suspect' \in SUBSET Ids /\ half_done' \in 0..MaxHalfDone
        /\ reply' \in [client: Clients, result: Results] \cup {None}
    BY RequestAssumption, <1>5, <2>1 DEF Inv, TypeOK, RuntimeTypeOK, ServiceTypeOK, Results
  <2>3. \A id \in Ids \ {x} : entries'[id] = entries[id] /\ (id \in suspect => id \in suspect')
    BY <2>1, Zenon DEF Inv, TypeOK, RuntimeTypeOK
  <2>4. x \in suspect'
    BY <2>1, Zenon
  <2> QED BY <1>2, <1>4, <1>6, <2>1, <2>2, <2>3, <2>4, LeaveTouched, Zenon
<1> QED BY <1>7, <1>8, Zenon DEF UpdateListener

LEMMA DeleteListenerInv == ASSUME Inv, NEW c \in Clients, DeleteListener(c) PROVE Inv'
<1>1. pc[c] = "delete" /\ pc[c] \in LockedLabels /\ ~ HalfDone(c)
  BY Zenon DEF DeleteListener, LockedLabels, HalfDone
<1>2. mutation_lock = c /\ phase = "serving" /\ todo = {}
  BY <1>1, HolderServes, Zenon
<1>3. /\ req[c] \in Requests \ CreateRequests /\ cur[c] = req[c].id
      /\ allocations[cur[c]] # None /\ req[c].op = "delete"
  BY <1>1, Zenon DEF Inv, HandlerInv, ChangeInv
<1>4. PICK x \in Ids : x = cur[c]
  BY <1>3, Zenon DEF Requests, CreateRequests, PutRequests, UpdateRequests, DeleteRequests
<1>5. UNCHANGED <<allocations, bindings, suspect, half_done>>
  BY Zenon DEF DeleteListener, repo, history
<1>6. CASE RuntimeDeleteOk(cur[c]) /\ Goto(c, "db_delete") /\ UNCHANGED locals
  <2>1. /\ entries' = [entries EXCEPT ![x] = None]
        /\ pc' = [pc EXCEPT ![c] = "db_delete"] /\ reply' = None
        /\ UNCHANGED <<phase, todo, mutation_lock, req, next_port, cur, allocation, refused>>
    BY <1>4, <1>6, Zenon DEF RuntimeDeleteOk, Goto, locals
  <2>2. TypeOK'
    BY <1>5, <2>1, Zenon
       DEF Inv, TypeOK, RepositoryTypeOK, RuntimeTypeOK, ServiceTypeOK, LockedLabels
  <2>3. LockInv'
    BY <1>2, <1>6, GotoControl, Zenon DEF LockedLabels
  <2>4. RowsInv' /\ StartupInv'
    BY <1>2, <1>5, <2>1, Zenon
       DEF Inv, RowsInv, NoPortOverlap, RowMirrorsBinding, ListedIds, StartupInv
  <2>5. CreateInv(c)' /\ ChangeInv(c)'
    <3>1. pc'[c] = "db_delete" /\ entries'[x] = None
      BY <2>1, Zenon DEF Inv, TypeOK, ServiceTypeOK, RuntimeTypeOK
    <3> QED BY <1>3, <1>4, <1>5, <2>1, <3>1, Zenon DEF CreateInv, ChangeInv
  <2>6. HandlerInv'
    BY <1>2, <1>6, <2>1, <2>5, GotoHandlers, Zenon DEF LockedLabels
  <2>7. RuntimeAgrees'
    <3>1. HalfDone(c)' /\ \A id \in Ids \ {x} : entries'[id] = entries[id]
      BY <2>1, Zenon DEF HalfDone, Inv, TypeOK, ServiceTypeOK, RuntimeTypeOK
    <3> QED BY <1>1, <1>2, <1>4, <1>5, <2>1, <3>1, AgreementExcept, Zenon
  <2> QED BY <2>2, <2>3, <2>4, <2>6, <2>7, Zenon DEF Inv
<1>7. CASE RuntimeDeleteErr /\ Reply(c, "Runtime")
  BY <1>1, <1>2, <1>5, <1>7, LeaveUntouched, Zenon DEF RuntimeDeleteErr, Reply, Results
<1> QED BY <1>6, <1>7, Zenon DEF DeleteListener

LEMMA DeleteRowInv == ASSUME Inv, NEW c \in Clients, DeleteRow(c) PROVE Inv'
<1>1. pc[c] = "db_delete" /\ pc[c] \in LockedLabels
  BY Zenon DEF DeleteRow, LockedLabels
<1>2. mutation_lock = c /\ phase = "serving" /\ todo = {}
  BY <1>1, HolderServes, Zenon
<1>3. /\ req[c] \in Requests \ CreateRequests /\ cur[c] = req[c].id /\ entries[cur[c]] = None
  BY <1>1, Zenon DEF Inv, HandlerInv, ChangeInv
<1>4. PICK x \in Ids : x = cur[c]
  BY <1>3, Zenon DEF Requests, CreateRequests, PutRequests, UpdateRequests, DeleteRequests
<1>5. entries' = entries
  BY Zenon DEF DeleteRow
<1>6. CASE DeleteAllocation(cur[c]) /\ Reply(c, "ok") /\ LeaveDone(c)
  <2>1. /\ allocations' = [allocations EXCEPT ![x] = None] /\ bindings' = [bindings EXCEPT ![x] = None]
        /\ Leave(c) /\ reply' = [client |-> c, result |-> "ok"]
        /\ suspect' = suspect \ {x} /\ half_done' = half_done
    BY <1>4, <1>6, Zenon DEF DeleteAllocation, Reply, LeaveDone
  <2>2. RepositoryTypeOK' /\ RuntimeTypeOK'
    BY <1>5, <2>1, Zenon DEF Inv, TypeOK, RepositoryTypeOK, RuntimeTypeOK
  <2>3. ServiceTypeOK' /\ LockInv' /\ HandlerInv'
    BY <1>2, <2>1, LeaveControl, LeaveHandlers, Zenon DEF Inv, TypeOK, ServiceTypeOK, Results
  <2>4. phase' = "serving" /\ todo' = {}
    BY <1>2, <2>1, Zenon DEF Leave
  <2>5. /\ allocations'[x] = None /\ bindings'[x] = None
        /\ \A id \in Ids \ {x} : allocations'[id] = allocations[id] /\ bindings'[id] = bindings[id]
    BY <2>1, Zenon DEF Inv, TypeOK, RepositoryTypeOK
  <2>6. NoPortOverlap'
    <3>1. \A id \in ListedIds' : id \in ListedIds /\ allocations'[id] = allocations[id]
      BY <2>5, Zenon DEF ListedIds
    <3> QED BY <3>1, Zenon DEF Inv, RowsInv, NoPortOverlap
  <2>7. RowMirrorsBinding'
    BY <1>2, <2>5 DEF Inv, RowsInv, RowMirrorsBinding
  <2>8. RowsInv' /\ StartupInv'
    BY <2>4, <2>6, <2>7, Zenon DEF RowsInv, StartupInv
  <2>9. RuntimeAgrees'
    <3>1. entries'[x] = GetAllocation(x)'
      BY <1>3, <1>4, <1>5, <2>5, Zenon DEF GetAllocation
    <3>2. \A id \in Ids \ {x} : id \in suspect => id \in suspect'
      BY <2>1, Zenon
    <3> QED BY <1>2, <1>4, <1>5, <2>5, <3>1, <3>2, AgreementExcept, Zenon
  <2> QED BY <2>2, <2>3, <2>8, <2>9, Zenon DEF Inv, TypeOK
<1>7. CASE UNCHANGED repo /\ Reply(c, "Repository") /\ LeaveHalfDone(c)
  <2>1. /\ UNCHANGED <<allocations, bindings>>
        /\ Leave(c) /\ reply' = [client |-> c, result |-> "Repository"]
        /\ suspect' = suspect \cup {x} /\ half_done < MaxHalfDone /\ half_done' = half_done + 1
    BY <1>4, <1>7, Zenon DEF repo, Reply, LeaveHalfDone
  <2>2. /\ RuntimeTypeOK' /\ suspect' \in SUBSET Ids /\ half_done' \in 0..MaxHalfDone
        /\ reply' \in [client: Clients, result: Results] \cup {None}
    BY RequestAssumption, <1>5, <2>1 DEF Inv, TypeOK, RuntimeTypeOK, ServiceTypeOK, Results
  <2>3. x \in suspect' /\ \A id \in Ids \ {x} : id \in suspect => id \in suspect'
    BY <2>1, Zenon
  <2> QED BY <1>2, <1>4, <1>5, <2>1, <2>2, <2>3, LeaveTouched, Zenon
<1> QED BY <1>1, <1>6, <1>7, FindsWhatItRead, Zenon DEF DeleteRow

-----------------------------------------------------------------------------
LEMMA CallInv == ASSUME Inv, NEW c \in Clients, Call(c) PROVE Inv'
<1>1. phase = "serving" /\ pc[c] = "idle" /\ pc' = [pc EXCEPT ![c] = "lock"]
  BY Zenon DEF Call, Goto
<1>2. UNCHANGED <<allocations, bindings, entries, phase, todo, suspect, half_done,
                  mutation_lock, req, next_port, cur, allocation, refused>> /\ reply' = None
  BY Zenon DEF Call, Goto, repo, locals, history
<1>3. ServiceTypeOK' /\ LockInv'
  BY <1>1, <1>2, Zenon DEF Inv, TypeOK, ServiceTypeOK, LockInv, MutualExclusion, LockedLabels
<1>4. HandlerInv'
  <2> SUFFICES ASSUME NEW d \in Clients PROVE (IdleInv(d) /\ CreateInv(d) /\ ChangeInv(d))'
    BY Zenon DEF HandlerInv
  <2>1. CASE d = c
    BY <1>1, <1>2, <2>1, Zenon
       DEF Inv, TypeOK, ServiceTypeOK, HandlerInv, IdleInv, CreateInv, ChangeInv
  <2>2. CASE d # c
    BY <1>1, <1>2, <2>2, Undisturbed, Zenon DEF Inv, TypeOK, ServiceTypeOK
  <2> QED BY <2>1, <2>2, Zenon
<1>5. RuntimeAgrees'
  <2>1. \A d \in Clients : HalfDone(d) => HalfDone(d)'
    BY <1>1, Zenon DEF Inv, TypeOK, ServiceTypeOK, HalfDone
  <2> QED BY <1>2, <2>1, SameAgreement, Zenon
<1> QED BY <1>1, <1>2, <1>3, <1>4, <1>5, SameStores, Zenon DEF Inv, TypeOK

LEMMA CallRefusedInv == ASSUME Inv, NEW c \in Clients, CallRefused(c) PROVE Inv'
<1>1. phase = "serving" /\ pc[c] = "idle" /\ Leave(c)
      /\ reply' = [client |-> c, result |-> "InvalidHost"]
  BY Zenon DEF CallRefused, Reply
<1>2. UNCHANGED <<allocations, bindings, entries, phase, todo, suspect, half_done>>
  BY <1>1, Zenon DEF CallRefused, Leave, repo, history
<1>3. ServiceTypeOK' /\ LockInv'
  BY <1>1, <1>2, LeaveControl, Zenon DEF Inv, TypeOK, ServiceTypeOK, Results
<1>4. cur' = cur /\ pc' = pc
  BY <1>1, Zenon DEF Leave, Inv, TypeOK, ServiceTypeOK, HandlerInv, IdleInv
<1>5. HandlerInv'
  <2> SUFFICES ASSUME NEW d \in Clients PROVE (IdleInv(d) /\ CreateInv(d) /\ ChangeInv(d))'
    BY Zenon DEF HandlerInv
  <2>1. CASE d = c
    BY <1>1, <1>2, <2>1, Zenon DEF Leave, Inv, TypeOK, ServiceTypeOK, IdleInv, CreateInv, ChangeInv
  <2>2. CASE d # c
    BY <1>1, <1>2, <2>2, Undisturbed, Zenon DEF Leave, Inv, TypeOK, ServiceTypeOK
  <2> QED BY <2>1, <2>2, Zenon
<1>6. RuntimeAgrees'
  BY <1>2, <1>4, SameAgreement, Zenon DEF HalfDone
<1> QED BY <1>1, <1>2, <1>3, <1>5, <1>6, SameStores, Zenon DEF Inv, TypeOK

LEMMA LockStepInv ==
  ASSUME Inv, NEW c \in Clients, NEW r \in Requests, Lock(c, r)
  PROVE  Inv'
<1>1. pc[c] = "lock" /\ mutation_lock = None /\ phase = "serving"
  BY Zenon DEF Lock, Inv, LockInv
<1>2. UNCHANGED <<allocations, bindings, entries, phase, todo, suspect, half_done, allocation, refused>>
  BY Zenon DEF Lock, repo, history
<1>3. mutation_lock' = c /\ req' = [req EXCEPT ![c] = r] /\ reply' = None
  BY Zenon DEF Lock
<1>4. \/ /\ r.op = "create" /\ pc' = [pc EXCEPT ![c] = "find"] /\ cur' = cur
         /\ next_port' = [next_port EXCEPT ![c] = RangeStart]
      \/ /\ r.op # "create" /\ pc' = [pc EXCEPT ![c] = "read"] /\ next_port' = next_port
         /\ cur' = [cur EXCEPT ![c] = r.id]
  BY Zenon DEF Lock
<1>5. r.op = "create" <=> r \in CreateRequests
  BY Zenon DEF Requests, CreateRequests, PutRequests, UpdateRequests, DeleteRequests
<1>6. r.op # "create" => r.id \in Ids
  BY Zenon DEF Requests, CreateRequests, PutRequests, UpdateRequests, DeleteRequests
<1>7. ServiceTypeOK'
  BY RangeAssumption, <1>1, <1>2, <1>3, <1>4, <1>6 DEF Inv, TypeOK, ServiceTypeOK, LockedLabels
<1>8. LockInv'
  BY RequestAssumption, <1>1, <1>2, <1>3, <1>4
     DEF Inv, TypeOK, ServiceTypeOK, LockInv, MutualExclusion, LockedLabels
<1>9. HandlerInv'
  <2> SUFFICES ASSUME NEW d \in Clients PROVE (IdleInv(d) /\ CreateInv(d) /\ ChangeInv(d))'
    BY Zenon DEF HandlerInv
  <2>1. CASE d = c
    <3>1. CASE r.op = "create"
      <4>1. pc'[c] = "find" /\ req'[c] = r /\ cur'[c] = None /\ next_port'[c] = RangeStart
        BY <1>1, <1>3, <1>4, <3>1, Zenon DEF Inv, TypeOK, ServiceTypeOK, HandlerInv, IdleInv
      <4>2. Scanned(c)'
        BY MaxPortAssumption, NoneAssumption, RangeAssumption, <4>1 DEF Scanned, Ports
      <4> QED BY <1>5, <2>1, <3>1, <4>1, <4>2, Zenon DEF IdleInv, CreateInv, ChangeInv
    <3>2. CASE r.op # "create"
      <4>1. pc'[c] = "read" /\ req'[c] = r /\ cur'[c] = r.id
        BY <1>1, <1>3, <1>4, <3>2, Zenon DEF Inv, TypeOK, ServiceTypeOK
      <4> QED BY <1>5, <2>1, <3>2, <4>1, Zenon DEF IdleInv, CreateInv, ChangeInv
    <3> QED BY <3>1, <3>2, Zenon
  <2>2. CASE d # c
    BY <1>2, <1>3, <1>4, <2>2, Undisturbed, Zenon DEF Inv, TypeOK, ServiceTypeOK
  <2> QED BY <2>1, <2>2, Zenon
<1>10. RuntimeAgrees'
  <2>1. \A d \in Clients : HalfDone(d)' <=> HalfDone(d)
    BY <1>1, <1>4, Zenon DEF Inv, TypeOK, ServiceTypeOK, HalfDone
  <2>2. \A d \in Clients : HalfDone(d) => cur'[d] = cur[d]
    BY <1>1, <1>4, Zenon DEF Inv, TypeOK, ServiceTypeOK, HalfDone
  <2> QED BY <1>2, <2>1, <2>2, Zenon DEF Inv, RuntimeAgrees, GetAllocation
<1> QED BY <1>1, <1>2, <1>7, <1>8, <1>9, <1>10, SameStores, Zenon DEF Inv, TypeOK

(* A port of the range is occupied when an overlapping row holds it. *)
LEMMA OccupiedMember ==
  ASSUME NEW protocol, NEW start, NEW end, NEW port
  PROVE  port \in OccupiedPorts(protocol, start, end) <=>
           /\ port \in start..end
           /\ \E id \in ListedIds : /\ allocations[id].port = port
                                   /\ allocations[id].protocol \in ConflictingProtocols(protocol)
BY Zenon DEF OccupiedPorts

LEMMA FindPortInv == ASSUME Inv, NEW c \in Clients, FindPort(c) PROVE Inv'
<1> DEFINE port == IF next_port[c] = None THEN None
                   ELSE FindAvailablePort(req[c].protocol, next_port[c], RangeEnd)
<1>1. pc[c] = "find" /\ pc[c] \in LockedLabels
  BY Zenon DEF FindPort, LockedLabels
<1>2. mutation_lock = c /\ phase = "serving" /\ todo = {}
  BY <1>1, HolderServes, Zenon
<1>3. UNCHANGED <<allocations, bindings, entries, suspect, half_done>>
  BY Zenon DEF FindPort, repo, history
<1>4. req[c] \in CreateRequests /\ cur[c] = None /\ Scanned(c)
  BY <1>1, Zenon DEF Inv, HandlerInv, CreateInv
<1>5. CASE port = None
  <2>1. Leave(c) /\ reply' = [client |-> c, result |-> "NoAvailablePort"]
    BY <1>5, Zenon DEF FindPort, Reply
  <2>2. ServiceTypeOK' /\ LockInv' /\ HandlerInv'
    BY <1>2, <1>3, <2>1, LeaveControl, LeaveHandlers, Zenon DEF Inv, TypeOK, ServiceTypeOK, Results
  <2>3. RuntimeAgrees'
    <3>1. \A d \in Clients : HalfDone(d)' <=> HalfDone(d)
      BY <1>1, <2>1, Zenon DEF Inv, TypeOK, ServiceTypeOK, HalfDone, Leave
    <3>2. cur' = cur /\ phase' = phase
      BY <1>4, <2>1, Zenon DEF Inv, TypeOK, ServiceTypeOK, Leave
    <3> QED BY <1>3, <3>1, <3>2, SameAgreement, Zenon
  <2>4. UNCHANGED <<phase, todo>>
    BY <2>1, Zenon DEF Leave
  <2> QED BY <1>2, <1>3, <2>2, <2>3, <2>4, SameStores, Zenon DEF Inv, TypeOK
<1>6. CASE port # None
  <2>1. PICK id \in FreshIds : cur' = [cur EXCEPT ![c] = id]
    BY <1>6, Zenon DEF FindPort
  <2>2. /\ allocation' = [allocation EXCEPT ![c] =
              [protocol |-> req[c].protocol, port |-> port,
               target_port |-> req[c].target_port, host |-> None]]
        /\ next_port' = [next_port EXCEPT ![c] = CheckedSucc(port)]
        /\ refused' = refused
        /\ Goto(c, "create")
    BY <1>6, Zenon DEF FindPort
  <2>3. /\ pc' = [pc EXCEPT ![c] = "create"] /\ reply' = None
        /\ UNCHANGED <<phase, todo, mutation_lock, req>>
    BY <2>2, Zenon DEF Goto
  <2>4. /\ next_port[c] \in Ports
        /\ req[c].protocol \in Protocols
        /\ req[c].target_port \in Ports \cup {None}
    BY RequestAssumption, <1>4, <1>6, Zenon DEF Inv, TypeOK, ServiceTypeOK, CreateRequests
  <2>5. /\ port \in (next_port[c]..RangeEnd) \ OccupiedPorts(req[c].protocol, next_port[c], RangeEnd)
        /\ \A p \in (next_port[c]..RangeEnd) \ OccupiedPorts(req[c].protocol, next_port[c], RangeEnd) :
             port <= p
    <3>1. port = FindAvailablePort(req[c].protocol, next_port[c], RangeEnd) /\ port # None
      BY <1>6, Zenon
    <3>2. RepositoryTypeOK
      BY Zenon DEF Inv, TypeOK
    <3> HIDE DEF port
    <3> QED BY RangeAssumption, <2>4, <3>1, <3>2, FindAvailablePortIsLeastFree, Zenon
  <2> HIDE DEF port
  <2>6. port \in Ports /\ port <= RangeEnd /\ CheckedSucc(port) \in Ports \cup {None}
    BY MaxPortAssumption, RangeAssumption, <2>4, <2>5 DEF CheckedSucc, Ports
  <2>7. ServiceTypeOK'
    <3>1. [protocol |-> req[c].protocol, port |-> port,
           target_port |-> req[c].target_port, host |-> None] \in Allocation
      BY <2>4, <2>6, Zenon DEF Allocation
    <3>2. id \in Ids
      BY Zenon DEF FreshIds
    <3> QED BY <1>3, <2>1, <2>2, <2>3, <2>6, <3>1, <3>2, Zenon
            DEF Inv, TypeOK, ServiceTypeOK, LockedLabels
  <2>8. LockInv'
    BY <1>2, <2>2, GotoControl, Zenon DEF LockedLabels
  <2>9. CreateInv(c)'
    <3>1. /\ pc'[c] = "create" /\ cur'[c] = id /\ req'[c] = req[c] /\ refused'[c] = refused[c]
          /\ next_port'[c] = CheckedSucc(port)
          /\ allocation'[c] = [protocol |-> req[c].protocol, port |-> port,
                               target_port |-> req[c].target_port, host |-> None]
      BY <2>1, <2>2, <2>3, Zenon DEF Inv, TypeOK, ServiceTypeOK
    <3>2. id \in Ids \ suspect /\ allocations[id] = None /\ entries[id] = None
      BY Zenon DEF FreshIds
    <3>3. \A i \in ListedIds : allocations[i].port = port
            => allocations[i].protocol \notin ConflictingProtocols(req[c].protocol)
      BY <2>4, <2>5, OccupiedMember, Zenon
    <3>4. port \in RangeStart..RangeEnd
      <4>1. next_port[c] >= RangeStart
        BY NoneIsNoPort, <1>4, <2>4, Zenon DEF Scanned
      <4> QED BY MaxPortAssumption, RangeAssumption, <2>4, <2>5, <2>6, <4>1 DEF Ports
    <3>5. ASSUME NEW p \in RangeStart..(port - 1)
          PROVE  p \in OccupiedPorts(req[c].protocol, RangeStart, RangeEnd) \cup refused[c]
      <4>1. p \in RangeStart..RangeEnd /\ p < port
        BY MaxPortAssumption, RangeAssumption, <2>6 DEF Ports
      <4>2. CASE p < next_port[c]
        BY <1>4, <4>1, <4>2, Zenon DEF Scanned
      <4>3. CASE p >= next_port[c]
        <5>1. p \in next_port[c]..RangeEnd /\ ~ (port <= p)
          BY <2>4, <2>6, <4>1, <4>3 DEF Ports
        <5>2. p \in OccupiedPorts(req[c].protocol, next_port[c], RangeEnd)
          BY <2>5, <5>1, Zenon
        <5> QED BY <4>1, <5>2, OccupiedMember
      <4> QED BY <2>4, <4>1, <4>2, <4>3 DEF Ports
    <3>6. \A p : p \in OccupiedPorts(req[c].protocol, RangeStart, RangeEnd)'
                  <=> p \in OccupiedPorts(req[c].protocol, RangeStart, RangeEnd)
      BY <1>3, <2>3, Zenon DEF OccupiedPorts, ListedIds
    <3>7. Trying(c)'
      BY <1>3, <2>3, <3>1, <3>3, <3>4, <3>5, <3>6 DEF Trying, ListedIds
    <3> QED BY <1>3, <1>4, <3>1, <3>2, <3>7, Zenon DEF CreateInv
  <2>10. ChangeInv(c)'
    BY <2>3, Zenon DEF ChangeInv, Inv, TypeOK, ServiceTypeOK
  <2>11. HandlerInv'
    BY <1>2, <2>1, <2>2, <2>9, <2>10, GotoHandlers, Zenon
       DEF LockedLabels, Inv, TypeOK, ServiceTypeOK
  <2>12. RuntimeAgrees'
    <3>1. \A d \in Clients : HalfDone(d)' <=> HalfDone(d)
      BY <1>1, <2>3, Zenon DEF Inv, TypeOK, ServiceTypeOK, HalfDone
    <3>2. \A d \in Clients : HalfDone(d) => cur'[d] = cur[d]
      BY <1>1, <2>1, Zenon DEF Inv, TypeOK, ServiceTypeOK, HalfDone
    <3> QED BY <1>3, <2>3, <3>1, <3>2, Zenon DEF Inv, RuntimeAgrees, GetAllocation
  <2> QED BY <1>2, <1>3, <2>3, <2>7, <2>8, <2>11, <2>12, SameStores, Zenon DEF Inv, TypeOK
<1> QED BY <1>5, <1>6, Zenon

(* The allocation create_allocation has put together is well formed. *)
LEMMA TryingType ==
  ASSUME NEW c \in Clients, req[c] \in CreateRequests, Trying(c)
  PROVE  allocation[c] \in Allocation
<1>1. req[c].protocol \in Protocols /\ req[c].target_port \in Ports \cup {None}
  BY RequestAssumption, Zenon DEF CreateRequests
<1>2. allocation[c].port \in Ports
  BY MaxPortAssumption, RangeAssumption DEF Trying, Ports
<1>3. [protocol |-> req[c].protocol, port |-> allocation[c].port,
       target_port |-> req[c].target_port, host |-> None] \in Allocation
  BY <1>1, <1>2, Zenon DEF Allocation
<1> QED BY <1>3, Zenon DEF Trying

LEMMA CreateListenerInv == ASSUME Inv, NEW c \in Clients, CreateListener(c) PROVE Inv'
<1>1. pc[c] = "create" /\ pc[c] \in LockedLabels
  BY Zenon DEF CreateListener, LockedLabels
<1>2. mutation_lock = c /\ phase = "serving" /\ todo = {}
  BY <1>1, HolderServes, Zenon
<1>3. UNCHANGED <<allocations, bindings, suspect, half_done>>
  BY Zenon DEF CreateListener, repo, history
<1>4. /\ req[c] \in CreateRequests /\ Trying(c)
      /\ cur[c] \in Ids \ suspect
      /\ allocations[cur[c]] = None /\ entries[cur[c]] = None
  BY <1>1, Zenon DEF Inv, HandlerInv, CreateInv
<1>5. allocation[c] \in Allocation
  BY <1>4, TryingType, Zenon
<1>6. CASE RuntimeCreateOk(cur[c], allocation[c]) /\ Goto(c, "persist") /\ UNCHANGED locals
  <2>1. /\ entries' = [entries EXCEPT ![cur[c]] = allocation[c]]
        /\ pc' = [pc EXCEPT ![c] = "persist"] /\ reply' = None
        /\ UNCHANGED <<phase, todo, mutation_lock, req, next_port, cur, allocation, refused>>
    BY <1>6, Zenon DEF RuntimeCreateOk, Goto, locals
  <2>2. TypeOK'
    BY <1>3, <1>4, <1>5, <2>1, Zenon
       DEF Inv, TypeOK, RepositoryTypeOK, RuntimeTypeOK, ServiceTypeOK, LockedLabels
  <2>3. LockInv'
    BY <1>2, <1>6, GotoControl, Zenon DEF LockedLabels
  <2>4. RowsInv' /\ StartupInv'
    BY <1>2, <1>3, <2>1, Zenon
       DEF Inv, RowsInv, NoPortOverlap, RowMirrorsBinding, ListedIds, StartupInv
  <2>5. CreateInv(c)' /\ ChangeInv(c)'
    <3>1. pc'[c] = "persist"
      BY <2>1, Zenon DEF Inv, TypeOK, ServiceTypeOK
    <3>2. Trying(c)'
      BY <1>3, <1>4, <2>1, Zenon DEF Trying, OccupiedPorts, ListedIds
    <3>3. entries'[cur[c]] = allocation[c]
      BY <1>4, <2>1, Zenon DEF Inv, TypeOK, RuntimeTypeOK
    <3> QED BY <1>3, <1>4, <2>1, <3>1, <3>2, <3>3, Zenon DEF CreateInv, ChangeInv
  <2>6. HandlerInv'
    BY <1>2, <1>6, <2>1, <2>5, GotoHandlers, Zenon DEF LockedLabels
  <2>7. RuntimeAgrees'
    <3>1. HalfDone(c)' /\ ~ HalfDone(c)
      BY <1>1, <2>1, Zenon DEF Inv, TypeOK, ServiceTypeOK, HalfDone
    <3>2. \A id \in Ids \ {cur[c]} : entries'[id] = entries[id]
      BY <2>1, Zenon DEF Inv, TypeOK, RuntimeTypeOK
    <3> QED BY <1>2, <1>3, <1>4, <2>1, <3>1, <3>2, AgreementExcept, Zenon
  <2> QED BY <2>2, <2>3, <2>4, <2>6, <2>7, Zenon DEF Inv
<1>7. CASE /\ RuntimeCreateErr /\ Goto(c, "find")
           /\ refused' = [refused EXCEPT ![c] = @ \cup {allocation[c].port}]
           /\ cur' = [cur EXCEPT ![c] = None]
           /\ allocation' = [allocation EXCEPT ![c] = None]
           /\ UNCHANGED next_port
  <2>1. /\ pc' = [pc EXCEPT ![c] = "find"] /\ reply' = None
        /\ UNCHANGED <<entries, phase, todo, mutation_lock, req, next_port>>
    BY <1>7, Zenon DEF RuntimeCreateErr, Goto
  <2>2. ServiceTypeOK'
    BY <1>3, <1>5, <1>7, <2>1, Zenon DEF Inv, TypeOK, ServiceTypeOK, LockedLabels, Allocation
  <2>3. LockInv'
    BY <1>2, <1>7, GotoControl, Zenon DEF LockedLabels
  <2>4. CreateInv(c)' /\ ChangeInv(c)'
    <3>1. /\ pc'[c] = "find" /\ cur'[c] = None
          /\ refused'[c] = refused[c] \cup {allocation[c].port}
      BY <1>7, <2>1, Zenon DEF Inv, TypeOK, ServiceTypeOK
    <3>2. \A p : p \in OccupiedPorts(req[c].protocol, RangeStart, RangeEnd)'
                  <=> p \in OccupiedPorts(req[c].protocol, RangeStart, RangeEnd)
      BY <1>3, <2>1, Zenon DEF OccupiedPorts, ListedIds
    <3>3. ASSUME NEW p \in RangeStart..RangeEnd, next_port[c] = None \/ p < next_port[c]
          PROVE  p \in OccupiedPorts(req[c].protocol, RangeStart, RangeEnd) \cup refused'[c]
      <4>1. p = allocation[c].port \/ p \in RangeStart..(allocation[c].port - 1)
        BY MaxPortAssumption, NoneAssumption, RangeAssumption, <1>4, <3>3
           DEF Trying, CheckedSucc, Ports
      <4> QED BY <1>4, <3>1, <4>1, Zenon DEF Trying
    <3>4. next_port[c] # None => next_port[c] >= RangeStart
      BY MaxPortAssumption, NoneAssumption, RangeAssumption, <1>4 DEF Trying, CheckedSucc, Ports
    <3>5. Scanned(c)'
      BY <2>1, <3>2, <3>3, <3>4, Zenon DEF Scanned
    <3> QED BY <1>4, <2>1, <3>1, <3>5, Zenon DEF CreateInv, ChangeInv
  <2>5. HandlerInv'
    BY <1>2, <1>7, <2>4, GotoHandlers, Zenon DEF LockedLabels, Inv, TypeOK, ServiceTypeOK
  <2>6. RuntimeAgrees'
    <3>1. ~ HalfDone(c)
      BY <1>1, Zenon DEF HalfDone
    <3>2. PICK x \in Ids : x = cur[c]
      BY <1>4, Zenon
    <3>3. entries'[x] = GetAllocation(x)'
      BY <1>3, <1>4, <2>1, <3>2, Zenon DEF GetAllocation
    <3> QED BY <1>2, <1>3, <2>1, <3>1, <3>3, AgreementExcept, Zenon
  <2> QED BY <1>2, <1>3, <2>1, <2>2, <2>3, <2>5, <2>6, SameStores, Zenon DEF Inv, TypeOK
<1>8. CASE RuntimeCreateErr /\ Reply(c, "Runtime")
  <2>1. Leave(c) /\ reply' = [client |-> c, result |-> "Runtime"]
    BY <1>8, Zenon DEF Reply
  <2>2. UNCHANGED <<entries, phase, todo>>
    BY <1>8, <2>1, Zenon DEF RuntimeCreateErr, Leave
  <2>3. ServiceTypeOK' /\ LockInv' /\ HandlerInv'
    BY <1>2, <1>3, <2>1, LeaveControl, LeaveHandlers, Zenon DEF Inv, TypeOK, ServiceTypeOK, Results
  <2>4. RuntimeAgrees'
    <3>1. ~ HalfDone(c)
      BY <1>1, Zenon DEF HalfDone
    <3>2. PICK x \in Ids : x = cur[c]
      BY <1>4, Zenon
    <3>3. entries'[x] = GetAllocation(x)'
      BY <1>3, <1>4, <2>2, <3>2, Zenon DEF GetAllocation
    <3> QED BY <1>2, <1>3, <2>2, <3>1, <3>3, AgreementExcept, Zenon
  <2> QED BY <1>2, <1>3, <2>2, <2>3, <2>4, SameStores, Zenon DEF Inv, TypeOK
<1> QED BY <1>6, <1>7, <1>8, Zenon DEF CreateListener

(* The mappers give back the allocation that was inserted. *)
LEMMA RowOfAllocation ==
  ASSUME NEW a \in Allocation
  PROVE  ToAllocation(AllocationRow(a),
                      IF a.target_port = None THEN None
                      ELSE [target_port |-> a.target_port, host |-> a.host]) = a
<1>1. CASE a.target_port = None
  <2>1. AllocationRow(a).target_port = 0 /\ TargetOfColumn(0) = None
    BY <1>1 DEF AllocationRow, ColumnOfTarget, TargetOfColumn
  <2> QED BY <1>1, <2>1, Zenon DEF ToAllocation, AllocationRow, Allocation
<1>2. CASE a.target_port # None
  <2> DEFINE b == [target_port |-> a.target_port, host |-> a.host]
  <2>1. b \in BindingRows
    BY <1>2, Zenon DEF Allocation, BindingRows
  <2>2. b # None
    BY <2>1, NoneAssumption, Zenon
  <2>3. ToAllocation(AllocationRow(a), b) = a
    BY <2>2, Zenon DEF ToAllocation, AllocationRow, Allocation
  <2> QED BY <1>2, <2>3, Zenon
<1> QED BY <1>1, <1>2, Zenon

LEMMA PersistInv == ASSUME Inv, NEW c \in Clients, Persist(c) PROVE Inv'
<1>1. pc[c] = "persist" /\ pc[c] \in LockedLabels /\ HalfDone(c)
  BY Zenon DEF Persist, LockedLabels, HalfDone
<1>2. mutation_lock = c /\ phase = "serving" /\ todo = {}
  BY <1>1, HolderServes, Zenon
<1>3. UNCHANGED <<entries, suspect, half_done>>
  BY Zenon DEF Persist, history
<1>4. /\ req[c] \in CreateRequests /\ Trying(c)
      /\ cur[c] \in Ids \ suspect
      /\ allocations[cur[c]] = None /\ entries[cur[c]] = allocation[c]
  BY <1>1, Zenon DEF Inv, HandlerInv, CreateInv
<1>5. allocation[c] \in Allocation
  BY <1>4, TryingType, Zenon
<1>6. PICK x \in Ids : x = cur[c]
  BY <1>4, Zenon
<1>7. CASE /\ IF allocation[c].target_port # None
              THEN InsertAllocationWithBinding(cur[c], allocation[c],
                     [target_port |-> allocation[c].target_port, host |-> allocation[c].host])
              ELSE InsertAllocation(cur[c], allocation[c])
           /\ Reply(c, "ok")
  <2>1. Leave(c) /\ reply' = [client |-> c, result |-> "ok"]
    BY <1>7, Zenon DEF Reply
  <2>2. /\ allocations' = [allocations EXCEPT ![x] = AllocationRow(allocation[c])]
        /\ bindings' = IF allocation[c].target_port = None THEN bindings
                       ELSE [bindings EXCEPT ![x] = [target_port |-> allocation[c].target_port,
                                                     host |-> allocation[c].host]]
    BY <1>6, <1>7, Zenon DEF InsertAllocationWithBinding, InsertAllocation, AllocationRow,
                      ColumnOfTarget
  <2>3. AllocationRow(allocation[c]) \in AllocationRows
    BY MaxPortAssumption, <1>5 DEF AllocationRow, ColumnOfTarget, Allocation, AllocationRows, Ports
  <2>4. allocation[c].target_port # None =>
          [target_port |-> allocation[c].target_port, host |-> allocation[c].host] \in BindingRows
    BY <1>5, Zenon DEF Allocation, BindingRows
  <2>5. RepositoryTypeOK' /\ RuntimeTypeOK'
    BY <1>3, <2>2, <2>3, <2>4, Zenon DEF Inv, TypeOK, RepositoryTypeOK, RuntimeTypeOK
  <2>6. ServiceTypeOK' /\ LockInv' /\ HandlerInv'
    BY <1>2, <1>3, <2>1, LeaveControl, LeaveHandlers, Zenon DEF Inv, TypeOK, ServiceTypeOK, Results
  <2>7. phase' = "serving" /\ todo' = {}
    BY <1>2, <2>1, Zenon DEF Leave
  <2>8. StartupInv'
    BY <2>7, Zenon DEF StartupInv
  <2>9. /\ allocations'[x] = AllocationRow(allocation[c])
        /\ \A id \in Ids \ {x} : allocations'[id] = allocations[id] /\ bindings'[id] = bindings[id]
        /\ bindings'[x] = IF allocation[c].target_port = None THEN None
                          ELSE [target_port |-> allocation[c].target_port,
                                host |-> allocation[c].host]
        /\ allocation[c].host = None
    <3>1. bindings[x] = None
      BY <1>2, <1>4, <1>6, Zenon DEF Inv, RowsInv, RowMirrorsBinding
    <3> QED BY NoneAssumption, <1>4, <2>2, <3>1 DEF Inv, TypeOK, RepositoryTypeOK, Trying
  <2>10. NoPortOverlap'
    <3> SUFFICES ASSUME NEW i \in ListedIds', NEW j \in ListedIds', i # j,
                        allocations'[i].port = allocations'[j].port
                 PROVE  allocations'[j].protocol \notin ConflictingProtocols(allocations'[i].protocol)
      BY Zenon DEF NoPortOverlap
    <3>1. i \in Ids /\ j \in Ids
      BY Zenon DEF ListedIds
    <3>2. AllocationRow(allocation[c]).port = allocation[c].port
          /\ AllocationRow(allocation[c]).protocol = req[c].protocol
      BY <1>4 DEF AllocationRow, Trying
    <3>3. CASE i = x
      <4>1. j \in ListedIds /\ allocations'[j] = allocations[j]
        BY <2>9, <3>1, <3>3, Zenon DEF ListedIds
      <4> QED BY <1>4, <2>9, <3>2, <3>3, <4>1, Zenon DEF Trying
    <3>4. CASE j = x
      <4>1. i \in ListedIds /\ allocations'[i] = allocations[i]
        BY <2>9, <3>1, <3>4, Zenon DEF ListedIds
      <4>2. allocations[i].protocol \notin ConflictingProtocols(req[c].protocol)
        BY <1>4, <2>9, <3>2, <3>4, <4>1 DEF Trying
      <4>3. allocations[i].protocol \in Protocols /\ req[c].protocol \in Protocols
        BY <1>4, <3>1, <4>1, Zenon
           DEF Inv, TypeOK, RepositoryTypeOK, ListedIds, AllocationRows, CreateRequests
      <4> QED BY <2>9, <3>2, <3>4, <4>1, <4>2, <4>3, Zenon DEF ConflictingProtocols, Protocols
    <3>5. CASE i # x /\ j # x
      BY <2>9, <3>1, <3>5, Zenon DEF ListedIds, Inv, RowsInv, NoPortOverlap
    <3> QED BY <3>3, <3>4, <3>5, Zenon
  <2>11. RowMirrorsBinding'
    <3> SUFFICES ASSUME NEW id \in Ids
                 PROVE  IF allocations'[id] = None THEN bindings'[id] = None
                        ELSE IF bindings'[id] = None
                             THEN allocations'[id].target_port = 0 /\ allocations'[id].host = None
                             ELSE /\ allocations'[id].target_port = bindings'[id].target_port
                                  /\ allocations'[id].host = bindings'[id].host
      BY Zenon DEF RowMirrorsBinding
    <3>1. CASE id = x
      BY MaxPortAssumption, NoneAssumption, <2>3, <2>4, <2>9, <3>1 DEF AllocationRow, ColumnOfTarget
    <3>2. CASE id # x
      BY <1>2, <2>9, <3>2 DEF Inv, RowsInv, RowMirrorsBinding
    <3> QED BY <3>1, <3>2, Zenon
  <2>12. RowsInv'
    BY <2>7, <2>10, <2>11, Zenon DEF RowsInv
  <2>13. RuntimeAgrees'
    <3>1. ToAllocation(AllocationRow(allocation[c]), bindings'[x]) = allocation[c]
      BY <1>5, <2>9, RowOfAllocation, Zenon
    <3>2. entries'[x] = GetAllocation(x)'
      BY NoneAssumption, <1>3, <1>4, <1>6, <2>3, <2>9, <3>1, Zenon DEF GetAllocation
    <3> QED BY <1>1, <1>2, <1>3, <1>6, <2>9, <3>2, AgreementExcept, Zenon
  <2> QED BY <2>5, <2>6, <2>8, <2>12, <2>13, Zenon DEF Inv, TypeOK
<1>8. CASE UNCHANGED repo /\ Goto(c, "rollback") /\ UNCHANGED locals
  <2>1. /\ pc' = [pc EXCEPT ![c] = "rollback"] /\ reply' = None
        /\ UNCHANGED <<allocations, bindings, phase, todo, mutation_lock, req,
                       next_port, cur, allocation, refused>>
    BY <1>8, Zenon DEF Goto, locals, repo
  <2>2. ServiceTypeOK'
    BY <1>3, <2>1, Zenon DEF Inv, TypeOK, ServiceTypeOK, LockedLabels
  <2>3. LockInv'
    BY <1>2, <1>8, GotoControl, Zenon DEF LockedLabels
  <2>4. CreateInv(c)' /\ ChangeInv(c)'
    <3>1. pc'[c] = "rollback"
      BY <2>1, Zenon DEF Inv, TypeOK, ServiceTypeOK
    <3>2. Trying(c)'
      BY <1>4, <2>1, Zenon DEF Trying, OccupiedPorts, ListedIds
    <3> QED BY <1>3, <1>4, <2>1, <3>1, <3>2, Zenon DEF CreateInv, ChangeInv
  <2>5. HandlerInv'
    BY <1>2, <1>8, <2>1, <2>4, GotoHandlers, Zenon DEF LockedLabels
  <2>6. RuntimeAgrees'
    <3>1. \A d \in Clients : HalfDone(d) => HalfDone(d)'
      BY <2>1, Zenon DEF HalfDone, Inv, TypeOK, ServiceTypeOK
    <3> QED BY <1>3, <2>1, <3>1, SameAgreement, Zenon
  <2> QED BY <1>2, <1>3, <2>1, <2>2, <2>3, <2>5, <2>6, SameStores, Zenon DEF Inv, TypeOK
<1> QED BY <1>7, <1>8, Zenon DEF Persist

LEMMA RollbackInv == ASSUME Inv, NEW c \in Clients, Rollback(c) PROVE Inv'
<1>1. pc[c] = "rollback" /\ pc[c] \in LockedLabels
  BY Zenon DEF Rollback, LockedLabels
<1>2. mutation_lock = c /\ phase = "serving"
  BY <1>1, HolderServes, Zenon
<1>3. cur[c] \in Ids \ suspect /\ allocations[cur[c]] = None
  BY <1>1, Zenon DEF Inv, HandlerInv, CreateInv
<1>4. PICK x \in Ids : x = cur[c]
  BY <1>3, Zenon
<1>5. Leave(c) /\ reply' = [client |-> c, result |-> "Repository"] /\ UNCHANGED <<allocations, bindings>>
  BY Zenon DEF Rollback, Reply, repo
<1>6. reply' \in [client: Clients, result: Results] \cup {None}
  BY <1>5, Zenon DEF Results
<1>7. CASE RuntimeDeleteOk(cur[c]) /\ UNCHANGED history
  <2>1. entries' = [entries EXCEPT ![x] = None] /\ UNCHANGED <<suspect, half_done>>
    BY <1>4, <1>7, Zenon DEF RuntimeDeleteOk, history
  <2>2. RuntimeTypeOK' /\ suspect' \in SUBSET Ids /\ half_done' \in 0..MaxHalfDone
    BY <2>1, Zenon DEF Inv, TypeOK, RuntimeTypeOK, ServiceTypeOK
  <2>3. entries'[x] = GetAllocation(x)'
    BY <1>3, <1>4, <1>5, <2>1, Zenon DEF Inv, TypeOK, RuntimeTypeOK, GetAllocation
  <2>4. \A id \in Ids \ {x} : entries'[id] = entries[id] /\ (id \in suspect => id \in suspect')
    BY <2>1, Zenon DEF Inv, TypeOK, RuntimeTypeOK
  <2> QED BY <1>2, <1>4, <1>5, <1>6, <2>2, <2>3, <2>4, LeaveTouched, Zenon
<1>8. CASE RuntimeDeleteErr /\ LeaveHalfDone(c)
  <2>1. /\ entries' = entries /\ suspect' = suspect \cup {x}
        /\ half_done < MaxHalfDone /\ half_done' = half_done + 1
    BY <1>4, <1>8, Zenon DEF RuntimeDeleteErr, LeaveHalfDone
  <2>2. RuntimeTypeOK' /\ suspect' \in SUBSET Ids /\ half_done' \in 0..MaxHalfDone
    BY RequestAssumption, <2>1 DEF Inv, TypeOK, RuntimeTypeOK, ServiceTypeOK
  <2> QED BY <1>2, <1>4, <1>5, <1>6, <2>1, <2>2, LeaveTouched, Zenon
<1> QED BY <1>7, <1>8, Zenon DEF Rollback
=============================================================================
