------------------------------ MODULE Repository ------------------------------
(***************************************************************************)
(* The SQLite repository (storage/sqlite.rs): the tables `allocations` and *)
(* `bindings`, the transactions that change them and the query that finds  *)
(* the next free port.  The pool has one connection, so a transaction is   *)
(* one atomic step; a failing one changes nothing.  Timestamps are left    *)
(* out: no property tells them apart.                                      *)
(***************************************************************************)
EXTENDS Integers, FiniteSetsExt

CONSTANTS
  Ids,      \* allocation ids (UUIDs)
  Hosts,    \* the IP literals a binding may name
  MaxPort,  \* u16::MAX
  None      \* Option::None, and "no such row"

VARIABLES
  allocations,  \* the table allocations: [Ids -> AllocationRows or None]
  bindings      \* the table bindings: [Ids -> BindingRows or None]

Protocols == {"tcp", "udp", "both"}

(* parse_port accepts 1..65535 only. *)
Ports == 1..MaxPort

(* A row of `allocations`: an unbound one has target_port 0 and a NULL host. *)
AllocationRows ==
  [protocol: Protocols, port: Ports, target_port: 0..MaxPort, host: Hosts \cup {None}]

BindingRows == [target_port: Ports, host: Hosts \cup {None}]

(* What the rest of the program sees of a row: model.rs, Allocation. *)
Allocation ==
  [protocol: Protocols, port: Ports, target_port: Ports \cup {None}, host: Hosts \cup {None}]

(* u16::MAX is positive, and None is no port, no host and no row. *)
ASSUME MaxPortAssumption == MaxPort \in Nat \ {0}
ASSUME NoneAssumption ==
  /\ None \notin Int
  /\ None \notin Hosts
  /\ None \notin AllocationRows
  /\ None \notin BindingRows
  /\ None \notin Allocation

(* Option<u16> to the NOT NULL column, and back. *)
ColumnOfTarget(target_port) == IF target_port = None THEN 0 ELSE target_port
TargetOfColumn(column) == IF column > 0 THEN column ELSE None

(* The three mappers from a row and its joined binding to an Allocation. *)
ToAllocation(row, binding) ==
  [protocol    |-> row.protocol,
   port        |-> row.port,
   target_port |-> IF binding # None THEN binding.target_port
                                     ELSE TargetOfColumn(row.target_port),
   host        |-> IF binding # None /\ binding.host # None THEN binding.host
                                                            ELSE row.host]

(* get_allocation: the stored allocation, or None. *)
GetAllocation(id) ==
  IF allocations[id] = None THEN None ELSE ToAllocation(allocations[id], bindings[id])

(* list_allocations: the ids it returns an Allocation for. *)
ListedIds == {id \in Ids : allocations[id] # None}

-----------------------------------------------------------------------------
(* The port search. *)

(* The protocols whose rows occupy a port for `protocol`. *)
ConflictingProtocols(protocol) ==
  IF protocol = "both" THEN Protocols ELSE {protocol, "both"}

(* Mutant: occupied(port) without the rows of "both". *)
OccupiedPortsOfProtocol(protocol, start, end) ==
  {allocations[id].port : id \in
     {i \in ListedIds : allocations[i].protocol = protocol /\ allocations[i].port \in start..end}}

(* WITH occupied(port) *)
OccupiedPorts(protocol, start, end) ==
  {allocations[id].port : id \in
     {i \in ListedIds : /\ allocations[i].protocol \in ConflictingProtocols(protocol)
                        /\ allocations[i].port \in start..end}}

(* Mutant: the last port of the range is never a candidate. *)
CandidatePortsShort(occupied, start, end) ==
  {p \in {start} : start <= end} \cup {p + 1 : p \in {q \in occupied : q + 1 < end}}

(* candidate(port): the start of the range and the successor of every occupied port. *)
CandidatePorts(occupied, start, end) ==
  {p \in {start} : start <= end} \cup {p + 1 : p \in {q \in occupied : q < end}}

(* SELECT MIN(port) FROM (candidate EXCEPT occupied): NULL when there is none. *)
FindAvailablePort(protocol, start, end) ==
  LET occupied == OccupiedPorts(protocol, start, end)
      free     == CandidatePorts(occupied, start, end) \ occupied
  IN  IF free = {} THEN None ELSE Min(free)

-----------------------------------------------------------------------------
(* The transactions. *)

(* INSERT INTO allocations: refused by the primary key or the unique index on   *)
(* (protocol, port).                                                            *)
MayInsert(id, a) ==
  /\ allocations[id] = None
  /\ \A i \in ListedIds : ~ (allocations[i].protocol = a.protocol /\ allocations[i].port = a.port)

AllocationRow(a) ==
  [protocol |-> a.protocol, port |-> a.port,
   target_port |-> ColumnOfTarget(a.target_port), host |-> a.host]

(* insert_allocation *)
InsertAllocation(id, a) ==
  /\ MayInsert(id, a)
  /\ allocations' = [allocations EXCEPT ![id] = AllocationRow(a)]
  /\ UNCHANGED bindings

(* insert_allocation_with_binding: the row takes the binding's target and host. *)
InsertAllocationWithBinding(id, a, b) ==
  /\ MayInsert(id, a)
  /\ allocations' = [allocations EXCEPT ![id] =
       [protocol |-> a.protocol, port |-> a.port,
        target_port |-> b.target_port, host |-> b.host]]
  /\ bindings' = [bindings EXCEPT ![id] = b]

(* Mutant: put_binding without UPDATE allocations. *)
PutBindingOnly(id, b) ==
  /\ bindings' = [bindings EXCEPT ![id] = b]
  /\ UNCHANGED allocations

(* put_binding: upsert the binding and mirror it in the allocation's row. *)
PutBinding(id, b) ==
  /\ bindings' = [bindings EXCEPT ![id] = b]
  /\ allocations' = IF allocations[id] = None THEN allocations
                    ELSE [allocations EXCEPT ![id].target_port = b.target_port,
                                             ![id].host = b.host]

(* delete_binding, when there is one: the mirror is cleared with it. *)
DeleteBinding(id) ==
  /\ bindings[id] # None
  /\ bindings' = [bindings EXCEPT ![id] = None]
  /\ allocations' = IF allocations[id] = None THEN allocations
                    ELSE [allocations EXCEPT ![id].target_port = 0, ![id].host = None]

(* delete_allocation *)
DeleteAllocation(id) ==
  /\ bindings' = [bindings EXCEPT ![id] = None]
  /\ allocations' = [allocations EXCEPT ![id] = None]

(* migrate_legacy_bindings: every bound row without a binding gets one. *)
MigrateLegacyBindings ==
  /\ bindings' = [id \in Ids |->
       IF /\ bindings[id] = None
          /\ allocations[id] # None
          /\ allocations[id].target_port > 0
       THEN [target_port |-> allocations[id].target_port, host |-> allocations[id].host]
       ELSE bindings[id]]
  /\ UNCHANGED allocations

-----------------------------------------------------------------------------
RepositoryTypeOK ==
  /\ allocations \in [Ids -> AllocationRows \cup {None}]
  /\ bindings \in [Ids -> BindingRows \cup {None}]

(* Two allocations never share a socket: rows on one port have protocols that   *)
(* do not overlap.  This is stronger than the unique index on (protocol, port), *)
(* which lets "tcp" and "both" share a port; create_allocation must ensure it.  *)
NoPortOverlap ==
  \A i, j \in ListedIds :
    i # j /\ allocations[i].port = allocations[j].port
      => allocations[j].protocol \notin ConflictingProtocols(allocations[i].protocol)

(* The target_port and host columns of a row always repeat its binding, and are *)
(* 0 and NULL without one.  The mappers fall back on those columns when a       *)
(* binding has no host, so a stale column would bring an old host back.         *)
RowMirrorsBinding ==
  \A id \in Ids :
    IF allocations[id] = None THEN bindings[id] = None
    ELSE IF bindings[id] = None
         THEN allocations[id].target_port = 0 /\ allocations[id].host = None
         ELSE /\ allocations[id].target_port = bindings[id].target_port
              /\ allocations[id].host = bindings[id].host
=============================================================================
