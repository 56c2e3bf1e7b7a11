----------------------------- MODULE RuntimeCalls -----------------------------
(***************************************************************************)
(* What the two runtimes behind RuntimeFacade have in common: the          *)
(* allocations they are given, what they report of one, and the calls that *)
(* the service makes.  relayd.rs initializes the runtime, restores the     *)
(* stored allocations and only then serves requests; the mutation lock     *)
(* lets one call at a time through.                                        *)
(***************************************************************************)
EXTENDS Integers

CONSTANTS
  MaxId,        \* allocation ids are 1..MaxId, ordered as their strings are
  Hosts,        \* the IP literals a binding may name
  MaxPort,      \* u16::MAX
  PortRange,    \* the ports of allocations
  TargetPorts,  \* the ports of targets
  None

VARIABLES
  phase,  \* the process: "down", "restoring", "serving" or "exiting"
  last    \* the last call that ended for each id, or None

Ids == 1..MaxId
Ports == 1..MaxPort
Protocols == {"tcp", "udp", "both"}

Allocation ==
  [protocol: Protocols, port: PortRange, target_port: TargetPorts \cup {None},
   host: Hosts \cup {None}]

(* The RuntimeStatus values that a runtime reports. *)
RuntimeStatus == {"active", "rejecting_no_host", "degraded_apply_failed"}

(* Host and target port are Some. *)
Bound(a) == a.host # None /\ a.target_port # None

-----------------------------------------------------------------------------
(* The calls of the service. *)

Results == {"ok", "err", "dropped"}

Calls ==
  [op: {"create", "update", "delete", "restore"}, allocation: Allocation, result: Results]

ASSUME CallsAssumption ==
  /\ {MaxId, MaxPort} \subseteq Nat
  /\ PortRange \cup TargetPorts \subseteq 1..MaxPort
  /\ None \notin Hosts \cup Int \cup Protocols \cup Allocation \cup Calls

(* The row the service has stored after a call.  A binding is stored before the runtime is *)
(* updated, a row is deleted after the runtime has let go of it.                            *)
Stored(c) ==
  /\ c # None
  /\ \/ c.op \in {"create", "restore"} /\ c.result = "ok"
     \/ c.op = "update"
     \/ c.op = "delete" /\ c.result # "ok"

RowOf(c) == IF Stored(c) THEN c.allocation ELSE None

Row(id) == RowOf(last[id])

(* An id is a new UUID, and a new allocation has no host. *)
MayCreate(id, a) == phase = "serving" /\ last[id] = None /\ a.host = None

(* Only the binding changes. *)
MayUpdate(id, a) ==
  /\ phase = "serving"
  /\ Row(id) # None
  /\ a.protocol = Row(id).protocol
  /\ a.port = Row(id).port

MayDelete(id, a) == phase = "serving" /\ Row(id) # None /\ a = Row(id)

MayRestore(id) == phase = "restoring" /\ last[id] = None

(* A host comes with a target port. *)
MayCall(op, id, a) ==
  /\ a.host # None => a.target_port # None
  /\ \/ op = "create" /\ MayCreate(id, a)
     \/ op = "update" /\ MayUpdate(id, a)
     \/ op = "delete" /\ MayDelete(id, a)
     \/ op = "restore" /\ MayRestore(id)

(* The call returns, or its future is dropped; a failed restore ends the process. *)
Return(op, id, a, result) ==
  /\ last' = [last EXCEPT ![id] = [op |-> op, allocation |-> a, result |-> result]]
  /\ phase' = IF op = "restore" /\ result # "ok" THEN "exiting" ELSE phase

(* restore_all is over. *)
StartServing ==
  /\ phase = "restoring"
  /\ phase' = "serving"
  /\ UNCHANGED last

Alive == phase \in {"restoring", "serving"}

(* The process starts anew. *)
Started(ok) ==
  /\ phase = "down"
  /\ phase' = IF ok THEN "restoring" ELSE "down"
  /\ last' = [id \in Ids |-> None]

(* The process has to exit, or crashes. *)
Crashed ==
  /\ phase # "down"
  /\ phase' = "down"
  /\ last' = [id \in Ids |-> None]
=============================================================================
