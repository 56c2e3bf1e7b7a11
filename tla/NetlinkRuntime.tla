---------------------------- MODULE NetlinkRuntime ----------------------------
(***************************************************************************)
(* NetlinkRuntime (runtime/netlink.rs): the allocations it has recorded,   *)
(* the mark that the chain may be stale, and the chain in the kernel,      *)
(* which outlives the process.  No operation awaits: each is one step, and *)
(* its future cannot be dropped half way.                                  *)
(***************************************************************************)
EXTENDS NftChain

VARIABLES
  recorded,  \* NetlinkState.allocations: [Ids -> Allocation or None]
  stale,     \* NetlinkState.stale_error is Some
  kernel     \* the rules of the chain, None when there is no chain

netlink == <<recorded, stale, kernel>>

Nothing == [id \in Ids |-> None]

(* What an earlier process may have left in the chain. *)
NetlinkInit ==
  /\ recorded = Nothing
  /\ stale = FALSE
  /\ \E id \in Ids, a \in Allocation :
       kernel \in {None, KernelBatch(None, replace_ruleset(RulesOf(id, a)))}

(* send_and_process: the deadline passes before the whole batch is sent, or the kernel     *)
(* refuses it, and nothing is applied; it is applied and acknowledged; or it is applied     *)
(* and the deadline passes before every acknowledgement is read, which is an error as well. *)
send_and_process(batch, ok) ==
  IF ok THEN kernel' = KernelBatch(kernel, batch)
        ELSE kernel' \in {kernel, KernelBatch(kernel, batch)}

(* apply_rules, then mark_fresh or mark_stale *)
apply_rules(candidate, ok) ==
  /\ send_and_process(replace_ruleset(rules_for_allocations(candidate)), ok)
  /\ stale' = ~ ok

project_upsert(id, a) == [recorded EXCEPT ![id] = a]
project_delete(id) == [recorded EXCEPT ![id] = None]

(* initialize: a new process has recorded nothing. *)
NetlinkInitialize(ok) ==
  /\ apply_rules(recorded, ok)
  /\ UNCHANGED recorded

(* create: a failed one is not recorded. *)
NetlinkCreate(id, a, ok) ==
  /\ apply_rules(project_upsert(id, a), ok)
  /\ recorded' = IF ok THEN project_upsert(id, a) ELSE recorded

(* update and restore: recorded whether or not the rules were applied. *)
NetlinkUpdate(id, a, ok) ==
  /\ apply_rules(project_upsert(id, a), ok)
  /\ recorded' = project_upsert(id, a)

NetlinkRestore(id, a, ok) == NetlinkUpdate(id, a, ok)

(* delete: a failed one stays recorded. *)
NetlinkDelete(id, ok) ==
  /\ apply_rules(project_delete(id), ok)
  /\ recorded' = IF ok THEN project_delete(id) ELSE recorded

NetlinkCall(op, id, a, ok) ==
  \/ op = "create" /\ NetlinkCreate(id, a, ok)
  \/ op = "update" /\ NetlinkUpdate(id, a, ok)
  \/ op = "delete" /\ NetlinkDelete(id, ok)
  \/ op = "restore" /\ NetlinkRestore(id, a, ok)

(* The memory of the process goes, the chain stays. *)
NetlinkExit ==
  /\ recorded' = Nothing
  /\ stale' = FALSE
  /\ UNCHANGED kernel

(* What is observed of an allocation that is not bound is its configuration. *)
observed_state_for(a) ==
  [target |-> << a.host, a.target_port >>,
   status |-> IF Bound(a) THEN "active" ELSE "rejecting_no_host"]

(* snapshot: while the chain may be stale no bound allocation is reported as active. *)
NetlinkSnapshot(id) ==
  LET a == recorded[id]
  IN  IF a = None THEN None
      ELSE IF Bound(a) /\ stale
      THEN [observed_state_for(a) EXCEPT !.status = "degraded_apply_failed"]
      ELSE observed_state_for(a)
=============================================================================
