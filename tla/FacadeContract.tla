---------------------------- MODULE FacadeContract ----------------------------
(***************************************************************************)
(* The contract of RuntimeFacade as a specification: the calls that end,   *)
(* with their results, and what each leaves in the runtime.  Its actions   *)
(* are the ones AllocationService is built on; the two runtimes are shown  *)
(* to implement it.                                                        *)
(***************************************************************************)
EXTENDS RuntimeFacade

VARIABLE last  \* the last call that ended for each id, or None

Ended(op, id, a, result) ==
  last' = [last EXCEPT ![id] = [op |-> op, allocation |-> a, result |-> result]]

(* The runtime of a process that has just started serves nothing. *)
ContractInit ==
  /\ entries = NoEntries
  /\ last = [id \in Ids |-> None]

Creates(id, a) ==
  \/ Ended("create", id, a, "ok") /\ RuntimeCreateOk(id, a)
  \/ Ended("create", id, a, "err") /\ RuntimeCreateErr
  \/ Ended("create", id, a, "dropped") /\ (UNCHANGED entries \/ RuntimeCreateDropped(id, a))

Updates(id, a) ==
  \/ Ended("update", id, a, "ok") /\ RuntimeUpdateOk(id, a)
  \/ Ended("update", id, a, "err") /\ RuntimeUpdateErr(id, a)
  \/ Ended("update", id, a, "dropped") /\ RuntimeUpdateErr(id, a)

Deletes(id, a) ==
  \/ Ended("delete", id, a, "ok") /\ RuntimeDeleteOk(id)
  \/ Ended("delete", id, a, "err") /\ RuntimeDeleteErr
  \/ Ended("delete", id, a, "dropped") /\ (UNCHANGED entries \/ RuntimeDeleteDropped(id))

(* A restore that fails ends the process. *)
Restores(id, a) ==
  \/ Ended("restore", id, a, "ok") /\ RuntimeRestoreOk(id, a)
  \/ Ended("restore", id, a, "err") /\ entries' = NoEntries

(* The process ends or starts again. *)
Ends ==
  /\ entries' = NoEntries
  /\ last' = [id \in Ids |-> None]

(* A call for id ends: the allocation it was given is in last. *)
Called(id) ==
  /\ last'[id] # None
  /\ last'[id].allocation \in Allocation
  /\ LET a == last'[id].allocation
     IN  Creates(id, a) \/ Updates(id, a) \/ Deletes(id, a) \/ Restores(id, a)

ContractNext == Ends \/ \E id \in Ids : Called(id)

ContractSpec == ContractInit /\ [][ContractNext]_<<entries, last>>
=============================================================================
