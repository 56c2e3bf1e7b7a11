---------------------------- MODULE RuntimeFacade ----------------------------
(***************************************************************************)
(* The contract of the trait RuntimeFacade (runtime/facade.rs) as the      *)
(* service relies on it: which allocation the runtime serves under each    *)
(* id, and what each call may leave behind.  Every call may fail.  A       *)
(* failing create or delete leaves the entry as it was; a failing update   *)
(* or restore may still have recorded the new entry, as the netlink        *)
(* runtime does.  So may a call whose future is dropped at one of its      *)
(* awaits, or half of it when RealRuntime serves TCP and UDP.              *)
(***************************************************************************)
EXTENDS Repository

VARIABLE entries  \* what the runtime serves: [Ids -> Allocation or None]

NoEntries == [id \in Ids |-> None]

RuntimeTypeOK == entries \in [Ids -> Allocation \cup {None}]

(* create, Ok(()) *)
RuntimeCreateOk(id, a) == entries' = [entries EXCEPT ![id] = a]

(* create, Err(RuntimeCreateFailed) or another error: nothing is left behind. *)
RuntimeCreateErr == UNCHANGED entries

(* update, Ok(()) *)
RuntimeUpdateOk(id, a) == entries' = [entries EXCEPT ![id] = a]

(* update, Err(_) *)
RuntimeUpdateErr(id, a) == UNCHANGED entries \/ entries' = [entries EXCEPT ![id] = a]

(* delete, Ok(()): also when there was no entry. *)
RuntimeDeleteOk(id) == entries' = [entries EXCEPT ![id] = None]

(* delete, Err(_) *)
RuntimeDeleteErr == UNCHANGED entries

(* The listeners of protocol p that a "both" allocation has without the other. *)
Half(a, p) ==
  IF a # None /\ a.protocol = "both" THEN {[a EXCEPT !.protocol = p]} ELSE {}

(* A create whose future is dropped: RealRuntime has bound TCP and not yet UDP, or all *)
(* of it and not yet noted the protocol.                                               *)
RuntimeCreateDropped(id, a) ==
  \E left \in {a} \cup Half(a, "tcp") : entries' = [entries EXCEPT ![id] = left]

(* A delete whose future is dropped: all or, for RealRuntime, TCP has been stopped. *)
RuntimeDeleteDropped(id) ==
  \E left \in {None} \cup Half(entries[id], "udp") : entries' = [entries EXCEPT ![id] = left]

(* restore, Ok(()) *)
RuntimeRestoreOk(id, a) == entries' = [entries EXCEPT ![id] = a]
=============================================================================
