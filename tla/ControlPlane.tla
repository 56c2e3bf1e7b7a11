----------------------------- MODULE ControlPlane -----------------------------
(***************************************************************************)
(* The routes that read (http/control_plane.rs), beside the ones that      *)
(* change something.  A view takes no lock: it reads the database, in one  *)
(* query or two, and afterwards asks the runtime.  So does the answer to a *)
(* change, after the change has released the lock.  A view is followed for *)
(* one allocation, as no row of a list depends on another.  The runtime is *)
(* the one of the service, RuntimeFacade, and beside it the map that       *)
(* RealRuntime::snapshot goes by, which delete clears in a step of its own.*)
(***************************************************************************)
EXTENDS AllocationService, RateCalculator, Sequences

VARIABLES
  gets,       \* what is asked for, "views" or "scrapes": they share nothing
  view,       \* the view under way, or None
  mode,       \* config.runtime_mode
  protocols,  \* the keys of RealRuntime.protocols
  begun       \* history: the ids with a row that RealRuntime was told to delete since the start

runtime == <<mode, protocols, begun>>
control_vars == <<vars, scrape_vars, gets, view, runtime>>

(* NetlinkRuntime has no rows for a scrape. *)
ControlInit ==
  /\ Init
  /\ ScrapeInit
  /\ gets \in {"views", "scrapes"}
  /\ view = None
  /\ mode \in {"proxy", "netlink"}
  /\ gets = "scrapes" => mode = "proxy"
  /\ protocols = {}
  /\ begun = {}

-----------------------------------------------------------------------------
(* RealRuntime.protocols beside the steps of the service. *)

(* Mutant: restore does not note the protocol. *)
NotedByCreate ==
  protocols' =
    IF mode = "netlink" \/ phase' = "down" THEN {}
    ELSE protocols \cup {cur[c] : c \in {c \in Clients : pc[c] = "create" /\ pc'[c] = "persist"}}

(* create and restore note the protocol last, when they return Ok; update does not. *)
Noted ==
  protocols' =
    IF mode = "netlink" \/ phase' = "down" THEN {}
    ELSE protocols \cup {cur[c] : c \in {c \in Clients : pc[c] = "create" /\ pc'[c] = "persist"}}
                   \cup (todo \ todo')

(* delete has forgotten the protocol before it stops a listener. *)
ForgottenFirst ==
  \A c \in Clients :
    (pc[c] \in {"delete", "rollback"} /\ phase' = "serving" /\ entries' # entries)
      => cur[c] \notin protocols

(* A step of the service. *)
Served ==
  /\ Noted
  /\ ForgottenFirst
  /\ begun' = IF mode = "netlink" \/ phase' = "down" THEN {}
              ELSE {id \in begun : allocations'[id] # None}
                     \cup {cur'[c] : c \in {c \in Clients : pc'[c] = "delete"}}
  /\ UNCHANGED mode

(* delete: self.protocols.lock().await.remove(id), before the await of the first half. *)
ForgetProtocol(c) ==
  /\ pc[c] \in {"delete", "rollback"}
  /\ cur[c] \in protocols
  /\ protocols' = protocols \ {cur[c]}
  /\ UNCHANGED <<vars, scrape_vars, gets, view, mode, begun>>

-----------------------------------------------------------------------------
(* A view and its history: the targets that were stored while it read, three of them at most; *)
(* whether nothing has changed or was half changed since it first looked; and whether a       *)
(* delete had been begun when it asked the runtime.                                           *)

(* What allocation_view and binding_view show of an allocation or a binding. *)
Target(a) == << a.target_port, a.host >>

(* Both stores are in agreement about the allocation, and no handler is between them. *)
Settled(id) ==
  /\ id \notin suspect
  /\ \A c \in Clients : ~ (HalfDone(c) /\ cur[c] = id)

NewView(id, at, row, target) ==
  [id |-> id, at |-> at, row |-> row, target |-> target, effective |-> None,
   stored |-> << Target(GetAllocation(id)) >>, quiet |-> Settled(id), deleting |-> FALSE]

(* How a step of a handler looks to the view. *)
Watched ==
  LET id == view.id
      now == IF allocations'[id] = None THEN None
             ELSE ToAllocation(allocations'[id], bindings'[id])
      seen == \/ now = None
              \/ Len(view.stored) = 3 \/ Target(now) = view.stored[Len(view.stored)]
      same == /\ allocations'[id] = allocations[id]
              /\ bindings'[id] = bindings[id]
              /\ entries'[id] = entries[id]
  IN  [view EXCEPT !.stored = IF view.at = "snapshot" THEN << view.target >>
                              ELSE IF seen THEN @ ELSE Append(@, Target(now)),
                   !.quiet = @ /\ same]

(* list_allocations: the rows of `allocations`. *)
ListRows(id) ==
  /\ view = None
  /\ phase = "serving"
  /\ allocations[id] # None
  /\ view' = NewView(id, "bindings", allocations[id], None)
  /\ UNCHANGED <<vars, scrape_vars, gets, runtime>>

(* Mutant: the host is always the one of the row. *)
model_to_allocation_row_host(row, binding) == [ToAllocation(row, binding) EXCEPT !.host = row.host]

(* The mapper of list_allocations. *)
model_to_allocation(row, binding) == ToAllocation(row, binding)

(* list_allocations: the rows of `bindings`, later. *)
ListBindings ==
  /\ view # None
  /\ view.at = "bindings"
  /\ view' = [view EXCEPT !.at = "snapshot", !.row = None,
                          !.target = Target(model_to_allocation(view.row, bindings[view.id]))]
  /\ UNCHANGED <<vars, scrape_vars, gets, runtime>>

(* get_allocation_view: a join. *)
GetAllocationView(id) ==
  /\ view = None
  /\ phase = "serving"
  /\ allocations[id] # None
  /\ view' = NewView(id, "snapshot", None, Target(GetAllocation(id)))
  /\ UNCHANGED <<vars, scrape_vars, gets, runtime>>

(* get_binding_view *)
GetBindingView(id) ==
  /\ view = None
  /\ phase = "serving"
  /\ bindings[id] # None
  /\ view' = NewView(id, "snapshot", None, Target(bindings[id]))
  /\ UNCHANGED <<vars, scrape_vars, gets, runtime>>

(* put_binding, create_port, set_target, update_port: binding_view_for or aggregate_view with *)
(* what the service returned, when it no longer holds the lock.                               *)
Answer(c) ==
  /\ view = None
  /\ req[c] # None
  /\ req[c].op \in {"create", "put_binding", "update"}
  /\ Persist(c) \/ UpdateListener(c)
  /\ reply' = [client |-> c, result |-> "ok"]
  /\ LET id == cur[c]
     IN  view' = [id |-> id, at |-> "snapshot", row |-> None,
                  target |-> Target(allocation[c]), effective |-> None,
                  stored |-> << Target(allocation[c]) >>, quiet |-> id \notin suspect',
                  deleting |-> FALSE]
  /\ Served
  /\ UNCHANGED <<scrape_vars, gets>>

(* What a snapshot says is in effect: the target that is active, None where the view takes  *)
(* missing_runtime_state and where the status is rejecting_no_host, of which the runtimes    *)
(* report the target differently.  RealRuntime asks its halves only for a protocol it finds. *)
observed(id) ==
  IF entries[id] = None \/ (mode = "proxy" /\ id \notin protocols) THEN None
  ELSE IF None \in {entries[id].target_port, entries[id].host} THEN None
  ELSE Target(entries[id])

(* runtime.snapshot *)
ViewSnapshot ==
  /\ view # None
  /\ view.at = "snapshot"
  /\ view' = [view EXCEPT !.at = "done", !.effective = observed(view.id),
                          !.stored = << view.target >>, !.deleting = view.id \in begun]
  /\ UNCHANGED <<vars, scrape_vars, gets, runtime>>

(* The response is sent; or the client disconnects before. *)
EndView ==
  /\ view # None
  /\ view' = None
  /\ UNCHANGED <<vars, scrape_vars, gets, runtime>>

(* A new id is a UUID that no view can know. *)
FreshToView ==
  view # None => \A c \in Clients : cur'[c] # cur[c] /\ pc'[c] = "create" => cur'[c] # view.id

(* The view ends with the process; one that is done awaits nothing more, and is sent by now. *)
Handles ==
  /\ Next
  /\ FreshToView
  /\ view' = IF view = None \/ phase' # "serving" THEN None
             ELSE IF view.at = "done" THEN None ELSE Watched
  /\ Served
  /\ UNCHANGED <<scrape_vars, gets>>

Views ==
  \/ \E id \in Ids : ListRows(id) \/ GetAllocationView(id) \/ GetBindingView(id)
  \/ ListBindings
  \/ \E c \in Clients : Answer(c)
  \/ ViewSnapshot
  \/ EndView
  \/ \E c \in Clients : ForgetProtocol(c)
  \/ Handles

Scrapes ==
  /\ ScrapeNext
  /\ UNCHANGED <<vars, gets, view, runtime>>

ControlNext ==
  \/ gets = "views" /\ Views
  \/ gets = "scrapes" /\ Scrapes

ControlSpec == ControlInit /\ [][ControlNext]_control_vars

-----------------------------------------------------------------------------
(* list_allocations reads two tables at two moments, and each may be of its own moment: a host  *)
(* of the first beside a target port of the second.  Still a target that is shown was stored     *)
(* while the view looked, unless the allocation was changed twice in between, as when its        *)
(* binding is deleted and then given a target port but no host.                                  *)
ShownWasStored ==
  (view # None /\ view.target # None /\ Len(view.stored) < 3) =>
    view.target \in Range(view.stored)

(* A view that nothing changed under shows the same target as configured and as in effect, and   *)
(* none in effect if the allocation is not bound: a difference between the two is always a       *)
(* change that came between, or an operation left half done.  Except: once RealRuntime was told  *)
(* to delete the allocation, be the delete under way or given up, the view may show nothing in   *)
(* effect, though never another target.                                                          *)
QuietViewAgrees ==
  (view # None /\ view.at = "done" /\ view.quiet) =>
    \/ view.effective = IF None \in Range(view.target) THEN None ELSE view.target
    \/ view.effective = None /\ view.deleting

(* A rate is of bytes that were carried between the moments at which the two samples were read,  *)
(* whatever the order in which concurrent scrapes calculate, whatever the clock does and however *)
(* often the listener was replaced and its counter began again.  Except: a scrape that           *)
(* calculates after one that read a later listener of the key may report bytes of before.        *)
RatesWitnessed ==
  [][\A k \in DOMAIN rates' :
       rates'[k].bytes > 0 =>
         /\ k \in DOMAIN samples
         /\ LET row == rates'[k].row
                previous == samples[k].row
            IN  row.epoch >= previous.epoch => rates'[k].bytes <= row.carried - previous.carried
    ]_control_vars

(* A listener that the scrape calculated before did not list starts at zero: no rate spans a     *)
(* scrape in which the listener was gone.                                                        *)
FirstRateIsZero ==
  [][\A k \in DOMAIN rates' : rates'[k].bytes > 0 => k \in listed]_control_vars
=============================================================================
