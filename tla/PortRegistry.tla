----------------------------- MODULE PortRegistry -----------------------------
(***************************************************************************)
(* What the control plane promises of its registry of allocations, without *)
(* locks, tables, failures or restarts: allocations appear on a port that  *)
(* no overlapping allocation holds, are bound and unbound any number of    *)
(* times without ever changing protocol or port, and are removed whole.    *)
(* Each of these is one atomic step.                                       *)
(***************************************************************************)
EXTENDS Integers

CONSTANTS Ids, Hosts, Ports, PortRange, None

VARIABLE registry  \* [Ids -> allocation or None]

Overlap(p, q) == p = q \/ p = "both" \/ q = "both"

(* Nothing in the registry r overlaps protocol on port, except possibly id. *)
Free(r, id, protocol, port) ==
  \A other \in Ids \ {id} :
    r[other] # None => ~ (r[other].port = port /\ Overlap(protocol, r[other].protocol))

Init ==
  \A id \in Ids : registry[id] # None => Free(registry, id, registry[id].protocol, registry[id].port)

Create(id) ==
  /\ registry[id] = None
  /\ \E protocol \in {"tcp", "udp", "both"}, port \in PortRange, target_port \in Ports \cup {None} :
       /\ Free(registry, id, protocol, port)
       /\ registry' = [registry EXCEPT ![id] =
            [protocol |-> protocol, port |-> port, target_port |-> target_port, host |-> None]]

Bind(id) ==
  /\ registry[id] # None
  /\ \E target_port \in Ports, host \in Hosts \cup {None} :
       registry' = [registry EXCEPT ![id].target_port = target_port, ![id].host = host]

Unbind(id) ==
  /\ registry[id] # None
  /\ registry' = [registry EXCEPT ![id].target_port = None, ![id].host = None]

Remove(id) ==
  /\ registry[id] # None
  /\ registry' = [registry EXCEPT ![id] = None]

Next == \E id \in Ids : Create(id) \/ Bind(id) \/ Unbind(id) \/ Remove(id)

Spec == Init /\ [][Next]_registry
=============================================================================
