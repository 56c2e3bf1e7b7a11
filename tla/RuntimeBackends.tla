---------------------------- MODULE RuntimeBackends ----------------------------
(***************************************************************************)
(* The runtime of a relayd process, which relayd.rs chooses by             *)
(* config.runtime_mode, through starts, calls, dropped calls and crashes.  *)
(***************************************************************************)
EXTENDS NetlinkRuntime, RealRuntime

CONSTANT ProxyIds  \* bound: the ids that the proxy runtime is given

ASSUME ProxyIdsAssumption == ProxyIds \subseteq Ids

VARIABLE mode  \* config.runtime_mode

vars == <<phase, last, netlink, real, mode>>

(* RuntimeMode *)
RuntimeModes == {"proxy", "netlink"}

Init ==
  /\ mode \in RuntimeModes
  /\ phase = "down"
  /\ last = Nothing
  /\ IF mode = "netlink" THEN NetlinkInit ELSE recorded = Nothing /\ stale = FALSE /\ kernel = None
  /\ RealInit

(* run_with_runtime, restore_all: the runtime is initialized first; relayd exits if it cannot. *)
Initialize ==
  \E ok \in BOOLEAN :
    /\ Started(ok)
    /\ CASE mode = "proxy" -> ok /\ UNCHANGED netlink
         [] mode = "netlink" -> IF ok THEN NetlinkInitialize(TRUE)
                                      ELSE /\ send_and_process(replace_ruleset(<< >>), FALSE)
                                           /\ UNCHANGED <<recorded, stale>>
    /\ UNCHANGED <<real, mode>>

Serves ==
  /\ StartServing
  /\ call = None
  /\ UNCHANGED <<netlink, real, mode>>

(* A call of the netlink runtime. *)
NetlinkCalled ==
  /\ mode = "netlink"
  /\ \E op \in {"create", "update", "delete", "restore"}, id \in Ids, a \in Allocation, ok \in BOOLEAN :
       /\ MayCall(op, id, a)
       /\ Return(op, id, a, IF ok THEN "ok" ELSE "err")
       /\ NetlinkCall(op, id, a, ok)
  /\ UNCHANGED <<real, mode>>

(* A call of the proxy runtime begins, comes to its next await, or ends. *)
RealCalled ==
  /\ mode = "proxy"
  /\ \/ \E op \in {"create", "update", "delete", "restore"}, id \in ProxyIds, a \in Allocation :
          Begin(op, id, a)
     \/ RealStep
     \/ RealSnapshot
  /\ UNCHANGED <<netlink, mode>>

Crash ==
  /\ Crashed
  /\ RealExit
  /\ NetlinkExit
  /\ UNCHANGED mode

Next == Initialize \/ Serves \/ NetlinkCalled \/ RealCalled \/ Crash

Spec == Init /\ [][Next]_vars

-----------------------------------------------------------------------------
TypeOK ==
  /\ mode \in RuntimeModes
  /\ phase \in {"down", "restoring", "serving", "exiting"}
  /\ last \in [Ids -> Calls \cup {None}]
  /\ recorded \in [Ids -> Allocation \cup {None}]
  /\ stale \in BOOLEAN
  /\ protocols \in [Ids -> Protocols \cup {None}]
  /\ tcp \in [Ids -> RuntimeEntries \cup {None}]
  /\ udp \in [Ids -> RuntimeEntries \cup {None}]
  /\ call \in CallStates \cup {None}
  /\ reader \in Readers \cup {None}

(* What the runtime serves under each id. *)
Served ==
  [id \in Ids |-> IF ~ Alive THEN None
                  ELSE IF mode = "netlink" THEN recorded[id] ELSE RealServes(id)]

Contract == INSTANCE FacadeContract WITH entries <- Served, allocations <- Nothing,
                                         bindings <- Nothing

(* Both runtimes keep the contract that the service relies on: a create that fails leaves  *)
(* nothing behind, the TCP listener of a "both" whose UDP port is taken included; a failed  *)
(* delete leaves everything; a call that is dropped leaves what RuntimeFacade says.         *)
Implements == Contract!ContractSpec

(* After a call of RealRuntime that returned Ok the halves are exactly what it asked for,    *)
(* whatever calls were dropped before it.  Only the protocol of an updated allocation may be *)
(* missing: a dropped delete has removed it and nothing puts it back.                        *)
OkExact ==
  \A id \in Ids :
    (mode = "proxy" /\ Alive /\ call = None /\ last[id] # None /\ last[id].result = "ok") =>
      LET a == last[id].allocation
          wanted(half) == last[id].op # "delete" /\ Uses(a.protocol, half)
      IN  /\ tcp[id] = None \/ tcp[id].allocation = a
          /\ udp[id] = None \/ udp[id].allocation = a
          /\ tcp[id] # None <=> wanted("tcp")
          /\ udp[id] # None <=> wanted("udp")
          /\ CASE last[id].op = "delete" -> protocols[id] = None
               [] last[id].op = "update" -> protocols[id] \in {a.protocol, None}
               [] OTHER -> protocols[id] = a.protocol

(* "When both concrete snapshots agree, return that state": what an Ok create, restore or     *)
(* update of a "both" allocation has put in effect in both halves is what snapshot returns.   *)
OkReported ==
  \A id \in Ids :
    (/\ mode = "proxy" /\ Alive /\ call = None
     /\ last[id] # None /\ last[id].result = "ok" /\ last[id].op # "delete"
     /\ tcp[id] # None /\ Observed(tcp[id]) = Observed(udp[id])) => protocols[id] = "both"

(* A snapshot of a "both" allocation that is not degraded tells the truth, although it reads   *)
(* the halves one after the other while updates go on and are dropped half way: at some moment *)
(* while it read, both halves were as it says.  update and snapshot both take TCP first.       *)
SnapshotWitnessed ==
  (reader # None /\ reader.answer \in {"active", "rejecting_no_host"}) => reader.met

(* Unless the chain is marked as stale, and whenever an allocation is reported as active, the  *)
(* kernel sends every packet where the recorded allocations say: to the target of the first    *)
(* allocation with the packet's family, protocol and port, and nowhere if there is none or the  *)
(* packet is not for this host.  Rules that were applied and not acknowledged in time, and      *)
(* those of an earlier process, are included.                                                   *)
DispatchExact ==
  (/\ mode = "netlink"
   /\ Alive
   /\ ~ stale \/ \E id \in Ids : recorded[id] # None /\ NetlinkSnapshot(id).status = "active")
  => \A packet \in Packets : KernelDispatch(kernel, packet) = Expected(recorded, packet)
=============================================================================
