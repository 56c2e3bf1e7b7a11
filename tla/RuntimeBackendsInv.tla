-------------------------- MODULE RuntimeBackendsInv --------------------------
(***************************************************************************)
(* The inductive invariant of RuntimeBackends: how far each call of        *)
(* RealRuntime has come, what a call that ended has left, what a reader    *)
(* may still meet, and what the chain of NetlinkRuntime holds.             *)
(***************************************************************************)
EXTENDS RuntimeBackends

Same(e, f) == (e = None <=> f = None) /\ (e # None => e.allocation = f.allocation)

(* The halves are of a's protocol.  Delete takes TCP first, so TCP of "both" is never alone. *)
Fits(t, u, a) ==
  /\ t # None => Uses(a.protocol, "tcp") /\ t.allocation.protocol = a.protocol
  /\ u # None => Uses(a.protocol, "udp") /\ u.allocation.protocol = a.protocol
  /\ a.protocol = "both" /\ t # None => u # None

(* The halves are what was asked for. *)
Exact(t, u, a) ==
  /\ t # None <=> Uses(a.protocol, "tcp")
  /\ u # None <=> Uses(a.protocol, "udp")
  /\ t # None => t.allocation = a
  /\ u # None => u.allocation = a

(* What the last call for id has left: nothing before the first call; a stored allocation has  *)
(* only halves that fit it; after Ok the halves are exact.                                     *)
Settled(id) ==
  /\ last[id] = None => tcp[id] = None /\ udp[id] = None
  /\ Row(id) # None => Fits(tcp[id], udp[id], Row(id))
  /\ (last[id] # None /\ last[id].result = "ok") =>
       IF last[id].op = "delete"
       THEN tcp[id] = None /\ udp[id] = None /\ protocols[id] = None
       ELSE /\ Exact(tcp[id], udp[id], last[id].allocation)
            /\ last[id].op # "update" => protocols[id] = last[id].allocation.protocol

(* create and restore, at each await. *)
Binding(a, at, t, u) ==
  /\ at \in {"start", "udp", "rollback", "insert"}
  /\ at = "start" => t = None /\ u = None
  /\ at \in {"udp", "rollback"} => a.protocol = "both" /\ t # None /\ t.allocation = a /\ u = None
  /\ at = "insert" => Exact(t, u, a)

(* update, at each await; t0 and u0 are the entries it began with. *)
Updating(a, at, t, u, t0, u0) ==
  /\ at \in {"start", "next"}
  /\ Same(u, u0)
  /\ Fits(t, u, a)
  /\ at = "start" => Same(t, t0)
  /\ at = "next" => /\ a.protocol = "both"
                    /\ t0 # None /\ t # None /\ t.allocation = a

(* delete, at each await; p is the protocol in the map. *)
Deleting(a, at, t, u, t0, u0, p) ==
  /\ at \in {"start", "tcp", "udp"}
  /\ Same(u, u0)
  /\ Fits(t0, u0, a)
  /\ at \in {"start", "tcp"} => Same(t, t0)
  /\ at = "udp" => t = None
  /\ at # "start" => p = None

(* The call under way. *)
CallInv ==
  call # None =>
    LET id == call.id
        a == call.allocation
    IN  /\ mode = "proxy"
        /\ phase = IF call.op = "restore" THEN "restoring" ELSE "serving"
        /\ call.op \in Binds => /\ last[id] = None /\ call.tcp = None /\ call.udp = None
                                /\ Binding(a, call.at, tcp[id], udp[id])
        /\ call.op = "update" => /\ Row(id) # None /\ a.protocol = Row(id).protocol
                                 /\ Updating(a, call.at, tcp[id], udp[id], call.tcp, call.udp)
        /\ call.op = "delete" => /\ Row(id) = a
                                 /\ Deleting(a, call.at, tcp[id], udp[id], call.tcp, call.udp,
                                             protocols[id])

(* A protocol in the map is the one of the last call's allocation. *)
ProtocolsInv ==
  \A id \in Ids : protocols[id] # None =>
    last[id] # None /\ protocols[id] = last[id].allocation.protocol

(* Outside its life the process holds nothing; in netlink mode there is no RealRuntime. *)
PhaseInv ==
  /\ phase = "down" => last = Nothing /\ recorded = Nothing
  /\ phase \in {"down", "exiting"} => call = None
  /\ mode = "netlink" => protocols = Nothing /\ call = None /\ reader = None

(* The UDP half has not come to what the reader saw unless both halves were there together. *)
ReaderInv ==
  reader # None =>
    /\ last[reader.id] # None /\ last[reader.id].allocation.protocol = "both"
    /\ (reader.seen # None /\ ~ reader.met) =>
         LET u == udp[reader.id] IN u = None \/ entry_state_for(u.allocation) # reader.seen.state
    /\ SnapshotWitnessed

(* All that concerns the calls. *)
CallsInv ==
  /\ TypeOK
  /\ \A id \in Ids : (mode = "proxy" /\ (call = None \/ call.id # id)) => Settled(id)
  /\ CallInv
  /\ ProtocolsInv
  /\ PhaseInv
  /\ ReaderInv

(* A chain that is not marked as stale holds the rules of what is recorded, and no others. *)
ChainInv ==
  (mode = "netlink" /\ Alive /\ ~ stale) =>
    kernel = KernelBatch(None, replace_ruleset(rules_for_allocations(recorded)))

(* The whole of it: what the awaits of RealRuntime's calls, the map of protocols and a reader *)
(* between two halves leave, in runtime/real.rs, and the chain of runtime/netlink.rs.         *)
BackendsInv == CallsInv /\ ChainInv
=============================================================================
