----------------------------- MODULE RealRuntime -----------------------------
(***************************************************************************)
(* RealRuntime (runtime/real.rs): a TCP and a UDP runtime side by side and *)
(* the map of protocols that `snapshot` goes by.  A call awaits each half, *)
(* so a reader may come between two halves and the call's future may be    *)
(* dropped there.  Of a half only its entries are kept: what they do is    *)
(* the business of TcpListener and UdpListener.                            *)
(***************************************************************************)
EXTENDS RuntimeCalls, Sequences

VARIABLES
  protocols,  \* RealRuntime.protocols: [Ids -> Protocols or None]
  tcp,        \* the entries of TcpRuntime: [Ids -> Entries or None]
  udp,        \* the entries of UdpRuntime
  call,       \* the call under way and the half it has come to, or None
  reader      \* a snapshot of a "both" allocation under way, or None

real == <<protocols, tcp, udp, call, reader>>

(* An entry: the allocation it was bound or last updated for, and whether a session has *)
(* left an error in its state.  The UDP runtime never does.                             *)
Entry(a) == [allocation |-> a, error |-> FALSE]

RuntimeEntries == [allocation: Allocation, error: BOOLEAN]

(* A call under way: the await it has come to, and the entries it began with. *)
CallStates ==
  [op: {"create", "update", "delete", "restore"}, id: Ids, allocation: Allocation,
   at: {"start", "tcp", "udp", "next", "rollback", "insert"},
   tcp: RuntimeEntries \cup {None}, udp: RuntimeEntries \cup {None}]

ASSUME RealAssumption == None \notin RuntimeEntries \cup CallStates \cup RuntimeStatus

(* TcpRuntime and UdpRuntime: nothing is in effect unless the allocation is bound. *)
entry_state_for(a) ==
  [target |-> IF Bound(a) THEN << a.host, a.target_port >> ELSE None,
   status |-> IF Bound(a) THEN "active" ELSE "rejecting_no_host"]

(* TcpRuntime::snapshot and UdpRuntime::snapshot *)
Observed(e) ==
  IF e = None THEN None ELSE [state |-> entry_state_for(e.allocation), error |-> e.error]

Observations ==
  [state: [target: (Hosts \X TargetPorts) \cup {None}, status: RuntimeStatus], error: BOOLEAN]

RealInit ==
  /\ protocols = [id \in Ids |-> None]
  /\ tcp = [id \in Ids |-> None]
  /\ udp = [id \in Ids |-> None]
  /\ call = None
  /\ reader = None

Uses(protocol, half) == protocol \in {half, "both"}

-----------------------------------------------------------------------------
(* A snapshot of a "both" allocation takes the TCP half, awaits, and takes the UDP half. *)

(* The TCP half it saw, history (see Met), and the answer: "none" is Option::None. *)
Readers ==
  [id: Ids, seen: Observations \cup {None}, met: BOOLEAN, answer: RuntimeStatus \cup {"none", None}]

(* History: since the reader took the TCP half there was a moment at which both halves *)
(* had the target that it saw, errors of sessions aside.                               *)
Met(r, t, u) ==
  \A e \in {t[r.id], u[r.id]} :
    r.seen # None /\ e # None /\ entry_state_for(e.allocation) = r.seen.state

Reader ==
  reader' = IF reader # None /\ ~ reader.met /\ Met(reader, tcp', udp')
            THEN [reader EXCEPT !.met = TRUE] ELSE reader

SnapshotTcp(id) ==
  /\ reader = None
  /\ protocols[id] = "both"
  /\ LET r == [id |-> id, seen |-> Observed(tcp[id]), met |-> FALSE, answer |-> None]
     IN  reader' = [r EXCEPT !.met = Met(r, tcp, udp)]
  /\ UNCHANGED <<protocols, tcp, udp, call, phase, last>>

(* degraded_from *)
Degraded == "degraded_apply_failed"

(* aggregate_snapshot: equal halves are reported as they are, anything else as degraded. *)
aggregate_snapshot(t, u) ==
  CASE t = None /\ u = None -> "none"
    [] t # None /\ t = u -> t.state.status
    [] OTHER -> Degraded

SnapshotUdp ==
  /\ reader # None
  /\ reader.answer = None
  /\ reader' = [reader EXCEPT !.answer = aggregate_snapshot(reader.seen, Observed(udp[reader.id]))]
  /\ UNCHANGED <<protocols, tcp, udp, call, phase, last>>

SnapshotDone ==
  /\ reader # None
  /\ reader.answer # None
  /\ reader' = None
  /\ UNCHANGED <<protocols, tcp, udp, call, phase, last>>

-----------------------------------------------------------------------------
(* The calls.  A call is at one of its awaits: call.at. *)

At(op, at) == call # None /\ call.op \in op /\ call.at = at

Goto(at) ==
  /\ call' = [call EXCEPT !.at = at]
  /\ UNCHANGED <<phase, last>>

Returns(result) ==
  /\ Return(call.op, call.id, call.allocation, result)
  /\ call' = None

Begin(op, id, a) ==
  /\ call = None
  /\ MayCall(op, id, a)
  /\ call' = [op |-> op, id |-> id, allocation |-> a, at |-> "start",
              tcp |-> tcp[id], udp |-> udp[id]]
  /\ UNCHANGED <<protocols, tcp, udp, reader, phase, last>>

(* Another entry of the runtime listens on the port. *)
Taken(entries, port) == \E id \in Ids : entries[id] # None /\ entries[id].allocation.port = port

Binds == {"create", "restore"}

(* snapshot holds the lock of protocols until its match is over; only it keeps the lock over *)
(* an await, so the others wait for it and for nobody else.                                  *)
ProtocolsFree == IF reader = None THEN TRUE ELSE reader.answer # None

(* create and restore *)
BindTcp ==
  /\ At(Binds, "start")
  /\ Uses(call.allocation.protocol, "tcp")
  /\ \/ /\ ~ Taken(tcp, call.allocation.port)
        /\ tcp' = [tcp EXCEPT ![call.id] = Entry(call.allocation)]
        /\ Goto(IF call.allocation.protocol = "both" THEN "udp" ELSE "insert")
     \/ /\ Returns("err")
        /\ UNCHANGED tcp
  /\ UNCHANGED <<protocols, udp>>

(* Mutant: the TCP half stays when the UDP half cannot be bound. *)
BindUdpNoRollback ==
  /\ At(Binds, IF call # None /\ call.allocation.protocol = "both" THEN "udp" ELSE "start")
  /\ Uses(call.allocation.protocol, "udp")
  /\ \/ /\ ~ Taken(udp, call.allocation.port)
        /\ udp' = [udp EXCEPT ![call.id] = Entry(call.allocation)]
        /\ Goto("insert")
     \/ /\ Returns("err")
        /\ UNCHANGED udp
  /\ UNCHANGED <<protocols, tcp>>

BindUdp ==
  /\ At(Binds, IF call # None /\ call.allocation.protocol = "both" THEN "udp" ELSE "start")
  /\ Uses(call.allocation.protocol, "udp")
  /\ \/ /\ ~ Taken(udp, call.allocation.port)
        /\ udp' = [udp EXCEPT ![call.id] = Entry(call.allocation)]
        /\ Goto("insert")
     \/ /\ IF call.allocation.protocol = "both" THEN Goto("rollback") ELSE Returns("err")
        /\ UNCHANGED udp
  /\ UNCHANGED <<protocols, tcp>>

RollbackTcp ==
  /\ At(Binds, "rollback")
  /\ tcp' = [tcp EXCEPT ![call.id] = None]
  /\ Returns("err")
  /\ UNCHANGED <<protocols, udp>>

InsertProtocol ==
  /\ At(Binds, "insert")
  /\ ProtocolsFree
  /\ protocols' = [protocols EXCEPT ![call.id] = call.allocation.protocol]
  /\ Returns("ok")
  /\ UNCHANGED <<tcp, udp>>

(* Mutant: UDP before TCP. *)
HalvesReversed(protocol) == IF protocol = "both" THEN << "udp", "tcp" >> ELSE << protocol >>

(* The halves that an update comes to, in order. *)
Halves(protocol) == IF protocol = "both" THEN << "tcp", "udp" >> ELSE << protocol >>

(* Mutant: an update of "both" is over after the first half. *)
UpdateHalfOnly(i) ==
  /\ At({"update"}, << "start", "next" >>[i])
  /\ \/ /\ tcp[call.id] # None
        /\ tcp' = [tcp EXCEPT ![call.id] = Entry(call.allocation)]
        /\ UNCHANGED udp
     \/ /\ tcp[call.id] = None /\ udp[call.id] # None
        /\ udp' = [udp EXCEPT ![call.id] = Entry(call.allocation)]
        /\ UNCHANGED tcp
  /\ Returns("ok")
  /\ UNCHANGED protocols

(* update: of an entry that is not there it is an error. *)
UpdateHalf(i) ==
  LET halves == Halves(call.allocation.protocol)
      Update(entries) == [entries EXCEPT ![call.id] = Entry(call.allocation)]
  IN  /\ At({"update"}, << "start", "next" >>[i])
      /\ \/ /\ (IF halves[i] = "tcp" THEN tcp ELSE udp)[call.id] = None
            /\ Returns("err")
            /\ UNCHANGED <<tcp, udp>>
         \/ /\ (IF halves[i] = "tcp" THEN tcp ELSE udp)[call.id] # None
            /\ tcp' = IF halves[i] = "tcp" THEN Update(tcp) ELSE tcp
            /\ udp' = IF halves[i] = "udp" THEN Update(udp) ELSE udp
            /\ IF i = Len(halves) THEN Returns("ok") ELSE Goto("next")
      /\ UNCHANGED protocols

(* delete: both halves are asked, whatever the protocol was. *)
DeleteProtocol ==
  /\ At({"delete"}, "start")
  /\ ProtocolsFree
  /\ protocols' = [protocols EXCEPT ![call.id] = None]
  /\ Goto("tcp")
  /\ UNCHANGED <<tcp, udp>>

DeleteTcp ==
  /\ At({"delete"}, "tcp")
  /\ tcp' = [tcp EXCEPT ![call.id] = None]
  /\ Goto("udp")
  /\ UNCHANGED <<protocols, udp>>

DeleteUdp ==
  /\ At({"delete"}, "udp")
  /\ udp' = [udp EXCEPT ![call.id] = None]
  /\ Returns("ok")
  /\ UNCHANGED <<protocols, tcp>>

(* The call's future is dropped at the await it has come to; restore_all is not a request. *)
Drop ==
  /\ call # None
  /\ call.op # "restore"
  /\ Returns("dropped")
  /\ UNCHANGED <<protocols, tcp, udp>>

(* A TCP session could not reach its target, or its copy failed. *)
SessionFails(id) ==
  /\ tcp[id] # None
  /\ Bound(tcp[id].allocation)
  /\ tcp' = [tcp EXCEPT ![id].error = TRUE]
  /\ UNCHANGED <<protocols, udp, call, phase, last>>

RealStep ==
  /\ \/ BindTcp \/ BindUdp \/ RollbackTcp \/ InsertProtocol
     \/ \E i \in 1..2 : UpdateHalf(i)
     \/ DeleteProtocol \/ DeleteTcp \/ DeleteUdp
     \/ Drop
     \/ \E id \in Ids : SessionFails(id)
  /\ Reader

RealSnapshot == SnapshotUdp \/ SnapshotDone \/ \E id \in Ids : SnapshotTcp(id)

(* The process goes, and its sockets with it. *)
RealExit ==
  /\ protocols' = [id \in Ids |-> None]
  /\ tcp' = [id \in Ids |-> None]
  /\ udp' = [id \in Ids |-> None]
  /\ call' = None
  /\ reader' = None

-----------------------------------------------------------------------------
(* The allocation that two entries serve.  When an update has come to the TCP half only, the *)
(* one of before.                                                                            *)
Serve(t, u) ==
  CASE t = None /\ u = None -> None
    [] t # None /\ u # None -> [u.allocation EXCEPT !.protocol = "both"]
    [] t # None /\ u = None -> [t.allocation EXCEPT !.protocol = "tcp"]
    [] t = None /\ u # None -> [u.allocation EXCEPT !.protocol = "udp"]

(* What the runtime serves as of the last call that ended. *)
RealServes(id) ==
  IF call # None /\ call.id = id THEN Serve(call.tcp, call.udp) ELSE Serve(tcp[id], udp[id])
=============================================================================
