------------------------ MODULE RuntimeBackends_proofs ------------------------
(***************************************************************************)
(* Both runtimes implement the contract of RuntimeFacade, what a call and  *)
(* a snapshot of RealRuntime say is so, and the chain of NetlinkRuntime    *)
(* dispatches as recorded, for any allocations and ports.                  *)
(***************************************************************************)
EXTENDS RuntimeBackendsInv, NftChain_proofs

MaybeEntry == RuntimeEntries \cup {None}

(* Entries for the same allocations serve the same. *)
LEMMA ServeSame ==
  ASSUME NEW t, NEW u, NEW t2, NEW u2, Same(t, t2), Same(u, u2)
  PROVE  Serve(t, u) = Serve(t2, u2)
BY Zenon DEF Same, Serve

(* Halves that are exactly what was asked for serve it. *)
LEMMA ServeExact ==
  ASSUME NEW t, NEW u, NEW a \in Allocation, Exact(t, u, a)
  PROVE  Serve(t, u) = a
<1>1. a.protocol \in Protocols /\ a = [a EXCEPT !.protocol = a.protocol]
  BY Zenon DEF Allocation
<1>2. CASE a.protocol = "both"
  <2>1. t # None /\ u # None /\ u.allocation = a
    BY <1>2, Zenon DEF Exact, Uses
  <2>. QED  BY <1>1, <1>2, <2>1, Zenon DEF Serve
<1>3. CASE a.protocol = "tcp"
  <2>1. t # None /\ u = None /\ t.allocation = a
    BY <1>3, Zenon DEF Exact, Uses
  <2>. QED  BY <1>1, <1>3, <2>1, Zenon DEF Serve
<1>4. CASE a.protocol = "udp"
  <2>1. t = None /\ u # None /\ u.allocation = a
    BY <1>4, Zenon DEF Exact, Uses
  <2>. QED  BY <1>1, <1>4, <2>1, Zenon DEF Serve
<1>. QED  BY <1>1, <1>2, <1>3, <1>4, Zenon DEF Protocols

(* The allocation is stored after the call. *)
Kept(op, result) ==
  \/ op \in Binds /\ result = "ok"
  \/ op = "update"
  \/ op = "delete" /\ result # "ok"

(* What is stored after a call depends on its last record alone. *)
LEMMA RowAfter ==
  ASSUME TypeOK, NEW op \in {"create", "update", "delete", "restore"}, NEW id \in Ids,
         NEW a \in Allocation, NEW result \in Results, Return(op, id, a, result)
  PROVE  /\ last' \in [Ids -> Calls \cup {None}]
         /\ last'[id] # None
         /\ last'[id].op = op /\ last'[id].allocation = a /\ last'[id].result = result
         /\ RowOf(last'[id]) \in {a, None}
         /\ RowOf(last'[id]) # None <=> Kept(op, result)
         /\ \A j \in Ids \ {id} : last'[j] = last[j]
<1>. DEFINE c == [op |-> op, allocation |-> a, result |-> result]
<1>1. c \in Calls /\ c # None /\ a # None
  BY CallsAssumption DEF Calls
<1>2. c.op = op /\ c.allocation = a /\ c.result = result
  OBVIOUS
<1>3. last' = [last EXCEPT ![id] = c]
  BY Zenon DEF Return
<1>. HIDE DEF c
<1>4. last' \in [Ids -> Calls \cup {None}] /\ last'[id] = c
  BY <1>1, <1>3, Zenon DEF TypeOK
<1>5. \A j \in Ids \ {id} : last'[j] = last[j]
  BY <1>3, Zenon DEF TypeOK
<1>6. /\ RowOf(last'[id]) \in {a, None}
      /\ RowOf(last'[id]) # None <=> Kept(op, result)
  BY <1>1, <1>2, <1>4, Zenon DEF RowOf, Stored, Binds, Kept
<1>. QED  BY <1>1, <1>2, <1>4, <1>5, <1>6, Zenon

(* A step changes the halves and the protocol of one id, and a reader looks on. *)
Moved(id, t, u, p) ==
  /\ tcp' \in [Ids -> MaybeEntry]
  /\ udp' \in [Ids -> MaybeEntry]
  /\ protocols' \in [Ids -> Protocols \cup {None}]
  /\ tcp'[id] = t /\ udp'[id] = u /\ protocols'[id] = p
  /\ \A j \in Ids \ {id} : tcp'[j] = tcp[j] /\ udp'[j] = udp[j] /\ protocols'[j] = protocols[j]
  /\ Reader
  /\ UNCHANGED <<recorded, stale, mode>>

(* The UDP half changes for the reader only when it goes or when it joins the TCP half. *)
Joins(t, u, u0) == u = u0 \/ u = None \/ (t # None /\ t.allocation = u.allocation)

LEMMA ReaderKeeps ==
  ASSUME TypeOK, ReaderInv, Reader, udp' \in [Ids -> MaybeEntry],
         \A i \in Ids : (last[i] # None /\ last[i].allocation.protocol = "both") =>
           /\ Joins(tcp'[i], udp'[i], udp[i])
           /\ last'[i] # None /\ last'[i].allocation.protocol = "both"
  PROVE  ReaderInv' /\ reader' \in Readers \cup {None}
<1>1. CASE reader = None
  <2>1. reader' = None
    BY <1>1, Zenon DEF Reader
  <2>. QED  BY <2>1, Zenon DEF ReaderInv
<1>2. CASE reader # None
  <2>. DEFINE met == reader.met \/ Met(reader, tcp', udp')
              i == reader.id
  <2>1. reader \in Readers /\ i \in Ids /\ reader.met \in BOOLEAN
    BY <1>2, Zenon DEF TypeOK, Readers
  <2>2. /\ reader' \in Readers /\ reader'.id = i /\ reader'.seen = reader.seen
        /\ reader'.answer = reader.answer /\ reader'.met = met
    BY <1>2, <2>1, Zenon DEF Reader, Readers
  <2>3. /\ last[i] # None
        /\ last'[i] # None /\ last'[i].allocation.protocol = "both"
        /\ Joins(tcp'[i], udp'[i], udp[i])
    BY <1>2, <2>1, Zenon DEF ReaderInv
  <2>4. ASSUME reader.seen # None, ~ met, udp'[i] # None,
               entry_state_for(udp'[i].allocation) = reader.seen.state
        PROVE  FALSE
    <3>1. CASE udp'[i] = udp[i]
      BY <1>2, <2>1, <2>4, <3>1, Zenon DEF ReaderInv
    <3>2. CASE tcp'[i] # None /\ tcp'[i].allocation = udp'[i].allocation
      BY <2>4, <3>2, Zenon DEF Met
    <3>. QED  BY <2>3, <2>4, <3>1, <3>2, Zenon DEF Joins
  <2>5. reader'.answer \in {"active", "rejecting_no_host"} => reader'.met
    BY <1>2, <2>2, Zenon DEF ReaderInv, SnapshotWitnessed
  <2>. QED  BY <2>2, <2>3, <2>4, <2>5, Zenon DEF ReaderInv, SnapshotWitnessed
<1>. QED  BY <1>1, <1>2, Zenon

(* Every call has an id and an allocation. *)
LEMMA CallTyped ==
  ASSUME TypeOK, call # None
  PROVE  /\ call \in CallStates
         /\ call.op \in {"create", "update", "delete", "restore"}
         /\ call.id \in Ids /\ call.allocation \in Allocation
         /\ call.tcp \in MaybeEntry /\ call.udp \in MaybeEntry
BY Zenon DEF TypeOK, CallStates, MaybeEntry

(* An id is created or restored once, and later calls for it are of its protocol. *)
LEMMA CallAfterLast ==
  ASSUME CallsInv, call # None
  PROVE  /\ call.op \in Binds <=> last[call.id] = None
         /\ last[call.id] # None => last[call.id].allocation.protocol = call.allocation.protocol
<1>. DEFINE id == call.id
            a == call.allocation
<1>1. a \in Allocation /\ call.op \in {"create", "update", "delete", "restore"}
  BY CallTyped, Zenon DEF CallsInv
<1>2. call.op \in Binds => last[id] = None
  BY Zenon DEF CallsInv, CallInv
<1>3. call.op \notin Binds => Row(id) # None /\ Row(id).protocol = a.protocol
  BY <1>1, CallsAssumption, Zenon DEF CallsInv, CallInv, Binds
<1>4. Row(id) # None => last[id] # None /\ last[id].allocation = Row(id)
  BY Zenon DEF Row, RowOf, Stored
<1>. QED  BY <1>2, <1>3, <1>4, Zenon

(* A call comes to its next await: nothing has ended and what is served stays as it was. *)
LEMMA GotoKeeps ==
  ASSUME CallsInv, call # None, NEW t, NEW u, NEW p,
         NEW at \in {"start", "tcp", "udp", "next", "rollback", "insert"},
         Moved(call.id, t, u, p), Goto(at),
         p \in {protocols[call.id], None},
         call.op \in Binds \/ call.allocation.protocol # "both" \/ Joins(t, u, udp[call.id]),
         call.op \in Binds => Binding(call.allocation, at, t, u),
         call.op = "update" => Updating(call.allocation, at, t, u, call.tcp, call.udp),
         call.op = "delete" => Deleting(call.allocation, at, t, u, call.tcp, call.udp, p)
  PROVE  CallsInv' /\ Served' = Served /\ UNCHANGED last
<1>. DEFINE id == call.id
<1>1. TypeOK /\ call \in CallStates /\ id \in Ids
  BY CallTyped, Zenon DEF CallsInv
<1>2. /\ call' \in CallStates /\ call' # None
      /\ call'.op = call.op /\ call'.id = call.id /\ call'.allocation = call.allocation
      /\ call'.at = at /\ call'.tcp = call.tcp /\ call'.udp = call.udp
      /\ UNCHANGED <<phase, last>>
  BY <1>1, RealAssumption, Zenon DEF Goto, CallStates
<1>3. ReaderInv' /\ reader' \in Readers \cup {None}
  <2>1. \A i \in Ids : (last[i] # None /\ last[i].allocation.protocol = "both")
                         => Joins(tcp'[i], udp'[i], udp[i])
    BY <1>1, CallAfterLast, Zenon DEF Moved, Joins
  <2>. QED  BY <1>1, <1>2, <2>1, ReaderKeeps, Zenon DEF CallsInv, Moved
<1>4. TypeOK'
  BY <1>1, <1>2, <1>3, Zenon DEF TypeOK, Moved, MaybeEntry
<1>5. \A j \in Ids : Row(j)' = Row(j)
  BY <1>2, Zenon DEF Row
<1>6. \A j \in Ids : (mode' = "proxy" /\ (call' = None \/ call'.id # j)) => Settled(j)'
  BY <1>1, <1>2, <1>5 DEF CallsInv, Settled, Moved
<1>7. CallInv'
  BY <1>1, <1>2, <1>5, Zenon DEF CallsInv, CallInv, Moved
<1>8. ProtocolsInv' /\ PhaseInv'
  BY <1>1, <1>2 DEF CallsInv, CallInv, ProtocolsInv, PhaseInv, Moved, Nothing
<1>9. Served' = Served
  <2>1. Alive' = Alive /\ mode' = mode /\ recorded' = recorded
    BY <1>2, Zenon DEF Alive, Moved
  <2>2. \A j \in Ids : RealServes(j)' = RealServes(j)
    BY <1>1, <1>2, Zenon DEF RealServes, Moved
  <2>. QED  BY <2>1, <2>2, Zenon DEF Served
<1>. QED  BY <1>2, <1>3, <1>4, <1>6, <1>7, <1>8, <1>9, Zenon DEF CallsInv

(* What a call may leave: b was served, a was asked for, c is served now. *)
Leaves(op, result, b, c, a) ==
  /\ op \in Binds \cup {"update"} /\ result = "ok" => c = a
  /\ op = "create" /\ result = "err" => c = b
  /\ op = "create" /\ result = "dropped" => c = b \/ c \in {a} \cup Contract!Half(a, "tcp")
  /\ op = "update" /\ result # "ok" => c \in {a, b}
  /\ op = "delete" /\ result = "ok" => c = None
  /\ op = "delete" /\ result = "err" => c = b
  /\ op = "delete" /\ result = "dropped" => c = b \/ c \in {None} \cup Contract!Half(b, "udp")
  /\ op = "restore" => result \in {"ok", "err"}

(* Every allocation the runtime is given is one that the contract knows. *)
LEMMA ContractAllocations == Allocation \subseteq Contract!Allocation
BY CallsAssumption, Zenon
   DEF Allocation, Contract!Allocation, Contract!Protocols, Contract!Ports, Protocols

(* A call that ends as Leaves says is a step of the contract. *)
LEMMA ContractCall ==
  ASSUME TypeOK, NEW op \in {"create", "update", "delete", "restore"}, NEW id \in Ids,
         NEW a \in Allocation, NEW result \in Results, Return(op, id, a, result),
         NEW c, Leaves(op, result, Served[id], c, a),
         op = "restore" /\ result # "ok" => Served' = Nothing,
         (op = "restore" /\ result # "ok") \/ Served' = [Served EXCEPT ![id] = c]
  PROVE  Contract!ContractNext
<1>1. /\ last'[id] # None /\ last'[id].allocation = a
      /\ Contract!Ended(op, id, a, result)
  BY RowAfter, Zenon DEF Return, Contract!Ended
<1>2. c = Served[id] => [Served EXCEPT ![id] = c] = Served
  BY Zenon DEF Served
<1>3. CASE op = "create"
  <2>1. Contract!Creates(id, a)
    BY <1>1, <1>2, <1>3, Zenon
       DEF Leaves, Binds, Results, Contract!Creates, Contract!RuntimeCreateOk,
                            Contract!RuntimeCreateErr, Contract!RuntimeCreateDropped
  <2>. QED  BY <1>1, <2>1, ContractAllocations, Zenon DEF Contract!ContractNext, Contract!Called
<1>4. CASE op = "update"
  <2>1. Contract!Updates(id, a)
    BY <1>1, <1>2, <1>4, Zenon
       DEF Leaves, Binds, Results, Contract!Updates, Contract!RuntimeUpdateOk,
                            Contract!RuntimeUpdateErr
  <2>. QED  BY <1>1, <2>1, ContractAllocations, Zenon DEF Contract!ContractNext, Contract!Called
<1>5. CASE op = "delete"
  <2>1. Contract!Deletes(id, a)
    BY <1>1, <1>2, <1>5, Zenon
       DEF Leaves, Binds, Results, Contract!Deletes, Contract!RuntimeDeleteOk,
                            Contract!RuntimeDeleteErr, Contract!RuntimeDeleteDropped
  <2>. QED  BY <1>1, <2>1, ContractAllocations, Zenon DEF Contract!ContractNext, Contract!Called
<1>6. CASE op = "restore"
  <2>1. Contract!Restores(id, a)
    BY <1>1, <1>6, Zenon DEF Leaves, Binds, Results, Nothing, Contract!Restores,
                      Contract!RuntimeRestoreOk, Contract!NoEntries
  <2>. QED  BY <1>1, <2>1, ContractAllocations, Zenon DEF Contract!ContractNext, Contract!Called
<1>. QED  BY <1>3, <1>4, <1>5, <1>6, Zenon

(* A call of RealRuntime ends. *)
LEMMA ReturnKeeps ==
  ASSUME CallsInv, call # None, NEW t, NEW u, NEW p, NEW result \in Results,
         Moved(call.id, t, u, p), Returns(result),
         p \in {protocols[call.id], call.allocation.protocol, None},
         call.op \in Binds \/ call.allocation.protocol # "both" \/ Joins(t, u, udp[call.id]),
         Kept(call.op, result) => Fits(t, u, call.allocation),
         call.op = "delete" /\ result = "ok" => t = None /\ u = None /\ p = None,
         call.op # "delete" /\ result = "ok" => Exact(t, u, call.allocation),
         call.op \in Binds /\ result = "ok" => p = call.allocation.protocol,
         Leaves(call.op, result, Serve(call.tcp, call.udp), Serve(t, u), call.allocation)
  PROVE  CallsInv' /\ Contract!ContractNext
<1>1. PICK op \in {"create", "update", "delete", "restore"}, id \in Ids, a \in Allocation :
        TypeOK /\ op = call.op /\ id = call.id /\ a = call.allocation
  BY CallTyped, Zenon DEF CallsInv
<1>2. Return(op, id, a, result) /\ call' = None
  BY <1>1, Zenon DEF Returns
<1>3. /\ mode = "proxy" /\ mode' = mode /\ Alive
      /\ phase' \in {"restoring", "serving", "exiting"}
      /\ Alive' <=> ~ (op = "restore" /\ result # "ok")
  BY <1>1, <1>2, Zenon DEF CallsInv, CallInv, Return, Alive, Moved
<1>4. /\ last' \in [Ids -> Calls \cup {None}]
      /\ last'[id] # None
      /\ last'[id].op = op /\ last'[id].allocation = a /\ last'[id].result = result
      /\ RowOf(last'[id]) \in {a, None}
      /\ RowOf(last'[id]) # None <=> Kept(op, result)
      /\ \A j \in Ids \ {id} : last'[j] = last[j]
  BY <1>1, <1>2, RowAfter
<1>5. /\ op \in Binds <=> last[id] = None
      /\ last[id] # None => last[id].allocation.protocol = a.protocol
  BY <1>1, CallAfterLast, Zenon
<1>6. ReaderInv' /\ reader' \in Readers \cup {None}
  <2>1. \A i \in Ids : (last[i] # None /\ last[i].allocation.protocol = "both")
                         => Joins(tcp'[i], udp'[i], udp[i])
    BY <1>1, <1>5, Zenon DEF Moved, Joins
  <2>. QED  BY <1>1, <1>4, <1>5, <2>1, ReaderKeeps DEF CallsInv, Moved
<1>7. TypeOK'
  BY <1>1, <1>2, <1>3, <1>4, <1>6, Zenon DEF TypeOK, Moved, MaybeEntry
<1>8. ASSUME NEW j \in Ids PROVE Settled(j)'
  <2>1. CASE j = id
    BY <1>1, <1>3, <1>4, <2>1 DEF Settled, Row, Moved, Binds
  <2>2. CASE j # id
    <3>1. Settled(j)
      BY <1>1, <1>3, <2>2, Zenon DEF CallsInv
    <3>. QED  BY <1>1, <1>4, <2>2, <3>1, Zenon DEF Settled, Row, Moved
  <2>. QED  BY <2>1, <2>2, Zenon
<1>9. ProtocolsInv'
  <2>1. ASSUME NEW j \in Ids, protocols'[j] # None
        PROVE  last'[j] # None /\ protocols'[j] = last'[j].allocation.protocol
    <3>1. ProtocolsInv
      BY Zenon DEF CallsInv
    <3>2. CASE j # id
      <4>1. protocols'[j] = protocols[j] /\ last'[j] = last[j]
        BY <1>1, <1>4, <3>2, Zenon DEF Moved
      <4>. QED  BY <2>1, <3>1, <4>1, Zenon DEF ProtocolsInv
    <3>3. CASE j = id
      <4>1. protocols'[id] \in {protocols[id], a.protocol, None}
        BY <1>1, Zenon DEF Moved
      <4>2. protocols[id] # None => protocols[id] = a.protocol
        BY <1>5, <3>1, Zenon DEF ProtocolsInv
      <4>. QED  BY <1>4, <2>1, <3>3, <4>1, <4>2, Zenon
    <3>. QED  BY <3>2, <3>3, Zenon
  <2>. QED  BY <2>1, Zenon DEF ProtocolsInv
<1>10. CallInv' /\ PhaseInv'
  BY <1>2, <1>3, Zenon DEF CallInv, PhaseInv
<1>11. CallsInv'
  BY <1>6, <1>7, <1>8, <1>9, <1>10, Zenon DEF CallsInv
<1>12. Contract!ContractNext
  <2>1. Served[id] = Serve(call.tcp, call.udp)
    BY <1>1, <1>3, Zenon DEF Served, RealServes
  <2>2. ~ Alive' => Served' = Nothing
    BY Zenon DEF Served, Nothing
  <2>3. Alive' => Served' = [Served EXCEPT ![id] = Serve(t, u)]
    <3>. SUFFICES ASSUME Alive' PROVE Served' = [Served EXCEPT ![id] = Serve(t, u)]
      OBVIOUS
    <3>1. Served' = [j \in Ids |-> Serve(tcp'[j], udp'[j])]
      BY <1>2, <1>3, Zenon DEF Served, RealServes
    <3>2. \A j \in Ids \ {id} : Served[j] = Serve(tcp[j], udp[j])
      BY <1>1, <1>3, Zenon DEF Served, RealServes
    <3>3. \A j \in Ids : Served'[j] = [Served EXCEPT ![id] = Serve(t, u)][j]
      <4>1. tcp'[id] = t /\ udp'[id] = u
        BY <1>1, Zenon DEF Moved
      <4>2. \A j \in Ids \ {id} : tcp'[j] = tcp[j] /\ udp'[j] = udp[j]
        BY <1>1, Zenon DEF Moved
      <4>3. DOMAIN Served = Ids
        BY Zenon DEF Served
      <4>. QED  BY <3>1, <3>2, <4>1, <4>2, <4>3, Zenon
    <3>. QED  BY <3>1, <3>3, Zenon DEF Served
  <2>4. Leaves(op, result, Served[id], Serve(t, u), a)
    BY <1>1, <2>1, Zenon
  <2>. QED  BY <1>1, <1>2, <1>3, <2>2, <2>3, <2>4, ContractCall, Zenon
<1>. QED  BY <1>11, <1>12, Zenon

(* A step keeps the invariant and is one of the contract's, or changes nothing it speaks of. *)
Faithful == CallsInv' /\ [Contract!ContractNext]_<<Served, last>>

LEMMA MovedBy ==
  ASSUME TypeOK, NEW id \in Ids, NEW t \in MaybeEntry, NEW u \in MaybeEntry,
         NEW p \in Protocols \cup {None},
         tcp' = [tcp EXCEPT ![id] = t] \/ (UNCHANGED tcp /\ t = tcp[id]),
         udp' = [udp EXCEPT ![id] = u] \/ (UNCHANGED udp /\ u = udp[id]),
         protocols' = [protocols EXCEPT ![id] = p] \/ (UNCHANGED protocols /\ p = protocols[id]),
         Reader, UNCHANGED <<recorded, stale, mode>>
  PROVE  Moved(id, t, u, p)
BY DEF TypeOK, Moved, MaybeEntry

(* An entry for an allocation. *)
LEMMA EntryTyped ==
  ASSUME NEW a \in Allocation
  PROVE  Entry(a) \in RuntimeEntries /\ Entry(a) # None /\ Entry(a).allocation = a
<1>1. Entry(a) \in RuntimeEntries /\ Entry(a).allocation = a
  BY Zenon DEF Entry, RuntimeEntries
<1>. QED  BY <1>1, RealAssumption, Zenon

(* What a call finds. *)
LEMMA CallFinds ==
  ASSUME CallsInv, call # None
  PROVE  /\ TypeOK /\ mode = "proxy"
         /\ call.id \in Ids /\ call.allocation \in Allocation
         /\ call.allocation.protocol \in Protocols
         /\ call.op \in Binds \cup {"update", "delete"}
         /\ tcp[call.id] \in MaybeEntry /\ udp[call.id] \in MaybeEntry
         /\ protocols[call.id] \in Protocols \cup {None}
         /\ call.op \in Binds => protocols[call.id] = None
<1>1. TypeOK
  BY Zenon DEF CallsInv
<1>2. /\ call.id \in Ids /\ call.allocation \in Allocation
      /\ call.op \in Binds \cup {"update", "delete"}
  BY <1>1, CallTyped, Zenon DEF Binds
<1>3. call.allocation.protocol \in Protocols
  BY <1>2, Zenon DEF Allocation
<1>4. mode = "proxy" /\ (call.op \in Binds => last[call.id] = None)
  BY Zenon DEF CallsInv, CallInv
<1>5. call.op \in Binds => protocols[call.id] = None
  BY <1>2, <1>4, Zenon DEF CallsInv, ProtocolsInv
<1>6. /\ tcp[call.id] \in MaybeEntry /\ udp[call.id] \in MaybeEntry
      /\ protocols[call.id] \in Protocols \cup {None}
  BY <1>1, <1>2, Zenon DEF TypeOK, MaybeEntry
<1>. QED  BY <1>1, <1>2, <1>3, <1>4, <1>5, <1>6, Zenon

(* create and restore of RealRuntime. *)
LEMMA BindSteps ==
  ASSUME CallsInv, BindTcp \/ BindUdp \/ RollbackTcp \/ InsertProtocol, Reader,
         UNCHANGED <<recorded, stale, mode>>
  PROVE  Faithful
<1>. DEFINE id == call.id
            a == call.allocation
            E == Entry(call.allocation)
<1>1. call # None /\ call.op \in Binds
  BY Zenon DEF BindTcp, BindUdp, RollbackTcp, InsertProtocol, At
<1>2. /\ TypeOK /\ id \in Ids /\ a \in Allocation /\ a.protocol \in Protocols
      /\ tcp[id] \in MaybeEntry /\ udp[id] \in MaybeEntry
      /\ protocols[id] = None /\ protocols[id] \in Protocols \cup {None}
  BY <1>1, CallFinds, Zenon
<1>3. E \in MaybeEntry /\ E # None /\ E.allocation = a
  BY <1>2, EntryTyped, Zenon DEF MaybeEntry
<1>4. Binding(a, call.at, tcp[id], udp[id]) /\ call.tcp = None /\ call.udp = None
  BY <1>1, Zenon DEF CallsInv, CallInv
<1>5. call.op # "update" /\ call.op # "delete"
  BY <1>1, Zenon DEF Binds
<1>6. ASSUME NEW t \in MaybeEntry, NEW u \in MaybeEntry, Moved(id, t, u, protocols[id]),
             NEW at \in {"start", "tcp", "udp", "next", "rollback", "insert"},
             Goto(at), Binding(a, at, t, u)
      PROVE  Faithful
  BY <1>1, <1>5, <1>6, GotoKeeps, Zenon DEF Faithful, CallsInv
<1>7. ASSUME Moved(id, None, None, protocols[id]), Returns("err")
      PROVE  Faithful
  <2>1. Leaves(call.op, "err", Serve(call.tcp, call.udp), Serve(None, None), a)
    BY <1>1, <1>4, Zenon DEF Leaves, Binds
  <2>2. ~ Kept(call.op, "err") /\ "err" \in Results /\ "err" # "ok"
    BY <1>5, Zenon DEF Kept, Results
  <2>. QED  BY <1>1, <1>5, <1>7, <2>1, <2>2, ReturnKeeps, Zenon DEF Faithful
<1>8. CASE BindTcp
  <2>1. call.at = "start" /\ Uses(a.protocol, "tcp") /\ tcp[id] = None /\ udp[id] = None
    BY <1>4, <1>8, Zenon DEF BindTcp, At, Binding
  <2>2. CASE /\ tcp' = [tcp EXCEPT ![id] = E] /\ UNCHANGED <<protocols, udp>>
             /\ Goto(IF a.protocol = "both" THEN "udp" ELSE "insert")
    <3>1. Moved(id, E, udp[id], protocols[id])
      BY <1>2, <1>3, <2>2, MovedBy, Zenon
    <3>2. Binding(a, IF a.protocol = "both" THEN "udp" ELSE "insert", E, udp[id])
      BY <1>2, <1>3, <2>1, Zenon DEF Binding, Exact, Uses, Protocols
    <3>. QED  BY <1>2, <1>3, <1>6, <2>2, <3>1, <3>2, Zenon
  <2>3. CASE Returns("err") /\ UNCHANGED <<protocols, tcp, udp>>
    <3>1. Moved(id, None, None, protocols[id])
      BY <1>2, <2>1, <2>3, MovedBy, Zenon DEF MaybeEntry
    <3>. QED  BY <1>7, <2>3, <3>1, Zenon
  <2>. QED  BY <1>8, <2>2, <2>3, Zenon DEF BindTcp
<1>9. CASE BindUdp
  <2>1. /\ Uses(a.protocol, "udp") /\ udp[id] = None
        /\ call.at = IF a.protocol = "both" THEN "udp" ELSE "start"
        /\ IF a.protocol = "both" THEN tcp[id] # None /\ tcp[id].allocation = a ELSE tcp[id] = None
    BY <1>1, <1>4, <1>9, Zenon DEF BindUdp, At, Binding
  <2>2. CASE udp' = [udp EXCEPT ![id] = E] /\ UNCHANGED <<protocols, tcp>> /\ Goto("insert")
    <3>1. Moved(id, tcp[id], E, protocols[id])
      BY <1>2, <1>3, <2>2, MovedBy, Zenon
    <3>2. Binding(a, "insert", tcp[id], E)
      BY <1>2, <1>3, <2>1, Zenon DEF Binding, Exact, Uses, Protocols
    <3>. QED  BY <1>2, <1>3, <1>6, <2>2, <3>1, <3>2, Zenon
  <2>3. CASE UNCHANGED <<protocols, tcp, udp>> /\ a.protocol = "both" /\ Goto("rollback")
    <3>1. Moved(id, tcp[id], udp[id], protocols[id])
      BY <1>2, <2>3, MovedBy, Zenon
    <3>2. Binding(a, "rollback", tcp[id], udp[id])
      BY <2>1, <2>3, Zenon DEF Binding
    <3>. QED  BY <1>2, <1>6, <2>3, <3>1, <3>2, Zenon
  <2>4. CASE UNCHANGED <<protocols, tcp, udp>> /\ a.protocol # "both" /\ Returns("err")
    <3>1. Moved(id, None, None, protocols[id])
      BY <1>2, <2>1, <2>4, MovedBy, Zenon DEF MaybeEntry
    <3>. QED  BY <1>7, <2>4, <3>1, Zenon
  <2>. QED  BY <1>9, <2>2, <2>3, <2>4, Zenon DEF BindUdp
<1>10. CASE RollbackTcp
  <2>1. udp[id] = None
    BY <1>4, <1>10, Zenon DEF RollbackTcp, At, Binding
  <2>2. Moved(id, None, None, protocols[id])
    BY <1>2, <1>10, <2>1, MovedBy, Zenon DEF MaybeEntry, RollbackTcp
  <2>. QED  BY <1>7, <1>10, <2>2, Zenon DEF RollbackTcp
<1>11. CASE InsertProtocol
  <2>1. Exact(tcp[id], udp[id], a)
    BY <1>4, <1>11, Zenon DEF InsertProtocol, At, Binding
  <2>2. Moved(id, tcp[id], udp[id], a.protocol) /\ Returns("ok")
    BY <1>2, <1>11, MovedBy, Zenon DEF InsertProtocol
  <2>3. Fits(tcp[id], udp[id], a)
    BY <1>2, <2>1, Zenon DEF Exact, Fits, Uses
  <2>4. Leaves(call.op, "ok", Serve(call.tcp, call.udp), Serve(tcp[id], udp[id]), a)
    BY <1>1, <1>2, <2>1, ServeExact, Zenon DEF Leaves, Binds
  <2>5. "ok" \in Results
    BY Zenon DEF Results
  <2>. QED  BY <1>1, <1>5, <2>1, <2>2, <2>3, <2>4, <2>5, ReturnKeeps, Zenon DEF Faithful
<1>. QED  BY <1>8, <1>9, <1>10, <1>11, Zenon

(* update of RealRuntime: the halves in order, TCP first. *)
LEMMA UpdateSteps ==
  ASSUME CallsInv, NEW i \in 1..2, UpdateHalf(i), Reader, UNCHANGED <<recorded, stale, mode>>
  PROVE  Faithful
<1>. DEFINE id == call.id
            a == call.allocation
            E == Entry(call.allocation)
<1>1. call # None /\ call.op = "update" /\ call.at = << "start", "next" >>[i]
  BY Zenon DEF UpdateHalf, At
<1>2. /\ TypeOK /\ id \in Ids /\ a \in Allocation /\ a.protocol \in Protocols
      /\ tcp[id] \in MaybeEntry /\ udp[id] \in MaybeEntry
      /\ protocols[id] \in Protocols \cup {None}
  BY <1>1, CallFinds, Zenon
<1>3. E \in MaybeEntry /\ E # None /\ E.allocation = a
  BY <1>2, EntryTyped, Zenon DEF MaybeEntry
<1>4. Updating(a, call.at, tcp[id], udp[id], call.tcp, call.udp)
  BY <1>1, Zenon DEF CallsInv, CallInv
<1>5. call.op \notin Binds /\ call.op # "delete" /\ {"ok", "err"} \subseteq Results
  BY <1>1, Zenon DEF Binds, Results
<1>6. ASSUME NEW t \in MaybeEntry, NEW u \in MaybeEntry, Moved(id, t, u, protocols[id]),
             Returns("ok"), Exact(t, u, a), a.protocol # "both" \/ Joins(t, u, udp[id])
      PROVE  Faithful
  <2>1. Fits(t, u, a)
    BY <1>6, Zenon DEF Exact, Fits, Uses
  <2>2. Leaves(call.op, "ok", Serve(call.tcp, call.udp), Serve(t, u), a)
    BY <1>1, <1>2, <1>6, ServeExact, Zenon DEF Leaves
  <2>. QED  BY <1>1, <1>5, <1>6, <2>1, <2>2, ReturnKeeps, Zenon DEF Faithful
<1>7. ASSUME Returns("err"), UNCHANGED <<tcp, udp, protocols>>, Same(tcp[id], call.tcp)
      PROVE  Faithful
  <2>1. Moved(id, tcp[id], udp[id], protocols[id])
    BY <1>2, <1>7, MovedBy, Zenon
  <2>2. Fits(tcp[id], udp[id], a) /\ Same(udp[id], call.udp)
    BY <1>4, Zenon DEF Updating
  <2>3. Leaves(call.op, "err", Serve(call.tcp, call.udp), Serve(tcp[id], udp[id]), a)
    <3>1. Serve(call.tcp, call.udp) = Serve(tcp[id], udp[id])
      BY <1>7, <2>2, ServeSame
    <3>. QED  BY <1>1, <3>1, Zenon DEF Leaves, Binds
  <2>. QED  BY <1>1, <1>5, <1>7, <2>1, <2>2, <2>3, ReturnKeeps, Zenon DEF Faithful, Joins
<1>8. CASE i = 1 /\ a.protocol # "udp"
  <2>1. Halves(a.protocol)[1] = "tcp" /\ (1 = Len(Halves(a.protocol)) <=> a.protocol = "tcp")
    BY <1>2, <1>8 DEF Halves, Protocols
  <2>2. call.at = "start" /\ Same(tcp[id], call.tcp) /\ Same(udp[id], call.udp)
    BY <1>1, <1>4, <1>8, Zenon DEF Updating
  <2>3. CASE tcp[id] = None
    BY <1>7, <1>8, <2>1, <2>2, <2>3, Zenon DEF UpdateHalf
  <2>4. CASE tcp[id] # None
    <3>1. /\ tcp' = [tcp EXCEPT ![id] = E] /\ UNCHANGED <<udp, protocols>>
          /\ IF a.protocol = "tcp" THEN Returns("ok") ELSE Goto("next")
      BY <1>8, <2>1, <2>4, Zenon DEF UpdateHalf
    <3>2. Moved(id, E, udp[id], protocols[id])
      BY <1>2, <1>3, <3>1, MovedBy, Zenon
    <3>3. CASE a.protocol = "tcp"
      <4>1. Exact(E, udp[id], a)
        BY <1>3, <1>4, <3>3, Zenon DEF Updating, Fits, Exact, Uses
      <4>. QED  BY <1>2, <1>3, <1>6, <3>1, <3>2, <3>3, <4>1, Zenon DEF Joins
    <3>4. CASE a.protocol = "both"
      <4>1. Updating(a, "next", E, udp[id], call.tcp, call.udp)
        BY <1>3, <1>4, <2>2, <2>4, <3>4, Zenon DEF Updating, Fits, Same, Uses
      <4>2. Goto("next")
        BY <3>1, <3>4, Zenon
      <4>. QED  BY <1>1, <1>5, <3>2, <4>1, <4>2, GotoKeeps, Zenon DEF Faithful, Joins
    <3>. QED  BY <1>2, <1>8, <3>3, <3>4, Zenon DEF Protocols
  <2>. QED  BY <2>3, <2>4, Zenon
<1>9. CASE i = 1 /\ a.protocol = "udp"
  <2>1. Halves(a.protocol)[1] = "udp" /\ 1 = Len(Halves(a.protocol))
    BY <1>9, Zenon DEF Halves
  <2>2. call.at = "start" /\ Same(tcp[id], call.tcp) /\ tcp[id] = None
    BY <1>1, <1>4, <1>9, Zenon DEF Updating, Fits, Uses
  <2>3. CASE udp[id] = None
    BY <1>7, <1>9, <2>1, <2>2, <2>3, Zenon DEF UpdateHalf
  <2>4. CASE udp[id] # None
    <3>1. udp' = [udp EXCEPT ![id] = E] /\ UNCHANGED <<tcp, protocols>> /\ Returns("ok")
      BY <1>9, <2>1, <2>4, Zenon DEF UpdateHalf
    <3>2. Moved(id, tcp[id], E, protocols[id])
      BY <1>2, <1>3, <3>1, MovedBy, Zenon
    <3>3. Exact(tcp[id], E, a)
      BY <1>3, <1>9, <2>2, Zenon DEF Exact, Uses
    <3>. QED  BY <1>2, <1>3, <1>6, <1>9, <3>1, <3>2, <3>3, Zenon
  <2>. QED  BY <2>3, <2>4, Zenon
<1>10. CASE i = 2
  <2>1. call.at = "next" /\ a.protocol = "both" /\ tcp[id] # None /\ tcp[id].allocation = a
    BY <1>1, <1>4, <1>10, Zenon DEF Updating
  <2>2. Halves(a.protocol)[2] = "udp" /\ 2 = Len(Halves(a.protocol)) /\ udp[id] # None
    BY <1>4, <2>1, Zenon DEF Halves, Updating, Fits
  <2>3. udp' = [udp EXCEPT ![id] = E] /\ UNCHANGED <<tcp, protocols>> /\ Returns("ok")
    BY <1>10, <2>2, Zenon DEF UpdateHalf
  <2>4. Moved(id, tcp[id], E, protocols[id])
    BY <1>2, <1>3, <2>3, MovedBy, Zenon
  <2>5. Exact(tcp[id], E, a)
    BY <1>3, <2>1, Zenon DEF Exact, Uses
  <2>. QED  BY <1>2, <1>3, <1>6, <2>1, <2>3, <2>4, <2>5, Zenon DEF Joins
<1>. QED  BY <1>8, <1>9, <1>10

(* delete of RealRuntime: the protocol, then TCP, then UDP. *)
LEMMA DeleteSteps ==
  ASSUME CallsInv, DeleteProtocol \/ DeleteTcp \/ DeleteUdp, Reader,
         UNCHANGED <<recorded, stale, mode>>
  PROVE  Faithful
<1>. DEFINE id == call.id
            a == call.allocation
<1>1. call # None /\ call.op = "delete"
  BY Zenon DEF DeleteProtocol, DeleteTcp, DeleteUdp, At
<1>2. /\ TypeOK /\ id \in Ids /\ a \in Allocation
      /\ tcp[id] \in MaybeEntry /\ udp[id] \in MaybeEntry
      /\ protocols[id] \in Protocols \cup {None}
  BY <1>1, CallFinds, Zenon
<1>3. Deleting(a, call.at, tcp[id], udp[id], call.tcp, call.udp, protocols[id])
  BY <1>1, Zenon DEF CallsInv, CallInv
<1>4. call.op \notin Binds /\ call.op # "update" /\ "ok" \in Results
  BY <1>1, Zenon DEF Binds, Results
<1>5. CASE DeleteProtocol
  <2>1. Moved(id, tcp[id], udp[id], None) /\ Goto("tcp")
    BY <1>2, <1>5, MovedBy, Zenon DEF DeleteProtocol
  <2>2. Deleting(a, "tcp", tcp[id], udp[id], call.tcp, call.udp, None)
    BY <1>3, <1>5, Zenon DEF Deleting, DeleteProtocol, At
  <2>. QED  BY <1>1, <1>4, <2>1, <2>2, GotoKeeps, Zenon DEF Faithful, Joins
<1>6. CASE DeleteTcp
  <2>1. Moved(id, None, udp[id], protocols[id]) /\ Goto("udp")
    BY <1>2, <1>6, MovedBy, Zenon DEF DeleteTcp, MaybeEntry
  <2>2. Deleting(a, "udp", None, udp[id], call.tcp, call.udp, protocols[id])
    BY <1>3, <1>6, Zenon DEF Deleting, DeleteTcp, At
  <2>. QED  BY <1>1, <1>4, <2>1, <2>2, GotoKeeps, Zenon DEF Faithful, Joins
<1>7. CASE DeleteUdp
  <2>1. tcp[id] = None /\ protocols[id] = None
    BY <1>3, <1>7, Zenon DEF Deleting, DeleteUdp, At
  <2>2. Moved(id, None, None, None) /\ Returns("ok")
    BY <1>2, <1>7, <2>1, MovedBy, Zenon DEF DeleteUdp, MaybeEntry
  <2>3. Serve(None, None) = None
    BY Zenon DEF Serve
  <2>4. Leaves(call.op, "ok", Serve(call.tcp, call.udp), Serve(None, None), a)
    BY <1>1, <2>3, Zenon DEF Leaves, Binds
  <2>5. ~ Kept(call.op, "ok")
    BY <1>1, Zenon DEF Kept, Binds
  <2>. QED  BY <1>1, <1>4, <2>2, <2>4, <2>5, ReturnKeeps, Zenon DEF Faithful, Joins
<1>. QED  BY <1>5, <1>6, <1>7, Zenon

(* Halves of an allocation. *)
LEMMA ServeHalves ==
  ASSUME NEW t \in MaybeEntry, NEW u \in MaybeEntry
  PROVE  /\ t # None /\ u # None => Serve(t, u) = [u.allocation EXCEPT !.protocol = "both"]
         /\ t # None /\ u = None => Serve(t, u) = [t.allocation EXCEPT !.protocol = "tcp"]
         /\ t = None /\ u # None => Serve(t, u) = [u.allocation EXCEPT !.protocol = "udp"]
         /\ t = None /\ u = None => Serve(t, u) = None
BY Zenon DEF Serve

(* A call of RealRuntime whose future is dropped, at any of its awaits. *)
LEMMA DropStep ==
  ASSUME CallsInv, Drop, Reader, UNCHANGED <<recorded, stale, mode>>
  PROVE  Faithful
<1>. DEFINE id == call.id
            a == call.allocation
            b == Serve(call.tcp, call.udp)
            c == Serve(tcp[call.id], udp[call.id])
<1>1. call # None /\ call.op \in {"create", "update", "delete"} /\ Returns("dropped")
  BY CallTyped, Zenon DEF Drop, CallsInv
<1>2. /\ TypeOK /\ id \in Ids /\ a \in Allocation
      /\ tcp[id] \in MaybeEntry /\ udp[id] \in MaybeEntry
      /\ call.tcp \in MaybeEntry /\ call.udp \in MaybeEntry
      /\ protocols[id] \in Protocols \cup {None}
  BY <1>1, CallFinds, CallTyped, Zenon
<1>3. Moved(id, tcp[id], udp[id], protocols[id])
  BY <1>2, MovedBy, Zenon DEF Drop
<1>4. "dropped" \in Results
  BY Zenon DEF Results
<1>5. CASE call.op = "create"
  <2>1. Binding(a, call.at, tcp[id], udp[id]) /\ call.tcp = None /\ call.udp = None
    BY <1>5, Zenon DEF CallsInv, CallInv, Drop, Binds
  <2>2. c = b \/ c \in {a} \cup Contract!Half(a, "tcp")
    <3>1. CASE call.at = "start"
      BY <2>1, <3>1, Zenon DEF Binding
    <3>2. CASE call.at \in {"udp", "rollback"}
      <4>1. c = [a EXCEPT !.protocol = "tcp"] /\ a.protocol = "both" /\ a # None
        BY <1>2, <2>1, <3>2, ServeHalves, CallsAssumption DEF Binding
      <4>. QED  BY <4>1, Zenon DEF Contract!Half
    <3>3. CASE call.at = "insert"
      BY <1>2, <2>1, <3>3, ServeExact, Zenon DEF Binding
    <3>. QED  BY <2>1, <3>1, <3>2, <3>3, Zenon DEF Binding
  <2>3. Leaves(call.op, "dropped", b, c, a) /\ ~ Kept(call.op, "dropped") /\ call.op \in Binds
    BY <1>5, <2>2, Zenon DEF Leaves, Binds, Kept
  <2>. QED  BY <1>1, <1>3, <1>4, <1>5, <2>3, ReturnKeeps, Zenon DEF Faithful
<1>6. CASE call.op = "update"
  <2>1. Updating(a, call.at, tcp[id], udp[id], call.tcp, call.udp)
    BY <1>6, Zenon DEF CallsInv, CallInv, Drop
  <2>2. c = b
    <3>1. CASE call.at = "start"
      BY <2>1, <3>1, ServeSame DEF Updating
    <3>2. CASE call.at = "next"
      <4>1. /\ tcp[id] # None /\ call.tcp # None /\ udp[id] # None /\ call.udp # None
            /\ udp[id].allocation = call.udp.allocation
        BY <2>1, <3>2, Zenon DEF Updating, Fits, Same
      <4>. QED  BY <1>2, <4>1, ServeHalves
    <3>. QED  BY <2>1, <3>1, <3>2, Zenon DEF Updating
  <2>3. Leaves(call.op, "dropped", b, c, a) /\ Fits(tcp[id], udp[id], a)
    BY <1>6, <2>1, <2>2, Zenon DEF Leaves, Binds, Updating
  <2>. QED  BY <1>1, <1>3, <1>4, <1>6, <2>3, ReturnKeeps, Zenon DEF Faithful, Joins, Binds
<1>7. CASE call.op = "delete"
  <2>1. Deleting(a, call.at, tcp[id], udp[id], call.tcp, call.udp, protocols[id])
    BY <1>7, Zenon DEF CallsInv, CallInv, Drop
  <2>2. c = b \/ c \in {None} \cup Contract!Half(b, "udp")
    <3>1. CASE call.at \in {"start", "tcp"}
      <4>1. Same(tcp[id], call.tcp) /\ Same(udp[id], call.udp)
        BY <2>1, <3>1, Zenon DEF Deleting
      <4>. QED  BY <4>1, ServeSame
    <3>2. CASE call.at = "udp" /\ (udp[id] = None \/ call.tcp = None)
      <4>1. tcp[id] = None /\ Same(udp[id], call.udp)
        BY <2>1, <3>2, Zenon DEF Deleting
      <4>. QED  BY <1>2, <3>2, <4>1, ServeHalves DEF Same
    <3>3. CASE call.at = "udp" /\ udp[id] # None /\ call.tcp # None
      <4>1. /\ tcp[id] = None /\ call.udp # None /\ udp[id].allocation = call.udp.allocation
            /\ call.udp.allocation \in Allocation
        BY <1>2, <2>1, <3>3, Zenon DEF Deleting, Same, MaybeEntry, RuntimeEntries
      <4>2. PICK d \in Allocation : d = call.udp.allocation
        BY <4>1, Zenon
      <4>3. b = [d EXCEPT !.protocol = "both"] /\ c = [d EXCEPT !.protocol = "udp"]
        <5>1. b = [call.udp.allocation EXCEPT !.protocol = "both"]
          BY <1>2, <3>3, <4>1, ServeHalves, Zenon
        <5>2. c = [udp[id].allocation EXCEPT !.protocol = "udp"]
          BY <1>2, <3>3, <4>1, ServeHalves, Zenon
        <5>. QED  BY <4>1, <4>2, <5>1, <5>2, Zenon
      <4>4. b \in Allocation /\ b.protocol = "both" /\ c = [b EXCEPT !.protocol = "udp"]
        BY <4>3, Zenon DEF Allocation, Protocols
      <4>5. b # None
        BY <4>4, CallsAssumption, Zenon
      <4>. QED  BY <4>4, <4>5, Zenon DEF Contract!Half
    <3>. QED  BY <2>1, <3>1, <3>2, <3>3, Zenon DEF Deleting
  <2>3. Fits(tcp[id], udp[id], a)
    BY <2>1, Zenon DEF Deleting, Fits, Same
  <2>4. Leaves(call.op, "dropped", b, c, a)
    BY <1>7, <2>2, Zenon DEF Leaves, Binds
  <2>. QED  BY <1>1, <1>3, <1>4, <1>7, <2>3, <2>4, ReturnKeeps, Zenon DEF Faithful, Joins, Binds
<1>. QED  BY <1>1, <1>5, <1>6, <1>7, Zenon

(* A call begins with the entries that the last one has left. *)
LEMMA BeginStep ==
  ASSUME CallsInv, mode = "proxy",
         NEW op \in {"create", "update", "delete", "restore"}, NEW id \in Ids, NEW a \in Allocation,
         Begin(op, id, a), UNCHANGED <<recorded, stale, mode>>
  PROVE  Faithful
<1>. DEFINE r == [op |-> op, id |-> id, allocation |-> a, at |-> "start",
                  tcp |-> tcp[id], udp |-> udp[id]]
<1>1. TypeOK /\ call = None /\ Settled(id)
  BY Zenon DEF CallsInv, Begin
<1>2. r \in CallStates
  BY <1>1, Zenon DEF TypeOK, CallStates
<1>3. /\ call' = r /\ call' \in CallStates /\ call' # None
      /\ call'.op = op /\ call'.id = id /\ call'.allocation = a /\ call'.at = "start"
      /\ call'.tcp = tcp[id] /\ call'.udp = udp[id]
      /\ UNCHANGED <<protocols, tcp, udp, reader, phase, last>>
  BY <1>2, RealAssumption, Zenon DEF Begin
<1>4. TypeOK'
  BY <1>1, <1>3, Zenon DEF TypeOK
<1>5. \A j \in Ids : (mode' = "proxy" /\ (call' = None \/ call'.id # j)) => Settled(j)'
  BY <1>1, <1>3, Zenon DEF CallsInv, Settled, Row
<1>6. CallInv'
  <2>1. CASE op \in Binds
    <3>1. /\ last[id] = None /\ tcp[id] = None /\ udp[id] = None
          /\ phase = IF op = "restore" THEN "restoring" ELSE "serving"
      BY <1>1, <2>1, Zenon DEF Settled, Begin, MayCall, MayCreate, MayRestore, Binds
    <3>. QED  BY <1>3, <2>1, <3>1, Zenon DEF CallInv, Binding, Binds
  <2>2. CASE op = "update"
    <3>1. Row(id) # None /\ a.protocol = Row(id).protocol /\ phase = "serving"
      BY <2>2, Zenon DEF Begin, MayCall, MayUpdate
    <3>2. Updating(a, "start", tcp[id], udp[id], tcp[id], udp[id])
      BY <1>1, <3>1, Zenon DEF Settled, Updating, Fits, Same
    <3>. QED  BY <1>3, <2>2, <3>1, <3>2, Zenon DEF CallInv, Row, Binds
  <2>3. CASE op = "delete"
    <3>1. Row(id) # None /\ a = Row(id) /\ phase = "serving"
      BY <2>3, Zenon DEF Begin, MayCall, MayDelete
    <3>2. Deleting(a, "start", tcp[id], udp[id], tcp[id], udp[id], protocols[id])
      BY <1>1, <3>1, Zenon DEF Settled, Deleting, Same
    <3>. QED  BY <1>3, <2>3, <3>1, <3>2, Zenon DEF CallInv, Row, Binds
  <2>. QED  BY <2>1, <2>2, <2>3, Zenon DEF Binds
<1>7. phase \in {"restoring", "serving"}
  BY Zenon DEF Begin, MayCall, MayCreate, MayUpdate, MayDelete, MayRestore
<1>8. ProtocolsInv' /\ PhaseInv' /\ ReaderInv'
  BY <1>3, <1>7, Zenon DEF CallsInv, ProtocolsInv, PhaseInv, ReaderInv, SnapshotWitnessed
<1>9. Served' = Served
  <2>1. Alive' = Alive /\ mode' = mode /\ recorded' = recorded
    BY <1>3, Zenon DEF Alive
  <2>2. \A j \in Ids : RealServes(j)' = RealServes(j)
    BY <1>1, <1>3, Zenon DEF RealServes
  <2>. QED  BY <2>1, <2>2, Zenon DEF Served
<1>. QED  BY <1>3, <1>4, <1>5, <1>6, <1>8, <1>9, Zenon DEF Faithful, CallsInv

(* A session leaves its error: the entries serve the same. *)
LEMMA SessionStep ==
  ASSUME CallsInv, NEW id \in Ids, SessionFails(id), Reader, UNCHANGED <<recorded, stale, mode>>
  PROVE  Faithful
<1>1. TypeOK /\ tcp[id] \in RuntimeEntries
  BY Zenon DEF CallsInv, TypeOK, SessionFails
<1>2. /\ tcp' \in [Ids -> MaybeEntry]
      /\ \A j \in Ids : Same(tcp'[j], tcp[j])
      /\ UNCHANGED <<protocols, udp, call, phase, last>>
  <2>. DEFINE e == [tcp[id] EXCEPT !.error = TRUE]
  <2>1. e \in RuntimeEntries /\ e.allocation = tcp[id].allocation
    BY <1>1, Zenon DEF RuntimeEntries
  <2>2. e # None
    BY <2>1, RealAssumption, Zenon
  <2>3. tcp' = [tcp EXCEPT ![id] = e]
    BY Zenon DEF SessionFails
  <2>. HIDE DEF e
  <2>4. \A j \in Ids : tcp'[j] = IF j = id THEN e ELSE tcp[j]
    BY <1>1, <2>3, Zenon DEF TypeOK
  <2>5. tcp[id] # None
    BY Zenon DEF SessionFails
  <2>. QED  BY <1>1, <2>1, <2>2, <2>3, <2>4, <2>5, Zenon DEF TypeOK, Same, MaybeEntry, SessionFails
<1>3. ReaderInv' /\ reader' \in Readers \cup {None}
  BY <1>1, <1>2, ReaderKeeps, Zenon DEF CallsInv, Joins, TypeOK, MaybeEntry
<1>4. TypeOK'
  BY <1>1, <1>2, <1>3, Zenon DEF TypeOK, MaybeEntry
<1>5. ASSUME NEW j \in Ids, mode' = "proxy", call' = None \/ call'.id # j PROVE Settled(j)'
  <2>1. Settled(j) /\ Same(tcp'[j], tcp[j])
    BY <1>2, <1>5, Zenon DEF CallsInv
  <2>. QED  BY <1>2, <2>1, Zenon DEF Settled, Row, Same, Fits, Exact
<1>6. CallInv'
  <2>. SUFFICES ASSUME call # None PROVE CallInv'
    BY <1>2, Zenon DEF CallInv
  <2>1. PICK j \in Ids, a \in Allocation : j = call.id /\ a = call.allocation
    BY <1>1, CallTyped, Zenon
  <2>2. Same(tcp'[j], tcp[j])
    BY <1>2, Zenon
  <2>3. CallInv
    BY Zenon DEF CallsInv
  <2>4. \A at : Binding(a, at, tcp[j], udp[j]) => Binding(a, at, tcp'[j], udp[j])
    BY <2>2, Zenon DEF Binding, Exact, Same
  <2>5. \A at : Updating(a, at, tcp[j], udp[j], call.tcp, call.udp)
                => Updating(a, at, tcp'[j], udp[j], call.tcp, call.udp)
    BY <2>2, Zenon DEF Updating, Fits, Same
  <2>6. \A at : Deleting(a, at, tcp[j], udp[j], call.tcp, call.udp, protocols[j])
                => Deleting(a, at, tcp'[j], udp[j], call.tcp, call.udp, protocols[j])
    BY <2>2, Zenon DEF Deleting, Same
  <2>. QED  BY <1>2, <2>1, <2>3, <2>4, <2>5, <2>6, Zenon DEF CallInv, Row
<1>7. ProtocolsInv' /\ PhaseInv'
  <2>1. mode' = mode /\ recorded' = recorded
    OBVIOUS
  <2>2. mode = "netlink" => reader' = None
    BY Zenon DEF CallsInv, PhaseInv, Reader
  <2>. QED  BY <1>2, <2>1, <2>2, Zenon DEF CallsInv, ProtocolsInv, PhaseInv
<1>8. Served' = Served
  <2>1. Alive' = Alive /\ mode' = mode /\ recorded' = recorded
    BY <1>2, Zenon DEF Alive
  <2>2. ASSUME NEW j \in Ids PROVE Serve(tcp'[j], udp[j]) = Serve(tcp[j], udp[j])
    <3>1. Same(tcp'[j], tcp[j])
      BY <1>2, Zenon
    <3>2. Same(udp[j], udp[j])
      BY Zenon DEF Same
    <3>. QED  BY <3>1, <3>2, ServeSame
  <2>3. \A j \in Ids : RealServes(j)' = RealServes(j)
    BY <1>2, <2>2, Zenon DEF RealServes
  <2>. QED  BY <2>1, <2>3, Zenon DEF Served
<1>. QED  BY <1>2, <1>3, <1>4, <1>5, <1>6, <1>7, <1>8, Zenon DEF Faithful, CallsInv

(* A step that only the reader takes changes nothing else. *)
LEMMA ReaderAlone ==
  ASSUME CallsInv, mode = "proxy", reader' \in Readers \cup {None}, ReaderInv',
         UNCHANGED <<protocols, tcp, udp, call, phase, last, recorded, stale, mode>>
  PROVE  Faithful
<1>1. TypeOK'
  BY Zenon DEF CallsInv, TypeOK
<1>2. \A j \in Ids : (mode' = "proxy" /\ (call' = None \/ call'.id # j)) => Settled(j)'
  BY Zenon DEF CallsInv, Settled, Row
<1>3. CallInv' /\ ProtocolsInv' /\ PhaseInv'
  BY Zenon DEF CallsInv, CallInv, ProtocolsInv, PhaseInv, Row
<1>4. Served' = Served
  BY Zenon DEF Served, RealServes, Alive
<1>. QED  BY <1>1, <1>2, <1>3, <1>4, Zenon DEF Faithful, CallsInv

(* What a half reports of itself. *)
LEMMA ObservedTyped ==
  ASSUME NEW e \in MaybeEntry
  PROVE  /\ Observed(e) \in Observations \cup {None}
         /\ Observed(e) # None =>
              e # None /\ Observed(e).state = entry_state_for(e.allocation)
<1>1. CASE e = None
  BY <1>1, Zenon DEF Observed
<1>2. CASE e # None
  <2>1. e.allocation \in Allocation /\ e.error \in BOOLEAN
    BY <1>2, Zenon DEF MaybeEntry, RuntimeEntries
  <2>2. entry_state_for(e.allocation)
          \in [target : (Hosts \X TargetPorts) \cup {None}, status : RuntimeStatus]
    BY <2>1, Zenon DEF entry_state_for, Allocation, Bound, RuntimeStatus
  <2>. QED  BY <1>2, <2>1, <2>2, Zenon DEF Observed, Observations
<1>. QED  BY <1>1, <1>2, Zenon

(* A snapshot of a "both" allocation: the TCP half, then the UDP half. *)
LEMMA SnapshotSteps ==
  ASSUME CallsInv, mode = "proxy", RealSnapshot, UNCHANGED <<recorded, stale, mode>>
  PROVE  Faithful
<1>1. TypeOK /\ ReaderInv
  BY Zenon DEF CallsInv
<1>2. UNCHANGED <<protocols, tcp, udp, call, phase, last>>
  BY Zenon DEF RealSnapshot, SnapshotTcp, SnapshotUdp, SnapshotDone
<1>3. CASE SnapshotDone
  <2>1. reader' = None
    BY <1>3, Zenon DEF SnapshotDone
  <2>2. ReaderInv'
    BY <2>1, Zenon DEF ReaderInv
  <2>. QED  BY <1>2, <2>1, <2>2, ReaderAlone, Zenon
<1>4. CASE SnapshotUdp
  <2>. DEFINE i == reader.id
              o == Observed(udp[reader.id])
              answer == aggregate_snapshot(reader.seen, o)
  <2>1. reader # None /\ reader \in Readers /\ reader' = [reader EXCEPT !.answer = answer]
    BY <1>1, <1>4, Zenon DEF SnapshotUdp, TypeOK
  <2>2. i \in Ids /\ udp[i] \in MaybeEntry /\ reader.seen \in Observations \cup {None}
    BY <1>1, <2>1, Zenon DEF TypeOK, Readers, MaybeEntry
  <2>3. answer \in RuntimeStatus \cup {"none"}
    BY <2>2, Zenon DEF aggregate_snapshot, Observations, Degraded, RuntimeStatus
  <2>4. /\ reader' \in Readers /\ reader'.id = i /\ reader'.seen = reader.seen
        /\ reader'.met = reader.met /\ reader'.answer = answer
    BY <2>1, <2>3, Zenon DEF Readers
  <2>5. answer \in {"active", "rejecting_no_host"} => reader.met
    <3>. SUFFICES ASSUME answer \in {"active", "rejecting_no_host"}, ~ reader.met PROVE FALSE
      OBVIOUS
    <3>1. reader.seen # None /\ o = reader.seen
      BY Zenon DEF aggregate_snapshot, Degraded
    <3>2. udp[i] # None /\ entry_state_for(udp[i].allocation) = reader.seen.state
      BY <2>2, <3>1, ObservedTyped, Zenon
    <3>. QED  BY <1>1, <2>1, <3>1, <3>2, Zenon DEF ReaderInv
  <2>6. ReaderInv'
    BY <1>1, <1>2, <2>1, <2>4, <2>5, Zenon DEF ReaderInv, SnapshotWitnessed
  <2>. QED  BY <1>2, <2>4, <2>6, ReaderAlone, Zenon
<1>5. ASSUME NEW id \in Ids, SnapshotTcp(id) PROVE Faithful
  <2>. DEFINE seen == Observed(tcp[id])
              r == [id |-> id, seen |-> seen, met |-> FALSE, answer |-> None]
              met == Met(r, tcp, udp)
  <2>1. tcp[id] \in MaybeEntry /\ udp[id] \in MaybeEntry
    BY <1>1, Zenon DEF TypeOK, MaybeEntry
  <2>2. seen \in Observations \cup {None} /\ met \in BOOLEAN
    BY <2>1, ObservedTyped, Zenon DEF Met
  <2>3. reader' = [r EXCEPT !.met = met]
    BY <1>5, Zenon DEF SnapshotTcp
  <2>. HIDE DEF seen, met
  <2>4. /\ reader' \in Readers /\ reader'.id = id /\ reader'.seen = seen
        /\ reader'.met = met /\ reader'.answer = None
    BY <2>2, <2>3, Zenon DEF Readers
  <2>5. last[id] # None /\ last[id].allocation.protocol = "both"
    <3>1. protocols[id] = "both" /\ protocols[id] # None
      <4>1. protocols[id] = "both"
        BY <1>5, Zenon DEF SnapshotTcp
      <4>. QED  BY <4>1, CallsAssumption, Zenon DEF Protocols
    <3>. QED  BY <3>1, Zenon DEF CallsInv, ProtocolsInv
  <2>6. (seen # None /\ ~ met) =>
           (udp[id] = None \/ entry_state_for(udp[id].allocation) # seen.state)
    <3>1. seen # None => tcp[id] # None /\ entry_state_for(tcp[id].allocation) = seen.state
      BY <2>1, ObservedTyped, Zenon DEF seen
    <3>. QED  BY <3>1, Zenon DEF met, Met
  <2>7. None \notin {"active", "rejecting_no_host"}
    BY RealAssumption, Zenon DEF RuntimeStatus
  <2>8. ReaderInv'
    BY <1>2, <2>4, <2>5, <2>6, <2>7, Zenon DEF ReaderInv, SnapshotWitnessed
  <2>. QED  BY <1>2, <2>4, <2>8, ReaderAlone, Zenon
<1>. QED  BY <1>3, <1>4, <1>5, Zenon DEF RealSnapshot

(* A call of the netlink runtime, from start to end in one step. *)
LEMMA NetlinkStep ==
  ASSUME CallsInv, NetlinkCalled
  PROVE  Faithful
<1>1. PICK op \in {"create", "update", "delete", "restore"}, id \in Ids, a \in Allocation,
           ok \in BOOLEAN :
        /\ MayCall(op, id, a)
        /\ Return(op, id, a, IF ok THEN "ok" ELSE "err")
        /\ NetlinkCall(op, id, a, ok)
  BY Zenon DEF NetlinkCalled
<1>. DEFINE result == IF ok THEN "ok" ELSE "err"
<1>2. /\ TypeOK /\ mode = "netlink" /\ result \in Results
      /\ UNCHANGED <<protocols, tcp, udp, call, reader, mode>>
      /\ protocols = Nothing /\ call = None /\ reader = None
  BY Zenon DEF NetlinkCalled, CallsInv, PhaseInv, Results, real
<1>3. /\ Alive /\ phase' \in {"restoring", "serving", "exiting"}
      /\ Alive' <=> ~ (op = "restore" /\ ~ ok)
  BY <1>1, Zenon DEF MayCall, MayCreate, MayUpdate, MayDelete, MayRestore, Return, Alive
<1>4. /\ recorded' \in [Ids -> Allocation \cup {None}] /\ stale' \in BOOLEAN
      /\ \A j \in Ids \ {id} : recorded'[j] = recorded[j]
      /\ op \in {"update", "restore"} => recorded'[id] = a
      /\ op = "create" => recorded'[id] = IF ok THEN a ELSE recorded[id]
      /\ op = "delete" => recorded'[id] = IF ok THEN None ELSE recorded[id]
  BY <1>1, <1>2, Zenon
     DEF TypeOK, NetlinkCall, NetlinkCreate, NetlinkUpdate, NetlinkRestore, NetlinkDelete,
                    apply_rules, project_upsert, project_delete
<1>5. last' \in [Ids -> Calls \cup {None}]
  BY <1>1, <1>2, RowAfter, Zenon
<1>6. CallsInv'
  <2>1. TypeOK'
    BY <1>2, <1>3, <1>4, <1>5, Zenon DEF TypeOK
  <2>2. ProtocolsInv' /\ PhaseInv' /\ ReaderInv' /\ CallInv'
    BY <1>2, <1>3, Zenon DEF ProtocolsInv, PhaseInv, ReaderInv, CallInv, Nothing
  <2>. QED  BY <1>2, <2>1, <2>2, Zenon DEF CallsInv
<1>7. Contract!ContractNext
  <2>1. Served = [j \in Ids |-> recorded[j]]
    BY <1>2, <1>3, Zenon DEF Served
  <2>2. Leaves(op, result, Served[id], recorded'[id], a)
    BY <1>4, <2>1, Zenon DEF Leaves, Binds
  <2>3. ~ Alive' => Served' = Nothing
    BY Zenon DEF Served, Nothing
  <2>4. Alive' => Served' = [Served EXCEPT ![id] = recorded'[id]]
    <3>1. Alive' => Served' = [j \in Ids |-> recorded'[j]]
      BY <1>2, Zenon DEF Served
    <3>. QED  BY <1>4, <2>1, <3>1, Zenon
  <2>. QED  BY <1>1, <1>2, <1>3, <2>2, <2>3, <2>4, ContractCall, Zenon
<1>. QED  BY <1>6, <1>7, Zenon DEF Faithful

(* The process starts, begins to serve, and ends. *)
LEMMA LifeSteps ==
  ASSUME CallsInv, Initialize \/ Serves \/ Crash
  PROVE  Faithful
<1>1. TypeOK
  BY Zenon DEF CallsInv
<1>2. CASE Initialize
  <2>1. PICK ok \in BOOLEAN : Started(ok) /\ (mode = "netlink" /\ ok => NetlinkInitialize(TRUE))
    BY <1>2, Zenon DEF Initialize
  <2>2. /\ phase = "down" /\ last = Nothing /\ recorded = Nothing /\ call = None
        /\ last' = last /\ phase' \in {"restoring", "down"}
    BY <2>1, Zenon DEF Started, CallsInv, PhaseInv, Nothing
  <2>3. /\ UNCHANGED <<protocols, tcp, udp, call, reader, mode, recorded>>
        /\ stale' \in BOOLEAN
    BY <1>1, <1>2, Zenon
       DEF Initialize, TypeOK, RuntimeModes, NetlinkInitialize, apply_rules, real, netlink
  <2>4. TypeOK'
    BY <1>1, <2>2, <2>3, Zenon DEF TypeOK
  <2>5. \A j \in Ids : (mode' = "proxy" /\ (call' = None \/ call'.id # j)) => Settled(j)'
    BY <2>2, <2>3, Zenon DEF CallsInv, Settled, Row
  <2>6. CallInv' /\ ProtocolsInv' /\ PhaseInv' /\ ReaderInv'
    BY <2>2, <2>3, Zenon
       DEF CallsInv, CallInv, ProtocolsInv, PhaseInv, ReaderInv, SnapshotWitnessed
  <2>7. Served' = Served
    <3>1. Served = Nothing
      BY <2>2, Zenon DEF Served, Alive, Nothing
    <3>2. mode = "proxy" => \A j \in Ids : tcp[j] = None /\ udp[j] = None
      BY <2>2, Zenon DEF CallsInv, Settled, Nothing
    <3>3. mode = "proxy" => \A j \in Ids : RealServes(j)' = None
      BY <2>2, <2>3, <3>2, Zenon DEF RealServes, Serve
    <3>4. mode \in {"proxy", "netlink"}
      BY <1>1, Zenon DEF TypeOK, RuntimeModes
    <3>5. \A j \in Ids : mode = "netlink" => recorded'[j] = None
      BY <2>2, <2>3, Zenon DEF Nothing
    <3>. QED  BY <2>3, <3>1, <3>3, <3>4, <3>5, Zenon DEF Served, Nothing
  <2>. QED  BY <2>2, <2>4, <2>5, <2>6, <2>7, Zenon DEF Faithful, CallsInv
<1>3. CASE Serves
  <2>1. /\ phase = "restoring" /\ phase' = "serving" /\ call = None
        /\ UNCHANGED <<protocols, tcp, udp, call, reader, mode, recorded, stale, last>>
    BY <1>3, Zenon DEF Serves, StartServing, real, netlink
  <2>2. TypeOK'
    BY <1>1, <2>1, Zenon DEF TypeOK
  <2>3. \A j \in Ids : (mode' = "proxy" /\ (call' = None \/ call'.id # j)) => Settled(j)'
    BY <2>1, Zenon DEF CallsInv, Settled, Row
  <2>4. CallInv' /\ ProtocolsInv' /\ PhaseInv' /\ ReaderInv'
    BY <2>1, Zenon DEF CallsInv, CallInv, ProtocolsInv, PhaseInv, ReaderInv, SnapshotWitnessed
  <2>5. Served' = Served
    BY <2>1, Zenon DEF Served, RealServes, Alive
  <2>. QED  BY <2>1, <2>2, <2>3, <2>4, <2>5, Zenon DEF Faithful, CallsInv
<1>4. CASE Crash
  <2>1. /\ phase' = "down" /\ last' = Nothing /\ recorded' = Nothing /\ stale' = FALSE
        /\ protocols' = Nothing /\ tcp' = Nothing /\ udp' = Nothing /\ call' = None
        /\ reader' = None /\ mode' = mode
    BY <1>4, Zenon DEF Crash, Crashed, RealExit, NetlinkExit, Nothing
  <2>2. TypeOK'
    BY <1>1, <2>1, Zenon DEF TypeOK, Nothing
  <2>3. \A j \in Ids : Settled(j)'
    BY <2>1, Zenon DEF Settled, Row, RowOf, Stored, Nothing
  <2>4. CallInv' /\ ProtocolsInv' /\ PhaseInv' /\ ReaderInv'
    BY <2>1, Zenon DEF CallInv, ProtocolsInv, PhaseInv, ReaderInv, Nothing
  <2>5. Served' = Nothing
    BY <2>1, Zenon DEF Served, Alive, Nothing
  <2>6. Contract!ContractNext
    BY <2>1, <2>5, Zenon DEF Contract!ContractNext, Contract!Ends, Contract!NoEntries, Nothing
  <2>. QED  BY <2>2, <2>3, <2>4, <2>6, Zenon DEF Faithful, CallsInv
<1>. QED  BY <1>2, <1>3, <1>4, Zenon

(* Every step of either runtime is faithful. *)
LEMMA StepFaithful ==
  ASSUME CallsInv, [Next]_vars
  PROVE  Faithful
<1>1. CASE Initialize \/ Serves \/ Crash
  BY <1>1, LifeSteps, Zenon
<1>2. CASE NetlinkCalled
  BY <1>2, NetlinkStep, Zenon
<1>3. CASE RealCalled
  <2>1. mode = "proxy" /\ UNCHANGED <<recorded, stale, mode>>
    BY <1>3, Zenon DEF RealCalled, netlink
  <2>2. ASSUME NEW op \in {"create", "update", "delete", "restore"}, NEW id \in ProxyIds,
               NEW a \in Allocation, Begin(op, id, a)
        PROVE  Faithful
    BY <2>1, <2>2, BeginStep, ProxyIdsAssumption, Zenon
  <2>3. CASE RealStep
    BY <2>1, <2>3, BindSteps, UpdateSteps, DeleteSteps, DropStep, SessionStep, Zenon DEF RealStep
  <2>4. CASE RealSnapshot
    BY <2>1, <2>4, SnapshotSteps, Zenon
  <2>. QED  BY <1>3, <2>2, <2>3, <2>4, Zenon DEF RealCalled
<1>4. CASE UNCHANGED vars
  <2>1. UNCHANGED <<protocols, tcp, udp, call, reader, phase, last, recorded, stale, mode>>
    BY <1>4, Zenon DEF vars, real, netlink
  <2>2. TypeOK'
    BY <2>1, Zenon DEF CallsInv, TypeOK
  <2>3. \A j \in Ids : (mode' = "proxy" /\ (call' = None \/ call'.id # j)) => Settled(j)'
    BY <2>1, Zenon DEF CallsInv, Settled, Row
  <2>4. CallInv' /\ ProtocolsInv' /\ PhaseInv' /\ ReaderInv'
    BY <2>1, Zenon
       DEF CallsInv, CallInv, ProtocolsInv, PhaseInv, ReaderInv, SnapshotWitnessed, Row
  <2>5. Served' = Served
    BY <2>1, Zenon DEF Served, RealServes, Alive
  <2>. QED  BY <2>1, <2>2, <2>3, <2>4, <2>5, Zenon DEF Faithful, CallsInv
<1>. QED  BY <1>1, <1>2, <1>3, <1>4, Zenon DEF Next

LEMMA InitFaithful ==
  ASSUME Init
  PROVE  CallsInv /\ Contract!ContractInit
<1>1. /\ mode \in RuntimeModes /\ phase = "down" /\ last = Nothing /\ recorded = Nothing
      /\ stale = FALSE /\ protocols = Nothing /\ tcp = Nothing /\ udp = Nothing
      /\ call = None /\ reader = None
  BY Zenon DEF Init, NetlinkInit, RealInit, Nothing
<1>2. TypeOK
  BY <1>1, Zenon DEF TypeOK, Nothing
<1>3. \A j \in Ids : Settled(j)
  BY <1>1, Zenon DEF Settled, Row, RowOf, Stored, Nothing
<1>4. CallInv /\ ProtocolsInv /\ PhaseInv /\ ReaderInv
  BY <1>1, Zenon DEF CallInv, ProtocolsInv, PhaseInv, ReaderInv, Nothing
<1>5. Contract!ContractInit
  BY <1>1, Zenon DEF Contract!ContractInit, Contract!NoEntries, Served, Alive, Nothing
<1>. QED  BY <1>2, <1>3, <1>4, <1>5, Zenon DEF CallsInv

(* What concerns the calls holds through starts, calls, dropped calls, snapshots and crashes  *)
(* of either runtime: runtime/real.rs at every await, runtime/netlink.rs at every call.       *)
THEOREM CallsInvariance == Spec => []CallsInv
<1>1. Init => CallsInv
  BY InitFaithful, Zenon
<1>2. CallsInv /\ [Next]_vars => CallsInv'
  BY StepFaithful, Zenon DEF Faithful
<1>. QED  BY <1>1, <1>2, PTL DEF Spec

(* RealRuntime and NetlinkRuntime implement the contract of RuntimeFacade that the allocation *)
(* service is built on, for any allocations, ports and hosts: what is served changes only when *)
(* a call ends, and as its result says.                                                        *)
THEOREM BackendsImplement == Spec => Implements
<1>1. Init => Contract!ContractInit
  BY InitFaithful, Zenon
<1>2. CallsInv /\ [Next]_vars => [Contract!ContractNext]_<<Served, last>>
  BY StepFaithful, Zenon DEF Faithful
<1>. QED  BY <1>1, <1>2, CallsInvariance, PTL DEF Spec, Implements, Contract!ContractSpec

(* After an Ok of RealRuntime its halves are exactly what was asked for, whatever was dropped *)
(* before.                                                                                    *)
THEOREM OkIsExact == Spec => []OkExact
<1>1. CallsInv => OkExact
  <2>. SUFFICES ASSUME CallsInv, NEW id \in Ids, mode = "proxy", Alive, call = None,
                       last[id] # None, last[id].result = "ok"
                PROVE  LET a == last[id].allocation
                           wanted(half) == last[id].op # "delete" /\ Uses(a.protocol, half)
                       IN  /\ tcp[id] = None \/ tcp[id].allocation = a
                           /\ udp[id] = None \/ udp[id].allocation = a
                           /\ tcp[id] # None <=> wanted("tcp")
                           /\ udp[id] # None <=> wanted("udp")
                           /\ CASE last[id].op = "delete" -> protocols[id] = None
                                [] last[id].op = "update" -> protocols[id] \in {a.protocol, None}
                                [] OTHER -> protocols[id] = a.protocol
    BY Zenon DEF OkExact
  <2>1. Settled(id) /\ (protocols[id] # None => protocols[id] = last[id].allocation.protocol)
    BY Zenon DEF CallsInv, ProtocolsInv
  <2>2. CASE last[id].op = "delete"
    BY <2>1, <2>2, Zenon DEF Settled
  <2>3. CASE last[id].op # "delete"
    <3>1. /\ Exact(tcp[id], udp[id], last[id].allocation)
          /\ last[id].op # "update" => protocols[id] = last[id].allocation.protocol
      BY <2>1, <2>3, Zenon DEF Settled
    <3>. QED  BY <2>1, <2>3, <3>1, Zenon DEF Exact
  <2>. QED  BY <2>2, <2>3, Zenon
<1>. QED  BY <1>1, CallsInvariance, PTL

(* A snapshot of a "both" allocation that is not degraded was so at some moment while it read. *)
THEOREM SnapshotsWitnessed == Spec => []SnapshotWitnessed
<1>1. CallsInv => SnapshotWitnessed
  BY Zenon DEF CallsInv, ReaderInv, SnapshotWitnessed
<1>. QED  BY <1>1, CallsInvariance, PTL

-----------------------------------------------------------------------------
(* The chain of the netlink runtime. *)

LEMMA ChainStep ==
  ASSUME CallsInv, ChainInv, [Next]_vars
  PROVE  ChainInv'
<1>. DEFINE Filled(r) == KernelBatch(None, replace_ruleset(rules_for_allocations(r)))
<1>1. \A r, c : KernelBatch(c, replace_ruleset(rules_for_allocations(r))) = Filled(r)
  BY RulesetReplaces, Zenon
<1>2. ChainInv' <=> ((mode' = "netlink" /\ Alive' /\ ~ stale') => kernel' = Filled(recorded'))
  BY Zenon DEF ChainInv
<1>3. (mode = "netlink" /\ Alive /\ ~ stale) => kernel = Filled(recorded)
  BY Zenon DEF ChainInv
<1>. HIDE DEF Filled
<1>4. CASE Initialize
  <2>1. PICK ok \in BOOLEAN : Started(ok) /\ (mode = "netlink" /\ ok => NetlinkInitialize(TRUE))
    BY <1>4, Zenon DEF Initialize
  <2>2. mode' = mode
    BY <1>4, Zenon DEF Initialize
  <2>3. Alive' => ok
    BY <2>1, Zenon DEF Started, Alive
  <2>4. mode = "netlink" /\ ok => kernel' = Filled(recorded')
    BY <1>1, <2>1, Zenon DEF NetlinkInitialize, apply_rules, send_and_process
  <2>. QED  BY <1>2, <2>2, <2>3, <2>4, Zenon
<1>5. CASE Serves
  <2>1. Alive /\ UNCHANGED <<mode, stale, kernel, recorded>>
    BY <1>5, Zenon DEF Serves, StartServing, Alive, netlink
  <2>. QED  BY <1>2, <1>3, <2>1, Zenon
<1>6. CASE NetlinkCalled
  <2>1. PICK op \in {"create", "update", "delete", "restore"}, id \in Ids, a \in Allocation,
             ok \in BOOLEAN : NetlinkCall(op, id, a, ok)
    BY <1>6, Zenon DEF NetlinkCalled
  <2>2. \E candidate : /\ apply_rules(candidate, ok)
                       /\ ok => recorded' = candidate
    BY <2>1, Zenon
       DEF NetlinkCall, NetlinkCreate, NetlinkUpdate, NetlinkRestore, NetlinkDelete
  <2>3. PICK candidate : apply_rules(candidate, ok) /\ (ok => recorded' = candidate)
    BY <2>2, Zenon
  <2>4. (ok => kernel' = Filled(candidate)) /\ stale' = ~ ok
    BY <1>1, <2>3, Zenon DEF apply_rules, send_and_process
  <2>. QED  BY <1>2, <2>3, <2>4, Zenon
<1>7. CASE RealCalled
  BY <1>2, <1>7, Zenon DEF RealCalled
<1>8. CASE Crash
  BY <1>2, <1>8, Zenon DEF Crash, Crashed, Alive
<1>9. CASE UNCHANGED vars
  <2>1. UNCHANGED <<mode, phase, stale, kernel, recorded>>
    BY <1>9, Zenon DEF vars, netlink
  <2>. QED  BY <1>2, <1>3, <2>1, Zenon DEF Alive
<1>. QED  BY <1>4, <1>5, <1>6, <1>7, <1>8, <1>9, Zenon DEF Next

(* The invariant holds through starts, calls, dropped calls, snapshots and crashes of either *)
(* runtime: runtime/real.rs at every await, runtime/netlink.rs at every call and whatever    *)
(* the kernel did with a batch that failed.                                                  *)
THEOREM BackendsInvariance == Spec => []BackendsInv
<1>1. Init => ChainInv
  BY Zenon DEF Init, ChainInv, Alive
<1>2. CallsInv /\ ChainInv /\ [Next]_vars => ChainInv'
  BY ChainStep, Zenon
<1>3. CallsInv /\ ChainInv => BackendsInv
  BY Zenon DEF BackendsInv
<1>. QED  BY <1>1, <1>2, <1>3, CallsInvariance, PTL DEF Spec

(* NetlinkRuntime, for any allocations: unless its chain is marked as stale, and whenever it  *)
(* reports an allocation as active, the kernel sends every packet where the recorded          *)
(* allocations say, whichever calls failed, were applied late or came from another process.   *)
THEOREM DispatchIsExact == Spec => []DispatchExact
<1>1. BackendsInv => DispatchExact
  <2>. SUFFICES ASSUME BackendsInv, mode = "netlink", Alive,
                       ~ stale \/ \E id \in Ids : /\ recorded[id] # None
                                                  /\ NetlinkSnapshot(id).status = "active",
                       NEW packet \in Packets
                PROVE  KernelDispatch(kernel, packet) = Expected(recorded, packet)
    BY Zenon DEF DispatchExact
  <2>1. recorded \in [Ids -> Allocation \cup {None}] /\ stale \in BOOLEAN
    BY Zenon DEF BackendsInv, CallsInv, TypeOK
  <2>2. ASSUME NEW id \in Ids, recorded[id] # None, stale
        PROVE  NetlinkSnapshot(id).status # "active"
    <3>. DEFINE a == recorded[id]
    <3>1. CASE Bound(a)
      <4>1. NetlinkSnapshot(id) = [observed_state_for(a) EXCEPT !.status = "degraded_apply_failed"]
        BY <2>2, <3>1, Zenon DEF NetlinkSnapshot
      <4>2. [observed_state_for(a) EXCEPT !.status = "degraded_apply_failed"].status
              = "degraded_apply_failed"
        BY DEF observed_state_for
      <4>3. NetlinkSnapshot(id).status = "degraded_apply_failed"
        BY <4>1, <4>2, Zenon
      <4>. QED  BY <4>3, Zenon
    <3>2. CASE ~ Bound(a)
      <4>1. NetlinkSnapshot(id) = observed_state_for(a)
        BY <2>2, <3>2, Zenon DEF NetlinkSnapshot
      <4>2. observed_state_for(a).status = "rejecting_no_host"
        BY <3>2 DEF observed_state_for
      <4>3. NetlinkSnapshot(id).status = "rejecting_no_host"
        BY <4>1, <4>2, Zenon
      <4>. QED  BY <4>3, Zenon
    <3>. QED  BY <3>1, <3>2, Zenon
  <2>3. ~ stale
    BY <2>1, <2>2, Zenon
  <2>4. kernel = KernelBatch(None, replace_ruleset(rules_for_allocations(recorded)))
    BY <2>3, Zenon DEF BackendsInv, ChainInv
  <2>5. KernelDispatch(KernelBatch(None, replace_ruleset(rules_for_allocations(recorded))), packet)
          = Expected(recorded, packet)
    BY <2>1, RulesetIsExact, Zenon
  <2>. QED  BY <2>4, <2>5, Zenon
<1>. QED  BY <1>1, BackendsInvariance, PTL
=============================================================================
