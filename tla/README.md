# A TLA+ model of relayd

relayd hands out ports, remembers them in SQLite and forwards the TCP and UDP
traffic that reaches them to the target each is bound to. An HTTP control plane
creates allocations, binds them to a target, unbinds and deletes them; after a
restart everything the database holds is brought up again. This directory holds
TLA+ modules that model the program, configurations with which TLC checks them
on small instances, and proofs that TLAPS checks for every instance.

Paths below are relative to the repository's root; `src/` there is the Rust code.

## The system

| part | state | operations | meets |
|---|---|---|---|
| allocation service (`src/service/allocation_service.rs`) | the mutation lock; the locals of each running handler | `create_allocation`, `put_binding`, `update_allocation`/`set_target`, `delete_binding`, `delete_allocation`, `restore_all`; reads and views | repository and runtime, one after the other, under the lock |
| SQLite repository (`src/storage/sqlite.rs`, `src/model.rs`) | tables `allocations` and `bindings`, unique index on (protocol, port) | one transaction per operation, the port search, the row mappers, migration of old rows | the service; readers that hold no lock |
| runtime facade (`src/runtime/facade.rs`) | which allocation is served under which id | `initialize`, `create`, `update`, `delete`, `restore`, `snapshot` | implemented by the four below |
| real runtime (`src/runtime/real.rs`) | the map `protocols` | the facade, with `both` as a TCP half and a UDP half and a rollback between them | TCP and UDP runtimes |
| TCP runtime (`src/runtime/tcp.rs`) | entries: target state, sessions, accept task, counters | the facade; accept loop, sessions, copy loops | clients and upstreams |
| UDP runtime (`src/runtime/udp.rs`) | entries: target state with a generation, sessions by client, counters | the facade; receive loop, reply loops, idle expiry, compaction | clients and upstreams |
| netlink runtime (`src/runtime/netlink.rs`) | allocations, `stale_error`, the kernel's ruleset | the facade: every call replaces the whole ruleset | nftables |
| HTTP control plane (`src/http/control_plane.rs`) | none of its own but the rate calculator | one handler per route | the service |
| rate calculator (`src/prometheus.rs`) | the previous sample per listener | `calculate` at each scrape | listener counters |
| process (`src/bin/relayd.rs`), configuration (`src/config.rs`) | - | open, restore, serve; shutdown | everything |
| metrics (`src/metrics.rs`), ids (`src/uuid.rs`) | counters | - | - |

What makes it hard:

* Handlers run concurrently and every await is a point where others run. Every
  mutating operation takes one lock for its whole length.
* Two stores change one after the other. Creating and deleting change the runtime
  first, binding changes the database first; either may fail in between.
* A client that disconnects drops the handler's future at whatever await it is at:
  the lock is released, the rest, a rollback included, never runs.
* The process may die at any point; only the tables survive.
* In the data plane an update of the target races with connections, sessions,
  replies and expiry that started under the old one.

## The modules

| module | models |
|---|---|
| `Repository` | the tables, the mappers, the port search and the transactions |
| `RuntimeFacade` | what each call of the facade may leave behind |
| `AllocationService` | the handlers, failures, dropped futures, crashes, startup; properties |
| `PortRegistry` | the abstract specification: what the control plane promises |
| `AllocationServiceInv` | the inductive invariant |
| `MCAllocationService` | the instance for TLC (symmetry) |
| `UdpListener` | one entry of the UDP runtime: its loops, its sessions, update and delete; properties |
| `UdpListenerInv` | its inductive invariant |
| `MCUdpListener` | the instance for TLC (symmetry) |
| `TcpListener` | one entry of the TCP runtime: control operations, accept loop, sessions; properties |
| `TcpListenerInv` | its inductive invariant |
| `RuntimeCalls` | the calls the service makes of a runtime, as both runtimes see them |
| `NftChain` | the netlink runtime's rules, maps and batches, and the kernel that runs them |
| `NetlinkRuntime` | its recorded allocations, the stale mark and the chain |
| `RealRuntime` | the proxy runtime: `both` as a TCP half and a UDP half, snapshots |
| `FacadeContract` | the contract of `RuntimeFacade` as a specification |
| `RuntimeBackends` | the runtime of a process in either mode; properties and refinement |
| `RuntimeBackendsInv` | its inductive invariant |
| `RateCalculator` | scrapes of the Prometheus route and the samples they share |
| `ControlPlane` | the routes that read, beside the service and the scrapes; properties |
| `ControlPlaneInv` | its inductive invariant |
| `MCTcpListener`, `MCRuntimeBackends`, `MCControlPlane` | the instances for TLC |
| `ServiceSteps_proofs` | the port search finds the least free port; lemmas that the proofs of all actions share; the steps of every operation keep the invariant |
| `AllocationService_proofs` | failures and startup keep it; the invariance theorem and its corollaries; the action properties and the refinement |
| `TcpListener_proofs` | the invariant of a TCP listener and what follows from it |
| `UdpTasks_proofs` | the reply loops, the cleanup loop, update and delete keep the invariant of a UDP listener |
| `UdpListener_proofs` | the receive loop keeps it; the invariance theorem and what follows from it |
| `NftChain_proofs` | what a batch makes of the chain, and where the chain sends a packet |
| `RuntimeBackends_proofs` | the invariant of the runtimes, that they implement the contract, and that the chain dispatches as recorded |
| `ControlPlane_proofs` | the invariant of the routes that read, and what views and rates show |

### Repository

`allocations` and `bindings` are the two tables, as functions from ids to rows or
`None`. A row keeps protocol, port, target_port (0 when unbound, a NOT NULL
column) and host; timestamps are left out because no property tells them apart.
`ToAllocation` is what the three mappers have in common: a binding's target wins
over the row's column, and so does its host, but only if it has one.
`OccupiedPorts`, `CandidatePorts` and `FindAvailablePort` are the three parts of
the SQL query. The pool has a single connection, so a transaction is one step.

### RuntimeFacade

`entries` is what the runtime serves. The module is the union of what the
implementations do: the netlink runtime records the allocation of a failed update
and the TCP and UDP runtimes do not, so a failed update leaves the old or the new
entry. A dropped `create` of a `both` allocation may leave its TCP listener, a
dropped `delete` its UDP listener or both. A `both` update that fails between its halves
leaves them with different targets; here that is abstracted to the old or the new
entry, and in both cases the id counts as half done. That these actions are what
the runtimes do is shown by `RuntimeBackends`, below.

### AllocationService

A step ends where the code awaits the lock, the database or the runtime. `pc[c]`
is the await at which the handler of client `c` is:

| label | await |
|---|---|
| `lock` | `self.mutation_lock.lock()` |
| `find`, `create`, `persist`, `rollback` | the four calls of `create_allocation` |
| `read`, `commit`, `update` | the three calls of `put_binding`, `update_allocation` and `delete_binding` |
| `read`, `delete`, `db_delete` | the three calls of `delete_allocation` |

`Call` and `Lock` start a request, and its arguments are chosen when the lock is
taken, because nothing looks at them before; `CallRefused` is the host check that
`put_binding` makes before it locks. `RepositoryFails`, and the second disjuncts
of the other steps, are the errors. `Cancel` is a dropped future, `Crash` the end
of the process by a signal or otherwise, and `Open`, `ListForRestore`, `Restore`,
`Serve` and `StartupFails` are the startup. `suspect` and `half_done` are history
variables: the ids that an operation left with one store changed and the other
not since the last start, and how many times that happened. An id leaves `suspect`
when an operation on it ends well. `refused` remembers the ports that the runtime
refused to the create in progress.

A handler gets a fresh id from `FreshIds`: an id that no row, no entry, no handler
and no half-done operation has used. An id may be used again after its allocation
has been deleted, which keeps the instances small; a UUID never is.

### UdpListener

One entry of the UDP runtime, from the moment its socket is bound. Its tasks are
the receive loop (`rx`), the cleanup loop, one reply loop per session and the
control operation, of which there is one at a time under the service's lock. Each
has its place in `pc`, and a step ends at an await:

| task | labels |
|---|---|
| receive loop | `recv`; `lookup`, `insert`, `replaced`, `spawn`, `handle` (the locks and waits of `session_for` and `spawn_reply_loop`); `send`, `remove` |
| reply loop | `loop`, `recv`, `check`, `send`, `remove` |
| cleanup loop | `tick`, `remove` |
| control | `ready`, `stop_rx`, `stop_cleanup`, `drain`, `close`, `wait` |

`session` holds what a `UdpSession` is created with, `sessions` is the table,
`closed`, `handle` and `aborted` are the flag, the stored `JoinHandle` and the
effect of `abort()`: an aborted task ends at some later await (`Die`), not at once.
`batch`, `snap` and `prepared` are the locals of `prepare_datagram_batch`. `asked`
are the sessions whose upstream was sent something: only those get replies.
`Dropped` drops the future of an update or delete. `dropped` and `unwaited` are
history: an operation was dropped since the last complete one, and the sessions
whose reply loop nobody waited for.

Left out: `last_seen`, as any session may be old when the cleanup loop looks; the
copy of the table that loop makes, as `remove_session` checks the identity again;
counters; the shrinking of an empty table. The generation is not `saturating_add`ed
to its end: 2^64 updates.

### TcpListener

One entry of the TCP runtime, from before its `create` to after its `delete`. The
tasks are the control operation (`control`), the accept loop (`accept`) and one
task per session (`session[s].pc`); a step ends at an await:

| task | labels |
|---|---|
| control | `insert` (create, restore); `write`, `close` (update); `join`, `drain` (delete); between them `absent`, `ready`, `deleted` |
| accept loop | `accept`; `read`, `reject`, `register` (the locks and waits of `handle_client`) |
| session | `connect`, `copy`, `refused` and `fail` (waiting to write the entry's error), `remove` |

`generation` numbers the state writes and `session[s].born` is the number under
which the client's target was read; the code has no such number, it is how the
model tells targets apart. `handles` are the keys of `entry.sessions`, `signalled`
the sessions whose oneshot sender was used or dropped. A copy is the set of
directions still open: the buffered one ends with the first error, the spliced one
when both directions have ended. `Close` is the branch of `select!` that drops the
forwarding future with its guard. `dropped`, `quiet` and `lost` are history: an
operation was dropped before it closed the sessions, no older session was under way
at the last state write, and accept has failed. A create that is dropped while it
waits to insert its entry leaves an accept loop that nothing refers to.

### RealRuntime, NetlinkRuntime and their composition

`RuntimeCalls` says when the service calls a runtime, from what it has stored after
the call before: rows are restored before serving, a binding is stored before
`update`, a row deleted after `delete`. `RealRuntime` takes one step per await of a
call (`call.at`), and a reader takes the two halves of a snapshot in two steps,
with the lock of `protocols` held over both (`ProtocolsFree`). Of
a half only the entry is kept, with the error a TCP session may leave in it.
`Serve` is the allocation that two entries amount to.

`NetlinkRuntime` has one step per call, for none of them awaits. `send_and_process`
has three outcomes: applied, not applied, and applied with the acknowledgement lost,
the last two both being errors. `NftChain` keeps the registers of a rule's
expressions in their order and the maps of ports, and a group of rules is the set of
their places in the list; `KernelMessage` to `KernelDispatch` are external: a batch is applied as a whole, the first rule that
matches decides, and a rule runs its expressions on three registers. Allocations on
one port, which the service never makes, are in the instance to exercise the choice
of the first.

`RuntimeBackends` starts a process in one mode, calls its runtime and crashes it.
The chain in the kernel outlives the process. `FacadeContract` puts the actions of
`RuntimeFacade`, the ones `AllocationService` is built on, into a specification, and
`Implements` says that what the runtimes serve behaves by it. With `ImplementsRegistry`
that makes two layers: the runtimes implement the contract, and the service, over
anything that keeps the contract, implements the registry.

### ControlPlane and RateCalculator

`ControlPlane` adds to `AllocationService` a client that reads. `ListRows` and
`ListBindings` are the two queries of `list_allocations`, `GetAllocationView` and
`GetBindingView` the single ones, `Answer` the view that is read after a change has
released the lock, `ViewSnapshot` the call of the runtime. `stored`, `quiet` and
`deleting` are the view's history. The runtime is the one of the service, with the part
of `RealRuntime` that decides what a snapshot says: in proxy mode (`mode`) it finds
nothing for an id that is not in `protocols`. `create` and `restore` put the id there
as their last step (`Noted`), and `delete` takes it out before it stops anything
(`ForgetProtocol`), so a view may look between the two. `begun` is history: the ids
with a row that the runtime was told to delete.

`RateCalculator` lets scrapes overlap: rows of TCP, rows of UDP and the time, then
the calculator's lock. Listeners come, count and go. Received and sent bytes are
treated alike in the code and are one counter here. The clock is any number at each
scrape, as only the sign of the time elapsed decides anything but a division.
Scrapes and views share no state, so an instance has one or the other (`gets`).

## What TLC checks

| run | asks | instance | distinct states |
|---|---|---|---|
| `service_safety` | do the two stores stay in agreement, and is a success reply the truth, whatever fails; are ports exclusive and the search right at its ends; do the tables implement `PortRegistry` | 2 ids, 2 clients, 2 hosts, ports 1..2 = u16::MAX, old databases, one half-done operation | 0.2 million |
| `service_liveness` | does every handler end, does the service come up again | 1 id, 2 clients, 2 ports, one half-done operation | 15 thousand |
| `udp_safety` | do datagrams that share batches reach the right session and target; is an update complete when it returns | 2 peers, 2 targets, 2 sessions, batches of 2, one update | 2.4 million |
| `udp_cancels` | does the limit hold, and what does a dropped update or delete leave behind | 2 peers, 2 targets, a table of 1, batches of 1, one update | 1.4 million |
| `udp_liveness` | do update and delete return, does the receive loop go on | 1 peer, 1 target, 2 sessions, one update | 0.3 million |
| `udp_stale_reply` | is a reply always of the current generation when it is sent | 1 peer, 1 session | violated |
| `udp_leak` | does the reply loop of every closed session end | 1 peer, 1 session | violated |
| `tcp` | what does delete leave behind, are handles and gauge exact, does everything told to end do so | 2 sessions, 2 updates, splice with its fallback, dropped operations | 0.2 million |
| `tcp_straggler` | does every session of an older target end once an update is over | 1 session, 1 update, nothing dropped | violated |
| `runtime_backends` | do both runtimes keep the contract, is a snapshot between halves true, does the kernel dispatch as recorded | 2 ids on one port, an IPv4 and an IPv6 host | 0.1 million |
| `snapshot_forgets` | does a snapshot report what an Ok call has put in effect in both halves | 1 id in proxy mode | violated |
| `control_plane` | do views show what was stored and is in effect, do rates report bytes that were carried | 1 id, 1 client, 2 hosts, either mode; 1 listener with 2 lives, 2 scrapes at a time | 0.3 million |

Bounds. Two clients are enough for every interleaving that matters: all mutation
is under one lock, so a third could only wait. Two ids on two ports fill the range,
leave a gap at its start and put `tcp` and `udp` on one port. `MaxPort` is the end
of the range in `service_safety`, which makes `checked_add` overflow. `MaxHalfDone`
bounds how many operations may be left half done between two starts: one is enough
for every order of the two stores' changes with a later operation or a restart. A
create is accepted only while an id is left.

A UDP session object is never used again, so `Sessions` bounds how many are ever
created: with two, one replaces or follows the other, or two clients have one each.
One update and one delete give every race of a batch with a change; the second
generation is as old to the third as the first to the second. A table of one makes
two clients contend for the limit. `udp_safety` excludes dropped operations and
`udp_cancels` batches of two, to keep each small. The UDP runs have no deadlock check,
as an entry that has been deleted stops.

Two TCP sessions give one that is registered and one in hand when an update comes;
the second update closes what the first has left. In `runtime_backends` the proxy
runtime is given one id: two of its allocations meet only where a port is taken,
which a bind may always answer. Two ids in netlink mode fill a chain with rules of
both families and both protocols, or with two rules for one port. In
`control_plane` one id is enough because no row of a list depends on another, and
three bytes over two lives of a listener let a counter begin again below, at and
above where it was.

Properties:

* `NoPortOverlap`: no two rows share a socket. The unique index does not give this
  (`tcp` and `both` on one port are different keys); the lock and the search do.
* `ExhaustionIsReal`: `NoAvailablePort` is answered only when every port of the
  range is held by an overlapping row or was refused to this request.
* `ImplementsRegistry`: read through the mappers, the tables change only as
  `PortRegistry` allows: created on a free port, bound, unbound, removed, whole.
* `MirrorOnceOpen`: a row repeats its binding, so the fallback on the row's host
  never brings an old host back.
* `RuntimeAgrees`: no listener without a row, no row without a listener, no stale
  target, except for the id that the lock holder is working on and those in `suspect`.
* `OkMeansApplied`: when a request is answered with success both stores hold what
  it asked for.
* `EveryCallEnds`, `Recovers`: liveness, below.

* `TableFresh`: the session a client finds in the table is its own; of the current
  generation, it leads to the current target and is open (a closed one would cut the
  client off until the TTL); outside an update there are no others.
* `RightTarget`: what is about to be sent goes over a session of the datagram's
  client, to the target in effect when the batch was read.
* `NoLateReplies`: when update or delete has returned, no reply of a session that
  it closed is on its way. Excepted are sessions removed before by an error or
  by expiry, which are aborted and not waited for, those that a dropped operation
  had drained, and the one the receive loop itself is waiting for.
* `SessionLimit`: the limit is checked under one lock and the insertion made under
  another, and it holds because only the receive loop inserts.
* `OperationsEnd`, `ReceiveContinues`: liveness, below.
* `StaleSessionsEnd` (violated): the M3 specification, line 37, says that updating a
  binding closes the active sessions "so stale target connections do not continue
  indefinitely". The client that `handle_client` has in hand reads the old state before
  the update writes, and registers after the update has drained the table: its session
  goes on until its peers end it, or a later update or a delete. `OneStraggler`, which
  is proved, says that an update leaves one such session at most.
* `DeletedClean`: a delete leaves none, because it waits for the accept task before it
  drains the table.
* `HandlesExact`, `GaugeExact`: on every path by which a session ends its handle goes
  and its count goes down, once.
* `ErrorOfTarget`: the error an entry shows is of its target, if nothing of the old
  one was under way at the update. If something was, its error may come late and stay.
* `ListedAccepts`: an entry that is reported has its listener, until accept fails once:
  that ends the loop, and the entry goes on to report `Active`.
* `OperationsEnd`, `ClosedEnds`, `PortReleased`: liveness, below.
* `UdpInv`, `TcpInv`, `BackendsInv`, `ControlInv`: the inductive invariants, below.
* `Implements`: both runtimes keep the contract; a failed create leaves nothing, the
  TCP half of a `both` included, a failed delete everything.
* `OkExact`: after a call that returned Ok the halves are exactly what it asked for,
  whatever was dropped before, except for `protocols` after an update.
* `OkReported` (violated): the M5 specification, line 35, says of `snapshot` "When both
  concrete snapshots agree, return that state". A delete dropped after it has removed
  the id from `protocols` leaves both halves running; an update of them returns Ok, no
  update puts the protocol back, and `snapshot` says that there is nothing.
* `SnapshotWitnessed`: a snapshot of `both` that is not degraded was true at some moment
  while it read. It holds because update and snapshot both take TCP first.
* `DispatchExact`: unless the chain is marked stale, the kernel sends every packet where
  the recorded allocations say. With the mark no bound allocation is reported active,
  but one that was being unbound when the replacement failed is reported as
  `rejecting_no_host` while the kernel may still forward.
* `ShownWasStored`: a listing that reads two tables at two moments shows a target that
  was stored meanwhile, unless the allocation changed twice in between; then it may
  show a host of the first moment with a port of the second.
* `QuietViewAgrees`: if nothing changed under a view, the effective target it shows is
  the configured one. Once `RealRuntime` was told to delete the allocation, the view
  may show nothing in effect instead, but never another target; that lasts until the
  next start if the delete was dropped.
* `RatesWitnessed`: a rate is of bytes that were carried between the two samples, except
  for a scrape that is overtaken by one that saw the listener's next life.
* `FirstRateIsZero`: no rate spans a scrape in which the listener was gone.
* `StaleNeverSent` (violated): the M4 specification, line 39, says that stale
  replies "never reach clients". The reply loop checks under the table's lock and
  sends after it: an update in between is too late.
* `ReplyLoopsEnd` (violated): line 92 there says that the gauges never "leak". The
  reply task is spawned before its handle is stored; a session closed in between
  keeps its task, socket and count for as long as its upstream is silent.

The M3, M4 and M5 specifications are `2026-05-15-rust-migration-m3-baseline-tcp-runtime.md`,
`2026-05-15-rust-migration-m4-baseline-udp-runtime.md` and
`2026-05-15-rust-migration-m5-dual-protocol-runtime-parity.md` under `docs/superpowers/specs/`.

Fairness. Every handler's next step is weakly fair: tokio polls a task that is
ready, and each database and runtime call returns. Taking the lock is strongly
fair, because tokio's mutex is first in, first out. The startup steps are weakly
fair. Requests, disconnects, failures and crashes are not fair, so `Recovers`
assumes that crashes and failing starts come to an end.
In `UdpListener` the steps of every task are weakly fair, and so is the end of an
aborted task; for the receive loop, whose steps between two awaits are several, it
is strongly fair: tokio ends an aborted task the next time it yields. Datagrams,
replies, errors, expiry and control operations are not fair.
In `TcpListener` an operation that has begun, a client that was accepted, a session
that was told to close or has an error to write, and the end of an aborted task are
weakly fair. That a client comes, a connect returns or a copy ends is not: the
sessions an update or delete closes must end without the help of their peers.
`runtime_backends`, `snapshot_forgets` and `control_plane` check safety only.

## What is proved

The constants are arbitrary: any sets of ids, clients and hosts, any `MaxPort` and
any range within 1..MaxPort. The assumptions are the named `ASSUME`s: the range is
well formed as `parse_port_range` makes sure, `None` is none of the values it
stands beside, and target ports of requests are ports.

* `FindAvailablePortIsLeastFree`: the query returns the least port of
  `start..end` that no conflicting row holds, and nothing only if there is none.
  The argument: the least free port is the start or the successor of an occupied
  port, hence a candidate.
* `Invariance`: `Spec => []Inv`. `TypeCorrect`, `PortsAreExclusive`,
  `RowsMirrorBindings` and `RuntimeAgreement` follow from it.
* `ExhaustionTheorem`, `OkTheorem`, `Refinement`: every step that keeps `Inv`
  satisfies the two action properties and is a step of `PortRegistry` or a stutter.

None of the properties is inductive alone. `Inv` adds what the handlers rely on:
`LockInv` (a handler past the lock holds it, and nobody else does), `RowsInv`
(exclusive ports, mirrored rows), `StartupInv` (before serving no handler runs and
entries are exactly the rows restored so far), `CreateInv` (the ports below the
search position are held or were refused; the port being tried is still free; the
new id has no row) and `ChangeInv` (what the handler read is still what the tables
hold). The last two are what the lock is for. `Inv` is itself an invariant of
`service_safety`.

* `TcpInvariance`: `Spec => []TcpInv`, for any number of sessions and updates.
  `UpdatesLeaveOne`, `DeletesClean`, `TablesExact`, `GaugeCounts`, `ErrorsOfTarget` and
  `ListedAccept` follow from it. `UpdatesLeaveOne` (`OneStraggler`) bounds what
  `tcp_straggler` shows.
* `UdpInvariance`: `Spec => []UdpInv`, for any clients, targets and sessions, any limit,
  batch size and number of updates, with or without dropped operations.
  `SessionLimitHolds`, `TableFreshHolds`, `RightTargetHolds` and `NoLateRepliesHolds`
  follow from it.
* `BackendsInvariance`: `Spec => []BackendsInv`, for any ids, hosts and ports.
  `OkIsExact` and `SnapshotsWitnessed` follow from it, and `DispatchIsExact` from it and
  the next two.
* `RulesetReplaces`: a batch leaves nothing of what the chain held.
* `RulesetIsExact`: the chain that the batch for any recorded allocations makes sends every
  packet where they say: to the first of the allocations with its family, protocol and
  port, and nowhere if there is none or the packet is not for this host.
* `BackendsImplement`: `Spec => Contract!ContractSpec`. Every step that keeps
  `BackendsInv` is, for the allocations served, a step of the contract or a stutter.
* `ControlInvariance`: `ControlSpec => []ControlInv`, for any ids, clients, keys and
  scrapers. `ListShowsStored` and `QuietViewsAgree` follow from it; `RatesAreWitnessed` and
  `FirstRatesAreZero` hold of every step that keeps it.

`TcpInv` adds to the properties: `NumbersInv` (sessions are numbered without gaps, so
the next number is free), `LoopInv` (a snapshot of the state is held exactly between
reading it and registering), `EntryInv` (only delete stops the loop, and the entry is
not listed by then), `StragglerInv` (between operations the client in hand and the
sessions of an older target are one at most, together: this is what makes
`OneStraggler` inductive) and `QuietInv`. The steps of a session are proved from one
description of what such a step may change (`TaskMoves` in the proofs).

`UdpInv` adds: `CreatedInv` (nothing refers to a session that does not exist),
`TargetsInv` (sessions and batches of one generation agree on its target), `BatchInv`
(what is prepared fits the datagrams), `MakingInv` (the session being made is known to
nobody before it is inserted, and the table has room until then: only the receive loop
inserts, so the limit checked under one lock still holds under the next), `DeleteInv` (delete
stops the receive loop before it drains the table, so nothing refills it) and
`RepliesInv`: a reply loop that has something to send can be reached by whoever takes
its session out of the table, because nothing is sent upstream before the handle is
stored. The last is what `NoLateReplies` rests on, and it says nothing of a loop without a
handle that was never sent anything: that is the one `udp_leak` shows. The reply loops and
the cleanup loop are proved from one description of their steps (`OtherMoves`), the
control operations from a second (`ControlMoves`), the receive loop from a third
(`RxMoves`).

`BackendsInv` says of each call how far its halves have come at each await (`Binding`,
`Updating`, `Deleting`), what a call that has ended has left (`Settled`), that a
protocol in the map is the one of the last call, and, for readers, that the UDP half
has not come to what was seen of TCP unless both were there together (`CallsInv`). Of the
netlink runtime it says (`ChainInv`) that a chain without the stale mark is what the batch
for the recorded allocations makes of an empty one: a failed batch sets the mark, and a
batch that succeeds replaces whatever the failed ones left.

`RulesetIsExact` is proved in four parts. The recursive functions of the model
(`rules_for_allocations`, `KernelBatch`, `KernelRegs`) satisfy their equations, by
induction over an initial segment of the naturals, with a set in the place of the
predicate (`UpTo`). The list of rules has one for each protocol of each bound allocation,
in the order of ids (`Listed`). A rule's ten expressions are run one by one
(`RuleDecides`): the address has to be looked up first because the port's lookup
overwrites its own key. At most one of the four rules of a chain decides anything for a
packet, and its maps keep the first rule of each port, which is the one of the least id.

`ControlInv` adds to `Inv` of the service what a view knows between its two queries
(`ListedInv`: the last target in its history is the stored one, and a host that has gone
from the row has left its trace there), what a view that met no change may rely on
(`QuietInv`), that every listed row is in `protocols` unless it is still to be restored or
a delete of it was begun (`RuntimeInv`, without which a view could miss a listener), and
for scrapes that any two rows of a key, whether held by a scrape, kept as
a sample or still counting, relate as the bytes carried between them do (`Counts`): rows are
used in another order than they were read, so it takes all pairs.

The assumptions of all of these are again the named `ASSUME`s: bounds are natural numbers
and `None` is none of the values it stands beside.

Only model-checked are the liveness properties, with the fairness they assume: liveness
is out of the prover's reach. Every safety property that a passing run checks is proved.

## Not modelled

* Failpoints (`Failpoints` in the service): set by tests only. The branch of
  `delete_allocation` that restores the listener is reached only through one.
* Routing, authentication and JSON: functions of a single request.
* Timestamps, logging, file permissions.
* Metrics: independent counters that nothing reads back.
* The bytes of netlink messages and of the Prometheus text: encoding.
* The UDP byte counters and the shrinking of empty tables, which change no decision.
* The bytes a TCP session has copied: they are added to the counters when a copy ends
  well, and not at all when an update or delete closes the session or it fails.
  Bytes from the client are added to `tx`, where `docs/API.md` lines 363-364 calls
  them `rx`, as the UDP runtime does; no property tells the two apart.
* The command line client, parsing of flags and environment, logging setup.
* A snapshot of a single half, and `snapshot_listener_metrics` of the netlink runtime,
  which is always empty: there are no rates in that mode.
