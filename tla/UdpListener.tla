----------------------------- MODULE UdpListener -----------------------------
(***************************************************************************)
(* One entry of the UDP runtime (runtime/udp.rs): the receive loop, one    *)
(* reply loop per session, the cleanup loop, and the control operations    *)
(* `update` and `delete`, which the service's mutation lock serialises.    *)
(* A step ends at an await.  A task that is aborted dies at some later     *)
(* await, not at once.  Between two steps any time may pass, so any        *)
(* session may be older than its TTL and last_seen is left out; so are     *)
(* payloads, counters, and the capacity of the session table with its      *)
(* empty_since, on which nothing else depends.                             *)
(***************************************************************************)
EXTENDS Integers, Sequences, FiniteSets

CONSTANTS
  Peers,          \* client addresses
  Targets,        \* (host, target_port) pairs
  Sessions,       \* identities of UdpSession objects: never used twice
  MaxSessions,    \* entry.max_sessions
  MaxGeneration,  \* bound: number of updates
  BatchSize,      \* UDP_MAX_RECEIVE_BATCH_SIZE
  Cancels,        \* whether a control operation's future may be dropped
  None

(* What a UdpSession is created with, and what prepare_datagram_batch reads of the state. *)
SessionFields == [peer: Peers, target: Targets, generation: 0..MaxGeneration]
Snapshots == [target: Targets, generation: 0..MaxGeneration]

ASSUME UdpAssumption ==
  /\ MaxSessions \in Nat
  /\ MaxGeneration \in Nat
  /\ BatchSize \in Nat \ {0}
  /\ Cancels \in BOOLEAN
  /\ None \notin Targets \cup Sessions \cup SessionFields \cup Snapshots
  /\ {"rx", "cleanup", "control"} \cap Sessions = {}

VARIABLES
  target,      \* EntryState: effective host and target port, or None
  generation,  \* EntryState.generation, and the atomic copy of it
  sessions,    \* the session table: [Peers -> Sessions or None]
  session,     \* the fields of each session object that never change, or None
  closed,      \* the sessions whose `closed` is set
  asked,       \* the sessions whose upstream has been sent a datagram
  handle,      \* the sessions whose reply_task is Some
  aborted,     \* the tasks that were aborted
  pc,          \* where each task is: receive loop, cleanup loop, control, reply loops
  work,        \* the session each task is working on
  batch,       \* receive loop: the peers of the datagrams received
  snap,        \* receive loop: the state it read for them
  prepared,    \* receive loop: the sessions found for them so far
  list,        \* the sessions still to wait for (receive loop), still to close (control)
  dropped,     \* history: an operation was dropped since the last complete one
  unwaited     \* history: the sessions whose reply loop nobody waited for

table == <<target, generation, sessions, session>>
flags == <<closed, asked>>
tasks == <<handle, aborted>>
locals == <<batch, snap, prepared>>
vars == <<target, generation, sessions, session, closed, asked, handle, aborted,
          pc, work, batch, snap, prepared, list, dropped, unwaited>>
history == <<dropped, unwaited>>

Actors == {"rx", "cleanup", "control"} \cup Sessions

(* The sessions in the table. *)
Current == {sessions[p] : p \in Peers} \ {None}

(* session.generation == entry.generation of a session that exists *)
OfGeneration(s, g) == s # None /\ session[s].generation = g

Alive(a) == pc[a] \notin {"none", "done"}

Init ==
  /\ target \in Targets \cup {None}
  /\ generation = 0
  /\ sessions = [p \in Peers |-> None]
  /\ session = [s \in Sessions |-> None]
  /\ closed = {}
  /\ asked = {}
  /\ handle = {}
  /\ aborted = {}
  /\ pc = [a \in Actors |-> CASE a = "rx" -> "recv" [] a = "cleanup" -> "tick"
                              [] a = "control" -> "ready" [] OTHER -> "none"]
  /\ work = [a \in Actors |-> None]
  /\ batch = << >>
  /\ snap = None
  /\ prepared = << >>
  /\ list = [a \in {"rx", "control"} |-> {}]
  /\ dropped = FALSE
  /\ unwaited = {}

Go(a, label) == pc' = [pc EXCEPT ![a] = label]

-----------------------------------------------------------------------------
(* remove_session(expected), called by the receive, reply and cleanup loops. *)

(* Where the caller goes on. *)
Caller(a) == CASE a = "rx" -> "send" [] a = "cleanup" -> "tick" [] OTHER -> "done"

(* Mutant: the handle is taken and the task forgotten. *)
TakeHandleOnly(s) ==
  /\ handle' = handle \ {s}
  /\ UNCHANGED aborted

(* reply_task.lock(): the handle is taken and the task aborted. *)
TakeHandle(s) ==
  /\ handle' = handle \ {s}
  /\ aborted' = aborted \cup (handle \cap {s})

(* Under the table's lock the session is removed if it is still the current one; then  *)
(* its reply loop is aborted and not waited for.  Nobody holds reply_task while its    *)
(* session is in the table, so that is one step.                                       *)
Remove(a) ==
  LET s == work[a]
      p == session[s].peer
  IN  /\ pc[a] = "remove"
      /\ IF sessions[p] = s
         THEN /\ sessions' = [sessions EXCEPT ![p] = None]
              /\ closed' = closed \cup {s}
              /\ TakeHandle(s)
              /\ unwaited' = unwaited \cup {s}
         ELSE UNCHANGED <<sessions, closed, tasks, unwaited>>
      /\ Go(a, Caller(a))
      /\ work' = [work EXCEPT ![a] = None]
      /\ UNCHANGED <<target, generation, session, asked, locals, list, dropped>>

(* Mutant: the task is not waited for. *)
JoinedAtOnce(a) == a \in Actors

(* task.await returns when the task has ended. *)
Joined(a) == ~ Alive(a)

(* A task ends: its locals go with it. *)
End(a) ==
  /\ Go(a, "done")
  /\ work' = [work EXCEPT ![a] = None]
  /\ IF a = "rx" THEN batch' = << >> /\ snap' = None /\ prepared' = << >>
                 ELSE UNCHANGED locals
  /\ list' = [b \in DOMAIN list |-> IF b = a THEN {} ELSE list[b]]
  /\ unwaited' = IF a = "rx" THEN unwaited \cup list["rx"] ELSE unwaited
  /\ UNCHANGED <<table, tasks, dropped>>

(* An aborted task is dropped at an await.  The receive loop has none before it spawns *)
(* a reply loop and none before it looks over a batch that is prepared.                *)
Die(a) ==
  /\ a \in aborted
  /\ Alive(a)
  /\ a = "rx" => pc[a] # "spawn" /\ (pc[a] = "lookup" => Len(prepared) < Len(batch))
  /\ End(a)
  /\ UNCHANGED flags

-----------------------------------------------------------------------------
(* The receive loop. *)

(* A receive error ends the loop. *)
ReceiveFails ==
  /\ pc["rx"] = "recv"
  /\ End("rx")
  /\ UNCHANGED flags

(* The batch is done with. *)
NextBatch ==
  /\ Go("rx", "recv")
  /\ batch' = << >>
  /\ snap' = None
  /\ prepared' = << >>

(* Mutant: no look at whether there is a target. *)
HasTargetAlways == TRUE

(* effective_host and effective_target_port are Some. *)
HasTarget == target # None

(* recv_batch, and entry.state.read() in prepare_datagram_batch: the datagrams are  *)
(* chosen when the state is read, as nothing looks at them before.  Without a target *)
(* they are dropped.                                                                 *)
Receive ==
  /\ pc["rx"] = "recv"
  /\ HasTarget
  /\ \E n \in 1..BatchSize : batch' \in [1..n -> Peers]
  /\ snap' = [target |-> target, generation |-> generation]
  /\ Go("rx", "lookup")
  /\ UNCHANGED <<table, flags, tasks, work, prepared, list, history>>

(* The datagram that is prepared next. *)
Index == Len(prepared) + 1

(* The session found, or None, for the datagram at Index. *)
Prepared(s) ==
  /\ prepared' = Append(prepared, s)
  /\ Go("rx", "lookup")
  /\ work' = [work EXCEPT !["rx"] = None]
  /\ UNCHANGED <<batch, snap>>

(* Mutant: of any peer. *)
EarlierAny == IF prepared = << >> THEN None ELSE prepared[1]

(* What the first earlier datagram of the same peer in the batch got. *)
Earlier ==
  LET same == {j \in 1..Len(prepared) : batch[j] = batch[Index]}
  IN  IF same = {} THEN None ELSE prepared[CHOOSE j \in same : \A k \in same : j <= k]

(* Mutant: one session too many. *)
TableFullLate == Cardinality(Current) > MaxSessions

(* sessions.len() >= entry.max_sessions *)
TableFull == Cardinality(Current) >= MaxSessions

(* session_for up to the table's first unlock, and create_session, which touches      *)
(* nothing shared and may fail.                                                       *)
Lookup ==
  LET found == IF Earlier # None THEN Earlier ELSE sessions[batch[Index]]
  IN  /\ pc["rx"] = "lookup"
      /\ Len(prepared) < Len(batch)
      /\ \/ /\ Earlier # None \/ OfGeneration(found, snap.generation)
            /\ Prepared(found)
            /\ UNCHANGED session
         \/ /\ Earlier = None /\ ~ OfGeneration(found, snap.generation)
            /\ Prepared(None)
            /\ UNCHANGED session
         \/ /\ Earlier = None /\ ~ OfGeneration(found, snap.generation)
            /\ ~ TableFull
            /\ \E s \in Sessions :
                 /\ session[s] = None
                 /\ session' = [session EXCEPT ![s] =
                      [peer |-> batch[Index], target |-> snap.target,
                       generation |-> snap.generation]]
                 /\ work' = [work EXCEPT !["rx"] = s]
            /\ Go("rx", "insert")
            /\ UNCHANGED locals
      /\ UNCHANGED <<target, generation, sessions, flags, tasks, list, history>>

(* Mutant: an update is not noticed. *)
OvertakenNever == FALSE

(* entry.generation is no longer the one that was read for the batch. *)
Overtaken == generation # snap.generation

(* session_for, the table's second lock: another look at table and generation, then *)
(* the insertion.  A session it replaces is closed, and its reply loop waited for.   *)
Insert ==
  LET s   == work["rx"]
      p   == batch[Index]
      old == sessions[p]
  IN  /\ pc["rx"] = "insert"
      /\ IF OfGeneration(old, snap.generation)
         THEN Prepared(old) /\ UNCHANGED <<sessions, closed, tasks, list>>
         ELSE IF Overtaken
         THEN Prepared(None) /\ UNCHANGED <<sessions, closed, tasks, list>>
         ELSE /\ sessions' = [sessions EXCEPT ![p] = s]
              /\ IF old = None
                 THEN Go("rx", "spawn") /\ UNCHANGED <<closed, tasks, list>>
                 ELSE /\ closed' = closed \cup {old}
                      /\ TakeHandle(old)
                      /\ list' = [list EXCEPT !["rx"] = handle \cap {old}]
                      /\ Go("rx", "replaced")
              /\ UNCHANGED <<work, locals>>
      /\ UNCHANGED <<target, generation, session, asked, history>>

(* abort_reply_task(replaced, true): its reply loop has ended *)
Replaced ==
  /\ pc["rx"] = "replaced"
  /\ \A s \in list["rx"] : Joined(s)
  /\ list' = [list EXCEPT !["rx"] = {}]
  /\ Go("rx", "spawn")
  /\ UNCHANGED <<table, flags, tasks, work, locals, history>>

(* spawn_reply_loop: no task for a session that was closed meanwhile *)
SpawnReplyLoop ==
  LET s == work["rx"]
  IN  /\ pc["rx"] = "spawn"
      /\ IF s \in closed THEN Prepared(s)
         ELSE /\ pc' = [pc EXCEPT !["rx"] = "handle", ![s] = "loop"]
              /\ work' = [work EXCEPT ![s] = s]
              /\ UNCHANGED locals
      /\ UNCHANGED <<table, flags, tasks, list, history>>

(* *session.reply_task.lock().await = Some(task) *)
StoreHandle ==
  /\ pc["rx"] = "handle"
  /\ handle' = handle \cup {work["rx"]}
  /\ Prepared(work["rx"])
  /\ UNCHANGED <<table, flags, aborted, list, history>>

(* The datagrams of `rest` are still to be sent; without any the batch is done with. *)
Remaining(rest, label) ==
  IF \A i \in DOMAIN rest : rest[i] = None THEN NextBatch
  ELSE prepared' = rest /\ Go("rx", label) /\ UNCHANGED <<batch, snap>>

(* Mutant: nothing is marked as sent. *)
OnlyMore(keep) == IF keep \subseteq Sessions THEN prepared ELSE << >>

(* prepared, only with the sessions of `keep` *)
Only(keep) == [i \in DOMAIN prepared |-> IF prepared[i] \in keep THEN prepared[i] ELSE None]

(* The sessions that have something to send *)
Found == {prepared[i] : i \in DOMAIN prepared} \ {None}

(* The end of prepare_datagram_batch, without an await: what has been overtaken by  *)
(* an update or closed is dropped.                                                  *)
Verify ==
  LET good == {s \in Found : /\ ~ Overtaken
                             /\ session[s].generation = snap.generation
                             /\ s \notin closed}
  IN  /\ pc["rx"] = "lookup"
      /\ Len(prepared) = Len(batch)
      /\ closed' = closed \cup (Found \ good)
      /\ Remaining(Only(good), "send")
      /\ UNCHANGED <<table, asked, tasks, work, list, history>>

(* send_batch or send_individually for all datagrams of one session.  An error,     *)
(* perhaps after some were sent, removes the session.                               *)
Send ==
  /\ pc["rx"] = "send"
  /\ \E s \in Found :
       \/ /\ asked' = asked \cup {s}
          /\ Remaining(Only(Found \ {s}), "send")
          /\ UNCHANGED work
       \/ /\ asked' \in {asked, asked \cup {s}}
          /\ prepared' = Only(Found \ {s})
          /\ work' = [work EXCEPT !["rx"] = s]
          /\ Go("rx", "remove")
          /\ UNCHANGED <<batch, snap>>
  /\ UNCHANGED <<table, closed, tasks, list, history>>

(* The send that failed was the last of the batch. *)
Resume ==
  /\ pc["rx"] = "send"
  /\ Found = {}
  /\ NextBatch
  /\ UNCHANGED <<table, flags, tasks, work, list, history>>

-----------------------------------------------------------------------------
(* The reply loop of session s. *)

(* The check of `closed` at the top of the loop *)
ReplyLoop(s) ==
  /\ pc[s] = "loop"
  /\ IF s \in closed THEN End(s)
     ELSE Go(s, "recv") /\ UNCHANGED <<table, tasks, work, locals, list, history>>
  /\ UNCHANGED flags

(* upstream.recv: a reply, or an error.  Only what was asked answers. *)
ReplyReceived(s) ==
  /\ pc[s] = "recv"
  /\ s \in asked
  /\ Go(s, "check") \/ Go(s, "remove")
  /\ UNCHANGED <<table, flags, tasks, work, locals, list, history>>

(* Under the table's lock: is this still the current session of its client? *)
IsCurrent(s) == sessions[session[s].peer] = s /\ session[s].generation = generation

ReplyChecked(s) ==
  /\ pc[s] = "check"
  /\ IF IsCurrent(s)
     THEN Go(s, "send") /\ UNCHANGED <<table, closed, tasks, work, locals, list, history>>
     ELSE closed' = closed \cup {s} /\ End(s)
  /\ UNCHANGED asked

(* listener_socket.send_to(client_addr): the client gets the reply, or an error *)
ReplySent(s) ==
  /\ pc[s] = "send"
  /\ Go(s, "loop")
  /\ UNCHANGED <<table, flags, tasks, work, locals, list, history>>

ReplyNotSent(s) ==
  /\ pc[s] = "send"
  /\ Go(s, "remove")
  /\ UNCHANGED <<table, flags, tasks, work, locals, list, history>>

-----------------------------------------------------------------------------
(* The cleanup loop: expire_idle_sessions. *)

(* A session of the table is found older than its TTL, before remove_session locks the *)
(* table again.  That the loop looks at a copy of the table is left out: a session of  *)
(* it that has left the table meanwhile is left alone by remove_session.               *)
Expire ==
  /\ pc["cleanup"] = "tick"
  /\ \E s \in Current : work' = [work EXCEPT !["cleanup"] = s]
  /\ Go("cleanup", "remove")
  /\ UNCHANGED <<table, flags, tasks, locals, list, history>>

-----------------------------------------------------------------------------
(* Control operations. *)

(* update: state and generation change under the state's write lock. *)
Update ==
  /\ pc["control"] = "ready"
  /\ generation < MaxGeneration
  /\ target' \in Targets \cup {None}
  /\ generation' = generation + 1
  /\ Go("control", "drain")
  /\ UNCHANGED <<sessions, session, flags, tasks, work, locals, list, history>>

(* delete: the entry leaves the runtime's map, stop_entry sends the shutdown signal. *)
Delete ==
  /\ pc["control"] = "ready"
  /\ aborted' = aborted \cup {"rx"}
  /\ Go("control", "stop_rx")
  /\ UNCHANGED <<table, flags, handle, work, locals, list, history>>

(* stop_entry: the receive loop has ended, then the cleanup loop *)
StopLoop ==
  /\ \/ /\ pc["control"] = "stop_rx"
        /\ Joined("rx")
        /\ aborted' = aborted \cup {"cleanup"}
        /\ Go("control", "stop_cleanup")
     \/ /\ pc["control"] = "stop_cleanup"
        /\ Joined("cleanup")
        /\ Go("control", "drain")
        /\ UNCHANGED aborted
  /\ UNCHANGED <<table, flags, handle, work, locals, list, history>>

(* close_sessions: the table is emptied under its lock. *)
Drain ==
  /\ pc["control"] = "drain"
  /\ list' = [list EXCEPT !["control"] = Current]
  /\ sessions' = [p \in Peers |-> None]
  /\ Go("control", "close")
  /\ UNCHANGED <<target, generation, session, flags, tasks, work, locals, history>>

(* An operation is complete: after delete the control task has nothing more to do. *)
Complete ==
  /\ Go("control", IF "cleanup" \in aborted THEN "done" ELSE "ready")
  /\ dropped' = FALSE
  /\ UNCHANGED unwaited

(* close_sessions: one of them is closed, its reply loop aborted and waited for. *)
Close ==
  /\ pc["control"] = "close"
  /\ IF list["control"] = {} THEN Complete /\ UNCHANGED <<closed, tasks, work, list>>
     ELSE \E s \in list["control"] :
            /\ list' = [list EXCEPT !["control"] = @ \ {s}]
            /\ closed' = closed \cup {s}
            /\ TakeHandle(s)
            /\ IF s \in handle
               THEN Go("control", "wait") /\ work' = [work EXCEPT !["control"] = s]
               ELSE UNCHANGED <<pc, work>>
            /\ UNCHANGED history
  /\ UNCHANGED <<table, asked, locals>>

(* abort_reply_task(session, true): task.await *)
Wait ==
  /\ pc["control"] = "wait"
  /\ Joined(work["control"])
  /\ Go("control", "close")
  /\ work' = [work EXCEPT !["control"] = None]
  /\ UNCHANGED <<table, flags, tasks, locals, list, history>>

(* The future of an operation is dropped at an await. *)
Dropped ==
  /\ Cancels
  /\ pc["control"] \notin {"ready", "done"}
  /\ Go("control", IF "rx" \in aborted THEN "done" ELSE "ready")
  /\ work' = [work EXCEPT !["control"] = None]
  /\ list' = [list EXCEPT !["control"] = {}]
  /\ dropped' = TRUE
  /\ unwaited' = unwaited \cup list["control"] \cup ({work["control"]} \ {None})
  /\ UNCHANGED <<table, flags, tasks, locals>>

(* The loops see the shutdown signal, sent by a delete that may have been dropped. *)
Shutdown(a) ==
  /\ "rx" \in aborted
  /\ pc[a] \in {"recv", "tick"}
  /\ a \in {"rx", "cleanup"}
  /\ End(a)
  /\ UNCHANGED flags

-----------------------------------------------------------------------------
ReceiveStep ==
  \/ Lookup \/ Insert \/ Replaced \/ SpawnReplyLoop \/ StoreHandle
  \/ Verify \/ Send \/ Remove("rx") \/ Resume

ReplyStep(s) ==
  \/ ReplyLoop(s) \/ ReplyChecked(s) \/ ReplySent(s) \/ ReplyNotSent(s)
  \/ Remove(s)

ControlStep == StopLoop \/ Drain \/ Close \/ Wait

Next ==
  \/ Receive
  \/ ReceiveFails
  \/ ReceiveStep
  \/ \E s \in Sessions : ReplyReceived(s)
  \/ \E s \in Sessions : ReplyStep(s)
  \/ Expire
  \/ Remove("cleanup")
  \/ Update
  \/ Delete
  \/ ControlStep
  \/ Dropped
  \/ \E a \in Actors : Die(a)
  \/ \E a \in {"rx", "cleanup"} : Shutdown(a)

Spec == Init /\ [][Next]_vars

-----------------------------------------------------------------------------
(* Every field keeps its type; a batch is only prepared for a target. *)
TypeOK ==
  /\ target \in Targets \cup {None}
  /\ generation \in 0..MaxGeneration
  /\ sessions \in [Peers -> Sessions \cup {None}]
  /\ session \in [Sessions -> SessionFields \cup {None}]
  /\ closed \subseteq Sessions
  /\ asked \subseteq Sessions
  /\ handle \subseteq Sessions
  /\ aborted \subseteq Actors
  /\ DOMAIN pc = Actors
  /\ work \in [Actors -> Sessions \cup {None}]
  /\ batch \in Seq(Peers)
  /\ snap \in Snapshots \cup {None}
  /\ prepared \in Seq(Sessions \cup {None})
  /\ list \in [{"rx", "control"} -> SUBSET Sessions]
  /\ dropped \in BOOLEAN
  /\ unwaited \subseteq Sessions

(* The check of max_sessions and the insertion are two steps, and the table still *)
(* never holds more: only the receive loop inserts.                               *)
SessionLimit == Cardinality(Current) <= MaxSessions

(* A session found in the table is its client's own.  If it is of the current        *)
(* generation it leads to the current target and is open: otherwise its client would *)
(* be cut off until the TTL.  When no update is between the new state and the drain  *)
(* of the table, and none was dropped there, every session is of the current one.    *)
TableFresh ==
  \A p \in Peers :
    sessions[p] # None =>
      LET s == sessions[p]
      IN  /\ session[s].peer = p
          /\ session[s].generation = generation => session[s].target = target /\ s \notin closed
          /\ pc["control"] # "drain" /\ ~ dropped => session[s].generation = generation

(* A datagram is sent to the target that was in effect when its batch was read, and *)
(* over a session of its own client.                                                *)
RightTarget ==
  pc["rx"] = "send" =>
    \A i \in DOMAIN prepared :
      prepared[i] # None =>
        session[prepared[i]].peer = batch[i] /\ session[prepared[i]].target = snap.target

(* When an update or a delete has returned, no reply of a session it closed is on its *)
(* way to a client: close_sessions waits for the reply loops it aborts.  Excepted are *)
(* a session that had been removed before, for whose loop nobody waited, and one that *)
(* the receive loop has just replaced and waits for itself.                           *)
NoLateReplies ==
  \A s \in Sessions :
    /\ pc[s] = "send"
    /\ ~ dropped
    /\ \/ pc["control"] = "done"
       \/ pc["control"] = "ready" /\ session[s].generation # generation
    => s \in unwaited \cup list["rx"]

(* "stale generation/session mismatches ... never reach clients": a reply that is     *)
(* sent to a client is of the current generation.                                     *)
StaleNeverSent ==
  [][\A s \in Sessions : pc[s] = "send" /\ pc'[s] = "loop" => session[s].generation = generation]_vars

-----------------------------------------------------------------------------
(* Every task that can go on does, and one that was aborted ends when it comes to an   *)
(* await.  Datagrams, replies, the passing of time and control operations come or not. *)
FairSpec ==
  /\ Spec
  /\ WF_vars(ReceiveStep)
  /\ \A s \in Sessions : WF_vars(ReplyStep(s))
  /\ WF_vars(Remove("cleanup"))
  /\ WF_vars(ControlStep)
  /\ SF_vars(Die("rx"))
  /\ \A a \in Actors \ {"rx"} : WF_vars(Die(a))

(* update and delete return: nobody they wait for waits for them. *)
OperationsEnd == pc["control"] \notin {"ready", "done"} ~> pc["control"] \in {"ready", "done"}

(* The receive loop comes back to its socket, or has ended. *)
ReceiveContinues == pc["rx"] # "recv" ~> pc["rx"] \in {"recv", "done"}

(* "never underflow or leak": the reply loop of a closed session, which keeps the      *)
(* session's socket and its count in udp_active_sessions, comes to an end.             *)
ReplyLoopsEnd == \A s \in Sessions : s \in closed ~> ~ Alive(s)
=============================================================================
