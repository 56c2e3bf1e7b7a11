---------------------------- MODULE UdpListenerInv ----------------------------
(***************************************************************************)
(* The inductive invariant of UdpListener: what the safety properties need *)
(* beside themselves.                                                      *)
(***************************************************************************)
EXTENDS UdpListener

(* The awaits of each task. *)
Labels(a) ==
  IF a = "rx" THEN {"recv", "lookup", "insert", "replaced", "spawn", "handle", "send", "remove",
                    "done"}
  ELSE IF a = "cleanup" THEN {"tick", "remove", "done"}
  ELSE IF a = "control" THEN {"ready", "stop_rx", "stop_cleanup", "drain", "close", "wait", "done"}
  ELSE {"none", "loop", "recv", "check", "send", "remove", "done"}

LabelsInv == \A a \in Actors : pc[a] \in Labels(a)

Created == {s \in Sessions : session[s] # None}

(* A session is created before anything refers to it. *)
CreatedInv ==
  /\ Current \cup closed \cup asked \cup handle \cup Found \subseteq Created
  /\ \A a \in Actors : work[a] \in Created \cup {None} /\ (pc[a] = "remove" => work[a] # None)
  /\ \A a \in {"rx", "control"} : list[a] \subseteq Created
  /\ \A s \in Sessions : (pc[s] # "none" => s \in Created) /\ (Alive(s) => work[s] = s)

(* Sessions and the state read for a batch are of a generation there has been, and those of *)
(* one generation agree on its target.                                                       *)
TargetsInv ==
  /\ \A s \in Created : /\ session[s].generation <= generation
                        /\ session[s].generation = generation => session[s].target = target
  /\ snap # None => /\ snap.generation <= generation
                    /\ snap.generation = generation => snap.target = target
                    /\ \A s \in Created : session[s].generation = snap.generation
                                          => session[s].target = snap.target

(* session_for and spawn_reply_loop are making the session of the next datagram. *)
Making == pc["rx"] \in {"insert", "replaced", "spawn", "handle"}

(* The locals of the receive loop. *)
BatchInv ==
  /\ pc["rx"] \in {"recv", "done"} => batch = << >> /\ snap = None /\ prepared = << >>
  /\ pc["rx"] \notin {"recv", "done"} => snap # None /\ Len(prepared) <= Len(batch)
  /\ Making => Len(prepared) < Len(batch)
  /\ pc["rx"] \in {"send", "remove"} => Len(prepared) = Len(batch)
  /\ \A i \in 1..Len(prepared) :
       prepared[i] # None => /\ session[prepared[i]].peer = batch[i]
                             /\ session[prepared[i]].generation = snap.generation

(* The session being made is known to nobody until it is in the table, and not sent anything *)
(* until its handle is stored.                                                               *)
MakingInv ==
  LET s == work["rx"]
  IN  /\ Making => /\ s # None
                   /\ session[s] = [peer |-> batch[Index], target |-> snap.target,
                                    generation |-> snap.generation]
                   /\ s \notin asked \cup Found \cup handle
                   /\ s \in closed \cup Current \cup list["control"] \cup unwaited
                      \/ pc["rx"] = "insert"
      /\ pc["rx"] \in {"insert", "replaced", "spawn"} => pc[s] = "none"
      /\ pc["rx"] = "insert" => /\ s \notin closed \cup Current \cup list["control"]
                                /\ Cardinality(Current) < MaxSessions
      /\ pc["rx"] # "replaced" => list["rx"] = {}

(* The table, and the sessions an operation has taken out of it. *)
TableInv ==
  /\ IsFiniteSet(Current)
  /\ SessionLimit
  /\ TableFresh
  /\ pc["control"] \in {"close", "wait"} =>
       \A p \in Peers : sessions[p] # None => session[sessions[p]].generation = generation
  /\ list["control"] \cap Current = {}
  /\ pc["control"] \notin {"close", "wait"} => list["control"] = {}

(* delete has stopped the receive loop before it stops the cleanup loop, and nothing fills   *)
(* the table it empties.                                                                     *)
DeleteInv ==
  /\ "control" \notin aborted
  /\ "cleanup" \in aborted => pc["rx"] = "done"
  /\ pc["control"] = "stop_cleanup" => "cleanup" \in aborted
  /\ (pc["control"] \in {"close", "wait"} /\ "cleanup" \in aborted) => Current = {}
  /\ (pc["control"] = "done" /\ ~ dropped) => pc["rx"] = "done" /\ Current = {}

(* Somebody can stop the reply loop of s and wait for it, somebody is waiting, or nobody will. *)
Reachable(s) ==
  \/ s \in handle /\ s \in Current \cup list["control"]
  \/ pc["control"] = "wait" /\ work["control"] = s
  \/ s \in list["rx"] \cup unwaited

(* A reply loop has something to send only if its upstream was sent something, and a session *)
(* is sent something only when its handle was stored.                                        *)
RepliesInv ==
  \A s \in Sessions :
    /\ pc[s] \in {"check", "send", "remove"} => s \in asked
    /\ Alive(s) =>
         /\ (s \in Current /\ pc["rx"] # "done" /\ ~ (pc["rx"] = "handle" /\ work["rx"] = s))
              => s \in handle
         /\ (s \in Found /\ s \notin closed) => Reachable(s)
         /\ (s \in asked \/ (pc["rx"] \in {"send", "remove"} /\ s \in Found)) => Reachable(s)

(* The whole of it: the tasks, the session table and the batch of a UDP listener as the      *)
(* awaits of runtime/udp.rs leave them.                                                      *)
UdpInv ==
  /\ TypeOK
  /\ LabelsInv
  /\ CreatedInv
  /\ TargetsInv
  /\ BatchInv
  /\ MakingInv
  /\ TableInv
  /\ DeleteInv
  /\ RepliesInv
=============================================================================
