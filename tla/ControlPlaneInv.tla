---------------------------- MODULE ControlPlaneInv ----------------------------
(***************************************************************************)
(* The inductive invariant of ControlPlane: what a view knows, between two *)
(* of its awaits, of the two stores it reads without the lock; and how the *)
(* rows of all scrapes relate, the samples that are kept and the listeners *)
(* as they are now, whatever the order in which they were read.            *)
(***************************************************************************)
EXTENDS ControlPlane, AllocationServiceInv

(* What is shown of an allocation. *)
Targeted == (Ports \cup {None}) \X (Hosts \cup {None})

(* Between the two queries of list_allocations.  While fewer than three targets were  *)
(* stored, the last of them is the stored one; and the host of the row that was read  *)
(* is gone from the allocation only if a later target was stored, two if there is a   *)
(* binding again.  Nobody creates an allocation under the id that is looked at.       *)
ListedInv(id, row, stored) ==
  /\ row \in AllocationRows
  /\ stored[1] = << TargetOfColumn(row.target_port), row.host >>
  /\ allocations[id] # None /\ Len(stored) < 3 => stored[Len(stored)] = Target(GetAllocation(id))
  /\ row.host # None /\ allocations[id] # None /\ GetAllocation(id).host = None =>
       Len(stored) >= IF bindings[id] = None THEN 2 ELSE 3
  /\ \A c \in Clients : pc[c] \in {"create", "persist", "rollback"} => cur[c] # id

(* What has not changed under a view is what it saw. *)
QuietInv(v) ==
  /\ v.at = "bindings" => allocations[v.id] = v.row /\ entries[v.id] = GetAllocation(v.id)
  /\ v.at = "snapshot" => /\ allocations[v.id] # None /\ entries[v.id] # None
                          /\ Target(entries[v.id]) = v.target
  /\ v.at = "done" =>
       \/ v.effective = IF None \in Range(v.target) THEN None ELSE v.target
       \/ v.effective = None /\ v.deleting

ViewRecords ==
  [id: Ids, at: {"bindings", "snapshot", "done"}, row: AllocationRows \cup {None},
   target: Targeted \cup {None}, effective: Targeted \cup {None}, stored: Seq(Targeted),
   quiet: BOOLEAN, deleting: BOOLEAN]

ViewInv(v) ==
  /\ phase = "serving"
  /\ v \in ViewRecords
  /\ Len(v.stored) \in 1..3
  /\ v.at = "bindings" => v.target = None /\ ListedInv(v.id, v.row, v.stored)
  /\ v.at # "bindings" => v.target \in Targeted
  /\ v.at # "bindings" /\ Len(v.stored) < 3 => v.target \in Range(v.stored)
  /\ v.quiet => QuietInv(v)

(* RealRuntime knows the protocol of every stored allocation that is restored, unless it was  *)
(* told to delete it; and of one that is being created, from create's Ok until it is given up. *)
RuntimeInv ==
  /\ mode \in {"proxy", "netlink"}
  /\ protocols \subseteq Ids
  /\ begun \subseteq Ids
  /\ mode = "proxy" =>
       /\ \A c \in Clients : pc[c] = "delete" => cur[c] \in begun
       /\ \A c \in Clients : pc[c] = "persist" => cur[c] \in protocols
       /\ phase \in {"restoring", "serving"} => ListedIds \subseteq todo \cup protocols \cup begun

Rows == [bytes: Nat, carried: Nat, epoch: Nat]
Samples == [row: Rows, timestamp: 0..MaxTime]

(* A map that has some of the keys. *)
OnKeys(f, S) == DOMAIN f \subseteq Keys /\ f \in [DOMAIN f -> S]

ScrapeTypeOK ==
  /\ OnKeys(listeners, Nat)
  /\ OnKeys(samples, Samples)
  /\ DOMAIN scrapes = Scrapers
  /\ \A s \in Scrapers : OnKeys(scrapes[s].rows, Rows) /\ scrapes[s].timestamp \in 0..MaxTime
  /\ carried \in [Keys -> Nat]
  /\ epoch \in [Keys -> Nat]

(* The rows of a key that a scrape holds or the calculator keeps. *)
RowsOf(k) ==
  {scrapes[s].rows[k] : s \in {t \in Scrapers : k \in DOMAIN scrapes[t].rows}}
    \cup {samples[l].row : l \in {k} \cap DOMAIN samples}

(* A counter grows with what its listener carries, and a later listener's is of bytes *)
(* that were carried later.                                                           *)
Counts(row, previous) ==
  /\ row.epoch = previous.epoch => row.bytes - previous.bytes = row.carried - previous.carried
  /\ row.epoch > previous.epoch => row.bytes <= row.carried - previous.carried

KeyInv(k) ==
  \A row \in RowsOf(k) :
    /\ row.epoch <= epoch[k]
    /\ row.carried <= carried[k]
    /\ k \in DOMAIN listeners => Counts(MetricsRow(k), row)
    /\ \A previous \in RowsOf(k) : Counts(row, previous)

ScrapeInv ==
  /\ ScrapeTypeOK
  /\ listed = DOMAIN samples
  /\ \A k \in Keys : KeyInv(k)

ControlInv ==
  /\ Inv
  /\ gets \in {"views", "scrapes"}
  /\ gets = "views" => rates = NoRates
  /\ gets = "scrapes" => view = None
  /\ view # None => ViewInv(view)
  /\ RuntimeInv
  /\ ScrapeInv
=============================================================================
