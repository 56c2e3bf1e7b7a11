-------------------------- MODULE ControlPlane_proofs --------------------------
(***************************************************************************)
(* The proofs about ControlPlane: ControlInv is inductive, and what the    *)
(* routes that read show follows from it.                                  *)
(***************************************************************************)
EXTENDS ControlPlaneInv, AllocationService_proofs, SequenceTheorems

-----------------------------------------------------------------------------
(* The scrapes. *)

LEMMA RowType ==
  ASSUME ScrapeTypeOK, NEW k \in Keys, NEW row \in RowsOf(k)
  PROVE  row \in Rows
<1>1. CASE row \in {scrapes[s].rows[k] : s \in {t \in Scrapers : k \in DOMAIN scrapes[t].rows}}
  <2>1. PICK s \in Scrapers : k \in DOMAIN scrapes[s].rows /\ row = scrapes[s].rows[k]
    BY <1>1, Zenon
  <2> QED BY <2>1, Zenon DEF ScrapeTypeOK, OnKeys
<1>2. CASE row \in {samples[l].row : l \in {k} \cap DOMAIN samples}
  <2>1. k \in DOMAIN samples /\ row = samples[k].row /\ samples[k] \in Samples
    BY <1>2, Zenon DEF ScrapeTypeOK, OnKeys
  <2> QED BY <2>1, Zenon DEF Samples
<1> QED BY <1>1, <1>2, Zenon DEF RowsOf

LEMMA MetricsRowType ==
  ASSUME ScrapeTypeOK, NEW k \in DOMAIN listeners
  PROVE  k \in Keys /\ MetricsRow(k) \in Rows
<1>1. k \in Keys /\ listeners[k] \in Nat /\ carried[k] \in Nat /\ epoch[k] \in Nat
  BY Zenon DEF ScrapeTypeOK, OnKeys
<1> QED BY <1>1, Zenon DEF MetricsRow, Rows

LEMMA CountsBack ==
  ASSUME NEW row \in Rows, NEW previous \in Rows, previous.epoch <= row.epoch,
         Counts(row, previous)
  PROVE  Counts(previous, row)
BY DEF Rows, Counts

LEMMA CountsSelf == ASSUME NEW row \in Rows PROVE Counts(row, row)
BY DEF Rows, Counts

(* A scrape takes rows from the listeners as they are, or passes rows on. *)
LEMMA RowsTaken ==
  ASSUME ScrapeInv, ScrapeTypeOK', listed' = DOMAIN samples',
         UNCHANGED <<listeners, carried, epoch>>,
         \A k \in Keys : \A row \in RowsOf(k)' :
           row \in RowsOf(k) \/ (k \in DOMAIN listeners /\ row = MetricsRow(k))
  PROVE  ScrapeInv'
<1> SUFFICES ASSUME NEW k \in Keys, NEW row \in RowsOf(k)'
             PROVE  /\ row.epoch <= epoch[k]
                    /\ row.carried <= carried[k]
                    /\ k \in DOMAIN listeners => Counts(MetricsRow(k), row)
                    /\ \A previous \in RowsOf(k)' : Counts(row, previous)
  <2>1. \A k \in Keys : MetricsRow(k)' = MetricsRow(k)
    BY Zenon DEF MetricsRow
  <2> QED BY <2>1, Zenon DEF ScrapeInv, KeyInv
<1>1. ScrapeTypeOK
  BY Zenon DEF ScrapeInv
<1>2. \A r \in RowsOf(k) : /\ r \in Rows /\ r.epoch <= epoch[k] /\ r.carried <= carried[k]
                           /\ k \in DOMAIN listeners => Counts(MetricsRow(k), r)
                           /\ \A previous \in RowsOf(k) : Counts(r, previous)
  BY <1>1, RowType, Zenon DEF ScrapeInv, KeyInv
<1>3. k \in DOMAIN listeners =>
        /\ MetricsRow(k) \in Rows
        /\ MetricsRow(k).epoch = epoch[k] /\ MetricsRow(k).carried = carried[k]
        /\ epoch[k] <= epoch[k] /\ carried[k] <= carried[k]
  BY <1>1, MetricsRowType DEF MetricsRow, ScrapeTypeOK
<1>4. CASE row \in RowsOf(k)
  BY <1>2, <1>3, <1>4, CountsBack, Zenon
<1>5. CASE k \in DOMAIN listeners /\ row = MetricsRow(k)
  BY <1>2, <1>3, <1>5, CountsSelf, Zenon
<1> QED BY <1>4, <1>5, Zenon

LEMMA RowsKept ==
  ASSUME NEW k, UNCHANGED <<samples, scrapes>>
  PROVE  RowsOf(k)' = RowsOf(k)
BY Zenon DEF RowsOf

LEMMA ListenInv ==
  ASSUME ScrapeInv, NEW l \in Keys, Listen(l)
  PROVE  ScrapeInv'
<1>1. ScrapeTypeOK
  BY Zenon DEF ScrapeInv
<1>2. /\ DOMAIN listeners' = DOMAIN listeners \cup {l} /\ listeners'[l] = 0
      /\ \A k \in DOMAIN listeners : listeners'[k] = listeners[k]
      /\ epoch'[l] = epoch[l] + 1 /\ \A k \in Keys \ {l} : epoch'[k] = epoch[k]
      /\ UNCHANGED <<samples, scrapes, carried, listed>>
  BY <1>1, Zenon DEF Listen, ScrapeTypeOK
<1>3. ScrapeTypeOK'
  <2>1. OnKeys(listeners', Nat)
    BY <1>1 DEF Listen, ScrapeTypeOK, OnKeys
  <2>2. epoch' \in [Keys -> Nat]
    BY <1>1 DEF Listen, ScrapeTypeOK
  <2>3. OnKeys(samples', Samples) /\ DOMAIN scrapes' = Scrapers
    BY <1>1, <1>2, Zenon DEF ScrapeTypeOK
  <2>4. \A s \in Scrapers : OnKeys(scrapes'[s].rows, Rows) /\ scrapes'[s].timestamp \in 0..MaxTime
    BY <1>1, <1>2, Zenon DEF ScrapeTypeOK
  <2>5. carried' \in [Keys -> Nat]
    BY <1>1, <1>2, Zenon DEF ScrapeTypeOK
  <2> QED BY <2>1, <2>2, <2>3, <2>4, <2>5, Zenon DEF ScrapeTypeOK
<1> SUFFICES ASSUME NEW k \in Keys PROVE KeyInv(k)'
  BY <1>2, <1>3, Zenon DEF ScrapeInv
<1> SUFFICES ASSUME NEW row \in RowsOf(k)
             PROVE  /\ row.epoch <= epoch'[k]
                    /\ row.carried <= carried[k]
                    /\ k \in DOMAIN listeners' => Counts(MetricsRow(k)', row)
                    /\ \A previous \in RowsOf(k) : Counts(row, previous)
  <2>1. RowsOf(k)' = RowsOf(k)
    BY <1>2, RowsKept, Zenon
  <2> QED BY <1>2, <2>1, Zenon DEF KeyInv
<1>4. /\ row \in Rows /\ row.epoch <= epoch[k] /\ row.carried <= carried[k]
      /\ k \in DOMAIN listeners => Counts(MetricsRow(k), row)
      /\ \A previous \in RowsOf(k) : Counts(row, previous)
  BY <1>1, RowType, Zenon DEF ScrapeInv, KeyInv
<1>5. CASE k = l
  <2>1. epoch[l] \in Nat /\ carried[l] \in Nat
    BY <1>1, Zenon DEF ScrapeTypeOK
  <2>2. MetricsRow(l)' = [bytes |-> 0, carried |-> carried[l], epoch |-> epoch[l] + 1]
    BY <1>2, Zenon DEF MetricsRow
  <2>3. Counts([bytes |-> 0, carried |-> carried[l], epoch |-> epoch[l] + 1], row)
    BY <1>4, <1>5, <2>1 DEF Counts, Rows
  <2>4. row.epoch <= epoch[l] + 1
    BY <1>4, <1>5, <2>1 DEF Rows
  <2> QED BY <1>2, <1>4, <1>5, <2>2, <2>3, <2>4, Zenon
<1>6. CASE k # l
  <2>1. k \in DOMAIN listeners' => k \in DOMAIN listeners /\ MetricsRow(k)' = MetricsRow(k)
    BY <1>2, <1>6, Zenon DEF MetricsRow
  <2> QED BY <1>2, <1>4, <1>6, <2>1, Zenon
<1> QED BY <1>5, <1>6, Zenon

LEMMA UnlistenInv ==
  ASSUME ScrapeInv, NEW l \in Keys, Unlisten(l)
  PROVE  ScrapeInv'
<1>1. ScrapeTypeOK
  BY Zenon DEF ScrapeInv
<1>2. /\ DOMAIN listeners' = DOMAIN listeners \ {l}
      /\ \A k \in DOMAIN listeners' : listeners'[k] = listeners[k]
      /\ UNCHANGED <<samples, scrapes, carried, epoch, listed>>
  BY Zenon DEF Unlisten, Restrict
<1>3. ScrapeTypeOK'
  <2>1. OnKeys(listeners', Nat)
    BY <1>1, Zenon DEF Unlisten, Restrict, ScrapeTypeOK, OnKeys
  <2>2. OnKeys(samples', Samples) /\ DOMAIN scrapes' = Scrapers
    BY <1>1, <1>2, Zenon DEF ScrapeTypeOK
  <2>3. \A s \in Scrapers : OnKeys(scrapes'[s].rows, Rows) /\ scrapes'[s].timestamp \in 0..MaxTime
    BY <1>1, <1>2, Zenon DEF ScrapeTypeOK
  <2>4. carried' \in [Keys -> Nat] /\ epoch' \in [Keys -> Nat]
    BY <1>1, <1>2, Zenon DEF ScrapeTypeOK
  <2> QED BY <2>1, <2>2, <2>3, <2>4, Zenon DEF ScrapeTypeOK
<1>4. \A k \in DOMAIN listeners' : k \in DOMAIN listeners /\ MetricsRow(k)' = MetricsRow(k)
  BY <1>2, Zenon DEF MetricsRow
<1>5. \A k \in Keys : RowsOf(k)' = RowsOf(k)
  BY <1>2, RowsKept, Zenon
<1>6. \A k \in Keys : KeyInv(k)'
  BY <1>2, <1>4, <1>5, Zenon DEF ScrapeInv, KeyInv
<1> QED BY <1>2, <1>3, <1>6, Zenon DEF ScrapeInv

LEMMA CarryInv ==
  ASSUME ScrapeInv, NEW l \in Keys, Carry(l)
  PROVE  ScrapeInv'
<1>1. ScrapeTypeOK /\ l \in DOMAIN listeners
  BY Zenon DEF ScrapeInv, Carry
<1>2. /\ DOMAIN listeners' = DOMAIN listeners
      /\ listeners'[l] = listeners[l] + 1
      /\ \A k \in DOMAIN listeners \ {l} : listeners'[k] = listeners[k]
      /\ carried'[l] = carried[l] + 1 /\ \A k \in Keys \ {l} : carried'[k] = carried[k]
      /\ UNCHANGED <<samples, scrapes, epoch, listed>>
  BY <1>1, Zenon DEF Carry, ScrapeTypeOK, OnKeys
<1>3. ScrapeTypeOK'
  <2>1. OnKeys(listeners', Nat)
    BY <1>1 DEF Carry, ScrapeTypeOK, OnKeys
  <2>2. OnKeys(samples', Samples) /\ DOMAIN scrapes' = Scrapers
    BY <1>1, <1>2, Zenon DEF ScrapeTypeOK
  <2>3. \A s \in Scrapers : OnKeys(scrapes'[s].rows, Rows) /\ scrapes'[s].timestamp \in 0..MaxTime
    BY <1>1, <1>2, Zenon DEF ScrapeTypeOK
  <2>4. carried' \in [Keys -> Nat]
    BY <1>1 DEF Carry, ScrapeTypeOK
  <2>5. epoch' \in [Keys -> Nat]
    BY <1>1, <1>2, Zenon DEF ScrapeTypeOK
  <2> QED BY <2>1, <2>2, <2>3, <2>4, <2>5, Zenon DEF ScrapeTypeOK
<1> SUFFICES ASSUME NEW k \in Keys PROVE KeyInv(k)'
  BY <1>2, <1>3, Zenon DEF ScrapeInv
<1> SUFFICES ASSUME NEW row \in RowsOf(k)
             PROVE  /\ row.epoch <= epoch[k]
                    /\ row.carried <= carried'[k]
                    /\ k \in DOMAIN listeners' => Counts(MetricsRow(k)', row)
                    /\ \A previous \in RowsOf(k) : Counts(row, previous)
  <2>1. RowsOf(k)' = RowsOf(k)
    BY <1>2, RowsKept, Zenon
  <2> QED BY <1>2, <2>1, Zenon DEF KeyInv
<1>4. /\ row \in Rows /\ row.epoch <= epoch[k] /\ row.carried <= carried[k]
      /\ k \in DOMAIN listeners => Counts(MetricsRow(k), row)
      /\ \A previous \in RowsOf(k) : Counts(row, previous)
  BY <1>1, RowType, Zenon DEF ScrapeInv, KeyInv
<1>5. CASE k = l
  <2>1. MetricsRow(l) \in Rows /\ Counts(MetricsRow(l), row)
    BY <1>1, <1>4, <1>5, MetricsRowType, Zenon
  <2>2. MetricsRow(l)' = [bytes |-> listeners[l] + 1, carried |-> carried[l] + 1, epoch |-> epoch[l]]
    BY <1>2, Zenon DEF MetricsRow
  <2>3. Counts([bytes |-> listeners[l] + 1, carried |-> carried[l] + 1, epoch |-> epoch[l]], row)
    BY <1>4, <1>5, <2>1 DEF Counts, Rows, MetricsRow
  <2>4. row.carried <= carried[l] + 1
    BY <1>4, <1>5, <2>1 DEF Rows, MetricsRow
  <2> QED BY <1>2, <1>4, <1>5, <2>2, <2>3, <2>4, Zenon
<1>6. CASE k # l
  <2>1. k \in DOMAIN listeners' => k \in DOMAIN listeners /\ MetricsRow(k)' = MetricsRow(k)
    BY <1>2, <1>6, Zenon DEF MetricsRow
  <2> QED BY <1>2, <1>4, <1>6, <2>1, Zenon
<1> QED BY <1>5, <1>6, Zenon

LEMMA MetricsRowsType ==
  ASSUME ScrapeTypeOK, NEW protocol
  PROVE  /\ OnKeys(MetricsRows(protocol), Rows)
         /\ \A k \in DOMAIN MetricsRows(protocol) :
              k \in DOMAIN listeners /\ MetricsRows(protocol)[k] = MetricsRow(k)
<1>1. \A k \in DOMAIN listeners : k \in Keys /\ MetricsRow(k) \in Rows
  BY MetricsRowType, Zenon
<1> QED BY <1>1, Zenon DEF MetricsRows, OnKeys

(* A scrape goes on: the rows it holds were held before or are of the listeners now. *)
LEMMA ScrapeStepInv ==
  ASSUME ScrapeInv, NEW s \in Scrapers, NEW scrape, scrapes' = [scrapes EXCEPT ![s] = scrape],
         OnKeys(scrape.rows, Rows), scrape.timestamp \in 0..MaxTime,
         \A k \in DOMAIN scrape.rows :
           \/ k \in DOMAIN scrapes[s].rows /\ scrape.rows[k] = scrapes[s].rows[k]
           \/ k \in DOMAIN listeners /\ scrape.rows[k] = MetricsRow(k),
         UNCHANGED <<listeners, samples, carried, epoch, listed>>
  PROVE  ScrapeInv'
<1>1. ScrapeTypeOK /\ listed = DOMAIN samples
  BY Zenon DEF ScrapeInv
<1>2. /\ DOMAIN scrapes' = Scrapers /\ scrapes'[s] = scrape
      /\ \A t \in Scrapers \ {s} : scrapes'[t] = scrapes[t]
  BY <1>1, Zenon DEF ScrapeTypeOK
<1>3. ScrapeTypeOK'
  <2>1. \A t \in Scrapers : OnKeys(scrapes'[t].rows, Rows) /\ scrapes'[t].timestamp \in 0..MaxTime
    BY <1>1, <1>2, Zenon DEF ScrapeTypeOK
  <2>2. OnKeys(listeners', Nat) /\ OnKeys(samples', Samples)
    BY <1>1, Zenon DEF ScrapeTypeOK
  <2>3. carried' \in [Keys -> Nat] /\ epoch' \in [Keys -> Nat]
    BY <1>1, Zenon DEF ScrapeTypeOK
  <2> QED BY <1>2, <2>1, <2>2, <2>3, Zenon DEF ScrapeTypeOK
<1>4. ASSUME NEW k \in Keys, NEW row \in RowsOf(k)'
      PROVE  row \in RowsOf(k) \/ (k \in DOMAIN listeners /\ row = MetricsRow(k))
  <2>1. CASE row \in {samples'[l].row : l \in {k} \cap DOMAIN samples'}
    BY <2>1, Zenon DEF RowsOf
  <2>2. ASSUME NEW t \in Scrapers, k \in DOMAIN scrapes'[t].rows, row = scrapes'[t].rows[k]
        PROVE  row \in RowsOf(k) \/ (k \in DOMAIN listeners /\ row = MetricsRow(k))
    <3>1. \/ k \in DOMAIN scrapes[t].rows /\ row = scrapes[t].rows[k]
          \/ k \in DOMAIN listeners /\ row = MetricsRow(k)
      BY <1>2, <2>2, Zenon
    <3> QED BY <3>1, Zenon DEF RowsOf
  <2> QED BY <2>1, <2>2, Zenon DEF RowsOf
<1> QED BY <1>1, <1>3, <1>4, RowsTaken, Zenon

LEMMA IdleType == OnKeys(NoRates, Rows) /\ DOMAIN NoRates = {} /\ 0 \in 0..MaxTime
<1>1. 0 \in 0..MaxTime
  BY ScrapeAssumption
<1> QED BY <1>1, Zenon DEF NoRates, OnKeys

LEMMA ScrapeTcpInv ==
  ASSUME ScrapeInv, NEW s \in Scrapers, ScrapeTcp(s)
  PROVE  ScrapeInv'
<1> DEFINE scrape == [Idle EXCEPT !.at = "udp", !.rows = MetricsRows("tcp")]
<1>1. scrape.rows = MetricsRows("tcp") /\ scrape.timestamp = 0
  BY Zenon DEF Idle
<1>2. scrapes' = [scrapes EXCEPT ![s] = scrape]
  BY Zenon DEF ScrapeTcp
<1>3. UNCHANGED <<listeners, samples, carried, epoch, listed>>
  BY Zenon DEF ScrapeTcp
<1>4. ScrapeTypeOK
  BY Zenon DEF ScrapeInv
<1> HIDE DEF scrape
<1>5. OnKeys(scrape.rows, Rows) /\ scrape.timestamp \in 0..MaxTime
  BY <1>1, <1>4, MetricsRowsType, IdleType, Zenon
<1>6. \A k \in DOMAIN scrape.rows : k \in DOMAIN listeners /\ scrape.rows[k] = MetricsRow(k)
  BY <1>1, <1>4, MetricsRowsType, Zenon
<1> QED BY <1>2, <1>3, <1>5, <1>6, ScrapeStepInv, Zenon

LEMMA ScrapeUdpInv ==
  ASSUME ScrapeInv, NEW s \in Scrapers, ScrapeUdp(s)
  PROVE  ScrapeInv'
<1> DEFINE tcp_rows == scrapes[s].rows
           udp_rows == MetricsRows("udp")
           rows == [k \in DOMAIN tcp_rows \cup DOMAIN udp_rows |->
                      IF k \in DOMAIN tcp_rows THEN tcp_rows[k] ELSE udp_rows[k]]
<1>1. ScrapeTypeOK
  BY Zenon DEF ScrapeInv
<1>2. PICK now \in 0..MaxTime :
        scrapes' = [scrapes EXCEPT ![s] = [at |-> "lock", rows |-> rows, timestamp |-> now]]
  BY Zenon DEF ScrapeUdp
<1> DEFINE scrape == [at |-> "lock", rows |-> rows, timestamp |-> now]
<1>3. OnKeys(tcp_rows, Rows) /\ OnKeys(udp_rows, Rows)
  BY <1>1, MetricsRowsType, Zenon DEF ScrapeTypeOK
<1>4. \A k \in DOMAIN udp_rows : k \in DOMAIN listeners /\ udp_rows[k] = MetricsRow(k)
  BY <1>1, MetricsRowsType, Zenon
<1>5. UNCHANGED <<listeners, samples, carried, epoch, listed>>
  BY Zenon DEF ScrapeUdp
<1> HIDE DEF tcp_rows, udp_rows
<1>6. OnKeys(rows, Rows)
  BY <1>3, Zenon DEF OnKeys
<1>7. \A k \in DOMAIN rows : \/ k \in DOMAIN tcp_rows /\ rows[k] = tcp_rows[k]
                             \/ k \in DOMAIN listeners /\ rows[k] = MetricsRow(k)
  BY <1>4, Zenon
<1>8. scrape.rows = rows /\ scrape.timestamp = now
  BY Zenon
<1> HIDE DEF scrape, rows
<1>9. scrapes' = [scrapes EXCEPT ![s] = scrape]
  BY <1>2, Zenon DEF scrape
<1> QED BY <1>5, <1>6, <1>7, <1>8, <1>9, ScrapeStepInv, Zenon DEF tcp_rows

LEMMA DropScrapeInv ==
  ASSUME ScrapeInv, NEW s \in Scrapers, DropScrape(s)
  PROVE  ScrapeInv'
<1>1. UNCHANGED <<listeners, samples, carried, epoch, listed>>
  BY Zenon DEF DropScrape
<1>2. scrapes' = [scrapes EXCEPT ![s] = Idle]
  BY Zenon DEF DropScrape
<1>3. Idle.rows = NoRates /\ Idle.timestamp = 0
  BY Zenon DEF Idle
<1> QED BY <1>1, <1>2, <1>3, IdleType, ScrapeStepInv, Zenon

(* The rows that are compared become the samples that are kept. *)
LEMMA CalculateInv ==
  ASSUME ScrapeInv, NEW s \in Scrapers, Calculate(s)
  PROVE  ScrapeInv'
<1> DEFINE rows == scrapes[s].rows
           now == scrapes[s].timestamp
<1>1. ScrapeTypeOK /\ OnKeys(rows, Rows) /\ now \in 0..MaxTime
  BY Zenon DEF ScrapeInv, ScrapeTypeOK
<1>2. /\ samples' = [k \in DOMAIN rows |-> [row |-> rows[k], timestamp |-> now]]
      /\ listed' = DOMAIN rows
      /\ scrapes' = [scrapes EXCEPT ![s] = Idle]
      /\ UNCHANGED <<listeners, carried, epoch>>
  BY Zenon DEF Calculate, retain
<1>3. /\ DOMAIN scrapes' = Scrapers /\ scrapes'[s] = Idle
      /\ \A t \in Scrapers \ {s} : scrapes'[t] = scrapes[t]
  BY <1>1, <1>2, Zenon DEF ScrapeTypeOK
<1>4. DOMAIN samples' = DOMAIN rows /\ \A k \in DOMAIN rows : samples'[k].row = rows[k]
  BY <1>2, Zenon
<1>5. ScrapeTypeOK'
  <2>1. OnKeys(samples', Samples)
    BY <1>1, <1>2, Zenon DEF OnKeys, Samples
  <2>2. Idle.rows = NoRates /\ Idle.timestamp = 0
    BY Zenon DEF Idle
  <2>3. \A t \in Scrapers : OnKeys(scrapes'[t].rows, Rows) /\ scrapes'[t].timestamp \in 0..MaxTime
    BY <1>1, <1>3, <2>2, IdleType, Zenon DEF ScrapeTypeOK
  <2>4. OnKeys(listeners', Nat)
    BY <1>1, <1>2, Zenon DEF ScrapeTypeOK
  <2>5. carried' \in [Keys -> Nat] /\ epoch' \in [Keys -> Nat]
    BY <1>1, <1>2, Zenon DEF ScrapeTypeOK
  <2> QED BY <1>3, <2>1, <2>3, <2>4, <2>5, Zenon DEF ScrapeTypeOK
<1>6. ASSUME NEW k \in Keys, NEW row \in RowsOf(k)' PROVE row \in RowsOf(k)
  <2>1. CASE row \in {samples'[l].row : l \in {k} \cap DOMAIN samples'}
    BY <1>4, <2>1, Zenon DEF RowsOf
  <2>2. ASSUME NEW t \in Scrapers, k \in DOMAIN scrapes'[t].rows, row = scrapes'[t].rows[k]
        PROVE  row \in RowsOf(k)
    <3>1. Idle.rows = NoRates
      BY Zenon DEF Idle
    <3>2. t # s
      BY <1>3, <2>2, <3>1, IdleType, Zenon
    <3> QED BY <1>3, <2>2, <3>2, Zenon DEF RowsOf
  <2> QED BY <2>1, <2>2, Zenon DEF RowsOf
<1> QED BY <1>2, <1>4, <1>5, <1>6, RowsTaken, Zenon

LEMMA ScrapeNextInv == ASSUME ScrapeInv, ScrapeNext PROVE ScrapeInv'
BY ListenInv, UnlistenInv, CarryInv, ScrapeTcpInv, ScrapeUdpInv, CalculateInv, DropScrapeInv, Zenon
   DEF ScrapeNext

LEMMA ScrapeInitInv == ScrapeInit => ScrapeInv
<1> SUFFICES ASSUME ScrapeInit PROVE ScrapeInv
  OBVIOUS
<1>1. \A s \in Scrapers : scrapes[s].rows = NoRates /\ scrapes[s].timestamp = 0
  BY Zenon DEF ScrapeInit, Idle
<1>2. \A s \in Scrapers : OnKeys(scrapes[s].rows, Rows) /\ scrapes[s].timestamp \in 0..MaxTime
  BY <1>1, IdleType, Zenon
<1>3. OnKeys(listeners, Nat) /\ OnKeys(samples, Samples) /\ DOMAIN scrapes = Scrapers
  BY Zenon DEF ScrapeInit, OnKeys
<1>4. carried \in [Keys -> Nat] /\ epoch \in [Keys -> Nat]
  BY DEF ScrapeInit
<1>5. \A k \in Keys : RowsOf(k) = {}
  BY <1>1, IdleType, Zenon DEF RowsOf, ScrapeInit
<1>6. listed = DOMAIN samples
  BY Zenon DEF ScrapeInit
<1> QED BY <1>2, <1>3, <1>4, <1>5, <1>6, Zenon DEF ScrapeInv, ScrapeTypeOK, KeyInv

(* A positive rate is the difference between two rows, the later of them new. *)
LEMMA RateIsOfRows ==
  ASSUME ScrapeInv, NEW s \in Scrapers, Calculate(s), NEW k \in DOMAIN rates', rates'[k].bytes > 0
  PROVE  /\ k \in listed /\ k \in DOMAIN samples
         /\ rates'[k].row \in RowsOf(k) /\ samples[k].row \in RowsOf(k)
         /\ rates'[k].bytes = rates'[k].row.bytes - samples[k].row.bytes
<1> DEFINE rows == scrapes[s].rows
           now == scrapes[s].timestamp
<1>1. ScrapeTypeOK /\ OnKeys(rows, Rows) /\ now \in 0..MaxTime
  BY Zenon DEF ScrapeInv, ScrapeTypeOK
<1>2. /\ k \in DOMAIN rows
      /\ rates'[k] = [bytes |-> calculate_rate(k, rows[k], now), row |-> rows[k]]
  BY Zenon DEF Calculate
<1>3. rates'[k].bytes = calculate_rate(k, rows[k], now) /\ rates'[k].row = rows[k]
  BY <1>2
<1>4. k \in Keys /\ rows[k] \in Rows
  BY <1>1, <1>2, Zenon DEF OnKeys
<1>5. k \in DOMAIN samples
  BY <1>3 DEF calculate_rate
<1>6. samples[k].row \in Rows
  BY <1>1, <1>5, Zenon DEF ScrapeTypeOK, OnKeys, Samples
<1>7. rates'[k].bytes = bytes_per_second(rows[k].bytes, samples[k].row.bytes)
  BY <1>3 DEF calculate_rate
<1>8. rates'[k].bytes = rows[k].bytes - samples[k].row.bytes
  BY <1>7 DEF bytes_per_second
<1>9. rows[k] \in RowsOf(k) /\ samples[k].row \in RowsOf(k)
  <2>1. rows[k] \in {scrapes[t].rows[k] : t \in {t \in Scrapers : k \in DOMAIN scrapes[t].rows}}
    BY <1>2, Zenon
  <2>2. samples[k].row \in {samples[l].row : l \in {k} \cap DOMAIN samples}
    BY <1>5, Zenon
  <2> QED BY <2>1, <2>2, Zenon DEF RowsOf
<1> QED BY <1>3, <1>5, <1>8, <1>9, Zenon DEF ScrapeInv

-----------------------------------------------------------------------------
(* The views.  First, what a step of the service does to an allocation's rows. *)

(* The step of a handler leaves an allocation's rows alone, inserts them under an id *)
(* that it has made up, deletes them, deletes the binding or puts one.               *)
RowsStep(id) ==
  \/ allocations'[id] = allocations[id] /\ bindings'[id] = bindings[id]
  \/ \E c \in Clients : pc[c] = "persist" /\ cur[c] = id
  \/ allocations'[id] = None
  \/ allocations[id] # None /\ allocations'[id] # None /\ bindings'[id] = None
  \/ /\ allocations[id] # None /\ allocations'[id] # None /\ bindings'[id] # None
     /\ bindings'[id].host = None => GetAllocation(id).host = None

LEMMA CommitRows ==
  ASSUME Inv, NEW c \in Clients, Commit(c), NEW id \in Ids
  PROVE  RowsStep(id)
<1>1. /\ pc[c] = "commit" /\ req[c] \in Requests \ CreateRequests /\ cur[c] = req[c].id
      /\ req[c].op # "delete" /\ allocations[cur[c]] # None
      /\ allocation[c] = Updated(req[c], cur[c]) /\ Refusal(req[c], cur[c]) = "ok"
      /\ RepositoryTypeOK
  BY Zenon DEF Commit, Inv, TypeOK, HandlerInv, ChangeInv
<1>2. CASE id # cur[c]
  <2>1. allocations'[id] = allocations[id] /\ bindings'[id] = bindings[id]
    BY <1>1, <1>2, FindsWhatItRead, Zenon DEF Commit, DeleteBinding, PutBinding, RepositoryTypeOK
  <2> QED BY <2>1, Zenon DEF RowsStep
<1>3. CASE id = cur[c] /\ req[c].op = "delete_binding"
  <2>1. bindings'[id] = None
    BY <1>1, <1>3, FindsWhatItRead, Zenon DEF Commit, DeleteBinding, RepositoryTypeOK
  <2> QED BY <1>1, <1>3, <2>1, Zenon DEF RowsStep
<1>4. CASE id = cur[c] /\ req[c].op # "delete_binding"
  <2>1. PutBinding(id, [target_port |-> allocation[c].target_port, host |-> allocation[c].host])
    BY <1>4, Zenon DEF Commit
  <2>2. bindings'[id] = [target_port |-> allocation[c].target_port, host |-> allocation[c].host]
    BY <1>1, <2>1, Zenon DEF PutBinding, RepositoryTypeOK
  <2>3. bindings'[id].host = allocation[c].host
    BY <2>2
  <2>4. GetAllocation(id) \in Allocation
    BY <1>1, <1>4, GetAllocationType, Zenon
  <2>5. allocation[c].host = ResolvedHost(req[c], id)
    BY <1>1, <1>4, <2>4 DEF Updated, Allocation
  <2>6. bindings'[id].host = None => GetAllocation(id).host = None
    BY <2>3, <2>5, Zenon DEF ResolvedHost
  <2> QED BY <1>1, <1>4, <2>6, Zenon DEF RowsStep
<1> QED BY <1>2, <1>3, <1>4, Zenon

LEMMA ServiceRows ==
  ASSUME Inv, Next, phase = "serving", NEW id \in Ids
  PROVE  RowsStep(id)
<1>1. CASE UNCHANGED repo
  BY <1>1, Zenon DEF repo, RowsStep
<1>2. ASSUME NEW c \in Clients, Step(c) PROVE RowsStep(id)
  <2>1. CASE Persist(c)
    <3>1. cur[c] # id => UNCHANGED repo \/ (allocations'[id] = allocations[id] /\ bindings'[id] = bindings[id])
      BY <2>1, Zenon DEF Persist, InsertAllocationWithBinding, InsertAllocation, repo, Inv, TypeOK,
                         RepositoryTypeOK
    <3> QED BY <1>1, <2>1, <3>1, Zenon DEF Persist, RowsStep
  <2>2. CASE Commit(c)
    BY <2>2, CommitRows, Zenon
  <2>3. CASE DeleteRow(c)
    <3>1. CASE DeleteAllocation(cur[c])
      BY <3>1, Zenon DEF DeleteAllocation, Inv, TypeOK, RepositoryTypeOK, RowsStep
    <3> QED BY <1>1, <2>3, <3>1, Zenon DEF DeleteRow
  <2>4. CASE ~ (Persist(c) \/ Commit(c) \/ DeleteRow(c))
    <3>1. UNCHANGED repo
      BY <1>2, <2>4, Zenon DEF Step, Lock, FindPort, CreateListener, Rollback, Read, UpdateListener,
                               DeleteListener
    <3> QED BY <1>1, <3>1, Zenon
  <2> QED BY <2>1, <2>2, <2>3, <2>4, Zenon
<1>3. ASSUME NEW c \in Clients, Call(c) \/ CallRefused(c) \/ RepositoryFails(c) \/ Cancel(c)
      PROVE  UNCHANGED repo
  BY <1>3, Zenon DEF Call, CallRefused, RepositoryFails, Cancel
<1>4. ASSUME Crash \/ StartupFails \/ ListForRestore \/ Serve \/ \E i \in Ids : Restore(i)
      PROVE  UNCHANGED repo
  BY <1>4, Zenon DEF Crash, StartupFails, Exit, ListForRestore, Serve, Restore
<1>5. ~ Open
  BY Zenon DEF Open
<1> QED BY <1>1, <1>2, <1>3, <1>4, <1>5, Zenon DEF Next

(* A handler has an id that it is creating from before the step, or makes it up in it. *)
Creating(c) == pc[c] \in {"create", "persist", "rollback"}

LEMMA ServiceCreating ==
  ASSUME Inv, Next, phase = "serving", NEW c \in Clients, Creating(c)'
  PROVE  \/ Creating(c) /\ cur'[c] = cur[c] /\ (pc'[c] = "persist" => pc[c] # "rollback")
         \/ pc'[c] = "create" /\ cur'[c] # cur[c]
<1>1. pc \in [Clients -> LockedLabels \cup {"idle", "lock"}] /\ cur \in [Clients -> Ids \cup {None}]
  BY Zenon DEF Inv, TypeOK, ServiceTypeOK
<1>2. CASE pc'[c] = pc[c] /\ cur'[c] = cur[c]
  BY <1>2, Zenon DEF Creating
<1>3. CASE pc'[c] = "idle"
  BY <1>3, Zenon DEF Creating
<1>4. ASSUME NEW d \in Clients, Leave(d) PROVE (pc'[c] = pc[c] /\ cur'[c] = cur[c]) \/ pc'[c] = "idle"
  BY <1>1, <1>4, Zenon DEF Leave
<1>5. ASSUME NEW d \in Clients, NEW label, Goto(d, label)
      PROVE  IF d = c THEN pc'[c] = label ELSE pc'[c] = pc[c]
  BY <1>1, <1>5, Zenon DEF Goto
<1>6. ASSUME NEW d \in Clients, Step(d)
      PROVE  \/ Creating(c) /\ cur'[c] = cur[c] /\ (pc'[c] = "persist" => pc[c] # "rollback")
             \/ pc'[c] = "create" /\ cur'[c] # cur[c]
  <2>1. ASSUME NEW r \in Requests, Lock(d, r)
        PROVE  (pc'[c] = pc[c] /\ cur'[c] = cur[c]) \/ pc'[c] \in {"find", "read"}
    BY <1>1, <2>1, Zenon DEF Lock
  <2>2. CASE FindPort(d)
    <3>1. CASE Leave(d)
      BY <1>2, <1>3, <1>4, <3>1, Zenon
    <3>2. CASE Goto(d, "create") /\ \E id \in FreshIds : cur' = [cur EXCEPT ![d] = id]
      <4>1. IF d = c THEN pc'[c] = "create" /\ cur'[c] # cur[c] ELSE pc'[c] = pc[c] /\ cur'[c] = cur[c]
        BY <1>1, <1>5, <3>2, Zenon DEF FreshIds
      <4> QED BY <1>2, <4>1, Zenon
    <3> QED BY <2>2, <3>1, <3>2, Zenon DEF FindPort, Reply
  <2>3. CASE CreateListener(d) \/ Persist(d)
    <3>1. CASE Leave(d)
      BY <1>2, <1>3, <1>4, <3>1, Zenon
    <3>2. CASE (Goto(d, "persist") \/ Goto(d, "rollback")) /\ cur' = cur
      <4>1. Creating(d) /\ pc[d] # "rollback"
        BY <2>3, Zenon DEF CreateListener, Persist, Creating
      <4>2. d # c => pc'[c] = pc[c]
        BY <1>5, <3>2, Zenon
      <4> QED BY <1>2, <3>2, <4>1, <4>2, Zenon
    <3>3. CASE Goto(d, "find") /\ cur' = [cur EXCEPT ![d] = None]
      <4>1. IF d = c THEN pc'[c] = "find" ELSE pc'[c] = pc[c] /\ cur'[c] = cur[c]
        BY <1>1, <1>5, <3>3, Zenon
      <4> QED BY <1>2, <4>1, Zenon DEF Creating
    <3> QED BY <2>3, <3>1, <3>2, <3>3, Zenon DEF CreateListener, Persist, Reply, locals
  <2>4. CASE Rollback(d) \/ Read(d) \/ Commit(d) \/ UpdateListener(d) \/ DeleteListener(d) \/ DeleteRow(d)
    <3>1. CASE Leave(d)
      BY <1>2, <1>3, <1>4, <3>1, Zenon
    <3>2. CASE /\ Goto(d, "delete") \/ Goto(d, "commit") \/ Goto(d, "update") \/ Goto(d, "db_delete")
               /\ cur' = cur
      <4>1. pc'[c] \in {pc[c], "delete", "commit", "update", "db_delete"}
        BY <1>5, <3>2, Zenon
      <4> QED BY <1>2, <3>2, <4>1, Zenon DEF Creating
    <3> QED BY <2>4, <3>1, <3>2, Zenon DEF Rollback, Read, Commit, UpdateListener, DeleteListener,
                                           DeleteRow, Reply, locals
  <2> QED BY <1>2, <1>6, <2>1, <2>2, <2>3, <2>4, Zenon DEF Step, Creating
<1>7. ASSUME NEW d \in Clients, Call(d)
      PROVE  pc'[c] \in {pc[c], "lock"} /\ cur'[c] = cur[c]
  BY <1>5, <1>7, Zenon DEF Call, locals
<1>8. ASSUME NEW d \in Clients, CallRefused(d) \/ RepositoryFails(d) \/ Cancel(d)
      PROVE  Leave(d)
  BY <1>8, Zenon DEF CallRefused, RepositoryFails, Cancel, Reply
<1>9. ASSUME Crash \/ StartupFails PROVE pc'[c] = "idle"
  BY <1>9, Zenon DEF Crash, StartupFails, Exit
<1>10. ~ (Open \/ ListForRestore \/ Serve \/ \E i \in Ids : Restore(i))
  BY Zenon DEF Open, ListForRestore, Serve, Restore
<1> QED BY <1>2, <1>3, <1>4, <1>6, <1>7, <1>8, <1>9, <1>10, Zenon DEF Next, Creating

(* What the mappers show of a row that repeats its binding. *)
Mirrors(row, b) ==
  IF b = None THEN row.target_port = 0 /\ row.host = None
              ELSE row.target_port = b.target_port /\ row.host = b.host

LEMMA MirrorTarget ==
  ASSUME NEW row \in AllocationRows, NEW b \in BindingRows \cup {None}, Mirrors(row, b)
  PROVE  /\ Target(ToAllocation(row, b)) = << TargetOfColumn(row.target_port), row.host >>
         /\ Target(ToAllocation(row, b)) \in Targeted
         /\ ToAllocation(row, b).host = row.host
         /\ b = None => Target(ToAllocation(row, b)) = << None, None >>
         /\ b # None => Target(ToAllocation(row, b)) = Target(b) /\ b.target_port \in Ports
<1>1. /\ row.target_port \in 0..MaxPort /\ row.host \in Hosts \cup {None}
      /\ b # None => b.target_port \in Ports /\ b.host \in Hosts \cup {None}
  BY Zenon DEF AllocationRows, BindingRows
<1>2. ToAllocation(row, b).host = row.host
  BY Zenon DEF ToAllocation, Mirrors
<1>3. ToAllocation(row, b).target_port =
        IF b # None THEN b.target_port ELSE TargetOfColumn(row.target_port)
  BY Zenon DEF ToAllocation
<1>4. ToAllocation(row, b).target_port = TargetOfColumn(row.target_port)
  BY <1>1, <1>3 DEF Mirrors, TargetOfColumn, Ports
<1>5. TargetOfColumn(row.target_port) \in Ports \cup {None}
  BY <1>1 DEF TargetOfColumn, Ports
<1>6. b = None => TargetOfColumn(row.target_port) = None /\ row.host = None
  BY DEF Mirrors, TargetOfColumn
<1> QED BY <1>1, <1>2, <1>3, <1>4, <1>5, <1>6, Zenon DEF Target, Targeted, Mirrors

LEMMA StoredRow ==
  ASSUME Inv, phase = "serving", NEW id \in Ids
  PROVE  /\ bindings[id] \in BindingRows \cup {None}
         /\ bindings[id] # None => allocations[id] # None
         /\ allocations[id] # None => /\ allocations[id] \in AllocationRows
                                      /\ Mirrors(allocations[id], bindings[id])
                                      /\ GetAllocation(id) = ToAllocation(allocations[id], bindings[id])
BY Zenon DEF Inv, TypeOK, RepositoryTypeOK, RowsInv, RowMirrorsBinding, Mirrors, GetAllocation

LEMMA StoredRowNext ==
  ASSUME Inv', phase' = "serving", NEW id \in Ids
  PROVE  /\ bindings'[id] \in BindingRows \cup {None}
         /\ allocations'[id] # None => /\ allocations'[id] \in AllocationRows
                                       /\ Mirrors(allocations'[id], bindings'[id])
                                       /\ GetAllocation(id)' = ToAllocation(allocations'[id], bindings'[id])
BY Zenon DEF Inv, TypeOK, RepositoryTypeOK, RowsInv, RowMirrorsBinding, Mirrors, GetAllocation

(* The history of what was stored, when t is stored now. *)
Stores(stored, t) ==
  IF Len(stored) = 3 \/ t = stored[Len(stored)] THEN stored ELSE Append(stored, t)

LEMMA StoresKeeps ==
  ASSUME NEW stored \in Seq(Targeted), Len(stored) \in 1..3, NEW t \in Targeted
  PROVE  /\ Stores(stored, t) \in Seq(Targeted) /\ Len(Stores(stored, t)) \in 1..3
         /\ Stores(stored, t)[1] = stored[1]
         /\ Len(Stores(stored, t)) < 3 => Stores(stored, t)[Len(Stores(stored, t))] = t
         /\ Len(Stores(stored, t)) >= Len(stored)
         /\ t # stored[Len(stored)] => \/ Len(Stores(stored, t)) = 3
                                       \/ Len(Stores(stored, t)) > Len(stored)
<1>1. CASE Len(stored) = 3 \/ t = stored[Len(stored)]
  <2>1. Stores(stored, t) = stored
    BY <1>1, Zenon DEF Stores
  <2> QED BY <1>1, <2>1
<1>2. CASE ~ (Len(stored) = 3 \/ t = stored[Len(stored)])
  <2>1. PICK new : new = Append(stored, t)
    BY Zenon
  <2>2. /\ new \in Seq(Targeted) /\ Len(new) = Len(stored) + 1
        /\ \A i \in 1..Len(stored) : new[i] = stored[i]
        /\ new[Len(stored) + 1] = t
    BY <2>1, AppendProperties
  <2>3. Stores(stored, t) = new
    BY <1>2, <2>1, Zenon DEF Stores
  <2>4. new[1] = stored[1] /\ new[Len(new)] = t /\ Len(new) \in 1..3 /\ Len(new) > Len(stored)
    BY <1>2, <2>2
  <2>5. Len(new) >= Len(stored)
    BY <2>2, <2>4
  <2> QED BY <2>2, <2>3, <2>4, <2>5, Zenon
<1> QED BY <1>1, <1>2, Zenon

(* A step of a handler between the two queries of list_allocations. *)
LEMMA ListedStep ==
  ASSUME Inv, Inv', Next, phase = "serving", phase' = "serving", NEW id \in Ids, NEW row,
         NEW stored \in Seq(Targeted), Len(stored) \in 1..3, ListedInv(id, row, stored),
         \A c \in Clients : cur'[c] # cur[c] /\ pc'[c] = "create" => cur'[c] # id,
         NEW new, new = IF \/ allocations'[id] = None \/ Len(stored) = 3
                           \/ Target(ToAllocation(allocations'[id], bindings'[id])) = stored[Len(stored)]
                        THEN stored
                        ELSE Append(stored, Target(ToAllocation(allocations'[id], bindings'[id])))
  PROVE  new \in Seq(Targeted) /\ Len(new) \in 1..3 /\ ListedInv(id, row, new)'
<1>1. \A c \in Clients : Creating(c)' => cur'[c] # id
  BY ServiceCreating, Zenon DEF ListedInv, Creating
<1>2. row \in AllocationRows /\ stored[1] = << TargetOfColumn(row.target_port), row.host >>
  BY Zenon DEF ListedInv
<1>3. CASE allocations'[id] = None
  BY <1>1, <1>2, <1>3, Zenon DEF ListedInv, Creating
<1>4. CASE allocations'[id] # None
  <2>1. PICK t : t = Target(ToAllocation(allocations'[id], bindings'[id]))
    BY Zenon
  <2>2. /\ t \in Targeted
        /\ GetAllocation(id)' = ToAllocation(allocations'[id], bindings'[id])
        /\ bindings'[id] = None => t = << None, None >>
        /\ bindings'[id] # None => t = Target(bindings'[id]) /\ bindings'[id].target_port \in Ports
        /\ t = Target(GetAllocation(id)')
    BY <1>4, <2>1, StoredRowNext, MirrorTarget, Zenon
  <2>3. new = Stores(stored, t)
    BY <1>4, <2>1, Zenon DEF Stores
  <2>4. /\ new \in Seq(Targeted) /\ Len(new) \in 1..3
        /\ new[1] = stored[1]
        /\ Len(new) < 3 => new[Len(new)] = t
        /\ Len(new) >= Len(stored)
        /\ t # stored[Len(stored)] => Len(new) = 3 \/ Len(new) > Len(stored)
    BY <2>2, <2>3, StoresKeeps, Zenon
  <2>5. /\ allocations[id] # None
        /\ \/ allocations'[id] = allocations[id] /\ bindings'[id] = bindings[id]
           \/ bindings'[id] = None
           \/ bindings'[id].host = None => GetAllocation(id).host = None
    <3>1. RowsStep(id)
      BY ServiceRows, Zenon
    <3>2. \A c \in Clients : ~ (pc[c] = "persist" /\ cur[c] = id)
      BY Zenon DEF ListedInv
    <3> QED BY <1>4, <3>1, <3>2, Zenon DEF RowsStep
  <2>6. /\ GetAllocation(id).host = allocations[id].host
        /\ Target(GetAllocation(id)) = << GetAllocation(id).target_port, GetAllocation(id).host >>
        /\ bindings[id] = None => Target(GetAllocation(id)) = << None, None >>
    <3>1. /\ allocations[id] \in AllocationRows /\ bindings[id] \in BindingRows \cup {None}
          /\ Mirrors(allocations[id], bindings[id])
          /\ GetAllocation(id) = ToAllocation(allocations[id], bindings[id])
      BY <2>5, StoredRow, Zenon
    <3>2. /\ GetAllocation(id).host = allocations[id].host
          /\ bindings[id] = None => Target(GetAllocation(id)) = << None, None >>
      BY <3>1, MirrorTarget, Zenon
    <3> QED BY <3>2, Zenon DEF Target
  <2>7. /\ Len(stored) < 3 => stored[Len(stored)] = Target(GetAllocation(id))
        /\ row.host # None /\ GetAllocation(id).host = None =>
             Len(stored) >= IF bindings[id] = None THEN 2 ELSE 3
    BY <2>5, Zenon DEF ListedInv
  <2>8. ASSUME row.host # None, t[2] = None
        PROVE  Len(new) >= IF bindings'[id] = None THEN 2 ELSE 3
    <3>1. CASE bindings'[id] = None
      <4>1. CASE GetAllocation(id).host = None
        BY <2>4, <2>7, <2>8, <3>1, <4>1
      <4>2. CASE GetAllocation(id).host # None
        BY <2>4, <2>6, <2>7, <2>8, <3>1, <4>2
      <4> QED BY <4>1, <4>2, Zenon
    <3>2. CASE bindings'[id] # None
      <4>1. bindings'[id].host = None
        BY <2>2, <2>8, <3>2 DEF Target
      <4>2. GetAllocation(id).host = None
        <5>1. CASE allocations'[id] = allocations[id] /\ bindings'[id] = bindings[id]
          BY <2>5, <2>6, <3>2, <4>1, <5>1, StoredRow, Zenon DEF Mirrors
        <5>2. CASE bindings'[id].host = None => GetAllocation(id).host = None
          BY <4>1, <5>2, Zenon
        <5> QED BY <2>5, <3>2, <5>1, <5>2, Zenon
      <4>3. CASE bindings[id] # None
        BY <2>4, <2>7, <2>8, <4>2, <4>3
      <4>4. CASE bindings[id] = None
        <5>1. t # << None, None >>
          BY <2>2, <3>2, NoneIsNoPort DEF Target
        <5>2. Len(stored) >= 2 /\ (Len(stored) < 3 => t # stored[Len(stored)])
          BY <2>6, <2>7, <2>8, <4>2, <4>4, <5>1, Zenon
        <5> QED BY <2>4, <3>2, <5>2
      <4> QED BY <4>3, <4>4, Zenon
    <3> QED BY <3>1, <3>2, Zenon
  <2>9. ListedInv(id, row, new)'
    <3>1. t[2] = GetAllocation(id)'.host
      BY <2>2 DEF Target
    <3>2. row.host # None /\ GetAllocation(id)'.host = None =>
            Len(new) >= IF bindings'[id] = None THEN 2 ELSE 3
      BY <2>8, <3>1, Zenon
    <3>3. Len(new) < 3 => new[Len(new)] = Target(GetAllocation(id)')
      BY <2>2, <2>4, Zenon
    <3> QED BY <1>1, <1>2, <2>4, <3>2, <3>3, Zenon DEF ListedInv, Creating
  <2> QED BY <2>4, <2>9, Zenon
<1> QED BY <1>3, <1>4, Zenon

(* A view that a handler's step comes under. *)
LEMMA WatchedInv ==
  ASSUME Inv, Inv', Next, FreshToView, view # None, phase' = "serving",
         NEW v, v = view, ViewInv(v), v.at # "done", NEW w, w = Watched
  PROVE  ViewInv(w)'
<1>1. v \in ViewRecords /\ phase = "serving" /\ v.id \in Ids
  BY Zenon DEF ViewInv, ViewRecords
<1>2. PICK now : now = IF allocations'[v.id] = None THEN None
                       ELSE ToAllocation(allocations'[v.id], bindings'[v.id])
  BY Zenon
<1>3. PICK stored : stored = IF v.at = "snapshot" THEN << v.target >>
                             ELSE IF \/ now = None \/ Len(v.stored) = 3
                                     \/ Target(now) = v.stored[Len(v.stored)]
                             THEN v.stored ELSE Append(v.stored, Target(now))
  BY Zenon
<1>4. PICK quiet \in BOOLEAN :
        quiet = (/\ v.quiet
                 /\ allocations'[v.id] = allocations[v.id] /\ bindings'[v.id] = bindings[v.id]
                 /\ entries'[v.id] = entries[v.id])
  BY Zenon
<1>5. w = [v EXCEPT !.stored = stored, !.quiet = quiet]
  BY <1>2, <1>3, <1>4, Zenon DEF Watched
<1>6. /\ w.id = v.id /\ w.at = v.at /\ w.row = v.row /\ w.target = v.target
      /\ w.effective = v.effective /\ w.stored = stored /\ w.quiet = quiet
  BY <1>1, <1>5 DEF ViewRecords
<1>7. /\ stored \in Seq(Targeted) /\ Len(stored) \in 1..3
      /\ v.at = "bindings" => ListedInv(v.id, v.row, stored)'
      /\ v.at = "snapshot" => v.target \in Range(stored)
  <2>1. v.stored \in Seq(Targeted) /\ Len(v.stored) \in 1..3
    BY Zenon DEF ViewInv, ViewRecords
  <2>2. CASE v.at = "snapshot"
    <3>1. stored = << v.target >> /\ v.target \in Targeted
      BY <1>3, <2>2, Zenon DEF ViewInv
    <3>2. /\ stored \in Seq(Targeted) /\ Len(stored) \in 1..3 /\ 1 \in DOMAIN stored
          /\ stored[1] = v.target
      BY <3>1
    <3> QED BY <2>2, <3>2, Zenon DEF Range
  <2>3. CASE v.at = "bindings"
    <3>1. PICK id \in Ids, old \in Seq(Targeted) : id = v.id /\ old = v.stored
      BY <1>1, <2>1, Zenon
    <3> PICK row : row = v.row
      BY Zenon
    <3>2. ListedInv(id, row, old) /\ Len(old) \in 1..3
      <4>1. ListedInv(v.id, v.row, v.stored)
        BY <2>3, Zenon DEF ViewInv
      <4> QED BY <2>1, <3>1, <4>1, Zenon
    <3>3. \A c \in Clients : cur'[c] # cur[c] /\ pc'[c] = "create" => cur'[c] # id
      BY <3>1 DEF FreshToView
    <3>4. allocations'[id] # None => now # None
      <4>1. allocations'[id] # None => ToAllocation(allocations'[id], bindings'[id]) \in Allocation
        BY StoredRowNext, ToAllocationType, Zenon
      <4> QED BY <1>2, <3>1, <4>1, NoneAssumption, Zenon
    <3>5. stored = IF \/ allocations'[id] = None \/ Len(old) = 3
                      \/ Target(ToAllocation(allocations'[id], bindings'[id])) = old[Len(old)]
                   THEN old ELSE Append(old, Target(ToAllocation(allocations'[id], bindings'[id])))
      <4>1. v.at # "snapshot"
        BY <2>3
      <4> QED BY <1>2, <1>3, <3>1, <3>4, <4>1, Zenon
    <3>6. stored \in Seq(Targeted) /\ Len(stored) \in 1..3 /\ ListedInv(id, row, stored)'
      BY <1>1, <3>2, <3>3, <3>5, ListedStep, Zenon
    <3> QED BY <2>3, <3>1, <3>6, Zenon
  <2> QED BY <1>1, <2>2, <2>3, Zenon DEF ViewRecords
<1>8. w \in ViewRecords
  BY <1>1, <1>5, <1>7, Zenon DEF ViewRecords
<1>9. w.quiet => QuietInv(w)'
  <2> SUFFICES ASSUME w.quiet PROVE QuietInv(w)'
    OBVIOUS
  <2>1. QuietInv(v)
    BY <1>4, <1>6, Zenon DEF ViewInv
  <2>2. /\ allocations'[v.id] = allocations[v.id] /\ bindings'[v.id] = bindings[v.id]
        /\ entries'[v.id] = entries[v.id]
    BY <1>4, <1>6, Zenon
  <2>3. GetAllocation(v.id)' = GetAllocation(v.id)
    BY <2>2, Zenon DEF GetAllocation
  <2>4. CASE v.at = "bindings"
    <3>1. w.at # "snapshot" /\ w.at # "done"
      BY <1>6, <2>4
    <3>2. allocations'[w.id] = w.row /\ entries'[w.id] = GetAllocation(v.id)'
      BY <1>6, <2>1, <2>2, <2>3, <2>4, Zenon DEF QuietInv
    <3> QED BY <1>6, <3>1, <3>2, Zenon DEF QuietInv
  <2>5. CASE v.at = "snapshot"
    <3>1. w.at # "bindings" /\ w.at # "done"
      BY <1>6, <2>5
    <3>2. allocations'[w.id] # None /\ entries'[w.id] # None /\ Target(entries'[w.id]) = w.target
      BY <1>6, <2>1, <2>2, <2>5, Zenon DEF QuietInv
    <3> QED BY <3>1, <3>2, Zenon DEF QuietInv
  <2> QED BY <1>1, <2>4, <2>5, Zenon DEF ViewRecords
<1>10. /\ v.at = "bindings" => v.target = None
       /\ v.at # "bindings" => v.at = "snapshot" /\ v.target \in Targeted
  BY <1>1, Zenon DEF ViewInv, ViewRecords
<1> QED BY <1>6, <1>7, <1>8, <1>9, <1>10, Zenon DEF ViewInv

(* A view that asks the runtime next. *)
SnapshotView(id, target, quiet) ==
  [id |-> id, at |-> "snapshot", row |-> None, target |-> target, effective |-> None,
   stored |-> << target >>, quiet |-> quiet, deleting |-> FALSE]

LEMMA SnapshotViewInv ==
  ASSUME NEW id \in Ids, NEW target \in Targeted, NEW quiet \in BOOLEAN,
         NEW v, v = SnapshotView(id, target, quiet), phase' = "serving",
         quiet => allocations'[id] # None /\ entries'[id] # None /\ Target(entries'[id]) = target
  PROVE  ViewInv(v)'
<1>1. << target >> \in Seq(Targeted) /\ Len(<< target >>) \in 1..3
  OBVIOUS
<1>2. v \in ViewRecords
  BY <1>1, Zenon DEF ViewRecords, SnapshotView
<1>3. /\ v.at = "snapshot" /\ v.target = target /\ v.id = id
      /\ v.quiet = quiet /\ v.stored = << target >>
  BY DEF SnapshotView
<1>4. target \in Range(<< target >>)
  <2>1. 1 \in DOMAIN << target >> /\ << target >>[1] = target
    OBVIOUS
  <2> QED BY <2>1, Zenon DEF Range
<1>5. v.quiet => QuietInv(v)'
  BY <1>3, Zenon DEF QuietInv
<1> QED BY <1>1, <1>2, <1>3, <1>4, <1>5, Zenon DEF ViewInv

(* The stored target of an allocation that both stores agree about. *)
LEMMA SettledShown ==
  ASSUME Inv, phase = "serving", NEW id \in Ids, allocations[id] # None
  PROVE  /\ Target(GetAllocation(id)) \in Targeted
         /\ Target(GetAllocation(id)) =
              << TargetOfColumn(allocations[id].target_port), allocations[id].host >>
         /\ GetAllocation(id).host = allocations[id].host
         /\ GetAllocation(id) # None
         /\ Settled(id) => entries[id] = GetAllocation(id)
<1>1. /\ allocations[id] \in AllocationRows /\ bindings[id] \in BindingRows \cup {None}
      /\ Mirrors(allocations[id], bindings[id])
      /\ GetAllocation(id) = ToAllocation(allocations[id], bindings[id])
  BY StoredRow, Zenon
<1>2. GetAllocation(id) # None
  BY GetAllocationType, Zenon DEF Inv, TypeOK
<1>3. Settled(id) => entries[id] = GetAllocation(id)
  BY Zenon DEF Inv, RuntimeAgrees, Settled
<1> QED BY <1>1, <1>2, <1>3, MirrorTarget, Zenon

LEMMA SettledBoolean == ASSUME NEW id PROVE Settled(id) \in BOOLEAN
BY Zenon DEF Settled

LEMMA GetAllocationViewInv ==
  ASSUME Inv, Inv', NEW id \in Ids, GetAllocationView(id) \/ GetBindingView(id), NEW v, v = view'
  PROVE  ViewInv(v)'
<1>1. phase = "serving" /\ UNCHANGED vars
  BY Zenon DEF GetAllocationView, GetBindingView
<1>2. allocations[id] # None
  BY <1>1, StoredRow, Zenon DEF GetAllocationView, GetBindingView
<1>3. PICK target \in Targeted : target = Target(GetAllocation(id))
  BY <1>1, <1>2, SettledShown, Zenon
<1>4. bindings[id] # None => Target(bindings[id]) = target
  <2>1. /\ allocations[id] \in AllocationRows /\ bindings[id] \in BindingRows \cup {None}
        /\ Mirrors(allocations[id], bindings[id])
        /\ GetAllocation(id) = ToAllocation(allocations[id], bindings[id])
    BY <1>1, <1>2, StoredRow, Zenon
  <2> QED BY <1>3, <2>1, MirrorTarget, Zenon
<1>5. PICK quiet \in BOOLEAN : quiet = Settled(id)
  BY SettledBoolean, Zenon
<1>6. v = SnapshotView(id, target, quiet)
  BY <1>3, <1>4, <1>5, Zenon DEF GetAllocationView, GetBindingView, NewView, SnapshotView
<1>7. quiet => entries[id] # None /\ Target(entries[id]) = target
  BY <1>1, <1>2, <1>3, <1>5, SettledShown, Zenon
<1>8. allocations' = allocations /\ entries' = entries /\ phase' = "serving"
  BY <1>1, Zenon DEF vars
<1> QED BY <1>2, <1>6, <1>7, <1>8, SnapshotViewInv, Zenon

(* list_allocations: the first query. *)
LEMMA ListRowsInv ==
  ASSUME Inv, Inv', NEW id \in Ids, ListRows(id), NEW v, v = view'
  PROVE  ViewInv(v)'
<1>1. phase = "serving" /\ UNCHANGED vars /\ allocations[id] # None
  BY Zenon DEF ListRows
<1>2. PICK target \in Targeted : target = Target(GetAllocation(id))
  BY <1>1, SettledShown, Zenon
<1>3. PICK quiet \in BOOLEAN : quiet = Settled(id)
  BY SettledBoolean, Zenon
<1>4. PICK row \in AllocationRows : row = allocations[id]
  BY <1>1, StoredRow, Zenon
<1>5. PICK stored : stored = << target >>
  BY Zenon
<1>6. v = [id |-> id, at |-> "bindings", row |-> row, target |-> None, effective |-> None,
           stored |-> stored, quiet |-> quiet, deleting |-> FALSE]
  BY <1>2, <1>3, <1>4, <1>5, Zenon DEF ListRows, NewView
<1>7. stored \in Seq(Targeted) /\ Len(stored) = 1 /\ Len(stored) \in 1..3 /\ stored[1] = target
  BY <1>5
<1>8. v \in ViewRecords
  BY <1>6, <1>7 DEF ViewRecords
<1>9. /\ v.id = id /\ v.at = "bindings" /\ v.row = row /\ v.target = None
      /\ v.stored = stored /\ v.quiet = quiet
  BY <1>6
<1>10. UNCHANGED <<phase, allocations, bindings, entries, pc, cur>>
  BY <1>1, Zenon DEF vars
<1>11. ListedInv(id, row, stored)
  <2>1. stored[1] = << TargetOfColumn(row.target_port), row.host >>
    BY <1>1, <1>2, <1>4, <1>7, SettledShown, Zenon
  <2>2. \A c \in Clients : pc[c] \in {"create", "persist", "rollback"} => cur[c] # id
    BY <1>1, Zenon DEF Inv, HandlerInv, CreateInv
  <2>3. GetAllocation(id).host = row.host
    BY <1>1, <1>4, SettledShown, Zenon
  <2> QED BY <1>2, <1>7, <2>1, <2>2, <2>3, Zenon DEF ListedInv
<1>12. ListedInv(id, row, stored)'
  BY <1>10, <1>11, Zenon DEF ListedInv, GetAllocation
<1>13. v.quiet => QuietInv(v)'
  <2>1. quiet => entries[id] = GetAllocation(id)
    BY <1>1, <1>3, SettledShown, Zenon
  <2>2. GetAllocation(id)' = GetAllocation(id)
    BY <1>10, Zenon DEF GetAllocation
  <2> QED BY <1>4, <1>9, <1>10, <2>1, <2>2, Zenon DEF QuietInv
<1> QED BY <1>1, <1>7, <1>8, <1>9, <1>10, <1>12, <1>13, Zenon DEF ViewInv

(* A row and a later binding give a target that was stored, if there were not three. *)
LEMMA ListedTarget ==
  ASSUME Inv, phase = "serving", NEW id \in Ids, NEW row, NEW stored \in Seq(Targeted),
         Len(stored) \in 1..3, ListedInv(id, row, stored)
  PROVE  /\ Target(ToAllocation(row, bindings[id])) \in Targeted
         /\ Len(stored) < 3 => Target(ToAllocation(row, bindings[id])) \in Range(stored)
<1>1. row \in AllocationRows /\ stored[1] = << TargetOfColumn(row.target_port), row.host >>
  BY Zenon DEF ListedInv
<1>2. PICK b \in BindingRows \cup {None} : b = bindings[id]
  BY StoredRow, Zenon
<1>3. ToAllocation(row, b) \in Allocation
  BY <1>1, ToAllocationType, Zenon
<1>4. Target(ToAllocation(row, b)) \in Targeted
  BY <1>3 DEF Target, Targeted, Allocation
<1>5. \A i \in 1..Len(stored) : stored[i] \in Range(stored)
  BY DEF Range
<1>6. stored[1] \in Range(stored) /\ stored[Len(stored)] \in Range(stored)
  BY <1>5
<1>7. CASE b = None
  <2>1. Target(ToAllocation(row, b)) = << TargetOfColumn(row.target_port), row.host >>
    BY <1>7 DEF Target, ToAllocation
  <2> QED BY <1>1, <1>2, <1>4, <1>6, <2>1, Zenon
<1>8. CASE b # None
  <2>1. /\ allocations[id] # None /\ allocations[id] \in AllocationRows
        /\ Mirrors(allocations[id], b) /\ GetAllocation(id) = ToAllocation(allocations[id], b)
    BY <1>2, <1>8, StoredRow, Zenon
  <2>2. Target(GetAllocation(id)) = Target(b)
    BY <1>8, <2>1, MirrorTarget, Zenon
  <2>3. GetAllocation(id).host = b.host
    BY <2>2 DEF Target
  <2>4. CASE b.host # None \/ row.host = None
    <3>1. Target(ToAllocation(row, b)) = Target(b)
      BY <1>8, <2>4 DEF Target, ToAllocation
    <3>2. Len(stored) < 3 => stored[Len(stored)] = Target(GetAllocation(id))
      BY <2>1, Zenon DEF ListedInv
    <3> QED BY <1>2, <1>4, <1>6, <2>2, <3>1, <3>2, Zenon
  <2>5. CASE b.host = None /\ row.host # None
    <3>1. Len(stored) >= 3
      BY <1>2, <1>8, <2>1, <2>3, <2>5, Zenon DEF ListedInv
    <3>2. ~ (Len(stored) < 3)
      BY <3>1
    <3> QED BY <1>2, <1>4, <3>2, Zenon
  <2> QED BY <2>4, <2>5, Zenon
<1> QED BY <1>7, <1>8, Zenon

(* list_allocations: the second query. *)
LEMMA ListBindingsInv ==
  ASSUME Inv, Inv', ListBindings, NEW v, v = view, ViewInv(v), NEW w, w = view'
  PROVE  ViewInv(w)'
<1>1. /\ phase = "serving" /\ v \in ViewRecords /\ v.at = "bindings" /\ Len(v.stored) \in 1..3
      /\ ListedInv(v.id, v.row, v.stored)
  BY Zenon DEF ViewInv, ListBindings
<1>2. v.id \in Ids /\ v.stored \in Seq(Targeted) /\ v.quiet \in BOOLEAN
  BY <1>1, Zenon DEF ViewRecords
<1>3. PICK id \in Ids, stored \in Seq(Targeted) : id = v.id /\ stored = v.stored
  BY <1>2, Zenon
<1>4. PICK row : row = v.row
  BY Zenon
<1>5. PICK target : target = Target(ToAllocation(row, bindings[id]))
  BY Zenon
<1>6. ListedInv(id, row, stored) /\ Len(stored) \in 1..3
  BY <1>1, <1>3, <1>4, Zenon
<1>7. target \in Targeted /\ (Len(stored) < 3 => target \in Range(stored))
  BY <1>1, <1>5, <1>6, ListedTarget, Zenon
<1>8. w = [v EXCEPT !.at = "snapshot", !.row = None, !.target = target]
  BY <1>3, <1>4, <1>5, Zenon DEF ListBindings, model_to_allocation
<1>9. /\ w.id = id /\ w.at = "snapshot" /\ w.target = target /\ w.stored = stored
      /\ w.quiet = v.quiet
  BY <1>1, <1>3, <1>8 DEF ViewRecords
<1>10. w \in ViewRecords
  BY <1>1, <1>7, <1>8, Zenon DEF ViewRecords
<1>11. UNCHANGED <<phase, allocations, entries>>
  BY Zenon DEF ListBindings, vars
<1>12. w.quiet => QuietInv(w)'
  <2> SUFFICES ASSUME w.quiet PROVE QuietInv(w)'
    OBVIOUS
  <2>1. allocations[id] = row /\ entries[id] = GetAllocation(id)
    BY <1>1, <1>3, <1>4, <1>9, Zenon DEF ViewInv, QuietInv
  <2>2. allocations[id] # None
    BY <1>6, <2>1, NoneAssumption, Zenon DEF ListedInv
  <2>3. entries[id] # None /\ Target(entries[id]) = target
    BY <1>1, <1>5, <2>1, <2>2, SettledShown, Zenon DEF GetAllocation
  <2> QED BY <1>9, <1>11, <2>2, <2>3, Zenon DEF QuietInv
<1> QED BY <1>1, <1>6, <1>7, <1>9, <1>10, <1>11, <1>12, Zenon DEF ViewInv

LEMMA MemberBoolean == ASSUME NEW x, NEW S PROVE (x \in S) \in BOOLEAN
OBVIOUS

LEMMA ViewSnapshotInv ==
  ASSUME Inv, Inv', RuntimeInv, ViewSnapshot, NEW v, v = view, ViewInv(v), NEW w, w = view'
  PROVE  ViewInv(w)'
<1>1. /\ phase = "serving" /\ v \in ViewRecords /\ v.at = "snapshot"
      /\ v.target \in Targeted /\ UNCHANGED vars
  BY Zenon DEF ViewInv, ViewSnapshot
<1>2. PICK id \in Ids, target \in Targeted, quiet \in BOOLEAN :
        id = v.id /\ target = v.target /\ quiet = v.quiet
  BY <1>1, Zenon DEF ViewRecords
<1>3. PICK effective : effective = observed(id)
  BY Zenon
<1>4. /\ effective \in Targeted \cup {None}
      /\ mode = "proxy" /\ id \notin protocols => effective = None
      /\ entries[id] # None /\ ~ (mode = "proxy" /\ id \notin protocols) =>
           effective = IF None \in {entries[id].target_port, entries[id].host} THEN None
                       ELSE Target(entries[id])
  <2>1. entries[id] # None => entries[id] \in Allocation
    BY Zenon DEF Inv, TypeOK, RuntimeTypeOK
  <2>2. entries[id] # None => Target(entries[id]) \in Targeted
    BY <2>1 DEF Target, Targeted, Allocation
  <2> QED BY <1>3, <2>2, Zenon DEF observed
<1>5. PICK stored : stored = << target >>
  BY Zenon
<1>6. /\ stored \in Seq(Targeted) /\ Len(stored) \in 1..3 /\ 1 \in DOMAIN stored
      /\ stored[1] = target
  BY <1>5
<1>7. target \in Range(stored)
  BY <1>6, Zenon DEF Range
<1> PICK deleting \in BOOLEAN : deleting = (id \in begun)
  BY MemberBoolean, Zenon
<1>8. w = [v EXCEPT !.at = "done", !.effective = effective, !.stored = stored, !.deleting = deleting]
  BY <1>2, <1>3, <1>5, Zenon DEF ViewSnapshot
<1>9. /\ w.id = id /\ w.at = "done" /\ w.target = target /\ w.stored = stored
      /\ w.effective = effective /\ w.quiet = quiet /\ w.deleting = deleting
  BY <1>1, <1>2, <1>8 DEF ViewRecords
<1>10. w \in ViewRecords
  BY <1>1, <1>4, <1>6, <1>8, Zenon DEF ViewRecords
<1>11. w.quiet => QuietInv(w)'
  <2> SUFFICES ASSUME w.quiet PROVE QuietInv(w)'
    OBVIOUS
  <2>1. allocations[id] # None /\ entries[id] # None /\ Target(entries[id]) = target
    BY <1>1, <1>2, <1>9, Zenon DEF ViewInv, QuietInv
  <2>2. target = << entries[id].target_port, entries[id].host >>
    BY <2>1, Zenon DEF Target
  <2>3. Range(target) = {entries[id].target_port, entries[id].host}
    BY <2>2 DEF Range
  <2>4. CASE mode = "proxy" /\ id \notin protocols
    <3>1. todo = {} /\ id \in ListedIds
      BY <1>1, <2>1, Zenon DEF Inv, StartupInv, ListedIds
    <3>2. id \in begun
      BY <1>1, <2>4, <3>1, Zenon DEF RuntimeInv
    <3> QED BY <1>4, <1>9, <2>4, <3>2, Zenon DEF QuietInv
  <2>5. CASE ~ (mode = "proxy" /\ id \notin protocols)
    <3>1. effective = IF None \in Range(target) THEN None ELSE target
      BY <1>4, <2>1, <2>3, <2>5, Zenon
    <3> QED BY <1>9, <3>1, Zenon DEF QuietInv
  <2> QED BY <2>4, <2>5, Zenon
<1>12. phase' = "serving"
  BY <1>1, Zenon DEF vars
<1> QED BY <1>6, <1>7, <1>9, <1>10, <1>11, <1>12, Zenon DEF ViewInv

(* The answer to a change begins as the change has just left both stores. *)
LEMMA AnswerInv ==
  ASSUME Inv, Inv', NEW c \in Clients, Answer(c), NEW v, v = view'
  PROVE  ViewInv(v)'
<1>1. /\ pc[c] \in {"persist", "update"} /\ mutation_lock = c /\ phase = "serving"
      /\ reply' = [client |-> c, result |-> "ok"]
  <2>1. pc[c] \in {"persist", "update"}
    BY Zenon DEF Answer, Persist, UpdateListener
  <2> QED BY <2>1, HolderServes, Zenon DEF LockedLabels, Answer
<1>2. /\ cur[c] \in Ids /\ entries'[cur[c]] = allocation[c] /\ phase' = "serving"
      /\ allocation[c] \in Allocation
  <2>1. CASE Persist(c)
    <3>1. cur[c] \in Ids /\ Trying(c) /\ entries[cur[c]] = allocation[c]
      BY <2>1, Zenon DEF Persist, Inv, HandlerInv, CreateInv
    <3>2. entries' = entries /\ phase' = phase
      BY <2>1, Zenon DEF Persist, Reply, Leave, Goto
    <3>3. allocation[c] # None
      <4>1. req[c] \in CreateRequests
        BY <2>1, Zenon DEF Persist, Inv, HandlerInv, CreateInv
      <4>2. /\ allocation[c].port \in RangeStart..RangeEnd /\ req[c].protocol \in Protocols
            /\ req[c].target_port \in Ports \cup {None}
        BY <3>1, <4>1, RequestAssumption, Zenon DEF Trying, CreateRequests
      <4> allocation[c].port \in Ports
        BY <4>2, RangeAssumption, MaxPortAssumption DEF Ports
      <4>3. [protocol |-> req[c].protocol, port |-> allocation[c].port,
             target_port |-> req[c].target_port, host |-> None] \in Allocation
        BY <4>2, Zenon DEF Allocation
      <4> QED BY <3>1, <4>3, NoneAssumption, Zenon DEF Trying
    <3> QED BY <1>1, <3>1, <3>2, <3>3, Zenon DEF Inv, TypeOK, ServiceTypeOK
  <2>2. CASE UpdateListener(c)
    <3>1. /\ req[c] \in Requests \ CreateRequests /\ cur[c] = req[c].id
          /\ allocations[cur[c]] # None /\ allocation[c] = GetAllocation(cur[c])
      BY <2>2, Zenon DEF UpdateListener, Inv, HandlerInv, ChangeInv
    <3>2. cur[c] \in Ids
      BY <3>1, Zenon DEF Requests, CreateRequests, PutRequests, UpdateRequests, DeleteRequests
    <3>3. allocation[c] \in Allocation
      BY <3>1, <3>2, GetAllocationType, Zenon DEF Inv, TypeOK
    <3>4. ~ Reply(c, "Runtime")
      BY <1>1 DEF Reply
    <3>5. RuntimeUpdateOk(cur[c], allocation[c]) /\ phase' = phase
      BY <2>2, <3>4, Zenon DEF UpdateListener, Reply, Leave
    <3>6. entries'[cur[c]] = allocation[c]
      BY <3>2, <3>5, Zenon DEF RuntimeUpdateOk, Inv, TypeOK, RuntimeTypeOK
    <3> QED BY <1>1, <3>2, <3>3, <3>5, <3>6, Zenon
  <2> QED BY <2>1, <2>2, Zenon DEF Answer
<1>3. PICK id \in Ids : id = cur[c]
  BY <1>2, Zenon
<1>4. PICK target \in Targeted : target = Target(allocation[c])
  BY <1>2, Zenon DEF Target, Targeted, Allocation
<1>5. PICK quiet \in BOOLEAN : quiet = (id \notin suspect')
  BY Zenon
<1>6. v = SnapshotView(id, target, quiet)
  BY <1>3, <1>4, <1>5, Zenon DEF Answer, SnapshotView
<1>7. entries'[id] # None /\ Target(entries'[id]) = target
  BY <1>2, <1>3, <1>4, NoneAssumption, Zenon
<1>8. quiet => allocations'[id] # None
  <2>1. Leave(c)
    <3>1. [client |-> c, result |-> "ok"] \in [client: Clients, result: Results]
      BY DEF Results
    <3>2. ~ Goto(c, "rollback")
      BY <1>1, <3>1, ReplyAssumption, Zenon DEF Goto
    <3> QED BY <3>2, Zenon DEF Answer, Persist, UpdateListener, Reply
  <2>2. \A d \in Clients : pc'[d] \in {"idle", "lock"}
    BY <1>1, <2>1, OthersWait, Zenon DEF Leave, Inv, TypeOK, ServiceTypeOK
  <2>3. \A d \in Clients : ~ HalfDone(d)'
    BY <2>2 DEF HalfDone
  <2>4. quiet => entries'[id] = GetAllocation(id)'
    BY <1>2, <1>5, <2>3, Zenon DEF Inv, RuntimeAgrees
  <2> QED BY <1>7, <2>4, Zenon DEF GetAllocation
<1> QED BY <1>2, <1>6, <1>7, <1>8, SnapshotViewInv, Zenon

-----------------------------------------------------------------------------
(* What RealRuntime knows of the allocations. *)

LEMMA ForgetProtocolInv ==
  ASSUME Inv, RuntimeInv, NEW c \in Clients, ForgetProtocol(c)
  PROVE  RuntimeInv'
<1>1. UNCHANGED <<phase, allocations, todo, pc, cur, mode, begun>>
  BY Zenon DEF ForgetProtocol, vars
<1>2. protocols' = protocols \ {cur[c]} /\ pc[c] \in {"delete", "rollback"}
  BY Zenon DEF ForgetProtocol
<1>3. pc[c] \in LockedLabels
  BY <1>2, Zenon DEF LockedLabels
<1>4. \A d \in Clients : pc[d] # "persist"
  BY <1>2, <1>3, HolderServes, OthersWait, Zenon
<1>5. mode = "proxy" /\ cur[c] \in ListedIds => cur[c] \in begun
  BY <1>2, Zenon DEF RuntimeInv, Inv, HandlerInv, CreateInv, ListedIds
<1>6. ListedIds' = ListedIds
  BY <1>1, Zenon DEF ListedIds
<1> QED BY <1>1, <1>2, <1>4, <1>5, <1>6, Zenon DEF RuntimeInv

LEMMA StartupStep ==
  ASSUME Inv, Next, phase # "serving"
  PROVE  Crash \/ StartupFails \/ Open \/ ListForRestore \/ Serve \/ \E id \in Ids : Restore(id)
<1>1. \A c \in Clients : pc[c] = "idle"
  BY Zenon DEF Inv, LockInv
<1>2. ~ \E c \in Clients : Step(c)
  BY <1>1, Zenon DEF Step, Lock, FindPort, CreateListener, Persist, Rollback, Read, Commit,
                     UpdateListener, DeleteListener, DeleteRow
<1>3. ~ \E c \in Clients : Call(c) \/ CallRefused(c) \/ RepositoryFails(c) \/ Cancel(c)
  BY <1>1, Zenon DEF Call, CallRefused, RepositoryFails, Cancel
<1> QED BY <1>2, <1>3, Zenon DEF Next

(* A step of the service leaves no row whose protocol is not known, ... *)
LEMMA ListedKnown ==
  ASSUME Inv, RuntimeInv, Next, mode = "proxy", Served, phase' \in {"restoring", "serving"}
  PROVE  ListedIds' \subseteq todo' \cup protocols' \cup begun'
<1>1. protocols \subseteq protocols' /\ todo \ todo' \subseteq protocols'
  BY Zenon DEF Served, Noted
<1>2. \A id \in begun : allocations'[id] # None => id \in begun'
  BY Zenon DEF Served
<1>3. CASE phase = "serving"
  <2>1. ASSUME NEW id \in ListedIds' PROVE id \in ListedIds \cup protocols
    <3>1. RowsStep(id) /\ id \in Ids /\ allocations'[id] # None
      BY <1>3, <2>1, ServiceRows, Zenon DEF ListedIds
    <3> QED BY <3>1, Zenon DEF RowsStep, ListedIds, RuntimeInv
  <2>2. ListedIds \subseteq todo \cup protocols \cup begun
    BY <1>3, Zenon DEF RuntimeInv
  <2> QED BY <1>1, <1>2, <2>1, <2>2, Zenon DEF ListedIds
<1>4. CASE phase # "serving"
  <2>4. ~ (Crash \/ StartupFails \/ Open)
    BY Zenon DEF Crash, StartupFails, Exit, Open
  <2>5. CASE ListForRestore
    BY <2>5, Zenon DEF ListForRestore, ListedIds, repo
  <2>6. CASE Serve \/ \E id \in Ids : Restore(id)
    <3>1. phase = "restoring" /\ allocations' = allocations
      BY <2>6, Zenon DEF Serve, Restore, repo
    <3>2. ListedIds \subseteq todo \cup protocols \cup begun /\ ListedIds' = ListedIds
      BY <3>1, Zenon DEF RuntimeInv, ListedIds
    <3> QED BY <1>1, <1>2, <3>2, Zenon DEF ListedIds
  <2> QED BY <1>4, <2>4, <2>5, <2>6, StartupStep, Zenon
<1> QED BY <1>3, <1>4, Zenon

(* ... nor a handler that has created a listener whose protocol is not known. *)
LEMMA CreatedKnown ==
  ASSUME Inv, Inv', RuntimeInv, Next, mode = "proxy", Served, NEW c \in Clients, pc'[c] = "persist"
  PROVE  cur'[c] \in protocols'
<1>1. phase' = "serving"
  BY Zenon DEF Inv, LockInv
<1>2. protocols' = protocols \cup {cur[d] : d \in {d \in Clients : pc[d] = "create" /\ pc'[d] = "persist"}}
                             \cup (todo \ todo')
  BY <1>1, Zenon DEF Served, Noted
<1>3. phase = "serving"
  <2> SUFFICES ASSUME phase # "serving" PROVE FALSE
    OBVIOUS
  <2>1. pc[c] = "idle"
    BY Zenon DEF Inv, LockInv
  <2>2. pc'[c] = "idle"
    BY <2>1, StartupStep, Zenon DEF Crash, StartupFails, Exit, Open, ListForRestore, Serve, Restore
  <2> QED BY <2>2
<1>4. Creating(c) /\ cur'[c] = cur[c] /\ pc[c] # "rollback"
  BY <1>3, ServiceCreating, Zenon DEF Creating
<1>5. CASE pc[c] = "create"
  BY <1>2, <1>4, <1>5, Zenon
<1>6. CASE pc[c] = "persist"
  BY <1>2, <1>4, <1>6, Zenon DEF RuntimeInv
<1> QED BY <1>4, <1>5, <1>6, Zenon DEF Creating

LEMMA ServedInv ==
  ASSUME Inv, Inv', RuntimeInv, Next, Served
  PROVE  RuntimeInv'
<1>1. mode' = mode
  BY Zenon DEF Served
<1>2. protocols' \subseteq Ids
  <2>1. \A c \in Clients : pc[c] = "create" => cur[c] \in Ids
    BY Zenon DEF Inv, HandlerInv, CreateInv
  <2>2. todo \subseteq Ids /\ protocols \subseteq Ids
    BY Zenon DEF Inv, TypeOK, ServiceTypeOK, RuntimeInv
  <2> QED BY <2>1, <2>2, Zenon DEF Served, Noted
<1>3. \A c \in Clients : pc'[c] = "delete" => cur'[c] \in Ids /\ phase' = "serving"
  <2> SUFFICES ASSUME NEW c \in Clients, pc'[c] = "delete" PROVE cur'[c] \in Ids /\ phase' = "serving"
    OBVIOUS
  <2>1. /\ req'[c] \in Requests \ CreateRequests /\ cur'[c] = req'[c].id
    BY Zenon DEF Inv, HandlerInv, ChangeInv
  <2>2. cur'[c] \in Ids
    BY <2>1, Zenon DEF Requests, CreateRequests, PutRequests, UpdateRequests, DeleteRequests
  <2>3. phase' = "serving"
    BY Zenon DEF Inv, LockInv
  <2> QED BY <2>2, <2>3, Zenon
<1>4. begun' \subseteq Ids
  BY <1>3, Zenon DEF Served, RuntimeInv
<1>5. mode = "proxy" => \A c \in Clients : pc'[c] = "delete" => cur'[c] \in begun'
  BY <1>3, Zenon DEF Served
<1>6. mode = "proxy" => \A c \in Clients : pc'[c] = "persist" => cur'[c] \in protocols'
  BY CreatedKnown, Zenon
<1>7. mode = "proxy" /\ phase' \in {"restoring", "serving"} =>
        ListedIds' \subseteq todo' \cup protocols' \cup begun'
  BY ListedKnown, Zenon
<1> QED BY <1>1, <1>2, <1>4, <1>5, <1>6, <1>7, Zenon DEF RuntimeInv

-----------------------------------------------------------------------------
(* The invariant. *)

LEMMA ControlInitInv == ControlInit => ControlInv
<1> SUFFICES ASSUME ControlInit PROVE ControlInv
  OBVIOUS
<1>1. Inv /\ ScrapeInv
  BY InitInv, ScrapeInitInv, Zenon DEF ControlInit
<1>2. rates = NoRates /\ view = None /\ gets \in {"views", "scrapes"}
  BY Zenon DEF ControlInit, ScrapeInit
<1>3. RuntimeInv
  <2>1. phase = "down" /\ \A c \in Clients : pc[c] = "idle"
    BY Zenon DEF ControlInit, Init
  <2> QED BY <2>1, Zenon DEF ControlInit, RuntimeInv
<1> QED BY <1>1, <1>2, <1>3, Zenon DEF ControlInv

LEMMA SameRuntime ==
  ASSUME RuntimeInv, UNCHANGED <<vars, runtime>>
  PROVE  RuntimeInv'
<1>1. UNCHANGED <<phase, allocations, todo, pc, cur, mode, protocols, begun>>
  BY Zenon DEF vars, runtime
<1> QED BY <1>1, Zenon DEF RuntimeInv, ListedIds

(* A step of a view leaves the service alone, but for an answer, which is a step of it. *)
LEMMA ViewsService ==
  ASSUME Inv, RuntimeInv, Views
  PROVE  Inv' /\ RuntimeInv'
<1>1. ASSUME NEW c \in Clients, Answer(c) PROVE Next /\ Served
  BY <1>1, Zenon DEF Answer, Next, Step
<1>2. \/ Next /\ Served
      \/ UNCHANGED <<vars, runtime>>
      \/ UNCHANGED vars /\ \E c \in Clients : ForgetProtocol(c)
  BY <1>1, Zenon DEF Views, ListRows, GetAllocationView, GetBindingView, ListBindings, ViewSnapshot,
                     EndView, Handles, ForgetProtocol
<1>3. Inv'
  BY <1>2, NextInv, Zenon
<1> QED BY <1>2, <1>3, ServedInv, SameRuntime, ForgetProtocolInv, Zenon

(* What a view knows is of the stores alone. *)
LEMMA SameView ==
  ASSUME NEW v, ViewInv(v), UNCHANGED vars
  PROVE  ViewInv(v)'
<1>1. UNCHANGED <<phase, allocations, bindings, entries, pc, cur>>
  BY Zenon DEF vars
<1> QED BY <1>1, Zenon DEF ViewInv, ListedInv, QuietInv, GetAllocation

LEMMA ViewsInv ==
  ASSUME Inv, Inv', RuntimeInv, view # None => ViewInv(view), Views
  PROVE  view' # None => ViewInv(view)'
<1> SUFFICES ASSUME view' # None PROVE ViewInv(view)'
  OBVIOUS
<1>1. PICK v : v = view
  BY Zenon
<1>2. PICK w : w = view'
  BY Zenon
<1>3. view # None => ViewInv(v)
  BY <1>1, Zenon
<1>4. ViewInv(w)'
  <2>1. ASSUME NEW id \in Ids, ListRows(id) \/ GetAllocationView(id) \/ GetBindingView(id)
        PROVE  ViewInv(w)'
    BY <1>2, <2>1, ListRowsInv, GetAllocationViewInv, Zenon
  <2>2. CASE ListBindings
    BY <1>1, <1>2, <1>3, <2>2, ListBindingsInv, Zenon DEF ListBindings
  <2>3. CASE ViewSnapshot
    BY <1>1, <1>2, <1>3, <2>3, ViewSnapshotInv, Zenon DEF ViewSnapshot
  <2>4. ASSUME NEW c \in Clients, Answer(c) PROVE ViewInv(w)'
    BY <1>2, <2>4, AnswerInv, Zenon
  <2>5. CASE Handles
    <3>1. /\ Next /\ FreshToView /\ view # None /\ phase' = "serving" /\ view' = Watched
          /\ view.at # "done"
      BY <2>5, Zenon DEF Handles
    <3> QED BY <1>1, <1>2, <1>3, <3>1, WatchedInv, Zenon
  <2>6. ~ EndView
    BY Zenon DEF EndView
  <2>7. ASSUME NEW c \in Clients, ForgetProtocol(c) PROVE ViewInv(w)'
    BY <1>1, <1>2, <1>3, <2>7, SameView, Zenon DEF ForgetProtocol
  <2> QED BY <2>1, <2>2, <2>3, <2>4, <2>5, <2>6, <2>7, Zenon DEF Views
<1> QED BY <1>2, <1>4, Zenon

LEMMA SameScrapes == ASSUME ScrapeInv, UNCHANGED scrape_vars PROVE ScrapeInv'
<1>1. UNCHANGED <<listeners, samples, scrapes, carried, epoch, listed>>
  BY Zenon DEF scrape_vars
<1>2. ScrapeTypeOK'
  BY <1>1, Zenon DEF ScrapeInv, ScrapeTypeOK
<1>3. \A k \in Keys : RowsOf(k)' = RowsOf(k)
  BY <1>1, RowsKept, Zenon
<1> QED BY <1>1, <1>2, <1>3, RowsTaken, Zenon DEF ScrapeInv

LEMMA ControlNextInv == ControlInv /\ [ControlNext]_control_vars => ControlInv'
<1> SUFFICES ASSUME ControlInv, [ControlNext]_control_vars PROVE ControlInv'
  OBVIOUS
<1>1. /\ Inv /\ RuntimeInv /\ ScrapeInv /\ gets \in {"views", "scrapes"}
      /\ view # None => ViewInv(view)
      /\ gets = "views" => rates = NoRates
      /\ gets = "scrapes" => view = None
  BY Zenon DEF ControlInv
<1>2. CASE gets = "views" /\ Views
  <2>1. UNCHANGED <<scrape_vars, gets>>
    BY <1>2, Zenon DEF Views, ListRows, GetAllocationView, GetBindingView, ListBindings,
                       ViewSnapshot, EndView, Handles, Answer, ForgetProtocol
  <2>2. Inv' /\ RuntimeInv' /\ (view' # None => ViewInv(view)')
    BY <1>1, <1>2, ViewsService, ViewsInv, Zenon
  <2>3. rates' = rates /\ ScrapeInv'
    BY <1>1, <2>1, SameScrapes, Zenon DEF scrape_vars
  <2> QED BY <1>1, <1>2, <2>1, <2>2, <2>3, Zenon DEF ControlInv
<1>3. CASE gets = "scrapes" /\ Scrapes
  <2>1. UNCHANGED <<vars, gets, view, runtime>> /\ ScrapeNext
    BY <1>3, Zenon DEF Scrapes
  <2>2. Inv' /\ RuntimeInv' /\ ScrapeInv'
    BY <1>1, <2>1, NextInv, SameRuntime, ScrapeNextInv, Zenon
  <2> QED BY <1>1, <1>3, <2>1, <2>2, Zenon DEF ControlInv
<1>4. CASE UNCHANGED control_vars
  <2>1. UNCHANGED <<vars, scrape_vars, gets, view, runtime>>
    BY <1>4, Zenon DEF control_vars
  <2>2. Inv' /\ RuntimeInv' /\ ScrapeInv' /\ rates' = rates
    BY <1>1, <2>1, NextInv, SameRuntime, SameScrapes, Zenon DEF scrape_vars
  <2>3. view # None => ViewInv(view)'
    BY <1>1, <2>1, SameView, Zenon
  <2> QED BY <1>1, <2>1, <2>2, <2>3, Zenon DEF ControlInv
<1> QED BY <1>2, <1>3, <1>4, Zenon DEF ControlNext

(* Reading without the lock, whatever handlers and other readers do meanwhile, for any *)
(* ids, clients, hosts, ports, listeners and scrapers.                                 *)
THEOREM ControlInvariance == ControlSpec => []ControlInv
BY ControlInitInv, ControlNextInv, PTL DEF ControlSpec

(* list_allocations shows a target that was stored while it read its two tables, unless *)
(* the allocation was changed twice in between.                                         *)
THEOREM ListShowsStored == ControlSpec => []ShownWasStored
<1>1. ControlInv => ShownWasStored
  <2> SUFFICES ASSUME ControlInv, view # None, view.target # None, Len(view.stored) < 3
               PROVE  view.target \in Range(view.stored)
    BY Zenon DEF ShownWasStored
  <2> QED BY Zenon DEF ControlInv, ViewInv
<1> QED BY <1>1, ControlInvariance, PTL

(* A difference between what a view shows as configured and as in effect is always a *)
(* change that came between or an operation left half done; or nothing is shown in    *)
(* effect, of an allocation that RealRuntime was told to delete.                      *)
THEOREM QuietViewsAgree == ControlSpec => []QuietViewAgrees
<1>1. ControlInv => QuietViewAgrees
  BY Zenon DEF ControlInv, ViewInv, QuietInv, QuietViewAgrees
<1> QED BY <1>1, ControlInvariance, PTL

(* A step that answers a scrape, or one that answers no rate. *)
LEMMA RatesStep ==
  ASSUME ControlInv, [ControlNext]_control_vars
  PROVE  \/ UNCHANGED control_vars
         \/ DOMAIN rates' = {}
         \/ \E s \in Scrapers : Calculate(s)
<1>1. CASE gets = "views" /\ Views
  <2>1. UNCHANGED scrape_vars
    BY <1>1, Zenon DEF Views, ListRows, GetAllocationView, GetBindingView, ListBindings,
                       ViewSnapshot, EndView, Handles, Answer, ForgetProtocol
  <2>2. rates' = NoRates
    BY <1>1, <2>1, Zenon DEF ControlInv, scrape_vars
  <2> QED BY <2>2, IdleType, Zenon
<1>2. CASE gets = "scrapes" /\ Scrapes
  <2>1. rates' = NoRates \/ \E s \in Scrapers : Calculate(s)
    BY <1>2, Zenon DEF Scrapes, ScrapeNext, Listen, Unlisten, Carry, ScrapeTcp, ScrapeUdp, DropScrape
  <2> QED BY <2>1, IdleType, Zenon
<1> QED BY <1>1, <1>2, Zenon DEF ControlNext

(* RateCalculator reports only bytes that were carried between the two moments it      *)
(* compares, in whatever order scrapes calculate and however often a listener was       *)
(* replaced.                                                                            *)
THEOREM RatesAreWitnessed == ControlSpec => RatesWitnessed
<1> DEFINE Witnessed(k) ==
      /\ k \in DOMAIN samples
      /\ LET row == rates'[k].row
             previous == samples[k].row
         IN  row.epoch >= previous.epoch => rates'[k].bytes <= row.carried - previous.carried
<1>1. ASSUME ControlInv, NEW s \in Scrapers, Calculate(s), NEW k \in DOMAIN rates', rates'[k].bytes > 0
      PROVE  Witnessed(k)
  <2>1. ScrapeInv /\ ScrapeTypeOK /\ k \in Keys
    <3>1. ScrapeInv /\ ScrapeTypeOK
      BY <1>1, Zenon DEF ControlInv, ScrapeInv
    <3>2. k \in DOMAIN scrapes[s].rows
      BY <1>1, Zenon DEF Calculate
    <3> QED BY <3>1, <3>2, Zenon DEF ScrapeTypeOK, OnKeys
  <2>2. /\ k \in DOMAIN samples
        /\ rates'[k].row \in RowsOf(k) /\ samples[k].row \in RowsOf(k)
        /\ rates'[k].bytes = rates'[k].row.bytes - samples[k].row.bytes
    BY <1>1, <2>1, RateIsOfRows, Zenon
  <2>3. PICK row \in Rows, previous \in Rows : row = rates'[k].row /\ previous = samples[k].row
    BY <2>1, <2>2, RowType, Zenon
  <2>4. Counts(row, previous)
    BY <2>1, <2>2, <2>3, Zenon DEF ScrapeInv, KeyInv
  <2>5. row.epoch >= previous.epoch => row.bytes - previous.bytes <= row.carried - previous.carried
    BY <2>4 DEF Counts, Rows
  <2> QED BY <2>2, <2>3, <2>5, Zenon
<1>2. ControlInv /\ [ControlNext]_control_vars =>
        [\A k \in DOMAIN rates' : rates'[k].bytes > 0 => Witnessed(k)]_control_vars
  BY <1>1, RatesStep, Zenon
<1> QED BY <1>2, ControlInvariance, PTL DEF ControlSpec, RatesWitnessed

(* A listener that the scrape calculated before did not list starts at zero. *)
THEOREM FirstRatesAreZero == ControlSpec => FirstRateIsZero
<1>1. ASSUME ControlInv, NEW s \in Scrapers, Calculate(s), NEW k \in DOMAIN rates', rates'[k].bytes > 0
      PROVE  k \in listed
  BY <1>1, RateIsOfRows, Zenon DEF ControlInv
<1>2. ControlInv /\ [ControlNext]_control_vars =>
        [\A k \in DOMAIN rates' : rates'[k].bytes > 0 => k \in listed]_control_vars
  BY <1>1, RatesStep, Zenon
<1> QED BY <1>2, ControlInvariance, PTL DEF ControlSpec, FirstRateIsZero
=============================================================================
