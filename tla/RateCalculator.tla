---------------------------- MODULE RateCalculator ----------------------------
(***************************************************************************)
(* The Prometheus route (http/control_plane.rs, prometheus_metrics) and    *)
(* the RateCalculator that its scrapes share (prometheus.rs).  A scrape    *)
(* takes the counters of the TCP listeners, those of the UDP listeners and *)
(* the time, waits for the calculator's lock and compares what it has with *)
(* what the scrape before it had, whichever that is.  rx and tx are        *)
(* treated alike: one counter stands for both.                             *)
(***************************************************************************)
EXTENDS Integers, Functions

CONSTANTS
  Keys,      \* listeners: [port, protocol], which listener_key packs into a u32
  Scrapers,  \* connections with at most one scrape in progress each
  MaxBytes,  \* bound: bytes that a key ever carries
  MaxEpoch,  \* bound: listeners that a key ever has
  MaxTime    \* bound: the clock, which may be set back

ASSUME ScrapeAssumption ==
  /\ \A k \in Keys : k.protocol \in {"tcp", "udp"}
  /\ {MaxBytes, MaxEpoch, MaxTime} \subseteq Nat

VARIABLES
  listeners,  \* the counters of the listeners there are: a function on some of Keys
  samples,    \* RateCalculator.samples: a function on some of Keys
  scrapes,    \* per scraper: where its handler is, its rows and its timestamp
  rates,      \* the rates that the last step answered, a function on some of Keys
  carried,    \* history: the bytes each key has carried
  epoch,      \* history: the listeners each key has had
  listed      \* history: the keys of the scrape calculated last

scrape_vars == <<listeners, samples, scrapes, rates, carried, epoch, listed>>

NoRates == [k \in {} |-> 0]
Idle == [at |-> "idle", rows |-> NoRates, timestamp |-> 0]

ScrapeInit ==
  /\ listeners = [k \in {} |-> 0]
  /\ samples = [k \in {} |-> 0]
  /\ scrapes = [s \in Scrapers |-> Idle]
  /\ rates = NoRates
  /\ carried = [k \in Keys |-> 0]
  /\ epoch = [k \in Keys |-> 0]
  /\ listed = {}

-----------------------------------------------------------------------------
(* The listeners: external here, TcpListener and UdpListener model them. *)

(* A new entry counts from zero. *)
Listen(k) ==
  /\ k \notin DOMAIN listeners
  /\ epoch[k] < MaxEpoch
  /\ listeners' = [l \in DOMAIN listeners \cup {k} |-> IF l = k THEN 0 ELSE listeners[l]]
  /\ epoch' = [epoch EXCEPT ![k] = @ + 1]
  /\ rates' = NoRates
  /\ UNCHANGED <<samples, scrapes, carried, listed>>

Unlisten(k) ==
  /\ k \in DOMAIN listeners
  /\ listeners' = Restrict(listeners, DOMAIN listeners \ {k})
  /\ rates' = NoRates
  /\ UNCHANGED <<samples, scrapes, carried, epoch, listed>>

Carry(k) ==
  /\ k \in DOMAIN listeners
  /\ carried[k] < MaxBytes
  /\ listeners' = [listeners EXCEPT ![k] = @ + 1]
  /\ carried' = [carried EXCEPT ![k] = @ + 1]
  /\ rates' = NoRates
  /\ UNCHANGED <<samples, scrapes, epoch, listed>>

-----------------------------------------------------------------------------
(* A row of snapshot_listener_metrics, with the history at that moment. *)
MetricsRow(k) == [bytes |-> listeners[k], carried |-> carried[k], epoch |-> epoch[k]]

MetricsRows(protocol) ==
  [k \in {l \in DOMAIN listeners : l.protocol = protocol} |-> MetricsRow(k)]

(* RealRuntime::snapshot_listener_metrics: TCP first. *)
ScrapeTcp(s) ==
  /\ scrapes[s].at = "idle"
  /\ scrapes' = [scrapes EXCEPT ![s] = [Idle EXCEPT !.at = "udp", !.rows = MetricsRows("tcp")]]
  /\ rates' = NoRates
  /\ UNCHANGED <<listeners, samples, carried, epoch, listed>>

(* Then UDP, and the time. *)
ScrapeUdp(s) ==
  /\ scrapes[s].at = "udp"
  /\ \E now \in 0..MaxTime :
       LET tcp_rows == scrapes[s].rows
           udp_rows == MetricsRows("udp")
           rows == [k \in DOMAIN tcp_rows \cup DOMAIN udp_rows |->
                      IF k \in DOMAIN tcp_rows THEN tcp_rows[k] ELSE udp_rows[k]]
       IN  scrapes' = [scrapes EXCEPT ![s] = [at |-> "lock", rows |-> rows, timestamp |-> now]]
  /\ rates' = NoRates
  /\ UNCHANGED <<listeners, samples, carried, epoch, listed>>

(* Mutant: a counter that went down is taken for one that went up. *)
bytes_per_second_absolute(current, previous) ==
  IF current <= previous THEN previous - current ELSE current - previous

(* bytes_per_second, before the division by the time elapsed. *)
bytes_per_second(current, previous) == IF current <= previous THEN 0 ELSE current - previous

(* calculate_rate: zero without a previous sample, and unless time has passed. *)
calculate_rate(k, row, now) ==
  IF k \in DOMAIN samples /\ now - samples[k].timestamp > 0
  THEN bytes_per_second(row.bytes, samples[k].row.bytes)
  ELSE 0

(* Mutant: the samples of listeners that are gone are kept. *)
retain_all(current) ==
  [k \in DOMAIN current \cup DOMAIN samples |->
     IF k \in DOMAIN current THEN current[k] ELSE samples[k]]

(* Only the samples of this generation stay: those just inserted. *)
retain(current) == current

(* RateCalculator::calculate under the lock, and the answer. *)
Calculate(s) ==
  LET rows == scrapes[s].rows
      now == scrapes[s].timestamp
  IN  /\ scrapes[s].at = "lock"
      /\ rates' = [k \in DOMAIN rows |-> [bytes |-> calculate_rate(k, rows[k], now), row |-> rows[k]]]
      /\ samples' = retain([k \in DOMAIN rows |-> [row |-> rows[k], timestamp |-> now]])
      /\ listed' = DOMAIN rows
      /\ scrapes' = [scrapes EXCEPT ![s] = Idle]
      /\ UNCHANGED <<listeners, carried, epoch>>

(* The client disconnects. *)
DropScrape(s) ==
  /\ scrapes[s].at # "idle"
  /\ scrapes' = [scrapes EXCEPT ![s] = Idle]
  /\ rates' = NoRates
  /\ UNCHANGED <<listeners, samples, carried, epoch, listed>>

ScrapeNext ==
  \/ \E k \in Keys : Listen(k) \/ Unlisten(k) \/ Carry(k)
  \/ \E s \in Scrapers : ScrapeTcp(s) \/ ScrapeUdp(s) \/ Calculate(s) \/ DropScrape(s)
=============================================================================
