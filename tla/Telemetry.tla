----------------------------- MODULE Telemetry ------------------------------
(***************************************************************************)
(* From a sample to a reader.  A producer writes each item to SQLite, to   *)
(* the recent-items cache (Redis, or a deque in memory) and to the event   *)
(* bus; MetricStore answers queries from SQLite and falls back to the      *)
(* cache; the maintenance loop deletes what is older than the retention.   *)
(*                                                                         *)
(* The producer is the metrics collector, which logs an error and goes on  *)
(* with the next sink, or the log ingestor, whose dispatch returns at the  *)
(* first error.  The two write different tables and lists, so one instance *)
(* of the module is about one of them.                                     *)
(***************************************************************************)
EXTENDS Naturals, Sequences, FiniteSets

CONSTANTS
  Setups,       \* the setups to look at
  CacheLimit,   \* how many items the cache keeps (100 in the code)
  Limit,        \* how many items a query for recent items asks for
  Within,       \* the window of recent_metrics_within
  Retention,    \* retention_days
  MaxItems,     \* bound on the items produced
  MaxTime,      \* bound on the clock
  MaxRestarts   \* bound on the restarts of the process

\* collector: the producer is the collector, else the ingestor.  db: a database
\* is configured.  cache: Redis, or the deque in memory where Redis cannot be reached,
\* or none, where its URL is no URL.
Setup == [collector : BOOLEAN, db : BOOLEAN, cache : {"redis", "memory", "none"}]

ASSUME ConstantsAssumption ==
  /\ Setups \subseteq Setup
  /\ CacheLimit \in Nat /\ Limit \in Nat /\ Within \in Nat /\ Retention \in Nat
  /\ MaxItems \in Nat \ {0} /\ MaxTime \in Nat /\ MaxRestarts \in Nat

VARIABLES
  setup,      \* fixed when the process starts
  clock,
  made,       \* how many items have been produced
  table,      \* the rows of metrics, or of logs
  alerts,     \* the log events stored in security_alerts
  list,       \* the cache, newest first
  producer,   \* the item being written and the sink that is next
  bus,        \* history: the items this process has published
  spoilt,     \* history: the items one of whose writes failed
  reader,     \* one query
  restarts

sinkVars == <<table, alerts, list, bus, spoilt>>
vars == <<setup, clock, made, sinkVars, producer, reader, restarts>>

Collector == setup.collector
HasDb == setup.db
Cached == setup.cache # "none"
Redis == setup.cache = "redis"

\* The n-th item of the run; security is LogEvent.security.
Item == [n : 1..MaxItems, ts : 0..MaxTime, security : BOOLEAN]
IdleProducer == [at |-> "idle", item |-> [n |-> 1, ts |-> 0, security |-> FALSE]]
IdleReader == [at |-> "idle", within |-> FALSE, seen |-> {}, cutoff |-> 0,
               failed |-> FALSE, rows |-> {}, from |-> "db", ok |-> TRUE]

TypeOK ==
  /\ setup \in Setups
  /\ clock \in 0..MaxTime
  /\ made \in 0..MaxItems
  /\ table \subseteq Item
  /\ alerts \subseteq {x \in Item : x.security}
  /\ list \in Seq(Item)
  /\ producer \in [at : {"idle", "store", "alert", "push", "trim", "publish"}, item : Item]
  /\ bus \subseteq Item
  /\ spoilt \subseteq Item
  /\ reader \in [at : {"idle", "db", "cache", "wide", "done"}, within : BOOLEAN,
                 seen : SUBSET Item, cutoff : 0..MaxTime, failed : BOOLEAN,
                 rows : SUBSET Item, from : {"db", "cache"}, ok : BOOLEAN]
  /\ restarts \in 0..MaxRestarts

Init ==
  /\ setup \in Setups
  /\ clock = 0
  /\ made = 0
  /\ table = {}
  /\ alerts = {}
  /\ list = << >>
  /\ producer = IdleProducer
  /\ bus = {}
  /\ spoilt = {}
  /\ reader = IdleReader
  /\ restarts = 0

MinOf(a, b) == IF a < b THEN a ELSE b
Minus(a, b) == IF a > b THEN a - b ELSE 0
ItemsOf(s) == {s[i] : i \in 1..Len(s)}
FirstOf(s, n) == SubSeq(s, 1, MinOf(n, Len(s)))

-----------------------------------------------------------------------------
(* The producer                                                            *)

\* The collector stamps a snapshot with the time; a journal entry brings its own.
Stamps == IF Collector THEN {clock} ELSE 0..clock

\* The sink that follows the database, and what follows a write to it or to the cache.
BehindDb == IF Cached THEN "push" ELSE "publish"
After(at, x) == IF at = "store" /\ x.security THEN "alert"
                ELSE IF at \in {"store", "alert"} THEN BehindDb
                ELSE IF at = "push" /\ Redis THEN "trim"
                ELSE "publish"

\* Mutant of AfterError: dispatch goes on like the collector.
DispatchGoesOn(at) == IF at = "store" THEN BehindDb ELSE "publish"

\* After an error: the collector skips to the next sink, dispatch returns.
AfterError(at) == IF ~Collector THEN "idle" ELSE IF at = "store" THEN BehindDb ELSE "publish"

\* One tick of the collector, or one parsed log line.
Make ==
  /\ producer.at = "idle"
  /\ made < MaxItems
  /\ made' = made + 1
  /\ \E t \in Stamps, s \in (IF Collector THEN {FALSE} ELSE BOOLEAN) :
       producer' = [at |-> IF HasDb THEN "store" ELSE BehindDb,
                    item |-> [n |-> made + 1, ts |-> t, security |-> s]]
  /\ UNCHANGED <<setup, clock, sinkVars, reader, restarts>>

Advance == producer' = [producer EXCEPT !.at = After(producer.at, producer.item)]

Store ==
  /\ producer.at = "store"
  /\ table' = table \cup {producer.item}
  /\ Advance
  /\ UNCHANGED <<setup, clock, made, alerts, list, bus, spoilt, reader, restarts>>

\* dispatch also stores a security event as an alert.
StoreAlert ==
  /\ producer.at = "alert"
  /\ alerts' = alerts \cup {producer.item}
  /\ Advance
  /\ UNCHANGED <<setup, clock, made, table, list, bus, spoilt, reader, restarts>>

\* Mutant of Push: RPUSH and push_back.
PushBack ==
  /\ producer.at = "push"
  /\ list' = IF Redis THEN list \o <<producer.item>>
                      ELSE FirstOf(list \o <<producer.item>>, CacheLimit)
  /\ Advance
  /\ UNCHANGED <<setup, clock, made, table, alerts, bus, spoilt, reader, restarts>>

\* LPUSH, or push_front and truncate under the lock.
Push ==
  /\ producer.at = "push"
  /\ list' = IF Redis THEN <<producer.item>> \o list
                      ELSE FirstOf(<<producer.item>> \o list, CacheLimit)
  /\ Advance
  /\ UNCHANGED <<setup, clock, made, table, alerts, bus, spoilt, reader, restarts>>

\* LTRIM 0 99
Trim ==
  /\ producer.at = "trim"
  /\ list' = FirstOf(list, CacheLimit)
  /\ Advance
  /\ UNCHANGED <<setup, clock, made, table, alerts, bus, spoilt, reader, restarts>>

\* A write fails.  A Redis command may have been carried out all the same.
WriteFails ==
  /\ producer.at \in {"store", "alert"} \cup (IF Redis THEN {"push", "trim"} ELSE {})
  /\ producer' = [producer EXCEPT !.at = AfterError(producer.at)]
  /\ spoilt' = spoilt \cup {producer.item}
  /\ list' \in {list} \cup (IF producer.at = "push" THEN {<<producer.item>> \o list} ELSE {})
                      \cup (IF producer.at = "trim" THEN {FirstOf(list, CacheLimit)} ELSE {})
  /\ UNCHANGED <<setup, clock, made, table, alerts, bus, reader, restarts>>

Publish ==
  /\ producer.at = "publish"
  /\ bus' = bus \cup {producer.item}
  /\ producer' = IdleProducer
  /\ UNCHANGED <<setup, clock, made, table, alerts, list, spoilt, reader, restarts>>

-----------------------------------------------------------------------------
(* The reader: recent_metrics, recent_logs and recent_metrics_within       *)

BeginRead ==
  /\ reader.at = "idle"
  /\ \E w \in (IF Collector THEN BOOLEAN ELSE {FALSE}) :
       reader' = [IdleReader EXCEPT !.at = IF HasDb THEN "db" ELSE "cache",
                                    !.within = w, !.seen = bus,
                                    !.cutoff = IF w THEN Minus(clock, Within) ELSE 0]
  /\ UNCHANGED <<setup, clock, made, sinkVars, producer, restarts>>

\* ORDER BY ts DESC LIMIT: what the query for recent rows may return.
NewestRows(R) ==
  /\ R \subseteq table
  /\ Cardinality(R) = MinOf(Limit, Cardinality(table))
  /\ \A x \in R, y \in table \ R : x.ts >= y.ts

DbRows(R) == IF reader.within THEN R = {x \in table : x.ts >= Minus(clock, Within)}
                              ELSE NewestRows(R)

\* read_db_or_cache returns the database's rows unless there are none ...
ReadDb ==
  /\ reader.at = "db"
  /\ \E R \in SUBSET table :
       /\ DbRows(R)
       /\ reader' = [reader EXCEPT !.at = IF R = {} THEN "cache" ELSE "done", !.rows = R]
  /\ UNCHANGED <<setup, clock, made, sinkVars, producer, restarts>>

\* ... and reads the cache after an error, which it remembers.
ReadDbFails ==
  /\ reader.at = "db"
  /\ reader' = [reader EXCEPT !.at = "cache", !.failed = TRUE]
  /\ UNCHANGED <<setup, clock, made, sinkVars, producer, restarts>>

\* Mutant of CacheRows: the cache's rows are not filtered by their time.
CacheRowsUnfiltered ==
  ItemsOf(FirstOf(list, IF reader.within THEN CacheLimit ELSE Limit))

CacheRows == LET first == FirstOf(list, IF reader.within THEN CacheLimit ELSE Limit)
             IN {x \in ItemsOf(first) : x.ts >= reader.cutoff}

\* recent_metrics_within reads the cache again when nothing came back.
ReadCache ==
  /\ reader.at \in {"cache", "wide"} /\ Cached
  /\ reader' = [reader EXCEPT !.rows = CacheRows, !.from = "cache",
                  !.at = IF reader.within /\ reader.at = "cache" /\ CacheRows = {}
                         THEN "wide" ELSE "done"]
  /\ UNCHANGED <<setup, clock, made, sinkVars, producer, restarts>>

ReadCacheFails ==
  /\ reader.at \in {"cache", "wide"}
  /\ Redis
  /\ reader' = [reader EXCEPT !.at = "done", !.ok = FALSE, !.rows = {}, !.from = "cache"]
  /\ UNCHANGED <<setup, clock, made, sinkVars, producer, restarts>>

\* Without a cache the answer is empty, or the database's error.
NothingToRead ==
  /\ reader.at = "cache" /\ ~Cached
  /\ reader' = [reader EXCEPT !.at = "done", !.ok = ~reader.failed, !.rows = {}]
  /\ UNCHANGED <<setup, clock, made, sinkVars, producer, restarts>>

Return ==
  /\ reader.at = "done"
  /\ reader' = IdleReader
  /\ UNCHANGED <<setup, clock, made, sinkVars, producer, restarts>>

-----------------------------------------------------------------------------
(* Time, maintenance and restarts                                          *)

Tick ==
  /\ clock < MaxTime
  /\ clock' = clock + 1
  /\ UNCHANGED <<setup, made, sinkVars, producer, reader, restarts>>

Expired(x) == x.ts + Retention < clock

\* Mutant of Prune: a day too few is deleted.
PruneADayLess ==
  /\ \E x \in table : Expired(x)
  /\ table' = {x \in table : x.ts + Retention + 1 >= clock}
  /\ UNCHANGED <<setup, clock, made, alerts, list, producer, bus, spoilt, reader, restarts>>

\* DELETE ... WHERE ts < now - retention_days.  security_alerts is never pruned.
Prune ==
  /\ \E x \in table : Expired(x)
  /\ table' = {x \in table : ~Expired(x)}
  /\ UNCHANGED <<setup, clock, made, alerts, list, producer, bus, spoilt, reader, restarts>>

\* The process ends and starts again: the fallback cache is gone.
Restart ==
  /\ restarts < MaxRestarts
  /\ restarts' = restarts + 1
  /\ list' = IF Redis THEN list ELSE << >>
  /\ producer' = IdleProducer
  /\ reader' = IdleReader
  /\ bus' = {}
  /\ UNCHANGED <<setup, clock, made, table, alerts, spoilt>>

Next ==
  \/ Make \/ Store \/ StoreAlert \/ Push \/ Trim \/ WriteFails \/ Publish
  \/ BeginRead \/ ReadDb \/ ReadDbFails \/ ReadCache \/ ReadCacheFails \/ NothingToRead
  \/ Return
  \/ Tick \/ Prune \/ Restart

Spec == Init /\ [][Next]_vars

\* The clock runs and maintenance goes round; its DELETE succeeds now and then.
Fairness == WF_vars(Tick) /\ WF_vars(Prune)

FairSpec == Spec /\ Fairness

-----------------------------------------------------------------------------
(* Properties                                                              *)

\* The ingestor announces nothing it has not kept: an event on the bus is in the
\* table (or past the retention), and a security event is in the alert chain for
\* good.  dispatch gets this from returning at the first error, in that order.
PublishedIsStored ==
  HasDb /\ ~Collector =>
    \A x \in bus : /\ x \in table \/ Expired(x)
                   /\ x.security => x \in alerts

\* Whoever has seen an event on the bus finds it in a query made afterwards,
\* whichever of the two sources answers, unless it is too old or Limit newer items
\* fill the answer, or there is neither.  (An item of the collector one of whose writes failed is
\* published all the same, and may not be found.)
PublishedIsReadable ==
  reader.at = "done" /\ reader.ok /\ (HasDb \/ Cached) =>
    \A x \in reader.seen \ (IF Collector THEN spoilt ELSE {}) :
      \/ x \in reader.rows
      \/ Expired(x)
      \/ reader.within /\ x.ts + Within < clock
      \/ /\ Cardinality(reader.rows) >= MinOf(Limit, CacheLimit)
         /\ \A y \in reader.rows : IF reader.from = "db" THEN y.ts >= x.ts ELSE y.n > x.n

\* A time-window query returns nothing older than its window, from the table, from
\* the cache or from the second look at the cache, however long the read took.
WithinIsRecent ==
  reader.at = "done" /\ reader.within => \A x \in reader.rows : x.ts >= reader.cutoff

\* LTRIM runs after LPUSH as a command of its own and may fail; an event that gets
\* as far as the bus leaves the list trimmed, whatever failed before it.
PublishedMeansTrimmed ==
  ~Collector /\ producer.at = "publish" => Len(list) <= CacheLimit

\* What has expired leaves the table, a late row too.
ExpiredRowsGo ==
  \A n \in 1..MaxItems :
    (\E x \in table : x.n = n /\ Expired(x)) ~> (\A x \in table : x.n # n)
=============================================================================
