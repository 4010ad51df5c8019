-------------------------- MODULE TelemetryProofs ---------------------------
(* What is on the bus has been kept, a window query keeps to its window, the *)
(* rates of a snapshot are true, and the pager leaves no log out: proofs     *)
(* about Telemetry for every setup and every size of its limits, about       *)
(* Sampling for every table of mounts, and about LogPages for every size of  *)
(* a page and whatever comes in between two of them.                         *)
EXTENDS Telemetry, LogPages, Sampling, FiniteSetTheorems, SequenceTheorems, TLAPS

\* Only a security event reaches the store of an alert.
AlertsAreSecurity == producer.at = "alert" => producer.item.security

\* An event the ingestor has written to the table stays kept while it goes through
\* the other sinks, and so does its alert.
KeptOnTheWay ==
  HasDb /\ ~Collector /\ producer.at \in {"alert", "push", "trim", "publish"} =>
    /\ producer.item \in table \/ Expired(producer.item)
    /\ producer.at # "alert" /\ producer.item.security => producer.item \in alerts

\* The cutoff taken when a window query began lies in or before the window.
CutoffIsOld == reader.within => reader.cutoff <= Minus(clock, Within)

\* Without a cache nothing is on its way to one, and the list stays empty.
NoCache == ~Cached => list = << >> /\ producer.at \notin {"push", "trim"}

\* The inductive invariant.  PublishedIsStored says nothing of an event on its way:
\* KeptOnTheWay does.  WithinIsRecent says nothing of a cutoff still to be used.
IInv ==
  /\ TypeOK
  /\ AlertsAreSecurity
  /\ KeptOnTheWay
  /\ PublishedIsStored
  /\ PublishedMeansTrimmed
  /\ NoCache
  /\ CutoffIsOld
  /\ WithinIsRecent

-----------------------------------------------------------------------------
(* Helpers                                                                 *)

\* The first n elements of a sequence are a sequence of at most n of them.
LEMMA FirstOfType ==
  ASSUME NEW S, NEW s \in Seq(S), NEW n \in Nat
  PROVE  /\ FirstOf(s, n) \in Seq(S)
         /\ Len(FirstOf(s, n)) <= n
         /\ ItemsOf(FirstOf(s, n)) \subseteq S
<1> DEFINE m == MinOf(n, Len(s))
<1>1. m \in Nat /\ m <= n /\ m <= Len(s)
  BY DEF MinOf
<1>2. FirstOf(s, n) \in Seq(S) /\ Len(FirstOf(s, n)) = m
  BY <1>1 DEF FirstOf
<1>3. QED
  BY <1>1, <1>2 DEF ItemsOf

\* The items of the cache that a query takes are items.
LEMMA CacheRowsType ==
  ASSUME TypeOK
  PROVE  CacheRows \subseteq Item /\ \A x \in CacheRows : x.ts >= reader.cutoff
  BY FirstOfType, ConstantsAssumption DEF TypeOK, CacheRows

\* Time only makes an item older.
LEMMA ExpiredStays ==
  ASSUME NEW x \in Item, clock \in Nat, clock' \in Nat, clock <= clock', Expired(x)
  PROVE  Expired(x)'
  BY ConstantsAssumption DEF Expired, Item

-----------------------------------------------------------------------------
(* The invariant                                                           *)

\* Nothing has been produced, published or asked.
LEMMA InvInit == Init => IInv
<1> SUFFICES ASSUME Init
             PROVE  IInv
  OBVIOUS
<1> USE ConstantsAssumption DEF Init, IdleProducer, IdleReader
<1>1. TypeOK
  BY DEF TypeOK, Item
<1>2. AlertsAreSecurity /\ KeptOnTheWay /\ PublishedIsStored /\ PublishedMeansTrimmed /\ NoCache
  BY DEF AlertsAreSecurity, KeptOnTheWay, PublishedIsStored, PublishedMeansTrimmed, NoCache
<1>3. CutoffIsOld /\ WithinIsRecent
  BY DEF CutoffIsOld, WithinIsRecent
<1>4. QED
  BY <1>1, <1>2, <1>3 DEF IInv

\* Everything the invariant says beside the types.
Claims == /\ AlertsAreSecurity /\ KeptOnTheWay /\ PublishedIsStored
          /\ PublishedMeansTrimmed /\ NoCache /\ CutoffIsOld /\ WithinIsRecent

\* A step of the producer that is not an error.
LEMMA ProducerStep ==
  IInv /\ (Make \/ Store \/ StoreAlert \/ Push \/ Trim \/ Publish) => IInv'
<1> SUFFICES ASSUME IInv, Make \/ Store \/ StoreAlert \/ Push \/ Trim \/ Publish
             PROVE  TypeOK' /\ Claims'
  BY DEF IInv, Claims
<1> USE ConstantsAssumption
    DEF IInv, Claims, Advance, Collector, HasDb, Cached, Redis, BehindDb, Expired
<1>1. CASE Make
  <2>1. TypeOK'
    <3>1. PICK t \in Stamps, b \in BOOLEAN :
             producer' = [at |-> IF HasDb THEN "store" ELSE BehindDb,
                          item |-> [n |-> made + 1, ts |-> t, security |-> b]]
      BY <1>1 DEF Make
    <3>2. made + 1 \in 1..MaxItems /\ t \in 0..MaxTime
      BY <1>1 DEF Make, TypeOK, Stamps
    <3>3. [n |-> made + 1, ts |-> t, security |-> b] \in Item
      BY <3>2 DEF Item
    <3>4. QED
      BY <1>1, <3>1, <3>2, <3>3 DEF Make, TypeOK, sinkVars
  <2>2. Claims'
    BY <1>1 DEF Make, TypeOK, sinkVars, AlertsAreSecurity, KeptOnTheWay,
                PublishedIsStored, PublishedMeansTrimmed, NoCache, Cached,
                CutoffIsOld, WithinIsRecent
  <2>3. QED
    BY <2>1, <2>2
<1>2. CASE Store
  <2>1. TypeOK'
    BY <1>2 DEF Store, TypeOK, After
  <2>2. /\ producer'.item = producer.item
        /\ producer'.at = IF producer.item.security THEN "alert" ELSE BehindDb
    BY <1>2 DEF Store, TypeOK, After
  <2>3. AlertsAreSecurity' /\ KeptOnTheWay' /\ PublishedMeansTrimmed' /\ NoCache'
    BY <1>2, <2>2 DEF Store, AlertsAreSecurity, KeptOnTheWay, PublishedMeansTrimmed, NoCache
  <2>4. PublishedIsStored' /\ CutoffIsOld' /\ WithinIsRecent'
    BY <1>2 DEF Store, PublishedIsStored, CutoffIsOld, WithinIsRecent
  <2>5. QED
    BY <2>1, <2>3, <2>4
<1>3. CASE StoreAlert
  <2>1. TypeOK'
    BY <1>3 DEF StoreAlert, TypeOK, After, AlertsAreSecurity
  <2>2. Claims'
    BY <1>3 DEF StoreAlert, TypeOK, After, AlertsAreSecurity, KeptOnTheWay,
                PublishedIsStored, PublishedMeansTrimmed, NoCache, Cached,
                CutoffIsOld, WithinIsRecent
  <2>3. QED
    BY <2>1, <2>2
<1>4. CASE Push
  <2>1. /\ <<producer.item>> \o list \in Seq(Item)
        /\ FirstOf(<<producer.item>> \o list, CacheLimit) \in Seq(Item)
        /\ Len(FirstOf(<<producer.item>> \o list, CacheLimit)) <= CacheLimit
    <3>1. <<producer.item>> \o list \in Seq(Item)
      BY DEF TypeOK
    <3>2. QED
      BY <3>1, FirstOfType
  <2>2. TypeOK'
    BY <1>4, <2>1 DEF Push, TypeOK, After
  <2>3. Claims'
    BY <1>4, <2>1 DEF Push, TypeOK, After, AlertsAreSecurity, KeptOnTheWay,
                PublishedIsStored, PublishedMeansTrimmed, NoCache, Cached,
                CutoffIsOld, WithinIsRecent
  <2>4. QED
    BY <2>2, <2>3
<1>5. CASE Trim
  <2>1. FirstOf(list, CacheLimit) \in Seq(Item) /\ Len(FirstOf(list, CacheLimit)) <= CacheLimit
    BY FirstOfType DEF TypeOK
  <2>2. TypeOK'
    BY <1>5, <2>1 DEF Trim, TypeOK, After
  <2>3. Claims'
    BY <1>5, <2>1 DEF Trim, TypeOK, After, AlertsAreSecurity, KeptOnTheWay,
                PublishedIsStored, PublishedMeansTrimmed, NoCache, Cached,
                CutoffIsOld, WithinIsRecent
  <2>4. QED
    BY <2>2, <2>3
<1>6. CASE Publish
  <2>1. TypeOK'
    BY <1>6 DEF Publish, TypeOK, IdleProducer, Item
  <2>2. Claims'
    BY <1>6 DEF Publish, TypeOK, IdleProducer, AlertsAreSecurity, KeptOnTheWay,
                PublishedIsStored, PublishedMeansTrimmed, NoCache, Cached,
                CutoffIsOld, WithinIsRecent
  <2>3. QED
    BY <2>1, <2>2
<1>7. QED
  BY <1>1, <1>2, <1>3, <1>4, <1>5, <1>6

\* A failed write sends the ingestor back to its next line and the collector on.
LEMMA WriteFailsStep == IInv /\ WriteFails => IInv'
<1> SUFFICES ASSUME IInv, WriteFails
             PROVE  TypeOK' /\ Claims'
  BY DEF IInv, Claims
<1> USE ConstantsAssumption
    DEF IInv, Claims, WriteFails, AfterError, Collector, HasDb, Cached, Redis, BehindDb, Expired
<1>1. list' \in Seq(Item)
  <2>1. <<producer.item>> \o list \in Seq(Item) /\ FirstOf(list, CacheLimit) \in Seq(Item)
    BY FirstOfType DEF TypeOK
  <2>2. QED
    BY <2>1 DEF TypeOK
<1>2. TypeOK'
  BY <1>1 DEF TypeOK
<1>3. producer'.at \in {"idle", "push", "publish"} /\ (~Collector => producer'.at = "idle")
  BY DEF TypeOK
<1>4. Claims'
  BY <1>3 DEF AlertsAreSecurity, KeptOnTheWay, PublishedIsStored, PublishedMeansTrimmed,
         NoCache, CutoffIsOld, WithinIsRecent
<1>5. QED
  BY <1>2, <1>4

\* A step of the reader.
LEMMA ReaderStep ==
  IInv /\ (BeginRead \/ ReadDb \/ ReadDbFails \/ ReadCache \/ ReadCacheFails \/ NothingToRead
           \/ Return) => IInv'
<1> SUFFICES ASSUME IInv,
                    \/ BeginRead \/ ReadDb \/ ReadDbFails \/ ReadCache \/ ReadCacheFails
                    \/ NothingToRead \/ Return
             PROVE  IInv'
  OBVIOUS
<1> USE ConstantsAssumption DEF sinkVars
<1>1. UNCHANGED <<setup, clock, made, table, alerts, list, producer, bus, spoilt, restarts>>
  BY DEF BeginRead, ReadDb, ReadDbFails, ReadCache, ReadCacheFails, NothingToRead, Return
<1>2. /\ AlertsAreSecurity' /\ KeptOnTheWay' /\ PublishedIsStored' /\ PublishedMeansTrimmed'
      /\ NoCache'
  BY <1>1 DEF IInv, AlertsAreSecurity, KeptOnTheWay, PublishedIsStored, PublishedMeansTrimmed,
              NoCache, Expired, Collector, HasDb, Cached
<1>3. TypeOK' /\ CutoffIsOld' /\ WithinIsRecent'
  <2> USE DEF IInv, TypeOK, CutoffIsOld, WithinIsRecent
  <2>1. CASE BeginRead
    <3>1. PICK w \in BOOLEAN :
             reader' = [IdleReader EXCEPT !.at = IF HasDb THEN "db" ELSE "cache",
                                          !.within = w, !.seen = bus,
                                          !.cutoff = IF w THEN Minus(clock, Within) ELSE 0]
      BY <2>1 DEF BeginRead
    <3>2. Minus(clock, Within) \in 0..MaxTime
      BY DEF Minus
    <3>3. reader' = [at |-> IF HasDb THEN "db" ELSE "cache", within |-> w, seen |-> bus,
                     cutoff |-> IF w THEN Minus(clock, Within) ELSE 0, failed |-> FALSE,
                     rows |-> {}, from |-> "db", ok |-> TRUE]
      BY <3>1 DEF IdleReader
    <3>4. TypeOK'
      BY <1>1, <3>2, <3>3
    <3>5. CutoffIsOld' /\ WithinIsRecent'
      <4>1. Minus(clock, Within)' = Minus(clock, Within)
        BY <1>1 DEF Minus
      <4>2. QED
        BY <3>2, <3>3, <4>1
    <3>6. QED
      BY <3>4, <3>5
  <2>2. CASE ReadDb
    <3>1. PICK R \in SUBSET table :
            /\ DbRows(R)
            /\ reader' = [reader EXCEPT !.at = IF R = {} THEN "cache" ELSE "done", !.rows = R]
      BY <2>2 DEF ReadDb
    <3>2. reader.within => \A x \in R : x.ts >= reader.cutoff
      <4>1. \A x \in R : x.ts \in Nat
        BY DEF Item
      <4>2. Minus(clock, Within) \in Nat
        BY DEF Minus
      <4>3. QED
        BY <3>1, <4>1, <4>2 DEF DbRows
    <3>3. reader' \in [at : {"idle", "db", "cache", "wide", "done"}, within : BOOLEAN,
                       seen : SUBSET Item, cutoff : 0..MaxTime, failed : BOOLEAN,
                       rows : SUBSET Item, from : {"db", "cache"}, ok : BOOLEAN]
      <4>1. R \in SUBSET Item
        OBVIOUS
      <4>2. QED
        BY <3>1, <4>1
    <3>4. /\ reader'.within = reader.within
          /\ reader'.cutoff = reader.cutoff
          /\ reader'.rows = R
      BY <3>1
    <3>5. QED
      BY <1>1, <3>2, <3>3, <3>4
  <2>3. CASE ReadDbFails
    BY <2>3, <1>1 DEF ReadDbFails
  <2>4. CASE ReadCache
    BY <2>4, <1>1, CacheRowsType DEF ReadCache
  <2>5. CASE ReadCacheFails
    BY <2>5, <1>1 DEF ReadCacheFails
  <2>6. CASE Return
    BY <2>6, <1>1 DEF Return, IdleReader
  <2>7. CASE NothingToRead
    <3>1. reader.failed \in BOOLEAN
      OBVIOUS
    <3>2. PICK ok \in BOOLEAN : reader' = [reader EXCEPT !.at = "done", !.ok = ok, !.rows = {}]
      BY <2>7, <3>1, Zenon DEF NothingToRead
    <3>3. /\ reader'.within = reader.within /\ reader'.cutoff = reader.cutoff
          /\ reader'.rows = {}
      BY <3>2
    <3>4. reader' \in [at : {"idle", "db", "cache", "wide", "done"}, within : BOOLEAN,
                       seen : SUBSET Item, cutoff : 0..MaxTime, failed : BOOLEAN,
                       rows : SUBSET Item, from : {"db", "cache"}, ok : BOOLEAN]
      BY <3>2
    <3>5. TypeOK'
      BY <1>1, <3>4
    <3>6. Minus(clock, Within)' = Minus(clock, Within)
      BY <1>1 DEF Minus
    <3> QED BY <3>3, <3>5, <3>6
  <2>8. QED
    BY <2>1, <2>2, <2>3, <2>4, <2>5, <2>6, <2>7
<1>4. QED
  BY <1>2, <1>3 DEF IInv

\* Time passes, expired rows go, the process restarts.
LEMMA SurroundingsStep == IInv /\ (Tick \/ Prune \/ Restart) => IInv'
<1> SUFFICES ASSUME IInv, Tick \/ Prune \/ Restart
             PROVE  TypeOK' /\ Claims'
  BY DEF IInv, Claims
<1> USE ConstantsAssumption DEF IInv, Claims
<1>1. CASE Tick
  <2>1. TypeOK'
    BY <1>1 DEF Tick, TypeOK, sinkVars
  <2>2. Claims'
    BY <1>1 DEF Tick, TypeOK, sinkVars, Item, Minus, Expired, Collector, HasDb, AlertsAreSecurity,
                KeptOnTheWay, PublishedIsStored, PublishedMeansTrimmed, NoCache, Cached,
                CutoffIsOld, WithinIsRecent
  <2>3. QED
    BY <2>1, <2>2
<1>2. CASE Prune
  <2>1. TypeOK'
    BY <1>2 DEF Prune, TypeOK
  <2>2. Claims'
    BY <1>2 DEF Prune, TypeOK, Expired, Collector, HasDb, AlertsAreSecurity,
                KeptOnTheWay, PublishedIsStored, PublishedMeansTrimmed, NoCache, Cached,
                CutoffIsOld, WithinIsRecent
  <2>3. QED
    BY <2>1, <2>2
<1>3. CASE Restart
  <2>1. TypeOK'
    BY <1>3 DEF Restart, TypeOK, IdleProducer, IdleReader, Item
  <2>2. Claims'
    BY <1>3 DEF Restart, TypeOK, IdleProducer, IdleReader, Collector, HasDb, AlertsAreSecurity,
                KeptOnTheWay, PublishedIsStored, PublishedMeansTrimmed, NoCache, Cached,
                CutoffIsOld, WithinIsRecent
  <2>3. QED
    BY <2>1, <2>2
<1>4. QED
  BY <1>1, <1>2, <1>3

\* IInv holds in every reachable state, for every setup and every limit.
THEOREM Inductive == Spec => []IInv
<1>1. IInv /\ [Next]_vars => IInv'
  <2> SUFFICES ASSUME IInv, [Next]_vars
               PROVE  IInv'
    OBVIOUS
  <2>1. CASE Next
    BY <2>1, ProducerStep, WriteFailsStep, ReaderStep, SurroundingsStep DEF Next
  <2>2. CASE UNCHANGED vars
    BY <2>2 DEF vars, sinkVars, IInv, TypeOK, AlertsAreSecurity, KeptOnTheWay, PublishedIsStored,
                PublishedMeansTrimmed, NoCache, Cached,
                CutoffIsOld, WithinIsRecent, Expired, Collector, HasDb
  <2>3. QED
    BY <2>1, <2>2
<1>2. QED
  BY InvInit, <1>1, PTL DEF Spec

-----------------------------------------------------------------------------
(* What follows                                                            *)

\* Whatever the ingestor has put on the bus is in the table until it expires, and
\* in the alert chain for good if it is a security event.
THEOREM NothingAnnouncedUnkept == Spec => []PublishedIsStored
<1>1. IInv => PublishedIsStored
  BY DEF IInv
<1>2. QED
  BY Inductive, <1>1, PTL

\* No answer to a window query has a row from before the window.
THEOREM WindowsAreKept == Spec => []WithinIsRecent
<1>1. IInv => WithinIsRecent
  BY DEF IInv
<1>2. QED
  BY Inductive, <1>1, PTL

\* When the ingestor publishes, the cache is within its limit.
THEOREM CacheIsTrimmed == Spec => []PublishedMeansTrimmed
<1>1. IInv => PublishedMeansTrimmed
  BY DEF IInv
<1>2. QED
  BY Inductive, <1>1, PTL

\* Type correctness, for any setup and any limits.
THEOREM TypeCorrect == Spec => []TypeOK
<1>1. IInv => TypeOK
  BY DEF IInv
<1>2. QED
  BY Inductive, <1>1, PTL

-----------------------------------------------------------------------------
(* Reading back: the cache                                                 *)

\* The collector announces an item whatever failed before; the claim is about the
\* others.
Whole(x) == Collector => x \notin spoilt

\* The cache is in the order of the items' numbers, the newest first.
Sorted(l) == \A i, j \in 1..Len(l) : i < j => l[i].n > l[j].n

\* An item is in the cache, or newer ones have pushed it out.
ReachedIn(x, l) ==
  x \in ItemsOf(l) \/ (Len(l) >= CacheLimit /\ \A y \in ItemsOf(l) : y.n > x.n)

\* A prefix has the length asked for, or all there is.
LEMMA FirstOfItems ==
  ASSUME NEW l \in Seq(Item), NEW n \in Nat
  PROVE  /\ FirstOf(l, n) \in Seq(Item) /\ Len(FirstOf(l, n)) = MinOf(n, Len(l))
         /\ \A i \in 1..MinOf(n, Len(l)) : FirstOf(l, n)[i] = l[i]
<1> DEFINE m == MinOf(n, Len(l))
<1>1. m \in Nat /\ m <= Len(l)
  BY DEF MinOf
<1>2. FirstOf(l, n) = SubSeq(l, 1, m)
  BY DEF FirstOf
<1> HIDE DEF m
<1>3. SubSeq(l, 1, m) \in Seq(Item) /\ Len(SubSeq(l, 1, m)) = m
  BY <1>1
<1>4. \A i \in 1..m : SubSeq(l, 1, m)[i] = l[i]
  BY <1>1
<1> QED BY <1>2, <1>3, <1>4 DEF m

\* Trimming keeps the order, and what it drops is older than all it keeps.
LEMMA TrimmedList ==
  ASSUME NEW l \in Seq(Item), Sorted(l)
  PROVE  /\ FirstOf(l, CacheLimit) \in Seq(Item)
         /\ Sorted(FirstOf(l, CacheLimit))
         /\ ItemsOf(FirstOf(l, CacheLimit)) \subseteq ItemsOf(l)
         /\ \A x \in Item : ReachedIn(x, l) => ReachedIn(x, FirstOf(l, CacheLimit))
<1> DEFINE f == FirstOf(l, CacheLimit)
           m == MinOf(CacheLimit, Len(l))
<1>1. f \in Seq(Item) /\ Len(f) = m /\ \A i \in 1..m : f[i] = l[i]
  BY FirstOfItems, ConstantsAssumption
<1>2. /\ m \in Nat /\ m <= Len(l)
      /\ m < Len(l) => m = CacheLimit
      /\ Len(l) >= CacheLimit => m = CacheLimit
  BY ConstantsAssumption DEF MinOf
<1> HIDE DEF f, m
<1>3. Sorted(f)
  BY <1>1, <1>2 DEF Sorted
<1>4. ItemsOf(f) \subseteq ItemsOf(l)
  BY <1>1, <1>2 DEF ItemsOf
<1>5. ASSUME NEW x \in Item, ReachedIn(x, l) PROVE ReachedIn(x, f)
  <2>1. CASE x \in ItemsOf(f)
    BY <2>1 DEF ReachedIn
  <2>2. CASE x \in ItemsOf(l) /\ x \notin ItemsOf(f)
    <3>1. PICK i \in 1..Len(l) : l[i] = x
      BY <2>2 DEF ItemsOf
    <3>2. i > m
      BY <1>1, <1>2, <2>2, <3>1 DEF ItemsOf
    <3>3. \A j \in 1..m : f[j].n > x.n
      BY <1>1, <1>2, <3>1, <3>2 DEF Sorted
    <3> QED BY <1>1, <1>2, <3>2, <3>3, ConstantsAssumption DEF ReachedIn, ItemsOf
  <2>3. CASE x \notin ItemsOf(l)
    BY <1>1, <1>2, <1>4, <1>5, <2>3, ConstantsAssumption DEF ReachedIn
  <2> QED BY <2>1, <2>2, <2>3
<1> QED BY <1>1, <1>3, <1>4, <1>5 DEF f

\* Pushing the newest item keeps the order and reaches nobody less.
LEMMA PushedList ==
  ASSUME NEW l \in Seq(Item), NEW p \in Item, Sorted(l), \A y \in ItemsOf(l) : y.n < p.n
  PROVE  /\ <<p>> \o l \in Seq(Item)
         /\ Sorted(<<p>> \o l)
         /\ ItemsOf(<<p>> \o l) = ItemsOf(l) \cup {p}
         /\ \A x \in Item : x.n < p.n /\ ReachedIn(x, l) => ReachedIn(x, <<p>> \o l)
<1> DEFINE f == <<p>> \o l
<1>1. /\ f \in Seq(Item) /\ Len(f) = Len(l) + 1 /\ f[1] = p
      /\ \A i \in 1..Len(l) : f[i + 1] = l[i]
  OBVIOUS
<1>2. \A i \in 2..Len(f) : i - 1 \in 1..Len(l) /\ f[i] = l[i - 1]
  BY <1>1
<1> HIDE DEF f
<1>3. ItemsOf(f) = ItemsOf(l) \cup {p}
  <2>1. \A x \in ItemsOf(f) : x \in ItemsOf(l) \cup {p}
    <3> SUFFICES ASSUME NEW i \in 1..Len(f) PROVE f[i] \in ItemsOf(l) \cup {p}
      BY DEF ItemsOf
    <3>1. CASE i = 1
      BY <1>1, <3>1
    <3>2. CASE i # 1
      BY <1>1, <1>2, <3>2 DEF ItemsOf
    <3> QED BY <3>1, <3>2
  <2>2. ItemsOf(l) \subseteq ItemsOf(f) /\ p \in ItemsOf(f)
    <3>1. \A i \in 1..Len(l) : i + 1 \in 1..Len(f) /\ f[i + 1] = l[i]
      BY <1>1
    <3>2. 1 \in 1..Len(f)
      BY <1>1
    <3> QED BY <1>1, <3>1, <3>2 DEF ItemsOf
  <2> QED BY <2>1, <2>2
<1>4. Sorted(f)
  <2> SUFFICES ASSUME NEW i \in 1..Len(f), NEW j \in 1..Len(f), i < j PROVE f[i].n > f[j].n
    BY DEF Sorted
  <2>1. f[j] = l[j - 1] /\ j - 1 \in 1..Len(l)
    BY <1>2
  <2>2. CASE i = 1
    <3>1. l[j - 1].n < p.n /\ l[j - 1] \in Item
      BY <2>1 DEF ItemsOf
    <3> QED BY <1>1, <2>1, <2>2, <3>1 DEF Item
  <2>3. CASE i # 1
    BY <1>2, <2>1, <2>3 DEF Sorted
  <2> QED BY <2>2, <2>3
<1>5. ASSUME NEW x \in Item, x.n < p.n, ReachedIn(x, l) PROVE ReachedIn(x, f)
  <2>1. p.n > x.n
    BY <1>5 DEF Item
  <2>2. Len(l) >= CacheLimit => Len(f) >= CacheLimit
    BY <1>1, ConstantsAssumption
  <2> QED BY <1>3, <1>5, <2>1, <2>2 DEF ReachedIn
<1> QED BY <1>1, <1>3, <1>4, <1>5 DEF f

\* There are as many items in a sorted cache as it is long.
LEMMA SortedCardinality ==
  ASSUME NEW l \in Seq(Item), Sorted(l)
  PROVE  IsFiniteSet(ItemsOf(l)) /\ Cardinality(ItemsOf(l)) = Len(l)
<1>1. Len(l) \in Nat /\ l \in [1..Len(l) -> Item]
  OBVIOUS
<1>2. l \in [1..Len(l) -> ItemsOf(l)] /\ \A x \in ItemsOf(l) : \E i \in 1..Len(l) : l[i] = x
  BY <1>1 DEF ItemsOf
<1>3. \A i, j \in 1..Len(l) : l[i] = l[j] => i = j
  <2> SUFFICES ASSUME NEW i \in 1..Len(l), NEW j \in 1..Len(l), l[i] = l[j], i < j PROVE FALSE
    BY <1>1
  <2>1. l[i].n > l[j].n /\ l[i].n \in Nat
    BY <1>1 DEF Sorted, Item
  <2> QED BY <2>1
<1>4. l \in Bijection(1..Len(l), ItemsOf(l))
  BY <1>2, <1>3, Zenon DEF Bijection, Injection, Surjection, IsInjective
<1>5. ExistsBijection(1..Len(l), ItemsOf(l))
  BY <1>4 DEF ExistsBijection
<1>6. IsFiniteSet(1..Len(l)) /\ Cardinality(1..Len(l)) = Len(l)
  <2> DEFINE n == Len(l)
  <2>1. 1 \in Int /\ n \in Int
    BY <1>1
  <2> HIDE DEF n
  <2>2. IsFiniteSet(1..n) /\ Cardinality(1..n) = IF 1 > n THEN 0 ELSE n - 1 + 1
    BY <2>1, FS_Interval
  <2> QED BY <1>1, <2>2 DEF n
<1> QED BY <1>5, <1>6, FS_Bijection

-----------------------------------------------------------------------------
(* Reading back: the invariant                                             *)

\* The items are numbered as they are made, and a new one is on its way through the
\* sinks before it is in the cache or on the bus.
NumbersInv ==
  /\ Sorted(list)
  /\ \A x \in ItemsOf(list) \cup bus : x.n <= made
  /\ producer.at # "idle" =>
       producer.item.n = made /\ \A x \in bus : x.n < made
  /\ producer.at \in {"store", "alert", "push"} => \A x \in ItemsOf(list) : x.n < made

\* The collector's items are stamped in the order in which they are made.
StampsInv ==
  /\ \A x \in ItemsOf(list) \cup bus : x.ts <= clock
  /\ producer.at # "idle" => producer.item.ts <= clock
  /\ Collector =>
       /\ \A x \in ItemsOf(list) \cup bus, y \in ItemsOf(list) : y.n > x.n => y.ts >= x.ts
       /\ producer.at # "idle" =>
            \A x \in ItemsOf(list) \cup bus : x.ts <= producer.item.ts

\* What has been published, or has passed the sink, is in the table and in the cache,
\* as far as the age and the limits allow.
InTable(x) == HasDb /\ Whole(x) => x \in table \/ Expired(x)
InCache(x) == Cached /\ Whole(x) => ReachedIn(x, list)

KeptInv ==
  /\ IsFiniteSet(table)
  /\ \A x \in bus : InTable(x) /\ InCache(x)
  /\ producer.at \in {"alert", "push", "trim", "publish"} => InTable(producer.item)
  /\ producer.at \in {"trim", "publish"} => InCache(producer.item)

\* What a query is measured by was on the bus when it began; only the collector's items
\* are asked for by a window; the database is asked where there is one, and first; and
\* the cache is asked behind it only if the database failed or had nothing to answer with.
SeenInv ==
  /\ reader.seen \subseteq bus
  /\ reader.within => Collector
  /\ ~reader.within => reader.cutoff = 0
  /\ reader.at = "db" => HasDb
  /\ ~HasDb => ~reader.failed
  /\ reader.at \in {"db", "cache"} => reader.rows = {} /\ reader.from = "db"
  /\ reader.at = "cache" /\ HasDb /\ ~reader.failed =>
       \A x \in reader.seen \ (IF Collector THEN spoilt ELSE {}) :
         \/ Expired(x)
         \/ reader.within /\ x.ts + Within < clock
         \/ MinOf(Limit, CacheLimit) = 0

\* The invariant of the sinks, and that of the queries beside it.
SinksInv == NumbersInv /\ StampsInv /\ KeptInv
QueryInv == SeenInv /\ PublishedIsReadable

LEMMA SinksInit == Init => SinksInv /\ QueryInv
<1> SUFFICES ASSUME Init PROVE SinksInv /\ QueryInv
  OBVIOUS
<1> USE ConstantsAssumption DEF Init, IdleProducer, IdleReader
<1>1. ItemsOf(list) = {} /\ Len(list) = 0
  BY DEF ItemsOf
<1>2. NumbersInv /\ StampsInv
  BY <1>1 DEF NumbersInv, StampsInv, Sorted
<1>3. KeptInv
  BY FS_EmptySet DEF KeptInv
<1>4. QueryInv
  BY DEF QueryInv, SeenInv, PublishedIsReadable
<1> QED BY <1>2, <1>3, <1>4 DEF SinksInv

\* Steps that change neither the cache nor the bus nor the item on its way.
LEMMA QuietSinks ==
  ASSUME IInv, SinksInv, UNCHANGED <<setup, made, table, list, bus, spoilt, producer>>,
         clock' \in {clock, clock + 1}
  PROVE  SinksInv'
<1>1. \A x \in Item : x.ts \in Nat
  BY DEF Item
<1>2. clock \in Nat /\ clock <= clock' /\ clock' \in Nat
  BY DEF IInv, TypeOK
<1>3. /\ ItemsOf(list) \subseteq Item /\ bus \subseteq Item /\ producer.item \in Item
  BY DEF IInv, TypeOK, ItemsOf
<1>4. NumbersInv'
  BY DEF SinksInv, NumbersInv, Sorted, ItemsOf
<1>5. StampsInv'
  BY <1>1, <1>2, <1>3 DEF SinksInv, StampsInv, ItemsOf, Collector
<1>6. ASSUME NEW x \in Item, InTable(x) PROVE InTable(x)'
  BY <1>2, <1>6, ExpiredStays DEF InTable, HasDb, Whole, Collector
<1>7. ASSUME NEW x \in Item, InCache(x) PROVE InCache(x)'
  BY <1>7 DEF InCache, Cached, Whole, Collector, ReachedIn, ItemsOf
<1>8. KeptInv'
  BY <1>3, <1>6, <1>7 DEF SinksInv, KeptInv
<1> QED BY <1>4, <1>5, <1>8 DEF SinksInv

\* The types the steps need.
LEMMA SinkTypes ==
  ASSUME IInv
  PROVE  /\ ItemsOf(list) \subseteq Item /\ bus \subseteq Item /\ producer.item \in Item
         /\ list \in Seq(Item)
         /\ \A x \in Item : x.n \in Nat /\ x.ts \in Nat
         /\ made \in Nat /\ clock \in Nat
<1>1. ItemsOf(list) \subseteq Item /\ bus \subseteq Item /\ producer.item \in Item
      /\ list \in Seq(Item)
  BY DEF IInv, TypeOK, ItemsOf
<1>2. \A x \in Item : x.n \in Nat /\ x.ts \in Nat
  BY DEF Item
<1>3. made \in Nat /\ clock \in Nat
  BY DEF IInv, TypeOK
<1> QED BY <1>1, <1>2, <1>3

\* An item is made: it has a number and a stamp no other has before it.
LEMMA MakeSinks == IInv /\ SinksInv /\ Make => SinksInv'
<1> SUFFICES ASSUME IInv, SinksInv, Make PROVE SinksInv'
  OBVIOUS
<1>1. /\ UNCHANGED <<setup, clock, table, list, bus, spoilt>> /\ made' = made + 1
      /\ producer.at = "idle"
  BY DEF Make, sinkVars
<1>2. PICK t \in Stamps, b \in BOOLEAN :
        producer' = [at |-> IF HasDb THEN "store" ELSE BehindDb,
                     item |-> [n |-> made + 1, ts |-> t, security |-> b]]
  BY DEF Make
<1>3. /\ producer'.at \in {"store", "push", "publish"} /\ producer'.item.n = made + 1
      /\ producer'.item.ts = t /\ (HasDb => producer'.at = "store")
      /\ producer'.at = "publish" => ~Cached
  BY <1>2 DEF BehindDb
<1>4. /\ ItemsOf(list) \subseteq Item /\ bus \subseteq Item /\ made \in Nat /\ clock \in Nat
      /\ \A x \in Item : x.n \in Nat /\ x.ts \in Nat
  BY SinkTypes
<1>5. t \in Nat /\ t <= clock /\ (Collector => t = clock)
  BY <1>4 DEF Stamps
<1>6. NumbersInv'
  BY <1>1, <1>3, <1>4 DEF SinksInv, NumbersInv, Sorted, ItemsOf
<1>7. StampsInv'
  BY <1>1, <1>3, <1>4, <1>5 DEF SinksInv, StampsInv, ItemsOf, Collector
<1>8. KeptInv'
  BY <1>1, <1>3 DEF SinksInv, KeptInv, InTable, InCache, Cached, Whole, HasDb, Collector, Expired,
                    ReachedIn, ItemsOf
<1> QED BY <1>6, <1>7, <1>8 DEF SinksInv

\* The table and the alerts get the item.
LEMMA StoreSinks == IInv /\ SinksInv /\ (Store \/ StoreAlert) => SinksInv'
<1> SUFFICES ASSUME IInv, SinksInv, Store \/ StoreAlert PROVE SinksInv'
  OBVIOUS
<1>1. /\ UNCHANGED <<setup, clock, made, list, bus, spoilt>>
      /\ producer.at \in {"store", "alert"}
      /\ table' = IF producer.at = "store" THEN table \cup {producer.item} ELSE table
  BY DEF Store, StoreAlert
<1>2. /\ producer'.at \in {"alert", "push", "publish"} /\ producer'.item = producer.item
      /\ producer'.at = "publish" => ~Cached
  BY DEF Store, StoreAlert, Advance, After, BehindDb, IInv, TypeOK, AlertsAreSecurity
<1>3. NumbersInv' /\ StampsInv'
  BY <1>1, <1>2 DEF SinksInv, NumbersInv, StampsInv, Sorted, ItemsOf, Collector
<1>4. KeptInv'
  <2>1. IsFiniteSet(table')
    BY <1>1, FS_AddElement DEF SinksInv, KeptInv
  <2>2. \A x : InTable(x) => InTable(x)'
    BY <1>1 DEF InTable, Whole, HasDb, Collector, Expired
  <2>3. \A x : InCache(x) => InCache(x)'
    BY <1>1 DEF InCache, Cached, Whole, Collector, ReachedIn, ItemsOf
  <2>4. InTable(producer.item)'
    <3>1. CASE producer.at = "store"
      BY <1>1, <1>2, <3>1 DEF InTable
    <3>2. CASE producer.at = "alert"
      BY <1>1, <1>2, <2>2, <3>2 DEF SinksInv, KeptInv, InTable, Whole, HasDb, Collector, Expired
    <3> QED BY <1>1, <3>1, <3>2
  <2>5. producer'.at = "publish" => InCache(producer.item)'
    BY <1>1, <1>2 DEF InCache, Cached
  <2> QED BY <1>1, <1>2, <2>1, <2>2, <2>3, <2>4, <2>5 DEF SinksInv, KeptInv
<1> QED BY <1>3, <1>4 DEF SinksInv

\* The cache changes to l, which has the items it had, or fewer, and perhaps the one on
\* its way; the producer goes on behind the push.
LEMMA ListChanges ==
  ASSUME IInv, SinksInv, UNCHANGED <<setup, clock, made, table, bus>>,
         producer.at \in {"push", "trim"}, producer'.item = producer.item,
         producer'.at \in {"idle", "trim", "publish"},
         spoilt \subseteq spoilt',
         Sorted(list'), ItemsOf(list') \subseteq ItemsOf(list) \cup {producer.item},
         \A x \in bus : ReachedIn(x, list) => ReachedIn(x, list'),
         producer'.at # "idle" => InCache(producer.item)'
  PROVE  SinksInv'
<1>1. /\ ItemsOf(list) \subseteq Item /\ bus \subseteq Item /\ producer.item \in Item
      /\ \A x \in Item : x.n \in Nat /\ x.ts \in Nat
      /\ made \in Nat /\ clock \in Nat
  BY SinkTypes
<1>2. producer.item.n = made /\ \A x \in bus : x.n < made
  BY DEF SinksInv, NumbersInv
<1>3. NumbersInv'
  BY <1>1, <1>2 DEF SinksInv, NumbersInv
<1>4. StampsInv'
  <2>1. \A x \in ItemsOf(list') \cup bus' : x.ts <= clock'
    BY DEF SinksInv, StampsInv
  <2>2. ASSUME Collector, NEW x \in ItemsOf(list') \cup bus, NEW y \in ItemsOf(list'), y.n > x.n
        PROVE  y.ts >= x.ts
    <3>1. CASE y = producer.item
      <4>1. x.ts <= producer.item.ts \/ x = producer.item
        BY <2>2 DEF SinksInv, StampsInv
      <4> QED BY <1>1, <3>1, <4>1
    <3>2. CASE y # producer.item /\ x = producer.item
      <4>1. y \in ItemsOf(list) /\ y.n <= made
        BY <3>2 DEF SinksInv, NumbersInv
      <4> QED BY <1>1, <1>2, <2>2, <3>2, <4>1
    <3>3. CASE y # producer.item /\ x # producer.item
      BY <2>2, <3>3 DEF SinksInv, StampsInv
    <3> QED BY <3>1, <3>2, <3>3
  <2>3. ASSUME Collector, NEW x \in ItemsOf(list') \cup bus PROVE x.ts <= producer.item.ts
    <3>1. CASE x = producer.item
      BY <1>1, <3>1
    <3>2. CASE x # producer.item
      BY <2>3, <3>2 DEF SinksInv, StampsInv
    <3> QED BY <3>1, <3>2
  <2> QED BY <2>1, <2>2, <2>3 DEF SinksInv, StampsInv, Collector
<1>5. KeptInv'
  <2>1. \A x : InTable(x) => InTable(x)'
    BY DEF InTable, Whole, HasDb, Collector, Expired
  <2>2. \A x \in bus : InCache(x) => InCache(x)'
    BY DEF InCache, Cached, Whole, Collector
  <2>3. InTable(producer.item)'
    BY <2>1 DEF SinksInv, KeptInv, InTable, Whole, HasDb, Collector, Expired
  <2> QED BY <2>1, <2>2, <2>3 DEF SinksInv, KeptInv
<1> QED BY <1>3, <1>4, <1>5 DEF SinksInv

\* LPUSH and LTRIM, whether they are carried out, fail, or fail and are carried out.
LEMMA ListSinks == IInv /\ SinksInv /\ (Push \/ Trim) => SinksInv'
<1> SUFFICES ASSUME IInv, SinksInv, Push \/ Trim PROVE SinksInv'
  OBVIOUS
<1> DEFINE p == producer.item
<1>1. /\ UNCHANGED <<setup, clock, made, table, bus, spoilt>> /\ producer'.item = p
      /\ producer.at \in {"push", "trim"} /\ producer'.at \in {"trim", "publish"}
  BY DEF Push, Trim, Advance, After, IInv, TypeOK
<1>2. /\ list \in Seq(Item) /\ p \in Item /\ bus \subseteq Item
      /\ p.n = made /\ \A x \in bus : x.n < p.n
      /\ Sorted(list)
  BY <1>1, SinkTypes DEF SinksInv, NumbersInv
<1>3. CASE Push
  <2> DEFINE l == <<p>> \o list
  <2>1. \A y \in ItemsOf(list) : y.n < p.n
    BY <1>2, <1>3 DEF Push, SinksInv, NumbersInv
  <2>2. /\ l \in Seq(Item) /\ Sorted(l) /\ ItemsOf(l) = ItemsOf(list) \cup {p}
        /\ \A x \in bus : ReachedIn(x, list) => ReachedIn(x, l)
    <3> HIDE DEF p
    <3> QED BY <1>2, <2>1, PushedList
  <2>3. /\ FirstOf(l, CacheLimit) \in Seq(Item) /\ Sorted(FirstOf(l, CacheLimit))
        /\ ItemsOf(FirstOf(l, CacheLimit)) \subseteq ItemsOf(l)
        /\ \A x \in Item : ReachedIn(x, l) => ReachedIn(x, FirstOf(l, CacheLimit))
    <3> HIDE DEF l
    <3> QED BY <2>2, TrimmedList
  <2>4. ReachedIn(p, l)
    BY <2>2 DEF ReachedIn
  <2>5. list' \in {l, FirstOf(l, CacheLimit)}
    BY <1>3 DEF Push
  <2> HIDE DEF l, p
  <2>6. /\ Sorted(list') /\ ItemsOf(list') \subseteq ItemsOf(list) \cup {p}
        /\ \A x \in bus : ReachedIn(x, list) => ReachedIn(x, list')
        /\ ReachedIn(p, list')
    BY <1>2, <2>2, <2>3, <2>4, <2>5
  <2> QED BY <1>1, <2>6, ListChanges DEF InCache, Cached, p
<1>4. CASE Trim
  <2>1. list' = FirstOf(list, CacheLimit) /\ producer.at = "trim"
    BY <1>4 DEF Trim
  <2>2. /\ Sorted(list') /\ ItemsOf(list') \subseteq ItemsOf(list)
        /\ \A x \in Item : ReachedIn(x, list) => ReachedIn(x, list')
    BY <1>2, <2>1, TrimmedList
  <2>3. InCache(producer.item)'
    BY <1>1, <1>2, <2>1, <2>2 DEF SinksInv, KeptInv, InCache, Cached, Whole, Collector
  <2> QED BY <1>1, <1>2, <2>2, <2>3, ListChanges
<1> QED BY <1>3, <1>4

LEMMA WriteFailsSinks == IInv /\ SinksInv /\ WriteFails => SinksInv'
<1> SUFFICES ASSUME IInv, SinksInv, WriteFails PROVE SinksInv'
  OBVIOUS
<1> PICK p : p = producer.item
  OBVIOUS
<1>1. /\ UNCHANGED <<setup, clock, made, table, bus>> /\ producer'.item = p
      /\ producer.at \in {"store", "alert", "push", "trim"} /\ spoilt' = spoilt \cup {p}
      /\ producer'.at = AfterError(producer.at)
  BY DEF WriteFails, IInv, TypeOK
<1>2. ~Whole(p)' \/ (~Collector /\ producer'.at = "idle")
  BY <1>1 DEF Whole, Collector, AfterError, BehindDb
<1>3. \A x : Whole(x)' => Whole(x)
  BY <1>1 DEF Whole, Collector
<1>4. /\ list \in Seq(Item) /\ p \in Item /\ bus \subseteq Item
      /\ p.n = made /\ \A x \in bus : x.n < p.n
      /\ Sorted(list)
  BY <1>1, SinkTypes DEF SinksInv, NumbersInv
<1>5. CASE list' = list
  <2>1. NumbersInv'
    <3>1. producer'.at = "push" => producer.at = "store"
      BY <1>1 DEF AfterError, BehindDb
    <3>2. producer'.at \in {"idle", "push", "publish"}
      BY <1>1 DEF AfterError, BehindDb
    <3> QED BY <1>1, <1>5, <3>1, <3>2 DEF SinksInv, NumbersInv, Sorted, ItemsOf
  <2>2. StampsInv'
    BY <1>1, <1>5 DEF SinksInv, StampsInv, ItemsOf, Collector
  <2>3. /\ \A x : InTable(x) => InTable(x)'
        /\ \A x : InCache(x) => InCache(x)'
    BY <1>1, <1>3, <1>5 DEF InTable, InCache, Cached, HasDb, Expired, ReachedIn, ItemsOf
  <2>4. producer'.at # "idle" => InTable(p)' /\ InCache(p)'
    BY <1>2 DEF InTable, InCache
  <2>5. KeptInv'
    BY <1>1, <2>3, <2>4 DEF SinksInv, KeptInv
  <2> QED BY <2>1, <2>2, <2>5 DEF SinksInv
<1>6. CASE list' # list
  <2>1. /\ producer.at \in {"push", "trim"}
        /\ producer.at = "push" => list' = <<p>> \o list
        /\ producer.at = "trim" => list' = FirstOf(list, CacheLimit)
    BY <1>6 DEF WriteFails
  <2>2. producer'.at \in {"idle", "publish"}
    BY <1>1, <2>1 DEF AfterError, BehindDb
  <2>3. /\ Sorted(list') /\ ItemsOf(list') \subseteq ItemsOf(list) \cup {p}
        /\ \A x \in bus : ReachedIn(x, list) => ReachedIn(x, list')
    <3>1. CASE producer.at = "push"
      <4>1. \A y \in ItemsOf(list) : y.n < p.n
        BY <1>4, <3>1 DEF SinksInv, NumbersInv
      <4> QED BY <1>4, <2>1, <3>1, <4>1, PushedList
    <3>2. CASE producer.at = "trim"
      BY <1>4, <2>1, <3>2, TrimmedList
    <3> QED BY <2>1, <3>1, <3>2
  <2>4. producer'.at # "idle" => InCache(producer.item)'
    BY <1>1, <1>2 DEF InCache
  <2> QED BY <1>1, <2>1, <2>2, <2>3, <2>4, ListChanges
<1> QED BY <1>5, <1>6

\* The item is announced: it is the newest, it is in the table and in the cache.
LEMMA PublishSinks == IInv /\ SinksInv /\ Publish => SinksInv'
<1> SUFFICES ASSUME IInv, SinksInv, Publish PROVE SinksInv'
  OBVIOUS
<1> PICK p : p = producer.item
  OBVIOUS
<1>1. /\ UNCHANGED <<setup, clock, made, table, list, spoilt>> /\ bus' = bus \cup {p}
      /\ producer.at = "publish" /\ producer'.at = "idle"
  BY DEF Publish, IdleProducer
<1>2. /\ ItemsOf(list) \subseteq Item /\ bus \subseteq Item /\ p \in Item
      /\ \A x \in Item : x.n \in Nat /\ x.ts \in Nat
      /\ made \in Nat /\ clock \in Nat
  BY SinkTypes
<1>3. p.n = made /\ p.ts <= clock /\ \A y \in ItemsOf(list) : y.n <= made
  BY <1>1 DEF SinksInv, NumbersInv, StampsInv
<1>4. NumbersInv'
  BY <1>1, <1>2, <1>3 DEF SinksInv, NumbersInv, Sorted, ItemsOf
<1>5. StampsInv'
  <2>1. \A y \in ItemsOf(list) : ~(y.n > p.n)
    BY <1>2, <1>3
  <2>2. ASSUME Collector, NEW x \in ItemsOf(list) \cup bus \cup {p}, NEW y \in ItemsOf(list),
               y.n > x.n
        PROVE  y.ts >= x.ts
    BY <2>1, <2>2 DEF SinksInv, StampsInv
  <2>3. \A x \in ItemsOf(list) \cup bus \cup {p} : x.ts <= clock
    BY <1>3 DEF SinksInv, StampsInv
  <2> QED BY <1>1, <2>2, <2>3 DEF StampsInv, ItemsOf, Collector
<1>6. KeptInv'
  <2>1. /\ \A x : InTable(x) => InTable(x)'
        /\ \A x : InCache(x) => InCache(x)'
    BY <1>1 DEF InTable, InCache, Cached, Whole, Collector, HasDb, Expired, ReachedIn, ItemsOf
  <2>2. \A x \in bus \cup {p} : InTable(x) /\ InCache(x)
    BY <1>1 DEF SinksInv, KeptInv
  <2> QED BY <1>1, <2>1, <2>2 DEF SinksInv, KeptInv
<1> QED BY <1>4, <1>5, <1>6 DEF SinksInv

\* What maintenance deletes has expired.
LEMMA PruneSinks == IInv /\ SinksInv /\ Prune => SinksInv'
<1> SUFFICES ASSUME IInv, SinksInv, Prune PROVE SinksInv'
  OBVIOUS
<1>1. /\ UNCHANGED <<setup, clock, made, list, bus, spoilt, producer>>
      /\ table' = {x \in table : ~Expired(x)}
  BY DEF Prune
<1>2. NumbersInv' /\ StampsInv'
  BY <1>1 DEF SinksInv, NumbersInv, StampsInv, Sorted, ItemsOf, Collector
<1>3. IsFiniteSet(table')
  BY <1>1, FS_Subset DEF SinksInv, KeptInv
<1>4. \A x : InTable(x) => InTable(x)'
  BY <1>1 DEF InTable, Whole, Collector, HasDb, Expired
<1>5. \A x : InCache(x) => InCache(x)'
  BY <1>1 DEF InCache, Cached, Whole, Collector, ReachedIn, ItemsOf
<1>6. InTable(producer.item) => InTable(producer.item)'
  BY <1>1 DEF InTable, Whole, Collector, HasDb, Expired
<1>7. InCache(producer.item) => InCache(producer.item)'
  BY <1>1 DEF InCache, Cached, Whole, Collector, ReachedIn, ItemsOf
<1>8. KeptInv'
  BY <1>1, <1>3, <1>4, <1>5, <1>6, <1>7 DEF SinksInv, KeptInv
<1> QED BY <1>2, <1>8 DEF SinksInv

\* A new process has announced nothing yet; Redis has kept the cache.
LEMMA RestartSinks == IInv /\ SinksInv /\ Restart => SinksInv'
<1> SUFFICES ASSUME IInv, SinksInv, Restart PROVE SinksInv'
  OBVIOUS
<1>1. /\ UNCHANGED <<setup, clock, made, table, spoilt>> /\ bus' = {}
      /\ list' \in {list, << >>} /\ producer'.at = "idle"
  BY DEF Restart, IdleProducer
<1>2. ItemsOf(list') \subseteq ItemsOf(list) /\ Sorted(list')
  BY <1>1 DEF SinksInv, NumbersInv, Sorted, ItemsOf
<1>3. NumbersInv' /\ StampsInv' /\ KeptInv'
  BY <1>1, <1>2 DEF SinksInv, NumbersInv, StampsInv, KeptInv, Collector
<1> QED BY <1>3 DEF SinksInv

\* Every step keeps the invariant of the sinks.
LEMMA SinksStep == IInv /\ SinksInv /\ [Next]_vars => SinksInv'
<1> SUFFICES ASSUME IInv, SinksInv, [Next]_vars PROVE SinksInv'
  OBVIOUS
<1>1. CASE \/ BeginRead \/ ReadDb \/ ReadDbFails \/ ReadCache \/ ReadCacheFails \/ NothingToRead
           \/ Return \/ Tick \/ UNCHANGED vars
  <2>1. UNCHANGED <<setup, made, table, list, bus, spoilt, producer>>
    BY <1>1 DEF BeginRead, ReadDb, ReadDbFails, ReadCache, ReadCacheFails, NothingToRead,
                Return, Tick, vars, sinkVars
  <2>2. clock' \in {clock, clock + 1}
    BY <1>1 DEF BeginRead, ReadDb, ReadDbFails, ReadCache, ReadCacheFails, NothingToRead,
                Return, Tick, vars, sinkVars
  <2> QED BY <2>1, <2>2, QuietSinks
<1> QED BY <1>1, MakeSinks, StoreSinks, ListSinks, WriteFailsSinks, PublishSinks, PruneSinks,
           RestartSinks DEF Next

-----------------------------------------------------------------------------
(* Reading back: the queries                                               *)

\* What a query of k items leaves behind is older than the k it takes, or the cache
\* does not hold it any more.
LEMMA BeyondPrefix ==
  ASSUME NEW l \in Seq(Item), Sorted(l), NEW x \in Item, ReachedIn(x, l),
         NEW k \in {Limit, CacheLimit}, x \notin ItemsOf(FirstOf(l, k))
  PROVE  /\ FirstOf(l, k) \in Seq(Item) /\ Sorted(FirstOf(l, k))
         /\ ItemsOf(FirstOf(l, k)) \subseteq ItemsOf(l)
         /\ Len(FirstOf(l, k)) >= MinOf(Limit, CacheLimit)
         /\ \A y \in ItemsOf(FirstOf(l, k)) : y.n > x.n
<1> PICK f : f = FirstOf(l, k)
  OBVIOUS
<1> PICK m : m = MinOf(k, Len(l))
  OBVIOUS
<1>1. Limit \in Nat /\ CacheLimit \in Nat /\ k \in Nat
  BY ConstantsAssumption
<1>2. m \in Nat /\ m <= Len(l) /\ m <= k /\ (m = k \/ m = Len(l))
  BY <1>1 DEF MinOf
<1>3. f \in Seq(Item) /\ Len(f) = m /\ \A i \in 1..m : f[i] = l[i]
  BY <1>1, FirstOfItems
<1>4. Sorted(f)
  BY <1>2, <1>3 DEF Sorted
<1>5. ItemsOf(f) \subseteq ItemsOf(l)
  BY <1>2, <1>3 DEF ItemsOf
<1>6. CASE x \in ItemsOf(l)
  <2>1. PICK i \in 1..Len(l) : l[i] = x
    BY <1>6 DEF ItemsOf
  <2>2. i > m
    BY <1>2, <1>3, <2>1 DEF ItemsOf
  <2>3. m = k
    BY <1>2, <2>1, <2>2
  <2>4. \A y \in ItemsOf(f) : y.n > x.n
    BY <1>2, <1>3, <2>1, <2>2 DEF ItemsOf, Sorted
  <2>5. m >= MinOf(Limit, CacheLimit)
    BY <1>1, <2>3 DEF MinOf
  <2> QED BY <1>3, <1>4, <1>5, <2>4, <2>5
<1>7. CASE x \notin ItemsOf(l)
  <2>1. Len(l) >= CacheLimit /\ \A y \in ItemsOf(l) : y.n > x.n
    BY <1>7 DEF ReachedIn
  <2>2. m >= MinOf(Limit, CacheLimit)
    BY <1>1, <1>2, <2>1 DEF MinOf
  <2> QED BY <1>3, <1>4, <1>5, <2>1, <2>2
<1> QED BY <1>6, <1>7

\* Nothing that happens around a query takes back what it will be answered with.
LEMMA QuietQuery ==
  ASSUME IInv, IInv', QueryInv, UNCHANGED <<setup, reader>>, bus \subseteq bus',
         spoilt \subseteq spoilt', clock <= clock'
  PROVE  QueryInv'
<1>2. clock \in Nat /\ clock' \in Nat /\ reader.seen \subseteq Item
      /\ \A x \in Item : x.ts \in Nat
  BY DEF IInv, TypeOK, Item
<1>3. \A x \in Item : /\ Expired(x) => Expired(x)'
                      /\ x.ts + Within < clock => x.ts + Within < clock'
  BY <1>2, ExpiredStays, ConstantsAssumption
<1>4. PublishedIsReadable'
  BY <1>2, <1>3 DEF QueryInv, PublishedIsReadable, Collector, HasDb, Cached
<1>5. SeenInv'
  BY <1>2, <1>3 DEF QueryInv, SeenInv, Collector, HasDb
<1> QED BY <1>4, <1>5 DEF QueryInv

\* The database answers: the rows of the window, or the newest rows.
LEMMA ReadDbQuery == IInv /\ SinksInv /\ QueryInv /\ ReadDb => QueryInv'
<1> SUFFICES ASSUME IInv, SinksInv, QueryInv, ReadDb PROVE QueryInv'
  OBVIOUS
<1>1. /\ UNCHANGED <<setup, clock, bus, spoilt>> /\ reader.at = "db"
      /\ HasDb /\ reader.from = "db"
  BY DEF ReadDb, sinkVars, QueryInv, SeenInv
<1>2. PICK R \in SUBSET table :
        /\ DbRows(R)
        /\ reader' = [reader EXCEPT !.at = IF R = {} THEN "cache" ELSE "done", !.rows = R]
  BY DEF ReadDb
<1>3. /\ reader'.within = reader.within /\ reader'.seen = reader.seen /\ reader'.rows = R
      /\ reader'.cutoff = reader.cutoff /\ reader'.from = "db"
      /\ reader'.at = (IF R = {} THEN "cache" ELSE "done") /\ reader'.failed = reader.failed
  BY <1>1, <1>2 DEF IInv, TypeOK
<1>5. ASSUME NEW x \in reader.seen \ (IF Collector THEN spoilt ELSE {})
      PROVE  \/ x \in R
             \/ Expired(x)
             \/ reader.within /\ x.ts + Within < clock
             \/ /\ Cardinality(R) >= MinOf(Limit, CacheLimit)
                /\ \A y \in R : y.ts >= x.ts
  <2>1. x \in bus /\ Whole(x)
    BY <1>5 DEF QueryInv, SeenInv, Whole
  <2>2. x \in table \/ Expired(x)
    BY <1>1, <2>1 DEF SinksInv, KeptInv, InTable
  <2>3. x.ts \in Nat /\ clock \in Nat
    BY <2>1, SinkTypes
  <2>4. CASE x \in table /\ reader.within
    <3>1. R = {y \in table : y.ts >= Minus(clock, Within)}
      BY <1>2, <2>4 DEF DbRows
    <3>2. CASE x.ts >= Minus(clock, Within)
      BY <2>4, <3>1, <3>2
    <3>3. CASE ~(x.ts >= Minus(clock, Within))
      BY <2>3, <2>4, <3>3, ConstantsAssumption DEF Minus
    <3> QED BY <3>2, <3>3
  <2>5. CASE x \in table /\ ~reader.within /\ x \notin R
    <3>1. /\ Cardinality(R) = MinOf(Limit, Cardinality(table))
          /\ \A y \in R, z \in table \ R : y.ts >= z.ts
      BY <1>2, <2>5 DEF DbRows, NewestRows
    <3>2. IsFiniteSet(table) /\ R # table /\ R \subseteq table
      BY <2>5 DEF SinksInv, KeptInv
    <3>3. Cardinality(R) \in Nat /\ Cardinality(table) \in Nat
      BY <3>2, FS_Subset, FS_CardinalityType
    <3>4. Cardinality(R) < Cardinality(table)
      BY <3>2, <3>3, FS_Subset
    <3>5. Cardinality(R) >= MinOf(Limit, CacheLimit)
      BY <3>1, <3>3, <3>4, ConstantsAssumption DEF MinOf
    <3> QED BY <2>5, <3>1, <3>5
  <2> QED BY <2>2, <2>4, <2>5
<1>6. PublishedIsReadable'
  BY <1>1, <1>3, <1>5 DEF PublishedIsReadable, Collector, Expired
<1>7. ASSUME R = {}, NEW x \in reader.seen \ (IF Collector THEN spoilt ELSE {})
      PROVE  \/ Expired(x)
             \/ reader.within /\ x.ts + Within < clock
             \/ MinOf(Limit, CacheLimit) = 0
  <2>1. Cardinality(R) = 0
    BY <1>7, FS_EmptySet
  <2> QED BY <1>5, <1>7, <2>1, ConstantsAssumption DEF MinOf
<1>8. SeenInv'
  BY <1>1, <1>3, <1>7 DEF QueryInv, SeenInv, Collector, HasDb, Expired
<1> QED BY <1>6, <1>8 DEF QueryInv

\* The cache answers: the newest items, those of the window if one is asked for.
LEMMA ReadCacheQuery == IInv /\ SinksInv /\ QueryInv /\ ReadCache => QueryInv'
<1> SUFFICES ASSUME IInv, SinksInv, QueryInv, ReadCache PROVE QueryInv'
  OBVIOUS
<1> PICK R : R = CacheRows
  OBVIOUS
<1> PICK k \in {Limit, CacheLimit} : k = IF reader.within THEN CacheLimit ELSE Limit
  OBVIOUS
<1> PICK f : f = FirstOf(list, k)
  OBVIOUS
<1>1. /\ UNCHANGED <<setup, clock, bus, spoilt>>
      /\ reader'.within = reader.within /\ reader'.seen = reader.seen /\ reader'.rows = R
      /\ reader'.cutoff = reader.cutoff /\ reader'.from = "cache"
      /\ reader'.at \in {"wide", "done"} /\ reader'.failed = reader.failed /\ Cached
  BY DEF ReadCache, sinkVars, IInv, TypeOK
<1>2. SeenInv'
  BY <1>1 DEF QueryInv, SeenInv, Collector, HasDb
<1>3. R = {x \in ItemsOf(f) : x.ts >= reader.cutoff}
  BY DEF CacheRows
<1>4. ASSUME NEW x \in reader.seen \ (IF Collector THEN spoilt ELSE {})
      PROVE  \/ x \in R
             \/ reader.within /\ x.ts + Within < clock
             \/ /\ Cardinality(R) >= MinOf(Limit, CacheLimit)
                /\ \A y \in R : y.n > x.n
  <2>1. x \in bus /\ Whole(x)
    BY <1>4 DEF QueryInv, SeenInv, Whole
  <2>2. /\ x \in Item /\ x.ts \in Nat /\ clock \in Nat /\ list \in Seq(Item)
        /\ ItemsOf(list) \subseteq Item /\ \A y \in Item : y.ts \in Nat
    BY <2>1, SinkTypes
  <2>3. ReachedIn(x, list) /\ Sorted(list)
    BY <1>1, <2>1 DEF SinksInv, KeptInv, NumbersInv, InCache
  <2>4. reader.cutoff \in Nat /\ (~reader.within => reader.cutoff = 0)
    BY DEF IInv, TypeOK, QueryInv, SeenInv
  <2>5. CASE ~(x.ts >= reader.cutoff)
    <3>1. reader.within /\ reader.cutoff <= Minus(clock, Within)
      BY <2>2, <2>4, <2>5 DEF IInv, CutoffIsOld
    <3> QED BY <2>2, <2>4, <2>5, <3>1, ConstantsAssumption DEF Minus
  <2>6. CASE x.ts >= reader.cutoff /\ x \notin ItemsOf(f)
    <3>1. /\ f \in Seq(Item) /\ Sorted(f) /\ ItemsOf(f) \subseteq ItemsOf(list)
          /\ Len(f) >= MinOf(Limit, CacheLimit) /\ \A y \in ItemsOf(f) : y.n > x.n
      BY <2>2, <2>3, <2>6, BeyondPrefix
    <3>2. ASSUME NEW y \in ItemsOf(f) PROVE y.ts >= reader.cutoff
      <4>1. y \in ItemsOf(list) /\ y.ts \in Nat /\ y.n > x.n
        BY <2>2, <3>1
      <4>2. CASE reader.within
        <5>1. Collector
          BY <4>2 DEF QueryInv, SeenInv
        <5>2. y.ts >= x.ts
          BY <2>1, <4>1, <5>1 DEF SinksInv, StampsInv
        <5> QED BY <2>2, <2>4, <2>6, <4>1, <5>2
      <4>3. CASE ~reader.within
        BY <2>4, <4>1, <4>3
      <4> QED BY <4>2, <4>3
    <3>3. R = ItemsOf(f)
      BY <1>3, <3>2
    <3>4. Cardinality(R) = Len(f)
      BY <3>1, <3>3, SortedCardinality
    <3> QED BY <3>1, <3>3, <3>4
  <2> QED BY <1>3, <2>5, <2>6
<1>5. PublishedIsReadable'
  BY <1>1, <1>4 DEF PublishedIsReadable, Collector, Expired
<1> QED BY <1>2, <1>5 DEF QueryInv

\* Every step keeps the invariant of the queries.
LEMMA QueryStep == IInv /\ IInv' /\ SinksInv /\ QueryInv /\ [Next]_vars => QueryInv'
<1> SUFFICES ASSUME IInv, IInv', SinksInv, QueryInv, [Next]_vars PROVE QueryInv'
  OBVIOUS
<1>1. clock \in Nat
  BY DEF IInv, TypeOK
<1>2. CASE \/ Make \/ Store \/ StoreAlert \/ Push \/ Trim \/ WriteFails \/ Publish
           \/ Tick \/ Prune \/ UNCHANGED vars
  <2>1. UNCHANGED <<setup, reader>> /\ bus \subseteq bus' /\ spoilt \subseteq spoilt'
    BY <1>2 DEF Make, Store, StoreAlert, Push, Trim, WriteFails, Publish, Tick, Prune,
                vars, sinkVars
  <2>2. clock' \in {clock, clock + 1}
    BY <1>2 DEF Make, Store, StoreAlert, Push, Trim, WriteFails, Publish, Tick, Prune,
                vars, sinkVars
  <2>3. clock <= clock'
    BY <1>1, <2>2
  <2> QED BY <2>1, <2>3, QuietQuery
<1>3. CASE BeginRead
  <2>1. PICK w \in BOOLEAN :
          /\ w => Collector
          /\ reader' = [IdleReader EXCEPT !.at = IF HasDb THEN "db" ELSE "cache",
                                          !.within = w, !.seen = bus,
                                          !.cutoff = IF w THEN Minus(clock, Within) ELSE 0]
    BY <1>3 DEF BeginRead
  <2>2. /\ reader'.at = IF HasDb THEN "db" ELSE "cache"
        /\ reader'.within = w /\ reader'.seen = bus /\ reader'.from = "db"
        /\ reader'.rows = {} /\ ~reader'.failed
        /\ ~w => reader'.cutoff = 0
    BY <2>1 DEF IdleReader
  <2> QED BY <1>3, <2>1, <2>2 DEF BeginRead, sinkVars, QueryInv, SeenInv, PublishedIsReadable,
                                  Collector, HasDb
<1>4. CASE ReadDbFails
  <2>1. /\ reader'.at = "cache" /\ reader'.within = reader.within /\ reader'.seen = reader.seen
        /\ reader'.cutoff = reader.cutoff /\ reader'.failed /\ reader'.rows = reader.rows
        /\ reader'.from = reader.from
    BY <1>4 DEF ReadDbFails, IInv, TypeOK
  <2> QED BY <1>4, <2>1 DEF ReadDbFails, sinkVars, QueryInv, SeenInv, PublishedIsReadable,
                            Collector, HasDb
<1>5. CASE ReadCacheFails
  <2>1. /\ reader'.at = "done" /\ reader'.within = reader.within /\ reader'.seen = reader.seen
        /\ reader'.cutoff = reader.cutoff /\ ~reader'.ok /\ reader'.failed = reader.failed
    BY <1>5 DEF ReadCacheFails, IInv, TypeOK
  <2> QED BY <1>5, <2>1 DEF ReadCacheFails, sinkVars, QueryInv, SeenInv, PublishedIsReadable,
                            Collector, HasDb
<1>7. CASE NothingToRead
  <2>1. /\ UNCHANGED <<setup, clock, bus, spoilt>> /\ ~Cached /\ reader.at = "cache"
        /\ reader'.at = "done" /\ reader'.within = reader.within /\ reader'.seen = reader.seen
        /\ reader'.cutoff = reader.cutoff /\ (reader'.ok => ~reader.failed)
        /\ reader'.failed = reader.failed /\ reader'.rows = {} /\ reader'.from = "db"
    BY <1>7 DEF NothingToRead, sinkVars, IInv, TypeOK, QueryInv, SeenInv
  <2>2. Cardinality({}) = 0
    BY FS_EmptySet
  <2>3. SeenInv'
    BY <2>1 DEF QueryInv, SeenInv, Collector, HasDb
  <2>4. PublishedIsReadable'
    BY <2>1, <2>2, ConstantsAssumption
    DEF QueryInv, SeenInv, PublishedIsReadable, Collector, HasDb, Cached, Expired, MinOf
  <2> QED BY <2>3, <2>4 DEF QueryInv
<1>6. CASE Return \/ Restart
  BY <1>6 DEF Return, Restart, IdleReader, QueryInv, SeenInv, PublishedIsReadable
<1> QED BY <1>2, <1>3, <1>4, <1>5, <1>6, <1>7, ReadDbQuery, ReadCacheQuery DEF Next

\* Both invariants hold in every reachable state, for every setup and every limit.
THEOREM SinksInductive == Spec => [](SinksInv /\ QueryInv)
<1>1. Init => SinksInv /\ QueryInv
  BY SinksInit
<1>2. IInv /\ IInv' /\ (SinksInv /\ QueryInv) /\ [Next]_vars => (SinksInv /\ QueryInv)'
  BY SinksStep, QueryStep
<1> QED BY <1>1, <1>2, Inductive, PTL DEF Spec

\* Whoever has seen an event on the bus finds it in a later query, from the table or
\* from the cache, unless it is too old or Limit newer items fill the answer.
THEOREM WhatIsSeenIsFound == Spec => []PublishedIsReadable
<1>1. SinksInv /\ QueryInv => PublishedIsReadable
  BY DEF QueryInv
<1> QED BY <1>1, SinksInductive, PTL

-----------------------------------------------------------------------------
(* Sampling: what is remembered, what is read and what the kernel counts   *)

\* A counter that was at a is at b once m has gone through.
Counts(a, b, m) == b <= a + m.bytes /\ (~m.reset => b = a + m.bytes)

\* From the counter remembered to the one read, and from there to the kernel's.
CountersFit ==
  /\ \A n \in DOMAIN read : Counts(read[n].bytes, counters[n], moved[n])
  /\ \A n \in DOMAIN prev :
       IF n \in DOMAIN read THEN Counts(prev[n].bytes, read[n].bytes, read[n].moved)
                            ELSE Counts(prev[n].bytes, counters[n], moved[n])

\* A clock set back can only be behind, one set forward only ahead.
Times(at, p) ==
  /\ ~p.setBack => wall >= at + p.time
  /\ ~p.setForward => wall <= at + p.time
ClockFits == \A n \in DOMAIN prev : Times(prev[n].at, passed[n])

\* The counters read are those of the mounts left, or those of interfaces.
StagesInv ==
  /\ stage = "disks" => DOMAIN read = NamesOf(left)
  /\ stage = "nets" => DOMAIN read \subseteq Nics /\ left = << >>

\* A row that tells the truth.
TrueRow(row) ==
  /\ row.bytes <= row.moved.bytes
  /\ row.known /\ ~row.moved.reset => row.bytes = row.moved.bytes
  /\ row.ms >= 1
  /\ row.known /\ ~row.passed.setBack => row.ms >= AtLeastOne(row.passed.time)
  /\ row.known /\ ~row.passed.setForward => row.ms <= AtLeastOne(row.passed.time)
RowsInv == /\ \A total \in DOMAIN disks : TrueRow(disks[total])
           /\ \A n \in DOMAIN nets : TrueRow(nets[n])

\* The inductive invariant: in the middle of a pass too, what is remembered, what is
\* read and what is counted are as far apart as what went through, and the rows are true.
SamplingInv == SamplingTypeOK /\ StagesInv /\ CountersFit /\ ClockFits /\ RowsInv

\* The first of the mounts, and the others.
LEMMA MountsLeft ==
  ASSUME NEW l \in Seq(Mount)
  PROVE  /\ NamesOf(l) \subseteq Names
         /\ l # << >> => /\ Head(l) \in Mount /\ Tail(l) \in Seq(Mount)
                         /\ Head(l).name \in Names
                         /\ NamesOf(l) = {Head(l).name} \cup NamesOf(Tail(l))
<1>1. \A m \in Mount : m.name \in Names
  BY DEF Mount, Names
<1>2. \A i \in DOMAIN l : l[i] \in Mount
  BY ElementOfSeq
<1>3. CASE l # << >>
  <2>1. /\ Head(l) = l[1] /\ Tail(l) \in Seq(Mount) /\ Len(Tail(l)) = Len(l) - 1
        /\ Len(l) \in Nat /\ Len(l) >= 1
        /\ \A i \in 1..Len(l) - 1 : Tail(l)[i] = l[i + 1]
    BY <1>3
  <2>2. DOMAIN l = 1..Len(l) /\ DOMAIN Tail(l) = 1..Len(l) - 1
    BY <2>1
  <2>3. 1 \in DOMAIN l /\ \A i \in DOMAIN Tail(l) : i + 1 \in DOMAIN l
    BY <2>1, <2>2
  <2>4. \A i \in DOMAIN l : i = 1 \/ (i - 1 \in DOMAIN Tail(l) /\ Tail(l)[i - 1] = l[i])
    BY <2>1, <2>2
  <2>5. NamesOf(l) \subseteq {Head(l).name} \cup NamesOf(Tail(l))
    BY <2>1, <2>4 DEF NamesOf
  <2>6. {Head(l).name} \cup NamesOf(Tail(l)) \subseteq NamesOf(l)
    BY <2>1, <2>2, <2>3 DEF NamesOf
  <2> QED BY <1>1, <1>2, <2>1, <2>3, <2>5, <2>6 DEF NamesOf
<1> QED BY <1>1, <1>2, <1>3 DEF NamesOf

\* The types of what a name is measured by.
LEMMA NameTypes ==
  ASSUME SamplingTypeOK
  PROVE  /\ \A n \in Names : /\ counters[n] \in Nat
                             /\ moved[n] \in Moved /\ moved[n].bytes \in Nat
                             /\ passed[n] \in Passed /\ passed[n].time \in Nat
         /\ \A n \in DOMAIN read : /\ n \in Names /\ read[n] \in Reading
                                   /\ read[n].bytes \in Nat /\ read[n].moved \in Moved
                                   /\ read[n].moved.bytes \in Nat
         /\ \A n \in DOMAIN prev : /\ n \in Names /\ prev[n].bytes \in Nat
                                   /\ prev[n].at \in Nat
         /\ wall \in Nat /\ Nics \subseteq Names
         /\ Still \in Moved /\ NoTime \in Passed
BY DEF SamplingTypeOK, Moved, Passed, Reading, Mark, Still, NoTime, Names

\* Measured against what is remembered, a name gets a true row.
LEMMA MeasuredIsTrue ==
  ASSUME SamplingInv, NEW n \in DOMAIN read
  PROVE  Measured(n) \in Row /\ TrueRow(Measured(n))
<1> USE DEF SamplingInv
<1>1. /\ n \in Names /\ read[n].bytes \in Nat /\ read[n].moved \in Moved
      /\ read[n].moved.bytes \in Nat
      /\ passed[n] \in Passed /\ passed[n].time \in Nat /\ wall \in Nat
  BY NameTypes
<1> PICK r : r = Measured(n)
  OBVIOUS
<1>2. CASE n \in DOMAIN prev
  <2>1. prev[n].bytes \in Nat /\ prev[n].at \in Nat
    BY <1>2, NameTypes
  <2>2. /\ Counts(prev[n].bytes, read[n].bytes, read[n].moved)
        /\ Times(prev[n].at, passed[n])
    BY <1>2 DEF CountersFit, ClockFits
  <2>3. r = [name |-> n, known |-> TRUE, moved |-> read[n].moved, passed |-> passed[n],
             bytes |-> Difference(read[n].bytes, prev[n].bytes),
             ms |-> AtLeastOne(Difference(wall, prev[n].at))]
    BY <1>2 DEF Measured
  <2>4. /\ Difference(read[n].bytes, prev[n].bytes) \in Nat
        /\ Difference(read[n].bytes, prev[n].bytes) <= read[n].moved.bytes
        /\ ~read[n].moved.reset =>
             Difference(read[n].bytes, prev[n].bytes) = read[n].moved.bytes
    BY <1>1, <2>1, <2>2 DEF Counts, Difference
  <2>5. /\ AtLeastOne(Difference(wall, prev[n].at)) \in Nat
        /\ AtLeastOne(Difference(wall, prev[n].at)) >= 1
        /\ ~passed[n].setBack =>
             AtLeastOne(Difference(wall, prev[n].at)) >= AtLeastOne(passed[n].time)
        /\ ~passed[n].setForward =>
             AtLeastOne(Difference(wall, prev[n].at)) <= AtLeastOne(passed[n].time)
    BY <1>1, <2>1, <2>2 DEF Times, Difference, AtLeastOne
  <2> QED BY <1>1, <2>3, <2>4, <2>5 DEF Row, TrueRow
<1>3. CASE n \notin DOMAIN prev
  <2>1. (n \in DOMAIN prev) = FALSE
    BY <1>3
  <2>2. r = [name |-> n, known |-> FALSE, moved |-> read[n].moved, passed |-> passed[n],
             bytes |-> 0, ms |-> 1]
    BY <2>1 DEF Measured
  <2> QED BY <1>1, <2>2 DEF Row, TrueRow
<1> QED BY <1>2, <1>3

\* Remembering a name that has been read: it was seen just now, and with that counter.
LEMMA RememberKeeps ==
  ASSUME SamplingInv, NEW n \in DOMAIN read, Remember(n), wall' = wall
  PROVE  /\ DOMAIN prev' = DOMAIN prev \cup {n} /\ prev' \in [DOMAIN prev' -> Mark]
         /\ DOMAIN prev' \subseteq Names
         /\ prev'[n].bytes = read[n].bytes
         /\ \A x \in DOMAIN prev \ {n} : prev'[x] = prev[x]
         /\ passed' \in [Names -> Passed]
         /\ ClockFits'
<1> USE DEF SamplingInv
<1>1. /\ n \in Names /\ read[n].bytes \in Nat /\ wall \in Nat
      /\ NoTime \in Passed
  BY NameTypes
<1>2. /\ DOMAIN prev' = DOMAIN prev \cup {n}
      /\ prev'[n] = [bytes |-> read[n].bytes, at |-> wall]
      /\ \A x \in DOMAIN prev \ {n} : prev'[x] = prev[x]
      /\ prev' = [x \in DOMAIN prev' |-> prev'[x]]
  BY DEF Remember, Seen
<1>3. prev'[n] \in Mark
  BY <1>1, <1>2 DEF Mark
<1>4. prev' \in [DOMAIN prev' -> Mark] /\ DOMAIN prev' \subseteq Names
  BY <1>1, <1>2, <1>3 DEF SamplingTypeOK
<1>5. /\ passed' \in [Names -> Passed] /\ passed'[n] = NoTime
      /\ \A x \in Names \ {n} : passed'[x] = passed[x]
  BY <1>1 DEF Remember, SamplingTypeOK
<1>6. ASSUME NEW x \in DOMAIN prev' PROVE Times(prev[x].at, passed[x])'
  <2>1. CASE x = n
    BY <1>1, <1>2, <1>5, <2>1 DEF Times, NoTime
  <2>2. CASE x # n
    <3>1. x \in DOMAIN prev /\ prev'[x] = prev[x] /\ passed'[x] = passed[x]
      BY <1>2, <1>4, <1>5, <2>2
    <3> QED BY <3>1 DEF ClockFits, Times
  <2> QED BY <2>1, <2>2
<1> QED BY <1>2, <1>4, <1>5, <1>6 DEF ClockFits

\* Reading the counters of names of which none is being measured.
LEMMA ReadKeeps ==
  ASSUME SamplingInv, DOMAIN read = {}, NEW S \in SUBSET Names, Read(S),
         UNCHANGED <<counters, prev>>
  PROVE  /\ DOMAIN read' = S /\ read' \in [S -> Reading]
         /\ moved' \in [Names -> Moved]
         /\ CountersFit'
<1> USE DEF SamplingInv
<1>1. \A n \in Names : counters[n] \in Nat /\ moved[n] \in Moved /\ Still \in Moved
  BY NameTypes
<1>2. /\ DOMAIN read' = S
      /\ \A n \in S : /\ read'[n] = [bytes |-> counters[n], moved |-> moved[n]]
                      /\ read'[n] \in Reading /\ moved'[n] = Still
      /\ \A n \in Names \ S : moved'[n] = moved[n]
  BY <1>1 DEF Read, Reading
<1>3. moved' \in [Names -> Moved]
  BY <1>1 DEF Read
<1>4. read' \in [S -> Reading]
  BY <1>2 DEF Read
<1>5. \A n \in DOMAIN prev : n \in Names
  BY NameTypes
<1>6. CountersFit'
  BY <1>1, <1>2, <1>5 DEF CountersFit, Counts, Still
<1> QED BY <1>2, <1>3, <1>4, <1>6

-----------------------------------------------------------------------------
(* Sampling: the steps                                                     *)

\* Traffic and a counter that begins again: what has gone through is noted where the
\* counter was last read.
LEMMA CounterStep ==
  ASSUME SamplingInv, NEW n \in Names, Traffic(n) \/ CounterResets(n)
  PROVE  SamplingInv'
<1> USE DEF SamplingInv
<1>1. UNCHANGED <<wall, mounts, passed, samplerVars>>
  BY DEF Traffic, CounterResets
<1>2. /\ counters[n] \in Nat /\ moved[n] \in Moved /\ moved[n].bytes \in Nat
      /\ moved[n].reset \in BOOLEAN
  BY NameTypes DEF Moved
<1>3. PICK c \in Nat, m \in Moved :
        /\ counters' = [counters EXCEPT ![n] = c] /\ moved' = [moved EXCEPT ![n] = m]
        /\ m.bytes \in Nat
        /\ \A a \in Nat : Counts(a, counters[n], moved[n]) => Counts(a, c, m)
  <2>1. CASE Traffic(n)
    <3> PICK m : m = [moved[n] EXCEPT !.bytes = @ + 1]
      OBVIOUS
    <3>1. m.bytes = moved[n].bytes + 1 /\ m.reset = moved[n].reset /\ m \in Moved
      BY <1>2 DEF Moved
    <3>2. \A a \in Nat : Counts(a, counters[n], moved[n]) => Counts(a, counters[n] + 1, m)
      BY <1>2, <3>1 DEF Counts
    <3>3. counters[n] + 1 \in Nat /\ m.bytes \in Nat
      BY <1>2, <3>1
    <3> QED BY <2>1, <3>1, <3>2, <3>3 DEF Traffic
  <2>2. CASE CounterResets(n)
    <3> PICK m : m = [moved[n] EXCEPT !.reset = TRUE]
      OBVIOUS
    <3>1. m.bytes = moved[n].bytes /\ m.reset = TRUE /\ m \in Moved
      BY <1>2 DEF Moved
    <3>2. \A a \in Nat : Counts(a, counters[n], moved[n]) => Counts(a, 0, m)
      BY <1>2, <3>1 DEF Counts
    <3> QED BY <1>2, <2>2, <3>1, <3>2 DEF CounterResets
  <2> QED BY <2>1, <2>2
<1>4. SamplingTypeOK'
  BY <1>1, <1>3 DEF SamplingTypeOK, samplerVars
<1>5. CountersFit'
  <2>1. \A x \in Names : IF x = n THEN counters'[x] = c /\ moved'[x] = m
                                  ELSE counters'[x] = counters[x] /\ moved'[x] = moved[x]
    BY <1>3 DEF SamplingTypeOK
  <2>2. \A x \in Names, a \in Nat :
          Counts(a, counters[x], moved[x]) => Counts(a, counters'[x], moved'[x])
    BY <1>3, <2>1
  <2> QED BY <1>1, <2>2, NameTypes DEF CountersFit, Counts, samplerVars
<1>6. StagesInv' /\ ClockFits' /\ RowsInv'
  BY <1>1 DEF StagesInv, NamesOf, ClockFits, Times, RowsInv, TrueRow, samplerVars
<1> QED BY <1>4, <1>5, <1>6

\* Time passes, or the clock is set.
LEMMA ClockStep ==
  ASSUME SamplingInv, TimePasses \/ \E w \in 0..MaxWall : ClockSetTo(w)
  PROVE  SamplingInv'
<1> USE DEF SamplingInv
<1>1. UNCHANGED <<counters, mounts, moved, samplerVars>>
  BY DEF TimePasses, ClockSetTo
<1>2. /\ wall \in Nat
      /\ \A x \in Names : /\ passed[x] \in Passed /\ passed[x].time \in Nat
                          /\ passed[x].setBack \in BOOLEAN /\ passed[x].setForward \in BOOLEAN
  BY NameTypes DEF Passed
<1>3. \A x \in DOMAIN prev : x \in Names /\ prev[x].at \in Nat
  BY NameTypes
<1>4. /\ wall' \in Nat /\ passed' \in [Names -> Passed]
      /\ \A x \in Names, a \in Nat : Times(a, passed[x]) => Times(a, passed[x])'
  <2>1. CASE TimePasses
    <3>1. \A x \in Names :
            /\ passed'[x] \in Passed /\ passed'[x].time = passed[x].time + 1
            /\ passed'[x].setBack = passed[x].setBack
            /\ passed'[x].setForward = passed[x].setForward
      BY <1>2, <2>1 DEF TimePasses, Passed
    <3>2. passed' = [x \in Names |-> passed'[x]] /\ wall' = wall + 1
      BY <2>1 DEF TimePasses
    <3> QED BY <1>2, <3>1, <3>2 DEF Times
  <2>2. ASSUME NEW w \in 0..MaxWall, ClockSetTo(w)
        PROVE  /\ wall' \in Nat /\ passed' \in [Names -> Passed]
               /\ \A x \in Names, a \in Nat : Times(a, passed[x]) => Times(a, passed[x])'
    <3>1. \A x \in Names :
            /\ passed'[x] \in Passed /\ passed'[x].time = passed[x].time
            /\ ~passed'[x].setBack => ~passed[x].setBack /\ ~(w < wall)
            /\ ~passed'[x].setForward => ~passed[x].setForward /\ ~(w > wall)
      BY <1>2, <2>2 DEF ClockSetTo, Passed
    <3>2. passed' = [x \in Names |-> passed'[x]]
      BY <2>2, Zenon DEF ClockSetTo
    <3>a. wall' = w
      BY <2>2, Zenon DEF ClockSetTo
    <3>b. w \in Nat
      BY SamplingAssumption
    <3>3. wall' = w /\ w \in Nat
      BY <3>a, <3>b
    <3>4. passed' \in [Names -> Passed]
      BY <3>1, <3>2
    <3> QED BY <1>2, <3>1, <3>3, <3>4 DEF Times
  <2> QED BY <2>1, <2>2
<1>5. SamplingTypeOK'
  BY <1>1, <1>4 DEF SamplingTypeOK, samplerVars
<1>6. ClockFits'
  BY <1>1, <1>3, <1>4 DEF ClockFits, samplerVars
<1>7. StagesInv' /\ CountersFit' /\ RowsInv'
  BY <1>1 DEF StagesInv, NamesOf, CountersFit, RowsInv, TrueRow, samplerVars
<1> QED BY <1>5, <1>6, <1>7

\* The counters of all mounts are read, or those of all interfaces.
LEMMA ReadStep ==
  ASSUME SamplingInv, ReadDisks \/ ReadNets
  PROVE  SamplingInv'
<1> USE DEF SamplingInv
<1>1. UNCHANGED <<counters, wall, mounts, prev, passed>>
  BY DEF ReadDisks, ReadNets
<1>2. mounts \in Seq(Mount) /\ NamesOf(mounts) \in SUBSET Names /\ Nics \in SUBSET Names
  BY MountsLeft, NameTypes DEF SamplingTypeOK
<1>3. DOMAIN << >> = {}
  OBVIOUS
<1>4. CASE ReadDisks
  <2>1. /\ DOMAIN read' = NamesOf(mounts) /\ read' \in [NamesOf(mounts) -> Reading]
        /\ moved' \in [Names -> Moved] /\ CountersFit'
    BY <1>1, <1>2, <1>4, ReadKeeps DEF ReadDisks
  <2>2. /\ stage' = "disks" /\ left' = mounts /\ disks' = << >> /\ nets' = nets
    BY <1>4 DEF ReadDisks
  <2>3. disks' \in [DOMAIN disks' -> Row] /\ DOMAIN disks' = {}
    BY <1>3, <2>2
  <2>4. SamplingTypeOK'
    BY <1>1, <1>2, <2>1, <2>2, <2>3 DEF SamplingTypeOK
  <2>5. StagesInv' /\ ClockFits' /\ RowsInv'
    BY <1>1, <2>1, <2>2, <2>3 DEF StagesInv, ClockFits, Times, RowsInv, TrueRow
  <2> QED BY <2>1, <2>4, <2>5
<1>5. CASE ReadNets
  <2>1. NamesOf(left) = {}
    BY <1>3, <1>5 DEF ReadNets, NamesOf
  <2>2. DOMAIN read = {}
    BY <1>5, <2>1 DEF ReadNets, StagesInv
  <2>3. /\ DOMAIN read' = Nics /\ read' \in [Nics -> Reading]
        /\ moved' \in [Names -> Moved] /\ CountersFit'
    BY <1>1, <1>2, <1>5, <2>2, ReadKeeps DEF ReadNets
  <2>4. stage' = "nets" /\ left' = left /\ left = << >> /\ nets' = << >> /\ disks' = disks
    BY <1>5 DEF ReadNets
  <2>5. nets' \in [DOMAIN nets' -> Row] /\ DOMAIN nets' = {}
    BY <1>3, <2>4
  <2>6. SamplingTypeOK'
    BY <1>1, <1>2, <2>3, <2>4, <2>5 DEF SamplingTypeOK
  <2>7. StagesInv' /\ ClockFits' /\ RowsInv'
    BY <1>1, <2>3, <2>4, <2>5 DEF StagesInv, ClockFits, Times, RowsInv, TrueRow
  <2> QED BY <2>3, <2>6, <2>7
<1> QED BY <1>4, <1>5

\* Merged with true rows, a true row leaves true rows.
LEMMA MergedIsTrue ==
  ASSUME SamplingInv, NEW c \in Mount, NEW row \in Row, TrueRow(row)
  PROVE  /\ DOMAIN Merged(c, row) \subseteq Nat
         /\ Merged(c, row) \in [DOMAIN Merged(c, row) -> Row]
         /\ \A total \in DOMAIN Merged(c, row) : TrueRow(Merged(c, row)[total])
<1> PICK rows : rows = Merged(c, row)
  OBVIOUS
<1>1. /\ c.total \in Nat /\ c.name \in Names
      /\ DOMAIN disks \subseteq Nat /\ disks \in [DOMAIN disks -> Row]
      /\ \A total \in DOMAIN disks : TrueRow(disks[total])
  BY DEF Mount, Names, SamplingInv, SamplingTypeOK, RowsInv
<1>2. ASSUME NEW r \in Row, TrueRow(r)
      PROVE  [r EXCEPT !.name = c.name] \in Row /\ TrueRow([r EXCEPT !.name = c.name])
  <2> PICK q : q = [r EXCEPT !.name = c.name]
    OBVIOUS
  <2>1. /\ q \in Row /\ q.known = r.known /\ q.moved = r.moved /\ q.passed = r.passed
        /\ q.bytes = r.bytes /\ q.ms = r.ms
    BY <1>1 DEF Row
  <2> QED BY <1>2, <2>1 DEF TrueRow
<1>3. CASE c.total = 0
  BY <1>1, <1>3 DEF Merged
<1>4. CASE c.total # 0
  <2>1. /\ DOMAIN rows = DOMAIN disks \cup {c.total}
        /\ \A total \in DOMAIN rows :
             \/ rows[total] = row
             \/ total \in DOMAIN disks /\ rows[total] = disks[total]
             \/ total \in DOMAIN disks /\ rows[total] = [disks[total] EXCEPT !.name = c.name]
        /\ rows = [total \in DOMAIN rows |-> rows[total]]
    BY <1>4 DEF Merged
  <2>2. ASSUME NEW total \in DOMAIN rows PROVE rows[total] \in Row /\ TrueRow(rows[total])
    <3>1. total \in DOMAIN disks => disks[total] \in Row /\ TrueRow(disks[total])
      BY <1>1
    <3>2. CASE rows[total] = row
      BY <3>2
    <3>3. CASE total \in DOMAIN disks /\ rows[total] = disks[total]
      BY <3>1, <3>3
    <3>4. CASE total \in DOMAIN disks /\ rows[total] = [disks[total] EXCEPT !.name = c.name]
      BY <1>2, <3>1, <3>4, Zenon
    <3> QED BY <2>1, <3>2, <3>3, <3>4, Zenon
  <2> QED BY <1>1, <2>1, <2>2
<1> QED BY <1>3, <1>4

\* One mount, or one interface, is measured: what it was measured by is used up.
LEMMA MeasureStep ==
  ASSUME SamplingInv, MeasureDisk \/ \E n \in Nics : MeasureNet(n)
  PROVE  SamplingInv'
<1> USE DEF SamplingInv
<1>1. UNCHANGED <<counters, wall, mounts, stage, moved>>
  BY DEF MeasureDisk, MeasureNet
<1>2. ASSUME NEW n \in DOMAIN read, Remember(n), DOMAIN read' \subseteq DOMAIN read,
             DOMAIN read \ {n} \subseteq DOMAIN read',
             \A x \in DOMAIN read' :
               IF x = n THEN read'[x].bytes = read[x].bytes /\ read'[x].moved = Still
                        ELSE read'[x] = read[x]
      PROVE  CountersFit'
  <2>1. /\ DOMAIN prev' = DOMAIN prev \cup {n} /\ prev'[n].bytes = read[n].bytes
        /\ \A x \in DOMAIN prev \ {n} : prev'[x] = prev[x]
    BY <1>1, <1>2, RememberKeeps
  <2>2. \A x \in DOMAIN read' : Counts(read[x].bytes, counters[x], moved[x])
    BY <1>2 DEF CountersFit
  <2>3. \A x \in DOMAIN read' : read'[x].bytes = read[x].bytes
    BY <1>2
  <2>4. \A x \in DOMAIN read' : Counts(read'[x].bytes, counters'[x], moved'[x])
    BY <1>1, <2>2, <2>3
  <2>5. ASSUME NEW x \in DOMAIN prev'
        PROVE  IF x \in DOMAIN read' THEN Counts(prev'[x].bytes, read'[x].bytes, read'[x].moved)
                                     ELSE Counts(prev'[x].bytes, counters'[x], moved'[x])
    <3>1. CASE x = n /\ x \in DOMAIN read'
      <4>1. read[n].bytes \in Nat /\ read'[x].bytes = read[n].bytes /\ read'[x].moved = Still
        BY <1>2, <3>1, NameTypes
      <4> QED BY <2>1, <3>1, <4>1 DEF Counts, Still
    <3>2. CASE x = n /\ x \notin DOMAIN read'
      BY <1>1, <1>2, <2>1, <3>2 DEF CountersFit
    <3>3. CASE x # n /\ x \in DOMAIN read'
      <4>1. x \in DOMAIN prev /\ x \in DOMAIN read /\ prev'[x] = prev[x] /\ read'[x] = read[x]
        BY <1>2, <2>1, <3>3
      <4> QED BY <3>3, <4>1 DEF CountersFit
    <3>4. CASE x # n /\ x \notin DOMAIN read' /\ x \notin DOMAIN read
      BY <1>1, <2>1, <3>4 DEF CountersFit
    <3> QED BY <1>2, <3>1, <3>2, <3>3, <3>4
  <2> QED BY <2>4, <2>5 DEF CountersFit, Counts
<1>3. CASE MeasureDisk
  <2> PICK m : m = Head(left)
    OBVIOUS
  <2>1. /\ stage = "disks" /\ left # << >> /\ DOMAIN read = NamesOf(left)
    BY <1>3 DEF MeasureDisk, StagesInv, SamplingTypeOK
  <2>2. /\ m \in Mount /\ Tail(left) \in Seq(Mount)
        /\ DOMAIN read = {m.name} \cup NamesOf(Tail(left))
    BY <2>1, MountsLeft DEF SamplingTypeOK
  <2>3. /\ left' = Tail(left) /\ disks' = Merged(m, Measured(m.name)) /\ nets' = nets
        /\ Remember(m.name) /\ m.name \in DOMAIN read
        /\ read' = [n \in NamesOf(Tail(left)) |->
                      IF n = m.name THEN [read[n] EXCEPT !.moved = Still] ELSE read[n]]
    BY <1>3, <2>2 DEF MeasureDisk
  <2>4. /\ DOMAIN read' = NamesOf(Tail(left)) /\ DOMAIN read' \subseteq DOMAIN read
        /\ DOMAIN read \ {m.name} \subseteq DOMAIN read'
    BY <2>2, <2>3
  <2>5. \A x \in DOMAIN read' :
          /\ read'[x] \in Reading
          /\ IF x = m.name THEN read'[x].bytes = read[x].bytes /\ read'[x].moved = Still
                           ELSE read'[x] = read[x]
    BY <2>3, <2>4, NameTypes DEF Reading
  <2>6. read' \in [DOMAIN read' -> Reading]
    BY <2>3, <2>4, <2>5
  <2>7. CountersFit'
    BY <1>2, <2>3, <2>4, <2>5
  <2>8. /\ DOMAIN disks' \subseteq Nat /\ disks' \in [DOMAIN disks' -> Row]
        /\ \A total \in DOMAIN disks' : TrueRow(disks'[total])
    BY <2>2, <2>3, MeasuredIsTrue, MergedIsTrue
  <2>9. /\ prev' \in [DOMAIN prev' -> Mark] /\ DOMAIN prev' \subseteq Names
        /\ passed' \in [Names -> Passed] /\ ClockFits'
    BY <1>1, <2>3, RememberKeeps
  <2>10. DOMAIN read' \subseteq Names
    BY <2>4, NameTypes
  <2>11. SamplingTypeOK'
    BY <1>1, <2>2, <2>3, <2>6, <2>8, <2>9, <2>10 DEF SamplingTypeOK
  <2>12. StagesInv' /\ RowsInv'
    BY <1>1, <2>1, <2>3, <2>4, <2>8 DEF StagesInv, NamesOf, RowsInv, TrueRow
  <2> QED BY <2>7, <2>9, <2>11, <2>12
<1>4. ASSUME NEW n \in Nics, MeasureNet(n) PROVE SamplingInv'
  <2>1. /\ n \in DOMAIN read /\ Remember(n) /\ stage = "nets" /\ left' = left /\ disks' = disks
        /\ nets' = [x \in DOMAIN nets \cup {n} |-> IF x = n THEN Measured(n) ELSE nets[x]]
        /\ read' = [x \in DOMAIN read \ {n} |-> read[x]]
    BY <1>4 DEF MeasureNet
  <2>2. Measured(n) \in Row /\ TrueRow(Measured(n))
    BY <2>1, MeasuredIsTrue
  <2>3. /\ DOMAIN nets' \subseteq Nics /\ nets' \in [DOMAIN nets' -> Row]
        /\ \A x \in DOMAIN nets' : TrueRow(nets'[x])
    BY <2>1, <2>2 DEF SamplingTypeOK, RowsInv
  <2>4. /\ DOMAIN read' = DOMAIN read \ {n} /\ \A x \in DOMAIN read' : read'[x] = read[x]
        /\ read' \in [DOMAIN read' -> Reading]
    BY <2>1 DEF SamplingTypeOK
  <2>5. CountersFit'
    BY <1>2, <2>1, <2>4
  <2>6. /\ prev' \in [DOMAIN prev' -> Mark] /\ DOMAIN prev' \subseteq Names
        /\ passed' \in [Names -> Passed] /\ ClockFits'
    BY <1>1, <2>1, RememberKeeps
  <2>7. SamplingTypeOK'
    BY <1>1, <2>1, <2>3, <2>4, <2>6 DEF SamplingTypeOK
  <2>8. StagesInv' /\ RowsInv'
    BY <1>1, <2>1, <2>3, <2>4 DEF StagesInv, RowsInv, TrueRow
  <2> QED BY <2>5, <2>6, <2>7, <2>8
<1> QED BY <1>3, <1>4

\* What Sampling.tla holds in every state, in the middle of a pass too: types, what is
\* remembered and read fits what went through, and the rows are true.
THEOREM SamplingInductive == SamplingSpec => []SamplingInv
<1>1. SamplingInit => SamplingInv
  <2> SUFFICES ASSUME SamplingInit PROVE SamplingInv
    OBVIOUS
  <2>1. /\ DOMAIN read = {} /\ DOMAIN prev = {} /\ DOMAIN disks = {} /\ DOMAIN nets = {}
        /\ stage = "nets" /\ left = << >>
    BY DEF SamplingInit
  <2>2. /\ read \in [{} -> Reading] /\ prev \in [{} -> Mark] /\ disks \in [{} -> Row]
        /\ nets \in [{} -> Row]
    BY DEF SamplingInit
  <2>3. mounts \in Seq(Mount) /\ left \in Seq(Mount)
    <3>1. MountTables \subseteq Seq(Mount)
      BY SamplingAssumption, Zenon DEF Mount
    <3> QED BY <2>1, <3>1, EmptySeq DEF SamplingInit
  <2>4. /\ counters \in [Names -> Nat] /\ wall \in Nat
        /\ moved \in [Names -> Moved] /\ passed \in [Names -> Passed]
    BY DEF SamplingInit, Moved, Still, Passed, NoTime
  <2>5. SamplingTypeOK
    BY <2>1, <2>2, <2>3, <2>4 DEF SamplingTypeOK
  <2> QED BY <2>1, <2>5
      DEF SamplingInv, StagesInv, CountersFit, ClockFits, RowsInv
<1>2. SamplingInv /\ [SamplingNext]_samplingVars => SamplingInv'
  <2> SUFFICES ASSUME SamplingInv, [SamplingNext]_samplingVars PROVE SamplingInv'
    OBVIOUS
  <2>1. CASE Remount
    <3>1. UNCHANGED <<counters, wall, moved, passed, samplerVars>> /\ mounts' \in MountTables
      BY <2>1 DEF Remount
    <3>2. mounts' \in Seq(Mount)
      BY <3>1, SamplingAssumption DEF Mount
    <3> QED BY <3>1, <3>2 DEF SamplingInv, SamplingTypeOK, StagesInv, NamesOf, CountersFit, Counts,
                              ClockFits, Times, RowsInv, TrueRow, samplerVars
  <2>2. CASE UNCHANGED samplingVars
    BY <2>2 DEF SamplingInv, SamplingTypeOK, StagesInv, NamesOf, CountersFit, Counts,
                ClockFits, Times, RowsInv, TrueRow, samplingVars, machineVars, samplerVars
  <2> QED BY <2>1, <2>2, CounterStep, ClockStep, ReadStep, MeasureStep DEF SamplingNext
<1> QED BY <1>1, <1>2, PTL DEF SamplingSpec

\* Whatever is mounted how often, and whatever happens between the reading of a counter
\* and its measuring: no byte is measured twice or never, and the time of a rate is that
\* between the two readings of the clock, as far as the clock has not been set.
THEOREM RatesAreNeverFalse == SamplingSpec => []RatesAreTrue
<1>1. SamplingInv => RatesAreTrue
  BY DEF SamplingInv, RowsInv, RatesAreTrue, TrueRow
<1> QED BY <1>1, SamplingInductive, PTL

-----------------------------------------------------------------------------
(* Induction                                                               *)

\* Induction over the natural numbers, with a set in the place of a formula: were n
\* not in P, adding one would map the members of P below n into themselves without 0.
LEMMA SetInduction ==
  ASSUME NEW P, 0 \in P, \A n \in Nat : n \in P => n + 1 \in P
  PROVE  Nat \subseteq P
<1> SUFFICES ASSUME NEW n \in Nat, n \notin P PROVE FALSE
  OBVIOUS
<1> PICK Q : Q = P \cap 0..n
  OBVIOUS
<1>1. IsFiniteSet(Q)
  <2>1. 0 \in Int /\ n \in Int
    OBVIOUS
  <2>2. IsFiniteSet(0..n)
    BY <2>1, FS_Interval
  <2> QED BY <2>2, FS_Intersection
<1>2. 0 \in Q /\ Q \subseteq Int
  OBVIOUS
<1>3. /\ IsFiniteSet(Q \ {0}) /\ Cardinality(Q \ {0}) = Cardinality(Q) - 1
      /\ Cardinality(Q) \in Nat
  BY <1>1, <1>2, FS_RemoveElement, FS_CardinalityType
<1> PICK f : f = [x \in Q |-> x + 1]
  OBVIOUS
<1>4. f \in [Q -> Q \ {0}]
  OBVIOUS
<1>5. Cardinality(Q \ {0}) < Cardinality(Q)
  BY <1>3
<1>6. PICK x \in Q, y \in Q : x # y /\ f[x] = f[y]
  BY <1>1, <1>3, <1>4, <1>5, FS_PigeonHole
<1> QED BY <1>2, <1>6

-----------------------------------------------------------------------------
(* LogPages: the hits of a list of logs                                    *)

\* The hits among the first k logs, for every k.
Grown(h, l) == IF l.hit THEN Append(h, l) ELSE h
IsHits(f, logs) ==
  /\ f \in [0..Len(logs) -> Seq(Log)]
  /\ f[0] = << >>
  /\ \A k \in 1..Len(logs) : f[k] = Grown(f[k - 1], logs[k])

\* There is such a function, and its last value is Hits.
LEMMA HitsAre ==
  ASSUME NEW logs \in Seq(Log)
  PROVE  \E f : IsHits(f, logs) /\ Hits(logs) = f[Len(logs)]
<1> DEFINE Equation(f) ==
      f = [k \in 0..Len(logs) |->
             IF k = 0 THEN << >>
             ELSE IF logs[k].hit THEN Append(f[k - 1], logs[k]) ELSE f[k - 1]]
<1> PICK n : n = Len(logs)
  OBVIOUS
<1>1. n \in Nat
  OBVIOUS
<1>a. \A k \in 1..n : logs[k] \in Log
  OBVIOUS
<1> PICK P : P = {k \in Nat : k <= n => \E f \in [0..k -> Seq(Log)] :
                     f[0] = << >> /\ \A i \in 1..k : f[i] = Grown(f[i - 1], logs[i])}
  OBVIOUS
<1>0. \A k \in Nat : k \in P <=> (k <= n => \E f \in [0..k -> Seq(Log)] :
                     f[0] = << >> /\ \A i \in 1..k : f[i] = Grown(f[i - 1], logs[i]))
  BY Zenon
<1>2. 0 \in P
  <2> PICK f : f = [i \in 0..0 |-> << >>]
    OBVIOUS
  <2>1. f \in [0..0 -> Seq(Log)] /\ f[0] = << >>
    OBVIOUS
  <2>2. \A i \in 1..0 : FALSE
    OBVIOUS
  <2> QED BY <1>0, <2>1, <2>2
<1>3. ASSUME NEW k \in Nat, k \in P PROVE k + 1 \in P
  <2>a. k + 1 \in Nat /\ (k + 1 <= n => k <= n)
    OBVIOUS
  <2> SUFFICES ASSUME k + 1 <= n
               PROVE  \E f \in [0..k + 1 -> Seq(Log)] :
                        f[0] = << >> /\ \A i \in 1..k + 1 : f[i] = Grown(f[i - 1], logs[i])
    BY <1>0, <2>a, Zenon
  <2>1. PICK g \in [0..k -> Seq(Log)] :
               g[0] = << >> /\ \A i \in 1..k : g[i] = Grown(g[i - 1], logs[i])
    BY <1>0, <1>3, <2>a, Zenon
  <2>2. Grown(g[k], logs[k + 1]) \in Seq(Log)
    BY <1>a DEF Grown
  <2> PICK f : f = [i \in 0..k + 1 |-> IF i = k + 1 THEN Grown(g[k], logs[k + 1]) ELSE g[i]]
    OBVIOUS
  <2>3. f \in [0..k + 1 -> Seq(Log)]
    BY <2>2
  <2>4. f[0] = << >> /\ f[k + 1] = Grown(f[k], logs[k + 1])
    BY <2>1
  <2>5. \A i \in 1..k : f[i] = g[i] /\ f[i - 1] = g[i - 1]
    OBVIOUS
  <2>6. \A i \in 1..k + 1 : i \in 1..k \/ i = k + 1
    OBVIOUS
  <2>7. ASSUME NEW i \in 1..k + 1 PROVE f[i] = Grown(f[i - 1], logs[i])
    <3>1. CASE i \in 1..k
      BY <2>1, <2>5, <3>1
    <3>2. CASE i = k + 1
      <4>1. i - 1 = k
        BY <3>2
      <4> QED BY <2>4, <3>2, <4>1
    <3> QED BY <2>6, <3>1, <3>2
  <2> QED BY <2>3, <2>4, <2>7
<1>b. Nat \subseteq P /\ n <= n
  <2>1. Nat \subseteq P
    BY <1>2, <1>3, SetInduction
  <2>2. n <= n
    BY <1>1
  <2> QED BY <2>1, <2>2, Zenon
<1>4. n \in P /\ n <= n
  BY <1>1, <1>b, Zenon
<1>5. PICK f \in [0..n -> Seq(Log)] :
             f[0] = << >> /\ \A i \in 1..n : f[i] = Grown(f[i - 1], logs[i])
  BY <1>0, <1>1, <1>4, Zenon
<1>6. Equation(f)
  <2>1. \A k \in 0..n : f[k] = IF k = 0 THEN << >>
                             ELSE IF logs[k].hit THEN Append(f[k - 1], logs[k]) ELSE f[k - 1]
    <3> SUFFICES ASSUME NEW k \in 0..n, k # 0 PROVE f[k] = Grown(f[k - 1], logs[k])
      BY <1>5 DEF Grown
    <3>1. k \in 1..n
      OBVIOUS
    <3> QED BY <1>5, <3>1
  <2> QED BY <1>5, <2>1
<1>7. ASSUME NEW g, Equation(g) PROVE g = f
  <2> PICK Q : Q = {k \in Nat : k <= n => g[k] = f[k]}
    OBVIOUS
  <2>1. 0 \in Q
    BY <1>7, <1>5
  <2>2. ASSUME NEW k \in Nat, k \in Q PROVE k + 1 \in Q
    <3>1. CASE k + 1 <= n
      <4>1. k + 1 \in 0..n /\ k + 1 \in 1..n /\ k + 1 # 0 /\ (k + 1) - 1 = k /\ g[k] = f[k]
        BY <2>2, <3>1
      <4>2. g[k + 1] = Grown(g[k], logs[k + 1])
        BY <1>7, <4>1 DEF Grown
      <4>3. f[k + 1] = Grown(f[k], logs[k + 1])
        BY <1>5, <4>1
      <4> QED BY <4>1, <4>2, <4>3
    <3>2. CASE ~(k + 1 <= n)
      BY <3>2
    <3> QED BY <3>1, <3>2
  <2>3. Nat \subseteq Q
    BY <2>1, <2>2, SetInduction
  <2>4. \A k \in 0..n : g[k] = f[k]
    BY <2>3
  <2> QED BY <1>5, <1>7, <2>4
<1>8. Hits(logs) = (CHOOSE g : Equation(g))[Len(logs)]
  BY DEF Hits
<1>9. (CHOOSE g : Equation(g)) = f
  BY <1>6, <1>7
<1> QED BY <1>5, <1>8, <1>9 DEF IsHits

\* The hits among the first k logs are the hits of the first k logs.
LEMMA HitsOfFirst ==
  ASSUME NEW logs \in Seq(Log), NEW m \in 0..Len(logs), NEW f, IsHits(f, logs)
  PROVE  Hits(SubSeq(logs, 1, m)) = f[m]
<1> PICK n : n = Len(logs)
  OBVIOUS
<1> PICK firsts : firsts = SubSeq(logs, 1, m)
  OBVIOUS
<1>1. /\ n \in Nat /\ m \in Nat /\ m <= n
      /\ firsts \in Seq(Log) /\ Len(firsts) = m /\ \A k \in 1..m : firsts[k] = logs[k]
  OBVIOUS
<1>2. PICK g : IsHits(g, firsts) /\ Hits(firsts) = g[Len(firsts)]
  BY <1>1, HitsAre
<1> PICK Q : Q = {k \in Nat : k <= m => g[k] = f[k]}
  OBVIOUS
<1>3. 0 \in Q
  BY <1>2 DEF IsHits
<1>4. ASSUME NEW k \in Nat, k \in Q PROVE k + 1 \in Q
  <2>1. CASE k + 1 <= m
    <3>1. k + 1 \in 1..m /\ k + 1 \in 1..n /\ (k + 1) - 1 = k /\ g[k] = f[k]
      BY <1>1, <1>4, <2>1
    <3>2. g[k + 1] = Grown(g[k], logs[k + 1])
      BY <1>1, <1>2, <3>1 DEF IsHits
    <3>3. f[k + 1] = Grown(f[k], logs[k + 1])
      BY <3>1 DEF IsHits
    <3> QED BY <3>1, <3>2, <3>3
  <2>2. CASE ~(k + 1 <= m)
    BY <2>2
  <2> QED BY <2>1, <2>2
<1>5. Nat \subseteq Q
  BY <1>3, <1>4, SetInduction
<1>6. g[m] = f[m]
  BY <1>1, <1>5
<1> QED BY <1>1, <1>2, <1>6

\* A log more at the end.
LEMMA AppendIs ==
  ASSUME NEW h \in Seq(Log), NEW l
  PROVE  /\ Len(h) \in Nat /\ Len(Append(h, l)) = Len(h) + 1 /\ Append(h, l)[Len(h) + 1] = l
         /\ \A j \in 1..Len(h) : Append(h, l)[j] = h[j]
OBVIOUS

\* The first hits stay the first hits when there are more logs.
IsPrefixOf(h, g) == Len(h) <= Len(g) /\ \A j \in 1..Len(h) : h[j] = g[j]

LEMMA HitsOfPrefix ==
  ASSUME NEW logs \in Seq(Log), NEW m \in 0..Len(logs)
  PROVE  /\ IsPrefixOf(Hits(SubSeq(logs, 1, m)), Hits(logs))
         /\ Hits(logs) \in Seq(Log) /\ Hits(SubSeq(logs, 1, m)) \in Seq(Log)
<1> PICK n : n = Len(logs)
  OBVIOUS
<1>1. n \in Nat /\ m \in Nat /\ m <= n
  OBVIOUS
<1>2. PICK f : IsHits(f, logs) /\ Hits(logs) = f[n]
  BY HitsAre
<1>3. Hits(SubSeq(logs, 1, m)) = f[m]
  BY <1>2, HitsOfFirst
<1>4. \A k \in 0..n : f[k] \in Seq(Log)
  BY <1>2 DEF IsHits
<1> PICK Q : Q = {k \in Nat : m + k <= n => IsPrefixOf(f[m], f[m + k])}
  OBVIOUS
<1>5. 0 \in Q
  BY <1>1, <1>4 DEF IsPrefixOf
<1>6. ASSUME NEW k \in Nat, k \in Q PROVE k + 1 \in Q
  <2> SUFFICES ASSUME m + (k + 1) <= n PROVE IsPrefixOf(f[m], f[m + (k + 1)])
    OBVIOUS
  <2> PICK i : i = m + k
    OBVIOUS
  <2>1. /\ i \in 0..n /\ i + 1 \in 1..n /\ m + (k + 1) = i + 1 /\ (i + 1) - 1 = i /\ m \in 0..n
        /\ m + k <= n
    BY <1>1
  <2>2. IsPrefixOf(f[m], f[i])
    BY <1>6, <2>1
  <2>3. f[i + 1] = Grown(f[i], logs[i + 1])
    BY <1>2, <2>1 DEF IsHits
  <2>4. f[i] \in Seq(Log) /\ f[m] \in Seq(Log) /\ logs[i + 1] \in Log
    BY <1>4, <2>1
  <2>5. IsPrefixOf(f[m], f[i + 1])
    <3>1. CASE logs[i + 1].hit
      <4>1. f[i + 1] = Append(f[i], logs[i + 1])
        BY <2>3, <3>1 DEF Grown
      <4>2. /\ Len(f[i]) \in Nat /\ Len(f[i + 1]) = Len(f[i]) + 1 /\ Len(f[m]) \in Nat
            /\ \A j \in 1..Len(f[i]) : f[i + 1][j] = f[i][j]
        BY <2>4, <4>1, AppendIs
      <4> QED BY <2>2, <4>2 DEF IsPrefixOf
    <3>2. CASE ~logs[i + 1].hit
      BY <2>2, <2>3, <3>2 DEF Grown
    <3> QED BY <3>1, <3>2
  <2> QED BY <2>1, <2>5
<1> PICK k : k = n - m
  OBVIOUS
<1>7. k \in Nat /\ m + k = n /\ m + k <= n
  BY <1>1
<1>8. Nat \subseteq Q
  BY <1>5, <1>6, SetInduction
<1>9. IsPrefixOf(f[m], f[n])
  BY <1>7, <1>8, Zenon
<1> QED BY <1>1, <1>2, <1>3, <1>4, <1>9

\* The hits of a list are logs that match, and all that do.
LEMMA HitsHit ==
  ASSUME NEW logs \in Seq(Log)
  PROVE  /\ \A j \in 1..Len(Hits(logs)) : Hits(logs)[j].hit
         /\ \A i \in 1..Len(logs) :
              logs[i].hit => \E j \in 1..Len(Hits(logs)) : Hits(logs)[j] = logs[i]
<1> PICK n : n = Len(logs)
  OBVIOUS
<1>1. n \in Nat /\ \A k \in 1..n : logs[k] \in Log
  OBVIOUS
<1>2. PICK f : IsHits(f, logs) /\ Hits(logs) = f[n]
  BY HitsAre
<1> DEFINE Right(k) ==
      /\ \A j \in 1..Len(f[k]) : f[k][j].hit
      /\ \A i \in 1..k : logs[i].hit => \E j \in 1..Len(f[k]) : f[k][j] = logs[i]
<1> PICK Q : Q = {k \in Nat : k <= n => Right(k)}
  OBVIOUS
<1>3. 0 \in Q
  <2>1. f[0] = << >> /\ \A i \in 1..0 : FALSE
    BY <1>2 DEF IsHits
  <2> QED BY <2>1
<1>4. ASSUME NEW k \in Nat, k \in Q PROVE k + 1 \in Q
  <2> SUFFICES ASSUME k + 1 <= n PROVE Right(k + 1)
    OBVIOUS
  <2>1. k + 1 \in 1..n /\ (k + 1) - 1 = k /\ k \in 0..n /\ k <= n /\ k + 1 \in 0..n
    BY <1>1
  <2>2. Right(k)
    BY <1>4, <2>1
  <2>3. /\ f[k + 1] = Grown(f[k], logs[k + 1]) /\ f[k] \in Seq(Log) /\ logs[k + 1] \in Log
    BY <1>1, <1>2, <2>1 DEF IsHits
  <2>4. CASE logs[k + 1].hit
    <3>1. f[k + 1] = Append(f[k], logs[k + 1])
      BY <2>3, <2>4 DEF Grown
    <3>2. /\ Len(f[k + 1]) = Len(f[k]) + 1 /\ Len(f[k]) \in Nat
          /\ f[k + 1][Len(f[k]) + 1] = logs[k + 1]
          /\ \A j \in 1..Len(f[k]) : f[k + 1][j] = f[k][j]
      BY <2>3, <3>1
    <3>3. ASSUME NEW j \in 1..Len(f[k + 1]) PROVE f[k + 1][j].hit
      <4>1. CASE j = Len(f[k]) + 1
        BY <2>4, <3>2, <4>1
      <4>2. CASE j \in 1..Len(f[k])
        BY <2>2, <3>2, <4>2
      <4> QED BY <3>2, <4>1, <4>2
    <3>4. ASSUME NEW i \in 1..k + 1, logs[i].hit
          PROVE  \E j \in 1..Len(f[k + 1]) : f[k + 1][j] = logs[i]
      <4>1. CASE i = k + 1
        BY <3>2, <4>1
      <4>2. CASE i \in 1..k
        <5>1. PICK j \in 1..Len(f[k]) : f[k][j] = logs[i]
          BY <2>2, <3>4, <4>2
        <5> QED BY <3>2, <5>1
      <4> QED BY <4>1, <4>2
    <3> QED BY <3>3, <3>4
  <2>5. CASE ~logs[k + 1].hit
    <3>1. f[k + 1] = f[k]
      BY <2>3, <2>5 DEF Grown
    <3>2. \A i \in 1..k + 1 : logs[i].hit => i \in 1..k
      BY <2>5
    <3> QED BY <2>2, <3>1, <3>2
  <2> QED BY <2>4, <2>5
<1>5. Nat \subseteq Q
  BY <1>3, <1>4, SetInduction
<1>6. Right(n)
  BY <1>1, <1>5
<1> QED BY <1>2, <1>6

\* Another log among them moves the hits back, or leaves them where they are.
MovedBack(h, g, l) ==
  /\ Len(g) <= Len(h)
  /\ \A j \in 1..Len(h) : h[j] = l \/ \E i \in 1..Len(g) : i <= j /\ h[j] = g[i]

\* l has been put at place p of logs.
IsInserted(longer, logs, p, l) ==
  /\ Len(longer) = Len(logs) + 1 /\ longer[p] = l
  /\ \A i \in 1..p - 1 : longer[i] = logs[i]
  /\ \A i \in p..Len(logs) : longer[i + 1] = logs[i]

LEMMA HitsMoveBack ==
  ASSUME NEW logs \in Seq(Log), NEW longer \in Seq(Log), NEW p \in 1..Len(logs) + 1, NEW l \in Log,
         IsInserted(longer, logs, p, l)
  PROVE  MovedBack(Hits(longer), Hits(logs), l)
<1> PICK n : n = Len(logs)
  OBVIOUS
<1>1. n \in Nat /\ p \in Nat /\ p >= 1 /\ p <= n + 1 /\ Len(longer) = n + 1
  BY DEF IsInserted
<1>2. PICK g : IsHits(g, logs) /\ Hits(logs) = g[n]
  BY HitsAre
<1>3. PICK h : IsHits(h, longer) /\ Hits(longer) = h[n + 1]
  BY <1>1, HitsAre
<1>4. /\ \A k \in 0..n : g[k] \in Seq(Log)
      /\ \A k \in 0..n + 1 : h[k] \in Seq(Log)
  BY <1>1, <1>2, <1>3 DEF IsHits
<1>a. \A k \in 1..n : logs[k] \in Log
  OBVIOUS
<1> PICK Q : Q = {k \in Nat : k < p => h[k] = g[k]}
  OBVIOUS
<1>5. 0 \in Q
  BY <1>2, <1>3 DEF IsHits
<1>6. ASSUME NEW k \in Nat, k \in Q PROVE k + 1 \in Q
  <2>1. CASE k + 1 < p
    <3>1. /\ k + 1 \in 1..n /\ k + 1 \in 1..n + 1 /\ k + 1 \in 1..p - 1
          /\ (k + 1) - 1 = k /\ h[k] = g[k]
      BY <1>1, <1>6, <2>1
    <3>2. longer[k + 1] = logs[k + 1]
      BY <3>1 DEF IsInserted
    <3>3. g[k + 1] = Grown(g[k], logs[k + 1])
      BY <1>2, <3>1 DEF IsHits
    <3>4. h[k + 1] = Grown(h[k], longer[k + 1])
      BY <1>1, <1>3, <3>1 DEF IsHits
    <3> QED BY <3>1, <3>2, <3>3, <3>4
  <2>2. CASE ~(k + 1 < p)
    BY <2>2
  <2> QED BY <2>1, <2>2
<1>7. Nat \subseteq Q
  BY <1>5, <1>6, SetInduction
<1> PICK R : R = {k \in Nat : p + k <= n + 1 => MovedBack(h[p + k], g[p + k - 1], l)}
  OBVIOUS
<1>8. 0 \in R
  <2> PICK i : i = p - 1
    OBVIOUS
  <2>1. i \in Nat /\ i < p /\ p - 1 = i /\ i \in 0..n /\ p \in 1..n + 1
    BY <1>1
  <2>2. h[i] = g[i] /\ g[i] \in Seq(Log)
    BY <1>4, <1>7, <2>1
  <2>3. h[p] = Grown(g[i], l)
    BY <1>1, <1>3, <2>1, <2>2 DEF IsHits, IsInserted
  <2>4. MovedBack(h[p], g[i], l)
    <3>1. CASE l.hit
      <4>1. h[p] = Append(g[i], l)
        BY <2>3, <3>1 DEF Grown
      <4> QED BY <2>2, <4>1, AppendIs DEF MovedBack
    <3>2. CASE ~l.hit
      BY <2>2, <2>3, <3>2 DEF MovedBack, Grown
    <3> QED BY <3>1, <3>2
  <2>5. p + 0 = p /\ p + 0 - 1 = i
    BY <2>1
  <2> QED BY <2>4, <2>5
<1>9. ASSUME NEW k \in Nat, k \in R PROVE k + 1 \in R
  <2> SUFFICES ASSUME p + (k + 1) <= n + 1
               PROVE  MovedBack(h[p + (k + 1)], g[p + (k + 1) - 1], l)
    OBVIOUS
  <2> PICK i : i = p + k
    OBVIOUS
  <2>1. /\ i \in 1..n /\ i \in p..n /\ i - 1 \in 0..n /\ i + 1 \in 1..n + 1 /\ (i + 1) - 1 = i
        /\ i \in 0..n + 1 /\ p + (k + 1) = i + 1 /\ p + (k + 1) - 1 = i /\ p + k <= n + 1
        /\ p + k - 1 = i - 1 /\ i = p + k
    BY <1>1
  <2>2. MovedBack(h[i], g[i - 1], l)
    BY <1>9, <2>1
  <2>3. g[i] = Grown(g[i - 1], logs[i])
    BY <1>2, <2>1 DEF IsHits
  <2>4. h[i + 1] = Grown(h[i], logs[i])
    BY <1>1, <1>3, <2>1 DEF IsHits, IsInserted
  <2>5. g[i - 1] \in Seq(Log) /\ h[i] \in Seq(Log) /\ logs[i] \in Log
    BY <1>4, <1>a, <2>1
  <2>6. MovedBack(h[i + 1], g[i], l)
    <3>1. CASE ~logs[i].hit
      BY <2>2, <2>3, <2>4, <3>1 DEF Grown
    <3>2. CASE logs[i].hit
      <4> PICK a : a = Len(g[i - 1])
        OBVIOUS
      <4> PICK b : b = Len(h[i])
        OBVIOUS
      <4>1. g[i] = Append(g[i - 1], logs[i]) /\ h[i + 1] = Append(h[i], logs[i])
        BY <2>3, <2>4, <3>2 DEF Grown
      <4>2. /\ a \in Nat /\ Len(g[i]) = a + 1 /\ g[i][a + 1] = logs[i]
            /\ \A j \in 1..a : g[i][j] = g[i - 1][j]
        BY <2>5, <4>1, AppendIs
      <4>3. /\ b \in Nat /\ Len(h[i + 1]) = b + 1 /\ h[i + 1][b + 1] = logs[i]
            /\ \A j \in 1..b : h[i + 1][j] = h[i][j]
        BY <2>5, <4>1, AppendIs
      <4>4. a <= b /\ a + 1 <= b + 1
        BY <2>2, <4>2, <4>3 DEF MovedBack
      <4>5. ASSUME NEW j \in 1..b + 1, h[i + 1][j] # l
            PROVE  \E q \in 1..a + 1 : q <= j /\ h[i + 1][j] = g[i][q]
        <5>1. CASE j = b + 1
          <6>1. a + 1 \in 1..a + 1 /\ a + 1 <= j /\ h[i + 1][j] = g[i][a + 1]
            BY <4>2, <4>3, <4>4, <5>1
          <6> QED BY <6>1
        <5>2. CASE j \in 1..b
          <6>1. h[i + 1][j] = h[i][j]
            BY <4>3, <5>2
          <6>2. PICK q \in 1..a : q <= j /\ h[i][j] = g[i - 1][q]
            BY <2>2, <4>5, <5>2, <6>1 DEF MovedBack
          <6>3. g[i][q] = g[i - 1][q]
            BY <4>2
          <6>4. q \in 1..a + 1
            <7>1. a \in Nat
              BY <4>2
            <7> QED BY <7>1
          <6> QED BY <6>1, <6>2, <6>3, <6>4
        <5>3. j \in 1..b \/ j = b + 1
          BY <4>3
        <5> QED BY <5>1, <5>2, <5>3
      <4>6. Len(g[i]) <= Len(h[i + 1])
        BY <4>2, <4>3, <4>4
      <4>7. \A j \in 1..Len(h[i + 1]) :
              h[i + 1][j] = l \/ \E q \in 1..Len(g[i]) : q <= j /\ h[i + 1][j] = g[i][q]
        <5>1. Len(h[i + 1]) = b + 1 /\ Len(g[i]) = a + 1
          BY <4>2, <4>3
        <5>2. \A j \in 1..b + 1 :
                h[i + 1][j] = l \/ \E q \in 1..a + 1 : q <= j /\ h[i + 1][j] = g[i][q]
          BY <4>5, Zenon
        <5> QED BY <5>1, <5>2
      <4> QED BY <4>6, <4>7 DEF MovedBack
    <3> QED BY <3>1, <3>2
  <2> QED BY <2>1, <2>6
<1>10. Nat \subseteq R
  BY <1>8, <1>9, SetInduction
<1> PICK k : k = n + 1 - p
  OBVIOUS
<1>11. k \in Nat /\ p + k = n + 1 /\ p + k - 1 = n /\ p + k <= n + 1
  BY <1>1
<1>b. p + k <= n + 1 => MovedBack(h[p + k], g[p + k - 1], l)
  BY <1>10, <1>11, Zenon
<1>12. MovedBack(h[n + 1], g[n], l)
  BY <1>11, <1>b
<1> QED BY <1>2, <1>3, <1>12

-----------------------------------------------------------------------------
(* LogPages: a walk through the pages                                      *)

\* Of the first k hits, those that were due have been seen.
Settled(hits, k, due, seen) ==
  \A j \in 1..Len(hits) : j <= k /\ hits[j] \in due => hits[j] \in seen

\* The walk's pages are complete: no query failed, no log came between two queries,
\* and no page was smaller than the next.
Complete == ~walk.failed /\ ~walk.raced /\ ~walk.jumped

\* The rows behind the walk.
Behind == (IF walk.at = "page" THEN walk.page + 1 ELSE walk.page) * walk.size

\* What is kept of the tables and of a walk, beside the pages themselves.
Walks == [at : {"none", "count", "select", "newest", "page"}, text : {"no", "empty", "words"},
          size : Nat, page : Nat, total : Nat, next : BOOLEAN, due : SUBSET Log, seen : SUBSET Log,
          few : BOOLEAN, raced : BOOLEAN, failed : BOOLEAN, jumped : BOOLEAN]
WalkInv ==
  /\ hasDb \in BOOLEAN /\ stored \in Seq(Log) /\ recent \in Seq(Log) /\ walk \in Walks
  /\ \A l \in walk.due : l.hit
  /\ walk.at # "none" => walk.size > 0
  /\ walk.at \in {"count", "select"} => hasDb /\ walk.text = "no"
  /\ hasDb /\ ~walk.failed =>
       /\ walk.at = "newest" /\ walk.page > 0 => walk.few
       /\ walk.at = "page" /\ walk.text = "words" => walk.few

\* The inductive invariant: what was due is settled as far as the walk has come, the
\* total counts all there are, and after the last page everything is settled.
WalkSettled ==
  /\ Settled(Hits(InReach), Behind, walk.due, walk.seen)
  /\ walk.at = "select" => Len(Hits(stored)) <= walk.total
  /\ walk.at = "page" /\ ~walk.next =>
       \A k \in Nat : Settled(Hits(InReach), k, walk.due, walk.seen)
PagesInv == WalkInv /\ (Complete => WalkSettled)

\* The first n of a list.
LEMMA FirstIs ==
  ASSUME NEW logs \in Seq(Log), NEW n \in Nat
  PROVE  \E m \in 0..Len(logs) :
           /\ First(n, logs) = SubSeq(logs, 1, m) /\ m <= n /\ (m < n => m = Len(logs))
           /\ First(n, logs) \in Seq(Log) /\ Len(First(n, logs)) = m
           /\ \A i \in 1..m : First(n, logs)[i] = logs[i]
<1>1. Len(logs) \in Nat
  OBVIOUS
<1>2. CASE Len(logs) < n
  <2>1. First(n, logs) = SubSeq(logs, 1, Len(logs)) /\ First(n, logs) = logs
    BY <1>1, <1>2 DEF First
  <2>2. Len(logs) \in 0..Len(logs) /\ Len(logs) <= n
    BY <1>1, <1>2
  <2>3. /\ First(n, logs) \in Seq(Log) /\ Len(First(n, logs)) = Len(logs)
        /\ \A i \in 1..Len(logs) : First(n, logs)[i] = logs[i]
    BY <2>1
  <2> QED BY <2>1, <2>2, <2>3, Zenon
<1>3. CASE ~(Len(logs) < n)
  <2>1. First(n, logs) = SubSeq(logs, 1, n)
    BY <1>3 DEF First
  <2>2. n \in 0..Len(logs) /\ n <= n /\ (n < n => n = Len(logs))
    BY <1>1, <1>3
  <2>3. SubSeq(logs, 1, n) \in Seq(Log) /\ Len(SubSeq(logs, 1, n)) = n
    BY <2>2
  <2>4. \A i \in 1..n : SubSeq(logs, 1, n)[i] = logs[i]
    BY <2>2
  <2>5. /\ First(n, logs) \in Seq(Log) /\ Len(First(n, logs)) = n
        /\ \A i \in 1..n : First(n, logs)[i] = logs[i]
    BY <2>1, <2>3, <2>4
  <2> QED BY <2>1, <2>2, <2>5, Zenon
<1> QED BY <1>2, <1>3

\* A list as it is, or cut short.
IsCut(shorter, logs) == \E m \in 0..Len(logs) : shorter = SubSeq(logs, 1, m)

\* When the list is cut short, what was settled stays so.
LEMMA CutSettled ==
  ASSUME NEW logs \in Seq(Log), NEW shorter, IsCut(shorter, logs), NEW k \in Nat,
         NEW due, NEW seen, Settled(Hits(logs), k, due, seen)
  PROVE  Settled(Hits(shorter), k, due, seen)
<1>1. PICK m \in 0..Len(logs) : shorter = SubSeq(logs, 1, m)
  BY DEF IsCut
<1>2. /\ IsPrefixOf(Hits(shorter), Hits(logs))
      /\ Hits(logs) \in Seq(Log) /\ Hits(shorter) \in Seq(Log)
  BY <1>1, HitsOfPrefix
<1>3. /\ Len(Hits(shorter)) \in Nat /\ Len(Hits(logs)) \in Nat
      /\ Len(Hits(shorter)) <= Len(Hits(logs))
  BY <1>2 DEF IsPrefixOf
<1> SUFFICES ASSUME NEW j \in 1..Len(Hits(shorter)), j <= k, Hits(shorter)[j] \in due
             PROVE  Hits(shorter)[j] \in seen
  BY DEF Settled
<1>4. j \in 1..Len(Hits(logs)) /\ Hits(shorter)[j] = Hits(logs)[j]
  BY <1>2, <1>3 DEF IsPrefixOf
<1> QED BY <1>4 DEF Settled

\* When a log comes in that was not due, what was settled stays so.
LEMMA InsertSettled ==
  ASSUME NEW logs \in Seq(Log), NEW longer \in Seq(Log), NEW p \in 1..Len(logs) + 1, NEW l \in Log,
         IsInserted(longer, logs, p, l), NEW due, NEW seen, l \notin due,
         NEW k \in Nat, Settled(Hits(logs), k, due, seen)
  PROVE  Settled(Hits(longer), k, due, seen)
<1>1. MovedBack(Hits(longer), Hits(logs), l)
  BY HitsMoveBack
<1> SUFFICES ASSUME NEW j \in 1..Len(Hits(longer)), j <= k, Hits(longer)[j] \in due
             PROVE  Hits(longer)[j] \in seen
  BY DEF Settled
<1>2. PICK i \in 1..Len(Hits(logs)) : i <= j /\ Hits(longer)[j] = Hits(logs)[i]
  BY <1>1 DEF MovedBack
<1>3. i <= k
  BY <1>2
<1> QED BY <1>2, <1>3 DEF Settled

\* The same of the first n: a log that comes in pushes the last of them out.
LEMMA FirstSettled ==
  ASSUME NEW logs \in Seq(Log), NEW longer \in Seq(Log), NEW p \in 1..Len(logs) + 1, NEW l \in Log,
         IsInserted(longer, logs, p, l), NEW due, NEW seen, l \notin due,
         NEW k \in Nat, NEW n \in Nat, Settled(Hits(First(n, logs)), k, due, seen)
  PROVE  Settled(Hits(First(n, longer)), k, due, seen)
<1>1. PICK a \in 0..Len(logs) :
           /\ a <= n /\ (a < n => a = Len(logs))
           /\ First(n, logs) \in Seq(Log) /\ Len(First(n, logs)) = a
           /\ \A i \in 1..a : First(n, logs)[i] = logs[i]
  BY FirstIs
<1>2. PICK b \in 0..Len(longer) :
           /\ First(n, longer) = SubSeq(longer, 1, b) /\ b <= n /\ (b < n => b = Len(longer))
           /\ First(n, longer) \in Seq(Log) /\ Len(First(n, longer)) = b
           /\ \A i \in 1..b : First(n, longer)[i] = longer[i]
  BY FirstIs
<1> PICK s : s = First(n, logs)
  OBVIOUS
<1> PICK t : t = First(n, longer)
  OBVIOUS
<1>3. /\ Len(logs) \in Nat /\ Len(longer) = Len(logs) + 1 /\ a \in Nat /\ b \in Nat /\ p \in Nat
      /\ p >= 1 /\ a <= b /\ b <= a + 1
  BY <1>1, <1>2 DEF IsInserted
<1>4. CASE p <= a + 1
  <2> PICK u : u = SubSeq(longer, 1, a + 1)
    OBVIOUS
  <2>1. u \in Seq(Log) /\ Len(u) = a + 1
    BY <1>3
  <2>2. \A i \in 1..a + 1 : u[i] = longer[i]
    BY <1>3
  <2>3. u[p] = l
    BY <1>3, <1>4, <2>2 DEF IsInserted
  <2>4. \A i \in 1..p - 1 : i \in 1..a /\ i \in 1..a + 1
    BY <1>3, <1>4
  <2>5. \A i \in 1..p - 1 : u[i] = s[i]
    BY <1>1, <2>2, <2>4 DEF IsInserted
  <2>6. \A i \in p..a : i \in 1..a /\ i + 1 \in 1..a + 1 /\ i \in p..Len(logs)
    BY <1>1, <1>3, <1>4
  <2>7. \A i \in p..a : u[i + 1] = s[i]
    BY <1>1, <2>2, <2>6 DEF IsInserted
  <2>8. IsInserted(u, s, p, l)
    BY <1>1, <2>1, <2>3, <2>5, <2>7 DEF IsInserted
  <2>9. p \in 1..Len(s) + 1 /\ s \in Seq(Log)
    BY <1>1, <1>3, <1>4
  <2>10. Settled(Hits(u), k, due, seen)
    BY <2>1, <2>8, <2>9, InsertSettled
  <2>11. t = SubSeq(u, 1, b)
    <3>1. SubSeq(u, 1, b) \in Seq(Log) /\ Len(SubSeq(u, 1, b)) = b
      BY <1>3, <2>1
    <3>2. \A i \in 1..b : SubSeq(u, 1, b)[i] = longer[i]
      BY <1>3, <2>1, <2>2
    <3> QED BY <1>2, <1>3, <3>1, <3>2
  <2>12. IsCut(t, u)
    <3>1. b \in 0..Len(u)
      BY <1>3, <2>1
    <3> QED BY <2>11, <3>1 DEF IsCut
  <2> QED BY <2>1, <2>10, <2>12, CutSettled
<1>5. CASE p > a + 1
  <2>1. a = n /\ b = a
    BY <1>1, <1>2, <1>3, <1>5
  <2>2. \A i \in 1..a : longer[i] = logs[i]
    BY <1>3, <1>5 DEF IsInserted
  <2>3. t = s
    BY <1>1, <1>2, <1>3, <2>1, <2>2
  <2> QED BY <2>3
<1> QED BY <1>3, <1>4, <1>5

\* The first n of a list cut short are the first n, cut short; of which, there are these.
LEMMA CutOfCut ==
  ASSUME NEW logs \in Seq(Log), NEW shorter, IsCut(shorter, logs), NEW n \in Nat
  PROVE  /\ shorter \in Seq(Log) /\ First(n, shorter) \in Seq(Log) /\ First(n, logs) \in Seq(Log)
         /\ IsCut(First(n, shorter), First(n, logs)) /\ IsCut(First(n, logs), logs)
<1>1. PICK m \in 0..Len(logs) : shorter = SubSeq(logs, 1, m)
  BY DEF IsCut
<1>2. /\ Len(logs) \in Nat /\ m \in Nat /\ m <= Len(logs)
      /\ shorter \in Seq(Log) /\ Len(shorter) = m
  BY <1>1
<1>3. \A i \in 1..m : shorter[i] = logs[i]
  BY <1>1
<1>4. PICK a \in 0..Len(logs) :
           /\ First(n, logs) = SubSeq(logs, 1, a) /\ a <= n /\ (a < n => a = Len(logs))
           /\ First(n, logs) \in Seq(Log) /\ Len(First(n, logs)) = a
           /\ \A i \in 1..a : First(n, logs)[i] = logs[i]
  BY FirstIs
<1>5. PICK b \in 0..Len(shorter) :
           /\ b <= n /\ (b < n => b = Len(shorter))
           /\ First(n, shorter) \in Seq(Log) /\ Len(First(n, shorter)) = b
           /\ \A i \in 1..b : First(n, shorter)[i] = shorter[i]
  BY <1>2, FirstIs
<1> PICK s : s = First(n, logs)
  OBVIOUS
<1> PICK t : t = First(n, shorter)
  OBVIOUS
<1>6. a \in Nat /\ b \in Nat /\ b <= a /\ b <= m
  BY <1>2, <1>4, <1>5
<1>7. SubSeq(s, 1, b) \in Seq(Log) /\ Len(SubSeq(s, 1, b)) = b
  BY <1>4, <1>6
<1>8. \A i \in 1..b : SubSeq(s, 1, b)[i] = logs[i]
  BY <1>4, <1>6
<1>9. \A i \in 1..b : t[i] = logs[i]
  BY <1>3, <1>5, <1>6
<1>10. t = SubSeq(s, 1, b)
  BY <1>5, <1>6, <1>7, <1>8, <1>9
<1>11. b \in 0..Len(s)
  BY <1>4, <1>6
<1> QED BY <1>2, <1>4, <1>5, <1>10, <1>11 DEF IsCut

\* Two lists, one after the other.
LEMMA Joined ==
  ASSUME NEW c \in Seq(Log), NEW b \in Seq(Log)
  PROVE  /\ c \o b \in Seq(Log) /\ Len(c \o b) = Len(c) + Len(b)
         /\ \A i \in 1..Len(c) : (c \o b)[i] = c[i]
         /\ \A i \in 1..Len(b) : (c \o b)[Len(c) + i] = b[i]
<1>1. c \o b \in Seq(Log) /\ Len(c \o b) = Len(c) + Len(b)
  OBVIOUS
<1>2. \A i \in 1..Len(c) : (c \o b)[i] = c[i]
  OBVIOUS
<1>3. \A i \in 1..Len(b) : (c \o b)[Len(c) + i] = b[i]
  OBVIOUS
<1> QED BY <1>1, <1>2, <1>3

\* InsertAt and a log in front insert it.
LEMMA InsertShape ==
  ASSUME NEW logs \in Seq(Log), NEW p \in 1..Len(logs) + 1, NEW l \in Log
  PROVE  InsertAt(logs, p, l) \in Seq(Log) /\ IsInserted(InsertAt(logs, p, l), logs, p, l)
<1> PICK n : n = Len(logs)
  OBVIOUS
<1>1. n \in Nat /\ p \in Nat /\ 1 <= p /\ p <= n + 1
  OBVIOUS
<1>a. PICK a : a = SubSeq(logs, 1, p - 1)
  OBVIOUS
<1>b. PICK b : b = SubSeq(logs, p, n)
  OBVIOUS
<1>2. a \in Seq(Log) /\ Len(a) = p - 1 /\ \A i \in 1..p - 1 : a[i] = logs[i]
  BY <1>1, <1>a
<1>3. b \in Seq(Log) /\ Len(b) = n - p + 1 /\ \A i \in 1..n - p + 1 : b[i] = logs[p + i - 1]
  BY <1>1, <1>b
<1>c. PICK c : c = a \o <<l>>
  OBVIOUS
<1>4. c \in Seq(Log) /\ Len(c) = p /\ c[p] = l /\ \A i \in 1..p - 1 : c[i] = a[i]
  BY <1>1, <1>2, <1>c
<1>d. PICK d : d = c \o b
  OBVIOUS
<1>5. /\ d \in Seq(Log) /\ Len(d) = Len(c) + Len(b) /\ \A i \in 1..Len(c) : d[i] = c[i]
      /\ \A i \in 1..Len(b) : d[Len(c) + i] = b[i]
  BY <1>3, <1>4, <1>d, Joined
<1>6. Len(d) = n + 1
  BY <1>1, <1>3, <1>4, <1>5
<1>7. ASSUME NEW i \in p..n PROVE d[i + 1] = logs[i]
  <2>1. i + 1 - p \in 1..n - p + 1 /\ p + (i + 1 - p) - 1 = i /\ p + (i + 1 - p) = i + 1
    BY <1>1
  <2>2. d[p + (i + 1 - p)] = b[i + 1 - p]
    BY <1>3, <1>4, <1>5, <2>1, Zenon
  <2>3. b[i + 1 - p] = logs[p + (i + 1 - p) - 1]
    BY <1>3, <2>1, Zenon
  <2> QED BY <2>1, <2>2, <2>3
<1>8. ASSUME NEW i \in 1..p - 1 PROVE d[i] = logs[i]
  <2>1. i \in 1..p
    BY <1>1
  <2> QED BY <1>2, <1>4, <1>5, <2>1
<1>9. d[p] = l
  <2>1. p \in 1..p
    BY <1>1
  <2> QED BY <1>4, <1>5, <2>1
<1>10. d = InsertAt(logs, p, l)
  BY <1>a, <1>b, <1>c, <1>d DEF InsertAt
<1> QED BY <1>5, <1>6, <1>7, <1>8, <1>9, <1>10 DEF IsInserted

LEMMA InFrontShape ==
  ASSUME NEW logs \in Seq(Log), NEW l \in Log
  PROVE  <<l>> \o logs \in Seq(Log) /\ IsInserted(<<l>> \o logs, logs, 1, l)
<1>1. <<l>> \o logs \in Seq(Log) /\ Len(<<l>> \o logs) = Len(logs) + 1 /\ Len(logs) \in Nat
  OBVIOUS
<1>2. (<<l>> \o logs)[1] = l /\ \A i \in 1..Len(logs) : (<<l>> \o logs)[i + 1] = logs[i]
  OBVIOUS
<1> QED BY <1>1, <1>2 DEF IsInserted

\* A page is the last one when the total ends on it.
LEMMA LastPage ==
  ASSUME NEW total \in Nat, NEW size \in Nat, size > 0, NEW page \in Nat,
         page + 1 >= ((IF total = 0 THEN 1 ELSE total) + size - 1) \div size
  PROVE  total <= (page + 1) * size
<1> PICK a : a = (IF total = 0 THEN 1 ELSE total) + size - 1
  OBVIOUS
<1> PICK q : q = a \div size
  OBVIOUS
<1>1. a \in Nat /\ total + size - 1 <= a
  OBVIOUS
<1>2. q \in Int /\ q * size <= a /\ a < (q + 1) * size /\ q <= page + 1
  BY <1>1
<1>3. (q + 1) * size <= (page + 1 + 1) * size
  BY <1>2
<1>4. (page + 1 + 1) * size = (page + 1) * size + size
  OBVIOUS
<1>5. (page + 1) * size \in Int
  OBVIOUS
<1> QED BY <1>1, <1>2, <1>3, <1>4, <1>5

LEMMA Rows ==
  ASSUME NEW page \in Nat, NEW size \in Nat
  PROVE  /\ (page + 1) * size = page * size + size
         /\ page * size \in Nat /\ (page + 1) * size \in Nat
OBVIOUS

LEMMA FewerRows ==
  ASSUME NEW page \in Nat, NEW few \in Nat, NEW size \in Nat, few <= size
  PROVE  (page + 1) * few <= (page + 1) * size
OBVIOUS

\* A stretch of a list.
LEMMA Sliced ==
  ASSUME NEW s \in Seq(Log), NEW a \in 1..Len(s), NEW b \in 1..Len(s), a <= b
  PROVE  /\ SubSeq(s, a, b) \in Seq(Log) /\ Len(SubSeq(s, a, b)) = b - a + 1
         /\ DOMAIN SubSeq(s, a, b) = 1..(b - a + 1)
         /\ \A i \in 1..(b - a + 1) : SubSeq(s, a, b)[i] = s[a + i - 1]
<1>1. SubSeq(s, a, b) \in Seq(Log) /\ Len(SubSeq(s, a, b)) = b - a + 1
  OBVIOUS
<1>2. \A i \in 1..(b - a + 1) : SubSeq(s, a, b)[i] = s[a + i - 1]
  OBVIOUS
<1> QED BY <1>1, <1>2

\* A page shown settles its rows, of whatever the list shown begins with, and
\* everything when it is the last.
LEMMA PageSettles ==
  ASSUME NEW hits \in Seq(Log), NEW reach \in Seq(Log), IsPrefixOf(reach, hits),
         NEW page \in Nat, NEW size \in Nat, size > 0,
         NEW due, NEW seen, Settled(reach, page * size, due, seen),
         NEW shown, shown = SubSeq(hits, page * size + 1,
                                   IF Len(hits) < page * size + size THEN Len(hits)
                                   ELSE page * size + size)
  PROVE  /\ Settled(reach, (page + 1) * size, due, seen \cup Range(shown))
         /\ Len(hits) <= (page + 1) * size =>
              \A k \in Nat : Settled(reach, k, due, seen \cup Range(shown))
<1>a. PICK o : o = page * size
  OBVIOUS
<1>1. /\ o \in Nat /\ (page + 1) * size = o + size
      /\ Len(hits) \in Nat /\ Len(reach) \in Nat /\ Len(reach) <= Len(hits)
  BY <1>a, Rows DEF IsPrefixOf
<1>2. ASSUME NEW j \in 1..Len(reach), j <= o + size, reach[j] \in due, reach[j] \notin seen
      PROVE  reach[j] \in Range(shown)
  <2>1. j > o /\ j \in 1..Len(hits) /\ reach[j] = hits[j]
    BY <1>1, <1>2, <1>a DEF Settled, IsPrefixOf
  <2>a. PICK e : e = IF Len(hits) < o + size THEN Len(hits) ELSE o + size
    OBVIOUS
  <2>2. e \in Nat /\ j <= e /\ e <= Len(hits)
    BY <1>1, <1>2, <2>1, <2>a
  <2>3. shown = SubSeq(hits, o + 1, e)
    BY <1>a, <2>a
  <2>b. PICK first : first = o + 1
    OBVIOUS
  <2>c. PICK i : i = j - o
    OBVIOUS
  <2>4. first \in 1..Len(hits) /\ e \in 1..Len(hits) /\ first <= e
    BY <1>1, <2>1, <2>2, <2>b
  <2>5. /\ DOMAIN SubSeq(hits, first, e) = 1..(e - first + 1)
        /\ \A q \in 1..(e - first + 1) : SubSeq(hits, first, e)[q] = hits[first + q - 1]
    BY <2>4, Sliced
  <2>6. i \in 1..(e - first + 1) /\ first + i - 1 = j
    BY <1>1, <2>1, <2>2, <2>b, <2>c
  <2>7. shown = SubSeq(hits, first, e)
    BY <2>3, <2>b
  <2>8. i \in DOMAIN shown /\ shown[i] = hits[j]
    BY <2>5, <2>6, <2>7
  <2> QED BY <2>1, <2>8 DEF Range
<1>3. Settled(reach, o + size, due, seen \cup Range(shown))
  BY <1>2 DEF Settled
<1>4. ASSUME Len(hits) <= o + size, NEW k \in Nat
      PROVE  Settled(reach, k, due, seen \cup Range(shown))
  <2>1. \A j \in 1..Len(reach) : j <= o + size
    BY <1>1, <1>4
  <2> QED BY <1>3, <2>1 DEF Settled
<1> QED BY <1>1, <1>3, <1>4

\* A log that comes in was not due, and settles nothing and unsettles nothing: what is
\* behind the walk stays so.
LEMMA ArrivalKeeps ==
  ASSUME PagesInv, LogArrives PROVE PagesInv'
<1>1. PICK l \in Log :
        /\ l.n \notin Arrived
        /\ recent' = First(CacheSize, <<l>> \o recent)
        /\ IF hasDb THEN \E p \in 1..Len(stored) + 1 : stored' = InsertAt(stored, p, l)
                    ELSE stored' = stored
  BY DEF LogArrives
<1>2. /\ walk' = [walk EXCEPT !.raced = walk.raced \/ walk.at = "select"] /\ hasDb' = hasDb
  BY DEF LogArrives
<1>3. WalkInv /\ CacheSize \in Nat /\ Newest \in Nat
  BY LogPagesAssumption DEF PagesInv
<1>4. /\ hasDb \in BOOLEAN /\ stored \in Seq(Log) /\ recent \in Seq(Log) /\ walk \in Walks
  BY <1>3 DEF WalkInv
<1>5. /\ walk'.at = walk.at /\ walk'.text = walk.text /\ walk'.size = walk.size
      /\ walk'.page = walk.page /\ walk'.total = walk.total /\ walk'.next = walk.next
      /\ walk'.due = walk.due /\ walk'.seen = walk.seen /\ walk'.few = walk.few
      /\ walk'.raced = (walk.raced \/ walk.at = "select")
      /\ walk'.failed = walk.failed /\ walk'.jumped = walk.jumped /\ walk' \in Walks
  BY <1>2, <1>4 DEF Walks
<1>6. l \notin walk.due
  BY <1>1 DEF Arrived
<1>7. /\ <<l>> \o recent \in Seq(Log) /\ IsInserted(<<l>> \o recent, recent, 1, l)
      /\ 1 \in 1..Len(recent) + 1
  BY <1>4, InFrontShape
<1>8. IsCut(recent', <<l>> \o recent) /\ recent' \in Seq(Log)
  BY <1>1, <1>3, <1>7, FirstIs DEF IsCut
<1>9. hasDb => /\ stored' \in Seq(Log)
               /\ \E p \in 1..Len(stored) + 1 : IsInserted(stored', stored, p, l)
  BY <1>1, <1>4, InsertShape
<1>10. stored' \in Seq(Log)
  BY <1>1, <1>4, <1>9
<1>11. ASSUME NEW k \in Nat, Settled(Hits(InReach), k, walk.due, walk.seen)
       PROVE  Settled(Hits(InReach'), k, walk.due, walk.seen)
  <2>1. CASE ~hasDb
    <3>1. InReach = First(Newest, recent) /\ InReach' = First(Newest, recent')
      BY <1>2, <2>1 DEF InReach
    <3>2. Settled(Hits(First(Newest, <<l>> \o recent)), k, walk.due, walk.seen)
      BY <1>3, <1>4, <1>6, <1>7, <1>11, <3>1, FirstSettled
    <3>3. /\ IsCut(First(Newest, recent'), First(Newest, <<l>> \o recent))
          /\ First(Newest, <<l>> \o recent) \in Seq(Log)
      BY <1>3, <1>7, <1>8, CutOfCut
    <3> QED BY <3>1, <3>2, <3>3, CutSettled
  <2>2. CASE hasDb
    <3>1. PICK p \in 1..Len(stored) + 1 : IsInserted(stored', stored, p, l)
      BY <1>9, <2>2
    <3>2. CASE walk.few
      <4>1. InReach = First(Newest, stored) /\ InReach' = First(Newest, stored')
        BY <1>2, <1>5, <2>2, <3>2 DEF InReach
      <4> QED BY <1>3, <1>4, <1>6, <1>10, <1>11, <3>1, <4>1, FirstSettled
    <3>3. CASE ~walk.few
      <4>1. InReach = stored /\ InReach' = stored'
        BY <1>2, <1>5, <2>2, <3>3 DEF InReach
      <4> QED BY <1>4, <1>6, <1>10, <1>11, <3>1, <4>1, InsertSettled
    <3> QED BY <3>2, <3>3
  <2> QED BY <1>4, <2>1, <2>2
<1>12. Behind' = Behind /\ Behind \in Nat
  BY <1>4, <1>5, Rows DEF Behind, Walks
<1>13. Complete' => Complete /\ walk.at # "select"
  BY <1>4, <1>5 DEF Complete, Walks
<1>14. Complete' => WalkSettled'
  <2> SUFFICES ASSUME Complete' PROVE WalkSettled'
    OBVIOUS
  <2>1. WalkSettled /\ walk.at # "select"
    BY <1>13 DEF PagesInv
  <2>2. Settled(Hits(InReach'), Behind, walk.due, walk.seen)
    BY <1>11, <1>12, <2>1 DEF WalkSettled
  <2>3. walk.at = "page" /\ ~walk.next =>
          \A k \in Nat : Settled(Hits(InReach'), k, walk.due, walk.seen)
    BY <1>11, <2>1 DEF WalkSettled
  <2> QED BY <1>5, <1>12, <2>1, <2>2, <2>3 DEF WalkSettled
<1>15. WalkInv'
  BY <1>2, <1>3, <1>5, <1>8, <1>10 DEF WalkInv
<1> QED BY <1>14, <1>15 DEF PagesInv

\* A log that goes takes its place among the hits with it: the others move up.
LEMMA PruneKeeps ==
  ASSUME PagesInv, LogsPruned PROVE PagesInv'
<1>1. /\ stored # << >> /\ stored' = Front(stored)
      /\ hasDb' = hasDb /\ recent' = recent /\ walk' = walk
  BY DEF LogsPruned
<1>2. WalkInv /\ Newest \in Nat
  BY LogPagesAssumption DEF PagesInv
<1>3. /\ stored \in Seq(Log) /\ walk \in Walks /\ hasDb \in BOOLEAN
  BY <1>2 DEF WalkInv
<1>4. IsCut(stored', stored)
  <2>1. Len(stored) - 1 \in 0..Len(stored)
    BY <1>1, <1>3
  <2> QED BY <1>1, <2>1 DEF IsCut, Front
<1>5. /\ stored' \in Seq(Log) /\ First(Newest, stored) \in Seq(Log)
      /\ IsCut(First(Newest, stored'), First(Newest, stored))
  BY <1>2, <1>3, <1>4, CutOfCut
<1>6. ASSUME NEW k \in Nat, Settled(Hits(InReach), k, walk.due, walk.seen)
      PROVE  Settled(Hits(InReach'), k, walk.due, walk.seen)
  <2>1. CASE ~hasDb
    BY <1>1, <1>6, <2>1 DEF InReach
  <2>2. CASE hasDb /\ walk.few
    <3>1. InReach = First(Newest, stored) /\ InReach' = First(Newest, stored')
      BY <1>1, <2>2 DEF InReach
    <3> QED BY <1>5, <1>6, <3>1, CutSettled
  <2>3. CASE hasDb /\ ~walk.few
    <3>1. InReach = stored /\ InReach' = stored'
      BY <1>1, <2>3 DEF InReach
    <3> QED BY <1>3, <1>4, <1>6, <3>1, CutSettled
  <2> QED BY <2>1, <2>2, <2>3
<1>7. Behind' = Behind /\ Behind \in Nat /\ (Complete' <=> Complete)
  BY <1>1, <1>3, Rows DEF Behind, Complete, Walks
<1>8. ASSUME Complete' PROVE WalkSettled'
  <2>1. WalkSettled
    BY <1>7, <1>8 DEF PagesInv
  <2>2. Settled(Hits(InReach'), Behind, walk.due, walk.seen)
    BY <1>6, <1>7, <2>1 DEF WalkSettled
  <2>3. walk.at = "page" /\ ~walk.next =>
          \A k \in Nat : Settled(Hits(InReach'), k, walk.due, walk.seen)
    BY <1>6, <2>1 DEF WalkSettled
  <2>4. walk.at = "select" => Len(Hits(stored')) <= walk.total
    <3>1. PICK m \in 0..Len(stored) : stored' = SubSeq(stored, 1, m)
      BY <1>4 DEF IsCut
    <3>2. /\ Len(Hits(stored')) <= Len(Hits(stored))
          /\ Len(Hits(stored')) \in Nat /\ Len(Hits(stored)) \in Nat
      BY <1>3, <3>1, HitsOfPrefix DEF IsPrefixOf
    <3>3. walk.total \in Nat
      BY <1>3 DEF Walks
    <3> QED BY <2>1, <3>2, <3>3 DEF WalkSettled
  <2> QED BY <1>1, <1>7, <2>2, <2>3, <2>4 DEF WalkSettled
<1>9. WalkInv'
  BY <1>1, <1>2, <1>5 DEF WalkInv
<1> QED BY <1>8, <1>9 DEF PagesInv

\* A walk begins with everything that matches in reach due and nothing behind it.
LEMMA OpenKeeps ==
  ASSUME PagesInv, OpenLogs PROVE PagesInv'
<1>1. PICK text \in {"no", "empty", "words"}, size \in Asked :
        walk' = [NoWalk EXCEPT !.text = text,
                              !.size = IF size > 0 THEN size ELSE PageSize,
                              !.at = IF hasDb /\ text = "no" THEN "count" ELSE "newest",
                              !.due = Range(Hits(IF ~hasDb THEN recent
                                                 ELSE IF text = "no" THEN stored
                                                 ELSE First(Newest, stored)))]
  BY DEF OpenLogs
<1>2. hasDb' = hasDb /\ stored' = stored /\ recent' = recent
  BY DEF OpenLogs
<1>3. /\ hasDb \in BOOLEAN /\ stored \in Seq(Log) /\ recent \in Seq(Log)
  BY DEF PagesInv, WalkInv
<1>a. PICK logs : logs = IF ~hasDb THEN recent ELSE IF text = "no" THEN stored
                         ELSE First(Newest, stored)
  OBVIOUS
<1>4. logs \in Seq(Log)
  BY <1>3, <1>a, LogPagesAssumption, FirstIs
<1>5. Hits(logs) \in Seq(Log) /\ \A j \in 1..Len(Hits(logs)) : Hits(logs)[j].hit
  <2>1. 0 \in 0..Len(logs)
    BY <1>4
  <2> QED BY <1>4, <2>1, HitsHit, HitsOfPrefix
<1>b. PICK due : due = Range(Hits(logs))
  OBVIOUS
<1>6. due \in SUBSET Log /\ \A l \in due : l.hit
  BY <1>5, <1>b DEF Range
<1>c. PICK at : at = IF hasDb /\ text = "no" THEN "count" ELSE "newest"
  OBVIOUS
<1>d. PICK rows : rows = IF size > 0 THEN size ELSE PageSize
  OBVIOUS
<1>7. walk' = [at |-> at, text |-> text, size |-> rows, page |-> 0, total |-> 0,
               next |-> FALSE, due |-> due, seen |-> {}, few |-> FALSE, raced |-> FALSE,
               failed |-> FALSE, jumped |-> FALSE]
  BY <1>1, <1>a, <1>b, <1>c, <1>d DEF NoWalk
<1>8. /\ rows \in Nat /\ rows > 0 /\ at \in {"count", "newest"}
      /\ at = "count" => hasDb /\ text = "no"
  BY <1>c, <1>d, LogPagesAssumption
<1>9. walk' \in Walks
  BY <1>6, <1>7, <1>8 DEF Walks
<1>10. WalkInv'
  BY <1>2, <1>3, <1>6, <1>7, <1>8, <1>9 DEF WalkInv
<1>11. Behind' = 0
  BY <1>7, <1>8 DEF Behind
<1>12. WalkSettled'
  BY <1>7, <1>8, <1>11 DEF WalkSettled, Settled
<1> QED BY <1>10, <1>12 DEF PagesInv

\* The total is the number of hits there are.
LEMMA CountKeeps ==
  ASSUME PagesInv, CountRows PROVE PagesInv'
<1>1. /\ walk.at = "count" /\ walk' = [walk EXCEPT !.at = "select", !.total = Len(Hits(stored))]
      /\ hasDb' = hasDb /\ stored' = stored /\ recent' = recent
  BY DEF CountRows
<1>2. WalkInv /\ walk \in Walks /\ stored \in Seq(Log)
  BY DEF PagesInv, WalkInv
<1>3. Len(Hits(stored)) \in Nat
  <2>1. 0 \in 0..Len(stored)
    BY <1>2
  <2> QED BY <1>2, <2>1, HitsOfPrefix
<1>4. /\ walk'.at = "select" /\ walk'.total = Len(Hits(stored)) /\ walk'.text = walk.text
      /\ walk'.size = walk.size /\ walk'.page = walk.page /\ walk'.due = walk.due
      /\ walk'.seen = walk.seen /\ walk'.few = walk.few /\ walk'.raced = walk.raced
      /\ walk'.failed = walk.failed /\ walk'.jumped = walk.jumped /\ walk' \in Walks
  BY <1>1, <1>2, <1>3 DEF Walks
<1>5. InReach' = InReach
  BY <1>1, <1>4 DEF InReach
<1>6. Behind' = Behind
  BY <1>1, <1>4 DEF Behind
<1>7. Complete' <=> Complete
  BY <1>4 DEF Complete
<1>8. WalkInv'
  BY <1>1, <1>2, <1>4 DEF WalkInv
<1>9. Len(Hits(stored)) <= walk'.total
  BY <1>3, <1>4
<1> QED BY <1>1, <1>4, <1>5, <1>6, <1>7, <1>8, <1>9 DEF PagesInv, WalkSettled

\* The rows of a page are logs.
LEMMA PageOfIs ==
  ASSUME WalkInv, NEW hits \in Seq(Log)
  PROVE  Range(PageOf(hits)) \in SUBSET Log
<1>1. walk.page \in Nat /\ walk.size \in Nat
  BY DEF WalkInv, Walks
<1>a. PICK o : o = Offset
  OBVIOUS
<1>2. o \in Nat /\ Len(hits) \in Nat
  BY <1>1, <1>a, Rows DEF Offset
<1>b. PICK e : e = IF Len(hits) < o + walk.size THEN Len(hits) ELSE o + walk.size
  OBVIOUS
<1>3. e \in Nat /\ e <= Len(hits) /\ PageOf(hits) = SubSeq(hits, o + 1, e)
  BY <1>1, <1>2, <1>a, <1>b DEF PageOf
<1>4. SubSeq(hits, o + 1, e) \in Seq(Log)
  <2>1. \A i \in o + 1..e : i \in 1..Len(hits)
    BY <1>2, <1>3
  <2> QED BY <1>2, <1>3, <2>1
<1> QED BY <1>3, <1>4 DEF Range

\* Whatever is shown a page of, the walk is settled one page further.
LEMMA ShownSettles ==
  ASSUME WalkInv, walk.size > 0, NEW hits \in Seq(Log), NEW reach \in Seq(Log),
         IsPrefixOf(reach, hits), NEW total \in Nat, Len(hits) <= total,
         Settled(reach, Offset, walk.due, walk.seen)
  PROVE  /\ Settled(reach, (walk.page + 1) * walk.size, walk.due,
                    walk.seen \cup Range(PageOf(hits)))
         /\ ~(walk.page + 1 < TotalPages(total)) =>
              \A k \in Nat : Settled(reach, k, walk.due, walk.seen \cup Range(PageOf(hits)))
<1>1. walk.page \in Nat /\ walk.size \in Nat
  BY DEF WalkInv, Walks
<1>a. PICK page : page = walk.page
  OBVIOUS
<1>b. PICK size : size = walk.size
  OBVIOUS
<1>2. page \in Nat /\ size \in Nat /\ size > 0
  BY <1>1, <1>a, <1>b
<1>c. PICK shown : shown = SubSeq(hits, page * size + 1,
                                  IF Len(hits) < page * size + size THEN Len(hits)
                                  ELSE page * size + size)
  OBVIOUS
<1>3. shown = PageOf(hits)
  BY <1>a, <1>b, <1>c DEF PageOf, Offset
<1>4. Settled(reach, page * size, walk.due, walk.seen)
  BY <1>a, <1>b DEF Offset
<1>5. /\ Settled(reach, (page + 1) * size, walk.due, walk.seen \cup Range(shown))
      /\ Len(hits) <= (page + 1) * size =>
           \A k \in Nat : Settled(reach, k, walk.due, walk.seen \cup Range(shown))
  BY <1>2, <1>4, <1>c, PageSettles
<1>6. ASSUME ~(page + 1 < TotalPages(total)) PROVE Len(hits) <= (page + 1) * size
  <2>1. TotalPages(total) = ((IF total = 0 THEN 1 ELSE total) + size - 1) \div size
    BY <1>b DEF TotalPages
  <2>2. ((IF total = 0 THEN 1 ELSE total) + size - 1) \div size \in Int
    BY <1>2
  <2>3. page + 1 >= ((IF total = 0 THEN 1 ELSE total) + size - 1) \div size
    BY <1>2, <1>6, <2>1, <2>2
  <2>4. total <= (page + 1) * size
    BY <1>2, <2>3, LastPage
  <2>5. Len(hits) \in Nat /\ (page + 1) * size \in Nat
    BY <1>2, Rows
  <2> QED BY <2>4, <2>5
<1> QED BY <1>3, <1>5, <1>6, <1>a, <1>b

\* The hits of any list of logs are a list of logs.
LEMMA HitsType ==
  ASSUME NEW logs \in Seq(Log) PROVE Hits(logs) \in Seq(Log) /\ Len(Hits(logs)) \in Nat
<1>1. 0 \in 0..Len(logs)
  OBVIOUS
<1> QED BY <1>1, HitsOfPrefix

\* The rows of a page from the table, after its total.
LEMMA SelectKeeps ==
  ASSUME PagesInv, SelectRows PROVE PagesInv'
<1>a. PICK hits : hits = Hits(stored)
  OBVIOUS
<1>b. PICK reach : reach = Hits(InReach)
  OBVIOUS
<1>1. /\ walk.at = "select"
      /\ walk' = [walk EXCEPT !.at = "page", !.seen = walk.seen \cup Range(PageOf(hits)),
                              !.next = walk.page + 1 < TotalPages(walk.total),
                              !.few = walk.few \/ FALSE]
      /\ hasDb' = hasDb /\ stored' = stored /\ recent' = recent
  BY <1>a DEF SelectRows, Show
<1>2. /\ WalkInv /\ walk \in Walks /\ stored \in Seq(Log) /\ hasDb /\ walk.size > 0
      /\ walk.total \in Nat
  BY <1>1 DEF PagesInv, WalkInv, Walks
<1>3. hits \in Seq(Log) /\ Len(hits) \in Nat
  BY <1>2, <1>a, HitsType
<1>4. Range(PageOf(hits)) \in SUBSET Log
  BY <1>2, <1>3, PageOfIs
<1>5. /\ walk'.at = "page" /\ walk'.seen = walk.seen \cup Range(PageOf(hits))
      /\ walk'.next = (walk.page + 1 < TotalPages(walk.total))
      /\ walk'.few = walk.few /\ walk'.text = walk.text
      /\ walk'.size = walk.size /\ walk'.page = walk.page /\ walk'.due = walk.due
      /\ walk'.raced = walk.raced /\ walk'.failed = walk.failed /\ walk'.jumped = walk.jumped
  BY <1>1, <1>2 DEF Walks
<1>c. walk' \in Walks
  <2>a. PICK next : next = (walk.page + 1 < TotalPages(walk.total))
    OBVIOUS
  <2>b. PICK seen : seen = walk.seen \cup Range(PageOf(hits))
    OBVIOUS
  <2>1. next \in BOOLEAN /\ seen \in SUBSET Log /\ (walk.few \/ FALSE) \in BOOLEAN
    BY <1>2, <1>4, <2>a, <2>b DEF Walks
  <2>2. walk' = [walk EXCEPT !.at = "page", !.seen = seen, !.next = next,
                             !.few = walk.few \/ FALSE]
    BY <1>1, <2>a, <2>b
  <2> QED BY <1>2, <2>1, <2>2 DEF Walks
<1>6. InReach' = InReach
  BY <1>1, <1>5 DEF InReach
<1>7. reach \in Seq(Log) /\ IsPrefixOf(reach, hits)
  <2>1. CASE walk.few
    <3>1. InReach = First(Newest, stored)
      BY <1>2, <2>1 DEF InReach
    <3>2. \E m \in 0..Len(stored) : First(Newest, stored) = SubSeq(stored, 1, m)
      BY <1>2, FirstIs, LogPagesAssumption
    <3> QED BY <1>2, <1>a, <1>b, <3>1, <3>2, HitsOfPrefix
  <2>2. CASE ~walk.few
    <3>1. InReach = stored
      BY <1>2, <2>2 DEF InReach
    <3> QED BY <1>3, <1>a, <1>b, <3>1 DEF IsPrefixOf
  <2> QED BY <2>1, <2>2
<1>8. ASSUME Complete' PROVE WalkSettled'
  <2>1. WalkSettled
    BY <1>5, <1>8 DEF PagesInv, Complete
  <2>2. Settled(reach, Offset, walk.due, walk.seen) /\ Len(hits) <= walk.total
    BY <1>1, <1>a, <1>b, <2>1 DEF WalkSettled, Behind, Offset
  <2>3. /\ Settled(reach, (walk.page + 1) * walk.size, walk.due, walk'.seen)
        /\ ~walk'.next => \A k \in Nat : Settled(reach, k, walk.due, walk'.seen)
    BY <1>2, <1>3, <1>5, <1>7, <2>2, ShownSettles
  <2>4. Behind' = (walk.page + 1) * walk.size
    BY <1>5 DEF Behind
  <2> QED BY <1>5, <1>6, <1>b, <2>3, <2>4 DEF WalkSettled
<1>9. WalkInv'
  <2>1. walk.text = "no"
    BY <1>1, <1>2 DEF WalkInv
  <2> QED BY <1>1, <1>2, <1>5, <1>c, <2>1 DEF WalkInv
<1> QED BY <1>8, <1>9 DEF PagesInv

\* A query that fails, and a page of nothing: the walk is not complete any more.
LEMMA FailureKeeps ==
  ASSUME PagesInv, QueryFails \/ ShowNothing PROVE PagesInv'
<1>1. hasDb' = hasDb /\ stored' = stored /\ recent' = recent
  BY DEF QueryFails, ShowNothing
<1>2. WalkInv /\ walk \in Walks
  BY DEF PagesInv, WalkInv
<1>3. /\ walk.at # "none" /\ walk'.at \in {"newest", "page"} /\ walk'.failed
      /\ walk'.size = walk.size /\ walk'.due = walk.due /\ walk' \in Walks
  <2>1. CASE QueryFails
    BY <1>2, <2>1 DEF QueryFails, Walks
  <2>2. CASE ShowNothing
    <3>a. PICK next : next = (walk.page + 1 < TotalPages(0))
      OBVIOUS
    <3>1. walk' = [walk EXCEPT !.at = "page", !.next = next, !.failed = TRUE]
      BY <2>2, <3>a DEF ShowNothing
    <3>2. next \in BOOLEAN /\ walk.at = "newest"
      BY <2>2, <3>a DEF ShowNothing
    <3> QED BY <1>2, <3>1, <3>2 DEF Walks
  <2> QED BY <2>1, <2>2
<1>4. WalkInv'
  BY <1>1, <1>2, <1>3 DEF WalkInv
<1>5. ~Complete'
  BY <1>3 DEF Complete
<1> QED BY <1>4, <1>5 DEF PagesInv

\* A page cut from the newest logs, of the table or of the cache.
LEMMA NewestKeeps ==
  ASSUME PagesInv, ShowNewest \/ ShowCached PROVE PagesInv'
<1>0. Newest \in Nat
  BY LogPagesAssumption
<1>a. PICK source : source = IF ShowNewest THEN stored ELSE recent
  OBVIOUS
<1>b. PICK hits : hits = Hits(First(Newest, source))
  OBVIOUS
<1>c. PICK failed : failed = IF ShowNewest THEN walk.failed
                             ELSE walk.failed \/ (hasDb /\ stored # << >>)
  OBVIOUS
<1>1. /\ walk.at = "newest" /\ hasDb' = hasDb /\ stored' = stored /\ recent' = recent
      /\ ShowNewest => hasDb
  BY DEF ShowNewest, ShowCached
<1>2. WalkInv /\ walk \in Walks /\ hasDb \in BOOLEAN /\ walk.size > 0
  BY <1>1 DEF PagesInv, WalkInv
<1>3. stored \in Seq(Log) /\ recent \in Seq(Log) /\ source \in Seq(Log)
  BY <1>2, <1>a DEF WalkInv
<1>4. First(Newest, source) \in Seq(Log)
  BY <1>0, <1>3, FirstIs
<1>5. hits \in Seq(Log) /\ Len(hits) \in Nat
  BY <1>4, <1>b, HitsType
<1>6. Range(PageOf(hits)) \in SUBSET Log
  BY <1>2, <1>5, PageOfIs
<1>d. PICK next : next = (walk.page + 1 < TotalPages(Len(hits)))
  OBVIOUS
<1>e. PICK seen : seen = walk.seen \cup Range(PageOf(hits))
  OBVIOUS
<1>7. next \in BOOLEAN /\ seen \in SUBSET Log /\ failed \in BOOLEAN
  BY <1>2, <1>6, <1>c, <1>d, <1>e DEF Walks
<1>8. /\ walk'.at = "page" /\ walk'.seen = seen /\ walk'.next = next /\ walk'.few = TRUE
      /\ walk'.text = walk.text /\ walk'.size = walk.size /\ walk'.page = walk.page
      /\ walk'.due = walk.due /\ walk'.raced = walk.raced /\ walk'.failed = failed
      /\ walk'.jumped = walk.jumped /\ walk' \in Walks
  <2>1. CASE ShowNewest
    <3>1. source = stored /\ failed = walk.failed
      BY <1>a, <1>c, <2>1
    <3>2. walk' = [walk EXCEPT !.at = "page", !.seen = seen, !.next = next,
                               !.few = walk.few \/ TRUE]
      BY <1>b, <1>d, <1>e, <2>1, <3>1 DEF ShowNewest, Show
    <3>3. (walk.few \/ TRUE) = TRUE
      OBVIOUS
    <3> QED BY <1>2, <1>7, <3>1, <3>2, <3>3 DEF Walks
  <2>2. CASE ~ShowNewest
    <3>1. source = recent /\ failed = (walk.failed \/ (hasDb /\ stored # << >>)) /\ ShowCached
      BY <1>a, <1>c, <2>2
    <3>2. walk' = [walk EXCEPT !.at = "page", !.seen = seen, !.next = next, !.few = TRUE,
                               !.failed = failed]
      BY <1>b, <1>d, <1>e, <3>1 DEF ShowCached
    <3> QED BY <1>2, <1>7, <3>2 DEF Walks
  <2> QED BY <2>1, <2>2
<1>9. WalkInv'
  BY <1>1, <1>2, <1>8 DEF WalkInv
<1>10. Behind' = (walk.page + 1) * walk.size
  BY <1>8 DEF Behind
<1>11. ASSUME Complete' PROVE WalkSettled'
  <2>1. ~failed /\ Complete /\ WalkSettled
    BY <1>8, <1>11, <1>c DEF PagesInv, Complete
  <2>2. CASE ~ShowNewest /\ hasDb
    <3>1. stored = << >>
      BY <1>c, <2>1, <2>2
    <3>2. InReach' = First(Newest, stored)
      BY <1>1, <1>8, <2>2 DEF InReach
    <3>3. First(Newest, stored) = stored
      BY <1>0, <3>1 DEF First
    <3>4. Hits(stored) = << >>
      <4>1. PICK f : IsHits(f, stored) /\ Hits(stored) = f[Len(stored)]
        BY <1>3, HitsAre
      <4>2. Len(stored) = 0
        BY <3>1
      <4> QED BY <4>1, <4>2 DEF IsHits
    <3>5. Hits(InReach') = << >>
      BY <3>2, <3>3, <3>4
    <3>6. \A j \in 1..Len(Hits(InReach')) : FALSE
      BY <3>5
    <3>7. \A k : Settled(Hits(InReach'), k, walk'.due, walk'.seen)
      BY <3>6 DEF Settled
    <3> QED BY <1>8, <3>7 DEF WalkSettled
  <2>3. CASE ShowNewest \/ ~hasDb
    <3>1. InReach' = First(Newest, source)
      BY <1>1, <1>8, <1>a, <2>3 DEF InReach
    <3>2. Settled(hits, Offset, walk.due, walk.seen)
      <4>1. CASE walk.page = 0
        <5>1. Offset = 0
          BY <1>2, <4>1 DEF Offset, Walks
        <5> QED BY <5>1 DEF Settled
      <4>2. CASE walk.page # 0
        <5>1. walk.page > 0
          BY <1>2, <4>2 DEF Walks
        <5>2. hasDb => walk.few
          BY <1>1, <1>2, <2>1, <5>1 DEF WalkInv, Complete
        <5>3. InReach = First(Newest, source)
          BY <1>1, <1>a, <2>3, <5>2 DEF InReach
        <5>4. Behind = Offset
          BY <1>1 DEF Behind, Offset
        <5> QED BY <1>b, <2>1, <5>3, <5>4 DEF WalkSettled
      <4> QED BY <4>1, <4>2
    <3>3. IsPrefixOf(hits, hits) /\ Len(hits) <= Len(hits)
      BY <1>5 DEF IsPrefixOf
    <3>4. /\ Settled(hits, (walk.page + 1) * walk.size, walk.due, seen)
          /\ ~next => \A k \in Nat : Settled(hits, k, walk.due, seen)
      BY <1>2, <1>5, <1>d, <1>e, <3>2, <3>3, ShownSettles
    <3> QED BY <1>8, <1>10, <1>b, <3>1, <3>4 DEF WalkSettled
  <2> QED BY <1>2, <2>2, <2>3
<1> QED BY <1>9, <1>11 DEF PagesInv

\* The next page begins where the last one ended, or before.
LEMMA FollowKeeps ==
  ASSUME PagesInv, FollowNext PROVE PagesInv'
<1>1. /\ walk.at = "page" /\ walk.next
      /\ walk' = [walk EXCEPT !.page = walk.page + 1, !.size = PageSize,
                              !.jumped = walk.jumped \/ walk.size < PageSize,
                              !.text = IF walk.text = "words" THEN "words" ELSE "no",
                              !.at = IF hasDb /\ walk.text # "words" THEN "count" ELSE "newest"]
      /\ hasDb' = hasDb /\ stored' = stored /\ recent' = recent
  BY DEF FollowNext
<1>2. WalkInv /\ walk \in Walks /\ hasDb \in BOOLEAN
  BY DEF PagesInv, WalkInv
<1>3. PageSize \in Nat /\ PageSize > 0 /\ walk.page \in Nat /\ walk.size \in Nat
  BY <1>2, LogPagesAssumption DEF Walks
<1>4. /\ walk'.at = IF hasDb /\ walk.text # "words" THEN "count" ELSE "newest"
      /\ walk'.text = IF walk.text = "words" THEN "words" ELSE "no"
      /\ walk'.size = PageSize /\ walk'.page = walk.page + 1
      /\ walk'.jumped = (walk.jumped \/ walk.size < PageSize)
      /\ walk'.due = walk.due /\ walk'.seen = walk.seen /\ walk'.few = walk.few
      /\ walk'.raced = walk.raced /\ walk'.failed = walk.failed
  BY <1>1, <1>2 DEF Walks
<1>5. walk' \in Walks
  <2>a. PICK jumped : jumped = (walk.jumped \/ walk.size < PageSize)
    OBVIOUS
  <2>b. PICK text : text = IF walk.text = "words" THEN "words" ELSE "no"
    OBVIOUS
  <2>c. PICK at : at = IF hasDb /\ walk.text # "words" THEN "count" ELSE "newest"
    OBVIOUS
  <2>d. PICK page : page = walk.page + 1
    OBVIOUS
  <2>1. jumped \in BOOLEAN
    BY <1>2, <2>a DEF Walks
  <2>2. text \in {"no", "words"} /\ at \in {"count", "newest"} /\ page \in Nat
    BY <1>3, <2>b, <2>c, <2>d
  <2>3. walk' = [walk EXCEPT !.page = page, !.size = PageSize, !.jumped = jumped, !.text = text,
                             !.at = at]
    BY <1>1, <2>a, <2>b, <2>c, <2>d
  <2> QED BY <1>2, <1>3, <2>1, <2>2, <2>3 DEF Walks
<1>6. WalkInv'
  <2>1. hasDb /\ ~walk.failed /\ walk.text = "words" => walk.few
    BY <1>1, <1>2 DEF WalkInv
  <2> QED BY <1>1, <1>2, <1>3, <1>4, <1>5, <2>1 DEF WalkInv
<1>7. ASSUME Complete' PROVE WalkSettled'
  <2>1. WalkSettled /\ PageSize <= walk.size
    <3>1. ~(walk.jumped \/ walk.size < PageSize)
      BY <1>4, <1>7, Zenon DEF Complete
    <3>2. ~walk.failed /\ ~walk.raced
      BY <1>4, <1>7, Zenon DEF Complete
    <3>3. Complete
      BY <3>1, <3>2, Zenon DEF Complete
    <3>4. PageSize <= walk.size
      BY <1>3, <3>1
    <3> QED BY <3>3, <3>4 DEF PagesInv
  <2>2. InReach' = InReach
    BY <1>1, <1>4 DEF InReach
  <2>3. walk'.at \in {"count", "newest"}
    BY <1>4
  <2>4. Behind' = (walk.page + 1) * PageSize /\ Behind = (walk.page + 1) * walk.size
    BY <1>1, <1>4, <2>3 DEF Behind
  <2>a. PICK reach : reach = Hits(InReach)
    OBVIOUS
  <2>5. Settled(reach, (walk.page + 1) * walk.size, walk.due, walk.seen)
    BY <2>1, <2>4, <2>a DEF WalkSettled
  <2>6. /\ (walk.page + 1) * PageSize <= (walk.page + 1) * walk.size
        /\ (walk.page + 1) * PageSize \in Nat /\ (walk.page + 1) * walk.size \in Nat
    BY <1>3, <2>1, FewerRows, Rows
  <2>b. PICK less : less = (walk.page + 1) * PageSize
    OBVIOUS
  <2>c. PICK more : more = (walk.page + 1) * walk.size
    OBVIOUS
  <2>7. \A j : j \in Int /\ j <= less => j <= more
    BY <2>6, <2>b, <2>c
  <2>8. \A j \in 1..Len(reach) : j \in Int
    OBVIOUS
  <2>9. Settled(reach, less, walk.due, walk.seen)
    BY <2>5, <2>7, <2>8, <2>c DEF Settled
  <2> QED BY <1>4, <2>2, <2>3, <2>4, <2>9, <2>a, <2>b DEF WalkSettled
<1> QED BY <1>6, <1>7 DEF PagesInv

\* What LogPages.tla holds in every state: what was due is settled up to the walk.
THEOREM WalkInductive == PagesSpec => []PagesInv
<1>1. PagesInit => PagesInv
  <2> SUFFICES ASSUME PagesInit PROVE PagesInv
    OBVIOUS
  <2>1. walk = NoWalk /\ hasDb \in BOOLEAN /\ stored = << >> /\ recent = << >>
    BY DEF PagesInit
  <2>2. << >> \in Seq(Log)
    OBVIOUS
  <2>3. walk \in Walks /\ walk.at = "none" /\ walk.due = {} /\ ~walk.failed /\ walk.page = 0
        /\ walk.size = 0
    BY <2>1 DEF NoWalk, Walks
  <2>4. WalkInv
    BY <2>1, <2>2, <2>3 DEF WalkInv
  <2>5. WalkSettled
    BY <2>3 DEF WalkSettled, Settled
  <2> QED BY <2>4, <2>5 DEF PagesInv
<1>2. PagesInv /\ [PagesNext]_pagesVars => PagesInv'
  <2> SUFFICES ASSUME PagesInv, [PagesNext]_pagesVars PROVE PagesInv'
    OBVIOUS
  <2>1. CASE UNCHANGED pagesVars
    BY <2>1 DEF pagesVars, PagesInv, WalkInv, WalkSettled, Complete, Behind, InReach
  <2> QED BY <2>1, ArrivalKeeps, PruneKeeps, OpenKeeps, CountKeeps, SelectKeeps, FailureKeeps,
             NewestKeeps, FollowKeeps DEF PagesNext
<1> QED BY <1>1, <1>2, PTL DEF PagesSpec

\* Who follows "Next" to the last page has seen all that matched at the start and can
\* still be reached, whatever comes in and goes between the pages.
THEOREM NothingIsMissed == PagesSpec => []WalkMissesNothing
<1>1. PagesInv => WalkMissesNothing
  <2> SUFFICES ASSUME PagesInv, walk.at = "page", ~walk.next, Complete,
                      NEW l \in walk.due, l \in Range(InReach)
               PROVE  l \in walk.seen
    BY DEF WalkMissesNothing, Complete
  <2>1. InReach \in Seq(Log) /\ l.hit
    <3>1. WalkInv /\ stored \in Seq(Log) /\ recent \in Seq(Log) /\ l.hit
      BY DEF PagesInv, WalkInv
    <3> QED BY <3>1, FirstIs, LogPagesAssumption DEF InReach
  <2>2. PICK i \in 1..Len(InReach) : InReach[i] = l
    BY <2>1 DEF Range
  <2>3. PICK j \in 1..Len(Hits(InReach)) : Hits(InReach)[j] = l
    BY <2>1, <2>2, HitsHit
  <2>4. j \in Nat /\ j <= j
    BY <2>1, HitsType
  <2> QED BY <2>3, <2>4 DEF PagesInv, WalkSettled, Settled
<1> QED BY <1>1, WalkInductive, PTL

=============================================================================
