-------------------------- MODULE AlertFeedProofs ---------------------------
(* No alert is passed over, and without the notification loop none is        *)
(* published twice: proofs about AlertFeed for any number of alerts and any  *)
(* size of a round.                                                          *)
EXTENDS AlertFeed, FiniteSetTheorems, TLAPS

\* Alerts are numbered in the order they are stored, and what is published has
\* been stored.
TableInv ==
  /\ IsFiniteSet(stored)
  /\ \A a \in stored : a.id <= Cardinality(stored)
  /\ \A a, b \in stored : a.id = b.id => a = b
  /\ \A i \in onBus : \E a \in stored : a.id = i

\* A round holds alerts of the table; the notification loop runs only if it is on.
RoundsInv ==
  /\ alerting.at \in {"idle", "fetched", "writing"}
  /\ notifying.at \in {"idle", "fetched", "posting"}
  /\ alerting.alerts \subseteq stored
  /\ notifying.alerts \subseteq stored
  /\ notifying.at # "idle" => notificationsOn

\* No watermark is beyond every alert stored.
Reached(t) == t = 0 \/ \E a \in stored : t <= a.ts
ReachedInv == Reached(mark) /\ Reached(alerting.newest) /\ Reached(notifying.newest)

\* An alert of which NoSevereAlertPassedOver says something.
Due(a) == /\ a \in stored
          /\ a.timely
          /\ ~CrowdedOut(a)
          /\ a.severe \/ ~notificationsOn

\* What a round has read holds every alert due that is not newer than all of it.
HasRead(round) == \A a \in stored : Due(a) =>
                    a \in round.alerts \/ \A b \in round.alerts : b.ts < a.ts
ReadInv == /\ alerting.at = "fetched" => HasRead(alerting)
           /\ notifying.at = "fetched" => HasRead(notifying)

\* The watermark the alerting loop is about to write is as good as the one it read.
WriteInv == alerting.at = "writing" =>
              \A a \in stored : Due(a) /\ a.ts <= alerting.newest => Handled(a)

\* While the notification loop is posting, an alert due has been handled, is still
\* to be posted, or is newer than what has been and what will be posted.
PostInv == notifying.at = "posting" =>
             \A a \in stored : Due(a) =>
               \/ Handled(a)
               \/ a \in notifying.alerts
               \/ a.ts > notifying.newest /\ \A b \in notifying.alerts : b.ts < a.ts

\* Without the notification loop the alerting loop has published nothing above the
\* watermark it has written or is about to write.
OnceInv == ~notificationsOn =>
  /\ \A a \in stored : a.id \in onBus =>
       a.ts <= mark \/ (alerting.at = "writing" /\ a.ts <= alerting.newest)
  /\ alerting.at = "writing" => mark <= alerting.newest

\* The inductive invariant.  NoSevereAlertPassedOver compares alerts with the
\* watermark; the loops carry that comparison over their awaits in ReadInv,
\* WriteInv and PostInv.
IInv ==
  /\ TypeOK
  /\ TableInv
  /\ RoundsInv
  /\ ReachedInv
  /\ NoSevereAlertPassedOver
  /\ ReadInv
  /\ WriteInv
  /\ PostInv
  /\ OnceInv
  /\ PublishedOnce

-----------------------------------------------------------------------------
(* The table                                                               *)

\* Timestamps are numbers above the epoch.
LEMMA StoredTypes ==
  ASSUME TypeOK
  PROVE  /\ \A a \in stored : a \in Alert /\ a.ts \in Nat /\ a.ts > 0 /\ a.id \in Nat
         /\ mark \in Nat /\ alerting.newest \in Nat /\ notifying.newest \in Nat
         /\ \A a \in alerting.alerts : a \in Alert /\ a.ts \in Nat
         /\ \A a \in notifying.alerts : a \in Alert /\ a.ts \in Nat
BY ConstantsAssumption DEF TypeOK, Alert, Times, Ids, Round

\* An alert of the table that a round has not read is crowded out (ORDER BY ts
\* DESC LIMIT).
LEMMA UnreadIsCrowdedOut ==
  ASSUME TypeOK, TableInv, NEW T, RecentAlerts(T), NEW a \in stored, a \notin T
  PROVE  CrowdedOut(a)
<1> DEFINE before == {b \in stored \ {a} : b.ts >= a.ts}
<1>1. T \subseteq stored /\ IsFiniteSet(T) /\ IsFiniteSet(before)
  BY FS_Subset DEF RecentAlerts, TableInv
<1>2. Cardinality(T) = Limit
  <2>1. Cardinality(T) # Cardinality(stored)
    BY <1>1, FS_Subset DEF TableInv
  <2> QED BY <2>1 DEF RecentAlerts
<1>3. T \subseteq before
  BY <1>1 DEF RecentAlerts
<1>4. Cardinality(T) <= Cardinality(before)
  BY <1>1, <1>3, FS_Subset
<1>5. Cardinality(T) \in Nat /\ Cardinality(before) \in Nat
  BY <1>1, FS_CardinalityType
<1> QED BY <1>2, <1>4, <1>5 DEF CrowdedOut

\* What is crowded out stays so when an alert is added.
LEMMA CrowdedOutStays ==
  ASSUME TypeOK, TableInv, NEW n, stored' = stored \cup {n}, NEW a \in stored, CrowdedOut(a)
  PROVE  CrowdedOut(a)'
<1> DEFINE before == {b \in stored \ {a} : b.ts >= a.ts}
           after == {b \in stored' \ {a} : b.ts >= a.ts}
<1>1. IsFiniteSet(stored')
  BY FS_AddElement DEF TableInv
<1>2. IsFiniteSet(after) /\ before \subseteq after
  BY <1>1, FS_Subset
<1>3. Cardinality(before) <= Cardinality(after)
  BY <1>2, FS_Subset
<1>4. Cardinality(before) \in Nat /\ Cardinality(after) \in Nat
  BY <1>2, FS_Subset, FS_CardinalityType
<1> QED BY <1>3, <1>4, ConstantsAssumption DEF CrowdedOut

\* A new alert that comes in order is newer than every watermark and every round.
LEMMA StoreStep ==
  ASSUME IInv, NEW n \in Alert, NewAlert(n), stored' = stored \cup {n},
         UNCHANGED <<notificationsOn, mark, alerting, notifying, onBus, again, attempted,
                     restarts>>,
         raising' \subseteq stored'
  PROVE  IInv'
<1> USE DEF IInv
<1>1. TypeOK'
  BY DEF TypeOK
<1>2. /\ \A a \in stored : a \in Alert /\ a.ts \in Nat /\ a.ts > 0 /\ a.id \in Nat
      /\ mark \in Nat /\ alerting.newest \in Nat /\ notifying.newest \in Nat
      /\ n.ts \in Nat /\ n.ts > 0
  BY StoredTypes, ConstantsAssumption DEF Alert, Times
<1>3. Cardinality(stored) \in Nat
  BY FS_CardinalityType DEF TableInv
<1>4. n \notin stored
  BY <1>2, <1>3 DEF NewAlert, TableInv
<1>5. TableInv'
  <2>1. IsFiniteSet(stored') /\ Cardinality(stored') = Cardinality(stored) + 1
    BY <1>4, FS_AddElement DEF TableInv
  <2>2. \A a \in stored' : a.id <= Cardinality(stored')
    BY <1>2, <1>3, <2>1 DEF NewAlert, TableInv
  <2>3. \A a, b \in stored' : a.id = b.id => a = b
    BY <1>2, <1>3 DEF NewAlert, TableInv
  <2> QED BY <2>1, <2>2, <2>3 DEF TableInv
<1>6. RoundsInv'
  BY DEF RoundsInv
<1>7. ReachedInv'
  BY DEF ReachedInv, Reached
<1>8. ASSUME NEW a \in stored', Due(a)'
      PROVE  \/ a \in stored /\ Due(a)
             \/ /\ a = n
                /\ \A b \in stored : b.ts < n.ts
                /\ n.ts > mark /\ n.ts > alerting.newest /\ n.ts > notifying.newest
  <2>1. CASE a \in stored
    BY <1>8, <2>1, CrowdedOutStays DEF Due
  <2>2. CASE a = n
    <3>1. \A b \in stored : b.ts < n.ts
      BY <1>8, <2>2 DEF Due, NewAlert
    <3>2. ASSUME NEW t \in Nat, Reached(t) PROVE n.ts > t
      BY <1>2, <3>1, <3>2 DEF Reached
    <3> QED BY <1>2, <2>2, <3>1, <3>2 DEF ReachedInv
  <2> QED BY <2>1, <2>2
<1>9. NoSevereAlertPassedOver'
  <2> SUFFICES ASSUME NEW a \in stored', Due(a)', a.ts <= mark PROVE Handled(a)
    BY DEF NoSevereAlertPassedOver, Due, Handled
  <2> QED BY <1>2, <1>8 DEF NoSevereAlertPassedOver, Due
<1>10. ReadInv'
  BY <1>8 DEF ReadInv, HasRead, RoundsInv
<1>11. WriteInv'
  <2> SUFFICES ASSUME alerting.at = "writing", NEW a \in stored', Due(a)', a.ts <= alerting.newest
               PROVE  Handled(a)
    BY DEF WriteInv, Handled
  <2> QED BY <1>2, <1>8 DEF WriteInv
<1>12. PostInv'
  <2> SUFFICES ASSUME notifying.at = "posting", NEW a \in stored', Due(a)'
               PROVE  \/ Handled(a)
                      \/ a \in notifying.alerts
                      \/ a.ts > notifying.newest /\ \A b \in notifying.alerts : b.ts < a.ts
    BY DEF PostInv, Handled
  <2> QED BY <1>2, <1>8 DEF PostInv, RoundsInv
<1>13. OnceInv' /\ PublishedOnce'
  <2>1. n.id \notin onBus
    BY <1>2, <1>3 DEF NewAlert, TableInv
  <2> QED BY <2>1 DEF OnceInv, PublishedOnce
<1> QED BY <1>1, <1>5, <1>6, <1>7, <1>9, <1>10, <1>11, <1>12, <1>13

-----------------------------------------------------------------------------
(* The alerting loop                                                       *)

\* Only the fields of its round change when the alerting loop reads.
LEMMA AlertingFetchInv == IInv /\ AlertingFetch => IInv'
<1> SUFFICES ASSUME IInv, AlertingFetch PROVE IInv'
  OBVIOUS
<1> USE DEF IInv
<1>1. PICK T \in SUBSET stored :
        /\ RecentAlerts(T)
        /\ alerting' = [IdleRound EXCEPT !.at = "fetched", !.alerts = T]
  BY DEF AlertingFetch
<1>2. /\ alerting'.at = "fetched" /\ alerting'.alerts = T /\ alerting'.newest = 0
      /\ alerting' \in Round
  <2>1. alerting' = [at |-> "fetched", alerts |-> T, last |-> 0, newest |-> 0]
    BY <1>1 DEF IdleRound
  <2>2. T \in SUBSET Alert /\ 0 \in 0..MaxTime
    BY ConstantsAssumption DEF TypeOK
  <2> QED BY <2>1, <2>2 DEF Round
<1>3. UNCHANGED <<notificationsOn, stored, mark, notifying, raising, onBus, again, attempted,
                  restarts>>
  BY DEF AlertingFetch
<1>4. TypeOK' /\ TableInv' /\ RoundsInv' /\ ReachedInv'
  BY <1>2, <1>3 DEF TypeOK, TableInv, RoundsInv, ReachedInv, Reached
<1>5. ReadInv'
  <2>1. \A a \in stored : a \in T \/ CrowdedOut(a)
    BY <1>1, UnreadIsCrowdedOut
  <2> QED BY <1>2, <1>3, <2>1 DEF ReadInv, HasRead, Due, CrowdedOut
<1>6. NoSevereAlertPassedOver' /\ PostInv'
  BY <1>3 DEF NoSevereAlertPassedOver, PostInv, Due, CrowdedOut, Handled
<1>7. WriteInv' /\ OnceInv' /\ PublishedOnce'
  <2>1. alerting.at = "idle"
    BY DEF AlertingFetch
  <2> QED BY <1>2, <1>3, <2>1 DEF WriteInv, OnceInv, PublishedOnce
<1> QED BY <1>4, <1>5, <1>6, <1>7

\* Every alert above the watermark that has been read is published, so the newest
\* of them is as good a watermark as the one read; and none was published before.
LEMMA AlertingPublishInv == IInv /\ AlertingPublish => IInv'
<1> SUFFICES ASSUME IInv, AlertingPublish PROVE IInv'
  OBVIOUS
<1> USE DEF IInv
<1> DEFINE fresh == {a \in alerting.alerts : a.ts > mark}
           ids == {a.id : a \in fresh}
<1>1. PICK t \in 0..MaxTime :
        /\ IsNewest(t, mark, fresh)
        /\ alerting' = [at |-> "writing", alerts |-> {}, last |-> mark, newest |-> t]
  BY DEF AlertingPublish
<1>2. /\ alerting.at = "fetched"
      /\ again' = again \cup (onBus \cap ids)
      /\ onBus' = onBus \cup ids
      /\ UNCHANGED <<notificationsOn, stored, mark, notifying, raising, attempted, restarts>>
  BY DEF AlertingPublish
<1>3. /\ alerting'.at = "writing" /\ alerting'.alerts = {} /\ alerting'.newest = t
      /\ alerting' \in Round
  BY <1>1 DEF Round, TypeOK
<1>4. /\ t \in Nat /\ t >= mark /\ \A a \in fresh : t >= a.ts
      /\ t = mark \/ \E a \in fresh : t = a.ts
  BY <1>1, ConstantsAssumption DEF IsNewest
<1>5. /\ \A a \in stored : a \in Alert /\ a.ts \in Nat /\ a.id \in Ids
      /\ mark \in Nat
      /\ fresh \subseteq stored
  BY StoredTypes DEF RoundsInv, Alert
<1> HIDE DEF fresh, ids
<1>6. ids \subseteq Ids
  BY <1>5 DEF ids
<1>7. TypeOK'
  BY <1>2, <1>3, <1>6 DEF TypeOK
<1>8. TableInv' /\ RoundsInv'
  BY <1>2, <1>3, <1>5 DEF TableInv, RoundsInv, ids
<1>9. ReachedInv'
  BY <1>2, <1>3, <1>4, <1>5 DEF ReachedInv, Reached
<1>10. \A a : Handled(a) => Handled(a)'
  BY <1>2 DEF Handled
<1>11. \A a : Due(a)' <=> Due(a)
  BY <1>2 DEF Due, CrowdedOut
<1>12. NoSevereAlertPassedOver'
  BY <1>2, <1>10 DEF NoSevereAlertPassedOver, CrowdedOut
<1>13. ReadInv' /\ PostInv'
  BY <1>2, <1>3, <1>10, <1>11 DEF ReadInv, HasRead, PostInv
<1>14. WriteInv'
  <2> SUFFICES ASSUME NEW a \in stored, Due(a), a.ts <= t PROVE Handled(a)'
    BY <1>2, <1>3, <1>11 DEF WriteInv
  <2>1. CASE a.ts <= mark
    BY <1>10, <2>1 DEF NoSevereAlertPassedOver, Due
  <2>2. CASE a.ts > mark /\ a \in alerting.alerts
    <3>1. a.id \in ids
      BY <2>2 DEF ids, fresh
    <3> QED BY <1>2, <3>1 DEF Handled
  <2>3. CASE a.ts > mark /\ \A b \in alerting.alerts : b.ts < a.ts
    <3>1. PICK b \in fresh : t = b.ts
      BY <1>4, <1>5, <2>3
    <3>2. b.ts < a.ts
      BY <2>3 DEF fresh
    <3> QED BY <1>5, <3>1, <3>2
  <2> QED BY <1>2, <1>5, <2>1, <2>2, <2>3 DEF ReadInv, HasRead
<1>15. OnceInv' /\ PublishedOnce'
  <2> SUFFICES ASSUME ~notificationsOn
               PROVE  /\ again' = {}
                      /\ \A a \in stored : a.id \in onBus' => a.ts <= t
                      /\ mark <= t
    BY <1>2, <1>3 DEF OnceInv, PublishedOnce
  <2>1. \A a \in stored : a.id \in onBus => a.ts <= mark
    BY <1>2 DEF OnceInv
  <2>2. \A a \in stored : a.id \in ids => a \in fresh
    BY <1>5 DEF ids, TableInv
  <2>3. \A a \in fresh : a.ts > mark
    BY DEF fresh
  <2>4. onBus \cap ids = {}
    BY <1>5, <2>1, <2>2, <2>3 DEF TableInv
  <2>5. \A a \in stored : a.id \in onBus' => a.ts <= t
    BY <1>2, <1>4, <1>5, <2>1, <2>2
  <2> QED BY <1>2, <1>4, <2>4, <2>5 DEF PublishedOnce
<1> QED BY <1>7, <1>8, <1>9, <1>12, <1>13, <1>14, <1>15

\* Writing the watermark: WriteInv becomes NoSevereAlertPassedOver.
LEMMA AlertingWriteInv == IInv /\ AlertingWrite => IInv'
<1> SUFFICES ASSUME IInv, AlertingWrite PROVE IInv'
  OBVIOUS
<1> USE DEF IInv
<1>1. /\ alerting.at = "writing" /\ mark' = alerting.newest /\ alerting' = IdleRound
      /\ UNCHANGED <<notificationsOn, stored, notifying, raising, onBus, again, attempted,
                     restarts>>
  BY DEF AlertingWrite
<1>2. /\ alerting'.at = "idle" /\ alerting'.alerts = {} /\ alerting'.newest = 0
      /\ alerting' \in Round
  BY <1>1, ConstantsAssumption DEF IdleRound, Round
<1>3. TypeOK' /\ TableInv' /\ RoundsInv' /\ ReachedInv'
  BY <1>1, <1>2 DEF TypeOK, Round, TableInv, RoundsInv, ReachedInv, Reached
<1>4. \A a : (Due(a)' <=> Due(a)) /\ (Handled(a)' <=> Handled(a))
  BY <1>1 DEF Due, CrowdedOut, Handled
<1>5. NoSevereAlertPassedOver'
  <2> SUFFICES ASSUME NEW a \in stored, Due(a), a.ts <= alerting.newest PROVE Handled(a)
    BY <1>1, <1>4 DEF NoSevereAlertPassedOver, Due
  <2> QED BY <1>1 DEF WriteInv
<1>6. ReadInv' /\ WriteInv' /\ PostInv'
  BY <1>1, <1>2, <1>4 DEF ReadInv, HasRead, WriteInv, PostInv
<1>7. OnceInv' /\ PublishedOnce'
  <2>1. /\ \A a \in stored : a.ts \in Nat
        /\ mark \in Nat /\ alerting.newest \in Nat
    BY StoredTypes
  <2> QED BY <1>1, <1>2, <2>1 DEF OnceInv, PublishedOnce
<1> QED BY <1>3, <1>5, <1>6, <1>7

-----------------------------------------------------------------------------
(* The notification loop                                                   *)

\* Reading, as for the alerting loop.
LEMMA NotifyFetchInv == IInv /\ NotifyFetch => IInv'
<1> SUFFICES ASSUME IInv, NotifyFetch PROVE IInv'
  OBVIOUS
<1> USE DEF IInv
<1>1. PICK T \in SUBSET stored :
        /\ RecentAlerts(T)
        /\ notifying' = [IdleRound EXCEPT !.at = "fetched", !.alerts = T]
  BY DEF NotifyFetch
<1>2. /\ notifying'.at = "fetched" /\ notifying'.alerts = T /\ notifying'.newest = 0
      /\ notifying' \in Round
  <2>1. notifying' = [at |-> "fetched", alerts |-> T, last |-> 0, newest |-> 0]
    BY <1>1 DEF IdleRound
  <2>2. T \in SUBSET Alert /\ 0 \in 0..MaxTime
    BY ConstantsAssumption DEF TypeOK
  <2> QED BY <2>1, <2>2 DEF Round
<1>3. /\ UNCHANGED <<notificationsOn, stored, mark, alerting, raising, onBus, again, attempted,
                     restarts>>
      /\ notificationsOn
  BY DEF NotifyFetch
<1>4. TypeOK' /\ TableInv' /\ RoundsInv' /\ ReachedInv'
  BY <1>2, <1>3 DEF TypeOK, TableInv, RoundsInv, ReachedInv, Reached
<1>5. ReadInv'
  <2>1. \A a \in stored : a \in T \/ CrowdedOut(a)
    BY <1>1, UnreadIsCrowdedOut
  <2> QED BY <1>2, <1>3, <2>1 DEF ReadInv, HasRead, Due, CrowdedOut
<1>6. NoSevereAlertPassedOver' /\ WriteInv' /\ PostInv'
  BY <1>2, <1>3 DEF NoSevereAlertPassedOver, WriteInv, PostInv, Due, CrowdedOut, Handled
<1>7. OnceInv' /\ PublishedOnce'
  BY <1>3 DEF OnceInv, PublishedOnce
<1> QED BY <1>4, <1>5, <1>6, <1>7

\* An alert due is severe, as the loop is on: it is kept if it is above the
\* watermark and has been handled if not.
LEMMA NotifyFilterInv == IInv /\ NotifyFilter => IInv'
<1> SUFFICES ASSUME IInv, NotifyFilter PROVE IInv'
  OBVIOUS
<1> USE DEF IInv
<1> DEFINE kept == {a \in notifying.alerts : a.ts > mark /\ a.severe}
<1>1. /\ notifying.at = "fetched"
      /\ notifying' = [at |-> "posting", last |-> mark, newest |-> mark, alerts |-> kept]
      /\ UNCHANGED <<notificationsOn, stored, mark, alerting, raising, onBus, again, attempted,
                     restarts>>
  BY DEF NotifyFilter
<1>2. /\ notifying'.at = "posting" /\ notifying'.alerts = kept /\ notifying'.newest = mark
      /\ kept \subseteq notifying.alerts
      /\ notificationsOn
  BY <1>1 DEF RoundsInv
<1>3. notifying' \in Round
  BY <1>1, <1>2 DEF TypeOK, Round
<1>4. TypeOK' /\ TableInv' /\ RoundsInv' /\ ReachedInv'
  BY <1>1, <1>2, <1>3 DEF TypeOK, TableInv, RoundsInv, ReachedInv, Reached
<1>5. \A a : (Due(a)' <=> Due(a)) /\ (Handled(a)' <=> Handled(a))
  BY <1>1 DEF Due, CrowdedOut, Handled
<1>6. NoSevereAlertPassedOver' /\ ReadInv' /\ WriteInv'
  BY <1>1, <1>2, <1>5 DEF NoSevereAlertPassedOver, CrowdedOut, ReadInv, HasRead, WriteInv
<1>7. PostInv'
  <2> SUFFICES ASSUME NEW a \in stored, Due(a)
               PROVE  \/ Handled(a)
                      \/ a \in kept
                      \/ a.ts > mark /\ \A b \in kept : b.ts < a.ts
    BY <1>1, <1>2, <1>5 DEF PostInv
  <2>1. a.severe /\ a.ts \in Nat /\ mark \in Nat
    BY <1>2, StoredTypes DEF Due
  <2>2. CASE a.ts <= mark
    BY <2>2 DEF NoSevereAlertPassedOver, Due
  <2>3. CASE a.ts > mark
    BY <1>1, <1>2, <2>1, <2>3 DEF ReadInv, HasRead
  <2> QED BY <2>1, <2>2, <2>3
<1>8. OnceInv' /\ PublishedOnce'
  BY <1>1 DEF OnceInv, PublishedOnce
<1> QED BY <1>4, <1>6, <1>7, <1>8

\* The newest of the alerts left is posted.
LEMMA NotifyPostInv == IInv /\ NotifyPost => IInv'
<1> SUFFICES ASSUME IInv, NotifyPost PROVE IInv'
  OBVIOUS
<1> USE DEF IInv
<1>1. PICK p \in notifying.alerts :
        /\ \A b \in notifying.alerts : b.ts <= p.ts
        /\ attempted' = attempted \cup {p.id}
        /\ notifying' = [notifying EXCEPT !.alerts = @ \ {p}, !.newest = MaxOf(@, p.ts)]
  BY DEF NotifyPost
<1>2. /\ notifying.at = "posting" /\ notificationsOn
      /\ UNCHANGED <<notificationsOn, stored, mark, alerting, raising, onBus, again, restarts>>
  BY DEF NotifyPost, RoundsInv
<1>3. /\ p \in stored /\ p.ts \in 0..MaxTime /\ p.id \in Ids /\ p.ts \in Nat
      /\ notifying.newest \in 0..MaxTime /\ notifying.newest \in Nat
  BY StoredTypes, ConstantsAssumption DEF RoundsInv, TypeOK, Alert, Times, Round
<1>4. MaxOf(notifying.newest, p.ts) \in {notifying.newest, p.ts}
  BY DEF MaxOf
<1>5. /\ notifying'.at = "posting"
      /\ notifying'.alerts = notifying.alerts \ {p}
      /\ notifying'.newest = MaxOf(notifying.newest, p.ts)
      /\ notifying' \in Round
  BY <1>1, <1>2, <1>3, <1>4 DEF TypeOK, Round
<1>6. TypeOK' /\ TableInv' /\ RoundsInv'
  BY <1>1, <1>2, <1>3, <1>5 DEF TypeOK, TableInv, RoundsInv
<1>7. ReachedInv'
  BY <1>2, <1>3, <1>4, <1>5 DEF ReachedInv, Reached
<1>8. \A a : (Due(a)' <=> Due(a)) /\ (Handled(a) => Handled(a)')
  BY <1>1, <1>2 DEF Due, CrowdedOut, Handled
<1>9. NoSevereAlertPassedOver' /\ ReadInv' /\ WriteInv'
  BY <1>2, <1>5, <1>8 DEF NoSevereAlertPassedOver, CrowdedOut, ReadInv, HasRead, WriteInv
<1>10. PostInv'
  <2> SUFFICES ASSUME NEW a \in stored, Due(a)
               PROVE  \/ Handled(a)'
                      \/ a \in notifying.alerts \ {p}
                      \/ /\ a.ts > MaxOf(notifying.newest, p.ts)
                         /\ \A b \in notifying.alerts \ {p} : b.ts < a.ts
    BY <1>2, <1>5, <1>8 DEF PostInv
  <2>1. CASE Handled(a)
    BY <1>8, <2>1
  <2>2. CASE a = p
    BY <1>1, <2>2 DEF Handled
  <2>3. CASE a \in notifying.alerts \ {p}
    BY <2>3
  <2>4. CASE a.ts > notifying.newest /\ \A b \in notifying.alerts : b.ts < a.ts
    BY <1>4, <2>4
  <2> QED BY <1>2, <2>1, <2>2, <2>3, <2>4 DEF PostInv
<1>11. OnceInv' /\ PublishedOnce'
  BY <1>2 DEF OnceInv, PublishedOnce
<1> QED BY <1>6, <1>7, <1>9, <1>10, <1>11

\* With nothing left to post, PostInv says of the new watermark what
\* NoSevereAlertPassedOver says of the old one.
LEMMA NotifyWriteInv == IInv /\ NotifyWrite => IInv'
<1> SUFFICES ASSUME IInv, NotifyWrite PROVE IInv'
  OBVIOUS
<1> USE DEF IInv
<1>1. /\ notifying.at = "posting" /\ notifying.alerts = {} /\ notifying' = IdleRound
      /\ mark' \in {notifying.newest, mark}
      /\ notificationsOn
      /\ UNCHANGED <<notificationsOn, stored, alerting, raising, onBus, again, attempted, restarts>>
  BY DEF NotifyWrite, RoundsInv
<1>2. /\ notifying'.at = "idle" /\ notifying'.alerts = {} /\ notifying'.newest = 0
      /\ notifying' \in Round
  BY <1>1, ConstantsAssumption DEF IdleRound, Round
<1>3. TypeOK' /\ TableInv' /\ RoundsInv' /\ ReachedInv'
  <2>1. mark' \in 0..MaxTime
    BY <1>1 DEF TypeOK, Round
  <2>2. TypeOK'
    BY <1>1, <1>2, <2>1 DEF TypeOK
  <2> QED BY <1>1, <1>2, <2>2 DEF TableInv, RoundsInv, ReachedInv, Reached
<1>4. \A a : (Due(a)' <=> Due(a)) /\ (Handled(a)' <=> Handled(a))
  BY <1>1 DEF Due, CrowdedOut, Handled
<1>5. NoSevereAlertPassedOver'
  <2> SUFFICES ASSUME NEW a \in stored, Due(a), a.ts <= mark' PROVE Handled(a)
    BY <1>1, <1>4 DEF NoSevereAlertPassedOver, Due
  <2>1. CASE mark' = mark
    BY <2>1 DEF NoSevereAlertPassedOver, Due
  <2>2. CASE mark' = notifying.newest
    <3>1. a.ts \in Nat /\ notifying.newest \in Nat
      BY StoredTypes
    <3> QED BY <1>1, <2>2, <3>1 DEF PostInv
  <2> QED BY <1>1, <2>1, <2>2
<1>6. ReadInv' /\ WriteInv' /\ PostInv'
  BY <1>1, <1>2, <1>4 DEF ReadInv, HasRead, WriteInv, PostInv
<1>7. OnceInv' /\ PublishedOnce'
  BY <1>1 DEF OnceInv, PublishedOnce
<1> QED BY <1>3, <1>5, <1>6, <1>7

-----------------------------------------------------------------------------
(* The other steps and the theorems                                        *)

LEMMA InitInv == Init => IInv
<1> SUFFICES ASSUME Init PROVE IInv
  OBVIOUS
<1> USE DEF Init
<1>1. /\ alerting.at = "idle" /\ alerting.alerts = {} /\ alerting.newest = 0
      /\ notifying.at = "idle" /\ notifying.alerts = {} /\ notifying.newest = 0
      /\ alerting \in Round /\ notifying \in Round
  BY ConstantsAssumption DEF IdleRound, Round
<1>2. TypeOK
  BY <1>1, ConstantsAssumption DEF TypeOK
<1>3. TableInv
  BY FS_EmptySet DEF TableInv
<1>4. RoundsInv /\ ReachedInv /\ NoSevereAlertPassedOver
  BY <1>1 DEF RoundsInv, ReachedInv, Reached, NoSevereAlertPassedOver
<1>5. ReadInv /\ WriteInv /\ PostInv /\ OnceInv /\ PublishedOnce
  BY <1>1 DEF ReadInv, WriteInv, PostInv, OnceInv, PublishedOnce
<1> QED BY <1>2, <1>3, <1>4, <1>5 DEF IInv

\* Both ways into the table are a StoreStep.
LEMMA StoringInv == IInv /\ (Ingest \/ DigestStore) => IInv'
<1>1. ASSUME IInv, Ingest PROVE IInv'
  <2>1. PICK n \in Alert : NewAlert(n) /\ stored' = stored \cup {n}
    BY <1>1 DEF Ingest
  <2>2. UNCHANGED <<notificationsOn, mark, alerting, notifying, raising, onBus, again, attempted,
                    restarts>>
    BY <1>1 DEF Ingest, loopVars
  <2>3. raising' \subseteq stored'
    BY <1>1, <2>1, <2>2 DEF IInv, TypeOK
  <2> QED BY <1>1, <2>1, <2>2, <2>3, StoreStep
<1>2. ASSUME IInv, DigestStore PROVE IInv'
  <2>1. PICK n \in Alert : NewAlert(n) /\ stored' = stored \cup {n} /\ raising' = {n}
    BY <1>2 DEF DigestStore
  <2>2. UNCHANGED <<notificationsOn, mark, alerting, notifying, onBus, again, attempted, restarts>>
    BY <1>2 DEF DigestStore
  <2> QED BY <1>2, <2>1, <2>2, StoreStep
<1> QED BY <1>1, <1>2

\* A step that leaves all but raising alone.
LEMMA QuietStep ==
  ASSUME IInv, raising' \subseteq stored,
         UNCHANGED <<notificationsOn, stored, mark, alerting, notifying, onBus, again, attempted,
                     restarts>>
  PROVE  IInv'
<1>1. TypeOK' /\ TableInv' /\ RoundsInv' /\ ReachedInv'
  BY DEF IInv, TypeOK, TableInv, RoundsInv, ReachedInv, Reached
<1>2. NoSevereAlertPassedOver' /\ PublishedOnce' /\ OnceInv'
  BY DEF IInv, NoSevereAlertPassedOver, PublishedOnce, OnceInv, CrowdedOut, Handled
<1>3. ReadInv' /\ WriteInv' /\ PostInv'
  BY DEF IInv, ReadInv, HasRead, WriteInv, PostInv, Due, CrowdedOut, Handled
<1> QED BY <1>1, <1>2, <1>3 DEF IInv

\* After a restart the watermark is below every alert.
LEMMA RestartInv == IInv /\ Restart => IInv'
<1> SUFFICES ASSUME IInv, Restart PROVE IInv'
  OBVIOUS
<1> USE DEF IInv, Restart
<1>1. /\ alerting'.at = "idle" /\ alerting'.alerts = {} /\ alerting'.newest = 0
      /\ notifying'.at = "idle" /\ notifying'.alerts = {} /\ notifying'.newest = 0
      /\ alerting' \in Round /\ notifying' \in Round
  BY ConstantsAssumption DEF IdleRound, Round
<1>2. TypeOK'
  <2>1. restarts' \in 0..MaxRestarts /\ mark' \in 0..MaxTime
    BY ConstantsAssumption DEF TypeOK
  <2> QED BY <1>1, <2>1 DEF TypeOK
<1>3. TableInv' /\ RoundsInv' /\ ReachedInv'
  BY <1>1 DEF TableInv, RoundsInv, ReachedInv, Reached
<1>4. NoSevereAlertPassedOver'
  <2>1. \A a \in stored' : ~(a.ts <= mark')
    BY StoredTypes
  <2> QED BY <2>1 DEF NoSevereAlertPassedOver
<1>5. ReadInv' /\ WriteInv' /\ PostInv' /\ OnceInv' /\ PublishedOnce'
  BY <1>1 DEF ReadInv, WriteInv, PostInv, OnceInv, PublishedOnce
<1> QED BY <1>2, <1>3, <1>4, <1>5

\* The invariant holds however the two loops, the digest, the ingestor and
\* restarts interleave.
THEOREM Inductive == Spec => []IInv
<1>1. IInv /\ [Next]_vars => IInv'
  <2> SUFFICES ASSUME IInv, [Next]_vars PROVE IInv'
    OBVIOUS
  <2>1. CASE Ingest \/ DigestStore
    BY <2>1, StoringInv
  <2>2. CASE DigestPublish
    BY <2>2, QuietStep DEF DigestPublish
  <2>3. CASE AlertingFetch
    BY <2>3, AlertingFetchInv
  <2>4. CASE AlertingPublish
    BY <2>4, AlertingPublishInv
  <2>5. CASE AlertingWrite
    BY <2>5, AlertingWriteInv
  <2>6. CASE NotifyFetch
    BY <2>6, NotifyFetchInv
  <2>7. CASE NotifyFilter
    BY <2>7, NotifyFilterInv
  <2>8. CASE NotifyPost
    BY <2>8, NotifyPostInv
  <2>9. CASE NotifyWrite
    BY <2>9, NotifyWriteInv
  <2>10. CASE Restart
    BY <2>10, RestartInv
  <2>11. CASE UNCHANGED vars
    BY <2>11, QuietStep DEF vars, loopVars, IInv, TypeOK
  <2> QED BY <2>1, <2>2, <2>3, <2>4, <2>5, <2>6, <2>7, <2>8, <2>9, <2>10, <2>11 DEF Next
<1> QED BY <1>1, InitInv, PTL DEF Spec

\* Every state is one of the loops' states: rounds hold stored alerts, watermarks
\* are times, and what is published twice was published (background.rs).
THEOREM TypeCorrect == Spec => []TypeOK
<1>1. IInv => TypeOK
  BY DEF IInv
<1> QED BY <1>1, Inductive, PTL

\* However the two loops overlap on last_alert_ts, an alert stored in order is not
\* passed over: the alerting and the notification loop never move the watermark to
\* it before one of them has published or posted it.
THEOREM NoAlertIsPassedOver == Spec => []NoSevereAlertPassedOver
<1>1. IInv => NoSevereAlertPassedOver
  BY DEF IInv
<1> QED BY <1>1, Inductive, PTL

\* Without a webhook the alerting loop, alone on the watermark, publishes each
\* alert once in the life of a process.
THEOREM NonePublishedTwice == Spec => []PublishedOnce
<1>1. IInv => PublishedOnce
  BY DEF IInv
<1> QED BY <1>1, Inductive, PTL
=============================================================================
