----------------------------- MODULE AlertFeed ------------------------------
(***************************************************************************)
(* How a stored security alert reaches people: the alerting loop publishes *)
(* it on the event bus, the notification loop posts it to a webhook, and   *)
(* the insight digest publishes the alerts it raises itself                *)
(* (observa-server/src/background.rs).                                     *)
(*                                                                         *)
(* The first two loops poll the newest Limit alerts every 30 seconds.  The *)
(* stagger only delays their first tick (a ticker with Skip returns to     *)
(* multiples of its period), so afterwards their rounds overlap.  They     *)
(* share one watermark, BackgroundState.last_alert_ts: each reads it,      *)
(* works, and writes it back, with awaits in between.                      *)
(***************************************************************************)
EXTENDS Naturals, FiniteSets

CONSTANTS
  MaxAlerts,        \* bound on the alerts stored
  MaxTime,          \* timestamps are 1..MaxTime; 0 is UNIX_EPOCH
  Limit,            \* how many alerts a round reads (50 in the code)
  Notifications,    \* the settings of notifications to look at
  MaxRestarts       \* bound on the restarts of the process

ASSUME ConstantsAssumption ==
  /\ MaxAlerts \in Nat
  /\ MaxTime \in Nat
  /\ Limit \in Nat \ {0}
  /\ Notifications \subseteq BOOLEAN
  /\ MaxRestarts \in Nat

VARIABLES
  notificationsOn,  \* notifications_enabled, with a webhook URL: fixed at start
  stored,     \* the alerts in the database
  mark,       \* last_alert_ts
  alerting,   \* the alerting loop's round
  notifying,  \* the notification loop's round
  raising,    \* alerts the digest has stored and not yet published
  onBus,      \* history: ids the alerting loop has published
  again,      \* history: ids it has published more than once
  attempted,  \* history: ids posted to the webhook
  restarts    \* how often the process has been restarted

loopVars == <<mark, alerting, notifying, raising, onBus, again, attempted>>
vars == <<notificationsOn, stored, loopVars, restarts>>

Times == 1..MaxTime

\* An alert's random id is only compared; alerts are numbered as they are stored.
Ids == 1..MaxAlerts

\* severe: at or above NOTIFICATION_SEVERITY_THRESHOLD.
\* timely: history, newer than every alert stored before it.
Alert == [id : Ids, ts : Times, severe : BOOLEAN, timely : BOOLEAN]

\* A round: where it is, the alerts it has read and not yet handled, the
\* watermark it read (last) and the one it is going to write (newest).
Round == [at : {"idle", "fetched", "posting", "writing"}, alerts : SUBSET Alert,
          last : 0..MaxTime, newest : 0..MaxTime]
IdleRound == [at |-> "idle", alerts |-> {}, last |-> 0, newest |-> 0]

TypeOK ==
  /\ notificationsOn \in Notifications
  /\ stored \subseteq Alert
  /\ mark \in 0..MaxTime
  /\ alerting \in Round
  /\ notifying \in Round
  /\ raising \subseteq stored
  /\ onBus \subseteq Ids
  /\ again \subseteq onBus
  /\ attempted \subseteq Ids
  /\ restarts \in 0..MaxRestarts

Init ==
  /\ notificationsOn \in Notifications
  /\ stored = {}
  /\ mark = 0
  /\ alerting = IdleRound
  /\ notifying = IdleRound
  /\ raising = {}
  /\ onBus = {}
  /\ again = {}
  /\ attempted = {}
  /\ restarts = 0

-----------------------------------------------------------------------------
(* Alerts enter the table                                                  *)

NewAlert(a) ==
  /\ a.id = Cardinality(stored) + 1
  /\ a.timely = (\A b \in stored : b.ts < a.ts)

\* The ingestor stores a security log line, with the journal's timestamp.
Ingest ==
  \E a \in Alert :
    /\ NewAlert(a)
    /\ stored' = stored \cup {a}
    /\ UNCHANGED <<notificationsOn, loopVars, restarts>>

\* The digest stores an alert (always Critical) ...
DigestStore ==
  \E a \in Alert :
    /\ raising = {}
    /\ a.severe
    /\ NewAlert(a)
    /\ stored' = stored \cup {a}
    /\ raising' = {a}
    /\ UNCHANGED <<notificationsOn, mark, alerting, notifying, onBus, again, attempted, restarts>>

\* ... and publishes it, beside whatever the alerting loop does with it.
DigestPublish ==
  /\ raising # {}
  /\ raising' = {}
  /\ UNCHANGED <<notificationsOn, stored, mark, alerting, notifying, onBus, again, attempted,
                 restarts>>

-----------------------------------------------------------------------------
(* The rounds                                                              *)

\* ORDER BY ts DESC LIMIT: T is what security::recent may return.
RecentAlerts(T) ==
  /\ T \subseteq stored
  /\ Cardinality(T) = IF Cardinality(stored) < Limit THEN Cardinality(stored) ELSE Limit
  /\ \A x \in T, y \in stored \ T : x.ts >= y.ts

MaxOf(a, b) == IF a > b THEN a ELSE b

\* t is the larger of floor and the newest timestamp in S.
IsNewest(t, floor, S) == /\ t \in {floor} \cup {a.ts : a \in S}
                         /\ t >= floor
                         /\ \A a \in S : t >= a.ts

\* A read error and an empty table both end the round at once.
AlertingFetch ==
  /\ alerting.at = "idle"
  /\ \E T \in SUBSET stored :
       /\ RecentAlerts(T)
       /\ T # {}
       /\ alerting' = [IdleRound EXCEPT !.at = "fetched", !.alerts = T]
  /\ UNCHANGED <<notificationsOn, stored, mark, notifying, raising, onBus, again, attempted, restarts>>

\* Reads the watermark and publishes everything above it.
AlertingPublish ==
  /\ alerting.at = "fetched"
  /\ LET fresh == {a \in alerting.alerts : a.ts > mark}
         ids == {a.id : a \in fresh} IN
       /\ again' = again \cup (onBus \cap ids)
       /\ onBus' = onBus \cup ids
       /\ \E t \in 0..MaxTime :
            /\ IsNewest(t, mark, fresh)
            /\ alerting' = [at |-> "writing", alerts |-> {}, last |-> mark, newest |-> t]
  /\ UNCHANGED <<notificationsOn, stored, mark, notifying, raising, attempted, restarts>>

\* Mutant: the watermark is set to the newest alert stored by now.
AlertingWriteNow ==
  /\ alerting.at = "writing"
  /\ mark' \in 0..MaxTime
  /\ IsNewest(mark', alerting.newest, stored)
  /\ alerting' = IdleRound
  /\ UNCHANGED <<notificationsOn, stored, notifying, raising, onBus, again, attempted, restarts>>

\* Writes the watermark, whether it has moved or not.
AlertingWrite ==
  /\ alerting.at = "writing"
  /\ mark' = alerting.newest
  /\ alerting' = IdleRound
  /\ UNCHANGED <<notificationsOn, stored, notifying, raising, onBus, again, attempted, restarts>>

NotifyFetch ==
  /\ notificationsOn
  /\ notifying.at = "idle"
  /\ \E T \in SUBSET stored :
       /\ RecentAlerts(T)
       /\ T # {}
       /\ notifying' = [IdleRound EXCEPT !.at = "fetched", !.alerts = T]
  /\ UNCHANGED <<notificationsOn, stored, mark, alerting, raising, onBus, again, attempted, restarts>>

\* Reads the watermark and keeps the severe alerts above it.
NotifyFilter ==
  /\ notifying.at = "fetched"
  /\ notifying' = [at |-> "posting", last |-> mark, newest |-> mark,
                   alerts |-> {a \in notifying.alerts : a.ts > mark /\ a.severe}]
  /\ UNCHANGED <<notificationsOn, stored, mark, alerting, raising, onBus, again, attempted, restarts>>

\* One POST, newest first.  Delivered, refused or timed out: the loop logs
\* the outcome and goes on.
NotifyPost ==
  /\ notifying.at = "posting"
  /\ \E a \in notifying.alerts :
       /\ \A b \in notifying.alerts : b.ts <= a.ts
       /\ attempted' = attempted \cup {a.id}
       /\ notifying' = [notifying EXCEPT !.alerts = @ \ {a}, !.newest = MaxOf(@, a.ts)]
  /\ UNCHANGED <<notificationsOn, stored, mark, alerting, raising, onBus, again, restarts>>

\* Mutant: the watermark is written before every alert has been posted.
NotifyWriteEarly ==
  /\ notifying.at = "posting"
  /\ mark' = IF notifying.newest > notifying.last THEN notifying.newest ELSE mark
  /\ notifying' = IdleRound
  /\ UNCHANGED <<notificationsOn, stored, alerting, raising, onBus, again, attempted, restarts>>

\* Writes the watermark only when it has moved.
NotifyWrite ==
  /\ notifying.at = "posting"
  /\ notifying.alerts = {}
  /\ mark' = IF notifying.newest > notifying.last THEN notifying.newest ELSE mark
  /\ notifying' = IdleRound
  /\ UNCHANGED <<notificationsOn, stored, alerting, raising, onBus, again, attempted, restarts>>

\* The process dies and starts again: the table stays, the watermark is back
\* at the epoch, and the new process has published and posted nothing.
Restart ==
  /\ restarts < MaxRestarts
  /\ restarts' = restarts + 1
  /\ mark' = 0
  /\ alerting' = IdleRound
  /\ notifying' = IdleRound
  /\ raising' = {}
  /\ onBus' = {}
  /\ again' = {}
  /\ attempted' = {}
  /\ UNCHANGED <<notificationsOn, stored>>

Next ==
  \/ Ingest
  \/ DigestStore
  \/ DigestPublish
  \/ AlertingFetch
  \/ AlertingPublish
  \/ AlertingWrite
  \/ NotifyFetch
  \/ NotifyFilter
  \/ NotifyPost
  \/ NotifyWrite
  \/ Restart

Spec == Init /\ [][Next]_vars

\* The ticker of the alerting loop keeps firing, reads do not fail forever,
\* and the lock on the watermark is always granted.
FairSpec == Spec /\ WF_vars(AlertingFetch) /\ WF_vars(AlertingPublish) /\ WF_vars(AlertingWrite)

-----------------------------------------------------------------------------
(* Properties                                                              *)

\* At least Limit alerts push a out of what a round reads.
CrowdedOut(a) == Cardinality({b \in stored \ {a} : b.ts >= a.ts}) >= Limit

Handled(a) == a.id \in onBus \cup attempted

\* An alert that arrived in order is not passed over: once the watermark has
\* reached it, this process has published it or posted it.  With notifications
\* on this is claimed of severe alerts only.
NoSevereAlertPassedOver ==
  \A a \in stored :
    a.timely /\ a.ts <= mark /\ ~CrowdedOut(a) /\ (a.severe \/ ~notificationsOn)
      => Handled(a)

\* The same for every alert: the watermark is what "the background loops have
\* already processed".
MarkMeansProcessed ==
  \A a \in stored : a.timely /\ a.ts <= mark /\ ~CrowdedOut(a) => Handled(a)

\* Without the notification loop, no alert is published twice by the alerting
\* loop in the life of a process.
PublishedOnce == ~notificationsOn => again = {}

\* Every alert that arrived in order is published or posted in the end, across
\* restarts, unless newer alerts crowd it out.
EveryAlertHandled ==
  \A i \in Ids :
    (\E a \in stored : a.id = i /\ a.timely /\ (a.severe \/ ~notificationsOn))
      ~> (\E a \in stored : a.id = i /\ (Handled(a) \/ CrowdedOut(a)))
=============================================================================
