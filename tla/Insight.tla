------------------------------ MODULE Insight -------------------------------
(***************************************************************************)
(* The insight digest of background.rs.  Every round it reads the last     *)
(* metrics and logs, keeps a timer of how long the CPU has been pinned,    *)
(* has a summary written (by the LLM, or locally without one), derives a   *)
(* health from the data, and raises a security alert in an emergency.      *)
(*                                                                         *)
(* Time is kept as ages that stop growing at Duration, the only age the    *)
(* code asks about.  The timer is measured by the wall clock: one that is  *)
(* set changes its age, and one that is set back behind the start of the   *)
(* timer makes it negative, which the code reads as unsigned.              *)
(***************************************************************************)
EXTENDS Integers, Sequences, SharedTypes

CONSTANTS
  Samples,      \* what the collector may measure: records of cpu and memory percent
  Window,       \* how many rows recent_metrics returns (10 in the code)
  Duration,     \* CPU_CRITICAL_DURATION
  Modes,        \* the modes to look at
  MaxFaults     \* bound on the reads that fail and on setting the clock

Sample == [cpu : 0..100, memory : 0..100]
Mode == [remote : BOOLEAN, db : BOOLEAN]

ASSUME InsightAssumption ==
  /\ Samples \subseteq Sample
  /\ Window \in Nat \ {0} /\ Duration \in Nat \ {0} /\ MaxFaults \in Nat
  /\ Modes \subseteq Mode

VARIABLES
  mode,      \* llm_mode and whether there is a database, fixed at the start
  rows,      \* the newest rows of metrics, newest first
  critical,  \* a critical event is among the last logs
  pressure,  \* cpu_pressure_since, as an age; NoTimer for None
  digest,    \* where the round is and what it has read
  insight,   \* BackgroundState.insight: the headline and the health
  raised,    \* this round's alert is on the bus
  calm,      \* history: the age of the last sample judged below the threshold
  turned,    \* history: since the timer was started, the clock has been set forward,
             \* or back behind that start
  faults

insightVars == <<mode, rows, critical, pressure, digest, insight, raised, calm, turned, faults>>

NoTimer == -1
Negative == -2
Ages == 0..Duration
Older(age) == IF age = NoTimer \/ age = Duration THEN {age}
              ELSE IF age = Negative THEN {Negative, 0} ELSE {age + 1}

\* (0.0, 0.0) stands for no metrics at all.
NoSample == [cpu |-> 0, memory |-> 0]
Headlines == {"none", "no metrics", "pressure", "attention", "busy", "stable", "written"}
NoInsight == [headline |-> "none", health |-> "Healthy"]
Waiting == [at |-> "wait", empty |-> TRUE, sample |-> NoSample, critical |-> FALSE,
            sustained |-> FALSE, calm |-> 0, turned |-> FALSE]

InsightTypeOK ==
  /\ mode \in Modes
  /\ rows \in Seq(Samples) /\ Len(rows) <= Window
  /\ critical \in BOOLEAN
  /\ pressure \in Ages \cup {NoTimer, Negative}
  /\ digest \in [at : {"wait", "logs", "judge", "timed", "summary", "store"}, empty : BOOLEAN,
                 sample : Samples \cup {NoSample}, critical : BOOLEAN,
                 sustained : BOOLEAN, calm : Ages, turned : BOOLEAN]
  /\ insight \in [headline : Headlines, health : Healths]
  /\ raised \in BOOLEAN
  /\ calm \in Ages
  /\ turned \in BOOLEAN
  /\ faults \in 0..MaxFaults

InsightInit ==
  /\ mode \in Modes
  /\ rows = << >>
  /\ critical = FALSE
  /\ pressure = NoTimer
  /\ digest = Waiting
  /\ insight = NoInsight
  /\ raised = FALSE
  /\ calm = 0
  /\ turned = FALSE
  /\ faults = 0

-----------------------------------------------------------------------------
(* What the digest looks at                                                *)

\* The collector stores a sample, the oldest row falls out of the window.
Collect ==
  /\ \E s \in Samples : rows' = SubSeq(<<s>> \o rows, 1,
                                       IF Len(rows) < Window THEN Len(rows) + 1 ELSE Window)
  /\ UNCHANGED <<mode, critical, pressure, digest, insight, raised, calm, turned, faults>>

\* A critical event is logged, or newer events push it out of the last twenty.
LogsMove ==
  /\ critical' = ~critical
  /\ UNCHANGED <<mode, rows, pressure, digest, insight, raised, calm, turned, faults>>

Fault == faults < MaxFaults /\ faults' = faults + 1
NoFault == UNCHANGED faults

Pass ==
  /\ pressure' \in Older(pressure)
  /\ calm' \in Older(calm)
  /\ UNCHANGED <<mode, rows, critical, digest, insight, raised, turned, faults>>

\* Utc::now() comes from a clock that may be set.  One that is set back, but not as
\* far as the start of the timer, only makes it younger.
ClockSet ==
  /\ pressure # NoTimer
  /\ pressure' \in Ages \cup {Negative}
  /\ turned' = (turned \/ pressure' = Negative \/ pressure' > pressure)
  /\ Fault
  /\ UNCHANGED <<mode, rows, critical, digest, insight, raised, calm>>

\* metrics.last(): the rows come newest first, so this is the oldest of them.
Judged(r) == IF r = << >> THEN NoSample ELSE r[Len(r)]

-----------------------------------------------------------------------------
(* A round of the digest                                                   *)

\* An error counts as no metrics.
ReadMetrics ==
  /\ digest.at = "wait"
  /\ \E r \in {rows, << >>} :
       /\ IF r = rows THEN NoFault ELSE Fault
       /\ digest' = [Waiting EXCEPT !.at = "logs", !.empty = (r = << >>), !.sample = Judged(r)]
  /\ raised' = FALSE
  /\ UNCHANGED <<mode, rows, critical, pressure, insight, calm, turned>>

ReadLogs ==
  /\ digest.at = "logs"
  /\ \E c \in {critical, FALSE} :
       /\ IF c = critical THEN NoFault ELSE Fault
       /\ digest' = [digest EXCEPT !.at = "judge", !.critical = c]
  /\ UNCHANGED <<mode, rows, critical, pressure, insight, raised, calm, turned>>

Pinned(s) == s.cpu >= 99
Busy(s) == s.cpu >= 98 \/ s.memory >= 98

\* Mutant of Timer: the timer is started again by every pinned sample.
TimerRestarts(s) == IF Pinned(s) THEN 0 ELSE NoTimer

\* Mutant of Timer: the timer is not cleared when the CPU calms down.
TimerKept(s) == IF Pinned(s) /\ pressure = NoTimer THEN 0 ELSE pressure

Timer(s) == IF ~Pinned(s) THEN NoTimer ELSE IF pressure = NoTimer THEN 0 ELSE pressure

\* num_seconds() as u64: a negative age is one beyond every duration.
Sustained(age) == age \in {Duration, Negative}

\* The timer is brought up to date ...
Judge ==
  /\ digest.at = "judge"
  /\ pressure' = Timer(digest.sample)
  /\ calm' = IF Pinned(digest.sample) THEN calm ELSE 0
  /\ turned' = (turned /\ pressure' # NoTimer)
  /\ digest' = [digest EXCEPT !.at = "timed"]
  /\ UNCHANGED <<mode, rows, critical, insight, raised, faults>>

\* ... and, with the time as it is by then, read.
ReadTimer ==
  /\ digest.at = "timed"
  /\ digest' = [digest EXCEPT !.at = "summary", !.sustained = Sustained(pressure),
                              !.calm = calm, !.turned = turned]
  /\ UNCHANGED <<mode, rows, critical, pressure, insight, raised, calm, turned, faults>>

\* generate_local
Headline(d) ==
  CASE d.empty                           -> "no metrics"
    [] ~d.empty /\ d.critical /\ Busy(d.sample)  -> "pressure"
    [] ~d.empty /\ d.critical /\ ~Busy(d.sample) -> "attention"
    [] ~d.empty /\ ~d.critical /\ Busy(d.sample) -> "busy"
    [] OTHER                             -> "stable"

Emergency(d) == d.sustained \/ d.critical

HealthFromData(d) ==
  IF Emergency(d) THEN "Unhealthy" ELSE IF Busy(d.sample) THEN "Degraded" ELSE "Healthy"

SeverityFromData(d) ==
  IF Emergency(d) THEN "Critical" ELSE IF Busy(d.sample) THEN "Error" ELSE "Info"

\* The summary is there and becomes the insight.  Only a critical severity of an
\* unhealthy system goes on to raise an alert, and only a database can keep one.
Summarise ==
  /\ digest.at = "summary"
  /\ insight' = [headline |-> IF mode.remote THEN "written" ELSE Headline(digest),
                 health |-> HealthFromData(digest)]
  /\ digest' = IF /\ HealthFromData(digest) # "Healthy"
                  /\ SeverityFromData(digest) = "Critical"
                  /\ mode.db
               THEN [digest EXCEPT !.at = "store"]
               ELSE Waiting
  /\ UNCHANGED <<mode, rows, critical, pressure, raised, calm, turned, faults>>

\* The LLM fails or its 120 seconds pass: the round ends here, the timer kept.
SummaryFails ==
  /\ digest.at = "summary"
  /\ mode.remote
  /\ digest' = Waiting
  /\ UNCHANGED <<mode, rows, critical, pressure, insight, raised, calm, turned, faults>>

\* security::store succeeds and the alert it made is published.
Raise ==
  /\ digest.at = "store"
  /\ raised' = TRUE
  /\ digest' = Waiting
  /\ UNCHANGED <<mode, rows, critical, pressure, insight, calm, turned, faults>>

StoreAlertFails ==
  /\ digest.at = "store"
  /\ digest' = Waiting
  /\ UNCHANGED <<mode, rows, critical, pressure, insight, raised, calm, turned, faults>>

InsightNext ==
  \/ Collect \/ LogsMove \/ Pass \/ ClockSet
  \/ ReadMetrics \/ ReadLogs \/ Judge \/ ReadTimer \/ Summarise \/ SummaryFails
  \/ Raise \/ StoreAlertFails

\* The loop's interval goes round and time passes; the LLM and the store may fail,
\* but not for ever.
InsightFairness ==
  /\ WF_insightVars(Pass) /\ WF_insightVars(ReadMetrics) /\ WF_insightVars(ReadLogs)
  /\ WF_insightVars(Judge) /\ WF_insightVars(ReadTimer)
  /\ SF_insightVars(Summarise) /\ SF_insightVars(Raise)

InsightSpec == InsightInit /\ [][InsightNext]_insightVars

-----------------------------------------------------------------------------
(* Properties                                                              *)

\* Nobody is paged for a spike: an alert follows from a critical event among the
\* logs the round read, or from Duration without one calm sample judged, across all
\* the rounds, failed reads and failed summaries in between; or from a clock that,
\* while the timer ran, was set forward, or back behind its start.
AlertsHaveACause ==
  digest.at = "store" => digest.critical \/ digest.calm = Duration \/ digest.turned

\* A CPU that stays pinned is reported, and again as long as it stays so, although
\* reads, summaries and writes may fail on the way.
PressureIsRaised ==
  <>[](rows # << >> /\ Pinned(Judged(rows)) /\ mode.db) => []<>raised
=============================================================================
