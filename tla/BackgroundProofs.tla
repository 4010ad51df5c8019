-------------------------- MODULE BackgroundProofs --------------------------
(* What runs beside the requests: how the process stops, the digest, the    *)
(* poller of AI servers and the search for them.  Proofs about Lifecycle,   *)
(* Insight, Poller and Discovery, which share no variable.                  *)
EXTENDS Lifecycle, Insight, Poller, Discovery, SequenceTheorems, FiniteSetTheorems, TLAPS

-----------------------------------------------------------------------------
(* Lifecycle: no accepted request is cut off when the process stops        *)

\* main is past the server exactly when it has raised the flag, the server has
\* returned by then, and it returns with no response under way.
DrainFirst ==
  /\ joining > 0 <=> flag
  /\ flag => server = "stopped"
  /\ server \in {"starting", "stopped"} => open = {}

\* A task that has what it needs, and is not the ingestor, ends only at the flag.
TasksWaitForFlag == \A t \in equipped \ {Ingestor} : task[t] = "done" => flag

\* The inductive invariant.  The two claims need DrainFirst: what keeps a response
\* from being cut is not the flag but that the server returns before it.
ProcessInv == TypeOK /\ DrainFirst /\ TasksWaitForFlag

\* At the start no response is under way and main waits for the server.
LEMMA ProcessInvInit == Init => ProcessInv
<1> SUFFICES ASSUME Init
             PROVE  ProcessInv
  OBVIOUS
<1>1. TypeOK
  <2>1. joining \in 0..NTasks + 1
    BY TasksAssumption DEF Init
  <2>2. QED
    BY <2>1 DEF Init, TypeOK
<1>2. DrainFirst /\ TasksWaitForFlag
  BY DEF Init, DrainFirst, TasksWaitForFlag
<1>3. QED
  BY <1>1, <1>2 DEF ProcessInv

\* A step of the server: it comes up, accepts, ends a response, drains.
LEMMA ServerStep ==
  ProcessInv /\ (Bind \/ Accept \/ Signal \/ Drained \/ \E c \in Clients : EndResponse(c))
    => ProcessInv'
<1> SUFFICES ASSUME ProcessInv,
                    Bind \/ Accept \/ Signal \/ Drained \/ \E c \in Clients : EndResponse(c)
             PROVE  ProcessInv'
  OBVIOUS
<1> USE DEF ProcessInv, TypeOK, DrainFirst, TasksWaitForFlag
<1>1. CASE Bind
  BY <1>1 DEF Bind
<1>2. CASE Accept
  BY <1>2 DEF Accept
<1>3. CASE Signal
  BY <1>3 DEF Signal
<1>4. CASE Drained
  BY <1>4 DEF Drained
<1>5. CASE \E c \in Clients : EndResponse(c)
  BY <1>5 DEF EndResponse
<1>6. QED
  BY <1>1, <1>2, <1>3, <1>4, <1>5

\* The steps of the tasks.
TaskMoves ==
  LineComes \/ SourceEnds \/ \E t \in Tasks : Begin(t) \/ Wake(t) \/ FinishRound(t)

\* A task that goes somewhere, but to its end only for one of three reasons.
LEMMA GoesKeeps ==
  ASSUME ProcessInv, NEW t \in Tasks, NEW from,
         NEW to \in SUBSET {"starting", "idle", "waiting", "working", "done"},
         Goes(t, from, to), "done" \in to => flag \/ t = Ingestor \/ t \notin equipped
  PROVE  ProcessInv'
<1> USE DEF ProcessInv, TypeOK, DrainFirst, TasksWaitForFlag
<1>1. PICK place \in to : task' = [task EXCEPT ![t] = place]
  BY DEF Goes
<1>2. UNCHANGED <<server, open, served, flag, equipped, joining>>
  BY DEF Goes
<1>3. TypeOK' /\ DrainFirst'
  BY <1>1, <1>2
<1>4. TasksWaitForFlag'
  BY <1>1, <1>2
<1> QED BY <1>3, <1>4

\* A step of a task: only the ingestor, and who lacks something, ends before the flag.
LEMMA TaskStep == ProcessInv /\ TaskMoves => ProcessInv'
<1> SUFFICES ASSUME ProcessInv, TaskMoves PROVE ProcessInv'
  OBVIOUS
<1>1. CASE LineComes \/ SourceEnds
  BY <1>1, GoesKeeps DEF LineComes, SourceEnds
<1>2. ASSUME NEW t \in Tasks, Begin(t)
      PROVE  ProcessInv'
  BY <1>2, GoesKeeps DEF Begin
<1>3. ASSUME NEW t \in Tasks, Wake(t)
      PROVE  ProcessInv'
  BY <1>3, GoesKeeps DEF Wake
<1>4. ASSUME NEW t \in Tasks, FinishRound(t)
      PROVE  ProcessInv'
  BY <1>4, GoesKeeps DEF FinishRound
<1>5. QED
  BY <1>1, <1>2, <1>3, <1>4 DEF TaskMoves

\* A step of main: it raises the flag behind the server, and goes from task to task.
LEMMA MainStep == ProcessInv /\ (RaiseFlag \/ Join) => ProcessInv'
<1> SUFFICES ASSUME ProcessInv, RaiseFlag \/ Join
             PROVE  ProcessInv'
  OBVIOUS
<1> USE TasksAssumption DEF ProcessInv, TypeOK, DrainFirst, TasksWaitForFlag, Tasks
<1>1. CASE RaiseFlag
  BY <1>1 DEF RaiseFlag
<1>2. CASE Join
  BY <1>2 DEF Join
<1>3. QED
  BY <1>1, <1>2

\* ProcessInv holds in every reachable state, for any requests, watchers and tasks.
THEOREM ProcessInductive == Spec => []ProcessInv
<1>1. ProcessInv /\ [Next]_vars => ProcessInv'
  <2> SUFFICES ASSUME ProcessInv, [Next]_vars
               PROVE  ProcessInv'
    OBVIOUS
  <2>1. CASE Next
    BY <2>1, ServerStep, TaskStep, MainStep DEF Next, Respond, Leave, TaskMoves
  <2>2. CASE UNCHANGED vars
    BY <2>2 DEF vars, ProcessInv, TypeOK, DrainFirst, TasksWaitForFlag
  <2>3. QED
    BY <2>1, <2>2
<1>2. QED
  BY ProcessInvInit, <1>1, PTL DEF Spec

\* While a response is under way the flag is down, and every task that has what it
\* needs is running, but perhaps the ingestor.
THEOREM NoTaskStopsFirst == Spec => []TasksOutliveResponses
<1>1. ProcessInv => TasksOutliveResponses
  BY DEF ProcessInv, DrainFirst, TasksWaitForFlag, TasksOutliveResponses
<1>2. QED
  BY ProcessInductive, <1>1, PTL

\* When main leaves, every accepted request has had its response.
THEOREM ResponsesAreWhole == Spec => []NoResponseIsCut
<1>1. ProcessInv => NoResponseIsCut
  BY TasksAssumption DEF ProcessInv, TypeOK, DrainFirst, NoResponseIsCut, Exited
<1>2. QED
  BY ProcessInductive, <1>1, PTL

\* Once the flag is up, a task takes up no work but the line it was waiting for or the
\* round it does before it looks.
THEOREM FlagStopsWork == Spec => NoWorkAfterFlag
<1>1. ProcessInv /\ [Next]_vars
        => [\A t \in Tasks : flag /\ ~Pending(t) =>
              /\ ~Pending(t)'
              /\ task[t] # "working" => task'[t] # "working"]_vars
  <2> SUFFICES ASSUME ProcessInv, Next, NEW t \in Tasks, flag, ~Pending(t)
               PROVE  ~Pending(t)' /\ (task[t] # "working" => task'[t] # "working")
    BY DEF vars
  <2> USE DEF ProcessInv, TypeOK, Pending, Goes
  <2>1. CASE \E u \in Tasks : Begin(u)
    BY <2>1 DEF Begin
  <2>2. CASE \E u \in Tasks : Wake(u)
    BY <2>2 DEF Wake
  <2>3. CASE \E u \in Tasks : FinishRound(u)
    BY <2>3 DEF FinishRound
  <2>4. CASE LineComes \/ SourceEnds
    BY <2>4 DEF LineComes, SourceEnds
  <2>5. CASE task' = task
    BY <2>5
  <2>6. QED
    BY <2>1, <2>2, <2>3, <2>4, <2>5
       DEF Next, Bind, Accept, Signal, Drained, Respond, Leave, EndResponse, RaiseFlag, Join
<1>2. QED
  BY ProcessInductive, <1>1, PTL DEF Spec, NoWorkAfterFlag

\* Type correctness, for any requests, watchers and tasks.
THEOREM ProcessTypeCorrect == Spec => []TypeOK
<1>1. ProcessInv => TypeOK
  BY DEF ProcessInv
<1>2. QED
  BY ProcessInductive, <1>1, PTL

-----------------------------------------------------------------------------
(* Insight: what an alert of the digest rests on                           *)

\* The timer is not older than the last calm sample, unless the clock was set forward
\* since it was started, or back behind its start.  Only then can it be negative.
TimerInv == turned \/ pressure = NoTimer \/ (pressure \in Ages /\ pressure <= calm)

\* The same of what the round has read of the timer, and what has brought it to an alert.
DigestInv ==
  /\ digest.at \in {"summary", "store"} /\ digest.sustained =>
       digest.calm = Duration \/ digest.turned
  /\ digest.at = "store" => digest.sustained \/ digest.critical

\* The inductive invariant.  AlertsHaveACause speaks of the moment of the alert; the
\* timer that leads to it has come through earlier rounds.
InsightInv == InsightTypeOK /\ TimerInv /\ DigestInv

\* A round has not begun with anything it has read.
DigestType == [at : {"wait", "logs", "judge", "timed", "summary", "store"}, empty : BOOLEAN,
               sample : Samples \cup {NoSample}, critical : BOOLEAN,
               sustained : BOOLEAN, calm : Ages, turned : BOOLEAN]

LEMMA WaitingType == Waiting \in DigestType
BY InsightAssumption DEF Waiting, DigestType, Ages

\* At the start there is no timer.
LEMMA InsightInvInit == InsightInit => InsightInv
<1> SUFFICES ASSUME InsightInit PROVE InsightInv
  OBVIOUS
<1> USE InsightAssumption DEF InsightInit
<1>1. InsightTypeOK
  <2>1. NoInsight \in [headline : Headlines, health : Healths]
    BY DEF NoInsight, Headlines, Healths
  <2>2. rows \in Seq(Samples) /\ Len(rows) <= Window
    OBVIOUS
  <2>3. calm \in Ages
    BY DEF Ages
  <2>4. digest \in DigestType
    BY WaitingType
  <2>5. insight \in [headline : Headlines, health : Healths]
    BY <2>1
  <2>6. faults \in 0..MaxFaults
    OBVIOUS
  <2>7. mode \in Modes /\ pressure \in Ages \cup {NoTimer, Negative}
    OBVIOUS
  <2>8. critical \in BOOLEAN /\ raised \in BOOLEAN /\ turned \in BOOLEAN
    OBVIOUS
  <2> QED BY ONLY <2>2, <2>3, <2>4, <2>5, <2>6, <2>7, <2>8 DEF InsightTypeOK, DigestType
<1>2. TimerInv /\ DigestInv
  BY DEF TimerInv, DigestInv, Waiting
<1> QED BY <1>1, <1>2 DEF InsightInv

\* What the digest looks at changes: rows, logs, the time and the clock.
LEMMA SurroundingsStep ==
  InsightInv /\ (Collect \/ LogsMove \/ Pass \/ ClockSet) => InsightInv'
<1> SUFFICES ASSUME InsightInv, Collect \/ LogsMove \/ Pass \/ ClockSet PROVE InsightInv'
  OBVIOUS
<1> USE InsightAssumption DEF InsightInv
<1>1. CASE Collect
  <2>1. PICK s \in Samples :
          rows' = SubSeq(<<s>> \o rows, 1, IF Len(rows) < Window THEN Len(rows) + 1 ELSE Window)
    BY <1>1 DEF Collect
  <2> DEFINE all == <<s>> \o rows
             n == IF Len(rows) < Window THEN Len(rows) + 1 ELSE Window
  <2>2. rows \in Seq(Samples) /\ Len(rows) <= Window
    BY DEF InsightTypeOK
  <2>3. all \in Seq(Samples) /\ Len(all) = Len(rows) + 1 /\ n \in 0..Len(all) /\ n <= Window
    BY <2>2
  <2>4. rows' \in Seq(Samples) /\ Len(rows') = n
    <3> HIDE DEF all, n
    <3>1. \A i \in 1..n : all[i] \in Samples
      BY <2>3
    <3>2. rows' = SubSeq(all, 1, n)
      BY <2>1 DEF all, n
    <3> QED BY <2>3, <3>1, <3>2, SubSeqProperties
  <2>5. InsightTypeOK'
    BY <1>1, <2>3, <2>4 DEF Collect, InsightTypeOK
  <2>6. TimerInv' /\ DigestInv'
    BY <1>1 DEF Collect, TimerInv, DigestInv
  <2> QED BY <2>5, <2>6
<1>2. CASE LogsMove
  <2>1. critical' \in BOOLEAN
    BY <1>2 DEF LogsMove, InsightTypeOK
  <2> QED BY <1>2, <2>1 DEF LogsMove, InsightTypeOK, TimerInv, DigestInv
<1>3. CASE Pass
  <2>1. /\ pressure' \in Ages \cup {NoTimer, Negative} /\ calm' \in Ages
        /\ pressure = NoTimer => pressure' = NoTimer
        /\ pressure \in Ages /\ pressure <= calm => pressure' \in Ages /\ pressure' <= calm'
    BY <1>3 DEF Pass, InsightTypeOK, Older, Ages, NoTimer, Negative
  <2>2. InsightTypeOK'
    BY <1>3, <2>1 DEF Pass, InsightTypeOK
  <2>3. TimerInv' /\ DigestInv'
    BY <1>3, <2>1 DEF Pass, TimerInv, DigestInv
  <2> QED BY <2>2, <2>3
<1>4. CASE ClockSet
  <2>1. /\ faults' \in 0..MaxFaults /\ pressure' \in Ages \cup {Negative}
        /\ pressure # NoTimer /\ calm' = calm /\ digest' = digest
        /\ turned' = (turned \/ pressure' = Negative \/ pressure' > pressure)
    BY <1>4 DEF ClockSet, Fault, InsightTypeOK
  <2>2. InsightTypeOK'
    BY <1>4, <2>1 DEF ClockSet, InsightTypeOK
  <2>3. turned' \/ (pressure' \in Ages /\ pressure' <= pressure /\ pressure \in Ages
                      /\ pressure <= calm)
    <3>1. CASE turned \/ pressure' = Negative \/ pressure' > pressure
      BY <2>1, <3>1
    <3>2. CASE ~(turned \/ pressure' = Negative \/ pressure' > pressure)
      <4>1. pressure \in Ages /\ pressure <= calm /\ pressure' \in Ages
        BY <2>1, <3>2 DEF TimerInv
      <4> QED BY <3>2, <4>1 DEF Ages
    <3> QED BY <3>1, <3>2
  <2>4. TimerInv'
    <3>1. calm \in Ages
      BY DEF InsightTypeOK
    <3> QED BY <2>1, <2>3, <3>1 DEF TimerInv, Ages
  <2>5. DigestInv'
    BY <2>1 DEF DigestInv
  <2> QED BY <2>2, <2>4, <2>5
<1> QED BY <1>1, <1>2, <1>3, <1>4

\* The round reads the metrics and the logs.
LEMMA ReadStep == InsightInv /\ (ReadMetrics \/ ReadLogs) => InsightInv'
<1> SUFFICES ASSUME InsightInv, ReadMetrics \/ ReadLogs PROVE InsightInv'
  OBVIOUS
<1> USE InsightAssumption DEF InsightInv
<1>1. CASE ReadMetrics
  <2>1. PICK r \in {rows, <<>>} :
          /\ IF r = rows THEN NoFault ELSE Fault
          /\ digest' = [Waiting EXCEPT !.at = "logs", !.empty = (r = <<>>), !.sample = Judged(r)]
    BY <1>1 DEF ReadMetrics
  <2>2. Judged(r) \in Samples \cup {NoSample}
    BY <2>1 DEF Judged, InsightTypeOK
  <2>3. faults' \in 0..MaxFaults
    BY <2>1 DEF InsightTypeOK, Fault, NoFault
  <2>4. digest' \in DigestType
    BY <2>1, <2>2, WaitingType DEF DigestType
  <2>6. InsightTypeOK'
    BY <1>1, <2>3, <2>4 DEF ReadMetrics, InsightTypeOK, DigestType
  <2>5. TimerInv' /\ DigestInv'
    BY <1>1, <2>1 DEF ReadMetrics, TimerInv, DigestInv, Waiting
  <2> QED BY <2>5, <2>6
<1>2. CASE ReadLogs
  <2>1. PICK c \in {critical, FALSE} :
          /\ IF c = critical THEN NoFault ELSE Fault
          /\ digest' = [digest EXCEPT !.at = "judge", !.critical = c]
    BY <1>2 DEF ReadLogs
  <2>2. faults' \in 0..MaxFaults
    BY <2>1 DEF InsightTypeOK, Fault, NoFault
  <2>3. InsightTypeOK'
    BY <1>2, <2>1, <2>2 DEF ReadLogs, InsightTypeOK
  <2>4. TimerInv' /\ DigestInv'
    BY <1>2, <2>1 DEF ReadLogs, TimerInv, DigestInv, InsightTypeOK
  <2> QED BY <2>3, <2>4
<1> QED BY <1>1, <1>2

\* What is read of the timer is as old as the last calm sample at most.
LEMMA ReadTimerStep == InsightInv /\ ReadTimer => InsightInv'
<1> SUFFICES ASSUME InsightInv, ReadTimer PROVE InsightInv'
  OBVIOUS
<1> USE InsightAssumption DEF InsightInv, ReadTimer
<1>1. Sustained(pressure) => calm = Duration \/ turned
  BY DEF InsightTypeOK, Sustained, TimerInv, Ages, NoTimer, Negative
<1>2. Sustained(pressure) \in BOOLEAN
  BY DEF Sustained
<1>3. InsightTypeOK'
  BY <1>2 DEF InsightTypeOK
<1>4. TimerInv'
  BY DEF TimerInv
<1>5. DigestInv'
  BY <1>1, <1>2 DEF DigestInv, InsightTypeOK
<1> QED BY <1>3, <1>4, <1>5

\* The timer is brought up to date: a calm sample ends it, and it starts at zero.
LEMMA JudgeStep == InsightInv /\ Judge => InsightInv'
<1> SUFFICES ASSUME InsightInv, Judge PROVE InsightInv'
  OBVIOUS
<1> USE InsightAssumption DEF InsightInv, Judge
<1>1. calm' \in Ages /\ pressure' \in Ages \cup {NoTimer, Negative} /\ turned' \in BOOLEAN
  BY DEF InsightTypeOK, Timer, Ages
<1>2. TimerInv'
  BY <1>1 DEF InsightTypeOK, TimerInv, Timer, Ages, NoTimer
<1>3. digest' = [digest EXCEPT !.at = "timed"]
  OBVIOUS
<1>4. InsightTypeOK'
  BY <1>1, <1>3 DEF InsightTypeOK
<1>5. DigestInv'
  BY <1>3 DEF DigestInv, InsightTypeOK
<1> QED BY <1>2, <1>4, <1>5

\* The summary is there, or fails; the alert is raised, or cannot be stored.
LEMMA SummaryStep ==
  InsightInv /\ (Summarise \/ SummaryFails \/ Raise \/ StoreAlertFails) => InsightInv'
<1> SUFFICES ASSUME InsightInv, Summarise \/ SummaryFails \/ Raise \/ StoreAlertFails
             PROVE  InsightInv'
  OBVIOUS
<1> USE InsightAssumption DEF InsightInv
<1>1. UNCHANGED <<mode, rows, critical, pressure, calm, turned, faults>>
  BY DEF Summarise, SummaryFails, Raise, StoreAlertFails
<1>2. TimerInv'
  BY <1>1 DEF TimerInv
<1>3. Waiting \in DigestType
  BY WaitingType
<1>4. CASE Summarise
  <2>1. Headline(digest) \in Headlines
    BY DEF Headline, Headlines
  <2>2. insight' \in [headline : Headlines, health : Healths]
    BY <1>4, <2>1 DEF Summarise, Headlines, HealthFromData, Healths
  <2>3. digest' = Waiting \/ (Emergency(digest) /\ digest' = [digest EXCEPT !.at = "store"])
    BY <1>4 DEF Summarise, SeverityFromData
  <2>4. InsightTypeOK'
    BY <1>1, <1>3, <1>4, <2>2, <2>3 DEF Summarise, InsightTypeOK, DigestType
  <2>5. DigestInv'
    BY <1>4, <2>3 DEF Summarise, DigestInv, Waiting, Emergency, InsightTypeOK
  <2> QED BY <1>2, <2>4, <2>5
<1>5. CASE SummaryFails \/ Raise \/ StoreAlertFails
  <2>1. /\ digest' = Waiting /\ insight' = insight /\ raised' \in BOOLEAN
    BY <1>5 DEF SummaryFails, Raise, StoreAlertFails, InsightTypeOK
  <2>2. InsightTypeOK'
    BY <1>1, <1>3, <2>1 DEF InsightTypeOK, DigestType
  <2>3. DigestInv'
    BY <2>1 DEF DigestInv, Waiting
  <2> QED BY <1>2, <2>2, <2>3
<1> QED BY <1>4, <1>5

\* InsightInv holds in every reachable state of the digest.
THEOREM InsightInductive == InsightSpec => []InsightInv
<1>1. InsightInv /\ [InsightNext]_insightVars => InsightInv'
  <2> SUFFICES ASSUME InsightInv, [InsightNext]_insightVars PROVE InsightInv'
    OBVIOUS
  <2>1. CASE InsightNext
    BY <2>1, SurroundingsStep, ReadStep, JudgeStep, ReadTimerStep, SummaryStep DEF InsightNext
  <2>2. CASE UNCHANGED insightVars
    BY <2>2 DEF insightVars, InsightInv, InsightTypeOK, TimerInv, DigestInv
  <2> QED BY <2>1, <2>2
<1> QED BY InsightInvInit, <1>1, PTL DEF InsightSpec

\* Whatever reads and summaries fail: an alert follows from a critical event, from
\* Duration without a calm sample, or from a clock that was set forward, or back behind
\* the start of the timer.
THEOREM NobodyIsPagedForASpike == InsightSpec => []AlertsHaveACause
<1>1. InsightInv => AlertsHaveACause
  BY DEF InsightInv, DigestInv, AlertsHaveACause
<1> QED BY InsightInductive, <1>1, PTL

\* The digest's state is of its type.
THEOREM InsightTypeCorrect == InsightSpec => []InsightTypeOK
<1>1. InsightInv => InsightTypeOK
  BY DEF InsightInv
<1> QED BY InsightInductive, <1>1, PTL

-----------------------------------------------------------------------------
(* Poller: the events tell what the cache holds                            *)

\* While a round is announced its results are those in the cache, and one endpoint is
\* next.  Only the first round has nothing before it, and then there is nothing to tell.
RoundInv ==
  /\ telling > 0 => cached = results /\ Len(results) = N
  /\ telling > 0 /\ previous = <<>> => up = Online(cached)

\* The inductive invariant.
PollerInv == PollerTypeOK /\ RoundInv /\ EventsTellTheCache

\* The endpoints are N different ones.
LEMMA EndpointsFacts ==
  /\ N \in Nat /\ Len(Endpoints) = N
  /\ \A i \in 1..N : Endpoints[i] \in EndpointSet
  /\ \A e \in EndpointSet : \E i \in 1..N : Endpoints[i] = e
  /\ \A i, j \in 1..N : Endpoints[i] = Endpoints[j] => i = j
<1>1. Endpoints \in Seq(EndpointSet)
  BY PollerAssumption
<1>2. Len(Endpoints) \in Nat
  BY <1>1
<1> QED BY <1>2, PollerAssumption DEF N, EndpointSet

\* The results of n endpoints are a sequence of them, the empty one for none.
LEMMA ResultsFacts ==
  /\ \A n \in Nat : \A r \in Results(n) : r \in Seq(Result) /\ Len(r) = n
  /\ \A r \in Results(0) : r = <<>>
  /\ <<>> \in Results(0)
<1>1. ASSUME NEW n \in Nat, NEW r \in Results(n) PROVE r \in Seq(Result) /\ Len(r) = n
  BY DEF Results
<1>2. ASSUME NEW r \in Results(0) PROVE r = <<>>
  BY <1>1, EmptySeq
<1> QED BY <1>1, <1>2 DEF Results

\* At the start nothing is known and nobody has been told.
LEMMA PollerInvInit == PollerInit => PollerInv
<1> SUFFICES ASSUME PollerInit PROVE PollerInv
  OBVIOUS
<1> USE DEF PollerInit
<1>1. PollerTypeOK
  <2>1. Len(<<>>) = 0
    OBVIOUS
  <2>2. Len(results) <= N /\ results \in Results(Len(results))
    BY <2>1, EndpointsFacts, ResultsFacts
  <2>3. previous \in Results(0) /\ cached \in Results(0) /\ telling \in 0..N
    BY EndpointsFacts, ResultsFacts
  <2>4. up \subseteq EndpointSet /\ health \in Healths /\ stopped \in BOOLEAN
    BY DEF Healths
  <2> QED BY <2>2, <2>3, <2>4 DEF PollerTypeOK
<1>2. RoundInv /\ EventsTellTheCache
  BY DEF RoundInv, EventsTellTheCache, Online
<1> QED BY <1>1, <1>2 DEF PollerInv

\* An endpoint is probed, the health checked, or the poller stops.
LEMMA ProbeStep == PollerInv /\ (Probe \/ CheckHealth \/ StopPolling) => PollerInv'
<1> SUFFICES ASSUME PollerInv, Probe \/ CheckHealth \/ StopPolling PROVE PollerInv'
  OBVIOUS
<1>1. UNCHANGED <<previous, cached, telling, up>>
  BY DEF Probe, CheckHealth, StopPolling
<1>2. results' = results \/ telling = 0
  BY DEF Probe, CheckHealth, StopPolling
<1>3. Len(results') <= N /\ results' \in Results(Len(results'))
  <2>1. CASE results' = results
    BY <2>1 DEF PollerInv, PollerTypeOK
  <2>2. CASE Probe
    <3> DEFINE n == Len(results)
    <3>1. PICK a \in Answers :
            results' = Append(results, ProbeEndpoint(Endpoints[Len(results) + 1], a))
      BY <2>2 DEF Probe
    <3>2. results \in Results(n) /\ n < N
      BY <2>2 DEF Probe, PollerInv, PollerTypeOK
    <3>3. results \in Seq(Result) /\ n \in Nat
      BY <3>2 DEF Results
    <3>4. Endpoints[n + 1] \in EndpointSet /\ a \in Answer
      BY <3>2, <3>3, EndpointsFacts, PollerAssumption
    <3>5. ASSUME NEW e \in EndpointSet PROVE ProbeEndpoint(e, a) \in Result
      <4>1. Kinds[e] \in Kind /\ a.nodes \in BOOLEAN /\ (e \in ExoHint) \in BOOLEAN
        BY <3>4, PollerAssumption DEF Answer
      <4> QED BY <4>1 DEF ProbeEndpoint, Found, NotFound, Result, Kind
    <3>6. results' \in Seq(Result) /\ Len(results') = n + 1
      BY <3>1, <3>3, <3>4, <3>5
    <3> QED BY <3>2, <3>3, <3>6, EndpointsFacts DEF Results
  <2> QED BY <2>1, <2>2 DEF CheckHealth, StopPolling
<1>4. health' \in Healths /\ stopped' \in BOOLEAN
  BY DEF Probe, CheckHealth, StopPolling, PollerInv, PollerTypeOK, Healths
<1>5. PollerTypeOK'
  BY <1>1, <1>3, <1>4 DEF PollerInv, PollerTypeOK
<1>6. RoundInv' /\ EventsTellTheCache'
  BY <1>1, <1>2 DEF PollerInv, RoundInv, EventsTellTheCache, Online
<1> QED BY <1>5, <1>6 DEF PollerInv

\* The cache takes over the results, and what it held is what the events have told.
LEMMA EndRoundStep == PollerInv /\ EndRound => PollerInv'
<1> SUFFICES ASSUME PollerInv, EndRound PROVE PollerInv'
  OBVIOUS
<1>1. /\ telling = 0 /\ Len(results) = N /\ N > 0
      /\ previous' = cached /\ cached' = results /\ telling' = 1 /\ results' = results
      /\ up' = IF cached = <<>> THEN Online(results) ELSE up
      /\ health' = health /\ stopped' = stopped
  BY DEF EndRound
<1>2. /\ N \in Nat /\ results \in Results(N) /\ cached \in Results(0) \cup Results(N)
      /\ up = Online(cached) /\ up \subseteq EndpointSet
  BY <1>1, EndpointsFacts DEF PollerInv, PollerTypeOK, EventsTellTheCache
<1>3. \A r \in Results(N) : Len(r) = N
  BY <1>2, ResultsFacts
<1>4. Online(results) \subseteq EndpointSet
  BY <1>1, EndpointsFacts DEF Online
<1>5. PollerTypeOK'
  BY <1>1, <1>2, <1>4 DEF PollerInv, PollerTypeOK
<1>6. RoundInv'
  BY <1>1 DEF RoundInv, Online
<1>7. EventsTellTheCache'
  <2> SUFFICES ASSUME cached # <<>>, NEW i \in 1..N
               PROVE  Endpoints[i] \in up' <=> previous'[i].online
    BY <1>1, <1>2 DEF EventsTellTheCache
  <2>1. cached \in Results(N) /\ Len(cached) = N
    BY <1>2, <1>3, ResultsFacts
  <2>2. Endpoints[i] \in Online(cached) <=> cached[i].online
    BY <2>1, EndpointsFacts DEF Online
  <2> QED BY <1>1, <1>2, <2>2
<1> QED BY <1>5, <1>6, <1>7 DEF PollerInv

\* One endpoint's change is told; after the last one the events are where the cache is.
LEMMA TellStep == PollerInv /\ Tell => PollerInv'
<1> SUFFICES ASSUME PollerInv, Tell PROVE PollerInv'
  OBVIOUS
<1> DEFINE k == telling
<1>1. /\ UNCHANGED <<previous, cached, health, stopped>>
      /\ k \in 1..N /\ N \in Nat
      /\ cached = results /\ Len(results) = N /\ results \in Results(N)
      /\ up' = IF k <= Len(previous) /\ previous[k].online # results[k].online
               THEN IF results[k].online THEN up \cup {Endpoints[k]} ELSE up \ {Endpoints[k]}
               ELSE up
      /\ IF k = N THEN telling' = 0 /\ results' = <<>> ELSE telling' = k + 1 /\ results' = results
  BY EndpointsFacts DEF Tell, PollerInv, PollerTypeOK, RoundInv
<1>2. up' \subseteq EndpointSet /\ up \subseteq EndpointSet
  BY <1>1, EndpointsFacts DEF PollerInv, PollerTypeOK
<1>3. PollerTypeOK'
  <2>1. Len(<<>>) = 0 /\ telling' \in 0..N
    BY <1>1
  <2>2. Len(results') <= N /\ results' \in Results(Len(results'))
    BY <1>1, <2>1, ResultsFacts
  <2> QED BY <1>1, <1>2, <2>1, <2>2 DEF PollerInv, PollerTypeOK
<1>4. CASE previous = <<>>
  <2>1. up' = up /\ up = Online(cached)
    BY <1>1, <1>4 DEF PollerInv, RoundInv
  <2>2. RoundInv' /\ EventsTellTheCache'
    BY <1>1, <1>4, <2>1 DEF RoundInv, EventsTellTheCache, Online
  <2> QED BY <1>3, <2>2 DEF PollerInv
<1>5. CASE previous # <<>>
  <2>1. Len(previous) = N
    BY <1>1, <1>5, ResultsFacts DEF PollerInv, PollerTypeOK
  <2>2. \A i \in 1..N : Endpoints[i] \in up <=> IF i < k THEN cached[i].online
                                                         ELSE previous[i].online
    BY <1>1, <1>5 DEF PollerInv, EventsTellTheCache
  <2>3. \A i \in 1..N : Endpoints[i] = Endpoints[k] => i = k
    BY <1>1, EndpointsFacts
  <2>4. \A i \in 1..N : Endpoints[i] \in up' <=> IF i < k + 1 THEN cached[i].online
                                                              ELSE previous[i].online
    <3> SUFFICES ASSUME NEW i \in 1..N
                 PROVE  Endpoints[i] \in up' <=> IF i < k + 1 THEN cached[i].online
                                                              ELSE previous[i].online
      OBVIOUS
    <3>1. previous[k].online \in BOOLEAN /\ cached[k].online \in BOOLEAN
      BY <1>1, <1>5, ResultsFacts DEF PollerInv, PollerTypeOK, Results, Result
    <3>2. CASE i = k
      BY <1>1, <2>1, <2>2, <3>1, <3>2
    <3>3. CASE i # k
      <4>1. Endpoints[i] \in up' <=> Endpoints[i] \in up
        BY <1>1, <2>3, <3>3
      <4>2. i < k + 1 <=> i < k
        BY <1>1, <3>3
      <4> QED BY <2>2, <4>1, <4>2
    <3> QED BY <3>2, <3>3
  <2>5. CASE k # N
    BY <1>1, <1>3, <1>5, <2>4, <2>5 DEF PollerInv, RoundInv, EventsTellTheCache
  <2>6. CASE k = N
    <3>1. \A i \in 1..N : Endpoints[i] \in up' <=> cached[i].online
      BY <1>1, <2>4, <2>6
    <3>2. up' = Online(cached)
      BY <1>1, <1>2, <3>1, EndpointsFacts DEF Online
    <3> QED BY <1>1, <1>3, <2>6, <3>2 DEF PollerInv, RoundInv, EventsTellTheCache, Online
  <2> QED BY <2>5, <2>6
<1> QED BY <1>4, <1>5

\* PollerInv holds in every reachable state of the poller.
THEOREM PollerInductive == PollerSpec => []PollerInv
<1>1. PollerInv /\ [PollerNext]_pollerVars => PollerInv'
  <2> SUFFICES ASSUME PollerInv, [PollerNext]_pollerVars PROVE PollerInv'
    OBVIOUS
  <2>1. CASE PollerNext
    <3>1. CASE PollerStopped
      BY <3>1 DEF PollerStopped, pollerVars, PollerInv, PollerTypeOK, RoundInv, EventsTellTheCache,
                  Online
    <3> QED BY <2>1, <3>1, ProbeStep, EndRoundStep, TellStep DEF PollerNext
  <2>2. CASE UNCHANGED pollerVars
    BY <2>2 DEF pollerVars, PollerInv, PollerTypeOK, RoundInv, EventsTellTheCache, Online
  <2> QED BY <2>1, <2>2
<1> QED BY PollerInvInit, <1>1, PTL DEF PollerSpec

\* Who follows the events from the first round on knows what the cache holds, in every
\* round and part of a round, for any endpoints and whatever they answer.
THEOREM EventsKeepUp == PollerSpec => []EventsTellTheCache
<1>1. PollerInv => EventsTellTheCache
  BY DEF PollerInv
<1> QED BY PollerInductive, <1>1, PTL

-----------------------------------------------------------------------------
(* Discovery: every server is found once                                   *)

Target(i) == AllTargets[i]

\* The targets that wait for a task.
Ahead == {Target(i) : i \in targets}

\* What probes may find.
Servers ==
  {ProbeResult(t, lost) : t \in {Target(i) : i \in UniqueTargets}, lost \in SUBSET Paths}
    \ {Nothing}

\* The targets in found, and those whose task has found a server but is not joined.
Reported == {found[i].target : i \in 1..Len(found)}
Unjoined == {t \in DOMAIN tasks : tasks[t] \notin {Running, Nothing}}

\* No target waits twice, and none that waits has been probed in this round.
QueueInv ==
  /\ targets \subseteq UniqueTargets
  /\ \A t \in Ahead : t \notin DOMAIN tasks /\ t \notin answered
  /\ phase \in {"idle", "spawn", "drain"}
  /\ phase # "spawn" => targets = {}

\* There are at most MaxProbes tasks; a task finds nothing or its own target's server.
TasksInv ==
  /\ IsFiniteSet(DOMAIN tasks) /\ Cardinality(DOMAIN tasks) <= MaxProbes
  /\ DOMAIN tasks \subseteq {Target(i) : i \in UniqueTargets}
  /\ \A t \in DOMAIN tasks :
       tasks[t] \in {Running, Nothing} \/ (tasks[t] \in Servers /\ tasks[t].target = t)
  /\ phase = "idle" => DOMAIN tasks = {}

\* Each server that answered is reported, once, or its task waits to be joined.
AnsweredInv ==
  /\ found \in Seq(Servers)
  /\ IsFiniteSet(answered)
  /\ answered = Reported \cup Unjoined
  /\ Reported \cap DOMAIN tasks = {}
  /\ Len(found) = Cardinality(Reported)

\* The inductive invariant.  FoundOnce speaks of the end of a round; that nothing is lost
\* or found twice on the way there rests on where each target is in between.
DiscoveryInv == QueueInv /\ TasksInv /\ AnsweredInv

\* A probe finds nothing or a server of its target.
LEMMA ProbeResultIs ==
  /\ Running # Nothing
  /\ \A t, lost : ProbeResult(t, lost) # Nothing =>
       ProbeResult(t, lost) # Running /\ ProbeResult(t, lost).target = t
<1>1. Running # Nothing
  BY DEF Running, Nothing
<1>2. ASSUME NEW t, NEW k, NEW n PROVE Server(t, k, n) # Running /\ Server(t, k, n).target = t
  <2>1. DOMAIN Server(t, k, n) # DOMAIN Running
    BY DEF Server, Running
  <2> QED BY <2>1 DEF Server
<1>3. ASSUME NEW t, NEW lost, ProbeResult(t, lost) # Nothing
      PROVE  \E k, n : ProbeResult(t, lost) = Server(t, k, n)
  BY <1>3, Zenon DEF ProbeResult
<1> QED BY <1>1, <1>2, <1>3

\* Before the first round there is nothing.
LEMMA DiscoveryInvInit == DiscoveryInit => DiscoveryInv
<1> SUFFICES ASSUME DiscoveryInit PROVE DiscoveryInv
  OBVIOUS
<1> USE DEF DiscoveryInit
<1>1. DOMAIN tasks = {} /\ found \in Seq(Servers) /\ Len(found) = 0
  OBVIOUS
<1>2. Reported = {} /\ Unjoined = {} /\ Ahead = {}
  BY <1>1 DEF Reported, Unjoined, Ahead
<1>3. QueueInv
  BY <1>2 DEF QueueInv
<1>4. TasksInv
  BY <1>1, FS_EmptySet, DiscoveryAssumption DEF TasksInv
<1>5. AnsweredInv
  BY <1>1, <1>2, FS_EmptySet DEF AnsweredInv
<1> QED BY <1>3, <1>4, <1>5 DEF DiscoveryInv

\* A probe ends, with or without a server.
LEMMA ProbeEndsStep ==
  ASSUME DiscoveryInv, NEW t \in DOMAIN tasks, ProbeEnds(t)
  PROVE  DiscoveryInv'
<1>1. PICK lost \in SUBSET Paths :
        /\ tasks' = [tasks EXCEPT ![t] = ProbeResult(t, lost)]
        /\ answered' = IF ProbeResult(t, lost) = Nothing THEN answered ELSE answered \cup {t}
  BY DEF ProbeEnds
<1> DEFINE r == ProbeResult(t, lost)
<1>2. /\ tasks[t] = Running /\ UNCHANGED <<targets, phase, found>>
      /\ DOMAIN tasks' = DOMAIN tasks
      /\ tasks'[t] = r /\ \A u \in DOMAIN tasks \ {t} : tasks'[u] = tasks[u]
  BY <1>1 DEF ProbeEnds
<1>3. r = Nothing \/ (r \in Servers /\ r # Running /\ r.target = t)
  BY ProbeResultIs DEF Servers, DiscoveryInv, TasksInv
<1>4. answered' = IF r = Nothing THEN answered ELSE answered \cup {t}
  BY <1>1
<1> HIDE DEF r
<1>5. Unjoined' = IF r = Nothing THEN Unjoined ELSE Unjoined \cup {t}
  BY <1>2, <1>3, ProbeResultIs DEF Unjoined
<1>6. Reported' = Reported
  BY <1>2 DEF Reported
<1>7. QueueInv'
  BY <1>2, <1>4 DEF DiscoveryInv, QueueInv, Ahead
<1>8. TasksInv'
  BY <1>2, <1>3 DEF DiscoveryInv, TasksInv
<1>9. AnsweredInv'
  BY <1>2, <1>4, <1>5, <1>6, FS_AddElement DEF DiscoveryInv, AnsweredInv
<1> QED BY <1>7, <1>8, <1>9 DEF DiscoveryInv

\* A round begins with all unique targets and no task, goes on to drain the tasks when
\* every target has had one, and ends without tasks.
LEMMA RoundStep == DiscoveryInv /\ (Scan \/ AllSpawned \/ ScanEnds) => DiscoveryInv'
<1> SUFFICES ASSUME DiscoveryInv, Scan \/ AllSpawned \/ ScanEnds PROVE DiscoveryInv'
  OBVIOUS
<1>1. CASE Scan
  <2>1. DOMAIN tasks = {} /\ tasks' = tasks
    BY <1>1 DEF Scan, DiscoveryInv, TasksInv
  <2>2. found' \in Seq(Servers) /\ Len(found') = 0
    BY <1>1 DEF Scan
  <2>3. Reported' = {} /\ Unjoined' = {} /\ answered' = {}
    BY <1>1, <2>1, <2>2 DEF Scan, Reported, Unjoined
  <2>4. QueueInv'
    BY <1>1, <2>1, <2>3 DEF Scan, QueueInv
  <2>5. TasksInv'
    BY <1>1, <2>1 DEF Scan, DiscoveryInv, TasksInv
  <2>6. AnsweredInv'
    BY <2>1, <2>2, <2>3, FS_EmptySet DEF AnsweredInv
  <2> QED BY <2>4, <2>5, <2>6 DEF DiscoveryInv
<1>2. CASE AllSpawned \/ ScanEnds
  <2>1. UNCHANGED <<targets, tasks, found, answered>> /\ targets = {}
    BY <1>2 DEF AllSpawned, ScanEnds, DiscoveryInv, QueueInv
  <2>2. phase' \in {"idle", "drain"} /\ (phase' = "idle" => DOMAIN tasks = {})
    BY <1>2 DEF AllSpawned, ScanEnds
  <2>3. QueueInv'
    BY <2>1, <2>2 DEF DiscoveryInv, QueueInv, Ahead
  <2>4. TasksInv'
    BY <2>1, <2>2 DEF DiscoveryInv, TasksInv
  <2>5. AnsweredInv'
    BY <2>1 DEF DiscoveryInv, AnsweredInv, Reported, Unjoined
  <2> QED BY <2>3, <2>4, <2>5 DEF DiscoveryInv
<1> QED BY <1>1, <1>2

\* What joining a task does to the results.
LEMMA JoinFound ==
  ASSUME DiscoveryInv, NEW t \in Ended, found' = Gathered(tasks[t])
  PROVE  /\ t \in DOMAIN tasks /\ tasks[t] # Running
         /\ found' \in Seq(Servers)
         /\ Reported' = IF tasks[t] = Nothing THEN Reported ELSE Reported \cup {t}
         /\ Len(found') = Cardinality(Reported')
<1>1. t \in DOMAIN tasks /\ tasks[t] # Running
  BY DEF Ended
<1>2. CASE tasks[t] = Nothing
  BY <1>1, <1>2 DEF Gathered, Reported, DiscoveryInv, AnsweredInv
<1>3. CASE tasks[t] # Nothing
  <2>1. tasks[t] \in Servers /\ tasks[t].target = t
    BY <1>1, <1>3 DEF DiscoveryInv, TasksInv
  <2>2. found \in Seq(Servers) /\ found' = Append(found, tasks[t])
    BY <1>3 DEF Gathered, DiscoveryInv, AnsweredInv
  <2>3. /\ found' \in Seq(Servers) /\ Len(found') = Len(found) + 1 /\ Len(found) \in Nat
        /\ \A i \in 1..Len(found) : found'[i] = found[i]
        /\ found'[Len(found) + 1] = tasks[t]
    BY <2>1, <2>2
  <2>4. Reported' = Reported \cup {t}
    BY <2>1, <2>3 DEF Reported
  <2>5. t \notin Reported /\ IsFiniteSet(Reported) /\ Len(found) = Cardinality(Reported)
    BY <1>1, FS_Subset DEF DiscoveryInv, AnsweredInv
  <2>6. Cardinality(Reported') = Cardinality(Reported) + 1
    BY <2>4, <2>5, FS_AddElement
  <2> QED BY <1>1, <1>3, <2>3, <2>4, <2>5, <2>6
<1> QED BY <1>2, <1>3

\* What spawning a task beside those in S does to the tasks and the targets.
LEMMA SpawnTasks ==
  ASSUME DiscoveryInv, NEW S \in SUBSET DOMAIN tasks, SpawnBeside(S)
  PROVE  \E x \in {Target(i) : i \in UniqueTargets} :
           /\ x \notin DOMAIN tasks /\ x \notin answered
           /\ DOMAIN tasks' = S \cup {x}
           /\ tasks'[x] = Running /\ \A u \in S : tasks'[u] = tasks[u]
           /\ targets' \subseteq targets /\ Ahead' \subseteq Ahead \ {x}
<1>1. PICK i \in targets :
        /\ tasks' = [u \in S \cup {Target(i)} |-> IF u = Target(i) THEN Running ELSE tasks[u]]
        /\ targets' = targets \ {i}
  BY DEF SpawnBeside, Target
<1>2. i \in UniqueTargets /\ Target(i) \notin DOMAIN tasks /\ Target(i) \notin answered
  BY DEF DiscoveryInv, QueueInv, Ahead
<1>3. \A j \in targets : Target(j) = Target(i) => j = i
  <2> SUFFICES ASSUME NEW j \in targets, Target(j) = Target(i) PROVE j = i
    OBVIOUS
  <2>1. j \in UniqueTargets
    BY DEF DiscoveryInv, QueueInv
  <2>2. /\ i \in Int /\ j \in Int /\ i >= 1 /\ j >= 1
        /\ \A k \in 1..i - 1 : Target(k) # Target(i)
        /\ \A k \in 1..j - 1 : Target(k) # Target(j)
    BY <1>2, <2>1 DEF UniqueTargets, Target
  <2> QED BY <2>2
<1>4. Ahead' \subseteq Ahead \ {Target(i)}
  BY <1>1, <1>3 DEF Ahead, Target
<1> QED BY <1>1, <1>2, <1>4

\* A target gets a task while there is room.
LEMMA SpawnProbeStep == DiscoveryInv /\ SpawnProbe => DiscoveryInv'
<1> SUFFICES ASSUME DiscoveryInv, SpawnProbe PROVE DiscoveryInv'
  OBVIOUS
<1> DEFINE D == DOMAIN tasks
<1>1. /\ phase = "spawn" /\ Cardinality(D) < MaxProbes /\ SpawnBeside(D)
      /\ UNCHANGED <<phase, found, answered>>
  BY DEF SpawnProbe
<1>2. PICK x \in {Target(i) : i \in UniqueTargets} :
        /\ x \notin D /\ x \notin answered
        /\ DOMAIN tasks' = D \cup {x}
        /\ tasks'[x] = Running /\ \A u \in D : tasks'[u] = tasks[u]
        /\ targets' \subseteq targets /\ Ahead' \subseteq Ahead \ {x}
  BY <1>1, SpawnTasks
<1>3. Unjoined' = Unjoined /\ Reported' = Reported
  BY <1>1, <1>2 DEF Unjoined, Reported
<1>4. QueueInv'
  BY <1>1, <1>2 DEF DiscoveryInv, QueueInv
<1>5. TasksInv'
  <2>1. IsFiniteSet(D) /\ IsFiniteSet(D \cup {x}) /\ Cardinality(D \cup {x}) = Cardinality(D) + 1
        /\ Cardinality(D) \in Nat
    BY <1>2, FS_AddElement, FS_CardinalityType DEF DiscoveryInv, TasksInv
  <2> QED BY <1>1, <1>2, <2>1, DiscoveryAssumption DEF DiscoveryInv, TasksInv
<1>6. AnsweredInv'
  BY <1>1, <1>2, <1>3 DEF DiscoveryInv, AnsweredInv
<1> QED BY <1>4, <1>5, <1>6 DEF DiscoveryInv

\* A task is joined, and in a full set its place is taken by the next target's.
LEMMA JoinStep == DiscoveryInv /\ (SpawnWhenFull \/ Drain) => DiscoveryInv'
<1> SUFFICES ASSUME DiscoveryInv, SpawnWhenFull \/ Drain PROVE DiscoveryInv'
  OBVIOUS
<1> DEFINE D == DOMAIN tasks
<1>1. PICK t \in Ended :
        /\ found' = Gathered(tasks[t])
        /\ \/ phase = "spawn" /\ SpawnBeside(D \ {t})
           \/ phase = "drain" /\ tasks' = Without(t) /\ targets' = targets
  BY DEF SpawnWhenFull, Drain
<1>2. UNCHANGED <<phase, answered>> /\ phase \in {"spawn", "drain"}
  BY DEF SpawnWhenFull, Drain
<1>3. /\ t \in D /\ tasks[t] # Running
      /\ found' \in Seq(Servers)
      /\ Reported' = IF tasks[t] = Nothing THEN Reported ELSE Reported \cup {t}
      /\ Len(found') = Cardinality(Reported')
  BY <1>1, JoinFound
<1>4. PICK X \in SUBSET {Target(i) : i \in UniqueTargets} :
        /\ X \cap D = {} /\ X \cap answered = {}
        /\ X = {} \/ \E x : X = {x}
        /\ DOMAIN tasks' = (D \ {t}) \cup X
        /\ \A x \in X : tasks'[x] = Running
        /\ \A u \in D \ {t} : tasks'[u] = tasks[u]
        /\ targets' \subseteq targets /\ Ahead' \subseteq Ahead \ X
  <2>1. CASE phase = "spawn"
    <3>1. SpawnBeside(D \ {t})
      BY <1>1, <2>1
    <3>2. PICK x \in {Target(i) : i \in UniqueTargets} :
            /\ x \notin D /\ x \notin answered
            /\ DOMAIN tasks' = (D \ {t}) \cup {x}
            /\ tasks'[x] = Running /\ \A u \in D \ {t} : tasks'[u] = tasks[u]
            /\ targets' \subseteq targets /\ Ahead' \subseteq Ahead \ {x}
      BY <3>1, SpawnTasks
    <3> WITNESS {x} \in SUBSET {Target(i) : i \in UniqueTargets}
    <3> QED BY <3>2
  <2>2. CASE phase = "drain"
    <3>1. tasks' = Without(t) /\ targets' = targets
      BY <1>1, <2>2
    <3> WITNESS {} \in SUBSET {Target(i) : i \in UniqueTargets}
    <3> QED BY <3>1 DEF Without, Ahead
  <2> QED BY <1>2, <2>1, <2>2
<1>5. Unjoined' = Unjoined \ {t}
  BY <1>4 DEF Unjoined
<1>6. QueueInv'
  BY <1>2, <1>3, <1>4 DEF DiscoveryInv, QueueInv
<1>7. TasksInv'
  <2>1. IsFiniteSet(D) /\ Cardinality(D) \in Nat /\ Cardinality(D) <= MaxProbes
    BY FS_CardinalityType DEF DiscoveryInv, TasksInv
  <2>2. IsFiniteSet(D \ {t}) /\ Cardinality(D \ {t}) = Cardinality(D) - 1
    BY <1>3, <2>1, FS_RemoveElement
  <2>3. IsFiniteSet(DOMAIN tasks') /\ Cardinality(DOMAIN tasks') <= MaxProbes
    <3>1. CASE X = {}
      BY <1>4, <2>1, <2>2, <3>1, DiscoveryAssumption
    <3>2. ASSUME NEW x, X = {x}
          PROVE  IsFiniteSet(DOMAIN tasks') /\ Cardinality(DOMAIN tasks') <= MaxProbes
      BY <1>4, <2>1, <2>2, <3>2, FS_AddElement, DiscoveryAssumption
    <3> QED BY <1>4, <3>1, <3>2
  <2> QED BY <1>2, <1>4, <2>3 DEF DiscoveryInv, TasksInv
<1>8. AnsweredInv'
  <2>1. answered' = Reported' \cup Unjoined'
    BY <1>2, <1>3, <1>5 DEF DiscoveryInv, AnsweredInv, Unjoined
  <2>2. Reported' \cap DOMAIN tasks' = {}
    BY <1>3, <1>4 DEF DiscoveryInv, AnsweredInv
  <2> QED BY <1>2, <1>3, <2>1, <2>2 DEF DiscoveryInv, AnsweredInv
<1> QED BY <1>6, <1>7, <1>8 DEF DiscoveryInv

\* DiscoveryInv holds in every reachable state of the search.
THEOREM DiscoveryInductive == DiscoverySpec => []DiscoveryInv
<1>1. DiscoveryInv /\ [DiscoveryNext]_discoveryVars => DiscoveryInv'
  <2> SUFFICES ASSUME DiscoveryInv, [DiscoveryNext]_discoveryVars PROVE DiscoveryInv'
    OBVIOUS
  <2>1. CASE DiscoveryNext
    BY <2>1, RoundStep, SpawnProbeStep, JoinStep, ProbeEndsStep DEF DiscoveryNext
  <2>2. CASE UNCHANGED discoveryVars
    BY <2>2 DEF discoveryVars, DiscoveryInv, QueueInv, Ahead, TasksInv, AnsweredInv, Reported,
                Unjoined
  <2> QED BY <2>1, <2>2
<1> QED BY DiscoveryInvInit, <1>1, PTL DEF DiscoverySpec

\* In whatever order the probes end, and whatever requests of theirs are lost: a round
\* reports each server that answered once, with never more than MaxProbes tasks.
THEOREM ServersAreFoundOnce == DiscoverySpec => []FoundOnce
<1>1. DiscoveryInv => FoundOnce
  BY DEF DiscoveryInv, TasksInv, AnsweredInv, FoundOnce, Reported, Unjoined
<1> QED BY DiscoveryInductive, <1>1, PTL
=============================================================================
