------------------------------- MODULE Poller -------------------------------
(***************************************************************************)
(* The poller of ai_poll.rs: a round probes every configured AI endpoint   *)
(* in turn, puts the results in the cache the dashboard reads, and         *)
(* announces on the bus what has changed since the round before.  Beside   *)
(* it the health check of background.rs probes the LLM the same way, for   *)
(* /api/health.                                                            *)
(***************************************************************************)
EXTENDS Naturals, Sequences, SharedTypes

CONSTANTS
  Endpoints,  \* the configured endpoints, in their order
  Kinds,      \* endpoint -> the kind parse_kind reads from its configuration
  ExoHint,    \* the endpoints whose kind, name or port hints at Exo
  HasLlm,     \* whether an LLM client is configured
  Answers     \* what an endpoint may answer to GET /models and to GET /state

Kind == {"Generic", "Exo", "Other"}
Answer == [models : {"2xx", "status", "error"}, nodes : BOOLEAN]
EndpointSet == {Endpoints[i] : i \in 1..Len(Endpoints)}

ASSUME PollerAssumption ==
  /\ Endpoints \in Seq(EndpointSet)
  /\ \A i, j \in 1..Len(Endpoints) : Endpoints[i] = Endpoints[j] => i = j
  /\ Kinds \in [EndpointSet -> Kind]
  /\ ExoHint \subseteq EndpointSet
  /\ \A e \in EndpointSet : Kinds[e] = "Exo" => e \in ExoHint
  /\ Answers \subseteq Answer
  /\ HasLlm \in BOOLEAN

VARIABLES
  results,    \* what this round has found so far, in the order of Endpoints
  previous,   \* the results of the round before, read from the cache
  cached,     \* the cache: the results of the last round that ended
  telling,    \* the endpoint whose change is to be announced next; 0 while probing
  up,         \* history: the endpoints announced as online, or so in the first round
  health,     \* BackgroundState.health
  stopped

pollerVars == <<results, previous, cached, telling, up, health, stopped>>

N == Len(Endpoints)
Result == [kind : Kind, online : BOOLEAN, nodes : BOOLEAN, failed : BOOLEAN]
Results(n) == [1..n -> Result]

PollerTypeOK ==
  /\ Len(results) <= N /\ results \in Results(Len(results))
  /\ previous \in Results(0) \cup Results(N)
  /\ cached \in Results(0) \cup Results(N)
  /\ telling \in 0..N
  /\ up \subseteq EndpointSet
  /\ health \in Healths
  /\ stopped \in BOOLEAN

PollerInit ==
  /\ results = << >>
  /\ previous = << >>
  /\ cached = << >>
  /\ telling = 0
  /\ up = {}
  /\ health = "Healthy"
  /\ stopped = FALSE

-----------------------------------------------------------------------------
(* probe_endpoint                                                          *)

\* Only an endpoint that hints at Exo is asked for the nodes of its cluster, and
\* one that names them is an Exo even if it was configured without a kind.
Found(e, a) ==
  LET nodes == e \in ExoHint /\ a.nodes IN
  [kind |-> IF nodes /\ Kinds[e] = "Generic" THEN "Exo" ELSE Kinds[e],
   online |-> TRUE, nodes |-> nodes, failed |-> FALSE]

\* A status outside 2xx and no connection are the same: offline, with last_error.
NotFound(e) == [kind |-> Kinds[e], online |-> FALSE, nodes |-> FALSE, failed |-> TRUE]

ProbeEndpoint(e, a) == IF a.models = "2xx" THEN Found(e, a) ELSE NotFound(e)

\* The endpoints are probed one after the other, whatever the others answer.
Probe ==
  /\ ~stopped
  /\ telling = 0
  /\ Len(results) < N
  /\ \E a \in Answers : results' = Append(results, ProbeEndpoint(Endpoints[Len(results) + 1], a))
  /\ UNCHANGED <<previous, cached, telling, up, health, stopped>>

-----------------------------------------------------------------------------
(* The end of a round                                                      *)

Online(r) == {Endpoints[i] : i \in {j \in 1..Len(r) : r[j].online}}

\* Mutant of EndRound: the cache is written before it is read.
EndRoundWritesFirst ==
  /\ telling = 0 /\ N > 0 /\ Len(results) = N
  /\ previous' = results
  /\ cached' = results
  /\ telling' = 1
  /\ up' = IF cached = << >> THEN Online(results) ELSE up
  /\ UNCHANGED <<results, health, stopped>>

\* The cache is read, then written.  After the first round there is nothing to
\* compare with: what it found is not announced.  Without endpoints there are no rounds.
EndRound ==
  /\ telling = 0
  /\ N > 0
  /\ Len(results) = N
  /\ previous' = cached
  /\ cached' = results
  /\ telling' = 1
  /\ up' = IF cached = << >> THEN Online(results) ELSE up
  /\ UNCHANGED <<results, health, stopped>>

\* zip(previous, results): one event for each endpoint whose status is another.
Tell ==
  /\ telling > 0
  /\ up' = IF telling <= Len(previous) /\ previous[telling].online # results[telling].online
           THEN IF results[telling].online THEN up \cup {Endpoints[telling]}
                                           ELSE up \ {Endpoints[telling]}
           ELSE up
  /\ IF telling = N THEN telling' = 0 /\ results' = << >>
                    ELSE telling' = telling + 1 /\ UNCHANGED results
  /\ UNCHANGED <<previous, cached, health, stopped>>

\* The flag is looked at once per round, before its first probe; never before the
\* initial round.
StopPolling ==
  /\ ~stopped
  /\ telling = 0 /\ results = << >> /\ cached # << >>
  /\ stopped' = TRUE
  /\ UNCHANGED <<results, previous, cached, telling, up, health>>

\* check_llm_health: 2xx, another status (or a client that cannot be built), or no
\* answer within five seconds.
CheckHealth ==
  /\ ~stopped
  /\ health' \in (IF HasLlm THEN Healths ELSE {"Healthy"})
  /\ UNCHANGED <<results, previous, cached, telling, up, stopped>>

PollerStopped == stopped /\ UNCHANGED pollerVars

PollerNext == Probe \/ EndRound \/ Tell \/ CheckHealth \/ StopPolling \/ PollerStopped

PollerSpec == PollerInit /\ [][PollerNext]_pollerVars

-----------------------------------------------------------------------------
(* Properties                                                              *)

\* A page that was loaded between two rounds and then follows the events shows what
\* a page loaded now shows: the statuses after the first round with every event
\* applied since are the statuses in the cache.  While a round is being announced the
\* events are a part of the way there and the cache is ahead of them, never behind.
EventsTellTheCache ==
  /\ telling = 0 => up = Online(cached)
  /\ telling > 0 /\ previous # << >> =>
       \A i \in 1..N : Endpoints[i] \in up <=> IF i < telling THEN cached[i].online
                                                             ELSE previous[i].online
=============================================================================
