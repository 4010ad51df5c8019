---------------------------- MODULE MCBackground ----------------------------
(* The process and what its loops do: how it stops with its tasks, and the   *)
(* rounds of the digest, of the pollers and of the search for AI servers.    *)
(* The four share no variable, so what one of them can reach does not depend *)
(* on what the others do: part says which of them a behaviour is about.      *)
EXTENDS Lifecycle, Insight, Poller, Discovery, TLC

CONSTANTS r1, r2, s1, e1, e2, e3

VARIABLE part

allVars == <<vars, insightVars, pollerVars, discoveryVars, part>>

\* Lifecycle: two requests and one watcher of /events.
MCRequests == {r1, r2}
MCStreams == {s1}
\* The collector, the ingestor and the poller.
MCOptional == {3}
MCEager == {3}

\* Insight: a sample below both thresholds of the CPU, between them, and above; the
\* memory's threshold is the lower one's.
MCSamples == {[cpu |-> 97, memory |-> 97], [cpu |-> 98, memory |-> 97],
              [cpu |-> 99, memory |-> 98]}
MCModes == Mode

\* Poller
MCEndpoints == <<e1, e2, e3>>
MCKinds == (e1 :> "Generic") @@ (e2 :> "Exo") @@ (e3 :> "Other")
MCExoHint == {e1, e2}
MCAnswers == Answer

\* Discovery: this machine and one other, two ports each.  The configured endpoints
\* name one server twice, once with and once without a scheme.
ThisHost(port) == [ip |-> <<127, 0, 0, 1>>, port |-> port]
Neighbour(port) == [ip |-> <<192, 168, 1, 2>>, port |-> port]
MCConfigured == <<[url |-> TRUE, host |-> ThisHost(8080), path |-> <<"v1">>],
                  [url |-> FALSE, host |-> ThisHost(8080), path |-> <<"v1">>]>>
MCPorts == <<8080, 52415>>
MCLocalIp == <<192, 168, 1, 1>>
MCServes ==
  (ThisHost(52415) :> (<<"api", "tags">> :> "list" @@ <<"v1", "models">> :> "list"))
  @@ (ThisHost(8080) :> (<<"v1", "models">> :> "list"))
  @@ (Neighbour(8080) :> (<<"v1", "models">> :> "odd" @@ <<"state">> :> "list"))
  @@ (Neighbour(52415) :> (<<"models">> :> "list" @@ <<"state">> :> "list"))
MCHints == [h \in DOMAIN MCServes |->
              CASE h = ThisHost(52415) -> {"Ollama", "LlamaCpp"}
                [] h = Neighbour(8080) -> {"Exo"}
                [] OTHER -> {}]

MCInit ==
  /\ Init /\ InsightInit /\ PollerInit /\ DiscoveryInit
  /\ part \in {"process", "insight", "poller", "discovery"}
  /\ part # "insight" => mode = [remote |-> TRUE, db |-> TRUE]
  /\ part # "process" => equipped = Tasks

ProcessMoves ==
  part = "process" /\ Next /\ UNCHANGED <<insightVars, pollerVars, discoveryVars, part>>
InsightMoves ==
  part = "insight" /\ InsightNext /\ UNCHANGED <<vars, pollerVars, discoveryVars, part>>
PollerMoves ==
  part = "poller" /\ PollerNext /\ UNCHANGED <<vars, insightVars, discoveryVars, part>>
DiscoveryMoves ==
  part = "discovery" /\ DiscoveryNext /\ UNCHANGED <<vars, insightVars, pollerVars, part>>

MCNext == ProcessMoves \/ InsightMoves \/ PollerMoves \/ DiscoveryMoves

\* The fairness of each part, of the behaviours that are about it.
MCSpec ==
  /\ MCInit /\ [][MCNext]_allVars
  /\ part = "process" => LeavingFairness
  /\ part = "insight" => InsightFairness
=============================================================================
