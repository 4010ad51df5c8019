----------------------------- MODULE Discovery ------------------------------
(***************************************************************************)
(* The collector's search for AI servers (ai_scanner.rs): the configured   *)
(* endpoints, the ports of localhost and, if wanted, those of the subnet   *)
(* are probed by at most MaxProbes tasks at a time, and what they find is  *)
(* gathered in the order the tasks end.                                    *)
(*                                                                         *)
(* A host is an address with a port, [ip, port]; the path of a URL is the  *)
(* sequence of its segments.                                               *)
(***************************************************************************)
EXTENDS Naturals, Sequences, FiniteSets, SequencesExt

CONSTANTS
  Configured,  \* ai_server_endpoints: a sequence of [url, host, path]
  Ports,       \* INFERENCE_PORTS, in their order
  LocalIp,     \* the address of this machine, four octets
  SubnetSize,  \* addresses of its subnet (256 in the code)
  SubnetScan,  \* whether the subnet is to be scanned
  Serves,      \* host -> what a GET of a path brings: "list" or "odd"
  Hints,       \* host -> the kinds its name, or those of its models, hint at
  MaxProbes    \* how many tasks may run at a time (32)

Hosts == DOMAIN Serves
Paths == UNION {DOMAIN Serves[h] : h \in Hosts}

\* infer_kind asks for the hints in this order.
KindOrder == <<"Ollama", "LlamaCpp", "Vllm", "Triton", "Sglang", "TabbyApi", "LmStudio",
               "TextGenerationInference", "ExllamaV2", "KoboldCpp", "Exo">>
ServerKinds == Range(KindOrder) \cup {"Generic"}

ASSUME DiscoveryAssumption ==
  /\ SubnetScan \in BOOLEAN /\ MaxProbes \in Nat \ {0} /\ SubnetSize \in Nat \ {0}
  /\ LocalIp \in [1..4 -> 0..255]
  /\ \A h \in Hosts : \A p \in DOMAIN Serves[h] : Serves[h][p] \in {"list", "odd"}
  /\ Hints \in [Hosts -> SUBSET Range(KindOrder)]

VARIABLES
  targets,   \* unique_targets that have no task yet, as positions in AllTargets
  tasks,     \* the JoinSet: target -> Running, or what its probe found
  phase,     \* "idle", "spawn" while targets are taken, "drain" behind the last
  found,     \* results
  answered   \* history: the targets whose probe found a server in this round

discoveryVars == <<targets, tasks, phase, found, answered>>

-----------------------------------------------------------------------------
(* discover_ai_servers                                                     *)

ApiPaths == {<<"v1">>, <<"v2">>, <<"api">>, <<"api", "tags">>, <<"models">>}

\* At most one suffix fits, and one is taken off.
StripApiPath(p) ==
  IF \E s \in ApiPaths : IsSuffix(s, p)
  THEN SubSeq(p, 1, Len(p) - Len(CHOOSE s \in ApiPaths : IsSuffix(s, p)))
  ELSE p

\* Only a full URL loses its API path.
NormalizeEndpoint(e) == [host |-> e.host, rest |-> IF e.url THEN StripApiPath(e.path) ELSE e.path]

\* Every port of one address.
TargetsAt(ip) ==
  [i \in 1..Len(Ports) |-> [host |-> [ip |-> ip, port |-> Ports[i]], rest |-> << >>]]

IsPrivate(ip) ==
  \/ ip[1] \in {10, 127}
  \/ ip[1] = 172 /\ ip[2] \in 16..31
  \/ ip[1] = 192 /\ ip[2] = 168

\* The addresses of the subnet without the network's own and the broadcast address.
SubnetTargets ==
  LET network == LocalIp[4] - (LocalIp[4] % SubnetSize) IN
  IF ~IsPrivate(LocalIp) THEN << >>
  ELSE FlattenSeq([k \in 1..SubnetSize - 2 |-> TargetsAt([LocalIp EXCEPT ![4] = network + k])])

AllTargets ==
  [i \in 1..Len(Configured) |-> NormalizeEndpoint(Configured[i])]
    \o TargetsAt(<<127, 0, 0, 1>>)
    \o (IF SubnetScan THEN SubnetTargets ELSE << >>)

\* seen.insert(label): the first target of a label stays.
UniqueTargets ==
  {i \in 1..Len(AllTargets) : \A j \in 1..i - 1 : AllTargets[j] # AllTargets[i]}

-----------------------------------------------------------------------------
(* probe_endpoint                                                          *)

ModelsPaths == << <<"v1", "models">>, <<"v2", "models">>, <<"models">> >>

AtExoPort(h) == h.port = 52415

InferKind(h) ==
  LET hinted == {i \in DOMAIN KindOrder : \/ KindOrder[i] \in Hints[h]
                                          \/ KindOrder[i] = "Exo" /\ AtExoPort(h)} IN
  IF hinted = {} THEN "Generic" ELSE KindOrder[Min(hinted)]

\* What a GET brings while the requests in lost fail: no connection, a status, a body
\* that cannot be read.
Get(t, p, lost) ==
  LET full == t.rest \o p IN
  IF t.host \in Hosts /\ full \in DOMAIN Serves[t.host] \ lost THEN Serves[t.host][full] ELSE "nothing"

Running == [kind |-> "running"]
Nothing == [kind |-> "nothing"]
Server(t, kind, nodes) == [target |-> t, kind |-> kind, nodes |-> nodes]

\* Ollama's own path first, then the lists of models, at last the state of an Exo.
\* A list that cannot be read counts as a server that is there.  A generic kind has
\* no nodes, as the port alone makes an Exo of it.
ProbeResult(t, lost) ==
  LET Nodes == Get(t, <<"state">>, lost) = "list"
      lists == {i \in 1..3 : Get(t, ModelsPaths[i], lost) # "nothing"}
      kind == IF t.host \in Hosts THEN InferKind(t.host) ELSE "Generic"
  IN CASE Get(t, <<"api", "tags">>, lost) = "list" -> Server(t, "Ollama", FALSE)
       [] OTHER ->
            IF lists = {} THEN IF Nodes THEN Server(t, "Exo", TRUE) ELSE Nothing
            ELSE IF Get(t, ModelsPaths[Min(lists)], lost) = "odd"
                 THEN Server(t, IF Nodes THEN "Exo" ELSE "Generic", Nodes)
                 ELSE Server(t, kind, Nodes /\ (kind = "Exo" \/ AtExoPort(t.host)))

\* Every request of a probe has a timeout: it ends, whatever is lost.
ProbeEnds(t) ==
  /\ t \in DOMAIN tasks
  /\ tasks[t] = Running
  /\ \E lost \in SUBSET Paths :
       /\ tasks' = [tasks EXCEPT ![t] = ProbeResult(t, lost)]
       /\ answered' = IF ProbeResult(t, lost) = Nothing THEN answered ELSE answered \cup {t}
  /\ UNCHANGED <<targets, phase, found>>

-----------------------------------------------------------------------------
(* probe_targets                                                           *)

\* The collector's tick: one round at a time.
Scan ==
  /\ phase = "idle"
  /\ targets' = UniqueTargets
  /\ phase' = "spawn"
  /\ found' = << >>
  /\ answered' = {}
  /\ UNCHANGED tasks

Ended == {t \in DOMAIN tasks : tasks[t] # Running}
Gathered(result) == IF result = Nothing THEN found ELSE Append(found, result)
Without(t) == [u \in DOMAIN tasks \ {t} |-> tasks[u]]

\* The next target gets a task beside those in S.
SpawnBeside(S) ==
  \E i \in targets :
    /\ \A j \in targets : i <= j
    /\ tasks' = [u \in S \cup {AllTargets[i]} |-> IF u = AllTargets[i] THEN Running ELSE tasks[u]]
    /\ targets' = targets \ {i}

SpawnProbe ==
  /\ phase = "spawn"
  /\ Cardinality(DOMAIN tasks) < MaxProbes
  /\ SpawnBeside(DOMAIN tasks)
  /\ UNCHANGED <<phase, found, answered>>

\* Mutant of SpawnWhenFull: what makes room is forgotten.
SpawnWhenFullForgets ==
  /\ phase = "spawn"
  /\ Cardinality(DOMAIN tasks) >= MaxProbes
  /\ \E t \in Ended : SpawnBeside(DOMAIN tasks \ {t})
  /\ UNCHANGED <<phase, found, answered>>

\* The set is full: join_next first.
SpawnWhenFull ==
  /\ phase = "spawn"
  /\ Cardinality(DOMAIN tasks) >= MaxProbes
  /\ \E t \in Ended :
       /\ found' = Gathered(tasks[t])
       /\ SpawnBeside(DOMAIN tasks \ {t})
  /\ UNCHANGED <<phase, answered>>

AllSpawned ==
  /\ phase = "spawn" /\ targets = {}
  /\ phase' = "drain"
  /\ UNCHANGED <<targets, tasks, found, answered>>

Drain ==
  /\ phase = "drain"
  /\ \E t \in Ended :
       /\ found' = Gathered(tasks[t])
       /\ tasks' = Without(t)
  /\ UNCHANGED <<targets, phase, answered>>

\* The snapshot gets what was found.
ScanEnds ==
  /\ phase = "drain" /\ DOMAIN tasks = {}
  /\ phase' = "idle"
  /\ UNCHANGED <<targets, tasks, found, answered>>

DiscoveryInit ==
  /\ targets = {}
  /\ tasks = << >>
  /\ phase = "idle"
  /\ found = << >>
  /\ answered = {}

DiscoveryNext ==
  \/ Scan \/ SpawnProbe \/ SpawnWhenFull \/ AllSpawned \/ Drain \/ ScanEnds
  \/ \E t \in DOMAIN tasks : ProbeEnds(t)

DiscoverySpec == DiscoveryInit /\ [][DiscoveryNext]_discoveryVars

-----------------------------------------------------------------------------
(* Properties                                                              *)

\* At the end of a round every target whose probe found a server is reported, once,
\* and nothing else is: no result is lost when a full set makes room, no task is left
\* behind, and no label is probed twice.  There are never more than MaxProbes tasks.
FoundOnce ==
  /\ Cardinality(DOMAIN tasks) <= MaxProbes
  /\ phase = "idle" => /\ {found[i].target : i \in 1..Len(found)} = answered
                       /\ Len(found) = Cardinality(answered)
=============================================================================
