---------------------------- MODULE MCTelemetry -----------------------------
(* From the kernel's counters to the pages: the rates of a snapshot, the     *)
(* telemetry pipeline in every setup (collector or ingestor, with and        *)
(* without SQLite and Redis), and the log page over the tables it fills.     *)
(* The three have items of their own and share no variable: part says which  *)
(* of them a behaviour is about, and of the rates whether those of disks or  *)
(* those of an interface.                                                    *)
EXTENDS Telemetry, LogPages, Sampling, TLC

VARIABLE part

allVars == <<vars, pagesVars, samplingVars, part>>

MCSetups == Setup

\* Sampling: a device mounted twice, a root file system of its size before it, the
\* root with an empty file system while the device is away, and nothing.
MCMountTables ==
  LET sda == [name |-> "sda", total |-> 8]
      root == [name |-> "overlay", total |-> 8]
      empty == [name |-> "overlay", total |-> 0]
  IN {<<sda, sda>>, <<root, sda>>, <<root, empty>>, << >>}
MCRank == ("sda" :> 0) @@ ("overlay" :> 1)

MCInit ==
  /\ Init /\ PagesInit /\ SamplingInit
  /\ part \in {"pipeline", "pages", "disks", "nets"}
  /\ part # "pipeline" => setup = [collector |-> TRUE, db |-> TRUE, cache |-> "redis"]
  /\ part # "pages" => hasDb
  /\ part = "disks" <=> mounts # << >>

PipelineMoves == part = "pipeline" /\ Next /\ UNCHANGED <<pagesVars, samplingVars, part>>
PagesMove == part = "pages" /\ PagesNext /\ UNCHANGED <<vars, samplingVars, part>>
\* Of the disks: something is always mounted, and the interfaces are quiet.
SamplingMoves ==
  /\ part \in {"disks", "nets"} /\ SamplingNext /\ UNCHANGED <<vars, pagesVars, part>>
  /\ IF part = "disks" THEN mounts' # << >> /\ \A n \in Nics : counters'[n] = 0
                       ELSE mounts' = << >>

MCNext == PipelineMoves \/ PagesMove \/ SamplingMoves

\* The pipeline's fairness, of the behaviours that are about it.
MCSpec == MCInit /\ [][MCNext]_allVars /\ (part = "pipeline" => Fairness)
=============================================================================
