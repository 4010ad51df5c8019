---------------------------- MODULE MCLifecycle -----------------------------
(* Lifecycle with two requests, one watcher of /events and three tasks.     *)
EXTENDS Lifecycle

CONSTANTS r1, r2, s1

MCRequests == {r1, r2}
MCStreams == {s1}
\* The collector, the ingestor and the poller.
MCOptional == {3}
MCEager == {3}
=============================================================================
