---------------------------- MODULE MCAlertChain ----------------------------
(* AlertChain with three alerts, three timestamps and both writers.        *)
EXTENDS AlertChain

CONSTANTS ingestor, digest

MCWriters == {ingestor, digest}
MCOneWriter == {ingestor}
MCIds == 1..3
MCTimes == 1..2
MCBodies == {"as logged", "edited"}
=============================================================================
