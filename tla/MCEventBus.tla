----------------------------- MODULE MCEventBus -----------------------------
(* EventBus with a ring of two events, two streams and two Bus values.      *)
EXTENDS EventBus

CONSTANTS main, clone, s1, s2

MCHandles == {main, clone}
MCSubs == {s1, s2}
MCEvents == {"log", "alert"}
=============================================================================
