---------------------------- MODULE SharedTypes -----------------------------
(***************************************************************************)
(* The enumeration of types.rs that more than one component tells apart.   *)
(***************************************************************************)
\* HealthStatus
Healths == {"Healthy", "Degraded", "Unhealthy"}
=============================================================================
