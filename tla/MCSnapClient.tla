----------------------------- MODULE MCSnapClient -----------------------------
(* Two addresses, two failures to drop one of them, and deployments with and *)
(* without a fatal threshold.                                                *)
EXTENDS SnapClient

MCProxies == {"p1", "p2"}
=============================================================================
