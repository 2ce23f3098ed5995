-------------------------- MODULE MCDurableCapture --------------------------
(* Instance of DurableCapture for TLC.                                      *)
EXTENDS DurableCapture

\* An offline run that a login interrupts in its first stages.
MCRoutes == {"rest_backfill"}
MCOffered == {Plain(t) : t \in {"route_ready", "auth_required", "auth_resolved"}}
==============================================================================
