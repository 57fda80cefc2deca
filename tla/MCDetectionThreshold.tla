------------------------- MODULE MCDetectionThreshold -------------------------
(* The values of MCCollisionResolver for both passes.                        *)
EXTENDS DetectionThreshold, MCCollisionResolver
=============================================================================
