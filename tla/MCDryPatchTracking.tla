-------------------------- MODULE MCDryPatchTracking --------------------------
(* Three output steps of at most three dry patches each.                    *)
EXTENDS DryPatchTracking
=============================================================================
