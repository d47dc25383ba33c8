---------------------------- MODULE MCGruntPatch ----------------------------
(* Every run of three patch_wordpress tasks.                                *)
EXTENDS GruntPatch
=============================================================================
