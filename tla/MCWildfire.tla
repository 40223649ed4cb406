----------------------------- MODULE MCWildfire -----------------------------
(***************************************************************************)
(* Wildfire on small fleets: the constants are in the .cfg files, which    *)
(* also say which of the properties a run checks.                          *)
(***************************************************************************)
EXTENDS Wildfire
=============================================================================
