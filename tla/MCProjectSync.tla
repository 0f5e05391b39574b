---------------------------- MODULE MCProjectSync ----------------------------
(***************************************************************************)
(* ProjectSync for TLC.  Two devices are the least that can disagree, two  *)
(* names the least for a rename, and two projects the least for a clash.   *)
(***************************************************************************)
EXTENDS ProjectSync
=============================================================================
