---------------------------- MODULE MCApbMasterMc ----------------------------
(***************************************************************************)
(* Finite instances of ApbMasterMc.                                        *)
(***************************************************************************)
EXTENDS ApbMasterMc

MCRatios == Ratio
=============================================================================
