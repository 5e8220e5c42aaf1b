-------------------------- MODULE MCDissemination --------------------------
(***************************************************************************)
(* Instances of Dissemination for TLC.                                     *)
(***************************************************************************)
EXTENDS Dissemination
=============================================================================
