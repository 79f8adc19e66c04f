------------------------------ MODULE MCFixStage ------------------------------
(***************************************************************************)
(* FixStageProperties for TLC.                                             *)
(***************************************************************************)
EXTENDS FixStageProperties

CONSTANTS i1, i2

MCItems == {i1, i2}

=============================================================================
