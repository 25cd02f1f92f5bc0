----------------------------- MODULE MCCalibration -----------------------------
(***************************************************************************)
(* Instances of Calibration for TLC.                                       *)
(***************************************************************************)
EXTENDS Calibration
=============================================================================
