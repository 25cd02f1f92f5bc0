------------------------------ MODULE MCSeqlocks ------------------------------
(***************************************************************************)
(* The seqlocks for TLC.  Two words of two contents can be torn, and two   *)
(* generations and enough publications let a whole one take place between  *)
(* two words of a read.  The tuner's frame has one voice of two words, or  *)
(* none; the configuration has the CLAP adapter's two writers, and         *)
(* generations that wrap.                                                  *)
(***************************************************************************)
EXTENDS Seqlocks

MCInitial == <<0, 0>>
=============================================================================
