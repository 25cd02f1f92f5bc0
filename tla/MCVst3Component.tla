--------------------------- MODULE MCVst3Component ---------------------------
(***************************************************************************)
(* Instances of Vst3Component for TLC: one structural and one runtime      *)
(* parameter, or two structural ones, of two values each.                  *)
(***************************************************************************)
EXTENDS Vst3Component

OneStructural == {"channel"}
OneOfEach     == {"channel", "trim"}
TwoStructural == {"channel", "lowest"}
=============================================================================
