---------------------------- MODULE MCNoteLedger ----------------------------
(***************************************************************************)
(* Instances of NoteLedger for TLC.                                        *)
(***************************************************************************)
EXTENDS NoteLedger

OneNote  == {40}
TwoNotes == {40, 47}

\* The last channel as the start: per-voice channels wrap to channel 1.
BothRoutes == {[routing |-> "single", start |-> NumChannels],
               [routing |-> "per_voice", start |-> NumChannels]}
PerVoice   == {[routing |-> "per_voice", start |-> NumChannels]}
=============================================================================
