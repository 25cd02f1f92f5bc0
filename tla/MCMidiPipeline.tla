---------------------------- MODULE MCMidiPipeline ----------------------------
(***************************************************************************)
(* Instances of MidiPipeline for TLC.                                      *)
(***************************************************************************)
EXTENDS MidiPipeline

OneNote == {40}

\* Per-voice channels from the last one on, which wrap.
MCRoutes == {[routing |-> "per_voice", start |-> NumChannels]}

E(time, kind) == [time |-> time, kind |-> kind]

\* Lists in order and out of order, with truncated, other, late and missing events.
MCInputs ==
  {<<E(0, "short"), E(1, "midi"), E(0, "midi"), E(2, "midi")>>,
   <<E(0, "midi"), E(0, "midi"), E(1, "null"), E(1, "other")>>}

=============================================================================
