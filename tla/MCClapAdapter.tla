---------------------------- MODULE MCClapAdapter ----------------------------
(* The CLAP adapter for TLC: one structural and one other parameter. *)
EXTENDS ClapAdapter

TwoParameters == {"midi_channel", "dry_passthrough"}
OneStructural == {"midi_channel"}
TwoValues     == {0, 1}
AllZero       == [p \in TwoParameters |-> 0]

\* The default, a structural and another change of it.
OneChange ==
  {c \in [TwoParameters -> TwoValues] : c["midi_channel"] = 0 \/ c["dry_passthrough"] = 0}

\* What the hosts do: parameter events with notes, refused events, panics and
\* resets; state loads with faulty blocks and the lifecycle; events against loads.
SomeHosts ==
  {{"edit", "notes", "refuse", "panic", "reset"},
   {"load", "panic", "reset", "degrade", "stop", "cycle"},
   {"edit", "load"}}

\* A host that only sends parameter events.
EditingHost == {{"edit"}}

=============================================================================
