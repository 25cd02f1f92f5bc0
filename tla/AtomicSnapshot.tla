--------------------------- MODULE AtomicSnapshot ---------------------------
(***************************************************************************)
(* What the three sequence-lock transports of the plug-in promise          *)
(* (CalibrationBankTransport, TunerTelemetry, AtomicConfigRequest): a      *)
(* register that a writer replaces in one step and a reader copies in one  *)
(* step.  A read may also find nothing yet, or give up, which leaves its   *)
(* snapshot alone.                                                         *)
(***************************************************************************)
CONSTANTS
  Value,      \* what can be published
  Empty       \* nothing published, nothing read

VARIABLES
  published,  \* the last value made visible
  snapshot    \* what the reader last accepted

vars == <<published, snapshot>>

Init ==
  /\ published \in Value \cup {Empty}
  /\ snapshot = Empty

Publish ==
  /\ published' \in Value
  /\ UNCHANGED snapshot

\* The owner starts over before any reader runs.
Reset ==
  /\ published' = Empty
  /\ UNCHANGED snapshot

Read ==
  /\ published # Empty
  /\ snapshot' = published
  /\ UNCHANGED published

Next == Publish \/ Reset \/ Read

Spec == Init /\ [][Next]_vars

=============================================================================
