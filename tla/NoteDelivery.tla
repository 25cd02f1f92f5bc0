----------------------------- MODULE NoteDelivery -----------------------------
(***************************************************************************)
(* What generated-note delivery promises the host, without slots, queues   *)
(* or retry loops.  The host hears a set of notes; some of them may be     *)
(* owed a release.  While a release is owed, while the output is blocked   *)
(* and while the panic hold lasts, no note is started.  A blocked output   *)
(* opens again only at the end of a hold with nothing owed.                *)
(***************************************************************************)
EXTENDS Integers, FiniteSets

CONSTANTS
  NoteIds,    \* note identities
  MaxSounding \* how many may sound at once

VARIABLES
  heard,      \* identities sounding at the host
  owed,       \* those whose release must still be delivered
  blocked,    \* the output failed and has not recovered
  hold        \* panic hold: notes may end but none may start

vars == <<heard, owed, blocked, hold>>

Init == heard = {} /\ owed = {} /\ blocked = FALSE /\ hold = FALSE

\* A note starts, once, on an open output with no debt.
Start(i) ==
  /\ ~blocked /\ ~hold /\ owed = {}
  /\ i \notin heard
  /\ Cardinality(heard) < MaxSounding
  /\ heard' = heard \cup {i}
  /\ UNCHANGED <<owed, blocked, hold>>

\* A sounding note ends; one that is not owed only on an open output.
Stop(i) ==
  /\ i \in heard
  /\ i \in owed \/ (~blocked /\ owed = {})
  /\ heard' = heard \ {i}
  /\ owed' = owed \ {i}
  /\ UNCHANGED <<blocked, hold>>

\* Everything sounding becomes owed; the output may fail, or a hold begin, at the
\* same time.
OweAll ==
  /\ owed' = heard
  /\ blocked' \in {blocked, TRUE}
  /\ hold' \in {hold, TRUE}
  /\ UNCHANGED heard

Hold == hold' = TRUE /\ UNCHANGED <<heard, owed, blocked>>

Recover ==
  /\ hold /\ owed = {}
  /\ blocked => heard = {}
  /\ hold' = FALSE /\ blocked' = FALSE
  /\ UNCHANGED <<heard, owed>>

\* The ledger is deactivated.
Reset == heard' = {} /\ owed' = {} /\ blocked' = FALSE /\ hold' = FALSE

Next ==
  \/ \E i \in NoteIds : Start(i) \/ Stop(i)
  \/ OweAll \/ Hold \/ Recover \/ Reset

Spec == Init /\ [][Next]_vars

\* A debt is paid.
EveryDebtIsPaid == \A i \in NoteIds : i \in owed ~> i \notin heard
=============================================================================
