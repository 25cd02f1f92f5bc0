------------------------------ MODULE StringSweep ------------------------------
(***************************************************************************)
(* StringSweepCalibrator (native/src/string_calibration.cpp), which learns *)
(* one string from frets held one at a time, open to top and back, and     *)
(* keeps the calibration bank the detector plays by.                       *)
(*                                                                         *)
(* An observation is known by what observe() finds out about it: whether   *)
(* it is of the requested fret, settled with the others of its window,     *)
(* and whether the two directions of a fret agree in the end; cents,       *)
(* confidences and harmonic profiles are left out, and so are refused      *)
(* observations, which only count themselves.  A row of the bank keeps     *)
(* where it comes from, the quality of its points and whether it has       *)
(* partial detunings; a bank, the state load it descends from (since).     *)
(***************************************************************************)
EXTENDS Integers, FiniteSets

CONSTANTS
  Strings,              \* string indices: 0 .. kMaxVoices - 1
  NumFrets,             \* kCalibrationFretCount (25)
  OpenObservations,     \* open_lock_observations_
  StableObservations,   \* stable_window_observations_
  MinimumPerDirection,  \* kMinimumObservationsPerDirection (3)
  MinimumMeasured       \* kMinimumMeasuredFrets (18)

\* A stable window has at least kMinimumStableWindowObservations (3) observations, and
\* so has the open string from 24 observations a second.
ASSUME SweepAssumption ==
  /\ 0 \in Strings /\ Strings \subseteq 0 .. 7
  /\ NumFrets \in Nat /\ NumFrets >= 2
  /\ MinimumPerDirection \in Nat /\ MinimumPerDirection >= 2
  /\ OpenObservations \in Nat /\ OpenObservations >= MinimumPerDirection
  /\ StableObservations \in Nat /\ StableObservations >= MinimumPerDirection
  /\ MinimumMeasured \in Nat

VARIABLES
  phase,           \* status_.phase
  string_index,    \* status_.string_index
  requested_fret,  \* status_.requested_fret
  ascending,       \* ascending_[fret].count
  descending,      \* descending_[fret].count
  stable_window,   \* stable_window_: its fret, NumFrets while empty, phase and count
  bank             \* bank_

progress == <<phase, string_index, requested_fret>>
counts   == <<ascending, descending, stable_window>>
sweep    == <<progress, counts, bank>>

-----------------------------------------------------------------------------
Frets     == 0 .. NumFrets - 1
Top       == NumFrets - 1
Nothing   == [f \in Frets |-> 0]
Phases    == {"idle", "waiting_open", "ascending", "descending", "complete", "insufficient"}
Window    == [fret : 0 .. NumFrets, phase : Phases, count : 0 .. StableObservations - 1]
NoWindow  == [fret |-> NumFrets, phase |-> "idle", count |-> 0]
Sweeping  == {"waiting_open", "ascending", "descending"}
Ended     == {"complete", "insufficient"}
Qualities == {"missing", "measured", "interpolated"}
Origins   == {"none", "factory", "loaded", "swept"}

Row      == [origin : Origins, quality : [Frets -> Qualities], detuned : BOOLEAN]
NoRow    == [origin |-> "none", quality |-> [f \in Frets |-> "missing"], detuned |-> FALSE]
FullRow(o, d) == [origin |-> o, quality |-> [f \in Frets |-> "measured"], detuned |-> d]

Bank      == [mask : SUBSET Strings, rows : [Strings -> Row], since : Nat]
EmptyBank == [mask |-> {}, rows |-> [s \in Strings |-> NoRow], since |-> 0]

\* valid_bank: a string has all of its points or none.
ValidBank(b) ==
  \A s \in Strings : \A f \in Frets : s \in b.mask <=> b.rows[s].quality[f] # "missing"

\* active()
SweepActive == phase \in Sweeping

-----------------------------------------------------------------------------
\* begin(), of a calibrator that is not active.
Begin(s) ==
  /\ phase' = "waiting_open" /\ string_index' = s /\ requested_fret' = 0
  /\ ascending' = Nothing /\ descending' = Nothing /\ stable_window' = NoWindow
  /\ UNCHANGED bank

\* The phase cancel() leaves: one that has ended stays.
Cancelled == IF SweepActive THEN "idle" ELSE phase

ForgetCounts ==
  ascending' = Nothing /\ descending' = Nothing /\ stable_window' = NoWindow

\* cancel()
CancelSweep ==
  /\ phase' = Cancelled
  /\ ForgetCounts
  /\ UNCHANGED <<string_index, requested_fret, bank>>

\* set_bank(b), once the phase is p: an active sweep keeps its bank.
SetBank(p, b) == bank' = IF p \in Sweeping THEN bank ELSE b

\* cancel() and set_bank(b)
CancelAndSet(b) ==
  /\ phase' = Cancelled
  /\ ForgetCounts
  /\ SetBank(Cancelled, b)
  /\ UNCHANGED <<string_index, requested_fret>>

\* clear() and set_bank(b)
ClearAndSet(b) ==
  /\ phase' = "idle" /\ string_index' = 0 /\ requested_fret' = 0
  /\ ForgetCounts
  /\ SetBank("idle", b)

-----------------------------------------------------------------------------
(* observe(), of an observation it accepts for the phase it is in *)

\* The open string in tune; steady: at the end of the window, its deviation is small.
ObserveOpen(steady) ==
  /\ phase = "waiting_open"
  /\ LET n == ascending[0] + 1
         locks == n >= OpenObservations
     IN  /\ ascending' = [ascending EXCEPT ![0] = IF locks /\ ~steady THEN 0 ELSE n]
         /\ phase' = IF locks /\ steady THEN "ascending" ELSE phase
         /\ requested_fret' = IF locks /\ steady THEN 1 ELSE requested_fret
         /\ stable_window' = IF locks /\ steady THEN NoWindow ELSE stable_window
  /\ UNCHANGED <<string_index, descending, bank>>

Climbing == phase \in {"ascending", "descending"}

\* Another fret than the one asked for: the window starts over.
ObserveElsewhere ==
  /\ Climbing
  /\ stable_window' = NoWindow
  /\ UNCHANGED <<progress, ascending, descending, bank>>

InWindow == stable_window.fret = requested_fret /\ stable_window.phase = phase

\* The first observation of a window, or one that is not settled: a new window.
ObserveUnsettled ==
  /\ Climbing
  /\ stable_window' = [fret |-> requested_fret, phase |-> phase, count |-> 1]
  /\ UNCHANGED <<progress, ascending, descending, bank>>

WindowFull == stable_window.count + 1 >= StableObservations

\* One more settled observation of a window that stays open.
ObserveSettled ==
  /\ Climbing /\ InWindow /\ ~WindowFull
  /\ stable_window' = [stable_window EXCEPT !.count = @ + 1]
  /\ UNCHANGED <<progress, ascending, descending, bank>>

\* Variant: the top fret is not counted for the way down.
HeldAscendingOnly(n) ==
  IF phase = "ascending"
  THEN ascending' = [ascending EXCEPT ![requested_fret] = @ + n] /\ UNCHANGED descending
  ELSE descending' = [descending EXCEPT ![requested_fret] = @ + n] /\ UNCHANGED ascending

\* n settled observations are counted for their fret and direction, those of the top
\* fret for both.
Held(n) ==
  IF phase = "ascending"
  THEN /\ ascending' = [ascending EXCEPT ![requested_fret] = @ + n]
       /\ descending' = IF requested_fret = Top
                        THEN [descending EXCEPT ![Top] = ascending'[Top]] ELSE descending
  ELSE descending' = [descending EXCEPT ![requested_fret] = @ + n] /\ UNCHANGED ascending

Up == phase = "ascending" /\ requested_fret < Top

\* The window is full: on to the next fret, and at the top back down.
ObserveHeld ==
  /\ Climbing /\ InWindow /\ WindowFull
  /\ ~(phase = "descending" /\ requested_fret = 0)
  /\ Held(stable_window.count + 1)
  /\ phase' = IF Up THEN "ascending" ELSE "descending"
  /\ requested_fret' = IF Up THEN requested_fret + 1 ELSE requested_fret - 1
  /\ stable_window' = NoWindow
  /\ UNCHANGED <<string_index, bank>>

\* finalize: the frets measured in both directions, those of Agreeing with one result.
Measured(Agreeing, up, down) ==
  {f \in Agreeing : up[f] >= MinimumPerDirection /\ down[f] >= MinimumPerDirection}

\* finalize: a point between two measured ones is interpolated.
Quality(M) ==
  [f \in Frets |-> IF f \in M THEN "measured"
                   ELSE IF (\E l \in M : l < f) /\ (\E r \in M : r > f) THEN "interpolated"
                   ELSE "missing"]

Enough(M) == 0 \in M /\ Top \in M /\ Cardinality(M) >= MinimumMeasured

\* The open string again, which ends the sweep.  Agreeing: the frets whose two
\* directions agree in cents and profile; detuned: some partial detuning of theirs was
\* steady enough.
ObserveLast(Agreeing, detuned) ==
  /\ phase = "descending" /\ requested_fret = 0
  /\ InWindow /\ WindowFull
  /\ Held(stable_window.count + 1)
  /\ LET M == Measured(Agreeing, ascending, descending')
         row == [origin |-> "swept", quality |-> Quality(M), detuned |-> detuned]
     IN  IF Enough(M)
         THEN /\ phase' = "complete"
              /\ bank' = [bank EXCEPT !.rows[string_index] = row, !.mask = @ \cup {string_index}]
         ELSE phase' = "insufficient" /\ UNCHANGED bank
  /\ stable_window' = NoWindow
  /\ UNCHANGED <<string_index, requested_fret>>

Observe ==
  \/ \E steady \in BOOLEAN : ObserveOpen(steady)
  \/ ObserveElsewhere \/ ObserveUnsettled \/ ObserveSettled \/ ObserveHeld
  \/ \E Agreeing \in SUBSET Frets, detuned \in BOOLEAN : ObserveLast(Agreeing, detuned)

-----------------------------------------------------------------------------
SweepInit ==
  /\ phase = "idle" /\ string_index = 0 /\ requested_fret = 0
  /\ ascending = Nothing /\ descending = Nothing /\ stable_window = NoWindow
  /\ bank = EmptyBank

SweepOK ==
  /\ phase \in Phases /\ string_index \in Strings /\ requested_fret \in Frets
  /\ ascending \in [Frets -> Nat] /\ descending \in [Frets -> Nat]
  /\ stable_window \in Window
  /\ bank \in Bank

\* A sweep that comes to its end has held every fret in both directions, whatever was
\* played in between, and one that completes leaves no point of its string missing,
\* which would make the bank impossible to save.
SweepEndsWhole ==
  [][phase' \in Ended /\ phase # phase' =>
       /\ \A f \in Frets : /\ ascending'[f] >= MinimumPerDirection
                           /\ descending'[f] >= MinimumPerDirection
       /\ phase' = "complete" =>
            \A f \in Frets : bank'.rows[string_index].quality[f] # "missing"]_sweep
=============================================================================
