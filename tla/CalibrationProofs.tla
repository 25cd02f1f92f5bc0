--------------------------- MODULE CalibrationProofs ---------------------------
(***************************************************************************)
(* Proofs about Calibration, for every number of strings, frets and        *)
(* observations, and with no bound on loads and commands.                  *)
(*                                                                         *)
(* A sweep ends whole: SweepInv says which frets have been held so far, by *)
(* the phase and the requested fret.                                       *)
(*                                                                         *)
(* A save writes the last load's descendant: SavesTheLastLoad is not       *)
(* inductive by itself, because a bank is adopted by the generation that   *)
(* travels with it.  LoadInv says of each place a bank can be in (the two  *)
(* transports, the publication under way, the detector) that, if its       *)
(* generation is the main thread's, it descends from the last load, and    *)
(* that no generation is ahead of the main thread's.                       *)
(*                                                                         *)
(* The main thread can learn the detector's bank: PublishedInv says where  *)
(* in a call the publication and the status may be behind, and that the    *)
(* end of a sweep cannot be missed, since the phase last shown is not      *)
(* complete while a sweep is under way in the detector.                    *)
(***************************************************************************)
EXTENDS Calibration, TLAPS

-----------------------------------------------------------------------------
(* The sweep *)

CountsType ==
  /\ ascending \in [Frets -> Nat] /\ descending \in [Frets -> Nat]
  /\ stable_window \in Window

BankType == string_index \in Strings /\ bank \in Bank

AllUp == \A f \in Frets : ascending[f] >= MinimumPerDirection

\* What has been held so far.
SweepInv ==
  /\ CountsType /\ BankType
  /\ phase \in Phases /\ requested_fret \in Frets
  /\ phase = "ascending" =>
       /\ requested_fret \in 1 .. Top
       /\ \A f \in Frets : f < requested_fret => ascending[f] >= MinimumPerDirection
  /\ phase = "descending" =>
       /\ requested_fret \in 0 .. Top - 1
       /\ AllUp
       /\ \A f \in Frets : f > requested_fret => descending[f] >= MinimumPerDirection

\* SweepEndsWhole, of one step.
EndsWhole ==
  phase' \in Ended /\ phase # phase' =>
    /\ \A f \in Frets : /\ ascending'[f] >= MinimumPerDirection
                        /\ descending'[f] >= MinimumPerDirection
    /\ phase' = "complete" =>
         \A f \in Frets : bank'.rows[string_index].quality[f] # "missing"

\* Between two measured end points every point is measured or interpolated.
LEMMA QualityLeavesNothingOut ==
  ASSUME NEW M, Enough(M)
  PROVE  \A f \in Frets : Quality(M)[f] # "missing"
<1> SUFFICES ASSUME NEW f \in Frets, f \notin M
             PROVE  (\E l \in M : l < f) /\ (\E r \in M : r > f)
  BY DEF Quality
<1>1. 0 \in M /\ Top \in M
  BY DEF Enough
<1>2. f # 0 /\ f # Top
  BY <1>1
<1>3. 0 < f /\ Top > f
  BY <1>2, SweepAssumption DEF Frets, Top
<1> QED
  BY <1>1, <1>3

LEMMA HeldIsCounted ==
  ASSUME SweepInv, Climbing, requested_fret \in Frets, WindowFull,
         Held(stable_window.count + 1)
  PROVE  /\ ascending' \in [Frets -> Nat] /\ descending' \in [Frets -> Nat]
         /\ phase = "ascending" =>
              /\ \A f \in Frets : f <= requested_fret => ascending'[f] >= MinimumPerDirection
              /\ requested_fret = Top => descending'[Top] >= MinimumPerDirection
         /\ phase = "descending" =>
              /\ UNCHANGED ascending
              /\ \A f \in Frets : f >= requested_fret => descending'[f] >= MinimumPerDirection
<1> DEFINE n == stable_window.count + 1
<1>1. n \in Nat /\ n >= MinimumPerDirection /\ MinimumPerDirection \in Nat
  BY SweepAssumption DEF SweepInv, CountsType, Window, WindowFull
<1>2. Top \in Frets /\ Frets \subseteq Int
  BY SweepAssumption DEF Top, Frets
<1> HIDE DEF n
<1>3. CASE phase = "ascending"
  <2>1. ascending' = [ascending EXCEPT ![requested_fret] = @ + n]
        /\ descending' = IF requested_fret = Top
                         THEN [descending EXCEPT ![Top] = ascending'[Top]] ELSE descending
    BY <1>3 DEF Held, n
  <2>2. ascending' \in [Frets -> Nat]
    BY <1>1, <2>1 DEF SweepInv, CountsType
  <2>3. descending' \in [Frets -> Nat]
    BY <1>2, <2>1, <2>2 DEF SweepInv, CountsType
  <2>4. ascending'[requested_fret] >= MinimumPerDirection
    BY <1>1, <2>1 DEF SweepInv, CountsType
  <2>5. ASSUME NEW f \in Frets, f < requested_fret PROVE ascending'[f] >= MinimumPerDirection
    BY <1>2, <1>3, <2>1, <2>5 DEF SweepInv, CountsType
  <2>6. requested_fret = Top => descending'[Top] >= MinimumPerDirection
    BY <1>2, <2>1, <2>4 DEF SweepInv, CountsType
  <2> QED
    BY <1>2, <1>3, <2>2, <2>3, <2>4, <2>5, <2>6
<1>4. CASE phase = "descending"
  <2>1. descending' = [descending EXCEPT ![requested_fret] = @ + n] /\ UNCHANGED ascending
    BY <1>4 DEF Held, n
  <2>2. ascending' \in [Frets -> Nat] /\ descending' \in [Frets -> Nat]
    BY <1>1, <2>1 DEF SweepInv, CountsType
  <2>3. descending'[requested_fret] >= MinimumPerDirection
    BY <1>1, <2>1 DEF SweepInv, CountsType
  <2>4. ASSUME NEW f \in Frets, f > requested_fret PROVE descending'[f] >= MinimumPerDirection
    BY <1>2, <1>4, <2>1, <2>4 DEF SweepInv, CountsType
  <2> QED
    BY <1>2, <1>4, <2>1, <2>2, <2>3, <2>4
<1> QED
  BY <1>3, <1>4 DEF Climbing

\* What begin, cancel and clear do to a sweep.
Restarts ==
  /\ ascending' = Nothing /\ descending' = Nothing /\ stable_window' = NoWindow
  /\ phase' \in {"idle", "waiting_open"} \/ (phase' = phase /\ phase \notin Sweeping)
  /\ requested_fret' \in {0, requested_fret} /\ string_index' \in Strings

LEMMA RestartsKeep ==
  ASSUME SweepInv, Restarts, bank' \in Bank
  PROVE  SweepInv' /\ EndsWhole
<1>1. CountsType' /\ 0 \in Frets
  BY SweepAssumption DEF Restarts, CountsType, Nothing, NoWindow, Window, Phases, Frets
<1> QED
  BY <1>1 DEF Restarts, SweepInv, BankType, EndsWhole, Ended, Phases, Sweeping

\* A learned row is a row, complete in its points, of a bank that stays valid.
LEMMA LearnedRow ==
  ASSUME BankType, NEW M, Enough(M), NEW detuned \in BOOLEAN,
         LET row == [origin |-> "swept", quality |-> Quality(M), detuned |-> detuned]
         IN  bank' = [bank EXCEPT !.rows[string_index] = row, !.mask = @ \cup {string_index}]
  PROVE  /\ bank' \in Bank /\ bank'.since = bank.since
         /\ \A f \in Frets : bank'.rows[string_index].quality[f] # "missing"
         /\ ValidBank(bank) => ValidBank(bank')
<1> DEFINE row == [origin |-> "swept", quality |-> Quality(M), detuned |-> detuned]
<1>1. Quality(M) \in [Frets -> Qualities]
  BY DEF Quality, Qualities
<1>2. row \in Row
  BY <1>1 DEF Row, Origins
<1>3. row.quality = Quality(M)
  OBVIOUS
<1> HIDE DEF row
<1>4. bank' = [bank EXCEPT !.rows[string_index] = row, !.mask = @ \cup {string_index}]
  BY DEF row
<1>5. /\ bank'.rows = [bank.rows EXCEPT ![string_index] = row]
      /\ bank'.mask = bank.mask \cup {string_index}
      /\ bank'.since = bank.since
  BY <1>4 DEF BankType, Bank
<1>6. bank' = [mask |-> bank'.mask, rows |-> bank'.rows, since |-> bank'.since]
  BY <1>4 DEF BankType, Bank
<1>7. bank'.rows \in [Strings -> Row] /\ bank'.mask \in SUBSET Strings /\ bank'.since \in Nat
  BY <1>2, <1>5 DEF BankType, Bank
<1>8. bank' \in Bank
  BY <1>6, <1>7 DEF Bank
<1>9. \A f \in Frets : bank'.rows[string_index].quality[f] # "missing"
  BY <1>3, <1>5, QualityLeavesNothingOut DEF BankType, Bank
<1>10. ASSUME ValidBank(bank) PROVE ValidBank(bank')
  BY <1>5, <1>9, <1>10 DEF ValidBank, BankType, Bank
<1> QED
  BY <1>5, <1>8, <1>9, <1>10

LEMMA ObserveKeeps ==
  ASSUME SweepInv, Observe
  PROVE  SweepInv' /\ EndsWhole
<1>1. Top \in Nat /\ Top >= 1 /\ Frets = 0 .. Top
  BY SweepAssumption DEF Top, Frets
<1>2. ASSUME NEW steady \in BOOLEAN, ObserveOpen(steady) PROVE SweepInv' /\ EndsWhole
  <2> DEFINE n == ascending[0] + 1
  <2>1. n \in Nat /\ 0 \in Frets
    BY <1>1 DEF SweepInv, CountsType
  <2>2. CountsType'
    <3>1. ascending' \in [Frets -> Nat] /\ UNCHANGED descending
      BY <1>2, <2>1 DEF ObserveOpen, SweepInv, CountsType
    <3>2. stable_window' \in Window
      BY <1>2, SweepAssumption DEF ObserveOpen, SweepInv, CountsType, NoWindow, Window, Phases
    <3> QED
      BY <3>1, <3>2 DEF SweepInv, CountsType
  <2>7. BankType'
    BY <1>2 DEF ObserveOpen, SweepInv, BankType
  <2>3. CASE n >= OpenObservations /\ steady
    <3>1. ascending'[0] = n /\ phase' = "ascending" /\ requested_fret' = 1
      BY <1>2, <2>1, <2>3 DEF ObserveOpen, SweepInv, CountsType
    <3>2. \A f \in Frets : f < 1 => ascending'[f] >= MinimumPerDirection
      BY <1>1, <2>1, <2>3, <3>1, SweepAssumption
    <3> QED
      BY <1>1, <2>2, <2>7, <3>1, <3>2 DEF SweepInv, EndsWhole, Ended, Phases
  <2>4. CASE ~(n >= OpenObservations /\ steady)
    BY <1>2, <2>2, <2>7, <2>4 DEF ObserveOpen, SweepInv, EndsWhole
  <2> QED
    BY <2>3, <2>4
<1>3. CASE ObserveElsewhere \/ ObserveUnsettled \/ ObserveSettled
  <2>1. UNCHANGED <<phase, string_index, requested_fret, ascending, descending, bank>>
    BY <1>3 DEF ObserveElsewhere, ObserveUnsettled, ObserveSettled, progress
  <2>2. Climbing /\ requested_fret \in 0 .. NumFrets
    BY <1>1, <1>3, SweepAssumption
    DEF ObserveElsewhere, ObserveUnsettled, ObserveSettled, Climbing, SweepInv, Top
  <2>3. stable_window' \in Window
    <3>1. CASE ObserveElsewhere
      BY <3>1, SweepAssumption DEF ObserveElsewhere, NoWindow, Window, Phases
    <3>2. CASE ObserveUnsettled
      BY <3>2, <2>2, SweepAssumption DEF ObserveUnsettled, Window, Climbing, Phases
    <3>3. CASE ObserveSettled
      BY <3>3, SweepAssumption DEF ObserveSettled, WindowFull, Window, SweepInv, CountsType
    <3> QED
      BY <1>3, <3>1, <3>2, <3>3
  <2> QED
    BY <2>1, <2>3 DEF SweepInv, CountsType, BankType, AllUp, EndsWhole
<1>4. CASE ObserveHeld
  <2>1. Climbing /\ requested_fret \in Frets /\ WindowFull /\ Held(stable_window.count + 1)
    BY <1>1, <1>4 DEF ObserveHeld, Climbing, SweepInv
  <2>2. stable_window' \in Window
    BY <1>4, SweepAssumption DEF ObserveHeld, NoWindow, Window, Phases
  <2>3. CountsType'
    BY <2>1, <2>2, HeldIsCounted DEF CountsType
  <2>7. BankType'
    BY <1>4 DEF ObserveHeld, SweepInv, BankType
  <2>4. CASE phase = "ascending" /\ requested_fret < Top
    <3>1. phase' = "ascending" /\ requested_fret' = requested_fret + 1
      BY <1>4, <2>4 DEF ObserveHeld, Up
    <3>2. requested_fret' \in 1 .. Top
      BY <1>1, <2>4, <3>1 DEF SweepInv
    <3>3. \A f \in Frets : f < requested_fret' => ascending'[f] >= MinimumPerDirection
      BY <1>1, <2>1, <2>4, <3>1, HeldIsCounted
    <3> QED
      BY <1>1, <2>3, <2>7, <3>1, <3>2, <3>3 DEF SweepInv, EndsWhole, Ended, Phases
  <2>5. CASE phase = "ascending" /\ ~(requested_fret < Top)
    <3>1. requested_fret = Top
      BY <1>1, <2>5 DEF SweepInv
    <3>2. phase' = "descending" /\ requested_fret' = Top - 1
      BY <1>4, <2>5, <3>1 DEF ObserveHeld, Up
    <3>3. \A f \in Frets : f > requested_fret' => descending'[f] >= MinimumPerDirection
      BY <1>1, <2>1, <2>5, <3>1, <3>2, HeldIsCounted
    <3>4. AllUp'
      BY <1>1, <2>1, <2>5, <3>1, HeldIsCounted DEF AllUp
    <3> QED
      BY <1>1, <2>3, <2>7, <3>2, <3>3, <3>4 DEF SweepInv, EndsWhole, Ended, Phases
  <2>6. CASE phase = "descending"
    <3>1. phase' = "descending" /\ requested_fret' = requested_fret - 1 /\ requested_fret # 0
      BY <1>4, <2>6 DEF ObserveHeld, Up
    <3>2. requested_fret' \in 0 .. Top - 1
      BY <1>1, <2>6, <3>1 DEF SweepInv
    <3>3. \A f \in Frets : f > requested_fret' => descending'[f] >= MinimumPerDirection
      BY <1>1, <2>1, <2>6, <3>1, HeldIsCounted
    <3>4. AllUp'
      BY <2>1, <2>6, HeldIsCounted DEF AllUp, SweepInv
    <3> QED
      BY <1>1, <2>3, <2>7, <3>1, <3>2, <3>3, <3>4 DEF SweepInv, EndsWhole, Ended, Phases
  <2> QED
    BY <2>1, <2>4, <2>5, <2>6 DEF Climbing
<1>5. ASSUME NEW Agreeing, NEW detuned \in BOOLEAN, ObserveLast(Agreeing, detuned)
      PROVE  SweepInv' /\ EndsWhole
  <2> DEFINE M == Measured(Agreeing, ascending, descending')
  <2>1. phase = "descending" /\ requested_fret = 0 /\ Climbing /\ requested_fret \in Frets
        /\ WindowFull /\ Held(stable_window.count + 1)
    BY <1>1, <1>5 DEF ObserveLast, Climbing
  <2>2. stable_window' \in Window
    BY <1>5, SweepAssumption DEF ObserveLast, NoWindow, Window, Phases
  <2>3. CountsType'
    BY <2>1, <2>2, HeldIsCounted DEF CountsType
  <2>4. phase' \in Ended
    BY <1>5 DEF ObserveLast, Ended
  <2>5. \A f \in Frets : /\ ascending'[f] >= MinimumPerDirection
                         /\ descending'[f] >= MinimumPerDirection
    BY <1>1, <2>1, HeldIsCounted DEF SweepInv, AllUp
  <2>6. /\ bank' \in Bank
        /\ phase' = "complete" => \A f \in Frets : bank'.rows[string_index].quality[f] # "missing"
    <3>1. CASE Enough(M)
      BY <1>5, <3>1, LearnedRow DEF ObserveLast, SweepInv
    <3>2. CASE ~Enough(M)
      BY <1>5, <3>2 DEF ObserveLast, SweepInv, BankType
    <3> QED
      BY <3>1, <3>2
  <2>7. BankType'
    BY <1>5, <2>6 DEF ObserveLast, BankType, SweepInv
  <2> QED
    BY <1>5, <2>1, <2>3, <2>4, <2>5, <2>6, <2>7 DEF ObserveLast, SweepInv, EndsWhole, Ended, Phases
<1> QED
  BY <1>2, <1>3, <1>4, <1>5 DEF Observe

\* Observations leave the bank complete, and of the load it descends from.
LEMMA ObserveKeepsTheBank ==
  ASSUME SweepInv, Observe, ValidBank(bank)
  PROVE  ValidBank(bank') /\ bank'.since = bank.since
<1>1. CASE UNCHANGED bank
  BY <1>1
<1>2. ASSUME NEW Agreeing \in SUBSET Frets, NEW detuned \in BOOLEAN,
             ObserveLast(Agreeing, detuned)
      PROVE  ValidBank(bank') /\ bank'.since = bank.since
  <2>1. CASE Enough(Measured(Agreeing, ascending, descending'))
    BY <1>2, <2>1, LearnedRow DEF ObserveLast, SweepInv
  <2>2. CASE ~Enough(Measured(Agreeing, ascending, descending'))
    BY <1>2, <2>2 DEF ObserveLast
  <2> QED
    BY <2>1, <2>2
<1> QED
  BY <1>1, <1>2
  DEF Observe, ObserveOpen, ObserveElsewhere, ObserveUnsettled, ObserveSettled, ObserveHeld

\* Every step of the component leaves the sweep alone, restarts it or observes.
LEMMA SweepStays ==
  ASSUME SweepInv, UNCHANGED sweep
  PROVE  SweepInv' /\ EndsWhole
BY DEF sweep, progress, counts, SweepInv, CountsType, BankType, AllUp, EndsWhole

-----------------------------------------------------------------------------
(* The banks *)

Good(b) == b \in Bank /\ ValidBank(b)

LEMMA FactoryIsGood ==
  ASSUME NEW g \in Nat
  PROVE  /\ Good(Factory(g)) /\ Factory(g).since = g
         /\ Good(EmptyBank) /\ EmptyBank.since = 0
BY DEF Good, Factory, FullRow, EmptyBank, NoRow, Bank, Row, Origins, Qualities, ValidBank

\* A row is its origin, its points and its detuning.
LEMMA FullRowIsWhole ==
  ASSUME NEW o \in Origins, NEW d \in BOOLEAN
  PROVE  FullRow(o, d) \in Row /\ \A f \in Frets : FullRow(o, d).quality[f] # "missing"
BY DEF FullRow, Row, Qualities

LEMMA MergedIsGood ==
  ASSUME NEW g \in Nat, NEW Overridden \in SUBSET Strings, NEW detuned \in BOOLEAN
  PROVE  Good(Merged(Overridden, detuned, g)) /\ Merged(Overridden, detuned, g).since = g
<1> DEFINE own  == [s \in Strings |-> FullRow("factory", TRUE)]
           rows == [s \in Strings |-> IF s \in Overridden THEN FullRow("loaded", detuned)
                                      ELSE Factory(g).rows[s]]
<1>1. Factory(g) = [mask |-> Strings, rows |-> own, since |-> g]
  BY DEF Factory
<1>2. Merged(Overridden, detuned, g) = [Factory(g) EXCEPT !.rows = rows]
  BY DEF Merged
<1>3. ASSUME NEW s \in Strings
      PROVE  rows[s] \in Row /\ \A f \in Frets : rows[s].quality[f] # "missing"
  <2>1. "loaded" \in Origins /\ "factory" \in Origins
    BY DEF Origins
  <2>2. Factory(g).rows[s] = FullRow("factory", TRUE)
    BY <1>1
  <2> QED
    BY <2>1, <2>2, FullRowIsWhole
<1>4. rows \in [Strings -> Row]
  BY <1>3
<1> HIDE DEF own, rows
<1>5. Merged(Overridden, detuned, g) = [mask |-> Strings, rows |-> rows, since |-> g]
  BY <1>1, <1>2
<1> QED
  BY <1>3, <1>4, <1>5 DEF Good, Bank, ValidBank

LEMMA CarriedIsGood ==
  ASSUME NEW b, Good(b)
  PROVE  Good(Carried(b)) /\ Carried(b).since = b.since
<1> DEFINE rows == [s \in Strings |-> [b.rows[s] EXCEPT !.detuned = FALSE]]
<1>1. Carried(b) = [b EXCEPT !.rows = rows]
  BY DEF Carried
<1>2. ASSUME NEW s \in Strings
      PROVE  rows[s] \in Row /\ rows[s].quality = b.rows[s].quality
  <2>1. b.rows[s] \in Row
    BY DEF Good, Bank
  <2> QED
    BY <2>1 DEF Row
<1>3. rows \in [Strings -> Row]
  BY <1>2
<1> HIDE DEF rows
<1>4. Carried(b) = [mask |-> b.mask, rows |-> rows, since |-> b.since]
  BY <1>1 DEF Good, Bank
<1> QED
  BY <1>2, <1>3, <1>4 DEF Good, Bank, ValidBank

-----------------------------------------------------------------------------
(* The inductive invariant *)

\* b, which travels with generation g, descends from the last load if g is its.
Descends(b, g) ==
  /\ g \in 0 .. main_generation
  /\ g = main_generation => b.since = main_generation

ControlType ==
  /\ active \in BOOLEAN /\ processing \in BOOLEAN
  /\ command \in Commands \cup {NoCommand}
  /\ main_generation \in Nat /\ m_stage \in {"idle", "publish"}
  /\ previous_phase \in Phases
  /\ shown \in [phase : Phases, mask : SUBSET Strings]
  /\ a_stage \in {"idle", "restore", "publish", "status", "command", "ready", "detect"}
  /\ a_after \in {"idle", "command", "ready"}

MessagesType == restore \in Message /\ published \in Message

LoadInv ==
  /\ ValidBank(bank) /\ Good(main_bank) /\ Good(a_bank)
  /\ Good(restore.bank) /\ Good(published.bank)
  /\ main_bank.since = main_generation
  /\ Descends(restore.bank, restore.generation)
  /\ Descends(published.bank, published.generation)
  /\ Descends(bank, audio_generation)
  /\ a_stage = "publish" => Descends(a_bank, audio_generation)

IInv == SweepInv /\ ControlType /\ MessagesType /\ LoadInv

LEMMA InvInit == Init => IInv
<1> SUFFICES ASSUME Init PROVE IInv
  OBVIOUS
<1>1. Good(Factory(0)) /\ Factory(0).since = 0 /\ Good(EmptyBank) /\ EmptyBank.since = 0
  BY FactoryIsGood
<1>2. Good(Carried(Factory(0))) /\ Carried(Factory(0)).since = 0
  BY <1>1, CarriedIsGood
<1>3. SweepInv
  BY <1>1, SweepAssumption
  DEF Init, SweepInit, SweepInv, CountsType, BankType, Nothing, NoWindow, Window, Phases, Frets,
      Good
<1>4. ControlType
  BY DEF Init, ControlType, NoCommand, Phases
<1>5. MessagesType
  BY <1>1, <1>2 DEF Init, MessagesType, Message, Good
<1>6. LoadInv
  BY <1>1, <1>2 DEF Init, SweepInit, LoadInv, Descends, Good
<1> QED
  BY <1>3, <1>4, <1>5, <1>6 DEF IInv

-----------------------------------------------------------------------------
(* The steps *)

\* A sweep that is cancelled, and the status that shows it.
LEMMA CancelRestarts ==
  ASSUME SweepInv, phase' = Cancelled, ForgetCounts, UNCHANGED <<string_index, requested_fret>>
  PROVE  Restarts
BY DEF SweepInv, BankType, Cancelled, SweepActive, ForgetCounts, Restarts

LEMMA ResetKeeps ==
  ASSUME SweepInv, ResetTransients, bank' \in Bank
  PROVE  /\ SweepInv' /\ EndsWhole
         /\ previous_phase' \in Phases /\ shown' \in [phase : Phases, mask : SUBSET Strings]
<1>1. SweepInv' /\ EndsWhole
  BY CancelRestarts, RestartsKeep DEF ResetTransients
<1>2. Cancelled \in Phases
  BY DEF Cancelled, SweepInv, Phases
<1>3. bank'.mask \in SUBSET Strings
  BY DEF Bank
<1> QED
  BY <1>1, <1>2, <1>3 DEF ResetTransients, Show

\* The banks of a step that moves none of them.
LEMMA LoadStays ==
  ASSUME LoadInv, UNCHANGED <<main_bank, main_generation, restore, published, audio_generation>>,
         ValidBank(bank'), bank'.since = bank.since, Good(a_bank'),
         a_stage' = "publish" => a_stage = "publish" /\ UNCHANGED a_bank
  PROVE  LoadInv'
BY DEF LoadInv, Descends

\* What the main thread adopts is its own to save.
LEMMA AdoptedIsGood ==
  ASSUME LoadInv
  PROVE  Good(AdoptedBank) /\ AdoptedBank.since = main_generation
BY DEF LoadInv, Descends, AdoptedBank, Adoptable

LEMMA MainKeeps ==
  ASSUME IInv, MainThread
  PROVE  IInv' /\ EndsWhole
<1> USE DEF IInv
<1>1. ASSUME NEW c \in Commands, Request(c) PROVE IInv' /\ EndsWhole
  <2>1. SweepInv' /\ EndsWhole
    BY <1>1, SweepStays DEF Request
  <2>2. ControlType'
    BY <1>1 DEF Request, ControlType, host, main, audio, call
  <2>3. MessagesType' /\ LoadInv'
    BY <1>1, LoadStays
    DEF Request, main, audio, call, sweep, LoadInv, MessagesType
  <2> QED
    BY <2>1, <2>2, <2>3
<1>2. ASSUME NEW Overridden \in SUBSET Strings, NEW detuned \in BOOLEAN,
             SetState(Overridden, detuned)
      PROVE  IInv' /\ EndsWhole
  <2>1. SweepInv' /\ EndsWhole
    BY <1>2, SweepStays DEF SetState
  <2>2. main_generation' \in Nat /\ main_generation' = main_generation + 1
    BY <1>2 DEF SetState, ControlType
  <2>3. ControlType' /\ MessagesType'
    BY <1>2, <2>2 DEF SetState, ControlType, MessagesType, host, audio, call
  <2>4. Good(main_bank') /\ main_bank'.since = main_generation'
    BY <1>2, <2>2, MergedIsGood DEF SetState
  <2>5. LoadInv'
    BY <1>2, <2>2, <2>4 DEF SetState, ControlType, LoadInv, Descends, audio, call, sweep
  <2> QED
    BY <2>1, <2>3, <2>5
<1>3. CASE SetStatePublished
  <2>1. SweepInv' /\ EndsWhole
    BY <1>3, SweepStays DEF SetStatePublished
  <2>2. Good(Carried(main_bank)) /\ Carried(main_bank).since = main_generation
    BY CarriedIsGood DEF LoadInv
  <2>3. ControlType' /\ MessagesType'
    BY <1>3, <2>2
    DEF SetStatePublished, ControlType, MessagesType, Message, Good, host, audio, call
  <2>4. restore'.bank = Carried(main_bank) /\ restore'.generation = main_generation
    BY <1>3 DEF SetStatePublished
  <2>5. LoadInv'
    BY <1>3, <2>2, <2>4 DEF SetStatePublished, ControlType, LoadInv, Descends, audio, call, sweep
  <2> QED
    BY <2>1, <2>3, <2>5
<1>4. CASE GetState
  <2>1. SweepInv' /\ EndsWhole
    BY <1>4, SweepStays DEF GetState
  <2>2. ControlType' /\ MessagesType'
    BY <1>4 DEF GetState, ControlType, MessagesType, host, audio, call
  <2>3. LoadInv'
    BY <1>4, AdoptedIsGood DEF GetState, LoadInv, Descends, audio, call, sweep
  <2> QED
    BY <2>1, <2>2, <2>3
<1> QED
  BY <1>1, <1>2, <1>3, <1>4 DEF MainThread

LEMMA LifecycleKeeps ==
  ASSUME IInv, Lifecycle
  PROVE  IInv' /\ EndsWhole
<1> USE DEF IInv
<1>1. CASE Activate
  <2>1. Good(main_bank') /\ main_bank'.since = main_generation
    BY <1>1, AdoptedIsGood DEF Activate
  <2>2. bank' \in {bank, main_bank'}
    BY <1>1 DEF Activate, SetBank
  <2>3. Good(bank') /\ (audio_generation = main_generation => bank'.since = main_generation)
    BY <2>1, <2>2 DEF SweepInv, BankType, LoadInv, Descends, Good
  <2>4. /\ SweepInv' /\ EndsWhole
        /\ previous_phase' \in Phases /\ shown' \in [phase : Phases, mask : SUBSET Strings]
    BY <1>1, <2>3, ResetKeeps DEF Activate, Good
  <2>5. ControlType' /\ MessagesType'
    BY <1>1, <2>4 DEF Activate, ControlType, MessagesType, call
  <2>6. LoadInv'
    BY <1>1, <2>1, <2>3 DEF Activate, LoadInv, Descends, call, Good
  <2> QED
    BY <2>4, <2>5, <2>6
<1>2. CASE Deactivate
  <2>1. SweepInv' /\ EndsWhole
    BY <1>2, SweepStays DEF Deactivate
  <2>2. ControlType' /\ MessagesType'
    BY <1>2 DEF Deactivate, ControlType, MessagesType, main, audio, call
  <2>3. LoadInv'
    BY <1>2, LoadStays DEF Deactivate, LoadInv, main, audio, call, sweep
  <2> QED
    BY <2>1, <2>2, <2>3
<1>3. ASSUME NEW on \in BOOLEAN, SetProcessing(on) PROVE IInv' /\ EndsWhole
  <2>1. UNCHANGED bank
    BY <1>3 DEF SetProcessing
  <2>2. /\ SweepInv' /\ EndsWhole
        /\ previous_phase' \in Phases /\ shown' \in [phase : Phases, mask : SUBSET Strings]
    BY <1>3, <2>1, ResetKeeps DEF SetProcessing, SweepInv, BankType
  <2>3. ControlType' /\ MessagesType'
    BY <1>3, <2>2 DEF SetProcessing, ControlType, MessagesType, main, call
  <2>4. LoadInv'
    BY <1>3, <2>1, LoadStays DEF SetProcessing, LoadInv, main, call
  <2> QED
    BY <2>2, <2>3, <2>4
<1>4. CASE Reinitialize
  <2>1. Good(Factory(0)) /\ Factory(0).since = 0 /\ Good(EmptyBank) /\ EmptyBank.since = 0
    BY FactoryIsGood
  <2>2. Good(Carried(Factory(0))) /\ Carried(Factory(0)).since = 0
    BY <2>1, CarriedIsGood
  <2>3. SweepInv' /\ EndsWhole
    <3>1. Restarts
      BY <1>4, SweepAssumption DEF Reinitialize, Restarts, ForgetCounts
    <3> QED
      BY <1>4, <2>1, <3>1, RestartsKeep DEF Reinitialize, Good
  <2>4. ControlType'
    BY <1>4 DEF Reinitialize, ControlType, NoCommand, Phases, host, call
  <2>5. MessagesType'
    BY <1>4, <2>1, <2>2 DEF Reinitialize, MessagesType, Message, Good
  <2>6. a_bank' = a_bank /\ a_stage' = "idle"
    BY <1>4 DEF Reinitialize, Idle, call
  <2>7. /\ bank' = EmptyBank /\ main_bank' = Factory(0) /\ main_generation' = 0
        /\ audio_generation' = 0
        /\ restore'.bank = EmptyBank /\ restore'.generation = 0
        /\ published'.bank = Carried(Factory(0)) /\ published'.generation = 0
    BY <1>4 DEF Reinitialize
  <2>8. LoadInv'
    BY <2>1, <2>2, <2>6, <2>7 DEF LoadInv, Descends, Good
  <2> QED
    BY <2>3, <2>4, <2>5, <2>8
<1> QED
  BY <1>1, <1>2, <1>3, <1>4 DEF Lifecycle

LEMMA ProcessKeeps ==
  ASSUME IInv, Process
  PROVE  IInv' /\ EndsWhole
<1> USE DEF IInv
<1>1. ASSUME NEW boundary \in BOOLEAN, BeginProcess(boundary) PROVE IInv' /\ EndsWhole
  <2>1. CASE boundary
    <3>1. UNCHANGED bank
      BY <1>1, <2>1 DEF BeginProcess
    <3>2. /\ SweepInv' /\ EndsWhole
          /\ previous_phase' \in Phases /\ shown' \in [phase : Phases, mask : SUBSET Strings]
      BY <1>1, <2>1, <3>1, ResetKeeps DEF BeginProcess, SweepInv, BankType
    <3>3. ControlType' /\ MessagesType'
      BY <1>1, <3>2 DEF BeginProcess, Goes, ControlType, MessagesType, host, main
    <3>4. LoadInv'
      BY <1>1, <3>1, LoadStays DEF BeginProcess, Goes, LoadInv, main
    <3> QED
      BY <3>2, <3>3, <3>4
  <2>2. CASE ~boundary
    <3>1. SweepInv' /\ EndsWhole
      BY <1>1, <2>2, SweepStays DEF BeginProcess
    <3>2. ControlType' /\ MessagesType'
      BY <1>1, <2>2 DEF BeginProcess, Goes, ControlType, MessagesType, host, main
    <3>3. LoadInv'
      BY <1>1, <2>2, LoadStays DEF BeginProcess, Goes, LoadInv, main, sweep
    <3> QED
      BY <3>1, <3>2, <3>3
  <2> QED
    BY <2>1, <2>2
<1>2. CASE NoRestore \/ Status \/ ReturnEarly \/ EndProcess
  <2>1. SweepInv' /\ EndsWhole
    BY <1>2, SweepStays DEF NoRestore, Status, ReturnEarly, EndProcess
  <2>2. ControlType'
    <3>1. CASE Status
      <4>1. bank.mask \in SUBSET Strings /\ phase \in Phases
        BY DEF SweepInv, BankType, Bank
      <4> QED
        BY <3>1, <4>1 DEF Status, Show, ControlType, host, main
    <3>2. CASE NoRestore \/ ReturnEarly \/ EndProcess
      BY <3>2 DEF NoRestore, ReturnEarly, EndProcess, Goes, ControlType, host, main, audio
    <3> QED
      BY <1>2, <3>1, <3>2
  <2>3. MessagesType'
    BY <1>2 DEF NoRestore, Status, ReturnEarly, EndProcess, MessagesType
  <2>4. /\ UNCHANGED <<main_bank, main_generation, restore, published, audio_generation>>
        /\ UNCHANGED <<bank, a_bank>> /\ a_stage' # "publish"
    BY <1>2 DEF NoRestore, Status, ReturnEarly, EndProcess, Goes, ControlType, main, audio, sweep
  <2>5. LoadInv'
    BY <2>4, LoadStays DEF LoadInv
  <2> QED
    BY <2>1, <2>2, <2>3, <2>5
<1>3. CASE Restore
  <2>1. Good(restore.bank) /\ Descends(restore.bank, restore.generation)
    BY DEF LoadInv
  <2>2. Cancelled \notin Sweeping
    BY DEF Cancelled, SweepActive, Sweeping
  <2>3. bank' = restore.bank
    BY <1>3, <2>2 DEF Restore, Take, CancelAndSet, SetBank
  <2>4. SweepInv' /\ EndsWhole
    BY <1>3, <2>1, <2>3, CancelRestarts, RestartsKeep DEF Restore, Take, CancelAndSet, Good
  <2>5. ControlType' /\ MessagesType'
    BY <1>3, <2>4 DEF Restore, Publishes, ControlType, MessagesType, SweepInv, host, main
  <2>6. LoadInv'
    BY <1>3, <2>1, <2>3 DEF Restore, Publishes, LoadInv, Descends, Good, main
  <2> QED
    BY <2>4, <2>5, <2>6
<1>4. CASE PublishEnds
  <2>1. SweepInv' /\ EndsWhole
    BY <1>4, SweepStays DEF PublishEnds
  <2>2. Good(a_bank) /\ Descends(a_bank, audio_generation)
    BY <1>4 DEF PublishEnds, LoadInv
  <2>3. Good(Carried(a_bank)) /\ Carried(a_bank).since = a_bank.since
    BY <2>2, CarriedIsGood
  <2>4. published'.bank = Carried(a_bank) /\ published'.generation = audio_generation
    BY <1>4 DEF PublishEnds
  <2>5. audio_generation \in Nat
    BY <2>2 DEF Descends, ControlType
  <2>6. MessagesType'
    BY <1>4, <2>3, <2>5 DEF PublishEnds, MessagesType, Message, Good
  <2>7. ControlType'
    BY <1>4 DEF PublishEnds, ControlType, host, main, audio
  <2>8. Good(EmptyBank)
    BY FactoryIsGood
  <2>9. LoadInv'
    BY <1>4, <2>2, <2>3, <2>4, <2>8 DEF PublishEnds, LoadInv, Descends, main, audio, sweep
  <2> QED
    BY <2>1, <2>6, <2>7, <2>9
<1>5. ASSUME NEW may \in BOOLEAN, Command(may) PROVE IInv' /\ EndsWhole
  <2>1. UNCHANGED bank
    BY <1>5 DEF Command, Begin, CancelSweep, sweep
  <2>2. SweepInv' /\ EndsWhole
    <3>1. ASSUME command \in Sweeps, Begin(command - FirstString) PROVE Restarts
      <4>1. command - FirstString \in Strings
        BY <3>1, SweepAssumption DEF Sweeps, FirstString
      <4> QED
        BY <3>1, <4>1 DEF Begin, Restarts
    <3>2. ASSUME CancelSweep PROVE Restarts
      BY <3>2, CancelRestarts DEF CancelSweep
    <3>3. CASE UNCHANGED sweep
      BY <3>3, SweepStays
    <3>4. CASE Restarts
      BY <2>1, <3>4, RestartsKeep DEF SweepInv, BankType
    <3> QED
      BY <1>5, <3>1, <3>2, <3>3, <3>4 DEF Command
  <2>3. ControlType' /\ MessagesType'
    BY <1>5 DEF Command, ControlType, MessagesType, host, main, audio
  <2>4. LoadInv'
    BY <1>5, <2>1, LoadStays DEF Command, LoadInv, main, audio
  <2> QED
    BY <2>2, <2>3, <2>4
<1>6. CASE ClearCommand
  <2>1. audio_generation \in Nat /\ audio_generation \in 0 .. main_generation
    BY DEF LoadInv, Descends, ControlType
  <2>2. bank' = Factory(audio_generation)
    BY <1>6 DEF ClearCommand, ClearAndSet, SetBank, Sweeping
  <2>3. Good(bank') /\ bank'.since = audio_generation
    BY <2>1, <2>2, FactoryIsGood
  <2>4. SweepInv' /\ EndsWhole
    <3>1. Restarts
      BY <1>6, SweepAssumption DEF ClearCommand, ClearAndSet, ForgetCounts, Restarts
    <3> QED
      BY <2>3, <3>1, RestartsKeep DEF Good
  <2>5. ControlType' /\ MessagesType'
    BY <1>6 DEF ClearCommand, Publishes, ControlType, MessagesType, host, main, audio
  <2>6. LoadInv'
    BY <1>6, <2>1, <2>3 DEF ClearCommand, Publishes, LoadInv, Descends, Good, main, audio
  <2> QED
    BY <2>4, <2>5, <2>6
<1>7. CASE StatusPublishes
  <2>1. SweepInv' /\ EndsWhole
    BY <1>7, SweepStays DEF StatusPublishes
  <2>2. ControlType' /\ MessagesType'
    BY <1>7 DEF StatusPublishes, Publishes, ControlType, MessagesType, SweepInv, host, main
  <2>3. Good(bank)
    BY DEF SweepInv, BankType, LoadInv, Good
  <2>4. LoadInv'
    BY <1>7, <2>3 DEF StatusPublishes, Publishes, LoadInv, Descends, main, sweep
  <2> QED
    BY <2>1, <2>2, <2>4
<1>8. CASE Detect
  <2>1. SweepInv' /\ EndsWhole
    BY <1>8, ObserveKeeps DEF Detect
  <2>2. ControlType' /\ MessagesType'
    BY <1>8 DEF Detect, Goes, ControlType, MessagesType, host, main, audio
  <2>3. ValidBank(bank') /\ bank'.since = bank.since
    BY <1>8, ObserveKeepsTheBank DEF Detect, LoadInv
  <2>4. LoadInv'
    BY <1>8, <2>3, LoadStays DEF Detect, Goes, LoadInv, main, audio
  <2> QED
    BY <2>1, <2>2, <2>4
<1> QED
  BY <1>1, <1>2, <1>3, <1>4, <1>5, <1>6, <1>7, <1>8 DEF Process

LEMMA StepKeeps ==
  ASSUME IInv, [Next]_vars
  PROVE  IInv' /\ EndsWhole
<1>1. CASE UNCHANGED vars
  <2>1. SweepInv' /\ EndsWhole
    BY <1>1, SweepStays DEF vars, IInv
  <2>2. ControlType' /\ MessagesType'
    BY <1>1 DEF vars, host, main, audio, call, IInv, ControlType, MessagesType
  <2>3. LoadInv'
    BY <1>1, LoadStays DEF vars, sweep, main, audio, call, IInv, LoadInv
  <2> QED
    BY <2>1, <2>2, <2>3 DEF IInv
<1> QED
  BY <1>1, MainKeeps, LifecycleKeeps, ProcessKeeps DEF Next

-----------------------------------------------------------------------------
(* The theorems *)

LEMMA Invariance == Spec => []IInv
BY InvInit, StepKeeps, PTL DEF Spec

\* Type correctness: every variable of the sweep and of the component's calibration
\* holds what its C++ type and the order of the calls allow.
THEOREM CalibrationTypes == Spec => []TypeOK
<1>1. IInv => TypeOK
  BY DEF IInv, SweepInv, CountsType, BankType, ControlType, MessagesType, LoadInv, Descends,
         Good, TypeOK, SweepOK
<1> QED
  BY <1>1, Invariance, PTL

\* observe() ends a sweep only once every fret has been held in both directions, and a
\* completed string misses no point, however long the windows and the fretboard are.
THEOREM SweepsEndWhole == Spec => SweepEndsWhole
<1>1. IInv /\ [Next]_vars =>
        [phase' \in Ended /\ phase # phase' =>
           /\ \A f \in Frets : /\ ascending'[f] >= MinimumPerDirection
                               /\ descending'[f] >= MinimumPerDirection
           /\ phase' = "complete" =>
                \A f \in Frets : bank'.rows[string_index].quality[f] # "missing"]_sweep
  BY StepKeeps DEF EndsWhole
<1> QED
  BY <1>1, Invariance, PTL DEF Spec, SweepEndsWhole

\* adopt_published_calibration_on_main_thread never takes a bank that does not descend
\* from the last state load, nor one the encoder refuses: for any number of loads.
THEOREM SavesDescend == Spec => []SavesTheLastLoad
<1>1. IInv => SavesTheLastLoad
  BY DEF IInv, LoadInv, Good, SavesTheLastLoad
<1> QED
  BY <1>1, Invariance, PTL

-----------------------------------------------------------------------------
(* What is published *)

Carries(b) == Carried(b) = b

PublishedInv ==
  /\ processing => active
  /\ ~processing => phase \notin Sweeping
  /\ a_stage # "idle" => processing
  /\ Carries(published.bank)
  /\ a_stage = "publish" => a_bank = bank
  /\ a_stage # "publish" =>
       /\ published.generation = audio_generation
       /\ active /\ audio_generation = main_generation /\ ~JustCompleted =>
            published.bank = Carried(bank)
  /\ JustCompleted => a_stage \in {"detect", "status"}
  /\ a_stage \in {"ready", "detect"} => (previous_phase = "complete" => phase = "complete")
  /\ active /\ a_stage \in {"idle", "restore", "ready"} =>
       shown = [phase |-> phase, mask |-> bank.mask]

\* What a transport carried is carried unchanged.
LEMMA CarriedAgain ==
  ASSUME NEW b, Good(b)
  PROVE  Carries(Carried(b))
<1> DEFINE Plain(x) == [s \in Strings |-> [x.rows[s] EXCEPT !.detuned = FALSE]]
<1>1. \A x : Carried(x) = [x EXCEPT !.rows = Plain(x)]
  BY DEF Carried
<1>2. Good(Carried(b))
  BY CarriedIsGood
<1>3. Carried(b).rows = Plain(b)
  <2> HIDE DEF Plain
  <2> QED
    BY <1>1 DEF Good, Bank
<1>4. Plain(Carried(b)) = Plain(b)
  <2>1. ASSUME NEW s \in Strings
        PROVE  [Plain(b)[s] EXCEPT !.detuned = FALSE] = [b.rows[s] EXCEPT !.detuned = FALSE]
    <3>1. b.rows[s] \in Row
      BY DEF Good, Bank
    <3> QED
      BY <3>1 DEF Row
  <2> QED
    BY <1>3, <2>1
<1> HIDE DEF Plain
<1>5. Carried(Carried(b)) = [Carried(b) EXCEPT !.rows = Carried(b).rows]
  BY <1>1, <1>3, <1>4
<1> QED
  BY <1>2, <1>5 DEF Carries, Good, Bank

LEMMA PublishedInit == Init => PublishedInv
<1> SUFFICES ASSUME Init PROVE PublishedInv
  OBVIOUS
<1>1. Good(Factory(0))
  BY FactoryIsGood
<1>2. Carries(Carried(Factory(0)))
  BY <1>1, CarriedAgain
<1> QED
  BY <1>2 DEF Init, SweepInit, PublishedInv, JustCompleted, Sweeping

\* A reset, between calls or at a boundary: the status is shown, the bank is the same.
LEMMA ResetShows ==
  ASSUME IInv, PublishedInv, ResetTransients, a_stage = "idle",
         a_stage' \in {"idle", "restore"},
         UNCHANGED <<published, audio_generation, main_generation>>,
         processing' => active', a_stage' # "idle" => processing',
         active' /\ audio_generation = main_generation => published.bank = Carried(bank')
  PROVE  PublishedInv'
<1>1. previous_phase' = phase' /\ shown' = [phase |-> phase', mask |-> bank'.mask]
  BY DEF ResetTransients, Show
<1>2. phase' \notin Sweeping
  BY DEF ResetTransients, Cancelled, SweepActive, Sweeping
<1> QED
  BY <1>1, <1>2 DEF PublishedInv, JustCompleted

LEMMA MainPublishes ==
  ASSUME IInv, PublishedInv, MainThread
  PROVE  PublishedInv'
<1>1. UNCHANGED <<sweep, host, published, audio, shown, call>>
  BY DEF MainThread, Request, SetState, SetStatePublished, GetState
<1>2. main_generation' = main_generation \/ audio_generation # main_generation'
  <2>1. audio_generation \in 0 .. main_generation /\ main_generation \in Nat
    BY DEF IInv, LoadInv, Descends, ControlType
  <2> QED
    BY <2>1 DEF MainThread, Request, SetState, SetStatePublished, GetState, main
<1>3. UNCHANGED <<phase, bank, active, processing, published, audio_generation,
                  previous_phase, shown, a_stage, a_bank>>
  BY <1>1 DEF sweep, progress, host, audio, call
<1> QED
  BY <1>2, <1>3 DEF PublishedInv, JustCompleted

LEMMA LifecyclePublishes ==
  ASSUME IInv, PublishedInv, Lifecycle
  PROVE  PublishedInv'
<1>1. CASE Activate
  <2>1. a_stage = "idle" /\ phase \notin Sweeping /\ UNCHANGED a_stage
    BY <1>1 DEF Activate, Idle, PublishedInv, call
  <2>2. bank' = AdoptedBank
    BY <1>1, <2>1 DEF Activate, SetBank
  <2>3. ASSUME audio_generation = main_generation PROVE published.bank = Carried(bank')
    BY <2>1, <2>2, <2>3 DEF PublishedInv, AdoptedBank, Adoptable, Carries
  <2> QED
    BY <1>1, <2>1, <2>3, ResetShows DEF Activate, PublishedInv
<1>2. CASE Deactivate
  <2>1. UNCHANGED <<phase, bank, processing, published, main_generation, audio_generation,
                    previous_phase, shown, a_stage, a_bank>> /\ ~active' /\ ~processing
    BY <1>2 DEF Deactivate, sweep, progress, main, audio, call
  <2> QED
    BY <2>1 DEF PublishedInv, JustCompleted
<1>3. ASSUME NEW on \in BOOLEAN, SetProcessing(on) PROVE PublishedInv'
  <2>1. a_stage = "idle" /\ UNCHANGED <<bank, main_generation, a_stage>> /\ active /\ active'
    BY <1>3 DEF SetProcessing, Idle, main, call
  <2>2. ~JustCompleted
    BY <2>1 DEF PublishedInv
  <2> QED
    BY <1>3, <2>1, <2>2, ResetShows DEF SetProcessing, PublishedInv
<1>4. CASE Reinitialize
  <2>1. Good(Factory(0))
    BY FactoryIsGood
  <2>2. Carries(Carried(Factory(0)))
    BY <2>1, CarriedAgain
  <2>3. ~active' /\ ~processing' /\ a_stage' = "idle"
    BY <1>4 DEF Reinitialize, Idle, host, call, PublishedInv, IInv, ControlType
  <2> QED
    BY <1>4, <2>2, <2>3 DEF Reinitialize, PublishedInv, JustCompleted, Sweeping
<1> QED
  BY <1>1, <1>2, <1>3, <1>4 DEF Lifecycle

\* The detector's part: the end of a sweep is noticed before the call returns.
LEMMA DetectPublishes ==
  ASSUME IInv, PublishedInv, Detect
  PROVE  PublishedInv'
<1>1. /\ a_stage \in {"ready", "detect"} /\ a_stage' = "detect" /\ Observe
      /\ UNCHANGED <<active, processing, published, main_generation, audio_generation,
                     previous_phase>>
  BY DEF Detect, Goes, host, main, audio
<1>2. phase \in Sweeping /\ previous_phase # "complete" /\ processing
  BY <1>1
  DEF Observe, ObserveOpen, ObserveElsewhere, ObserveUnsettled, ObserveSettled, ObserveHeld,
      ObserveLast, Climbing, Sweeping, PublishedInv
<1>3. phase' = "complete" \/ UNCHANGED bank
  BY <1>1
  DEF Observe, ObserveOpen, ObserveElsewhere, ObserveUnsettled, ObserveSettled, ObserveHeld,
      ObserveLast
<1>4. ~JustCompleted
  BY <1>2 DEF JustCompleted, Sweeping
<1> QED
  BY <1>1, <1>2, <1>3, <1>4 DEF PublishedInv, JustCompleted

LEMMA ProcessPublishes ==
  ASSUME IInv, PublishedInv, Process
  PROVE  PublishedInv'
<1>1. ASSUME NEW boundary \in BOOLEAN, BeginProcess(boundary) PROVE PublishedInv'
  <2>1. /\ a_stage = "idle" /\ a_stage' = "restore" /\ processing
        /\ UNCHANGED <<active, processing, published, main_generation, audio_generation, a_bank>>
    BY <1>1 DEF BeginProcess, Goes, Idle, host, main
  <2>2. ~JustCompleted
    BY <2>1 DEF PublishedInv
  <2>3. CASE boundary
    BY <1>1, <2>1, <2>2, <2>3, ResetShows DEF BeginProcess, PublishedInv
  <2>4. CASE ~boundary
    <3>1. UNCHANGED <<phase, bank, previous_phase, shown>>
      BY <1>1, <2>4 DEF BeginProcess, sweep, progress
    <3> QED
      BY <2>1, <2>2, <3>1 DEF PublishedInv, JustCompleted
  <2> QED
    BY <2>3, <2>4
<1>2. CASE NoRestore \/ ReturnEarly \/ EndProcess
  <2>1. /\ a_stage \in {"restore", "ready", "detect"}
        /\ a_stage' \in {"command", "idle", "status"}
        /\ a_stage' = "command" => a_stage = "restore"
        /\ a_stage' = "idle" => a_stage = "ready"
        /\ UNCHANGED <<phase, bank, active, processing, published, main_generation,
                       audio_generation, previous_phase, shown>>
    BY <1>2 DEF NoRestore, ReturnEarly, EndProcess, Goes, sweep, progress, host, main, audio
  <2> QED
    BY <2>1 DEF PublishedInv, JustCompleted
<1>3. CASE Restore
  <2>1. Cancelled \notin Sweeping
    BY DEF Cancelled, SweepActive, Sweeping
  <2>2. bank' = restore.bank /\ a_bank' = restore.bank /\ previous_phase' = phase'
        /\ a_stage = "restore" /\ a_stage' = "publish"
        /\ phase' = Cancelled
        /\ UNCHANGED <<active, processing, published>>
    BY <1>3, <2>1 DEF Restore, Take, CancelAndSet, SetBank, Publishes, host
  <2> QED
    BY <2>1, <2>2 DEF PublishedInv, JustCompleted
<1>4. CASE PublishEnds
  <2>1. Good(bank) /\ a_bank = bank
    BY <1>4 DEF PublishEnds, IInv, SweepInv, BankType, LoadInv, Good, PublishedInv
  <2>2. published'.bank = Carried(bank) /\ published'.generation = audio_generation
    BY <1>4, <2>1 DEF PublishEnds
  <2>3. Carries(published'.bank)
    BY <2>1, <2>2, CarriedAgain
  <2>4. /\ a_stage = "publish" /\ a_stage' = "status"
        /\ UNCHANGED <<phase, bank, active, processing, main_generation, audio_generation,
                       previous_phase>>
    BY <1>4 DEF PublishEnds, sweep, progress, host, main, audio
  <2> QED
    BY <2>2, <2>3, <2>4 DEF PublishedInv, JustCompleted
<1>5. ASSUME NEW may \in BOOLEAN, Command(may) PROVE PublishedInv'
  <2>1. /\ a_stage = "command" /\ a_stage' = "status"
        /\ UNCHANGED <<bank, active, processing, published, main_generation, audio_generation,
                       previous_phase>>
    BY <1>5 DEF Command, Begin, CancelSweep, sweep, host, main, audio
  <2>2. phase' \in {phase, "idle", "waiting_open"}
    BY <1>5 DEF Command, Begin, CancelSweep, Cancelled, sweep, progress
  <2>3. ~JustCompleted
    BY <2>1 DEF PublishedInv
  <2> QED
    BY <2>1, <2>2, <2>3 DEF PublishedInv, JustCompleted
<1>6. CASE ClearCommand
  <2>1. /\ a_stage = "command" /\ a_stage' = "publish" /\ a_bank' = bank' /\ phase' = "idle"
        /\ UNCHANGED <<active, processing, published>>
    BY <1>6 DEF ClearCommand, ClearAndSet, Publishes, host
  <2> QED
    BY <2>1 DEF PublishedInv, JustCompleted
<1>7. CASE StatusPublishes
  <2>1. /\ a_stage = "status" /\ a_stage' = "publish" /\ a_bank' = bank' /\ previous_phase' = phase'
        /\ UNCHANGED <<phase, active, processing, published>>
    BY <1>7 DEF StatusPublishes, Publishes, sweep, progress, host
  <2> QED
    BY <2>1 DEF PublishedInv, JustCompleted
<1>8. CASE Status
  <2>1. /\ a_stage = "status" /\ a_stage' \in {"idle", "command", "ready"} /\ ~JustCompleted
        /\ previous_phase' = phase' /\ shown' = [phase |-> phase', mask |-> bank'.mask]
        /\ UNCHANGED <<phase, bank, active, processing, published, main_generation,
                       audio_generation>>
    BY <1>8 DEF Status, Show, sweep, progress, host, main, IInv, ControlType
  <2> QED
    BY <2>1 DEF PublishedInv, JustCompleted
<1> QED
  BY <1>1, <1>2, <1>3, <1>4, <1>5, <1>6, <1>7, <1>8, DetectPublishes DEF Process

LEMMA StepPublishes ==
  ASSUME IInv, PublishedInv, [Next]_vars
  PROVE  PublishedInv'
<1>1. CASE UNCHANGED vars
  BY <1>1 DEF vars, sweep, progress, host, main, audio, call, PublishedInv, JustCompleted
<1> QED
  BY <1>1, MainPublishes, LifecyclePublishes, ProcessPublishes DEF Next

\* publish_string_calibration_status and the publications of process() leave nothing
\* unsaid: between calls the main thread can learn the whole bank, whatever sweeps,
\* clears, loads and resets came before.
THEOREM PublishesCurrent == Spec => []PublishedIsCurrent
<1>1. PublishedInv /\ IInv => PublishedIsCurrent
  <2> SUFFICES ASSUME PublishedInv, IInv, Idle, active, audio_generation = main_generation
               PROVE  /\ published = [bank |-> Carried(bank), generation |-> main_generation]
                      /\ shown = [phase |-> phase, mask |-> bank.mask]
    BY DEF PublishedIsCurrent
  <2>1. published.bank = Carried(bank) /\ published.generation = main_generation
    BY DEF PublishedInv, Idle
  <2>2. published = [bank |-> published.bank, generation |-> published.generation]
    BY DEF IInv, MessagesType, Message
  <2> QED
    BY <2>1, <2>2 DEF PublishedInv, Idle
<1> QED
  BY <1>1, PublishedInit, StepPublishes, Invariance, PTL DEF Spec
=============================================================================
