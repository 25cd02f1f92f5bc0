------------------------------ MODULE Calibration ------------------------------
(***************************************************************************)
(* What M3Component (native/vst3/vst3_component.cpp) does with string      *)
(* calibrations: the detector's bank on the audio thread, the main         *)
(* thread's copy that getState saves, and the two transports between them. *)
(* A state load travels to the audio thread with a generation              *)
(* (calibration_restore_); a sweep or a clear travels back with the        *)
(* generation the audio thread has (calibration_published_), and is        *)
(* adopted only if that is the main thread's.                              *)
(*                                                                         *)
(* A transport is a register that a read finds whole or not at all, which  *)
(* CalibrationTransport shows of the code; a read that overlaps a publish  *)
(* may give up, so here it does while one is under way.                    *)
(*                                                                         *)
(* Left out, because Vst3Component has it: the configuration, which        *)
(* decides here only whether a sweep may begin, and failing calls.         *)
(***************************************************************************)
EXTENDS StringSweep

CONSTANTS
  MaxLoads,     \* bound: state loads of a behaviour
  MaxCommands   \* bound: calibration commands of a behaviour

ASSUME CalibrationAssumption == MaxLoads \in Nat /\ MaxCommands \in Nat

VARIABLES
  active,            \* active_
  processing,        \* processing_
  command,           \* calibration_command_
  restore,           \* calibration_restore_
  published,         \* calibration_published_
  main_bank,         \* main_calibration_bank_
  main_generation,   \* main_calibration_restore_generation_, calibration_restore_counter_
  audio_generation,  \* audio_calibration_restore_generation_
  previous_phase,    \* previous_calibration_phase_
  shown,             \* calibration_status_
  a_stage,           \* process: where the call is
  a_after,           \* process: what follows the publication or status under way
  a_bank,            \* process: the bank being published
  m_stage,           \* setState: where the call is
  loads,             \* state loads so far
  commands           \* commands so far

host   == <<active, processing>>
main   == <<main_bank, main_generation, m_stage>>
audio  == <<audio_generation, previous_phase>>
call   == <<a_stage, a_after, a_bank>>
bounds == <<loads, commands>>
vars   == <<sweep, host, command, restore, published, main, audio, shown, call, bounds>>

-----------------------------------------------------------------------------
\* kCalibrationCommandNone, FirstString, Cancel and Clear
NoCommand   == 0
FirstString == 1
Cancel      == 9
Clear       == 10
Sweeps      == {FirstString + s : s \in Strings}
Commands    == Sweeps \cup {Cancel, Clear}

Message   == [bank : Bank, generation : Nat]

Factory(g) ==
  [mask |-> Strings, rows |-> [s \in Strings |-> FullRow("factory", TRUE)], since |-> g]

\* merge_m3_factory_calibration of a loaded bank that calibrates Overridden.
Merged(Overridden, detuned, g) ==
  [Factory(g) EXCEPT !.rows =
     [s \in Strings |-> IF s \in Overridden THEN FullRow("loaded", detuned) ELSE @[s]]]

\* What a transport carries of b: everything but its partial detunings.
Carried(b) == [b EXCEPT !.rows = [s \in Strings |-> [@[s] EXCEPT !.detuned = FALSE]]]

Idle     == a_stage = "idle"
MainIdle == m_stage = "idle"

Show(p, b) == previous_phase' = p /\ shown' = [phase |-> p, mask |-> b.mask]

-----------------------------------------------------------------------------
(* Main thread *)

\* request_string_calibration, request_cancel_ and request_clear_string_calibration
Request(c) ==
  /\ MainIdle /\ commands < MaxCommands
  /\ command' = c
  /\ commands' = commands + 1
  /\ UNCHANGED <<sweep, host, restore, published, main, audio, shown, call, loads>>

\* setState: the new bank and its generation are the main thread's at once...
SetState(Overridden, detuned) ==
  /\ MainIdle /\ loads < MaxLoads
  /\ main_generation' = main_generation + 1
  /\ main_bank' = Merged(Overridden, detuned, main_generation + 1)
  /\ m_stage' = "publish"
  /\ loads' = loads + 1
  /\ UNCHANGED <<sweep, host, command, restore, published, audio, shown, call, commands>>

\* ...and the audio thread's to read once the publication ends.
SetStatePublished ==
  /\ m_stage = "publish"
  /\ restore' = [bank |-> Carried(main_bank), generation |-> main_generation]
  /\ m_stage' = "idle"
  /\ UNCHANGED <<sweep, host, command, published, main_bank, main_generation, audio, shown,
                 call, bounds>>

\* Variant: whatever is published is adopted.
AdoptablePublication == a_stage # "publish"

\* adopt_published_calibration_on_main_thread finds a bank that descends from its own.
Adoptable == a_stage # "publish" /\ published.generation = main_generation

AdoptedBank == IF Adoptable THEN published.bank ELSE main_bank

\* getState
GetState ==
  /\ MainIdle
  /\ main_bank' = AdoptedBank
  /\ UNCHANGED <<sweep, host, command, restore, published, main_generation, m_stage, audio,
                 shown, call, bounds>>

-----------------------------------------------------------------------------
(* Lifecycle, while no process() call runs *)

\* reset_detector_transients, once bank' is known.  Every block has shown the end of a
\* sweep, so nothing is left to publish.
ResetTransients ==
  /\ phase' = Cancelled
  /\ ForgetCounts
  /\ UNCHANGED <<string_index, requested_fret>>
  /\ Show(Cancelled, bank')

\* setActive(true)
Activate ==
  /\ Idle /\ MainIdle /\ ~active
  /\ active' = TRUE
  /\ main_bank' = AdoptedBank
  /\ SetBank(phase, main_bank')
  /\ ResetTransients
  /\ UNCHANGED <<processing, command, restore, published, main_generation, m_stage,
                 audio_generation, call, bounds>>

\* setActive(false)
Deactivate ==
  /\ Idle /\ MainIdle /\ active /\ ~processing
  /\ active' = FALSE
  /\ UNCHANGED <<sweep, processing, command, restore, published, main, audio, shown, call,
                 bounds>>

\* setProcessing(on)
SetProcessing(on) ==
  /\ Idle /\ active /\ processing # on
  /\ processing' = on
  /\ UNCHANGED bank /\ ResetTransients
  /\ UNCHANGED <<active, command, restore, published, main, audio_generation, call, bounds>>

\* terminate and initialize again
Reinitialize ==
  /\ Idle /\ MainIdle /\ ~active
  /\ phase' = "idle" /\ string_index' = 0 /\ requested_fret' = 0
  /\ ForgetCounts
  /\ bank' = EmptyBank
  /\ command' = NoCommand
  /\ restore' = [bank |-> EmptyBank, generation |-> 0]
  /\ published' = [bank |-> Carried(Factory(0)), generation |-> 0]
  /\ main_bank' = Factory(0) /\ main_generation' = 0
  /\ audio_generation' = 0 /\ previous_phase' = "idle"
  /\ shown' = [phase |-> "idle", mask |-> Strings]
  /\ UNCHANGED <<host, m_stage, call, bounds>>

-----------------------------------------------------------------------------
(* process *)

Goes(stage) == a_stage' = stage /\ UNCHANGED <<a_after, a_bank>>

\* The publication of b begins; then the status is shown, and then comes after.
Publishes(b, after) == a_stage' = "publish" /\ a_after' = after /\ a_bank' = b

\* A call that is not refused; boundary: it brings a structural change.
BeginProcess(boundary) ==
  /\ Idle /\ processing
  /\ Goes("restore")
  /\ IF boundary THEN UNCHANGED bank /\ ResetTransients
                 ELSE UNCHANGED <<sweep, previous_phase, shown>>
  /\ UNCHANGED <<host, command, restore, published, main, audio_generation, bounds>>

\* apply_calibration_restore finds nothing new.
NoRestore ==
  /\ a_stage = "restore"
  /\ m_stage = "publish" \/ restore.generation = audio_generation
  /\ Goes("command")
  /\ UNCHANGED <<sweep, host, command, restore, published, main, audio, shown, bounds>>

\* Variant: a sweep in progress is not cancelled, so that it keeps its bank.
TakeWhileSweeping(b) ==
  SetBank(phase, b) /\ UNCHANGED <<progress, counts>>

Take(b) == CancelAndSet(b)

\* apply_calibration_restore
Restore ==
  /\ a_stage = "restore"
  /\ m_stage # "publish" /\ restore.generation # audio_generation
  /\ Take(restore.bank)
  /\ audio_generation' = restore.generation
  /\ previous_phase' = phase'
  /\ Publishes(restore.bank, "command")
  /\ UNCHANGED <<host, command, restore, published, main, shown, bounds>>

\* The publication ends, with the generation the audio thread has.
PublishEnds ==
  /\ a_stage = "publish"
  /\ published' = [bank |-> Carried(a_bank), generation |-> audio_generation]
  /\ a_stage' = "status" /\ a_bank' = EmptyBank
  /\ UNCHANGED <<sweep, host, command, restore, main, audio, shown, a_after, bounds>>

\* apply_string_calibration_command.  may: the configuration has a range to sweep.
Command(may) ==
  /\ a_stage = "command"
  /\ command' = NoCommand
  /\ \/ /\ command \in Sweeps
        /\ IF may THEN Begin(command - FirstString) ELSE CancelSweep
     \/ command = Cancel /\ CancelSweep
     \/ command = NoCommand /\ UNCHANGED sweep
  /\ a_stage' = "status" /\ a_after' = "ready"
  /\ UNCHANGED <<host, restore, published, main, audio, shown, a_bank, bounds>>

ClearCommand ==
  /\ a_stage = "command" /\ command = Clear
  /\ command' = NoCommand
  /\ ClearAndSet(Factory(audio_generation))
  /\ Publishes(bank', "ready")
  /\ UNCHANGED <<host, restore, published, main, audio, shown, bounds>>

\* The sweep has just completed.
JustCompleted == phase = "complete" /\ previous_phase # "complete"

\* publish_string_calibration_status, with a bank to publish first.
StatusPublishes ==
  /\ a_stage = "status" /\ JustCompleted
  /\ Publishes(bank, a_after)
  /\ previous_phase' = phase
  /\ UNCHANGED <<sweep, host, command, restore, published, main, audio_generation, shown,
                 bounds>>

\* publish_string_calibration_status
Status ==
  /\ a_stage = "status" /\ ~JustCompleted
  /\ Show(phase, bank)
  /\ a_stage' = a_after /\ a_after' = "idle" /\ UNCHANGED a_bank
  /\ UNCHANGED <<sweep, host, command, restore, published, main, audio_generation, bounds>>

\* A call without samples, or with an unsupported layout, ends before the detector.
ReturnEarly ==
  /\ a_stage = "ready"
  /\ Goes("idle")
  /\ UNCHANGED <<sweep, host, command, restore, published, main, audio, shown, bounds>>

\* The detector observes the requested fret.
Detect ==
  /\ a_stage \in {"ready", "detect"}
  /\ Observe
  /\ Goes("detect")
  /\ UNCHANGED <<host, command, restore, published, main, audio, shown, bounds>>

\* The status at the end of a call.
EndProcess ==
  /\ a_stage \in {"ready", "detect"}
  /\ a_stage' = "status" /\ a_after' = "idle" /\ UNCHANGED a_bank
  /\ UNCHANGED <<sweep, host, command, restore, published, main, audio, shown, bounds>>

-----------------------------------------------------------------------------
Init ==
  /\ SweepInit
  /\ active = FALSE /\ processing = FALSE
  /\ command = NoCommand
  /\ restore = [bank |-> EmptyBank, generation |-> 0]
  /\ published = [bank |-> Carried(Factory(0)), generation |-> 0]
  /\ main_bank = Factory(0) /\ main_generation = 0 /\ m_stage = "idle"
  /\ audio_generation = 0 /\ previous_phase = "idle"
  /\ shown = [phase |-> "idle", mask |-> Strings]
  /\ a_stage = "idle" /\ a_after = "idle" /\ a_bank = EmptyBank
  /\ loads = 0 /\ commands = 0

MainThread ==
  \/ \E c \in Commands : Request(c)
  \/ \E Overridden \in SUBSET Strings, detuned \in BOOLEAN : SetState(Overridden, detuned)
  \/ SetStatePublished \/ GetState

Lifecycle ==
  Activate \/ Deactivate \/ Reinitialize \/ \E on \in BOOLEAN : SetProcessing(on)

Process ==
  \/ \E boundary \in BOOLEAN : BeginProcess(boundary)
  \/ NoRestore \/ Restore \/ PublishEnds
  \/ \E may \in BOOLEAN : Command(may)
  \/ ClearCommand \/ StatusPublishes \/ Status
  \/ ReturnEarly \/ Detect \/ EndProcess

Next == MainThread \/ Lifecycle \/ Process

Spec == Init /\ [][Next]_vars

-----------------------------------------------------------------------------
(* Properties *)

\* Every variable holds what its C++ type and the order of the calls allow.
TypeOK ==
  /\ SweepOK
  /\ active \in BOOLEAN /\ processing \in BOOLEAN
  /\ command \in Commands \cup {NoCommand}
  /\ restore \in Message /\ published \in Message
  /\ main_bank \in Bank /\ main_generation \in Nat /\ m_stage \in {"idle", "publish"}
  /\ audio_generation \in 0 .. main_generation /\ previous_phase \in Phases
  /\ shown \in [phase : Phases, mask : SUBSET Strings]
  /\ a_stage \in {"idle", "restore", "publish", "status", "command", "ready", "detect"}
  /\ a_after \in {"idle", "command", "ready"} /\ a_bank \in Bank

\* What getState would save is a bank the encoder takes, and descends from the last
\* state load: no sweep, clear or older load that the audio thread publishes late takes
\* its place.
SavesTheLastLoad == ValidBank(main_bank) /\ main_bank.since = main_generation

\* Between calls, once the last load has reached the audio thread, the main thread can
\* learn all of the bank that the transport carries, and the editor sees how the sweep
\* stands: no end of a sweep, clear, load or reset goes by unpublished.
PublishedIsCurrent ==
  Idle /\ active /\ audio_generation = main_generation =>
    /\ published = [bank |-> Carried(bank), generation |-> main_generation]
    /\ shown = [phase |-> phase, mask |-> bank.mask]
=============================================================================
