# M3 Polyphonic Audio to MIDI: specifications and proofs

M3 turns the audio of an eight-string instrument into MIDI notes. The program is
a C++17 plug-in for x86-64 Linux: a VST3 front end (the one that ships) and a
frozen CLAP front end share a pitch detector, a note ledger and a
configuration exchange. This directory models the parts of it whose
correctness is a matter of order, interleaving and failure: which notes the
host is told about, how a configuration, a calibration or a tuner frame crosses from one
thread to another, how the plug-ins change their settings while they play, on which
strings a pitch sounds, and how a string is calibrated.

Paths below are relative to `src/`.

## 1. Inventory

| Part | Code | State it keeps | Operations |
| --- | --- | --- | --- |
| Generated-note ledger | `native/src/generated_note_ledger.cpp` | eight voices (active, pending release, note, channel, voice id), block queue, `output_blocked_`, `cleanup_complete_`, panic hold | activate, deactivate, queue a transition, queue releases, request release or recovery, retry, deliver |
| Prepared-configuration exchange | `native/plugin/prepared_config_exchange.cpp` | three slots with an atomic state and generation, active slot, publisher generation | initialize, publish (main); claim, commit, cancel, reclaim (audio); `AtomicConfigRequest`, a seqlock; `stage_prepared_config` |
| VST3 component | `native/vst3/vst3_component.cpp` | main, requested, active and pending configuration, boundary flag, claim, lifecycle flags, panic flag, status, calibration state | initialize, setActive, setProcessing, process, setParamNormalized, setState/getState, terminate |
| Parameter bridge | `native/vst3/vst3_parameter_bridge.cpp` | none | last value of each parameter in a host batch, validation, output queues |
| Editor | `native/vst3/m3_editor.cpp` | controls, gestures, timers | apply an edit, read tuner and status |
| Pitch detector | `native/src/polyphonic_pitch_detector.cpp` | the state of every candidate pitch (lanes assigned and sounding, attack, release and unison counters), group masks, fine fits, trackers; filters and resonators | configure, reset, process a block into decisions (`make_decision`) and their note transitions |
| Event sink | `native/vst3/vst3_event_sink.cpp` | none | encode one event, ask the host to take it |
| State images | `native/vst3/vst3_state_stream.cpp`, `native/src/*state_image.cpp` | none | encode and decode with checksums, bounded stream reads |
| Parameter contract | `native/src/parameter_contract.cpp` | none | ranges, rounding, update class of a parameter, apply one |
| Calibration transport | `native/src/calibration_bank_transport.cpp` | a seqlock of words | publish (audio), read_latest (main) |
| Tuner telemetry | `native/src/tuner_telemetry.cpp` | a seqlock of words | publish, publish_input_peak, clear (audio), read_latest (editor) |
| String calibration | `native/src/string_calibration.cpp` | sweep phase, requested fret, accumulators, bank | begin, observe, cancel, clear, set_bank |
| Factory calibration | `native/src/factory_calibration.cpp` | embedded bank | decode, merge with a loaded bank |
| CLAP adapter | `native/plugin/clap_adapter.cpp` | as the VST3 component, with a publish retry | the CLAP life cycle, process, state |
| MIDI pipeline (CLAP) | `native/plugin/midi_pipeline.cpp` | the ledger, `channel_panic_mask_`, routing | merge host MIDI with generated notes, repair channels after a failure |
| Dry path, evidence models | `native/plugin/dry_path.hpp`, `native/src/*evidence*`, `*posterior*`, `unison_*` | filter and score values | floating-point signal work |
| Offline replay, benchmark, probes | `native/offline/`, `native/bench/`, `*probe_processor.cpp` | per run | measure the detector, test hosts |
| JSFX effect, Lua scripts, Python tools | `Effects/`, `Scripts/`, `tools/` | per program | the earlier effect, REAPER set-up, build and corpus tooling |
| Vendored SDKs | `third_party/` | | |

### How they interact

Two threads matter: the host's *main* thread (with the editor) and the *audio*
thread, which runs `process()`.

1. An edit in the editor calls `setParamNormalized`, which stores the new main
   configuration (`publish_main_config`). For a structural parameter of an active
   plug-in it also *publishes* a prepared configuration in the exchange. The editor
   then tells the host, which delivers the same change to a later `process()` call
   in its parameter queues.
2. `process()` reads the batch. Runtime changes apply at once. A structural change
   starts a *boundary*: a held claim is cancelled, the ledger is asked to release
   every note, the detector is reset, and the newest prepared configuration is claimed
   if it matches.
3. The call then retries owed note-offs. When none is owed and a matching claim is
   held, the claimed configuration is committed and the boundary ends. Until then no
   note is made.
4. With no boundary, debt, blocked output or hold, the detector runs and its transitions
   go through the ledger to the host's event list, which may refuse any of them. A
   refusal blocks the output until a panic hold has released everything and ended.
5. One status word tells the user which of these conditions holds.

### What is hard, and what makes each part correct

* **Ledger.** The sink may refuse any event at any point of four loops. It is correct
  if it always knows exactly the notes the host has on, releases each, and never starts a
  note over a debt (`HostAgrees`, `BlockedOwesAll`, `CleanupIsCurrent`, `EventsInOrder`,
  `DeliversNotes`, `OwedIsReleased`).
* **Exchange.** Two threads scan, take and store slots without a lock. It is correct if the
  audio thread never sees half a configuration or one under a wrong generation, can always
  commit what it claimed, and the newest configuration is never lost; if to its callers all of
  this is no more than a set of waiting configurations, a claim and an active one; and if neither
  thread ever waits for the other (`NeverTorn`, `ClaimIsGood`, `NewestSurvives`,
  `NewestIsAdopted`, `ImplementsService`, `CallsNeverWait`).
* **Component.** Edits arrive twice, by two ways, in either order, while a panic, a stop, a
  failure or another edit is under way. It is correct if the detector and the host agree on
  the notes whenever notes can be made, structural settings change only in silence, a claim
  kept over several calls still fits, boundaries and holds end, the status is honest, and the
  generations it numbers and compares keep to what the exchange promises
  (`DetectorInStep`, `SilentSwap`, `ClaimFits`, `MatchedBoundaryEnds`, `HoldEnds`,
  `ReadyMeansOpen`, `FollowsService`).
* **Seqlocks** (calibration, telemetry, `AtomicConfigRequest`). A reader copies words one at a
  time while a writer replaces them. It is correct if what it accepts was published as a whole
  and was current, a generation names one content, and a reader never waits for a writer
  (`BankReadsAreWhole`, `FrameReadsAreWhole`, `RequestReadsAreWhole`, `GenerationNamesContent`,
  `GenerationsAdvance`, `ReaderNeverWaits`).
* **CLAP pipeline.** As the ledger, plus the host's own MIDI in between and the repair of
  whole channels. A refusal of either kind re-enters the ledger in the middle of a delivery. It
  is correct if the host gets one ordered stream, each of its own events once, and an output that
  opens has silenced every channel it should (`EmittedInOrder`, `InputsPassOnce`,
  `OpenMeansClean`).
* **CLAP adapter.** Parameter events on the audio thread and state loads on the main thread
  publish into one register, either may lose, and the losing side retries. It is correct if a
  generation means the same configuration to each owner, notes never stay behind on an old
  channel, the last request reaches the engine, and the status is honest
  (`SameGenerationSameConfig`, `NotesFollowConfig`, `RequestIsAdopted`, `ReadyMeansOpen`).
* **Calibration.** A sweep advances only on the requested fret, over restarts and outliers, and
  a state load must not be overtaken by a bank learned earlier. It is correct if a sweep ends
  with every fret it needs, a save writes what descends from the last load, and no end of a
  sweep goes by unpublished (`SweepEndsWhole`, `SavesTheLastLoad`, `PublishedIsCurrent`).

* **Detector.** A decision goes through selection, assignment, unison inference, release, attack and
  continuity, each of which reads what the others made of the lanes in this decision or the last.
  It is correct if the notes it emitted leave each pitch sounding on exactly the lanes its
  state says, a note replaced is not ended at once, inference takes no lane of a fading voice and none beyond the polyphony, silence ends every voice, and
  no note starts on a lane that still sounds (`SoundsItsLanes`, `InferredLanesAreFree`,
  `UnisonKeepsBudget`, `SilenceEndsVoices`; `CoastingKeepsItsLanes` and `ReplacedNotesStay`, which do not hold).

The full list of hazards, each at its line, is in `PROJECT.json`.

## 2. Modules

| Module | Models | Extended by |
| --- | --- | --- |
| `NoteLedger` | `GeneratedNoteLedger`, every operation | `MCNoteLedger`, `NoteLedgerProofs` |
| `NoteDelivery` | what note delivery promises the host (abstract) | instantiated by `NoteLedger` |
| `ExchangeService` | what the exchange promises its callers (abstract) | instantiated by `ConfigExchange` and `Vst3Component` |
| `ConfigExchange` | `PreparedConfigExchange`, one atomic access per step | `MCConfigExchange`, `ConfigExchangeProofs` |
| `Vst3Component` | `M3Component` with what the editor, the parameter bridge, the detector and the host contribute | `MCVst3Component`, `Vst3ComponentProofs` |
| `AtomicSnapshot` | what a seqlock promises its readers (abstract) | instantiated by the next three |
| `CalibrationTransport` | `CalibrationBankTransport`, one shared access per step | instantiated by `Seqlocks` |
| `TunerTelemetry` | `TunerTelemetryTransport`, one shared access per step | instantiated by `Seqlocks` |
| `ConfigRequest` | `AtomicConfigRequest` with two writers, one shared access per step | instantiated by `Seqlocks` |
| `Seqlocks` | the three seqlocks side by side | `MCSeqlocks`, `SeqlockProofs` |
| `MidiPipeline` | the CLAP `MidiPipeline`, over `NoteLedger` | `MCMidiPipeline`, `MidiPipelineProofs` |
| `ClapAdapter` | the CLAP adapter | `MCClapAdapter`, `ClapAdapterProofs` |
| `StringSweep` | `StringSweepCalibrator` | `Calibration` |
| `Calibration` | what `M3Component` does with calibrations on both threads | `MCCalibration`, `CalibrationProofs` |
| `DetectorLanes` | the decisions of `PolyphonicPitchDetector`: which pitches sound on which strings | `MCDetectorLanes`, `DetectorLanesProofs` |
| `NoteLedgerProofs` | theorems about the ledger | `MidiPipelineProofs` |
| `MidiPipelineProofs` | theorems about the pipeline, and about the ledger inside it | |
| `ClapAdapterProofs` | theorems about the CLAP adapter | |
| `ConfigExchangeProofs` | theorems about the exchange, and that it implements its service | |
| `Vst3ComponentProofs` | theorems about the component, and that it keeps to the exchange's service | |
| `SeqlockProofs` | theorems about the three seqlocks | |
| `CalibrationProofs` | theorems about the sweep and the calibration's way between the threads | |
| `DetectorLanesProofs` | theorems about the detector's lanes | |

Definitions marked *Variant* are the modelled definition with one plausible mistake put
in. Nothing uses them; each names the mistake some property is there to catch.

### NoteLedger

Variables carry the names of the C++ members; `sounding` is the host's view, the
notes it was told on and not yet told off. A call with no loop is one action
(`BeginBlock`, `RequestReleaseAll`, `ReportOutputFailure`, `RequestRecovery`,
`QueueTransition`, ...). A call that loops is entered by one action (`CallRetry`,
`CallDeliver`, `CallDeliverQueued`, `CallQueueReleases`) and takes one step per
iteration (`RetryAccepted`/`RetryRefused`, `OffAccepted`/`OffFailed`, `OnHeldBack`,
`OnAccepted`/`OnFailed`, `QueueRelease`), with the sink's answer chosen at each;
`RetryDone` and `FinishHold` are its ends. `stage`, `index`, `route`, `last` are the
locals of the running call. No other call starts meanwhile: the ledger is used by
one thread at a time.

Kept: the order of retries (by note, then by slot), the insertion order of the queue,
the slot and channel search, all capacity limits, both routings, the transitions that
are rejected. Left out: velocities; the sink's encoding.

### ConfigExchange

The main thread's `publish` and the audio thread's `claim_latest`, `commit`, `cancel`
and `reclaim_stale_ready` are split into their atomic loads, stores and
compare-exchanges, so every interleaving of the two threads is explored. A slot's
content is the generation it was prepared under, or `Torn` while it is being written.
`p_*` are the locals of the publisher, `a_*` those of the audio thread, `c_*` is the claim
the caller keeps. `initialize` and `reset` run while no call does and in turn, as the life cycle
of both adapters has it.

`ExchangeService` is the exchange without slots. A publication waits (from the store of its generation,
`Waits`) until it is held, or a newer one is active, or one newer publication takes its place; a claim
is held until its holder commits it or gives it back; only newer configurations become active; and what is
lost otherwise is lost at a `Stop`. Most steps of `ConfigExchange` are stutters of it.

`AudioStepsLeft` and `PublishStepsLeft` bound the steps a call still has, from the loop indices and the
attempt: "These never wait" (`native/plugin/prepared_config_exchange.hpp:111`) is that each step of a call
lowers its own bound and no step of the other thread raises it.

The accesses are taken in program order: the code uses acquire loads, release stores and
acquire-release exchanges, on x86-64. A compare-exchange that fails spuriously is not
modelled (the code uses the strong form). Generations are plain numbers; a wrap after
2^64 publications is out of scope.

### Vst3Component

Main-thread actions: `EditorEdit` (an edit that is applied and queued for
`process()`), `HostSetParam` and `HostQueues` (its two halves from a host that
automates them, in any order), `SetState`, `RequestPanic`. Life cycle: `Activate`,
`Deactivate`, `Reinitialize`, `StartProcessing`, `StopProcessing`. A `process()` call
is a run of steps, and the main thread may act between any two:

    RefusedCall
    ApplyRuntime | SameBoundary | BeginBoundary -> ClaimPrepared (early)
      -> HandlePanic -> NoSamples
                      | SupportedLayout / UnsupportedLayout -> Retry
                          -> ClaimPrepared (late) -> Commit / NoCommit
                          -> NonFinite / NoDetection / Detect -> Finish

A call of the exchange or of the ledger is one step here: the modules above model
their insides, and their theorems justify the step (a claim is whole and commits; the
ledger holds what the host hears). The exception is a `publish()` that finds no free slot
(`Full`): it has to take a ready one, which the audio thread may be claiming, so it has a second step
(`replacing`). Alone it takes the place of the oldest ready configuration (`ReplaceReady`) or, with none,
is refused (`PublishRefused`). If a call of the audio thread came in between (`raced`), it may also be refused after
lost attempts, take any ready one's place or a slot that came free; and a claim beside it may find nothing,
or an older configuration than the newest. An edit that is refused changes nothing and the host is not told of it.

Mapped to `ExchangeService` (`ready` waits, `claim` is held), every step of the component is one of the
service or a stutter: `FollowsService`. With `ImplementsService` that ties the two modules together, since the
component sees of the exchange what the service allows. `HostDoes` selects which acts of the host an
instance includes. Left out: calibration and its restore, tuner telemetry, dry audio, bus
arrangement, the bytes of a state, the sample rate. The allocation in `setActive` does not fail here.

### CalibrationTransport, TunerTelemetry, ConfigRequest

A step is one load, store or compare-exchange of a shared word, so a reader can be anywhere while
a writer is anywhere else. `w_*` are the locals of a writer, `r_*` those of the reader,
`candidate` the copy under way, `snapshot` what was accepted last, and `published` the value a
reader should see, which the code does not have. Each module maps to `AtomicSnapshot`: a
publication takes place when the sequence becomes even again, a read at its second look at the
sequence, and it may also give up.

* `CalibrationTransport` has one writer and one reader, and a `reset` between their calls.
* `TunerTelemetry` has two kinds of publication (a frame, an input peak) under one sequence and
  one generation, `clear`, and a header that says how many of the words count.
* `ConfigRequest` has two writers, each of which gives up when the other is inside,
  and generations that wrap.

The accesses of the first two are sequentially consistent in the code. The fields of
`AtomicConfigRequest` are relaxed; the model takes them in program order, as x86-64 does.
The 32-bit sequences are not wrapped. `Seqlocks` puts the three side by side, for the runs and the proofs.

### MidiPipeline

`MidiPipeline` extends `NoteLedger` and composes its steps with its own variables: the owed
channel panics, the host's event list and how far it has been offered. `process()` is retry and
deliver of the ledger with, before every event the ledger offers, the host events that come first
(`FlushSkip`, `FlushOther`, `InputAccepted`, `InputRefused`), then the panics, then the rest of the list. A
host event refused in the middle of a delivery calls the ledger's `report_output_failure`
there, as `push_generated` does.

### ClapAdapter

The callbacks of the adapter, split where the two threads share an access: `AtomicConfigRequest`,
the exchange, the atomics `requested_structural_generation`, `reconfiguration_pending`,
`panic_requested` and `values_dirty`. A block is

    BeginCall -> Edit* -> Publish / PublishFails -> Snapshot -> Claim / NoClaim
      -> CompareAdopted -> ClearReconfiguration -> TakePanic -> Deliver -> StoreStatus

and the main thread's calls are `OnMainThread`, `LoadState` and their steps. A call of
`AtomicConfigRequest` or of the exchange fails here only while the other thread is inside
one; that they are whole otherwise is what `ConfigRequest` and `ConfigExchange` show.
The pipeline is a record (heard, owed, blocked, hold, panics) whose `process()` is one step.
`Hosts` lists what a host of the instance does.

### StringSweep and Calibration

`StringSweep` is the calibrator without numbers. An observation is chosen with what `observe()`
would find out about it: whether it is of the requested fret, settled with its window, and
whether the two directions of a fret agree in the end. Counts per fret and direction, the window,
the turnaround and the retry after a bad fret are kept.

`Calibration` adds the component around it. On the main thread: commands, `setState`, `getState`.
On the audio thread: the restore at the start of a call, the command, the publications and the
status that follow each. A transport is a register that a read finds whole or not at all. A bank
keeps, for each row, where it comes from and whether it has partial detunings, and `since`, the
number of the state load it descends from, which the code does not have.

### DetectorLanes

A decision is a run of steps, one for each phase of `make_decision` and one for each pass of a loop
over the candidates:

    Select | SelectQuiet -> Assign -> BeginUnison -> Infer / SkipInfer (each candidate)
      -> UpdateNote (each candidate)
      -> MoveVoice / ReleaseVoice / CoastVoice / NoVoice (each candidate)
      -> AttackIdle / AttackWaits / AttackStarts (each candidate) -> Restore

(`SelectQuiet` goes on with the voices.) Between decisions the adapters may `Reset`. The fields of a
`CandidateState` that say on which lanes it sounds are kept under their names, with masks as sets of
strings. The code has no counterpart of `renoted`, the candidates whose note this decision replaced, nor of the three
history variables: `sounding`, the lanes and notes that the emitted transitions leave each candidate on; `dropped`, that
`append_transition` has dropped a transition for want of room (`sounding` is not followed from there to the next reset); and
`silence`, the quiet decisions in a row that voices have outlasted.

What is measured is a free choice in the phase that reads it: which pitches a score favours, the string a
cost or a settled spectrum prefers, whether a unison is seen, which note a calibration gives, whether a neighbour takes over. The
conditions on lanes around each choice are the code's. The group a fine fit resolved is kept in
`fine`, since several phases of a decision must see the same one. `unison_dropout_decisions` asks the measured beat anew for each
candidate and decision, so the limit for a missing unison and for a fading group is drawn from `Dropouts` at every use,
and may rise and fall while a voice fades; `release_ticks` is not counted beyond the longest limit. So the model allows every decision of the
code for one routing (a MIDI channel per string) and one profile (m3), and some that no signal
causes. Left out: the tuner snapshot, velocities, the routing to one channel.

## 3. Runs

| Run | Instance | Shows |
| --- | --- | --- |
| `ledger` | 2 voices, 2 channels, 1 note, both routings from the last channel, blocks of 1 sample, queue of 1 | types and bounds; the ledger and the host agree; a blocked output owes everything; cleanup is never stale; the ledger implements `NoteDelivery`; every owed note-off is delivered in the end |
| `exchange` | 3 slots, generations up to 5 | no torn or mislabelled configuration, good claims, the newest survives and is adopted; the exchange implements `ExchangeService`; no call waits |
| `vst3` | one structural and one runtime parameter of two values, 1 note, 2 slots, 2 edits, every act of the host | the safety properties of the component; it keeps to `ExchangeService`; matched boundaries and panic holds end |
| `seqlocks` | bank: 2 words, 2 generations, 2 publications; tuner: 1 voice of 2 words, 3 publications; request: 2 writers, 2 fields, generations modulo 4, 3 publications | whole and current reads, unambiguous and advancing generations, a reader that never waits |
| `midi_pipeline` | 2 voices, 2 channels, blocks of 2 samples, queue of 2, two lists of up to 4 host events | one ordered stream, each host event once, no open output that owes a panic |
| `clap` | one structural and one other parameter, three host profiles, 2 edits | agreement of the three owners, notes under the settings in force, an honest status, adoption of the last request |
| `calibration` | 2 strings, 3 frets, windows of 2, 2 state loads, 2 commands | whole sweeps, saves that descend from the last load, current publications |
| `detector` | 2 neighbouring pitches on 4 strings, 3 of which may sound; a pair that a tier may complete; attacks and releases of 1 decision, drop-outs of 1 or 2 by the beat, room for 4 transitions | events and state agree, inference takes free lanes within the polyphony, silence ends every voice |
| `vst3_latest`, `vst3_runtime`, `detector_lanes`, `detector_notes` | as above (`vst3_*` with a well-behaved host; `detector_notes` with a calibrated second pitch on two strings) | the four findings below |

**Why the bounds are enough to meet the cases.** Two voices are the least for a partly delivered
retry, a repeated identity and a full voice table; the queue of one overflows at its second
transition, and with two channels a start on the last one wraps. The pipeline's run has the
larger block and queue, so that transitions at two offsets are sorted among host events before,
between and after them. Three slots are what the program has: with one active and one claimed, a
single slot is left for the publisher, and five generations let it replace its own slot
several times during one claim. Two edits are the least for one that overtakes another; a third
was explored for `vst3` before and found nothing else, and the theorems of section 5
hold for any number. With the 2 slots of `vst3` the second edit already finds the exchange full, so that
replaced, raced and refused publications are met within two; the findings have the 3 slots of the program. `MaxEdits` counts edits, state loads and panic requests; the number of
`process()` calls is not bounded. Two words are the least that can be torn, and the
publications of `seqlocks` let a whole one happen between two words of a read.
Its three transports share no variable, so a behaviour follows one of them (`link`).
The host profiles of `clap` separate what need not be combined (a host that resets and stops from one
that races events against loads), which keeps every pair of shared accesses and drops
products of unrelated faults. Two windows of two observations over three frets make a sweep go up,
turn and come back with restarts and outliers on the way; two loads are the least for a load that
overtakes another, two commands for a sweep that a second one interrupts.
The two pitches of `detector` share one string, and each has one that the other cannot play; the polyphony of three on four
strings lets a group of three, or a pair beside a single lane, use it up. A decision has room for 16 transitions on eight
strings; in `detector` it has room for as many as there are strings, the least `DetectorAssumption` allows, so that
transitions are dropped and note-offs of a fading voice find no room. Its release takes one decision and a
group is held for one or two, so that the limit of a fading group is sometimes the longer and changes under it; longer limits,
which only add decisions of waiting, exceed what TLC can explore and are left to the theorems. The bank of `detector`
has no rows (`Projected` is empty), so that every voice keeps its detected note; `detector_notes` has a row that replaces one. The two findings
have releases of 2, limits of 1 to 3, and room for 8 and 6.

Only `ledger` lists a type invariant. Those of the other modules are proved: `ExchangeTypeOK`, `ComponentTypeOK`,
`SeqlockTypes`, `AdapterTypeOK`, `PipelineTypes`, `CalibrationTypes` and `DetectorTypes`.

**Fairness.**

* Ledger: the host calls `process()` again and again, each call retries or delivers
  (strong, since the other calls take turns with it), a loop that started ends (weak), and a
  sink offered the owed note-offs again and again takes one in the end (strong). Without
  the last assumption the host could refuse for ever, and then nothing can be promised.
* Exchange: each thread completes its call (weak), and while a boundary is pending every block
  claims, and commits when it holds a claim (strong: the audio thread may be inside another call,
  and `Cancel` may take a claim away).
* Component: while processing the host keeps calling, and calls return, `publish()` among them (weak;
  `CallsAreBounded` is why);
  calls with samples in a supported layout, with finite and quiet input recur, and owed
  note-offs are taken in the end (strong). A
  player pauses and a host repairs its layout again and again but perhaps never for good, so
  recurrence is all that is assumed.

* CLAP adapter: as the component; a callback that was asked for comes (weak), and a publication, a
  claim or a preparation tried again and again is not lost each time (strong: each
  loses only to a call of the other thread that ends).

Safety of the seqlocks, of the pipeline, of calibrations and of the detector needs no fairness. Deadlock is
checked in every run but `seqlocks`, where the bounds on publications end a behaviour.

## 4. Findings

Each is a disagreement between the code and a document of the repository, shown by a
run of its own.

1. `vst3_latest`, `LatestRequestWins`. While a boundary is pending, `process()` builds the
   next candidate from `audio_requested_config_`
   (`native/vst3/vst3_component.cpp:511`), which only a commit updates. After a second
   structural edit of another parameter (or one that takes the first back) the pending
   configuration equals nothing the main thread has prepared; no claim matches, the
   boundary does not end and no notes are made until some further edit or an activation.
   The design says "The latest structural request wins; redundant intermediate requests may
   be coalesced." (`docs/superpowers/specs/2026-08-28-native-clap-polyphonic-audio-to-midi-design.md:267`).
   The later VST3 design accepts a latched Reconfiguring when structural values reach
   `process()` without a matching preparation and calls it a host or contract fault; the run
   needs only two ordinary edits in the plug-in's own editor.
2. `vst3_runtime`, `RuntimeEditsStay`. The commit copies the runtime settings of
   `pending_structural_config_` (line 816), taken when the boundary began, over the active and
   the requested configuration. A trim or sensitivity edit that was applied in between is
   undone. The same design (line 260) says such changes take effect at a safe process boundary.
3. `detector_lanes`, `CoastingKeepsItsLanes`. A voice that fades still owns its lanes until its note-offs
   (`native/src/polyphonic_pitch_detector.cpp:6207`, and `native/tests/test_polyphonic_pitch_detector.cpp:5852`:
   "a second note-on on a live voice identity makes the ledger block all output"). `assign_m3_strings` reserves
   only the lanes it is assigned (line 4028), not those it sounds on. The two differ when a
   settled spectrum made it sound on another lane than its assigned string, and when an assignment that
   has no solution leaves the last one standing (line 4492). The assignment then gives the lane to another pitch, whose note
   starts while the lane sounds.
4. `detector_notes`, `ReplacedNotesStay`. A calibration may know the pitch of a voice better than the detector:
   `change_candidate_output_note` then ends the detected note and begins the other
   (`native/src/polyphonic_pitch_detector.cpp:2533`) on each lane the voice has. If the same decision moves
   the voice (its string was reassigned, or a spectral lane settled), line 7684 ends the new note on the lane it leaves. All
   are at one sample offset, where the ledger puts note-offs first: the new note's off precedes its on, finds no voice, and blocks the
   output until a recovery. The design has it that "Pitch replacement always ends the old generated note before
   beginning the new one" (line 351), and `native/vst3/vst3_component.cpp:949` resets the detector so that it cannot
   "emit a second, now-unmatched note-off".

Four more were met and have no run: the first three show in a line or two, and no document says otherwise of the last. The VST3 status is one value: a blocked
output replaces Reconfiguring, and the end of the hold sets Ready (`native/vst3/vst3_component.cpp:890`) although a
boundary is still pending, until the next call raises it again. A structural CLAP event sets
`reconfiguration_pending`, which only the adoption of a prepared configuration clears
(`native/plugin/clap_adapter.cpp:691`): a change undone before the main thread looks at it leaves the status at
Reconfiguring. And `CalibrationBankTransport` does not carry partial detunings
(`native/src/calibration_bank_transport.cpp:48`), so those of the factory bank do not reach the
detector of the VST3 plug-in. Last, sixteen transitions may be too few for a decision: each lane whose note a
calibration replaces takes two, and a move takes one for each lane left or taken. With
8 transitions on four strings, as many to a string as in the code, TLC finds a decision that replaces the note of a voice on
two lanes (four), moves another voice (two), and then moves the first from its two lanes to another (three, of which two fit).
`append_transition` (line 2485) drops what does not fit without a word, while the voice's state goes on as if it had been
sent: the host keeps a note that no state has, or lacks one. The
theorem `SoundsWhatItRecords` says that nothing else parts the two.

## 5. Proofs

All theorems hold for every value of the constants the assumptions allow.

| Theorem | Says |
| --- | --- |
| `LedgerTypeOK` | types and bounds of the ledger |
| `LedgerKeepsHostNotes`, `BlockedOutputOwes`, `CleanupIsHonest` | `HostAgrees`, `BlockedOwesAll`, `CleanupIsCurrent` |
| `StoppedOutputOwes` | a ledger that gives up its storage owes all it holds, and keeps owing it until it has storage again |
| `LedgerDeliversInOrder` | `EventsInOrder` |
| `LedgerImplementsDelivery` | the ledger implements `NoteDelivery` |
| `ExchangeTypeOK` | types of the exchange |
| `ExchangeHandsOverWhole`, `HeldClaimCommits`, `NewestIsKept` | `NeverTorn`, `ClaimIsGood`, `NewestSurvives` |
| `ExchangeImplementsService` | `ImplementsService`: the exchange implements `ExchangeService` |
| `ExchangeNeverWaits` | `CallsNeverWait`: each step of a call brings its end nearer |
| `CallsAreBounded` | a claim or commit ends within `NumSlots * (5 * NumSlots + 2)` of its own steps, a publish within `NumSlots * (2 * NumSlots + 3)` |
| `ComponentTypeOK` | types of the component |
| `DetectorStaysInStep`, `HeldClaimFits`, `SwapsAreSilent`, `ReadyIsOpen` | `DetectorInStep`, `ClaimFits`, `SilentSwap`, `ReadyMeansOpen` |
| `ComponentFollowsService` | `FollowsService`: the component keeps to `ExchangeService` |
| `PipelineKeepsHostNotes`, `PipelineDeliversInOrder`, `PipelineImplementsDelivery` | the ledger's `TypeOK`, `HostAgrees`, `BlockedOwesAll`, `EventsInOrder` and `DeliversNotes` where the pipeline drives it |
| `PipelineTypes` | types of the pipeline |
| `OpenOutputIsClean`, `HostReceivesInOrder`, `HostEventsPassOnce` | `OpenMeansClean`, `EmittedInOrder`, `InputsPassOnce` |
| `AdapterTypeOK` | types of the CLAP adapter |
| `NotesFollowTheSettings`, `ReadyIsShownOpen`, `GenerationsNameOneConfig` | `NotesFollowConfig`, `ReadyMeansOpen`, `SameGenerationSameConfig` |
| `SeqlockTypes` | types of the seqlocks |
| `BankIsAtomic`, `TunerIsAtomic`, `RequestIsAtomic` | `BankReadsAreWhole`, `FrameReadsAreWhole`, `RequestReadsAreWhole`: each seqlock implements `AtomicSnapshot` |
| `GenerationsNameFrames`, `GenerationsOnlyAdvance` | `GenerationNamesContent`, `GenerationsAdvance` |
| `ReadsEnd` | a read ends within `attempts * (words + 3) + 1` of its own steps (`words + 5` for the tuner), whatever writers do |
| `CalibrationTypes` | types of the sweep, the banks and the messages |
| `SweepsEndWhole`, `SavesDescend`, `PublishesCurrent` | `SweepEndsWhole`, `SavesTheLastLoad`, `PublishedIsCurrent` |
| `DetectorTypes` | types of the detector's lanes |
| `UnisonsTakeFreeLanes`, `UnisonsKeepTheBudget` | `InferredLanesAreFree`, `UnisonKeepsBudget` |
| `SoundsWhatItRecords` | `SoundsItsLanes`: the lanes that sound are those of the state, unless a transition was dropped |
| `SilenceEnds` | `SilenceEndsVoices`: in silence each decision past a release ends a voice |
| `PolyphonyIsKept` | no more voices are alive than the polyphony, at any point of a decision |

**Assumptions.** `LedgerAssumption` (at least one voice, channel and sample, notes are MIDI
numbers, routes are legal), `ExchangeAssumption` (at least one slot, a bound on generations),
`ComponentAssumption` (structural parameters are parameters, there is a value and `NoChange`
is none, at least one slot), `AdapterAssumption`
(structural parameters are parameters, the default and the requests are
configurations, host profiles are made of the acts the module lists, bounds are numbers), `PipelineAssumption` (each list of host events is a sequence of input events),
`BankAssumption`, `TunerAssumption`, `RequestAssumption` (at least one word, voice, field, attempt and writer, a zero
content and generation 0, at least two request generations), `SweepAssumption`
(strings of the instrument, at least two frets, windows no shorter than a direction needs),
`CalibrationAssumption` (bounds are numbers) and `DetectorAssumption` (at least one pitch and string, a polyphony
of at most the strings, fits of two to four playable strings, limits of at least one decision, a range of them for beats, room for as many transitions as strings, projections a semitone off).
The safety proofs use no fairness.

**Ledger.** `LedgerInv` adds to the three invariants that a pending voice is active. That is
what makes `ReleaseAll` keep the number of held voices, and what lets a retry decrement
`active_count_` by exactly one. `HostAgrees` carries the count as a cardinality, so the
lemmas about one release and one start show that a slot joins or leaves a finite set. For the
order, `OrderInv` says the queue is sorted and that everything from `index` on comes no earlier
than `last`; the lemma `InsertSorted` shows the backward insertion scan keeps it sorted. For the
refinement each action is matched with `Start`, `Stop`, `OweAll`, `Hold`, `Recover`, `Reset` or a
stutter; that no release is owed at a start is the loop's own guard, and that a blocked output
opens only in silence follows from `CleanupIsCurrent` and `BlockedOwesAll`. An inactive ledger need not owe what it holds:
`activate_preserving_pending` may fail over notes that are held, and leaves them as they are. What deactivation promises is `StoppedOutputOwes`
(`KeepsOwing`): it makes everything held owed, and without storage nothing is delivered from the queue (`DeliversFromStorage`), so
nothing new can be held before the next activation.

**Exchange.** `NeverTorn` is not inductive: that a slot is whole depends on who may write it.
`ExchangeInv` says which slot each thread owns at each of its stages. The publisher owns the one it
writes (`Writing`), the audio thread the one it has claimed, in a scan, a reclaim or a kept claim
(`Claiming`), and the active one except in the middle of a commit (`Active`). `Published` says that
every readable slot is whole and no newer than the last publication. A compare-exchange from an
expected state to an owner's state is what moves a slot from one owner to another, so in the proof each
step either leaves the other thread's slots alone or takes one that thread does not own.
`NewestSurvives` is part of the invariant: the publisher replaces the oldest ready slot only while it
publishes a newer one, and a slot the audio thread frees is not newer than the active one.

The refinement needs `Ordered` besides: generations grow with each publication, no two that are newer than the active one
are the same, a free slot holds none that is, and every slot is free until the exchange is initialised. `StepKinds` sorts the steps
into those that change what waits, is held or is active and the rest. The first are `WriteSlot` (a publication, of which the slot's former
content is the one lost), the last step of a claim, `Cancel`, `Activate`, `Initialize` and `Reset`; a slot
the audio thread frees holds nothing that waits, since its generation is not above the active one.

That no call waits follows from `AudioLeft` and `PublishLeft`, which give each stage its share of the bound. A lost
compare-exchange starts an attempt whose share is exactly one `AttemptSteps` less (`Shares`, the only
product of two variables in the proof), and a scan that goes on or back to a slot is on its way to `NumSlots`. `BoundsStep` then shows that a
call begins within the bound.

**Component.** `SafetyInv` is `CallInv /\ NoteInv /\ ClaimFits`. `CallInv` ties the stage of a call to
the life cycle and to the boundary. `NoteInv` has four parts: while the plug-in is not processing, in
a boundary, blocked or in a hold every note the host has on is owed (`OwesAll`); where the detector is
to run again it has no note (`Emptied`); a complete cleanup owes nothing (`CleanOwesNone`); and in
ordinary processing nothing is owed and the detector's notes are the host's (`InStep`). A recovery goes
from the first two to the last: it needs a complete cleanup, so nothing is owed, so nothing is heard,
and the detector has no note either. `SilentSwap` follows because a commit needs a boundary without debt,
and `ReadyMeansOpen` from the last step of a call alone.

For `FollowsService`, `NumbersInv` says that what is ready or held is newer than the active configuration, was numbered by
`main_generation_`, and has a number of its own, so that a set of generations says which configurations they are;
nothing is left while the plug-in is not active. `EditsInv` bounds the numbers, and says that a
publication under way has not been numbered yet, since `publish_main_config` stores the generation
only when `publish()` has succeeded. `UnclaimedInv` is why a claim never replaces another. `ComponentStepKinds`
then sorts the steps by what they do to the service.

**Seqlocks.** The three proofs have one shape. The sequence is odd exactly while a writer is inside
(`BankShared` and its likes); while none is, the words are what was published last (`BankWritten`); and as
long as the sequence is what a read began with, what it has copied is what those words still are
(`BankCopied`). A writer that comes in between changes the sequence at its first access, so every later step of it has
nothing to preserve, and the second look at the sequence finds the copy equal to `published`. In the tuner
the sequence counts twice the generation, which is why a generation names one content; for the request the
invariant adds that at most one writer is inside and that what it carries is newer than what is published, so
that generations only advance although two threads publish. `ReadsEnd` counts the steps left to a read
(`BankLeft`, `TunerLeft`, `RequestLeft`): a fixed share for each attempt to come, less what the present attempt has
done. The locals of the reader alone determine the count, so no writer changes it; its bounds need the
invariant, which keeps the number of attempts and the index of the copy within range.

**Pipeline.** `CoreInv` puts the ledger's invariants beside `DebtInv`, which says where the ledger can be at each point of
`process()`, and where a channel panic may be owed: past the retry an open output owes none and no
release, and a call that owes panics before it starts stays blocked until the ledger is done.
`OpenMeansClean` is its case between calls. For the order, `SentInv` says that what may still be sent, from the host's
list and from the queue, comes no earlier than what was sent last. For `InputsPassOnce`, `MergeInv`
relates `last_input_offset` and what was offered to the part of the host's list that has been passed, without
an assumption that the list is in order.

**Adapter.** `NotesFollowConfig` is inductive with the types (`NotesInv`): the notes that are not owed carry the structural part
of the active configuration, and a configuration that changes it is adopted only where every note is owed.
`ReadyMeansOpen` needs `StatusInv`, because the status is stored last: until a call has touched the pipeline the status
shown is still true of it, and from there on only what is about to be stored counts.
`SameGenerationSameConfig` needs `GenerationInv`: no generation in flight is above the counter it was
drawn from, and what the main thread is about to take over is no newer than the request it was read from.

**Detector.** `InferredLanesAreFree` is not inductive: inference goes through the selected candidates one by one, and
`FreeInv` says which of them already have lanes no coasting voice owns. `BudgetInv` follows `remaining_extra`: the
lanes held and those granted, with what may still be granted, stay within the polyphony, or nothing may be granted.
`SeatsInv` says that a voice has a string and is active exactly while it sounds on a lane. `SoundInv` is the form of
`SoundsItsLanes` within a decision: `append_transition` drops what does not fit, and from there on the two may part, so it
speaks of the transitions only while none has been dropped.

`SilenceEndsVoices` has to show that note-offs without room cannot put a release off for ever. In a quiet decision nothing is moved,
replaced or started (`PhaseInv`), so the first voice the loop comes to finds all the room there is, and its lanes, which are
at most the strings, fit (`FirstVoiceEnds`). It has waited for at least as many ticks as decisions were silent
(`TickInv`), and the limit in silence is the plain release, whatever its group's beat was; so it ends. `EndInv` then
counts one voice less for every silent decision past the release, beginning with at most the polyphony and at most one for each
candidate, which is `CountInv`, where `active_count` is compared with the voices the loop has passed. `PolyphonyIsKept` comes from it.

**Calibration.** `IInv` is `SweepInv /\ ControlType /\ MessagesType /\ LoadInv`. `SweepInv` says what the
counts are at each point of a sweep: every fret below the requested one (going up), and every fret
above it (coming back), has enough observations in that direction, and a window in progress is of the
requested fret. `SweepEndsWhole` is its consequence at the last fret. `LoadInv` follows a bank
through the two transports: what carries the generation `g` descends from load `g`, so what the main
thread adopts under its own generation descends from its own load, whatever else is on its way.
`PublishedIsCurrent` needs `PublishedInv` besides, which says at each point of a call whether the bank has
changed since it was published, and that the change is then noticed before the call ends.

**Only model-checked:** the liveness properties `OwedIsReleased`, `NewestIsAdopted`, `MatchedBoundaryEnds`,
`HoldEnds` and `RequestIsAdopted` (under fairness, which the prover does not handle); `ReaderNeverWaits`, which
speaks of `ENABLED` (that a reader always has a step; `ReadsEnd` proves that its steps are few); and the
findings, which are refuted on an instance. No module uses recursive operators.

## 6. Not modelled

* Signal analysis, evidence models and dry path: floating-point values whose thresholds decide. What the
  decisions make of them is `DetectorLanes`, which takes every outcome as possible.
* Editor drawing, gestures and X11, value text, names and other presentation.
* State images and the parameter contract: sequential encodings and ranges that unit tests reach.
* Offline replay, benchmark, probes (but for the triggers that are the CLAP adapter's notes, `NewNotes`), JSFX,
  Lua and Python: other programs, which read input and
  write a report or run on one thread. They and the detector's arithmetic are most of the
  lines of the repository, which is why the models stand for a small share of them.
* Weaker memory than x86-64 for the relaxed fields of `AtomicConfigRequest`, and the wrap of a
  32-bit sequence within one read.
* Vendored code.

## 7. Plan

Done: `NoteDelivery`, `NoteLedger`, `ExchangeService`, `ConfigExchange`, `Vst3Component`, `AtomicSnapshot`,
`CalibrationTransport`, `TunerTelemetry`, `ConfigRequest`, `Seqlocks`, `MidiPipeline`, `ClapAdapter`, `StringSweep`,
`Calibration`, `DetectorLanes`, with the proofs of section 5. What would come next:

1. The CLAP adapter on `ExchangeService`, as the VST3 component is, with a refinement proof.
2. The detector's tuner snapshot, and the detector together with the ledger that takes its transitions.
3. State images as a pure algorithm: bounded reads, versions, all-or-nothing loads.
