---------------------------- MODULE Vst3Component ----------------------------
(***************************************************************************)
(* M3Component (native/vst3/vst3_component.cpp): how the VST3 plug-in      *)
(* carries a parameter edit from the main thread into process(), and what  *)
(* it does with the notes, the detector and the status meanwhile.          *)
(*                                                                         *)
(* The main thread prepares structural edits and publishes them; process() *)
(* learns of an edit from the host, stops all notes, and adopts the        *)
(* matching prepared configuration once every release is delivered.  A     *)
(* process() call is a run of steps between which the main thread may act. *)
(* Calls of the exchange and of the note ledger are one step each:         *)
(* ConfigExchange and NoteLedger model their inside.  The exception is a   *)
(* publication into a full exchange, which has to take a slot from the     *)
(* audio thread's reach: what it and the calls beside it may return shows  *)
(* in between.  The host calls setActive and setProcessing while no        *)
(* process() call runs, as VST3 asks.                                      *)
(*                                                                         *)
(* config_request_ is written with main_config_ and main_generation_ by    *)
(* the same thread and equals them.  Left out: the sample rate (constant   *)
(* while the exchange is initialised), calibration, tuner and dry audio.   *)
(***************************************************************************)
EXTENDS Integers, FiniteSets

CONSTANTS
  Parameters,     \* persistent parameters
  Structural,     \* those of update class structural; the others are runtime
  Values,         \* values a parameter may take
  NoChange,       \* a parameter the host's batch does not mention
  Notes,          \* identities of generated notes
  HostDoes,       \* what this instance's host does, see HostActs
  NumSlots,       \* kSlotCount (3)
  MaxEdits        \* bound: edits, state loads and panic requests of a behaviour

\* edit: an edit in the plug-in's editor; automate: the two halves of an edit on their
\* own; load: a state load; panic; refuse: process() calls the plug-in refuses; early:
\* those while it is not processing; degrade: unsupported layouts and non-finite input;
\* stop: setProcessing(false); cycle: setActive(false) and terminate.
HostActs == {"edit", "automate", "load", "panic", "refuse", "early", "degrade", "stop",
             "cycle"}

ASSUME ComponentAssumption ==
  /\ Structural \subseteq Parameters
  /\ Values # {} /\ NoChange \notin Values
  /\ HostDoes \subseteq HostActs
  /\ NumSlots \in Nat \ {0}
  /\ MaxEdits \in Nat

VARIABLES
  main,              \* main_config_ and config_request_
  main_generation,   \* main_generation_
  replacing,         \* publish_main_config: the publication that found no free slot
  ready,             \* exchange: published and neither claimed nor active
  claim,             \* prepared_claim_, NoClaim while not prepared_claim_pending_
  active_generation, \* active_generation_
  requested,         \* audio_requested_config_
  config,            \* active_config_
  pending,           \* pending_structural_config_
  boundary,          \* structural_boundary_pending_
  active,            \* active_
  processing,        \* processing_
  started,           \* processing_started_once_
  panic_requested,   \* panic_requested_
  status,            \* status_
  heard,             \* ledger: notes the host has on
  owed,              \* ledger: those with a pending release
  blocked,           \* ledger: output_blocked_
  cleanup,           \* ledger: cleanup_complete_
  hold,              \* ledger: panic_hold_ (and recovery_requested_)
  hold_calls,        \* ledger: hold_calls_remaining_
  voices,            \* detector: notes it has on
  stage,             \* process(): where the call is
  supported,         \* process(): the layout is supported
  finite,            \* process(): the input is finite
  queued,            \* host: the batch of the next process() call
  edits              \* host: edits made, up to MaxEdits

mainvars  == <<main, main_generation>>
exchange  == <<replacing, ready, claim, active_generation>>
configs   == <<requested, config, pending, boundary>>
lifecycle == <<active, processing, started>>
output    == <<heard, owed, blocked, cleanup>>
panic     == <<hold, hold_calls>>
call      == <<stage, supported, finite>>
host      == <<queued, edits>>
vars == <<mainvars, exchange, configs, lifecycle, panic_requested, status, output,
          panic, voices, call, host>>

-----------------------------------------------------------------------------
(* Data *)

Config    == [Parameters -> Values]
Prepared  == [generation : Nat, config : Config]
NoClaim   == [generation |-> -1]
Default   == CHOOSE c \in Config : TRUE      \* PersistentConfig{}
Changes   == [Parameters -> Values \cup {NoChange}]
NoChanges == [p \in Parameters |-> NoChange]

\* raced: the audio thread has called the exchange since the publication began.
Publication   == [config : Config, change : Changes, raced : BOOLEAN]
NoPublication == [raced |-> FALSE]

Ready == 0  PanicHold == 1  Reconfiguring == 2
MidiBlocked == 3  Invalid == 4  Unsupported == 5

Raised(s) == IF s > status THEN s ELSE status

StructuralEqual(c, d) == \A p \in Structural : c[p] = d[p]

CopyRuntime(to, from) == [p \in Parameters |-> IF p \in Structural THEN to[p] ELSE from[p]]

Oldest(S) == CHOOSE r \in S : \A q \in S : r.generation <= q.generation

\* The published configurations a claim may return.
NewerThan(g) == {r \in ready : r.generation > g}

\* A held claim goes back to the ready ones.
Cancelled == IF claim = NoClaim THEN ready ELSE ready \cup {claim}

\* Every slot is active, claimed or ready.
Full == Cardinality(ready) + (IF claim = NoClaim THEN 1 ELSE 2) >= NumSlots

\* A call of the exchange by the audio thread.
RacesPublication ==
  replacing' = IF replacing = NoPublication THEN replacing
               ELSE [replacing EXCEPT !.raced = TRUE]

-----------------------------------------------------------------------------
(* Ledger calls *)

\* enter_blocked with the notes of h still on.
EnterBlocked(h) ==
  heard' = h /\ owed' = h /\ blocked' = TRUE /\ cleanup' = FALSE

RequestRelease ==
  /\ owed' = heard
  /\ cleanup' = (cleanup /\ heard = {})
  /\ UNCHANGED <<heard, blocked>>

RequestRecovery == hold' = TRUE /\ hold_calls' = 1

\* Variant: the detector keeps its notes across a panic.
PanicRecoveryKeepsVoices == RequestRelease /\ RequestRecovery /\ UNCHANGED voices

\* request_panic_recovery: the detector forgets its notes where the ledger releases them.
PanicRecovery == RequestRelease /\ RequestRecovery /\ voices' = {}

-----------------------------------------------------------------------------
(* Main thread *)

Publishing == replacing # NoPublication

Queue(change) ==
  queued' = [p \in Parameters |-> IF change[p] = NoChange THEN queued[p] ELSE change[p]]

\* Variant: the new configuration keeps the number of the old one.
TakeOverUnnumbered(c, change) == main' = c /\ Queue(change) /\ UNCHANGED main_generation

\* publish_main_config succeeds with c; the editor then tells the host (performEdit).
TakeOver(c, change) ==
  /\ main' = c /\ main_generation' = main_generation + 1
  /\ Queue(change)

Numbered(c) == [generation |-> main_generation + 1, config |-> c]

\* publish_main_config: only a structural change of an active plug-in goes through the
\* exchange, which takes it at once while a slot is free.
PublishMainConfig(c, change) ==
  LET exchanged == active /\ ~StructuralEqual(c, main)
  IN  /\ ~Publishing
      /\ \/ /\ c = main
            /\ Queue(change)
            /\ UNCHANGED <<mainvars, replacing, ready>>
         \/ /\ c # main /\ ~(exchanged /\ Full)
            /\ TakeOver(c, change)
            /\ ready' = IF exchanged THEN ready \cup {Numbered(c)} ELSE ready
            /\ UNCHANGED replacing
         \/ /\ c # main /\ exchanged /\ Full
            /\ replacing' = [config |-> c, change |-> change, raced |-> FALSE]
            /\ UNCHANGED <<mainvars, ready, queued>>

Unheard == <<claim, active_generation, configs, lifecycle, panic_requested, status,
             output, panic, voices, call>>

\* What a publication into a full exchange takes the place of: the oldest ready one, or,
\* beside calls of the audio thread, any or a slot that came free.
Replaceable ==
  IF replacing.raced
  THEN {{r} : r \in ready} \cup {S \in {{}} : ~Full}
  ELSE {{r} : r \in {r \in ready : r = Oldest(ready)}}

ReplaceReady ==
  /\ Publishing
  /\ replacing' = NoPublication
  /\ TakeOver(replacing.config, replacing.change)
  /\ \E lost \in Replaceable : ready' = (ready \ lost) \cup {Numbered(replacing.config)}
  /\ UNCHANGED <<edits, Unheard>>

\* publish() found no ready slot, or lost the one it found in every attempt: the caller
\* of setParamNormalized or setState is told, and the host not.
PublishRefused ==
  /\ Publishing
  /\ replacing.raced \/ ready = {}
  /\ replacing' = NoPublication
  /\ UNCHANGED <<mainvars, ready, host, Unheard>>

Host(act) == act \in HostDoes

Count == edits < MaxEdits /\ edits' = edits + 1

SetParam(p, v, change) == PublishMainConfig([main EXCEPT ![p] = v], change)

\* apply_editor_value: setParamNormalized, then performEdit.
EditorEdit(p, v) ==
  /\ Host("edit") /\ Count
  /\ SetParam(p, v, [NoChanges EXCEPT ![p] = v])
  /\ UNCHANGED Unheard

\* A host that sends the two halves of an edit on its own, in any order.
HostSetParam(p, v) ==
  /\ Host("automate") /\ Count
  /\ SetParam(p, v, NoChanges)
  /\ UNCHANGED Unheard

HostQueues(p, v) ==
  /\ Host("automate") /\ Count
  /\ queued' = [queued EXCEPT ![p] = v]
  /\ UNCHANGED <<mainvars, replacing, ready, Unheard>>

SetState(c) ==
  /\ Host("load") /\ Count
  /\ PublishMainConfig(c, NoChanges)
  /\ UNCHANGED Unheard

RequestPanic ==
  /\ Host("panic") /\ Count
  /\ ~Publishing
  /\ panic_requested' = TRUE
  /\ UNCHANGED <<mainvars, exchange, configs, lifecycle, status, output, panic, voices,
                 call, queued>>

-----------------------------------------------------------------------------
(* setActive, setProcessing, terminate *)

Activate ==
  /\ stage = "idle" /\ ~active /\ ~Publishing
  /\ active' = TRUE
  /\ ready' = {} /\ claim' = NoClaim /\ active_generation' = main_generation
  /\ config' = main /\ requested' = main
  /\ boundary' = FALSE
  /\ voices' = {}
  /\ status' = IF hold THEN PanicHold ELSE Ready
  /\ UNCHANGED <<mainvars, replacing, pending, processing, started, panic_requested, output,
                 panic, call, host>>

Deactivate ==
  /\ Host("cycle")
  /\ stage = "idle" /\ active /\ ~processing /\ ~Publishing
  /\ active' = FALSE
  /\ ready' = {} /\ claim' = NoClaim /\ boundary' = FALSE
  /\ RequestRelease
  /\ UNCHANGED <<mainvars, replacing, active_generation, requested, config, pending,
                 processing, started, panic_requested, status, panic, voices, call, host>>

\* terminate and a new initialize: the ledger forgets what it owed.
Reinitialize ==
  /\ Host("cycle")
  /\ stage = "idle" /\ ~active /\ ~Publishing
  /\ main' = Default /\ main_generation' = 1
  /\ ready' = {} /\ claim' = NoClaim /\ active_generation' = 0
  /\ requested' = Default /\ config' = Default /\ pending' = Default
  /\ boundary' = FALSE
  /\ started' = FALSE /\ panic_requested' = FALSE
  /\ status' = Ready
  /\ heard' = {} /\ owed' = {} /\ blocked' = FALSE /\ cleanup' = FALSE
  /\ hold' = FALSE /\ hold_calls' = 0
  /\ voices' = {}
  /\ UNCHANGED <<replacing, active, processing, call, host>>

StartProcessing ==
  /\ stage = "idle" /\ active /\ ~processing
  /\ processing' = TRUE /\ started' = TRUE
  /\ voices' = {}
  /\ IF started \/ owed # {}
     THEN RequestRecovery /\ status' = Raised(PanicHold)
     ELSE UNCHANGED <<panic, status>>
  /\ UNCHANGED <<mainvars, exchange, configs, active, panic_requested, output, call, host>>

StopProcessing ==
  /\ Host("stop")
  /\ stage = "idle" /\ processing
  /\ processing' = FALSE
  /\ RequestRelease
  /\ RequestRecovery
  /\ voices' = {}
  /\ status' = Raised(PanicHold)
  /\ UNCHANGED <<mainvars, exchange, configs, active, started, panic_requested, call, host>>

-----------------------------------------------------------------------------
(* process(): the parameter batch *)

\* A call that is refused: not processing, a bad block size or sample format, an
\* invalid batch.  Its changes are lost.
RefusedCall ==
  /\ Host(IF processing THEN "refuse" ELSE "early")
  /\ stage = "idle"
  /\ queued' = NoChanges
  /\ EnterBlocked(heard)
  /\ status' = Raised(Invalid)
  /\ UNCHANGED <<mainvars, exchange, configs, lifecycle, panic_requested, panic, voices,
                 call, edits>>

\* The host's last values over the configuration process() was last given.
Candidate == [p \in Parameters |-> IF queued[p] = NoChange THEN requested[p] ELSE queued[p]]

BatchIsStructural == ~StructuralEqual(Candidate, requested)

ReadBatch(next) ==
  /\ stage = "idle" /\ processing
  /\ queued' = NoChanges
  /\ stage' = next
  /\ UNCHANGED <<mainvars, active_generation, lifecycle, panic_requested, status, panic,
                 supported, finite, edits>>

ApplyRuntime ==
  /\ ReadBatch("panic")
  /\ ~BatchIsStructural
  /\ requested' = CopyRuntime(requested, Candidate)
  /\ config' = CopyRuntime(config, Candidate)
  /\ UNCHANGED <<replacing, ready, claim, pending, boundary, output, voices>>

SameBoundary ==
  /\ ReadBatch("panic")
  /\ BatchIsStructural /\ boundary /\ pending = Candidate
  /\ UNCHANGED <<replacing, ready, claim, configs, output, voices>>

\* begin_structural_boundary, up to its claim.
BeginBoundary ==
  /\ ReadBatch("claim_early")
  /\ BatchIsStructural /\ ~(boundary /\ pending = Candidate)
  /\ ready' = Cancelled /\ claim' = NoClaim
  /\ IF claim = NoClaim THEN UNCHANGED replacing ELSE RacesPublication
  /\ pending' = Candidate /\ boundary' = TRUE
  /\ RequestRelease
  /\ voices' = {}
  /\ UNCHANGED <<requested, config>>

\* claim_latest: the newest configuration newer than the active one, or, beside a
\* publication that is taking a slot, an older one.
Claimable ==
  {r \in NewerThan(active_generation) :
     Publishing \/ \A q \in NewerThan(active_generation) : q.generation <= r.generation}

\* Variant: the newest is taken whatever its structural settings.
MatchingAny == Claimable

Matching == {r \in Claimable : StructuralEqual(r.config, pending)}

\* claim_matching_prepared_config, in three outcomes: a claim that matches is kept, ...
KeepClaim == \E r \in Matching : claim' = r /\ ready' = ready \ {r} /\ UNCHANGED status

\* ... one that does not is cancelled at once, ...
CancelClaim ==
  /\ Claimable \ Matching # {}
  /\ status' = Raised(Reconfiguring)
  /\ UNCHANGED <<ready, claim>>

\* ... or none is found.
FindNone ==
  /\ Publishing \/ Claimable = {}
  /\ ready' = NewerThan(active_generation)
  /\ status' = Raised(Reconfiguring)
  /\ UNCHANGED claim

ClaimPrepared ==
  /\ stage \in {"claim_early", "claim_late"}
  /\ stage' = IF stage = "claim_early" THEN "panic" ELSE "commit"
  /\ KeepClaim \/ CancelClaim \/ FindNone
  /\ RacesPublication
  /\ UNCHANGED <<mainvars, active_generation, configs, lifecycle, panic_requested, output,
                 panic, voices, supported, finite, host>>

-----------------------------------------------------------------------------
(* process(): panic, and a call without samples *)

\* in_batch: the batch itself holds a panic; the flag then stays for the next call.
HandlePanic(in_batch) ==
  /\ stage = "panic"
  /\ stage' = "samples"
  /\ IF in_batch \/ panic_requested
     THEN PanicRecovery
     ELSE UNCHANGED <<output, panic, voices>>
  /\ IF in_batch
     THEN Host("panic") /\ Count /\ UNCHANGED panic_requested
     ELSE panic_requested' = FALSE /\ UNCHANGED edits
  /\ UNCHANGED <<mainvars, exchange, configs, lifecycle, status, supported, finite, queued>>

NoSamples ==
  /\ stage = "samples"
  /\ stage' = "idle"
  /\ status' = IF boundary THEN Raised(Reconfiguring) ELSE status
  /\ UNCHANGED <<mainvars, exchange, configs, lifecycle, panic_requested, output, panic,
                 voices, supported, finite, host>>

-----------------------------------------------------------------------------
(* process_samples *)

SupportedLayout ==
  /\ stage = "samples"
  /\ stage' = "retry"
  /\ UNCHANGED <<mainvars, exchange, configs, lifecycle, panic_requested, status, output,
                 panic, voices, supported, finite, host>>

UnsupportedLayout ==
  /\ Host("degrade")
  /\ stage = "samples"
  /\ stage' = "retry" /\ supported' = FALSE
  /\ EnterBlocked(heard)
  /\ status' = Raised(Unsupported)
  /\ UNCHANGED <<mainvars, exchange, configs, lifecycle, panic_requested, panic, voices,
                 finite, host>>

\* Variant: a claim is tried only where the boundary begins.
AfterRetryNoLateClaim == IF supported THEN "commit" ELSE "finish"

AfterRetry ==
  IF ~supported THEN "finish"
  ELSE IF boundary /\ claim = NoClaim THEN "claim_late" ELSE "commit"

\* retry_pending_releases: the host takes the note-offs of R.
Retry(R) ==
  /\ stage = "retry"
  /\ stage' = AfterRetry
  /\ IF R = owed
     THEN /\ heard' = heard \ R /\ owed' = {} /\ cleanup' = TRUE
          /\ UNCHANGED <<blocked, status>>
     ELSE /\ EnterBlocked(heard \ R)
          /\ status' = Raised(MidiBlocked)
  /\ UNCHANGED <<mainvars, exchange, configs, lifecycle, panic_requested, panic, voices,
                 supported, finite, host>>

\* Variant: the boundary does not wait for the releases.
MayCommitEarly == boundary /\ claim # NoClaim

\* commit_prepared_config_if_released, once a claim was tried.
MayCommit == boundary /\ claim # NoClaim /\ owed = {}

Commit ==
  /\ stage = "commit" /\ MayCommit
  /\ stage' = "detect"
  /\ ready' = NewerThan(claim.generation)
  /\ active_generation' = claim.generation
  /\ claim' = NoClaim
  /\ RacesPublication
  /\ config' = CopyRuntime(claim.config, pending)
  /\ requested' = config'
  /\ boundary' = FALSE
  /\ voices' = {}
  /\ status' = IF status = Reconfiguring THEN Ready ELSE status
  /\ UNCHANGED <<mainvars, pending, lifecycle, panic_requested, output, panic, supported,
                 finite, host>>

NoCommit ==
  /\ stage = "commit" /\ ~MayCommit
  /\ stage' = "detect"
  /\ status' = IF boundary THEN Raised(Reconfiguring) ELSE status
  /\ UNCHANGED <<mainvars, exchange, configs, lifecycle, panic_requested, output, panic,
                 voices, supported, finite, host>>

NonFinite ==
  /\ Host("degrade")
  /\ stage = "detect"
  /\ stage' = "finish" /\ finite' = FALSE
  /\ EnterBlocked(heard)
  /\ status' = Raised(Invalid)
  /\ UNCHANGED <<mainvars, exchange, configs, lifecycle, panic_requested, panic, voices,
                 supported, host>>

DetectorAllowed == ~boundary /\ owed = {} /\ ~blocked /\ ~hold

NoDetection ==
  /\ stage = "detect" /\ ~DetectorAllowed
  /\ stage' = "finish"
  /\ UNCHANGED <<mainvars, exchange, configs, lifecycle, panic_requested, status, output,
                 panic, voices, supported, finite, host>>

\* The detector goes from voices to d; the events of the block reach the host, all of
\* them or, when one is refused or matches no note, those before it, notes that start
\* and end within the block among them.
Detect(d) ==
  /\ stage = "detect" /\ DetectorAllowed
  /\ stage' = "finish"
  /\ voices' = d
  /\ LET offs == voices \ d
         ons  == d \ voices
     IN \/ /\ offs \subseteq heard /\ ons \cap heard = {}
           /\ heard' = (heard \ offs) \cup ons
           /\ UNCHANGED <<owed, blocked, cleanup>>
        \/ \E h \in SUBSET Notes : EnterBlocked(h)
  /\ UNCHANGED <<mainvars, exchange, configs, lifecycle, panic_requested, status, panic,
                 supported, finite, host>>

\* Variant: a recovery needs an open output.
RecoversWhenOpen(quiet) ==
  hold /\ hold_calls = 0 /\ cleanup /\ finite /\ supported /\ quiet /\ ~blocked

Recovers(quiet) == hold /\ hold_calls = 0 /\ cleanup /\ finite /\ supported /\ quiet

\* Variant: a hold does not keep the status up.
DeliveredIgnoringHold(b, h) ==
  IF status \in {Unsupported, Invalid} THEN status
  ELSE IF b THEN Raised(MidiBlocked)
  ELSE IF status \in {MidiBlocked, PanicHold} THEN Ready
  ELSE status

\* update_delivery_status, for a ledger that answers b and h.
Delivered(b, h) ==
  IF status \in {Unsupported, Invalid} THEN status
  ELSE IF b THEN Raised(MidiBlocked)
  ELSE IF h THEN Raised(PanicHold)
  ELSE IF status \in {MidiBlocked, PanicHold} THEN Ready
  ELSE status

\* finish_hold, at the end of deliver_queued, and deliver_generated_notes.
Finish(quiet) ==
  /\ stage = "finish"
  /\ stage' = "idle" /\ supported' = TRUE /\ finite' = TRUE
  /\ hold' = (hold /\ ~Recovers(quiet))
  /\ blocked' = (blocked /\ ~Recovers(quiet))
  /\ cleanup' = (cleanup /\ ~Recovers(quiet))
  /\ hold_calls' = IF hold THEN 0 ELSE hold_calls
  /\ status' = Delivered(blocked', hold')
  /\ UNCHANGED <<mainvars, exchange, configs, lifecycle, panic_requested, heard, owed,
                 voices, host>>

-----------------------------------------------------------------------------
Init ==
  /\ main = Default /\ main_generation = 1
  /\ replacing = NoPublication
  /\ ready = {} /\ claim = NoClaim /\ active_generation = 0
  /\ requested = Default /\ config = Default /\ pending = Default
  /\ boundary = FALSE
  /\ active = FALSE /\ processing = FALSE /\ started = FALSE
  /\ panic_requested = FALSE
  /\ status = Ready
  /\ heard = {} /\ owed = {} /\ blocked = FALSE /\ cleanup = FALSE
  /\ hold = FALSE /\ hold_calls = 0
  /\ voices = {}
  /\ stage = "idle" /\ supported = TRUE /\ finite = TRUE
  /\ queued = NoChanges /\ edits = 0

Edits ==
  \/ \E p \in Parameters, v \in Values :
       EditorEdit(p, v) \/ HostSetParam(p, v) \/ HostQueues(p, v)
  \/ \E c \in Config : SetState(c)
  \/ RequestPanic

FinishPublish == ReplaceReady \/ PublishRefused

Lifecycle ==
  Activate \/ Deactivate \/ Reinitialize \/ StartProcessing \/ StopProcessing

StartCall == ApplyRuntime \/ SameBoundary \/ BeginBoundary

ProcessCall ==
  \/ ClaimPrepared \/ \E in_batch \in BOOLEAN : HandlePanic(in_batch)
  \/ NoSamples \/ SupportedLayout \/ UnsupportedLayout
  \/ \E R \in SUBSET owed : Retry(R)
  \/ Commit \/ NoCommit
  \/ NonFinite \/ NoDetection \/ \E d \in SUBSET Notes : Detect(d)
  \/ \E quiet \in BOOLEAN : Finish(quiet)

Next == Edits \/ FinishPublish \/ Lifecycle \/ RefusedCall \/ StartCall \/ ProcessCall

Spec == Init /\ [][Next]_vars

\* publish() returns.  While processing the host keeps calling process(), every call
\* returns, calls with samples in a supported layout and finite input keep coming, the
\* host takes owed note-offs in the end, and the input is quiet again and again.
Fairness ==
  /\ WF_vars(FinishPublish) /\ WF_vars(StartCall) /\ WF_vars(ProcessCall)
  /\ SF_vars(SupportedLayout) /\ SF_vars(Retry(owed)) /\ SF_vars(NoDetection)
  /\ SF_vars(Recovers(TRUE) /\ Finish(TRUE))

FairSpec == Spec /\ Fairness

-----------------------------------------------------------------------------
(* Properties *)

ConfigOK ==
  /\ main \in Config /\ main_generation \in Nat \ {0}
  /\ ready \subseteq Prepared /\ claim \in Prepared \cup {NoClaim}
  /\ replacing \in Publication \cup {NoPublication}
  /\ active_generation \in Nat
  /\ requested \in Config /\ config \in Config /\ pending \in Config
  /\ boundary \in BOOLEAN

OutputOK ==
  /\ status \in Ready .. Unsupported
  /\ heard \subseteq Notes /\ owed \subseteq heard /\ voices \subseteq Notes
  /\ blocked \in BOOLEAN /\ cleanup \in BOOLEAN
  /\ hold \in BOOLEAN /\ hold_calls \in {0, 1}

CallOK ==
  /\ active \in BOOLEAN /\ processing \in BOOLEAN /\ started \in BOOLEAN
  /\ panic_requested \in BOOLEAN
  /\ stage \in {"idle", "claim_early", "panic", "samples", "retry", "claim_late",
                "commit", "detect", "finish"}
  /\ supported \in BOOLEAN /\ finite \in BOOLEAN
  /\ queued \in [Parameters -> Values \cup {NoChange}]
  /\ edits \in 0 .. MaxEdits

\* Every variable holds what its C++ type and the code's own bounds allow.
TypeOK == ConfigOK /\ OutputOK /\ CallOK

\* The detector's notes are the host's whenever it may run: no boundary, panic, stop,
\* failure or restart leaves it with a note the ledger has already released, whose
\* note-off would block the output, or without one the host still has on.
DetectorInStep == DetectorAllowed => voices = heard

\* While the plug-in is active a structural setting (the MIDI channel, the routing)
\* changes only when no note of the old settings sounds any more.
SilentSwap ==
  [][active /\ active' /\ ~StructuralEqual(config', config) => heard = {} /\ heard' = {}]_vars

\* A claim held across calls still fits when it is committed: newer than the active
\* configuration, and structurally what the pending boundary asked for.
ClaimFits ==
  claim # NoClaim => /\ boundary /\ active
                     /\ claim.generation > active_generation
                     /\ StructuralEqual(claim.config, pending)

\* Every configuration is published with a number of its own, and no edit has a number
\* past this one.
Generations == 0 .. MaxEdits + 1

Service == INSTANCE ExchangeService
             WITH None <- -1, open <- active, waiting <- {r.generation : r \in ready},
                  held <- claim.generation,
                  active <- IF active THEN active_generation ELSE 0

\* Through edits, blocks, refusals and restarts the component sees of the exchange, and
\* asks of it, only what the exchange promises: it publishes under growing numbers,
\* claims what it published and nothing twice, and gives back or commits what it holds.
FollowsService == Service!Spec

\* A call with samples never ends in Ready with the output blocked or a panic hold on,
\* whatever a commit or a recovery did to the status on the way.
ReadyMeansOpen ==
  [][stage = "finish" /\ stage' = "idle" /\ status' = Ready => ~blocked' /\ ~hold']_vars

\* A boundary whose configuration the main thread has prepared does not last.
MatchedBoundaryEnds ==
  ~<>[](processing /\ boundary /\ StructuralEqual(pending, main))

\* A panic hold ends, however often the host refused note-offs before.
HoldEnds == <>[]processing => []<>~hold

\* Edits made in the editor reach the detector: the latest structural request wins.
LatestRequestWins ==
  <>[](processing /\ queued = NoChanges) => []<>StructuralEqual(config, main)

\* A runtime edit takes effect at the boundary of the call that brings it, and stays.
RuntimeEditsStay ==
  stage = "idle" /\ processing /\ ~boundary /\ queued = NoChanges =>
    \A p \in Parameters \ Structural : config[p] = main[p]
=============================================================================
