------------------------------ MODULE ClapAdapter ------------------------------
(***************************************************************************)
(* The CLAP adapter (native/plugin/clap_adapter.cpp): how a parameter      *)
(* event, a state load, a panic or a lifecycle call travels between the    *)
(* main and the audio thread, and what becomes of the notes and the        *)
(* status on the way.                                                      *)
(*                                                                         *)
(* A call is a run of steps between the accesses the threads share, so     *)
(* that the other thread may act there.  Calls of AtomicConfigRequest and  *)
(* of the exchange are one step (ConfigRequest and ConfigExchange model    *)
(* their inside) that may fail only while the other thread is in a call.   *)
(* MidiPipeline is a record whose process() is one step.  The adapter has  *)
(* no detector: its notes are those the probe build queues.  A stored      *)
(* configuration is valid, so preparing one never fails, and a claim once  *)
(* taken always commits.                                                   *)
(***************************************************************************)
EXTENDS Integers

CONSTANTS
  Parameters,     \* persistent parameters
  Structural,     \* those of update class structural
  Values,         \* values a parameter may take
  Default,        \* PersistentConfig{}
  Requests,       \* configurations a host asks for
  Hosts,          \* what a host may do: each is a set of HostActs
  MaxEdits,       \* bound: parameter events, state loads and panics of a behaviour
  MaxGeneration   \* bound: an audio publication is lost by chance only below this generation

\* edit: parameter events; load: state loads; panic; notes: generated notes; refuse:
\* output events; degrade: unsupported layouts, bad input; reset; stop: stop_processing;
\* cycle: deactivate.
HostActs == {"edit", "load", "panic", "notes", "refuse", "degrade", "reset", "stop", "cycle"}

Config == [Parameters -> Values]

ASSUME AdapterAssumption ==
  /\ Structural \subseteq Parameters
  /\ Default \in Config /\ Requests \subseteq Config
  /\ Hosts \subseteq SUBSET HostActs
  /\ MaxEdits \in Nat /\ MaxGeneration \in Nat

VARIABLES
  lifecycle,         \* lifecycle
  counter,           \* generation_counter
  request,           \* config_request
  main,              \* main_config and main_generation
  audio,             \* audio_requested_config and audio_request_generation
  unpublished,       \* audio_publication_pending
  unpublished_structural, \* pending_audio_structural
  prepared_pending,  \* pending_prepared, Nothing while nothing is to be published
  prepared,          \* exchange: the newest published, Nothing once claimed
  active,            \* active_config, and the exchange's active generation
  requested,         \* requested_structural_generation
  reconfiguring,     \* reconfiguration_pending
  releasing,         \* release_channel_pending
  panic_requested,   \* panic_requested
  status,            \* status
  dirty,             \* values_dirty
  callback,          \* host: request_callback was called
  pipe,              \* midi_pipeline, see Pipe
  a_stage,           \* audio thread: the call in progress, and where it is
  a_flush,           \* audio thread: it is params_flush
  a_structural,      \* publish_audio_config: structural
  a_generation,      \* publish_audio_config: generation, or the one adopted
  a_target,          \* publish_runtime_status: target
  m_stage,           \* main thread: the call in progress, and where it is
  m_config,          \* state_load: candidate
  m_generation,      \* state_load: generation
  m_attempt,         \* state_load: attempt; on_main_thread: 0 snapshot lost, 2 staged
  host,              \* host: what it does, one of Hosts
  edits              \* host: edits made

configs == <<counter, request, main, audio, unpublished, unpublished_structural>>
exchange == <<prepared_pending, prepared, active, requested, reconfiguring>>
signals == <<panic_requested, status, dirty, callback>>
a_call  == <<a_stage, a_flush, a_structural, a_generation, a_target>>
m_call  == <<m_stage, m_config, m_generation, m_attempt>>
bounds == <<host, edits>>
vars == <<lifecycle, configs, exchange, releasing, signals, pipe, a_call, m_call, bounds>>

-----------------------------------------------------------------------------
(* Data *)

Tagged   == [config : Config, generation : Nat]
Nothing  == [generation |-> 0]
First    == [config |-> Default, generation |-> 1]

StructuralEqual(c, d) == \A p \in Structural : c[p] = d[p]
StructuralPart(c)     == [p \in Structural |-> c[p]]

\* Status, in order of priority.
Ready == 0
PanicHold == 1
Reconfiguring == 2
MidiBlocked == 3
Invalid == 4
Unsupported == 5

Host(act) == act \in host
Count     == edits < MaxEdits /\ edits' = edits + 1 /\ UNCHANGED host

Running == lifecycle \in {"active", "processing"}

\* mark_values_dirty
MarkDirty == dirty' = TRUE /\ callback' = (callback \/ ~dirty)

\* latch_status: only upwards, and the host hears of a change.
Latch(s) ==
  IF s > status THEN status' = s /\ MarkDirty ELSE UNCHANGED <<status, dirty, callback>>

\* A call of the shared register or of the exchange may lose to one of the other thread.
Publishing      == a_stage \in {"sync_publish", "edit_publish"}
MainPublishing  == m_stage = "load_publish"
MainPreparing   == m_stage \in {"load_prepare", "prepare"}
MayClaim ==
  ~a_flush /\ ~releasing /\ prepared # Nothing /\ prepared.generation > active.generation
Claiming        == a_stage = "claim" /\ MayClaim

-----------------------------------------------------------------------------
(* MidiPipeline, whole calls.  A note is named by the structural settings it was *)
(* started under, which its channel comes from.                                  *)

Notes == [Structural -> Values]
Pipe  == [heard : SUBSET Notes, owed : SUBSET Notes, stops : SUBSET Notes,
          blocked : BOOLEAN, cleanup : BOOLEAN, hold : BOOLEAN, calls : {0, 1},
          panics : BOOLEAN]

Fresh == [heard |-> {}, owed |-> {}, stops |-> {}, blocked |-> FALSE,
          cleanup |-> FALSE, hold |-> FALSE, calls |-> 0, panics |-> FALSE]

\* Variant: the notes that sound are not released.
ResetPipeHoldOnly(p) == [p EXCEPT !.hold = TRUE, !.calls = 1]

\* request_reset
ResetPipe(p) ==
  [p EXCEPT !.owed = p.heard, !.cleanup = p.cleanup /\ p.heard = {},
            !.hold = TRUE, !.calls = 1]

\* enter_output_blocked, h still on.
BlockedPipe(p, h) ==
  [p EXCEPT !.heard = h, !.owed = h, !.blocked = TRUE, !.cleanup = FALSE, !.panics = TRUE]

\* request_panic: a note-off for every sounding note, owed ones too, or everything is owed.
PanickedPipe(p) ==
  LET r == [p EXCEPT !.hold = TRUE, !.calls = 1] IN
  {[r EXCEPT !.stops = p.heard], BlockedPipe(r, p.heard)}

\* The outcomes of S in which the host refuses an event.
Refused(S) == IF Host("refuse") THEN S ELSE {}

\* retry_pending_releases: all owed notes go, or the host takes some and refuses one.
Retried(p) ==
  {[p EXCEPT !.heard = p.heard \ p.owed, !.owed = {}, !.cleanup = TRUE]}
  \cup Refused({BlockedPipe(p, p.heard \ R) : R \in (SUBSET p.owed) \ {p.owed}})

\* The note-on of a trigger; the probe plays one note.
NewNotes(p) ==
  IF Host("notes") /\ ~p.hold /\ p.heard = {} THEN {{}, {StructuralPart(active.config)}}
  ELSE {{}}

\* A trigger fails: its note already sounds, or was held back when its note-off comes.
Misplaced(p) ==
  IF Host("notes") /\ (p.hold \/ p.heard # {})
  THEN {BlockedPipe(p, p.heard \ o) : o \in SUBSET p.stops} ELSE {}

\* The block's own events.  A note-off for a note the retry has just released fails.
Played(p) ==
  IF p.owed # {} \/ p.blocked THEN {p}
  ELSE IF p.stops \ p.heard # {}
  THEN {BlockedPipe(p, p.heard \ o) : o \in SUBSET (p.stops \cap p.heard)}
  ELSE {[p EXCEPT !.heard = (p.heard \ p.stops) \cup n] : n \in NewNotes(p)}
       \cup Misplaced(p)
       \cup Refused({BlockedPipe(p, (p.heard \ o) \cup n) : o \in SUBSET p.stops,
                                                            n \in NewNotes(p)})

Recovers(p, quiet) == p.hold /\ p.calls = 0 /\ p.cleanup /\ quiet

\* finish_hold; a pipeline that stays blocked owes the route's panics.
Finished(p, quiet) ==
  IF Recovers(p, quiet)
  THEN [p EXCEPT !.hold = FALSE, !.blocked = FALSE, !.cleanup = FALSE, !.stops = {}]
  ELSE [p EXCEPT !.calls = 0, !.stops = {}, !.panics = p.panics \/ p.blocked]

\* The channel panics, if some were owed before the call, are sent.
Silenced(p, owed_before) ==
  IF p.panics /\ owed_before /\ p.owed = {}
  THEN {[p EXCEPT !.panics = FALSE]} \cup Refused({BlockedPipe(p, p.heard)}) ELSE {p}

\* MidiPipeline::process; at its end the host's own MIDI may be refused.
Processed(p, quiet) ==
  LET generated == UNION {Played(x) : x \in Retried(p)}
      silenced  == UNION {Silenced(Finished(y, quiet), p.panics) : y \in generated}
  IN  silenced \cup Refused({BlockedPipe(z, z.heard) : z \in silenced})

CleanupPending(p) == p.panics \/ p.owed # {}

-----------------------------------------------------------------------------
(* Lifecycle: the host calls these while no other call runs *)

Quiet == a_stage = "idle" /\ m_stage = "idle"

\* plugin_activate; start_processing is a call of its own.
Activate ==
  /\ Quiet /\ lifecycle = "initialized"
  /\ lifecycle' = "active"
  /\ main' = request /\ audio' = request /\ active' = request
  /\ requested' = request.generation /\ reconfiguring' = FALSE
  /\ prepared' = Nothing /\ prepared_pending' = Nothing
  /\ unpublished' = FALSE /\ unpublished_structural' = FALSE
  /\ releasing' = FALSE
  /\ status' = Ready
  /\ pipe' = Fresh
  /\ UNCHANGED <<counter, request, panic_requested, dirty, callback, a_call, m_call, bounds>>

\* plugin_deactivate: an edit the audio thread has not published is dropped.
Deactivate ==
  /\ Host("cycle")
  /\ Quiet /\ lifecycle = "active"
  /\ lifecycle' = "initialized"
  /\ main' = IF request.generation > main.generation THEN request ELSE main
  /\ prepared' = Nothing /\ prepared_pending' = Nothing
  /\ unpublished' = FALSE /\ unpublished_structural' = FALSE
  /\ releasing' = FALSE /\ reconfiguring' = FALSE
  /\ pipe' = Fresh
  /\ UNCHANGED <<counter, request, audio, active, requested, signals, a_call, m_call, bounds>>

StartProcessing ==
  /\ a_stage = "idle" /\ lifecycle = "active"
  /\ lifecycle' = "processing"
  /\ UNCHANGED <<configs, exchange, releasing, signals, pipe, a_call, m_call, bounds>>

StopProcessing ==
  /\ Host("stop")
  /\ a_stage = "idle" /\ lifecycle = "processing"
  /\ lifecycle' = "active"
  /\ UNCHANGED <<configs, exchange, releasing, signals, pipe, a_call, m_call, bounds>>

\* Variant: the reset is not shown.
ResetSilently ==
  /\ Host("reset") /\ Count
  /\ a_stage = "idle" /\ Running
  /\ pipe' = ResetPipe(pipe)
  /\ UNCHANGED <<lifecycle, configs, exchange, releasing, signals, a_call, m_call>>

\* plugin_reset
Reset ==
  /\ Host("reset") /\ Count
  /\ a_stage = "idle" /\ Running
  /\ pipe' = ResetPipe(pipe)
  /\ Latch(PanicHold)
  /\ UNCHANGED <<lifecycle, configs, exchange, releasing, panic_requested, a_call, m_call>>

-----------------------------------------------------------------------------
(* Audio thread: process and the active params_flush, up to the claim *)

\* next_generation, on the audio thread.
TakeGeneration == counter' = counter + 1 /\ a_generation' = counter + 1

\* The call begins with synchronize_audio_request: what the last call could not
\* publish comes first.
BeginCall(flush) ==
  /\ a_stage = "idle" /\ Running
  /\ IF flush THEN Host("edit") /\ edits < MaxEdits ELSE lifecycle = "processing"
  /\ a_flush' = flush
  /\ IF unpublished
     THEN TakeGeneration /\ a_stage' = "sync_publish"
     ELSE a_stage' = "snapshot" /\ UNCHANGED <<counter, a_generation>>
  /\ a_structural' = (unpublished /\ unpublished_structural)
  /\ UNCHANGED <<lifecycle, request, main, audio, unpublished, unpublished_structural,
                 exchange, releasing, signals, pipe, a_target, m_call, bounds>>

\* publish_audio_config
Publish ==
  /\ Publishing
  /\ a_generation > request.generation
  /\ request' = [audio EXCEPT !.generation = a_generation]
  /\ audio' = request'
  /\ unpublished' = FALSE
  /\ a_structural' = (a_structural \/ unpublished_structural)
  /\ unpublished_structural' = FALSE
  /\ a_stage' = IF a_stage = "sync_publish" THEN "sync_record" ELSE "edit_record"
  /\ UNCHANGED <<lifecycle, counter, main, exchange, releasing, signals, pipe, a_flush,
                 a_generation, a_target, m_call, bounds>>

\* Variant: the generation counts although nothing was published.
PublishFailsCounted ==
  /\ Publishing
  /\ \/ a_generation <= request.generation
     \/ MainPublishing /\ counter < MaxGeneration
  /\ unpublished' = FALSE
  /\ audio' = [audio EXCEPT !.generation = a_generation]
  /\ unpublished_structural' = FALSE
  /\ a_stage' = IF a_stage = "sync_publish" THEN "claim" ELSE "panic"
  /\ UNCHANGED <<lifecycle, counter, request, main, exchange, releasing, signals, pipe,
                 a_flush, a_structural, a_generation, a_target, m_call, bounds>>

\* The main thread is publishing, or has published a later generation.
PublishFails ==
  /\ Publishing
  /\ \/ a_generation <= request.generation
     \/ MainPublishing /\ counter < MaxGeneration
  /\ unpublished' = TRUE
  /\ unpublished_structural' = (unpublished_structural \/ a_structural)
  /\ a_stage' = IF a_stage = "sync_publish" THEN "claim" ELSE "panic"
  /\ UNCHANGED <<lifecycle, counter, request, main, audio, exchange, releasing, signals,
                 pipe, a_flush, a_structural, a_generation, a_target, m_call, bounds>>

RecordPublication ==
  /\ a_stage \in {"sync_record", "edit_record"}
  /\ IF a_structural
     THEN requested' = a_generation /\ reconfiguring' = TRUE
     ELSE UNCHANGED <<requested, reconfiguring>>
  /\ status' = IF a_structural /\ status < Reconfiguring THEN Reconfiguring ELSE status
  /\ MarkDirty
  /\ a_stage' = IF a_stage = "sync_record" THEN "snapshot" ELSE "panic"
  /\ UNCHANGED <<lifecycle, configs, prepared_pending, prepared, active, releasing,
                 panic_requested, pipe, a_flush, a_structural, a_generation, a_target,
                 m_call, bounds>>

\* The main thread's requests are taken over; a snapshot may be lost to its publishing.
Snapshot ==
  /\ a_stage = "snapshot"
  /\ \/ audio' = IF request.generation > audio.generation THEN request ELSE audio
     \/ MainPublishing /\ UNCHANGED audio
  /\ a_stage' = "claim"
  /\ UNCHANGED <<lifecycle, counter, request, main, unpublished, unpublished_structural,
                 exchange, releasing, signals, pipe, a_flush, a_structural, a_generation,
                 a_target, m_call, bounds>>

-----------------------------------------------------------------------------
(* Audio thread: adoption *)

Claim ==
  /\ Claiming
  /\ active' = [config |-> [p \in Parameters |-> IF p \in Structural THEN prepared.config[p]
                                                 ELSE active.config[p]],
                generation |-> prepared.generation]
  /\ prepared' = Nothing
  /\ releasing' = TRUE
  /\ pipe' = ResetPipe(pipe)
  /\ a_generation' = prepared.generation
  /\ a_stage' = "adopted"
  /\ UNCHANGED <<lifecycle, configs, prepared_pending, requested, reconfiguring, signals,
                 a_flush, a_structural, a_target, m_call, bounds>>

NoClaim ==
  /\ a_stage = "claim"
  /\ ~MayClaim \/ MainPreparing
  /\ a_stage' = "edit"
  /\ UNCHANGED <<lifecycle, configs, exchange, releasing, signals, pipe, a_flush,
                 a_structural, a_generation, a_target, m_call, bounds>>

\* Is the adopted generation the last one asked for?
CompareAdopted ==
  /\ a_stage = "adopted"
  /\ a_stage' = IF requested > a_generation THEN "edit" ELSE "clear"
  /\ UNCHANGED <<lifecycle, configs, exchange, releasing, signals, pipe, a_flush,
                 a_structural, a_generation, a_target, m_call, bounds>>

ClearReconfiguration ==
  /\ a_stage = "clear"
  /\ reconfiguring' = FALSE
  /\ a_stage' = "edit"
  /\ UNCHANGED <<lifecycle, configs, prepared_pending, prepared, active, requested,
                 releasing, signals, pipe, a_flush, a_structural, a_generation, a_target,
                 m_call, bounds>>

-----------------------------------------------------------------------------
(* Audio thread: the call's own events, and the notes *)

\* apply_parameter_events: the batch changes a parameter, or changes it back.
Edit(c) ==
  /\ Host("edit") /\ Count
  /\ a_stage = "edit"
  /\ audio' = [audio EXCEPT !.config = c]
  /\ TakeGeneration
  /\ a_structural' \in {b \in BOOLEAN : StructuralEqual(c, audio.config) \/ b}
  /\ a_stage' = "edit_publish"
  /\ UNCHANGED <<lifecycle, request, main, unpublished, unpublished_structural, exchange,
                 releasing, signals, pipe, a_flush, a_target, m_call>>

\* accept_panic
EditPanic ==
  /\ Host("panic") /\ Count
  /\ a_stage = "edit"
  /\ panic_requested' = TRUE
  /\ MarkDirty
  /\ UNCHANGED <<lifecycle, configs, exchange, releasing, status, pipe, a_call, m_call>>

\* The events are read.
Read == a_stage \in {"edit", "panic"}

\* The locals of a call go with it.
AudioForgets ==
  a_flush' = FALSE /\ a_structural' = FALSE /\ a_generation' = 1

FlushReturns ==
  /\ Read /\ a_flush
  /\ a_stage' = "idle" /\ AudioForgets
  /\ UNCHANGED <<lifecycle, configs, exchange, releasing, signals, pipe, a_target, m_call,
                 bounds>>

TakePanic ==
  /\ Read /\ ~a_flush
  /\ panic_requested' = FALSE
  /\ pipe' \in IF panic_requested THEN PanickedPipe(pipe) ELSE {pipe}
  /\ a_stage' = "deliver" /\ AudioForgets
  /\ UNCHANGED <<lifecycle, configs, exchange, releasing, status, dirty, callback,
                 a_target, m_call, bounds>>

\* What the block is latched as: an unsupported layout, a bad sample or event.
Faults == IF Host("degrade") THEN {Ready, Invalid, Unsupported} ELSE {Ready}

Target(p) ==
  IF p.blocked THEN MidiBlocked
  ELSE IF reconfiguring THEN Reconfiguring
  ELSE IF p.hold THEN PanicHold ELSE Ready

\* The pipeline's process(), and publish_runtime_status up to its store.
Deliver ==
  /\ a_stage = "deliver"
  /\ \E fault \in Faults, quiet \in BOOLEAN :
       /\ fault = Unsupported => ~quiet
       /\ pipe' \in Processed(pipe, quiet)
       /\ Latch(fault)
  /\ releasing' = (releasing /\ CleanupPending(pipe'))
  /\ IF status' \in {Invalid, Unsupported}
     THEN a_stage' = "idle" /\ UNCHANGED a_target
     ELSE a_stage' = "status_store" /\ a_target' = Target(pipe')
  /\ UNCHANGED <<lifecycle, configs, exchange, panic_requested, a_flush, a_structural,
                 a_generation, m_call, bounds>>

StoreStatus ==
  /\ a_stage = "status_store"
  /\ status' = a_target
  /\ IF status # a_target THEN MarkDirty ELSE UNCHANGED <<dirty, callback>>
  /\ a_stage' = "idle" /\ a_target' = Ready
  /\ UNCHANGED <<lifecycle, configs, exchange, releasing, panic_requested, pipe, a_flush,
                 a_structural, a_generation, m_call, bounds>>

-----------------------------------------------------------------------------
(* Main thread: state_load and the inactive params_flush *)

\* next_generation, on the main thread.
LoadGeneration == counter' = counter + 1 /\ m_generation' = counter + 1

LoadState(c) ==
  /\ Host("load") /\ Count
  /\ m_stage = "idle"
  /\ m_config' = c
  /\ m_attempt' = 1
  /\ LoadGeneration
  /\ m_stage' = "load_publish"
  /\ UNCHANGED <<lifecycle, request, main, audio, unpublished, unpublished_structural,
                 exchange, releasing, signals, pipe, a_call>>

\* The locals of a call go with it.
MainForgets == m_config' = Default /\ m_generation' = 1 /\ m_attempt' = 1

LoadPublish ==
  /\ MainPublishing
  /\ m_generation > request.generation
  /\ request' = [config |-> m_config, generation |-> m_generation]
  /\ m_stage' = "load_record"
  /\ UNCHANGED <<lifecycle, counter, main, audio, unpublished, unpublished_structural,
                 exchange, releasing, signals, pipe, a_call, m_config, m_generation,
                 m_attempt, bounds>>

LoadLoses == m_generation <= request.generation \/ Publishing

\* Three attempts, then the load is refused.
LoadPublishFails ==
  /\ MainPublishing /\ LoadLoses
  /\ IF m_attempt < 3
     THEN LoadGeneration /\ m_attempt' = m_attempt + 1 /\ UNCHANGED <<m_stage, m_config>>
     ELSE m_stage' = "idle" /\ MainForgets /\ UNCHANGED counter
  /\ UNCHANGED <<lifecycle, request, main, audio, unpublished, unpublished_structural,
                 exchange, releasing, signals, pipe, a_call, bounds>>

LoadRecord ==
  /\ m_stage = "load_record"
  /\ main' = [config |-> m_config, generation |-> m_generation]
  /\ panic_requested' = FALSE
  /\ IF Running
     THEN /\ requested' = m_generation /\ reconfiguring' = TRUE
          /\ prepared_pending' = main'
          /\ m_stage' = "load_prepare"
          /\ UNCHANGED status
     ELSE /\ status' = Ready
          /\ m_stage' = "idle"
          /\ UNCHANGED <<requested, reconfiguring, prepared_pending>>
  /\ MainForgets
  /\ UNCHANGED <<lifecycle, counter, request, audio, unpublished, unpublished_structural,
                 prepared, active, releasing, dirty, callback, pipe, a_call, bounds>>

\* The exchange takes what is pending, or loses to a claim.
PublishPrepared == prepared' = prepared_pending /\ prepared_pending' = Nothing
KeepPrepared    == Claiming /\ UNCHANGED <<prepared, prepared_pending>>

LoadPrepare ==
  /\ m_stage = "load_prepare"
  /\ status' = IF status < Reconfiguring THEN Reconfiguring ELSE status
  /\ \/ /\ PublishPrepared
        /\ IF status' # status THEN MarkDirty ELSE UNCHANGED <<dirty, callback>>
     \/ KeepPrepared /\ MarkDirty
  /\ m_stage' = "idle"
  /\ UNCHANGED <<lifecycle, configs, active, requested, reconfiguring, releasing,
                 panic_requested, pipe, a_call, m_config, m_generation, m_attempt, bounds>>

\* apply_inactive_parameter_events; nothing runs that it could lose to.
InactiveEdit(c) ==
  /\ Host("edit") /\ Count
  /\ Quiet /\ lifecycle = "initialized"
  /\ counter' = counter + 1
  /\ request' = [config |-> c, generation |-> counter + 1]
  /\ main' = request'
  /\ UNCHANGED <<lifecycle, audio, unpublished, unpublished_structural, exchange,
                 releasing, signals, pipe, a_call, m_call>>

InactivePanic ==
  /\ Host("panic") /\ Count
  /\ Quiet /\ lifecycle = "initialized"
  /\ panic_requested' = TRUE
  /\ MarkDirty
  /\ UNCHANGED <<lifecycle, configs, exchange, releasing, status, pipe, a_call, m_call>>

-----------------------------------------------------------------------------
(* Main thread: on_main_thread, which the host calls once it was asked to *)

OnMainThread ==
  /\ m_stage = "idle" /\ callback
  /\ callback' = FALSE /\ dirty' = FALSE
  /\ m_stage' = "snapshot"
  /\ UNCHANGED <<lifecycle, configs, exchange, releasing, panic_requested, status, pipe,
                 a_call, m_config, m_generation, m_attempt, bounds>>

\* config_request.snapshot(snapshot)
MainSnapshot ==
  /\ m_stage = "snapshot"
  /\ m_config' = request.config /\ m_generation' = request.generation
  /\ m_stage' = "record"
  /\ UNCHANGED <<lifecycle, configs, exchange, releasing, signals, pipe, a_call,
                 m_attempt, bounds>>

\* Lost to a publication: the host is asked for another call at the end of this one.
MainSnapshotFails ==
  /\ m_stage = "snapshot" /\ Publishing
  /\ m_attempt' = 0
  /\ m_stage' = "prepare"
  /\ UNCHANGED <<lifecycle, configs, exchange, releasing, signals, pipe, a_call,
                 m_config, m_generation, bounds>>

Restage == Running /\ ~StructuralEqual(main.config, m_config)

MainRecord ==
  /\ m_stage = "record"
  /\ IF m_generation <= main.generation
     THEN UNCHANGED <<main, requested, reconfiguring, prepared_pending, status, dirty, callback>>
     ELSE /\ main' = [config |-> m_config, generation |-> m_generation]
          /\ IF Restage
             THEN /\ requested' = m_generation /\ reconfiguring' = TRUE
                  /\ prepared_pending' = main'
                  /\ Latch(Reconfiguring)
             ELSE UNCHANGED <<requested, reconfiguring, prepared_pending, status, dirty, callback>>
  /\ m_attempt' = IF prepared_pending' # prepared_pending THEN 2 ELSE 1
  /\ m_config' = Default /\ m_generation' = 1
  /\ m_stage' = "prepare"
  /\ UNCHANGED <<lifecycle, counter, request, audio, unpublished, unpublished_structural,
                 prepared, active, releasing, panic_requested, pipe, a_call, bounds>>

\* The snapshot was lost, or the first of the two calls of publish.
LostBefore == m_attempt = 0 \/ (m_attempt = 2 /\ Claiming)

\* Variant: what could not be published is not tried again.
MainPrepareOnce ==
  /\ m_stage = "prepare"
  /\ IF prepared_pending = Nothing
     THEN UNCHANGED <<prepared, prepared_pending, dirty, callback>>
     ELSE (PublishPrepared \/ KeepPrepared) /\ UNCHANGED <<dirty, callback>>
  /\ m_stage' = "idle" /\ MainForgets
  /\ UNCHANGED <<lifecycle, configs, active, requested, reconfiguring, releasing, status,
                 panic_requested, pipe, a_call, bounds>>

\* The rest of the call: publish what is prepared, ask again for what failed.
MainPrepare ==
  /\ m_stage = "prepare"
  /\ IF prepared_pending = Nothing
     THEN /\ UNCHANGED <<prepared, prepared_pending>>
          /\ IF m_attempt = 0 THEN MarkDirty ELSE UNCHANGED <<dirty, callback>>
     ELSE \/ PublishPrepared /\ m_attempt # 0 /\ UNCHANGED <<dirty, callback>>
          \/ PublishPrepared /\ LostBefore /\ MarkDirty
          \/ KeepPrepared /\ MarkDirty
  /\ m_stage' = "idle" /\ MainForgets
  /\ UNCHANGED <<lifecycle, configs, active, requested, reconfiguring, releasing, status,
                 panic_requested, pipe, a_call, bounds>>

-----------------------------------------------------------------------------
Init ==
  /\ lifecycle = "initialized"
  /\ counter = 1
  /\ request = First /\ main = First /\ audio = First /\ active = First
  /\ unpublished = FALSE /\ unpublished_structural = FALSE
  /\ prepared_pending = Nothing /\ prepared = Nothing
  /\ requested = 1 /\ reconfiguring = FALSE
  /\ releasing = FALSE
  /\ panic_requested = FALSE /\ status = Ready /\ dirty = FALSE /\ callback = FALSE
  /\ pipe = Fresh
  /\ a_stage = "idle" /\ a_flush = FALSE /\ a_structural = FALSE
  /\ a_generation = 1 /\ a_target = Ready
  /\ m_stage = "idle" /\ m_config = Default /\ m_generation = 1 /\ m_attempt = 1
  /\ host \in Hosts /\ edits = 0

Lifecycle == Activate \/ Deactivate \/ StartProcessing \/ StopProcessing \/ Reset

\* The rest of the audio call in progress.
AudioCall ==
  \/ Publish \/ PublishFails \/ RecordPublication \/ Snapshot
  \/ Claim \/ NoClaim \/ CompareAdopted \/ ClearReconfiguration
  \/ FlushReturns \/ TakePanic \/ Deliver \/ StoreStatus

AudioEvents == (\E c \in Requests : Edit(c)) \/ EditPanic

\* The rest of the main thread's call in progress.
MainCall ==
  \/ LoadPublish \/ LoadPublishFails \/ LoadRecord \/ LoadPrepare
  \/ MainSnapshot \/ MainSnapshotFails \/ MainRecord \/ MainPrepare

MainEvents ==
  \/ \E c \in Requests : LoadState(c) \/ InactiveEdit(c)
  \/ InactivePanic

Next ==
  \/ Lifecycle
  \/ \E flush \in BOOLEAN : BeginCall(flush)
  \/ AudioCall \/ AudioEvents
  \/ OnMainThread \/ MainCall \/ MainEvents

Spec == Init /\ [][Next]_vars

\* A processing host keeps calling process(), a call runs to its end, and a callback
\* that was asked for comes.  A claim or a publication tried block after block or
\* callback after callback is not lost each time (ConfigExchange), and a host
\* offered owed note-offs and panics again and again takes them in one block.
Fairness ==
  /\ SF_vars(BeginCall(FALSE))
  /\ WF_vars(AudioCall)
  /\ WF_vars(OnMainThread) /\ WF_vars(MainCall)
  /\ SF_vars(Claim) /\ SF_vars(MainPrepare /\ prepared_pending' = Nothing)
  /\ SF_vars(Deliver /\ ~CleanupPending(pipe'))

FairSpec == Spec /\ Fairness

-----------------------------------------------------------------------------
(* Properties *)

\* The adapter's variables hold what their C++ types allow; a load tries thrice.
TypeOK ==
  /\ lifecycle \in {"initialized", "active", "processing"}
  /\ counter \in Nat /\ requested \in Nat
  /\ request \in Tagged /\ main \in Tagged /\ audio \in Tagged /\ active \in Tagged
  /\ unpublished \in BOOLEAN /\ unpublished_structural \in BOOLEAN
  /\ prepared_pending \in Tagged \cup {Nothing} /\ prepared \in Tagged \cup {Nothing}
  /\ reconfiguring \in BOOLEAN /\ releasing \in BOOLEAN
  /\ panic_requested \in BOOLEAN /\ dirty \in BOOLEAN /\ callback \in BOOLEAN
  /\ status \in Ready .. Unsupported /\ a_target \in Ready .. MidiBlocked
  /\ pipe \in Pipe
  /\ a_flush \in BOOLEAN /\ a_structural \in BOOLEAN /\ a_generation \in Nat
  /\ m_config \in Config /\ m_generation \in Nat /\ m_attempt \in 0 .. 4
  /\ host \in Hosts /\ edits \in 0 .. MaxEdits

\* Between calls the three owners of the configuration agree on what a generation
\* holds: a publication that lost to the other thread, the state load that won and
\* the events of the next block never leave an owner believing it has a
\* configuration the register does not (publish_audio_config, state_load;
\* clap_adapter.cpp:305-342, 441-480).
SameGenerationSameConfig ==
  /\ Running /\ a_stage = "idle" /\ ~unpublished /\ audio.generation = request.generation
       => audio = request
  /\ m_stage = "idle" /\ main.generation = request.generation => main = request
  /\ audio.generation <= request.generation /\ main.generation <= request.generation

\* A note that sounds and is not yet owed to the host was started under the
\* structural settings in force: whichever of adoption, panic, refusal and
\* recovery a block combines, no note is left on the old channel (process;
\* clap_adapter.cpp:680-738).
NotesFollowConfig == pipe.heard \ pipe.owed \subseteq {StructuralPart(active.config)}

\* Between calls the host is not shown Ready while the output is blocked or held
\* (latch_status, publish_runtime_status; clap_adapter.cpp:215-244, 643-654).
ReadyMeansOpen ==
  Running /\ a_stage = "idle" /\ status = Ready => ~pipe.blocked /\ ~pipe.hold

\* While the host processes, the last requested configuration reaches the main
\* thread and its structural part the engine, whatever publications, snapshots,
\* claims and note-offs are lost on the way (plugin_on_main_thread, process;
\* clap_adapter.cpp:676-700, 784-832).
RequestIsAdopted ==
  <>[](lifecycle = "processing") =>
    <>[](main = request /\ StructuralEqual(active.config, request.config))

=============================================================================
