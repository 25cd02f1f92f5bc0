----------------------------- MODULE MidiPipeline -----------------------------
(***************************************************************************)
(* MidiPipeline (native/plugin/midi_pipeline.cpp): the CLAP output path.   *)
(* It puts the note ledger between the detector and the host, merges the   *)
(* host's own MIDI into what the ledger sends, and follows a refused event *)
(* with All Notes Off and All Sound Off on the channels of the route.      *)
(*                                                                         *)
(* The ledger is NoteLedger, its steps taken whole.  Before each event it  *)
(* offers, push_generated offers the host events that come before it; a    *)
(* refusal there re-enters the ledger (report_output_failure) in the       *)
(* middle of its delivery.  Every push may be refused.                     *)
(***************************************************************************)
EXTENDS NoteLedger

CONSTANTS
  InputLists     \* the host event lists a block may bring

\* A host event: its time, and whether it is MIDI, another type, a truncated
\* MIDI event or missing.
InputEvents == [time : Nat, kind : {"midi", "other", "short", "null"}]

ASSUME PipelineAssumption == InputLists \subseteq Seq(InputEvents)

VARIABLES
  invalid_event,   \* invalid_event_
  panic_mask,      \* channel_panic_mask_
  p_route,         \* routing_, start_channel_
  p_stage,         \* the call in progress, and where it is
  complete,        \* request_panic: complete
  inputs,          \* the block's host events
  input_index,     \* context.input_index
  last_input,      \* context.last_input_offset, NoOffset without one
  flushing,        \* the event push_generated gave up on: its inputs go first
  retry_panics,    \* retry_channel_this_call
  emitted,         \* history: <<offset, class>> of the last event the host took
  offered          \* history: the host events offered back in this call

merge == <<inputs, input_index, last_input, flushing, retry_panics, offered>>
pvars == <<vars, invalid_event, panic_mask, p_route, p_stage, complete, merge, emitted>>

NoOffset == -1
Nowhere  == <<NoOffset, Off>>

\* At one offset: note-offs, channel panics, host events, note-ons.
OffClass == 0  PanicClass == 1  InputClass == 2  OnClass == 3

\* The channels a route sends on.
RouteChannels(r) ==
  IF r.routing = "per_voice"
  THEN {VoiceChannel(r.start, k) : k \in 0 .. MaxVoices - 1}
  ELSE {r.start}

Marked == panic_mask \cup RouteChannels(p_route)     \* mark_route_for_panic

-----------------------------------------------------------------------------
(* Calls between blocks *)

PIdle == p_stage = "idle" /\ Idle

\* deactivate; and activate, which deactivates first.
PForget(allocated) ==
  /\ PIdle
  /\ Forget(allocated)
  /\ invalid_event' = FALSE
  /\ panic_mask' = {}
  /\ p_route' = NoRoute
  /\ emitted' = Nowhere
  /\ UNCHANGED <<p_stage, complete, merge>>

PBeginBlock ==
  /\ PIdle
  /\ BeginBlock
  /\ invalid_event' = FALSE
  /\ UNCHANGED <<panic_mask, p_route, p_stage, complete, merge, emitted>>

PQueueTransition(offset, kind, note, voice_id) ==
  /\ PIdle
  /\ QueueTransition(offset, kind, note, voice_id) \/ QueueInvalid
  /\ invalid_event' = (invalid_event \/ queue' = queue)
  /\ UNCHANGED <<panic_mask, p_route, p_stage, complete, merge, emitted>>

\* request_panic: recovery is asked for, then releases are queued one by one.
RequestPanic(offset) ==
  /\ PIdle
  /\ hold' = TRUE /\ recovery' = TRUE /\ hold_calls' = 1
  /\ stage' = "releases" /\ index' = 1 /\ last' = <<offset, Off>>
  /\ p_stage' = "panic" /\ complete' = TRUE
  /\ UNCHANGED <<held, block, invalid, blocked, cleanup, chained, route,
                 invalid_event, panic_mask, p_route, merge, emitted>>

PanicRelease ==
  /\ p_stage = "panic" /\ stage = "releases"
  /\ QueueRelease
  /\ complete' = (complete /\ (voices[index].active => queue' # queue))
  /\ UNCHANGED <<invalid_event, panic_mask, p_route, p_stage, merge, emitted>>

PanicQueued ==
  /\ p_stage = "panic" /\ Idle
  /\ complete
  /\ p_stage' = "idle"
  /\ UNCHANGED <<vars, invalid_event, panic_mask, p_route, complete, merge, emitted>>

\* A release did not fit: everything is owed instead.
PanicOverflows ==
  /\ p_stage = "panic" /\ Idle
  /\ ~complete
  /\ EnterBlocked
  /\ panic_mask' = Marked
  /\ p_stage' = "idle"
  /\ UNCHANGED <<block, invalid, panic, call, invalid_event, p_route, complete, merge, emitted>>

\* request_reset
RequestReset ==
  /\ PIdle
  /\ RequestRelease
  /\ hold' = TRUE /\ recovery' = TRUE /\ hold_calls' = 1
  /\ UNCHANGED <<block, invalid, blocked, call, invalid_event, panic_mask, p_route,
                 p_stage, complete, merge, emitted>>

-----------------------------------------------------------------------------
(* process *)

\* A channel, frame count or routing out of range.
ProcessInvalid ==
  /\ PIdle
  /\ invalid_event' = TRUE
  /\ UNCHANGED <<vars, panic_mask, p_route, p_stage, complete, merge, emitted>>

Process(r, list) ==
  /\ PIdle
  /\ CallDeliver(r)
  /\ p_route' = r
  /\ inputs' = list /\ input_index' = 1 /\ last_input' = NoOffset
  /\ flushing' = Nowhere
  /\ retry_panics' = (panic_mask # {})
  /\ p_stage' = "deliver"
  /\ emitted' = Nowhere /\ offered' = << >>
  /\ UNCHANGED <<invalid_event, panic_mask, complete>>

\* What the ledger is about to push, if anything.
NextPush ==
  IF stage = "retry" /\ ReleasePending(voices) THEN <<0, Off>>
  ELSE IF Delivering /\ Event.kind = Off /\ Matches(voices, Event) # {}
       THEN <<Event.offset, Off>>
  ELSE IF /\ Delivering /\ Event.kind = On /\ ~hold
          /\ ~IdentityInUse(voices, Event) /\ active_count < MaxVoices
          /\ \E c \in Channels : Allocates(voices, route, Event, c)
       THEN <<Event.offset, On>>
  ELSE Nowhere

Input == inputs[input_index]

\* Variant: host events at the offset go first whatever is pushed.
DueInclusive(p) ==
  /\ p # Nowhere
  /\ input_index <= Len(inputs)
  /\ Input.kind = "null" \/ Input.time <= p[1]

\* The next host event goes before push p: strictly earlier, or at its offset if
\* p is a note-on; a missing event is skipped wherever it is.
Due(p) ==
  /\ p # Nowhere
  /\ input_index <= Len(inputs)
  /\ \/ Input.kind = "null"
     \/ Input.time < p[1]
     \/ Input.time = p[1] /\ p[2] = On

FlushDue ==
  \/ p_stage = "deliver" /\ (Due(NextPush) \/ Due(flushing))
  \/ p_stage = "tail" /\ input_index <= Len(inputs)

\* Variant: a second event at one time counts as late.
BadTimeInclusive == Input.time >= MaxFrames \/ Input.time <= last_input

\* Beyond the block, or before an event already seen.
BadTime == Input.time >= MaxFrames \/ Input.time < last_input

FlushSkip ==
  /\ FlushDue
  /\ Input.kind = "null" \/ BadTime
  /\ invalid_event' = TRUE
  /\ input_index' = input_index + 1
  /\ UNCHANGED <<vars, panic_mask, p_route, p_stage, complete, inputs, last_input,
                 flushing, retry_panics, emitted, offered>>

\* Not MIDI, or too short to be.
FlushOther ==
  /\ FlushDue
  /\ Input.kind \in {"other", "short"} /\ ~BadTime
  /\ invalid_event' = (invalid_event \/ Input.kind = "short")
  /\ input_index' = input_index + 1
  /\ last_input' = Input.time
  /\ UNCHANGED <<vars, panic_mask, p_route, p_stage, complete, inputs, flushing,
                 retry_panics, emitted, offered>>

OfferInput ==
  /\ FlushDue
  /\ Input.kind = "midi" /\ ~BadTime
  /\ input_index' = input_index + 1
  /\ last_input' = Input.time
  /\ offered' = Append(offered, input_index)

InputAccepted ==
  /\ OfferInput
  /\ emitted' = <<Input.time, InputClass>>
  /\ UNCHANGED <<vars, invalid_event, panic_mask, p_route, p_stage, complete, inputs,
                 flushing, retry_panics>>

\* enter_output_blocked, from inside the ledger's push or after it.
InputRefused ==
  /\ OfferInput
  /\ EnterBlocked
  /\ panic_mask' = Marked
  /\ flushing' = IF p_stage = "deliver" /\ flushing = Nowhere THEN NextPush ELSE flushing
  /\ UNCHANGED <<block, invalid, panic, call, invalid_event, p_route, p_stage, complete,
                 inputs, retry_panics, emitted>>

\* deliver has returned: a failure of the ledger's own marks the route.
Settle(mask) ==
  IF stage' # "idle"
  THEN panic_mask' = mask /\ UNCHANGED <<p_stage, invalid_event>>
  ELSE /\ p_stage' = IF retry_panics THEN "panics" ELSE "tail"
       /\ invalid_event' = (invalid_event \/ (invalid' /\ ~blocked' /\ ~hold'))
       /\ panic_mask' = IF blocked' /\ mask = {} THEN mask \cup RouteChannels(p_route)
                                                 ELSE mask

Ledger ==
  /\ p_stage = "deliver"
  /\ ~FlushDue
  /\ UNCHANGED <<p_route, complete, merge>>

Took(class) == Settle(panic_mask) /\ emitted' = <<last'[1], class>>
NoPush      == Settle(panic_mask) /\ UNCHANGED emitted
Refused     == Settle(Marked) /\ UNCHANGED emitted

\* Only a note that could be offered can be refused; the ledger's other failures
\* never reach the sink.
FailedPush == IF NextPush = Nowhere THEN NoPush ELSE Refused

LedgerStep ==
  /\ Ledger
  /\ \/ \E s \in Slots :
          \/ (RetryAccepted(s) \/ OffAccepted(s)) /\ Took(OffClass)
          \/ RetryRefused(s) /\ Refused
          \/ \E c \in Channels : OnAccepted(s, c) /\ Took(OnClass)
     \/ (RetryDone \/ OnHeldBack) /\ NoPush
     \/ (OffFailed \/ OnFailed) /\ FailedPush
     \/ \E quiet \in BOOLEAN : FinishHold(quiet) /\ NoPush

\* retry_channel_panics with nothing to send, or releases still owed.
PanicsOver ==
  /\ p_stage = "panics"
  /\ panic_mask = {} \/ ReleasePending(voices)
  /\ p_stage' = "tail"
  /\ UNCHANGED <<vars, invalid_event, panic_mask, p_route, complete, merge, emitted>>

NextPanic(c) ==
  /\ p_stage = "panics"
  /\ ~ReleasePending(voices)
  /\ c \in panic_mask
  /\ \A d \in panic_mask : c <= d

\* Both messages were taken.
PanicAccepted(c) ==
  /\ NextPanic(c)
  /\ panic_mask' = panic_mask \ {c}
  /\ emitted' = <<0, PanicClass>>
  /\ UNCHANGED <<vars, invalid_event, p_route, p_stage, complete, merge>>

\* Variant: the failure only ends the loop.
PanicRefusedQuietly(c) ==
  /\ NextPanic(c)
  /\ emitted' \in {emitted, <<0, PanicClass>>}
  /\ p_stage' = "tail"
  /\ UNCHANGED <<vars, invalid_event, panic_mask, p_route, complete, merge>>

\* The first or the second message was refused.
PanicRefused(c) ==
  /\ NextPanic(c)
  /\ EnterBlocked
  /\ emitted' \in {emitted, <<0, PanicClass>>}
  /\ p_stage' = "tail"
  /\ UNCHANGED <<block, invalid, panic, call, invalid_event, panic_mask, p_route, complete, merge>>

ProcessReturns ==
  /\ p_stage = "tail"
  /\ input_index > Len(inputs)
  /\ p_stage' = "idle"
  /\ inputs' = << >> /\ input_index' = 1 /\ last_input' = NoOffset
  /\ flushing' = Nowhere /\ retry_panics' = FALSE /\ offered' = << >>
  /\ emitted' = Nowhere
  /\ UNCHANGED <<vars, invalid_event, panic_mask, p_route, complete>>

-----------------------------------------------------------------------------
PInit ==
  /\ Init
  /\ invalid_event = FALSE
  /\ panic_mask = {}
  /\ p_route = NoRoute
  /\ p_stage = "idle" /\ complete = TRUE
  /\ inputs = << >> /\ input_index = 1 /\ last_input = NoOffset
  /\ flushing = Nowhere /\ retry_panics = FALSE
  /\ emitted = Nowhere /\ offered = << >>

PNext ==
  \/ \E allocated \in BOOLEAN : PForget(allocated)
  \/ PBeginBlock
  \/ \E offset \in Offsets, kind \in {Off, On}, note \in Notes, voice_id \in VoiceIds :
       PQueueTransition(offset, kind, note, voice_id)
  \/ \E offset \in Offsets : RequestPanic(offset)
  \/ PanicRelease \/ PanicQueued \/ PanicOverflows
  \/ RequestReset
  \/ ProcessInvalid
  \/ \E r \in Routes, list \in InputLists : Process(r, list)
  \/ FlushSkip \/ FlushOther \/ InputAccepted \/ InputRefused
  \/ LedgerStep
  \/ PanicsOver
  \/ \E c \in Channels : PanicAccepted(c) \/ PanicRefused(c)
  \/ ProcessReturns

PSpec == PInit /\ [][PNext]_pvars

-----------------------------------------------------------------------------
(* Properties *)

\* The pipeline's own variables hold what their C++ types allow.
PipelineTypeOK ==
  /\ invalid_event \in BOOLEAN
  /\ panic_mask \subseteq Channels
  /\ p_route \in AllRoutes
  /\ p_stage \in {"idle", "panic", "deliver", "panics", "tail"}
  /\ complete \in BOOLEAN
  /\ inputs \in InputLists \cup {<< >>}
  /\ input_index \in 1 .. Len(inputs) + 1
  /\ last_input \in {NoOffset} \cup Offsets
  /\ flushing \in ({NoOffset} \cup Offsets) \X {Off, On}
  /\ retry_panics \in BOOLEAN
  /\ emitted \in ({NoOffset} \cup Offsets) \X (OffClass .. OnClass)

Ascending(list) == \A i, j \in 1 .. Len(list) : i < j => list[i].time <= list[j].time

\* What the host takes in one process() is in time order, and at one offset
\* note-offs come before the channel panics, those before the host's own events
\* and those before note-ons, whatever is refused on the way, if the host's
\* list is in order (midi_pipeline.cpp:110-178;
\* test_midi_pipeline.cpp:149, 237).
EmittedInOrder ==
  [][p_stage # "idle" /\ p_stage' # "idle" /\ Ascending(inputs)
       => NotAfter(emitted, emitted')]_pvars

\* The events of the list a host may expect back: MIDI, inside the block and
\* not before an earlier event of the block.
Wanted(list) ==
  {i \in 1 .. Len(list) :
     /\ list[i].kind = "midi" /\ list[i].time < MaxFrames
     /\ \A j \in 1 .. i - 1 :
          list[j].kind # "null" /\ list[j].time < MaxFrames => list[j].time <= list[i].time}

\* Every process() offers each well-formed host event once and in order, also
\* when the output is blocked or blocks in the middle: refused generated
\* events never hold back the host's MIDI, and nothing is replayed
\* (midi_pipeline.cpp:241; test_midi_pipeline.cpp:300).
InputsPassOnce ==
  [][p_stage = "tail" /\ p_stage' = "idle" =>
       /\ {offered[i] : i \in 1 .. Len(offered)} = Wanted(inputs)
       /\ \A i \in 1 .. Len(offered) - 1 : offered[i] < offered[i + 1]]_pvars

\* Between calls an open output owes no channel panic: the hold can end in the
\* middle of process(), before the panics are sent, and a refused panic or
\* host event must close it again (midi_pipeline.cpp:180-201, 226-243).
OpenMeansClean == PIdle /\ ~blocked => panic_mask = {}

=============================================================================
