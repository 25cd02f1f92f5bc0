------------------------------ MODULE NoteLedger ------------------------------
(***************************************************************************)
(* GeneratedNoteLedger (native/src/generated_note_ledger.cpp): the one     *)
(* place that decides which MIDI notes the host is told about.  The        *)
(* detector queues note-on/note-off transitions for the current block, the *)
(* ledger offers them to a sink that may refuse any event, and it must     *)
(* always know which notes the host believes are sounding, so that every   *)
(* one of them is released again.                                          *)
(*                                                                         *)
(* A call that loops (queue_active_releases, retry_pending_releases,       *)
(* deliver_queued, deliver) is a run of steps, one per iteration: the      *)
(* sink's answer is chosen anew at each.  No other call starts in between, *)
(* the ledger belongs to one thread at a time.  Both callers queue and     *)
(* deliver a block with the same frame count, so no queued entry lies      *)
(* beyond the frames of its delivery.                                      *)
(***************************************************************************)
EXTENDS Integers, Sequences, FiniteSets

CONSTANTS
  MaxVoices,     \* kMaxVoices (8)
  NumChannels,   \* MIDI channels (16)
  Notes,         \* note numbers in use
  MaxFrames,     \* samples of a block
  Capacity,      \* transitions the block queue can hold
  Routes         \* the routing and start channel a delivery may be given

AllRoutes == [routing : {"single", "per_voice"}, start : 1 .. NumChannels]

ASSUME LedgerAssumption ==
  /\ MaxVoices \in Nat \ {0}
  /\ NumChannels \in Nat \ {0}
  /\ Notes \subseteq 0 .. 127
  /\ MaxFrames \in Nat \ {0}
  /\ Capacity \in Nat
  /\ Routes \subseteq AllRoutes

VARIABLES
  voices,        \* voices_
  active_count,  \* active_count_
  storage,       \* storage_ is allocated
  queue,         \* the first size_ entries of storage_
  invalid,       \* invalid_transition_
  blocked,       \* output_blocked_
  cleanup,       \* cleanup_complete_
  hold,          \* panic_hold_
  recovery,      \* recovery_requested_
  hold_calls,    \* hold_calls_remaining_
  stage,         \* the call in progress, and where it is
  chained,       \* it is deliver(): its retry goes on to deliver_queued
  index,         \* its loop index
  route,         \* its routing argument
  last,          \* <<offset, kind>> of the event it sent last
  sounding       \* host: identities told on and not yet told off, of the notes
                 \* sent since deactivate() last made the ledger forget

held  == <<voices, active_count, sounding>>
block == <<storage, queue>>
panic == <<hold, recovery, hold_calls>>
call  == <<stage, chained, index, route, last>>
vars  == <<held, block, invalid, blocked, cleanup, panic, call>>

-----------------------------------------------------------------------------
(* Data *)

Slots      == 1 .. MaxVoices
Unassigned == MaxVoices            \* kUnassignedVoiceId is not < kMaxVoices
VoiceIds   == 0 .. MaxVoices
Channels   == 1 .. NumChannels
Offsets    == 0 .. MaxFrames - 1
Off        == 0                    \* at one offset note-offs sort first
On         == 1

Free == [active |-> FALSE, pending |-> FALSE, note |-> 0, channel |-> 0,
         voice_id |-> Unassigned]

Held(v) == v.active \/ v.pending

NoRoute == [routing |-> "single", start |-> 1]
NoEvent == <<0, Off>>

\* How the host addresses a generated note: by pitch and channel, and in VST3
\* also by a note id that depends on the voice id.
Identity(v) == [note |-> v.note, channel |-> v.channel, voice_id |-> v.voice_id]

HeldIdentities(vs) == {Identity(vs[s]) : s \in {r \in Slots : Held(vs[r])}}

ReleasePending(vs) == \E s \in Slots : vs[s].pending

AnyActive(vs) == \E s \in Slots : vs[s].active

\* Every active voice becomes pending.
ReleaseAll(vs) ==
  [s \in Slots |-> [vs[s] EXCEPT !.pending = vs[s].active \/ vs[s].pending]]

\* s is where an ascending scan for a member of S stops.
FirstOf(S, s) == s \in S /\ \A r \in S : s <= r

\* The slots find_voice accepts.
Matches(vs, t) ==
  {s \in Slots : Held(vs[s]) /\ vs[s].note = t.note /\ vs[s].voice_id = t.voice_id}

FreeSlots(vs) == {s \in Slots : ~Held(vs[s])}

\* Variant: only the string is looked at, so a note of no string may be repeated.
IdentityInUseByString(vs, t) ==
  t.voice_id # Unassigned /\ \E s \in Slots : Held(vs[s]) /\ vs[s].voice_id = t.voice_id

\* A note-on may not repeat a held identity nor use a string that sounds already.
IdentityInUse(vs, t) ==
  \/ Matches(vs, t) # {}
  \/ t.voice_id # Unassigned /\ \E s \in Slots : Held(vs[s]) /\ vs[s].voice_id = t.voice_id

VoiceChannel(start, k) == ((start - 1 + k) % NumChannels) + 1

\* The per-voice channel indices allocate_channel may still hand out.
FreeChannels(vs, start, t) ==
  {k \in IF t.voice_id # Unassigned THEN {t.voice_id} ELSE 0 .. MaxVoices - 1 :
     \A s \in Slots : Held(vs[s]) => vs[s].channel # VoiceChannel(start, k)}

\* allocate_channel answers c.
Allocates(vs, r, t, c) ==
  IF r.routing = "single" THEN c = r.start
  ELSE \E k \in 0 .. MaxVoices : /\ FirstOf(FreeChannels(vs, r.start, t), k)
                                 /\ c = VoiceChannel(r.start, k)

-----------------------------------------------------------------------------
(* Calls that complete in one step *)

Idle == stage = "idle"

\* Variant: the failure does not mark the sounding notes.
EnterBlockedOnly ==
  blocked' = TRUE /\ cleanup' = FALSE /\ UNCHANGED <<voices, active_count, sounding>>

\* enter_blocked
EnterBlocked ==
  /\ blocked' = TRUE
  /\ cleanup' = FALSE
  /\ voices' = ReleaseAll(voices)
  /\ UNCHANGED <<active_count, sounding>>

\* Variant: cleanup_complete_ is left set.
RequestReleaseStaleCleanup ==
  voices' = ReleaseAll(voices) /\ UNCHANGED <<cleanup, active_count, sounding>>

\* request_release_all
RequestRelease ==
  /\ voices' = ReleaseAll(voices)
  /\ cleanup' = (cleanup /\ ~AnyActive(voices))
  /\ UNCHANGED <<active_count, sounding>>

\* deactivate; and activate, whose allocate_storage may fail.
Forget(allocated) ==
  /\ Idle
  /\ storage' = allocated
  /\ queue' = << >>
  /\ voices' = [s \in Slots |-> Free]
  /\ active_count' = 0
  /\ sounding' = {}
  /\ invalid' = FALSE /\ blocked' = FALSE /\ cleanup' = FALSE
  /\ hold' = FALSE /\ recovery' = FALSE /\ hold_calls' = 0
  /\ UNCHANGED call

ActivatePreservingPending(allocated) ==
  /\ Idle
  /\ storage' = allocated
  /\ queue' = << >>
  /\ invalid' = FALSE
  /\ UNCHANGED <<held, blocked, cleanup, panic, call>>

BeginBlock ==
  /\ Idle
  /\ queue' = << >>
  /\ invalid' = FALSE
  /\ UNCHANGED <<held, storage, blocked, cleanup, panic, call>>

RequestReleaseAll ==
  /\ Idle
  /\ RequestRelease
  /\ UNCHANGED <<block, invalid, blocked, panic, call>>

ReleaseStoragePreservingPending ==
  /\ Idle
  /\ RequestRelease
  /\ storage' = FALSE
  /\ queue' = << >>
  /\ invalid' = FALSE
  /\ UNCHANGED <<blocked, panic, call>>

ReportOutputFailure ==
  /\ Idle
  /\ EnterBlocked
  /\ UNCHANGED <<block, invalid, panic, call>>

RequestRecovery ==
  /\ Idle
  /\ hold' = TRUE /\ recovery' = TRUE /\ hold_calls' = 1
  /\ UNCHANGED <<held, block, invalid, blocked, cleanup, call>>

-----------------------------------------------------------------------------
(* Queueing *)

\* Variant: at one offset in the order of arrival.
TransitionBeforeByArrival(l, r) ==
  l.offset < r.offset \/ (l.offset = r.offset /\ l.sequence < r.sequence)

TransitionBefore(l, r) ==
  \/ l.offset < r.offset
  \/ l.offset = r.offset /\ l.kind < r.kind
  \/ l.offset = r.offset /\ l.kind = r.kind /\ l.sequence < r.sequence

\* The insertion scan of queue_transition walks back from the end past every entry
\* the new one goes before, and stops behind entry p.
ScanStops(q, t, p) ==
  /\ p > 0 => ~TransitionBefore(t, q[p])
  /\ \A i \in p + 1 .. Len(q) : TransitionBefore(t, q[i])

InsertAfter(q, p, t) ==
  [i \in 1 .. Len(q) + 1 |->
     IF i <= p THEN q[i] ELSE IF i = p + 1 THEN t ELSE q[i - 1]]

\* Variant: one entry past the storage.
EnqueuePastEnd(t) ==
  IF storage /\ Len(queue) <= Capacity
  THEN queue' = Append(queue, t) /\ UNCHANGED invalid
  ELSE invalid' = TRUE /\ UNCHANGED queue

Enqueue(t) ==
  IF storage /\ Len(queue) < Capacity
  THEN /\ \E p \in 0 .. Len(queue) :
            ScanStops(queue, t, p) /\ queue' = InsertAfter(queue, p, t)
       /\ UNCHANGED invalid
  ELSE invalid' = TRUE /\ UNCHANGED queue

\* The detector numbers the transitions of a block in the order it makes them.
QueueTransition(offset, kind, note, voice_id) ==
  /\ Idle
  /\ Enqueue([offset |-> offset, kind |-> kind, note |-> note,
              voice_id |-> voice_id, sequence |-> Len(queue)])
  /\ UNCHANGED <<held, storage, blocked, cleanup, panic, call>>

\* A transition with a field out of range, or an offset beyond the block.
QueueInvalid ==
  /\ Idle
  /\ invalid' = TRUE
  /\ UNCHANGED <<held, block, blocked, cleanup, panic, call>>

\* queue_active_releases at an offset: one note-off per active slot, numbered from 0.
CallQueueReleases(offset) ==
  /\ Idle
  /\ stage' = "releases" /\ index' = 1 /\ last' = <<offset, Off>>
  /\ UNCHANGED <<held, block, invalid, blocked, cleanup, panic, chained, route>>

\* The call in progress is over.
Return ==
  /\ stage' = "idle" /\ chained' = FALSE /\ index' = 0
  /\ route' = NoRoute /\ last' = NoEvent

QueueRelease ==
  /\ stage = "releases"
  /\ IF voices[index].active
     THEN Enqueue([offset |-> last[1], kind |-> Off, note |-> voices[index].note,
                   voice_id |-> voices[index].voice_id,
                   sequence |-> Cardinality({s \in 1 .. index - 1 : voices[s].active})])
     ELSE UNCHANGED <<queue, invalid>>
  /\ IF index = MaxVoices
     THEN Return
     ELSE index' = index + 1 /\ UNCHANGED <<stage, chained, route, last>>
  /\ UNCHANGED <<held, storage, blocked, cleanup, panic>>

-----------------------------------------------------------------------------
(* deliver, retry_pending_releases, deliver_queued *)

CallRetry ==
  /\ Idle
  /\ stage' = "retry"
  /\ UNCHANGED <<held, block, invalid, blocked, cleanup, panic, chained, index,
                 route, last>>

CallDeliver(r) ==
  /\ Idle
  /\ stage' = "retry" /\ chained' = TRUE /\ route' = r
  /\ UNCHANGED <<held, block, invalid, blocked, cleanup, panic, index, last>>

\* deliver_queued returns at once without storage.
EnterQueued(r) ==
  IF storage THEN /\ stage' = "queued" /\ index' = 1 /\ route' = r
                  /\ UNCHANGED <<chained, last, invalid>>
             ELSE Return /\ invalid' = TRUE

CallDeliverQueued(r) ==
  /\ Idle
  /\ EnterQueued(r)
  /\ UNCHANGED <<held, block, blocked, cleanup, panic>>

\* The end of a retry: deliver goes on to deliver_queued.
EndRetry == IF chained THEN EnterQueued(route) ELSE Return /\ UNCHANGED invalid

\* Variant: the loop over the slots ends one early.
NextPendingButLast(s) == s < MaxVoices /\ voices[s].pending

\* The pending voice the retry loops reach next: by note, then by slot.
NextPending(s) ==
  /\ voices[s].pending
  /\ \A r \in Slots : voices[r].pending =>
       \/ voices[s].note < voices[r].note
       \/ voices[s].note = voices[r].note /\ s <= r

\* The sink took a note-off for slot s.
Release(s) ==
  /\ sounding' = sounding \ {Identity(voices[s])}
  /\ active_count' = IF voices[s].active /\ active_count > 0 THEN active_count - 1
                                                            ELSE active_count
  /\ voices' = [voices EXCEPT ![s] = Free]

RetryAccepted(s) ==
  /\ stage = "retry"
  /\ NextPending(s)
  /\ Release(s)
  /\ last' = <<0, Off>>
  /\ UNCHANGED <<block, invalid, blocked, cleanup, panic, stage, chained, index, route>>

RetryRefused(s) ==
  /\ stage = "retry"
  /\ NextPending(s)
  /\ EnterBlocked
  /\ EndRetry
  /\ UNCHANGED <<block, panic>>

RetryDone ==
  /\ stage = "retry"
  /\ ~ReleasePending(voices)
  /\ cleanup' = TRUE
  /\ EndRetry
  /\ UNCHANGED <<held, block, blocked, panic>>

\* The delivery loop runs with nothing owed and the output open; a step that
\* blocks the output ends it.
Delivering ==
  /\ stage = "queued"
  /\ ~ReleasePending(voices) /\ ~blocked
  /\ index <= Len(queue)

Event == queue[index]

\* The sink took the event; on to the next.
Sent ==
  /\ index' = index + 1
  /\ last' = <<Event.offset, Event.kind>>
  /\ UNCHANGED <<block, invalid, blocked, cleanup, panic, stage, chained, route>>

OffAccepted(s) ==
  /\ Delivering /\ Event.kind = Off
  /\ FirstOf(Matches(voices, Event), s)
  /\ Release(s)
  /\ Sent

\* Refused by the sink, or for no held voice: either way everything is owed.
OffFailed ==
  /\ Delivering /\ Event.kind = Off
  /\ EnterBlocked
  /\ UNCHANGED <<block, invalid, panic, call>>

OnHeldBack ==
  /\ Delivering /\ Event.kind = On
  /\ hold
  /\ index' = index + 1
  /\ UNCHANGED <<held, block, invalid, blocked, cleanup, panic, stage, chained, route, last>>

OnAccepted(s, c) ==
  /\ Delivering /\ Event.kind = On
  /\ ~hold
  /\ ~IdentityInUse(voices, Event)
  /\ active_count < MaxVoices
  /\ Allocates(voices, route, Event, c)
  /\ FirstOf(FreeSlots(voices), s)
  /\ LET v == [active |-> TRUE, pending |-> FALSE, note |-> Event.note,
               channel |-> c, voice_id |-> Event.voice_id]
     IN  /\ voices' = [voices EXCEPT ![s] = v]
         /\ sounding' = sounding \cup {Identity(v)}
  /\ active_count' = active_count + 1
  /\ Sent

\* Refused by the sink, or one of the conditions of OnAccepted fails.
OnFailed ==
  /\ Delivering /\ Event.kind = On
  /\ ~hold
  /\ EnterBlocked
  /\ UNCHANGED <<block, invalid, panic, call>>

\* Variant: the hold ends without waiting for the owed releases.
RecoveredWithDebts(quiet) == hold /\ hold_calls = 0 /\ recovery /\ quiet

Recovered(quiet) == hold /\ hold_calls = 0 /\ recovery /\ cleanup /\ quiet

\* finish_hold and the return.  quiet: finite input, a supported layout and a peak
\* below kQuietPeak.
FinishHold(quiet) ==
  /\ stage = "queued"
  /\ ~Delivering
  /\ Return
  /\ hold_calls' = IF hold /\ hold_calls > 0 THEN hold_calls - 1 ELSE hold_calls
  /\ IF Recovered(quiet)
     THEN hold' = FALSE /\ recovery' = FALSE /\ blocked' = FALSE /\ cleanup' = FALSE
     ELSE UNCHANGED <<hold, recovery, blocked, cleanup>>
  /\ UNCHANGED <<held, block, invalid>>

-----------------------------------------------------------------------------
Init ==
  /\ voices = [s \in Slots |-> Free]
  /\ active_count = 0
  /\ sounding = {}
  /\ storage = FALSE
  /\ queue = << >>
  /\ invalid = FALSE /\ blocked = FALSE /\ cleanup = FALSE
  /\ hold = FALSE /\ recovery = FALSE /\ hold_calls = 0
  /\ stage = "idle" /\ chained = FALSE /\ index = 0
  /\ route = NoRoute /\ last = NoEvent

Lifecycle ==
  \/ \E allocated \in BOOLEAN : Forget(allocated) \/ ActivatePreservingPending(allocated)
  \/ ReleaseStoragePreservingPending

Queueing ==
  \/ BeginBlock \/ QueueInvalid \/ QueueRelease
  \/ \E offset \in Offsets, kind \in {Off, On}, note \in Notes, voice_id \in VoiceIds :
       QueueTransition(offset, kind, note, voice_id)
  \/ \E offset \in Offsets : CallQueueReleases(offset)

Requests == RequestReleaseAll \/ ReportOutputFailure \/ RequestRecovery

Calls ==
  \/ CallRetry
  \/ \E r \in Routes : CallDeliver(r) \/ CallDeliverQueued(r)

Retry == \E s \in Slots : RetryAccepted(s) \/ RetryRefused(s)

Deliver ==
  \/ RetryDone \/ OffFailed \/ OnHeldBack \/ OnFailed
  \/ \E s \in Slots : OffAccepted(s) \/ \E c \in Channels : OnAccepted(s, c)
  \/ \E quiet \in BOOLEAN : FinishHold(quiet)

Next == Lifecycle \/ Queueing \/ Requests \/ Calls \/ Retry \/ Deliver

Spec == Init /\ [][Next]_vars

\* Every block retries (in retry_pending_releases or in deliver), a call runs to
\* its end, and a sink that is offered owed note-offs again and again takes one in
\* the end.
Fairness ==
  /\ SF_vars(CallRetry \/ \E r \in Routes : CallDeliver(r))
  /\ WF_vars(QueueRelease \/ Retry \/ Deliver)
  /\ SF_vars(\E s \in Slots : RetryAccepted(s))

FairSpec == Spec /\ Fairness

-----------------------------------------------------------------------------
(* Properties *)

Voice == [active : BOOLEAN, pending : BOOLEAN, note : Notes \cup {0},
          channel : Channels \cup {0}, voice_id : VoiceIds]

Transition == [offset : Offsets, kind : {Off, On}, note : Notes \cup {0},
               voice_id : VoiceIds, sequence : Nat]

Identities == [note : Notes \cup {0}, channel : Channels \cup {0}, voice_id : VoiceIds]

\* Every variable holds what its C++ type and the calls on it allow.
TypeOK ==
  /\ voices \in [Slots -> Voice]
  /\ active_count \in 0 .. MaxVoices
  /\ storage \in BOOLEAN
  /\ queue \in Seq(Transition) /\ Len(queue) <= Capacity
  /\ invalid \in BOOLEAN /\ blocked \in BOOLEAN /\ cleanup \in BOOLEAN
  /\ hold \in BOOLEAN /\ recovery \in BOOLEAN /\ hold_calls \in {0, 1}
  /\ stage \in {"idle", "releases", "retry", "queued"}
  /\ chained \in BOOLEAN /\ index \in Nat /\ route \in AllRoutes
  /\ last \in Offsets \X {Off, On}
  /\ stage = "releases" => index \in Slots
  /\ stage = "queued" => index > 0
  /\ sounding \subseteq Identities

\* No stuck note and no unmatched note-off: what the ledger holds is exactly what
\* the host was told is on, one slot per note and per string, and active_count_
\* counts them, whatever events the sink refused.
HostAgrees ==
  /\ sounding = HeldIdentities(voices)
  /\ \A s, r \in Slots : s # r /\ Held(voices[s]) /\ Held(voices[r]) =>
       /\ Identity(voices[s]) # Identity(voices[r])
       /\ voices[s].voice_id # Unassigned => voices[s].voice_id # voices[r].voice_id
  /\ active_count = Cardinality({s \in Slots : Held(voices[s])})

\* A blocked output owes a note-off for every note the host still has on:
\* enter_blocked() leaves no voice that a later retry would overlook.
BlockedOwesAll ==
  blocked => \A s \in Slots : Held(voices[s]) => voices[s].pending

\* cleanup_complete_ is never stale: while it is set no release is owed, although
\* request_release_all(), retries and failures set and clear it separately.
CleanupIsCurrent == cleanup => ~ReleasePending(voices)

NotAfter(a, b) == a[1] < b[1] \/ (a[1] = b[1] /\ a[2] <= b[2])

\* Within one delivery the host receives events by ascending sample offset, and
\* note-offs before note-ons at the same offset, retried releases first.
EventsInOrder ==
  [][(stage \in {"retry", "queued"} /\ stage' # "idle") => NotAfter(last, last')]_vars

\* What the host hears of this ledger, and what it is owed.
Delivery == INSTANCE NoteDelivery WITH
  NoteIds     <- Identities,
  MaxSounding <- MaxVoices,
  heard       <- sounding,
  owed        <- {Identity(voices[s]) : s \in {r \in Slots : voices[r].pending}},
  blocked     <- blocked,
  hold        <- hold

\* The ledger implements note delivery: a note starts only on an open output with
\* no release owed, never twice, and a blocked output opens again only when silent.
DeliversNotes == Delivery!Spec

\* A note the ledger owes a release for is released, however often the sink
\* refused it before.
OwedIsReleased == Delivery!EveryDebtIsPaid
=============================================================================
