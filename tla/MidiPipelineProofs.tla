-------------------------- MODULE MidiPipelineProofs --------------------------
(***************************************************************************)
(* Proofs about MidiPipeline, for every number of voices, channels, notes  *)
(* and frames, every queue capacity and every list of host events.         *)
(*                                                                         *)
(* The pipeline keeps the ledger's own invariants, although it re-enters   *)
(* the ledger in the middle of a delivery.  On top of them, LoopInv says   *)
(* what the loops of process() know of the panics that are owed, SentInv   *)
(* what may still follow the event the host took last, and OfferInv which  *)
(* host events have been offered back so far.                              *)
(***************************************************************************)
EXTENDS MidiPipeline, NoteLedgerProofs

\* Where the ledger can be while the pipeline is in a call.
StageInv ==
  /\ p_stage \in {"idle", "panics", "tail"} => stage = "idle"
  /\ p_stage = "panic" => stage \in {"idle", "releases"}
  /\ p_stage = "deliver" => stage \in {"retry", "queued"}

Retrying   == p_stage = "deliver" /\ stage = "retry"
Queued     == p_stage = "deliver" /\ stage = "queued"
AfterRetry == Queued \/ p_stage \in {"panics", "tail"}

\* An open output owes channel panics only where they are about to be sent.  A route
\* marked by a failure of this very call, too late for it to send panics, is kept
\* from reopening: the failure has cleared the ledger's cleanup.
MaskInv ==
  /\ p_stage # "panics" /\ ~blocked => panic_mask = {}
  /\ Retrying /\ ~retry_panics => panic_mask = {}
  /\ Queued /\ ~retry_panics /\ panic_mask # {} => ~cleanup

\* Past the retry an open output owes no release, and only a blocked one interrupts
\* the ledger's push.  A call that owes panics before it starts stays blocked until
\* the ledger is done, so that no host event comes before them.
LoopInv ==
  /\ AfterRetry /\ ~blocked => ~ReleasePending(voices)
  /\ Retrying => flushing = Nowhere
  /\ p_stage = "deliver" /\ flushing # Nowhere => blocked
  /\ p_stage = "deliver" /\ retry_panics => blocked /\ flushing = Nowhere

Class(kind) == IF kind = Off THEN OffClass ELSE OnClass

\* The host events that may still be offered come after what was sent.
InputsAhead ==
  \A i \in input_index .. Len(inputs) : NotAfter(emitted, <<inputs[i].time, InputClass>>)

\* So do the transitions that may still be delivered.
QueueAhead ==
  \A i \in index .. Len(queue) :
    NotAfter(emitted, <<queue[i].offset, Class(queue[i].kind)>>)

\* A call that owes panics before it starts sends nothing but owed releases first.
SentInv ==
  /\ p_stage \in {"deliver", "panics", "tail"} /\ Ascending(inputs) => InputsAhead
  /\ Retrying => emitted \in {Nowhere, <<0, OffClass>>}
  /\ Queued /\ ~blocked => QueueAhead
  /\ p_stage = "deliver" /\ retry_panics => emitted \in {Nowhere, <<0, OffClass>>}
  /\ p_stage = "panics" => emitted \in {Nowhere, <<0, OffClass>>, <<0, PanicClass>>}

\* last_input is the latest time of the events seen that count.
Counts(j) == inputs[j].kind # "null" /\ inputs[j].time < MaxFrames

LatestInv ==
  /\ \A j \in 1 .. input_index - 1 : Counts(j) => inputs[j].time <= last_input
  /\ last_input # NoOffset =>
       \E j \in 1 .. input_index - 1 : Counts(j) /\ inputs[j].time = last_input

OfferInv ==
  /\ offered \in Seq(Nat)
  /\ \A i \in 1 .. Len(offered) : offered[i] < input_index
  /\ \A i \in 1 .. Len(offered) - 1 : offered[i] < offered[i + 1]
  /\ {offered[i] : i \in 1 .. Len(offered)} = {i \in Wanted(inputs) : i < input_index}

-----------------------------------------------------------------------------
(* The ledger inside the pipeline *)

\* A failure reported in the middle of a delivery, or after it.
Reenter == EnterBlocked /\ UNCHANGED <<block, invalid, panic, call>>

\* request_reset: the ledger's request_release_all and request_recovery at once.
ResetLedger ==
  /\ Idle
  /\ RequestRelease
  /\ hold' = TRUE /\ recovery' = TRUE /\ hold_calls' = 1
  /\ UNCHANGED <<block, invalid, blocked, call>>

\* request_panic: request_recovery, and the call of queue_active_releases.
PanicLedger(offset) ==
  /\ Idle
  /\ hold' = TRUE /\ recovery' = TRUE /\ hold_calls' = 1
  /\ stage' = "releases" /\ index' = 1 /\ last' = <<offset, Off>>
  /\ UNCHANGED <<held, block, invalid, blocked, cleanup, chained, route>>

\* A step of the pipeline is a step of the ledger or none, but for the three places
\* where it puts two of the ledger's calls into one or calls it inside another call.
LEMMA LedgerView ==
  ASSUME [PNext]_pvars
  PROVE  \/ [Next]_vars
         \/ Reenter
         \/ ResetLedger
         \/ \E offset \in Offsets : PanicLedger(offset)
  <1>1. ASSUME NEW a \in BOOLEAN, PForget(a) PROVE Next
    BY <1>1 DEF PForget, Next, Lifecycle
  <1>2. CASE PBeginBlock
    BY <1>2 DEF PBeginBlock, Next, Queueing
  <1>3. ASSUME NEW o \in Offsets, NEW k \in {Off, On}, NEW n \in Notes,
               NEW w \in VoiceIds, PQueueTransition(o, k, n, w)
        PROVE  Next
    BY <1>3 DEF PQueueTransition, Next, Queueing
  <1>4. ASSUME NEW o \in Offsets, RequestPanic(o) PROVE PanicLedger(o)
    BY <1>4 DEF RequestPanic, PanicLedger, PIdle
  <1>5. CASE PanicRelease
    BY <1>5 DEF PanicRelease, Next, Queueing
  <1>6. CASE PanicQueued
    BY <1>6 DEF PanicQueued
  <1>7. CASE PanicOverflows
    BY <1>7 DEF PanicOverflows, Reenter
  <1>8. CASE RequestReset
    BY <1>8 DEF RequestReset, ResetLedger, PIdle
  <1>9. CASE ProcessInvalid
    BY <1>9 DEF ProcessInvalid
  <1>10. ASSUME NEW r \in Routes, NEW list \in InputLists, Process(r, list) PROVE Next
    BY <1>10 DEF Process, Next, Calls
  <1>11. CASE FlushSkip
    BY <1>11 DEF FlushSkip
  <1>12. CASE FlushOther
    BY <1>12 DEF FlushOther
  <1>13. CASE InputAccepted
    BY <1>13 DEF InputAccepted
  <1>14. CASE InputRefused
    BY <1>14 DEF InputRefused, Reenter
  <1>15. CASE LedgerStep
    BY <1>15 DEF LedgerStep, Next, Retry, Deliver
  <1>16. CASE PanicsOver
    BY <1>16 DEF PanicsOver
  <1>17. ASSUME NEW c \in Channels, PanicAccepted(c) PROVE UNCHANGED vars
    BY <1>17 DEF PanicAccepted
  <1>18. ASSUME NEW c \in Channels, PanicRefused(c) PROVE Reenter
    BY <1>18 DEF PanicRefused, Reenter
  <1>19. CASE ProcessReturns
    BY <1>19 DEF ProcessReturns
  <1>20. CASE UNCHANGED pvars
    BY <1>20 DEF pvars
  <1> QED
    BY <1>1, <1>2, <1>3, <1>4, <1>5, <1>6, <1>7, <1>8, <1>9, <1>10, <1>11, <1>12,
       <1>13, <1>14, <1>15, <1>16, <1>17, <1>18, <1>19, <1>20 DEF PNext

LEMMA ReenterKeeps ==
  ASSUME LedgerInv, OrderInv, Reenter
  PROVE  LedgerInv' /\ OrderInv' /\ NotAfter(last, last')
  <1>1. TypeOK'
    BY EnterBlockedType DEF Reenter, LedgerInv, TypeOK, block, panic, call
  <1>2. LedgerInv'
    BY <1>1, BlockedStep DEF Reenter, LedgerInv
  <1>3. UNCHANGED <<queue, stage, index, last>>
    BY DEF Reenter, block, call
  <1>4. OrderInv'
    BY <1>1, <1>3 DEF OrderInv, Sorted, CursorInv
  <1>5. NotAfter(last, last')
    BY <1>3 DEF NotAfter, LedgerInv, TypeOK, Offsets, Off, On
  <1> QED BY <1>2, <1>4, <1>5

LEMMA ResetKeeps ==
  ASSUME LedgerInv, OrderInv, ResetLedger
  PROVE  LedgerInv' /\ OrderInv'
  <1>1. hold' \in BOOLEAN /\ recovery' \in BOOLEAN
    BY DEF ResetLedger
  <1>2. hold_calls' \in {0, 1} /\ UNCHANGED <<block, invalid, blocked, call>>
    BY DEF ResetLedger
  <1>3. TypeOK'
    BY <1>1, <1>2, RequestReleaseType DEF ResetLedger, LedgerInv, TypeOK, block, call
  <1>4. LedgerInv'
    BY <1>3, RequestStep DEF ResetLedger, LedgerInv
  <1>5. OrderInv'
    BY <1>2, <1>3 DEF OrderInv, Sorted, CursorInv, block, call
  <1> QED BY <1>4, <1>5

LEMMA PanicKeeps ==
  ASSUME LedgerInv, OrderInv, NEW offset \in Offsets, PanicLedger(offset)
  PROVE  LedgerInv' /\ OrderInv'
  <1>1. hold' \in BOOLEAN /\ recovery' \in BOOLEAN
    BY DEF PanicLedger
  <1>2. /\ hold_calls' \in {0, 1} /\ stage' = "releases" /\ index' = 1
        /\ last' = <<offset, Off>>
        /\ UNCHANGED <<held, block, invalid, blocked, cleanup, chained, route>>
    BY DEF PanicLedger
  <1>3. TypeOK'
    BY <1>1, <1>2, LedgerAssumption DEF LedgerInv, TypeOK, held, block, Slots
  <1>4. LedgerInv'
    BY <1>2, <1>3, HeldUnchanged DEF LedgerInv
  <1>5. OrderInv'
    BY <1>2, <1>3 DEF OrderInv, Sorted, CursorInv, block
  <1> QED BY <1>4, <1>5

\* The pipeline keeps what the ledger relies on, also where it re-enters it.
LEMMA LedgerKept ==
  ASSUME LedgerInv, OrderInv, [PNext]_pvars
  PROVE  LedgerInv' /\ OrderInv'
  <1>1. CASE [Next]_vars
    BY <1>1, LedgerInvStep, OrderStep, TypeStep DEF OrderInv
  <1>2. CASE Reenter
    BY <1>2, ReenterKeeps
  <1>3. CASE ResetLedger
    BY <1>3, ResetKeeps
  <1>4. ASSUME NEW offset \in Offsets, PanicLedger(offset) PROVE LedgerInv' /\ OrderInv'
    BY <1>4, PanicKeeps
  <1> QED BY <1>1, <1>2, <1>3, <1>4, LedgerView

LEMMA LedgerStarts == PInit => LedgerInv /\ OrderInv
  <1> SUFFICES ASSUME Init PROVE LedgerInv /\ OrderInv
    BY DEF PInit
  <1>1. OrderInv
    BY InitType DEF Init, OrderInv, Sorted, CursorInv
  <1> QED BY <1>1, LedgerInit

LEMMA LedgerHolds == PSpec => [](LedgerInv /\ OrderInv)
  <1>1. LedgerInv /\ OrderInv /\ [PNext]_pvars => LedgerInv' /\ OrderInv'
    BY LedgerKept
  <1> QED BY <1>1, LedgerStarts, PTL DEF PSpec

\* Inside the pipeline too the host hears exactly the notes the ledger holds, and a
\* blocked output owes every one of them, although a refused host event re-enters
\* the ledger between the choice of a note and its push (midi_pipeline.cpp:110-178).
THEOREM PipelineKeepsHostNotes == PSpec => [](TypeOK /\ HostAgrees /\ BlockedOwesAll)
  <1>1. LedgerInv => TypeOK /\ HostAgrees /\ BlockedOwesAll
    BY DEF LedgerInv
  <1> QED BY <1>1, LedgerHolds, PTL

\* The generated events of one process() keep their order when the pipeline
\* re-enters the ledger in the middle of its delivery.
THEOREM PipelineDeliversInOrder == PSpec => EventsInOrder
  <1>1. LedgerInv /\ OrderInv /\ [PNext]_pvars =>
          [(stage \in {"retry", "queued"} /\ stage' # "idle") => NotAfter(last, last')]_vars
    <2> SUFFICES ASSUME LedgerInv, OrderInv, [PNext]_pvars,
                        stage \in {"retry", "queued"}, stage' # "idle"
                 PROVE  NotAfter(last, last')
      OBVIOUS
    <2>1. CASE [Next]_vars
      BY <2>1, OrderStep
    <2>2. CASE Reenter
      BY <2>2, ReenterKeeps
    <2>3. ~ResetLedger /\ \A offset \in Offsets : ~PanicLedger(offset)
      BY DEF ResetLedger, PanicLedger, Idle
    <2> QED BY <2>1, <2>2, <2>3, LedgerView
  <1> QED BY <1>1, LedgerHolds, PTL DEF PSpec, EventsInOrder

LEMMA PipelineDelivers ==
  ASSUME LedgerInv, [PNext]_pvars
  PROVE  DeliveryStep
  <1>1. CASE [Next]_vars
    BY <1>1, ImplementsStep
  <1>2. CASE Reenter
    BY <1>2, BlockStep DEF Reenter, panic
  <1>3. CASE ResetLedger
    <2>1. /\ Owed(voices') = sounding /\ UNCHANGED <<sounding, blocked>>
          /\ hold' = TRUE
      BY <1>3, AllOwed DEF ResetLedger, RequestRelease
    <2>2. Delivery!OweAll
      BY <2>1 DEF Delivery!OweAll, Owed
    <2> QED BY <2>2 DEF DeliveryStep, Delivery!Next
  <1>4. ASSUME NEW offset \in Offsets, PanicLedger(offset) PROVE DeliveryStep
    <2>1. Delivery!Hold
      BY <1>4 DEF PanicLedger, held, Delivery!Hold
    <2> QED BY <2>1 DEF DeliveryStep, Delivery!Next
  <1> QED BY <1>1, <1>2, <1>3, <1>4, LedgerView

\* The whole output path implements note delivery: a refusal met between the choice
\* of a note and its push starts no note on a blocked output, and neither a panic nor
\* a reset reopens one that still owes a release.
THEOREM PipelineImplementsDelivery == PSpec => DeliversNotes
  <1>1. PInit => Delivery!Init
    BY LedgerStartsSilent DEF PInit
  <1>2. LedgerInv /\ OrderInv /\ [PNext]_pvars => [Delivery!Next]_(Delivery!vars)
    BY PipelineDelivers DEF DeliveryStep, Delivery!vars, Owed
  <1> QED BY <1>1, <1>2, LedgerHolds, PTL DEF PSpec, DeliversNotes, Delivery!Spec

-----------------------------------------------------------------------------
(* The pipeline's own variables *)

\* PipelineTypeOK in three parts.
BooleansOK == invalid_event \in BOOLEAN /\ complete \in BOOLEAN /\ retry_panics \in BOOLEAN

ListOK ==
  /\ inputs \in InputLists \cup {<< >>}
  /\ input_index \in 1 .. Len(inputs) + 1
  /\ last_input \in {NoOffset} \cup Offsets
  /\ flushing \in ({NoOffset} \cup Offsets) \X {Off, On}

OutputOK ==
  /\ panic_mask \subseteq Channels
  /\ p_route \in AllRoutes
  /\ p_stage \in {"idle", "panic", "deliver", "panics", "tail"}
  /\ emitted \in ({NoOffset} \cup Offsets) \X (OffClass .. OnClass)

LEMMA RouteType == ASSUME NEW r \in AllRoutes PROVE RouteChannels(r) \subseteq Channels
  <1>1. r.start \in 1 .. NumChannels /\ NumChannels \in Nat \ {0} /\ MaxVoices \in Nat \ {0}
    BY LedgerAssumption DEF AllRoutes
  <1>2. ASSUME NEW k \in 0 .. MaxVoices - 1 PROVE VoiceChannel(r.start, k) \in Channels
    <2>1. r.start - 1 + k \in Nat
      BY <1>1
    <2>2. (r.start - 1 + k) % NumChannels \in 0 .. NumChannels - 1
      BY <1>1, <2>1
    <2> QED BY <1>1, <2>2 DEF VoiceChannel, Channels
  <1> QED BY <1>1, <1>2 DEF RouteChannels, Channels

LEMMA PushType == TypeOK => NextPush \in ({NoOffset} \cup Offsets) \X {Off, On}
  <1> SUFFICES ASSUME TypeOK PROVE NextPush \in ({NoOffset} \cup Offsets) \X {Off, On}
    OBVIOUS
  <1>1. 0 \in Offsets
    BY LedgerAssumption DEF Offsets
  <1>2. Delivering => Event.offset \in Offsets
    BY EventType DEF Transition
  <1> QED BY <1>1, <1>2 DEF NextPush, Nowhere

LEMMA ListType == PipelineTypeOK => inputs \in Seq(InputEvents)
  <1> SUFFICES ASSUME PipelineTypeOK PROVE inputs \in Seq(InputEvents)
    OBVIOUS
  <1>1. << >> \in Seq(InputEvents)
    OBVIOUS
  <1>2. inputs \in InputLists \cup {<< >>}
    BY DEF PipelineTypeOK
  <1> QED BY <1>1, <1>2, PipelineAssumption

\* What an input step looks at.
LEMMA DueInput ==
  ASSUME PipelineTypeOK, FlushDue
  PROVE  /\ p_stage \in {"deliver", "tail"}
         /\ input_index \in 1 .. Len(inputs)
         /\ Input = inputs[input_index] /\ Input \in InputEvents /\ Input.time \in Nat
  <1>1. p_stage \in {"deliver", "tail"} /\ input_index <= Len(inputs)
    BY DEF FlushDue, Due
  <1>2. inputs \in Seq(InputEvents) /\ input_index \in 1 .. Len(inputs) + 1
    BY ListType DEF PipelineTypeOK
  <1>3. input_index \in 1 .. Len(inputs)
    BY <1>1, <1>2
  <1>4. inputs[input_index] \in InputEvents
    BY <1>2, <1>3
  <1> QED BY <1>1, <1>3, <1>4 DEF Input, InputEvents

\* What the end of deliver does to the pipeline.
LEMMA SettleView ==
  ASSUME NEW mask, Settle(mask), BooleansOK, invalid' \in BOOLEAN, p_route \in AllRoutes
  PROVE  /\ invalid_event' \in BOOLEAN
         /\ stage' # "idle" => p_stage' = p_stage /\ panic_mask' = mask
         /\ stage' = "idle" =>
              /\ p_stage' = IF retry_panics THEN "panics" ELSE "tail"
              /\ ~blocked' => panic_mask' = mask
         /\ mask \subseteq Channels => panic_mask' \subseteq Channels
  <1>1. CASE stage' # "idle"
    BY <1>1 DEF Settle, BooleansOK
  <1>2. CASE stage' = "idle"
    <2>1. invalid_event' \in BOOLEAN
      BY <1>2 DEF Settle, BooleansOK
    <2>2. mask \subseteq Channels => panic_mask' \subseteq Channels
      BY <1>2, RouteType DEF Settle
    <2> QED BY <1>2, <2>1, <2>2 DEF Settle
  <1> QED BY <1>1, <1>2

\* What every step of the ledger's delivery does to the pipeline.
LEMMA DeliveryView ==
  ASSUME LedgerStep
  PROVE  /\ p_stage = "deliver" /\ ~FlushDue
         /\ UNCHANGED <<p_route, complete, merge>>
         /\ Settle(panic_mask) \/ Settle(Marked)
         /\ \/ UNCHANGED emitted
            \/ emitted' = <<last'[1], OffClass>>
            \/ emitted' = <<last'[1], OnClass>>
         /\ [Next]_vars
  <1>1. /\ Settle(panic_mask) \/ Settle(Marked)
        /\ \/ UNCHANGED emitted
           \/ emitted' = <<last'[1], OffClass>>
           \/ emitted' = <<last'[1], OnClass>>
    BY DEF LedgerStep, Took, NoPush, Refused, FailedPush
  <1>2. [Next]_vars
    BY DEF LedgerStep, Next, Retry, Deliver
  <1> QED BY <1>1, <1>2 DEF LedgerStep, Ledger

LEMMA PipelineTypeStep ==
  ASSUME TypeOK, TypeOK', PipelineTypeOK, [PNext]_pvars
  PROVE  PipelineTypeOK'
  <1> DEFINE Where == {NoOffset} \cup Offsets
  <1>b. BooleansOK /\ ListOK /\ OutputOK
    BY DEF PipelineTypeOK, BooleansOK, ListOK, OutputOK
  <1>q. BooleansOK' /\ ListOK' /\ OutputOK' => PipelineTypeOK'
    BY DEF PipelineTypeOK, BooleansOK, ListOK, OutputOK
  <1>n. Nowhere \in Where \X {Off, On} /\ Nowhere \in Where \X (OffClass .. OnClass)
    BY DEF Nowhere, Off, OffClass, OnClass
  <1>m. Marked \subseteq Channels /\ panic_mask \subseteq Channels
    BY RouteType DEF Marked, PipelineTypeOK
  <1>l. UNCHANGED merge => ListOK'
    BY <1>b DEF merge, ListOK
  <1>z. <<0, PanicClass>> \in Where \X (OffClass .. OnClass)
    <2>1. 0 \in Offsets
      BY LedgerAssumption DEF Offsets
    <2> QED BY <2>1 DEF PanicClass, OffClass, OnClass
  <1>1. ASSUME NEW a \in BOOLEAN, PForget(a) PROVE PipelineTypeOK'
    <2>1. BooleansOK'
      BY <1>1, <1>b DEF PForget, BooleansOK, merge
    <2>2. OutputOK'
      BY <1>1, <1>b, <1>n, NoCallType DEF PForget, OutputOK
    <2> QED BY <1>1, <1>l, <1>q, <2>1, <2>2 DEF PForget
  <1>2. CASE PBeginBlock
    <2>1. BooleansOK'
      BY <1>2, <1>b DEF PBeginBlock, BooleansOK, merge
    <2>2. OutputOK'
      BY <1>2, <1>b DEF PBeginBlock, OutputOK
    <2> QED BY <1>2, <1>l, <1>q, <2>1, <2>2 DEF PBeginBlock
  <1>3. ASSUME NEW o \in Offsets, NEW k \in {Off, On}, NEW n \in Notes,
               NEW w \in VoiceIds, PQueueTransition(o, k, n, w)
        PROVE  PipelineTypeOK'
    <2>1. invalid_event' = (invalid_event \/ queue' = queue)
          /\ UNCHANGED <<panic_mask, p_route, p_stage, complete, merge, emitted>>
      BY <1>3 DEF PQueueTransition
    <2>2. BooleansOK'
      BY <2>1, <1>b DEF BooleansOK, merge
    <2>3. OutputOK'
      BY <2>1, <1>b DEF OutputOK
    <2> QED BY <1>l, <1>q, <2>1, <2>2, <2>3
  <1>4. ASSUME NEW o \in Offsets, RequestPanic(o) PROVE PipelineTypeOK'
    <2>1. BooleansOK'
      BY <1>4, <1>b DEF RequestPanic, BooleansOK, merge
    <2>2. OutputOK'
      BY <1>4, <1>b DEF RequestPanic, OutputOK
    <2> QED BY <1>4, <1>l, <1>q, <2>1, <2>2 DEF RequestPanic
  <1>5. CASE PanicRelease
    <2>1. (complete' = (complete /\ (voices[index].active => queue' # queue)))
          /\ UNCHANGED <<invalid_event, panic_mask, p_route, p_stage, merge, emitted>>
      BY <1>5 DEF PanicRelease
    <2>2. BooleansOK'
      BY <2>1, <1>b DEF BooleansOK, merge
    <2>3. OutputOK'
      BY <2>1, <1>b DEF OutputOK
    <2> QED BY <1>l, <1>q, <2>1, <2>2, <2>3
  <1>6. CASE PanicQueued
    <2>1. BooleansOK'
      BY <1>6, <1>b DEF PanicQueued, BooleansOK, merge
    <2>2. OutputOK'
      BY <1>6, <1>b DEF PanicQueued, OutputOK
    <2> QED BY <1>6, <1>l, <1>q, <2>1, <2>2 DEF PanicQueued
  <1>7. CASE PanicOverflows
    <2>1. BooleansOK'
      BY <1>7, <1>b DEF PanicOverflows, BooleansOK, merge
    <2>2. OutputOK'
      BY <1>7, <1>b, <1>m DEF PanicOverflows, OutputOK
    <2> QED BY <1>7, <1>l, <1>q, <2>1, <2>2 DEF PanicOverflows
  <1>8. CASE RequestReset
    <2>1. BooleansOK'
      BY <1>8, <1>b DEF RequestReset, BooleansOK, merge
    <2>2. OutputOK'
      BY <1>8, <1>b DEF RequestReset, OutputOK
    <2> QED BY <1>8, <1>l, <1>q, <2>1, <2>2 DEF RequestReset
  <1>9. CASE ProcessInvalid
    <2>1. BooleansOK'
      BY <1>9, <1>b DEF ProcessInvalid, BooleansOK, merge
    <2>2. OutputOK'
      BY <1>9, <1>b DEF ProcessInvalid, OutputOK
    <2> QED BY <1>9, <1>l, <1>q, <2>1, <2>2 DEF ProcessInvalid
  <1>10. ASSUME NEW r \in Routes, NEW list \in InputLists, Process(r, list)
         PROVE  PipelineTypeOK'
    <2>1. BooleansOK'
      BY <1>10, <1>b DEF Process, BooleansOK
    <2>2. OutputOK'
      BY <1>10, <1>b, <1>n, LedgerAssumption DEF Process, OutputOK
    <2>3. ListOK'
      <3>1. /\ inputs' = list /\ input_index' = 1 /\ last_input' = NoOffset
            /\ flushing' = Nowhere
        BY <1>10 DEF Process
      <3>2. list \in Seq(InputEvents)
        BY PipelineAssumption
      <3>3. 1 \in 1 .. Len(list) + 1
        BY <3>2
      <3> QED BY <3>1, <3>3, <1>n DEF ListOK
    <2> QED BY <1>q, <2>1, <2>2, <2>3
  <1>f. ASSUME FlushDue, input_index' = input_index + 1, UNCHANGED inputs,
               flushing' \in Where \X {Off, On}, last_input' \in Where
        PROVE  ListOK'
    <2>1. input_index + 1 \in 1 .. Len(inputs) + 1
      BY <1>f, DueInput
    <2> QED BY <1>f, <2>1, <1>b DEF ListOK
  <1>t. FlushDue /\ ~BadTime => Input.time \in Offsets
    BY DueInput, LedgerAssumption DEF BadTime, Offsets
  <1>11. CASE FlushSkip
    <2>1. BooleansOK'
      BY <1>11, <1>b DEF FlushSkip, BooleansOK
    <2>2. OutputOK'
      BY <1>11, <1>b DEF FlushSkip, OutputOK
    <2>3. ListOK'
      BY <1>11, <1>f, <1>b DEF FlushSkip, ListOK
    <2> QED BY <1>q, <2>1, <2>2, <2>3
  <1>12. CASE FlushOther
    <2>1. BooleansOK'
      BY <1>12, <1>b DEF FlushOther, BooleansOK
    <2>2. OutputOK'
      BY <1>12, <1>b DEF FlushOther, OutputOK
    <2>3. ListOK'
      BY <1>12, <1>f, <1>t, <1>b DEF FlushOther, ListOK
    <2> QED BY <1>q, <2>1, <2>2, <2>3
  <1>13. CASE InputAccepted
    <2>1. BooleansOK'
      BY <1>13, <1>b DEF InputAccepted, BooleansOK
    <2>2. OutputOK'
      <3>1. emitted' = <<Input.time, InputClass>> /\ Input.time \in Offsets
        BY <1>13, <1>t DEF InputAccepted, OfferInput
      <3>2. InputClass \in OffClass .. OnClass
        BY DEF InputClass, OffClass, OnClass
      <3> QED BY <1>13, <3>1, <3>2, <1>b DEF InputAccepted, OutputOK
    <2>3. ListOK'
      BY <1>13, <1>f, <1>t, <1>b DEF InputAccepted, OfferInput, ListOK
    <2> QED BY <1>q, <2>1, <2>2, <2>3
  <1>14. CASE InputRefused
    <2>1. BooleansOK'
      BY <1>14, <1>b DEF InputRefused, BooleansOK
    <2>2. OutputOK'
      BY <1>14, <1>b, <1>m DEF InputRefused, OutputOK
    <2>3. flushing' \in Where \X {Off, On}
      BY <1>14, <1>b, PushType DEF InputRefused, ListOK
    <2>4. ListOK'
      BY <1>14, <2>3, <1>f, <1>t DEF InputRefused, OfferInput
    <2> QED BY <1>q, <2>1, <2>2, <2>4
  <1>15. CASE LedgerStep
    <2>1. /\ invalid_event' \in BOOLEAN /\ panic_mask' \subseteq Channels
          /\ p_stage' \in {"deliver", "panics", "tail"}
      BY <1>15, <1>b, <1>m, DeliveryView, SettleView DEF TypeOK, OutputOK
    <2>2. UNCHANGED <<p_route, complete, merge>>
      BY <1>15, DeliveryView
    <2>3. BooleansOK'
      BY <2>1, <2>2, <1>b DEF BooleansOK, merge
    <2>4. emitted' \in Where \X (OffClass .. OnClass)
      <3>1. last'[1] \in Offsets
        BY DEF TypeOK
      <3> QED BY <1>15, <3>1, <1>b, DeliveryView DEF OutputOK, OffClass, OnClass
    <2>5. OutputOK'
      BY <2>1, <2>2, <2>4, <1>b DEF OutputOK
    <2> QED BY <1>l, <1>q, <2>2, <2>3, <2>5
  <1>16. CASE PanicsOver
    <2>1. BooleansOK'
      BY <1>16, <1>b DEF PanicsOver, BooleansOK, merge
    <2>2. OutputOK'
      BY <1>16, <1>b DEF PanicsOver, OutputOK
    <2> QED BY <1>16, <1>l, <1>q, <2>1, <2>2 DEF PanicsOver
  <1>17. ASSUME NEW c \in Channels, PanicAccepted(c) PROVE PipelineTypeOK'
    <2>1. BooleansOK'
      BY <1>17, <1>b DEF PanicAccepted, BooleansOK, merge
    <2>2. OutputOK'
      BY <1>17, <1>b, <1>m, <1>z DEF PanicAccepted, OutputOK
    <2> QED BY <1>17, <1>l, <1>q, <2>1, <2>2 DEF PanicAccepted
  <1>18. ASSUME NEW c \in Channels, PanicRefused(c) PROVE PipelineTypeOK'
    <2>1. BooleansOK'
      BY <1>18, <1>b DEF PanicRefused, BooleansOK, merge
    <2>2. OutputOK'
      BY <1>18, <1>b, <1>z DEF PanicRefused, OutputOK
    <2> QED BY <1>18, <1>l, <1>q, <2>1, <2>2 DEF PanicRefused
  <1>19. CASE ProcessReturns
    <2>1. BooleansOK'
      BY <1>19, <1>b DEF ProcessReturns, BooleansOK
    <2>2. OutputOK'
      BY <1>19, <1>b, <1>n DEF ProcessReturns, OutputOK
    <2>3. ListOK'
      BY <1>19, <1>n DEF ProcessReturns, ListOK
    <2> QED BY <1>q, <2>1, <2>2, <2>3
  <1>20. CASE UNCHANGED pvars
    <2>1. BooleansOK' /\ OutputOK' /\ ListOK'
      BY <1>20, <1>b DEF pvars, merge, BooleansOK, OutputOK, ListOK
    <2> QED BY <2>1, <1>q
  <1> QED
    BY <1>1, <1>2, <1>3, <1>4, <1>5, <1>6, <1>7, <1>8, <1>9, <1>10, <1>11, <1>12,
       <1>13, <1>14, <1>15, <1>16, <1>17, <1>18, <1>19, <1>20 DEF PNext

LEMMA PipelineTypeStart == PInit => PipelineTypeOK
  <1> SUFFICES ASSUME PInit PROVE PipelineTypeOK
    OBVIOUS
  <1>1. BooleansOK
    BY DEF PInit, BooleansOK
  <1>2. OutputOK
    BY NoCallType DEF PInit, OutputOK, Nowhere, Off, OffClass, OnClass
  <1>3. ListOK
    BY DEF PInit, ListOK, Nowhere, Off
  <1> QED BY <1>1, <1>2, <1>3 DEF PipelineTypeOK, BooleansOK, OutputOK, ListOK

\* The pipeline's variables keep to their types: the route's channels wrap into
\* MIDI's, and the walk over the host's list stays inside it.
THEOREM PipelineTypes == PSpec => []PipelineTypeOK
  <1>1. LedgerInv /\ OrderInv /\ PipelineTypeOK /\ [PNext]_pvars
          => LedgerInv' /\ OrderInv' /\ PipelineTypeOK'
    BY LedgerKept, PipelineTypeStep DEF LedgerInv
  <1> QED BY <1>1, LedgerStarts, PipelineTypeStart, PTL DEF PSpec

-----------------------------------------------------------------------------
(* Channel panics: an open output owes none between calls *)

\* The calls other than process().
Outside ==
  \/ \E allocated \in BOOLEAN : PForget(allocated)
  \/ PBeginBlock
  \/ \E offset \in Offsets, kind \in {Off, On}, note \in Notes, voice_id \in VoiceIds :
       PQueueTransition(offset, kind, note, voice_id)
  \/ \E offset \in Offsets : RequestPanic(offset)
  \/ PanicRelease \/ PanicQueued \/ PanicOverflows
  \/ RequestReset
  \/ ProcessInvalid

LEMMA OutsideView ==
  ASSUME StageInv, MaskInv, Outside
  PROVE  /\ p_stage' \in {"idle", "panic"} /\ p_stage \in {"idle", "panic"}
         /\ UNCHANGED merge
         /\ StageInv'
         /\ ~blocked' => panic_mask' = {}
  <1> USE DEF StageInv, PIdle, Idle
  <1>c. p_stage # "panics" /\ ~blocked => panic_mask = {}
    BY DEF MaskInv
  <1>1. ASSUME NEW a \in BOOLEAN, PForget(a)
        PROVE  /\ p_stage' = "idle" /\ p_stage = "idle" /\ stage' = "idle"
               /\ UNCHANGED merge /\ panic_mask' = {}
    BY <1>1 DEF PForget, Forget, call
  <1>2. CASE PBeginBlock
    BY <1>2, <1>c DEF PBeginBlock, BeginBlock, call
  <1>3. ASSUME NEW o \in Offsets, NEW k \in {Off, On}, NEW n \in Notes,
               NEW w \in VoiceIds, PQueueTransition(o, k, n, w)
        PROVE  /\ p_stage' = "idle" /\ p_stage = "idle" /\ stage' = "idle"
               /\ UNCHANGED <<merge, panic_mask, blocked>>
    BY <1>3 DEF PQueueTransition, QueueTransition, QueueInvalid, call
  <1>4. ASSUME NEW o \in Offsets, RequestPanic(o)
        PROVE  /\ p_stage' = "panic" /\ p_stage = "idle" /\ stage' = "releases"
               /\ UNCHANGED <<merge, panic_mask, blocked>>
    BY <1>4 DEF RequestPanic
  <1>5. CASE PanicRelease
    BY <1>5, <1>c DEF PanicRelease, QueueRelease, Return
  <1>6. CASE PanicQueued
    BY <1>6, <1>c DEF PanicQueued, vars, call
  <1>7. CASE PanicOverflows
    BY <1>7 DEF PanicOverflows, EnterBlocked, call
  <1>8. CASE RequestReset
    BY <1>8, <1>c DEF RequestReset, call
  <1>9. CASE ProcessInvalid
    BY <1>9, <1>c DEF ProcessInvalid, vars, call
  <1> QED BY <1>c, <1>1, <1>2, <1>3, <1>4, <1>5, <1>6, <1>7, <1>8, <1>9 DEF Outside

\* What a host event's turn leaves alone.
LEMMA FlushView ==
  ASSUME FlushSkip \/ FlushOther \/ InputAccepted
  PROVE  /\ FlushDue
         /\ UNCHANGED <<vars, panic_mask, p_stage, flushing, retry_panics, inputs>>
  BY DEF FlushSkip, FlushOther, InputAccepted, OfferInput

\* No host event goes before an owed release, which is sent at the block's start;
\* nor does one go before a push that a blocked output never makes.
LEMMA OfferWhere ==
  ASSUME TypeOK, PipelineTypeOK, StageInv, LoopInv, OfferInput
  PROVE  /\ p_stage = "tail" \/ (Queued /\ ~retry_panics)
         /\ ~blocked /\ p_stage = "deliver" => NextPush # Nowhere /\ Due(NextPush)
  <1>1. FlushDue /\ Input.kind = "midi" /\ Input.time \in Nat
    BY DueInput DEF OfferInput
  <1>2. ~Due(Nowhere)
    BY DEF Due
  <1>3. ASSUME Retrying PROVE FALSE
    <2>1. flushing = Nowhere /\ NextPush \in {Nowhere, <<0, Off>>}
      BY <1>3 DEF LoopInv, Retrying, NextPush, Delivering
    <2>2. ~Due(<<0, Off>>)
      BY <1>1 DEF Due, Off, On
    <2> QED BY <1>1, <1>2, <1>3, <2>1, <2>2 DEF FlushDue, Retrying
  <1>4. ASSUME p_stage = "deliver", flushing = Nowhere
        PROVE  NextPush # Nowhere /\ Due(NextPush)
    BY <1>1, <1>2, <1>4 DEF FlushDue
  <1>5. Queued /\ blocked => NextPush = Nowhere
    BY DEF Queued, NextPush, Delivering
  <1>6. p_stage = "deliver" => Queued
    BY <1>3 DEF StageInv, Queued, Retrying
  <1>7. p_stage = "deliver" => ~retry_panics
    BY <1>4, <1>5, <1>6 DEF LoopInv
  <1>8. p_stage = "deliver" \/ p_stage = "tail"
    BY <1>1 DEF FlushDue
  <1> QED BY <1>4, <1>6, <1>7, <1>8 DEF LoopInv

\* A step of the ledger's delivery, by what it means for the debts.
Retries    == /\ stage = "retry" /\ UNCHANGED <<stage, blocked, cleanup>>
              /\ Settle(panic_mask)
RetryFails == /\ stage = "retry" /\ stage' \in {"queued", "idle"}
              /\ blocked' /\ ~cleanup' /\ Settle(Marked)
RetryEnds  == /\ stage = "retry" /\ stage' \in {"queued", "idle"}
              /\ ~ReleasePending(voices') /\ UNCHANGED blocked /\ Settle(panic_mask)
Sends      == /\ stage = "queued" /\ UNCHANGED <<stage, blocked, cleanup>>
              /\ ~blocked /\ ~ReleasePending(voices') /\ Settle(panic_mask)
Fails      == /\ stage = "queued" /\ UNCHANGED stage
              /\ blocked' /\ ~cleanup' /\ (Settle(panic_mask) \/ Settle(Marked))
Ends       == /\ stage = "queued" /\ stage' = "idle" /\ UNCHANGED voices
              /\ Settle(panic_mask)
              /\ blocked' = blocked \/ (cleanup /\ ~blocked')

LEMMA DeliverySteps ==
  ASSUME LedgerInv, LedgerStep
  PROVE  Retries \/ RetryFails \/ RetryEnds \/ Sends \/ Fails \/ Ends
  <1>t. TypeOK
    BY DEF LedgerInv
  <1>e. EndRetry => stage' \in {"queued", "idle"}
    BY <1>t, EndRetryType
  <1>1. ASSUME NEW s \in Slots, RetryAccepted(s), Took(OffClass) PROVE Retries
    BY <1>1 DEF RetryAccepted, Took, Retries
  <1>2. ASSUME NEW s \in Slots, RetryRefused(s), Refused PROVE RetryFails
    BY <1>2, <1>e DEF RetryRefused, EnterBlocked, Refused, RetryFails
  <1>3. ASSUME RetryDone, NoPush PROVE RetryEnds
    BY <1>3, <1>e DEF RetryDone, NoPush, RetryEnds, held
  <1>4. ASSUME NEW s \in Slots, OffAccepted(s), Took(OffClass) PROVE Sends
    <2>1. Held(voices[s]) /\ Release(s)
      BY <1>4 DEF OffAccepted, FirstOf, Matches
    <2>2. ~ReleasePending(voices')
      BY <1>4, <2>1, ReleaseAgrees DEF OffAccepted, Delivering, ReleasePending
    <2> QED BY <1>4, <2>2 DEF OffAccepted, Delivering, Sent, Took, Sends
  <1>5. ASSUME NEW s \in Slots, NEW c \in Channels, OnAccepted(s, c), Took(OnClass)
        PROVE  Sends
    BY <1>5, OnAgrees DEF OnAccepted, Delivering, Sent, Took, Sends
  <1>6. ASSUME OnHeldBack, NoPush PROVE Sends
    BY <1>6 DEF OnHeldBack, Delivering, NoPush, Sends, held
  <1>7. ASSUME OffFailed \/ OnFailed, FailedPush PROVE Fails
    <2>1. Settle(panic_mask) \/ Settle(Marked)
      BY <1>7 DEF FailedPush, NoPush, Refused
    <2> QED BY <1>7, <2>1
            DEF OffFailed, OnFailed, Delivering, EnterBlocked, Fails, call
  <1>8. ASSUME NEW quiet \in BOOLEAN, FinishHold(quiet), NoPush PROVE Ends
    <2>1. blocked' = blocked \/ (cleanup /\ ~blocked')
      BY <1>8 DEF FinishHold, Recovered
    <2> QED BY <1>8, <2>1 DEF FinishHold, Return, NoPush, Ends, held
  <1> QED BY <1>1, <1>2, <1>3, <1>4, <1>5, <1>6, <1>7, <1>8 DEF LedgerStep

DebtInv == StageInv /\ MaskInv /\ LoopInv

LEMMA DeliveryDebts ==
  ASSUME LedgerInv, LedgerInv', PipelineTypeOK, DebtInv, LedgerStep
  PROVE  DebtInv'
  <1> USE DEF StageInv, MaskInv, LoopInv, Retrying, Queued, AfterRetry
  <1>1. /\ p_stage = "deliver" /\ UNCHANGED <<flushing, retry_panics>>
        /\ StageInv /\ MaskInv /\ LoopInv
    BY DeliveryView DEF merge, DebtInv
  <1>s. ASSUME NEW mask, Settle(mask)
        PROVE  /\ stage' # "idle" => p_stage' = "deliver" /\ panic_mask' = mask
               /\ stage' = "idle" =>
                    /\ p_stage' = IF retry_panics THEN "panics" ELSE "tail"
                    /\ ~blocked' => panic_mask' = mask
    <2>1. BooleansOK /\ invalid' \in BOOLEAN /\ p_route \in AllRoutes
      BY DEF PipelineTypeOK, BooleansOK, LedgerInv, TypeOK
    <2> QED BY <1>1, <1>s, <2>1, SettleView
  <1>2. CASE Retries
    BY <1>1, <1>2, <1>s DEF Retries, DebtInv
  <1>3. CASE RetryFails
    BY <1>1, <1>3, <1>s DEF RetryFails, DebtInv
  <1>4. CASE RetryEnds
    BY <1>1, <1>4, <1>s DEF RetryEnds, DebtInv
  <1>5. CASE Sends
    BY <1>1, <1>5, <1>s DEF Sends, DebtInv
  <1>6. CASE Fails
    BY <1>1, <1>6, <1>s DEF Fails, DebtInv
  <1>7. CASE Ends
    <2>1. /\ stage' = "idle" /\ p_stage' = IF retry_panics THEN "panics" ELSE "tail"
          /\ ~blocked' => panic_mask' = panic_mask
      BY <1>7, <1>s DEF Ends
    <2>2. ~blocked' => ~ReleasePending(voices')
      BY <1>1, <1>7 DEF Ends, LedgerInv, CleanupIsCurrent
    <2>3. ~blocked' /\ ~retry_panics => panic_mask = {}
      BY <1>1, <1>7 DEF Ends
    <2> QED BY <2>1, <2>2, <2>3 DEF DebtInv
  <1> QED BY <1>2, <1>3, <1>4, <1>5, <1>6, <1>7, DeliverySteps

LEMMA DebtStep ==
  ASSUME LedgerInv, LedgerInv', PipelineTypeOK, DebtInv, [PNext]_pvars
  PROVE  DebtInv'
  <1> USE DEF StageInv, MaskInv, LoopInv, Retrying, Queued, AfterRetry, DebtInv
  <1>1. CASE Outside
    <2>1. /\ p_stage' \in {"idle", "panic"} /\ StageInv'
          /\ ~blocked' => panic_mask' = {}
      BY <1>1, OutsideView
    <2> QED BY <2>1
  <1>2. ASSUME NEW r \in Routes, NEW list \in InputLists, Process(r, list) PROVE DebtInv'
    <2>1. /\ p_stage = "idle" /\ p_stage' = "deliver" /\ stage' = "retry"
          /\ flushing' = Nowhere /\ retry_panics' = (panic_mask # {})
          /\ UNCHANGED <<panic_mask, blocked>>
      BY <1>2 DEF Process, CallDeliver, PIdle
    <2>2. retry_panics' => blocked
      BY <2>1
    <2> QED BY <2>1, <2>2
  <1>3. CASE FlushSkip \/ FlushOther \/ InputAccepted
    <2>1. UNCHANGED <<vars, panic_mask, p_stage, flushing, retry_panics>>
      BY <1>3, FlushView
    <2>2. UNCHANGED <<stage, blocked, cleanup, voices>>
      BY <2>1 DEF vars, held, call
    <2> QED BY <2>1, <2>2 DEF ReleasePending
  <1>4. CASE InputRefused
    <2>1. p_stage = "tail" \/ (Queued /\ ~retry_panics)
      BY <1>4, OfferWhere DEF InputRefused, LedgerInv
    <2>2. blocked' /\ ~cleanup' /\ UNCHANGED <<stage, p_stage, retry_panics>>
      BY <1>4 DEF InputRefused, EnterBlocked, call
    <2> QED BY <2>1, <2>2
  <1>5. CASE LedgerStep
    BY <1>5, DeliveryDebts
  <1>6. CASE PanicsOver
    <2>1. /\ p_stage = "panics" /\ p_stage' = "tail"
          /\ panic_mask = {} \/ ReleasePending(voices)
          /\ UNCHANGED <<stage, blocked, voices, panic_mask>>
      BY <1>6 DEF PanicsOver, vars, held, call
    <2> QED BY <2>1 DEF ReleasePending
  <1>7. ASSUME NEW c \in Channels, PanicAccepted(c) PROVE DebtInv'
    <2>1. /\ p_stage = "panics" /\ p_stage' = "panics"
          /\ UNCHANGED <<stage, blocked, voices>>
      BY <1>7 DEF PanicAccepted, NextPanic, vars, held, call
    <2> QED BY <2>1 DEF ReleasePending
  <1>8. ASSUME NEW c \in Channels, PanicRefused(c) PROVE DebtInv'
    <2>1. p_stage = "panics" /\ p_stage' = "tail" /\ blocked' /\ UNCHANGED stage
      BY <1>8 DEF PanicRefused, NextPanic, EnterBlocked, call
    <2> QED BY <2>1
  <1>9. CASE ProcessReturns
    <2>1. /\ p_stage = "tail" /\ p_stage' = "idle"
          /\ UNCHANGED <<stage, blocked, panic_mask>>
      BY <1>9 DEF ProcessReturns, vars, call
    <2> QED BY <2>1
  <1>10. CASE UNCHANGED pvars
    <2>1. UNCHANGED <<stage, blocked, cleanup, voices, panic_mask, p_stage, flushing,
                      retry_panics>>
      BY <1>10 DEF pvars, vars, held, call, merge
    <2> QED BY <2>1 DEF ReleasePending
  <1> QED
    BY <1>1, <1>2, <1>3, <1>4, <1>5, <1>6, <1>7, <1>8, <1>9, <1>10 DEF PNext, Outside

LEMMA DebtStart == PInit => DebtInv
  BY DEF PInit, Init, DebtInv, StageInv, MaskInv, LoopInv, Retrying, Queued, AfterRetry

\* What the rest of the proofs build on.
CoreInv == LedgerInv /\ OrderInv /\ PipelineTypeOK /\ DebtInv

LEMMA CoreStep == CoreInv /\ [PNext]_pvars => CoreInv'
  BY LedgerKept, PipelineTypeStep, DebtStep DEF CoreInv, LedgerInv

LEMMA CoreStart == PInit => CoreInv
  BY LedgerStarts, PipelineTypeStart, DebtStart DEF CoreInv

LEMMA CoreHolds == PSpec => []CoreInv
  BY CoreStart, CoreStep, PTL DEF PSpec

\* Between calls an open output owes no channel panic, for every route and every
\* pattern of refusals: the hold that reopens the output in the middle of process()
\* leaves no panic unsent (midi_pipeline.cpp:180-201, 226-243).
THEOREM OpenOutputIsClean == PSpec => []OpenMeansClean
  <1>1. CoreInv => OpenMeansClean
    BY DEF CoreInv, DebtInv, MaskInv, OpenMeansClean, PIdle
  <1> QED BY <1>1, CoreHolds, PTL

-----------------------------------------------------------------------------
(* Order of everything the host takes in one process() *)

LEMMA EventTime == \A e \in InputEvents : e.time \in Nat
  BY DEF InputEvents

LEMMA InputTimes ==
  ASSUME PipelineTypeOK
  PROVE  \A i \in 1 .. Len(inputs) : inputs[i] \in InputEvents /\ inputs[i].time \in Nat
  <1>1. \A i \in 1 .. Len(inputs) : inputs[i] \in InputEvents
    BY ListType
  <1> QED BY <1>1, EventTime

LEMMA EmittedNumbers ==
  PipelineTypeOK => emitted[1] \in Int /\ emitted[2] \in Int
  BY DEF PipelineTypeOK, Offsets, NoOffset, OffClass, OnClass

LEMMA ClassNumbers == \A k \in {0, 1} : Class(k) \in {0, 3}
  BY DEF Class, Off, OffClass, OnClass

\* Before anything but an owed release was sent, everything is still ahead.
LEMMA AtStart ==
  ASSUME TypeOK, PipelineTypeOK,
         emitted \in {Nowhere, <<0, OffClass>>, <<0, PanicClass>>}
  PROVE  /\ InputsAhead
         /\ NotAfter(emitted, <<0, PanicClass>>)
         /\ emitted # <<0, PanicClass>> =>
              /\ \A i \in 1 .. Len(queue) :
                   NotAfter(emitted, <<queue[i].offset, Class(queue[i].kind)>>)
              /\ NotAfter(emitted, <<0, OffClass>>)
  <1> USE DEF NotAfter, Nowhere, NoOffset, Off, OffClass, PanicClass, InputClass
  <1>1. InputsAhead
    <2>1. \A i \in input_index .. Len(inputs) : inputs[i].time \in Nat
      BY InputTimes DEF PipelineTypeOK
    <2> QED BY <2>1 DEF InputsAhead
  <1>2. \A i \in 1 .. Len(queue) :
          queue[i].offset \in Nat /\ Class(queue[i].kind) \in {0, 3}
    BY QueuedFields, ClassNumbers
  <1> QED BY <1>1, <1>2

\* The entries after the one at the index come after it.
LEMMA LaterEntries ==
  ASSUME OrderInv, index \in 1 .. Len(queue), NEW i \in index .. Len(queue)
  PROVE  /\ queue[i].offset \in Nat /\ queue[i].kind \in {0, 1}
         /\ queue[index].offset \in Nat /\ queue[index].kind \in {0, 1}
         /\ \/ queue[index].offset < queue[i].offset
            \/ /\ queue[index].offset = queue[i].offset
               /\ queue[index].kind <= queue[i].kind
  <1>1. /\ queue[i].offset \in Nat /\ queue[i].kind \in {0, 1}
        /\ queue[index].offset \in Nat /\ queue[index].kind \in {0, 1}
    BY QueuedFields DEF OrderInv
  <1>2. CASE i = index
    BY <1>1, <1>2
  <1>3. CASE i # index
    <2>1. index < i /\ i \in 1 .. Len(queue)
      BY <1>3
    <2>2. ~TransitionBefore(queue[i], queue[index])
      BY <2>1 DEF OrderInv, Sorted
    <2> QED BY <1>1, <2>2 DEF TransitionBefore
  <1> QED BY <1>2, <1>3

\* The ledger pushes the entry at its index.
PushesEntry ==
  /\ Delivering
  /\ NextPush = <<Event.offset, Event.kind>>
  /\ emitted' = <<Event.offset, Class(Event.kind)>>
  /\ index' = index + 1
  /\ UNCHANGED <<stage, p_stage>>

LEMMA DeliveryPushes ==
  ASSUME CoreInv, LedgerStep
  PROVE  /\ UNCHANGED queue
         /\ \/ stage = "retry" /\ emitted' = <<0, OffClass>> /\ UNCHANGED <<stage, p_stage>>
            \/ PushesEntry
            \/ stage = "retry" /\ stage' \in {"idle", "queued"} /\ UNCHANGED emitted
            \/ /\ stage = "queued" /\ UNCHANGED emitted
               /\ \/ stage' = "idle"
                  \/ blocked' /\ UNCHANGED stage
                  \/ index' = index + 1 /\ UNCHANGED <<stage, p_stage, blocked>>
  <1>t. TypeOK
    BY DEF CoreInv, LedgerInv
  <1>e. EndRetry => stage' \in {"queued", "idle"}
    BY <1>t, EndRetryType
  <1>k. Delivering => Event.kind \in {Off, On}
    BY <1>t, EventType DEF Transition
  <1>q. UNCHANGED queue
    BY DEF LedgerStep, RetryAccepted, RetryRefused, RetryDone, OffAccepted, OnAccepted,
           OnHeldBack, OffFailed, OnFailed, FinishHold, Sent, block
  <1>1. ASSUME NEW s \in Slots, RetryAccepted(s), Took(OffClass)
        PROVE  stage = "retry" /\ emitted' = <<0, OffClass>> /\ UNCHANGED <<stage, p_stage>>
    BY <1>1 DEF RetryAccepted, Took, Settle
  <1>2. ASSUME NEW s \in Slots, RetryRefused(s), Refused
        PROVE  stage = "retry" /\ stage' \in {"idle", "queued"} /\ UNCHANGED emitted
    BY <1>2, <1>e DEF RetryRefused, Refused
  <1>3. ASSUME RetryDone, NoPush
        PROVE  stage = "retry" /\ stage' \in {"idle", "queued"} /\ UNCHANGED emitted
    BY <1>3, <1>e DEF RetryDone, NoPush
  <1>s. Sent => /\ last' = <<Event.offset, Event.kind>> /\ last'[1] = Event.offset
                /\ index' = index + 1 /\ UNCHANGED stage
    BY DEF Sent
  <1>4. ASSUME NEW s \in Slots, OffAccepted(s), Took(OffClass) PROVE PushesEntry
    <2>1. /\ Delivering /\ Event.kind = Off /\ Matches(voices, Event) # {}
          /\ last'[1] = Event.offset /\ index' = index + 1 /\ stage' = "queued"
      BY <1>4, <1>s DEF OffAccepted, FirstOf, Delivering
    <2>2. NextPush = <<Event.offset, Off>>
      BY <2>1 DEF NextPush, Delivering
    <2>3. emitted' = <<Event.offset, OffClass>> /\ UNCHANGED p_stage
      BY <1>4, <2>1 DEF Took, Settle
    <2> QED BY <2>1, <2>2, <2>3 DEF PushesEntry, Class, Delivering
  <1>5. ASSUME NEW s \in Slots, NEW c \in Channels, OnAccepted(s, c), Took(OnClass)
        PROVE  PushesEntry
    <2>1. /\ Delivering /\ Event.kind = On /\ ~hold
          /\ ~IdentityInUse(voices, Event) /\ active_count < MaxVoices
          /\ Allocates(voices, route, Event, c)
          /\ last'[1] = Event.offset /\ index' = index + 1 /\ stage' = "queued"
      BY <1>5, <1>s DEF OnAccepted, Delivering
    <2>2. NextPush = <<Event.offset, On>>
      BY <2>1 DEF NextPush, Delivering, Off, On
    <2>3. emitted' = <<Event.offset, OnClass>> /\ UNCHANGED p_stage
      BY <1>5, <2>1 DEF Took, Settle
    <2> QED BY <2>1, <2>2, <2>3 DEF PushesEntry, Class, Delivering, Off, On
  <1>6. ASSUME OnHeldBack, NoPush
        PROVE  /\ stage = "queued" /\ UNCHANGED emitted
               /\ index' = index + 1 /\ UNCHANGED <<stage, p_stage, blocked>>
    BY <1>6 DEF OnHeldBack, Delivering, NoPush, Settle
  <1>7. ASSUME OffFailed \/ OnFailed, FailedPush
        PROVE  stage = "queued" /\ UNCHANGED emitted /\ blocked' /\ UNCHANGED stage
    BY <1>7 DEF OffFailed, OnFailed, Delivering, EnterBlocked, FailedPush, NoPush,
                Refused, call
  <1>8. ASSUME NEW quiet \in BOOLEAN, FinishHold(quiet), NoPush
        PROVE  stage = "queued" /\ UNCHANGED emitted /\ stage' = "idle"
    BY <1>8 DEF FinishHold, Return, NoPush
  <1> QED BY <1>q, <1>1, <1>2, <1>3, <1>4, <1>5, <1>6, <1>7, <1>8 DEF LedgerStep

\* The order a step must keep.
Ordered == p_stage # "idle" /\ p_stage' # "idle" /\ Ascending(inputs)
             => NotAfter(emitted, emitted')

\* A host event goes ahead of the push that waits for it.
LEMMA OfferAhead ==
  ASSUME CoreInv, SentInv, InputAccepted
  PROVE  SentInv' /\ Ordered
  <1> USE DEF CoreInv, LedgerInv
  <1>1. /\ FlushDue
        /\ UNCHANGED <<vars, panic_mask, p_stage, flushing, retry_panics, inputs>>
        /\ input_index' = input_index + 1 /\ Input.kind = "midi"
        /\ emitted' = <<Input.time, InputClass>>
        /\ p_stage = "tail" \/ (Queued /\ ~retry_panics)
        /\ ~blocked /\ p_stage = "deliver" => NextPush # Nowhere /\ Due(NextPush)
    BY FlushView, OfferWhere DEF InputAccepted, OfferInput, DebtInv
  <1>2. /\ p_stage \in {"deliver", "tail"}
        /\ input_index \in 1 .. Len(inputs)
        /\ Input = inputs[input_index] /\ Input.time \in Nat
    BY <1>1, DueInput
  <1>3. UNCHANGED <<stage, blocked, queue, index>>
    BY <1>1 DEF vars, call, block
  <1>4. Ordered
    BY <1>1, <1>2 DEF SentInv, InputsAhead, Ordered
  <1>5. ASSUME Ascending(inputs) PROVE InputsAhead'
    <2>1. ASSUME NEW i \in input_index + 1 .. Len(inputs)
          PROVE  NotAfter(<<Input.time, InputClass>>, <<inputs[i].time, InputClass>>)
      <3>1. i \in 1 .. Len(inputs) /\ input_index < i
        BY <1>2
      <3>2. inputs[input_index].time <= inputs[i].time
        BY <1>2, <1>5, <3>1 DEF Ascending
      <3>3. inputs[i].time \in Nat
        BY <3>1, InputTimes
      <3> QED BY <1>2, <3>2, <3>3 DEF NotAfter, InputClass
    <2> QED BY <1>1, <2>1 DEF InputsAhead
  <1>6. ASSUME Queued, ~blocked PROVE QueueAhead'
    <2>1. NextPush # Nowhere /\ Due(NextPush) /\ Queued
      BY <1>1, <1>6 DEF Queued
    <2>2. Delivering /\ NextPush = <<Event.offset, Event.kind>>
      BY <2>1 DEF NextPush, Queued
    <2>3. index \in 1 .. Len(queue) /\ Event = queue[index]
      BY <2>2 DEF Delivering, Event, TypeOK
    <2>4. \/ Input.time < queue[index].offset
          \/ Input.time = queue[index].offset /\ queue[index].kind = On
      BY <1>1, <2>1, <2>2, <2>3 DEF Due
    <2>5. ASSUME NEW i \in index .. Len(queue)
          PROVE  NotAfter(<<Input.time, InputClass>>,
                          <<queue[i].offset, Class(queue[i].kind)>>)
      <3>1. /\ queue[i].offset \in Nat /\ queue[i].kind \in {0, 1}
            /\ queue[index].offset \in Nat /\ queue[index].kind \in {0, 1}
            /\ \/ queue[index].offset < queue[i].offset
               \/ /\ queue[index].offset = queue[i].offset
                  /\ queue[index].kind <= queue[i].kind
        BY <2>3, <2>5, LaterEntries
      <3>2. Class(1) = 3
        BY DEF Class, Off, OnClass
      <3> QED BY <1>2, <2>4, <3>1, <3>2, ClassNumbers DEF NotAfter, InputClass, On
    <2> QED BY <1>1, <1>3, <2>5 DEF QueueAhead
  <1>7. SentInv'
    BY <1>1, <1>2, <1>3, <1>5, <1>6 DEF SentInv, Retrying, Queued
  <1> QED BY <1>4, <1>7

\* The ledger pushes nothing that a host event or an earlier push should follow.
LEMMA PushAhead ==
  ASSUME CoreInv, SentInv, ~FlushDue, p_stage = "deliver", PushesEntry,
         UNCHANGED <<queue, merge>>
  PROVE  SentInv' /\ Ordered
  <1> USE DEF CoreInv, LedgerInv
  <1>1. /\ stage = "queued" /\ ~blocked /\ Queued
        /\ index \in 1 .. Len(queue) /\ Event = queue[index]
        /\ emitted' = <<queue[index].offset, Class(queue[index].kind)>>
        /\ stage' = "queued" /\ p_stage' = "deliver" /\ index' = index + 1
        /\ UNCHANGED <<inputs, input_index, retry_panics, queue>>
    BY DEF PushesEntry, Delivering, Event, TypeOK, Queued, merge
  <1>2. queue[index].offset \in Nat /\ queue[index].kind \in {0, 1}
    BY <1>1, QueuedFields
  <1>3. Ordered
    BY <1>1 DEF SentInv, QueueAhead, Ordered
  <1>4. ~retry_panics
    BY <1>1 DEF DebtInv, LoopInv
  <1>5. ASSUME Ascending(inputs) PROVE InputsAhead'
    <2>1. ASSUME NEW i \in input_index .. Len(inputs)
          PROVE  NotAfter(emitted', <<inputs[i].time, InputClass>>)
      <3>1. /\ input_index \in 1 .. Len(inputs) /\ i \in 1 .. Len(inputs)
            /\ inputs[input_index].time \in Nat /\ inputs[i].time \in Nat
        BY InputTimes DEF PipelineTypeOK
      <3>2. inputs[input_index].time <= inputs[i].time
        BY <1>5, <3>1 DEF Ascending
      <3>3. ~Due(NextPush)
        BY DEF FlushDue
      <3>4. NextPush = <<queue[index].offset, queue[index].kind>>
        BY <1>1 DEF PushesEntry
      <3>5. NextPush # Nowhere
        BY <1>2, <3>4 DEF Nowhere, NoOffset
      <3>6. /\ ~(inputs[input_index].time < queue[index].offset)
            /\ ~(inputs[input_index].time = queue[index].offset /\ queue[index].kind = On)
        BY <3>1, <3>3, <3>4, <3>5 DEF Due, Input
      <3>7. Class(0) = 0 /\ Class(1) = 3
        BY DEF Class, Off, OffClass, OnClass
      <3> QED BY <1>1, <1>2, <3>1, <3>2, <3>6, <3>7 DEF NotAfter, InputClass, On
    <2> QED BY <1>1, <2>1 DEF InputsAhead
  <1>6. QueueAhead'
    <2>1. ASSUME NEW i \in index + 1 .. Len(queue)
          PROVE  NotAfter(emitted', <<queue[i].offset, Class(queue[i].kind)>>)
      <3>1. i \in index .. Len(queue)
        BY <1>1
      <3>2. /\ queue[i].offset \in Nat /\ queue[i].kind \in {0, 1}
            /\ \/ queue[index].offset < queue[i].offset
               \/ /\ queue[index].offset = queue[i].offset
                  /\ queue[index].kind <= queue[i].kind
        BY <1>1, <3>1, LaterEntries
      <3>3. Class(0) = 0 /\ Class(1) = 3
        BY DEF Class, Off, OffClass, OnClass
      <3> QED BY <1>1, <1>2, <3>2, <3>3 DEF NotAfter
    <2> QED BY <1>1, <2>1 DEF QueueAhead
  <1>7. SentInv'
    BY <1>1, <1>4, <1>5, <1>6 DEF SentInv, Retrying, Queued
  <1> QED BY <1>3, <1>7

LEMMA DeliveryAhead ==
  ASSUME CoreInv, CoreInv', SentInv, LedgerStep
  PROVE  SentInv' /\ Ordered
  <1> USE DEF CoreInv, LedgerInv
  <1>1. p_stage = "deliver" /\ ~FlushDue /\ UNCHANGED <<queue, merge>>
    BY DeliveryView, DeliveryPushes
  <1>2. UNCHANGED <<inputs, input_index, retry_panics>>
    BY <1>1 DEF merge
  <1>3. Retrying \/ Queued
    BY <1>1 DEF DebtInv, StageInv, Retrying, Queued
  <1>4. /\ stage' # "idle" => p_stage' = "deliver"
        /\ stage' = "idle" => p_stage' = IF retry_panics THEN "panics" ELSE "tail"
    <2>1. Settle(panic_mask) \/ Settle(Marked)
      BY DeliveryView
    <2> QED BY <1>1, <2>1 DEF Settle
  <1>5. NotAfter(emitted, emitted)
    BY EmittedNumbers DEF NotAfter
  <1>6. ASSUME UNCHANGED emitted PROVE Ordered
    BY <1>5, <1>6 DEF Ordered
  <1>7. CASE stage = "retry" /\ emitted' = <<0, OffClass>> /\ UNCHANGED <<stage, p_stage>>
    <2>1. emitted \in {Nowhere, <<0, OffClass>>} /\ Retrying
      BY <1>3, <1>7 DEF SentInv, Queued
    <2>2. Ordered
      BY <2>1, <1>7, AtStart DEF Ordered, PanicClass, OffClass, Nowhere, NoOffset
    <2>3. InputsAhead'
      <3>1. \A i \in input_index .. Len(inputs) : inputs[i].time \in Nat
        BY InputTimes DEF PipelineTypeOK
      <3> QED BY <1>2, <1>7, <3>1 DEF InputsAhead, NotAfter, OffClass, InputClass
    <2> QED BY <1>1, <1>7, <2>2, <2>3 DEF SentInv, Retrying, Queued
  <1>8. CASE PushesEntry
    BY <1>1, <1>8, PushAhead
  <1>9. CASE stage = "retry" /\ stage' \in {"idle", "queued"} /\ UNCHANGED emitted
    <2>1. emitted \in {Nowhere, <<0, OffClass>>}
      BY <1>3, <1>9 DEF SentInv, Queued
    <2>2. /\ InputsAhead
          /\ \A i \in 1 .. Len(queue) :
               NotAfter(emitted, <<queue[i].offset, Class(queue[i].kind)>>)
      BY <2>1, AtStart DEF PanicClass, OffClass, Nowhere, NoOffset
    <2>3. InputsAhead'
      BY <1>2, <1>9, <2>2 DEF InputsAhead
    <2>4. stage' = "queued" => QueueAhead'
      <3>1. stage' = "queued" => index' \in Nat /\ index' > 0
        BY DEF TypeOK
      <3> QED BY <1>1, <1>9, <2>2, <3>1 DEF QueueAhead
    <2>5. SentInv'
      BY <1>2, <1>4, <1>9, <2>1, <2>3, <2>4 DEF SentInv, Retrying, Queued
    <2> QED BY <1>6, <1>9, <2>5
  <1>10. CASE /\ stage = "queued" /\ UNCHANGED emitted
              /\ \/ stage' = "idle"
                 \/ blocked' /\ UNCHANGED stage
                 \/ index' = index + 1 /\ UNCHANGED <<stage, p_stage, blocked>>
    <2>1. Ascending(inputs) => InputsAhead'
      BY <1>1, <1>2, <1>10 DEF SentInv, InputsAhead
    <2>2. Queued' /\ ~blocked' => QueueAhead'
      <3> SUFFICES ASSUME stage' = "queued", ~blocked' PROVE QueueAhead'
        BY DEF Queued
      <3>1. index' = index + 1 /\ Queued /\ ~blocked
        BY <1>1, <1>10 DEF Queued
      <3>2. QueueAhead /\ index \in Nat
        BY <3>1 DEF SentInv, TypeOK
      <3>3. \A i \in index + 1 .. Len(queue) : i \in index .. Len(queue)
        BY <3>2
      <3> QED BY <1>1, <1>10, <3>1, <3>2, <3>3 DEF QueueAhead
    <2>3. stage' \in {"idle", "queued"}
      BY <1>10
    <2>4. SentInv'
      BY <1>1, <1>2, <1>4, <1>10, <2>1, <2>2, <2>3 DEF SentInv, Retrying, Queued
    <2> QED BY <1>6, <1>10, <2>4
  <1> QED BY <1>7, <1>8, <1>9, <1>10, DeliveryPushes

LEMMA SentStep ==
  ASSUME CoreInv, CoreInv', SentInv, [PNext]_pvars
  PROVE  SentInv' /\ Ordered
  <1> USE DEF CoreInv, LedgerInv
  <1>r. NotAfter(emitted, emitted)
    BY EmittedNumbers DEF NotAfter
  <1>q. ASSUME UNCHANGED emitted PROVE Ordered
    BY <1>r, <1>q DEF Ordered
  <1>1. CASE Outside
    <2>1. p_stage' \in {"idle", "panic"} /\ p_stage \in {"idle", "panic"}
      BY <1>1, OutsideView DEF DebtInv
    <2>2. SentInv'
      BY <2>1 DEF SentInv, Retrying, Queued
    <2>3. UNCHANGED emitted \/ p_stage = "idle"
      BY <1>1 DEF Outside, PForget, PIdle, PBeginBlock, PQueueTransition, RequestPanic,
                  PanicRelease, PanicQueued, PanicOverflows, RequestReset, ProcessInvalid
    <2> QED BY <1>q, <2>2, <2>3 DEF Ordered
  <1>2. ASSUME NEW r \in Routes, NEW list \in InputLists, Process(r, list)
        PROVE  SentInv' /\ Ordered
    <2>1. /\ p_stage = "idle" /\ p_stage' = "deliver" /\ stage' = "retry"
          /\ emitted' = Nowhere
      BY <1>2 DEF Process, CallDeliver, PIdle
    <2>2. InputsAhead'
      <3>1. input_index' = 1 /\ inputs' = list
        BY <1>2 DEF Process
      <3>2. \A i \in 1 .. Len(list) : list[i] \in InputEvents
        BY PipelineAssumption
      <3>3. \A i \in 1 .. Len(list) : list[i].time \in Nat
        BY <3>2, EventTime
      <3> QED BY <2>1, <3>1, <3>3
            DEF InputsAhead, NotAfter, Nowhere, NoOffset, InputClass
    <2> QED BY <2>1, <2>2 DEF SentInv, Retrying, Queued, Ordered
  <1>3. CASE FlushSkip \/ FlushOther
    <2>1. /\ UNCHANGED <<vars, p_stage, retry_panics, inputs, emitted>>
          /\ input_index' = input_index + 1
      BY <1>3 DEF FlushSkip, FlushOther
    <2>2. UNCHANGED <<stage, blocked, queue, index>>
      BY <2>1 DEF vars, call, block
    <2>3. InputsAhead => InputsAhead'
      BY <2>1 DEF InputsAhead, PipelineTypeOK
    <2>4. QueueAhead => QueueAhead'
      BY <2>1, <2>2 DEF QueueAhead
    <2>5. SentInv'
      BY <2>1, <2>2, <2>3, <2>4 DEF SentInv, Retrying, Queued
    <2> QED BY <1>q, <2>1, <2>5
  <1>4. CASE InputAccepted
    BY <1>4, OfferAhead
  <1>5. CASE InputRefused
    <2>1. /\ UNCHANGED <<stage, p_stage, retry_panics, inputs, emitted, queue, index>>
          /\ input_index' = input_index + 1 /\ blocked'
      BY <1>5 DEF InputRefused, OfferInput, EnterBlocked, call, block
    <2>2. InputsAhead => InputsAhead'
      BY <2>1 DEF InputsAhead, PipelineTypeOK
    <2>3. SentInv'
      BY <2>1, <2>2 DEF SentInv, Retrying, Queued
    <2> QED BY <1>q, <2>1, <2>3
  <1>6. CASE LedgerStep
    BY <1>6, DeliveryAhead
  <1>7. CASE PanicsOver
    <2>1. /\ p_stage = "panics" /\ p_stage' = "tail"
          /\ UNCHANGED <<emitted, merge>>
      BY <1>7 DEF PanicsOver
    <2>2. InputsAhead => InputsAhead'
      BY <2>1 DEF InputsAhead, merge
    <2>3. SentInv'
      BY <2>1, <2>2 DEF SentInv, Retrying, Queued, Ascending, merge
    <2> QED BY <1>q, <2>1, <2>3
  <1>8. ASSUME NEW c \in Channels, PanicAccepted(c) \/ PanicRefused(c)
        PROVE  SentInv' /\ Ordered
    <2>1. /\ p_stage = "panics" /\ p_stage' \in {"panics", "tail"}
          /\ emitted' \in {emitted, <<0, PanicClass>>} /\ UNCHANGED merge
      BY <1>8 DEF PanicAccepted, PanicRefused, NextPanic
    <2>2. emitted \in {Nowhere, <<0, OffClass>>, <<0, PanicClass>>}
      BY <2>1 DEF SentInv
    <2>3. NotAfter(emitted, emitted')
      BY <2>1, <2>2, <1>r, AtStart
    <2>4. emitted' \in {Nowhere, <<0, OffClass>>, <<0, PanicClass>>}
      BY <2>1, <2>2
    <2>5. InputsAhead'
      <3>1. \A i \in input_index .. Len(inputs) : inputs[i].time \in Nat
        BY InputTimes DEF PipelineTypeOK
      <3> QED BY <2>1, <2>4, <3>1
            DEF InputsAhead, merge, NotAfter, Nowhere, NoOffset, Off, OffClass,
                PanicClass, InputClass
    <2> QED BY <2>1, <2>3, <2>4, <2>5 DEF SentInv, Retrying, Queued, Ordered
  <1>9. CASE ProcessReturns
    <2>1. p_stage' = "idle"
      BY <1>9 DEF ProcessReturns
    <2> QED BY <2>1 DEF SentInv, Retrying, Queued, Ordered
  <1>10. CASE UNCHANGED pvars
    <2>1. UNCHANGED <<stage, blocked, queue, index, p_stage, emitted, inputs,
                      input_index, retry_panics>>
      BY <1>10 DEF pvars, vars, call, block, merge
    <2>2. SentInv'
      BY <2>1 DEF SentInv, Retrying, Queued, InputsAhead, QueueAhead, Ascending
    <2> QED BY <1>q, <2>1, <2>2
  <1> QED
    BY <1>1, <1>2, <1>3, <1>4, <1>5, <1>6, <1>7, <1>8, <1>9, <1>10 DEF PNext, Outside

\* Everything the host takes in one process() comes in order, at one offset note-offs,
\* then channel panics, then its own events, then note-ons, for every list in order,
\* every queue and every pattern of refusals (midi_pipeline.cpp:110-178).
THEOREM HostReceivesInOrder == PSpec => EmittedInOrder
  <1>1. PInit => SentInv
    BY DEF PInit, SentInv, Retrying, Queued
  <1>2. CoreInv /\ SentInv /\ [PNext]_pvars => CoreInv' /\ SentInv' /\ Ordered
    BY CoreStep, SentStep
  <1>3. CoreInv /\ SentInv /\ [PNext]_pvars =>
          [p_stage # "idle" /\ p_stage' # "idle" /\ Ascending(inputs)
             => NotAfter(emitted, emitted')]_pvars
    BY <1>2 DEF Ordered
  <1> QED BY <1>1, <1>2, <1>3, CoreStart, PTL DEF PSpec, EmittedInOrder

-----------------------------------------------------------------------------
(* Every host event once *)

MergeInv == LatestInv /\ OfferInv

\* last_input_offset tells which events are late: one the loop passes over is one the
\* host may not expect back, and one it offers is.
LEMMA PassedOver ==
  ASSUME PipelineTypeOK, LatestInv, FlushDue
  PROVE  /\ Input.kind = "null" \/ BadTime => ~Counts(input_index) \/ Input.time < last_input
         /\ Input.kind = "null" \/ BadTime => input_index \notin Wanted(inputs)
         /\ Input.kind = "midi" /\ ~BadTime => input_index \in Wanted(inputs)
  <1>1. /\ input_index \in 1 .. Len(inputs) /\ Input = inputs[input_index]
        /\ Input.time \in Nat /\ last_input \in Int /\ MaxFrames \in Nat
        /\ last_input < 0 => last_input = NoOffset
    BY DueInput, LedgerAssumption DEF PipelineTypeOK, NoOffset, Offsets
  <1>2. \A j \in 1 .. input_index - 1 : inputs[j].time \in Nat
    BY <1>1, InputTimes
  <1>3. Input.time < last_input => input_index \notin Wanted(inputs)
    <2> SUFFICES ASSUME Input.time < last_input PROVE input_index \notin Wanted(inputs)
      OBVIOUS
    <2>1. last_input # NoOffset
      BY <1>1 DEF NoOffset
    <2>2. PICK j \in 1 .. input_index - 1 : Counts(j) /\ inputs[j].time = last_input
      BY <2>1 DEF LatestInv
    <2>3. ~(inputs[j].time <= inputs[input_index].time)
      BY <1>1, <2>2
    <2> QED BY <2>2, <2>3 DEF Wanted, Counts
  <1>4. Input.kind = "midi" /\ ~BadTime => input_index \in Wanted(inputs)
    <2> SUFFICES ASSUME Input.kind = "midi", ~BadTime PROVE input_index \in Wanted(inputs)
      OBVIOUS
    <2>1. Input.time < MaxFrames /\ last_input <= Input.time
      BY <1>1 DEF BadTime
    <2>2. \A j \in 1 .. input_index - 1 : Counts(j) => inputs[j].time <= Input.time
      BY <1>1, <1>2, <2>1 DEF LatestInv
    <2> QED BY <1>1, <2>1, <2>2 DEF Wanted, Counts
  <1> QED BY <1>1, <1>3, <1>4 DEF BadTime, Counts, Wanted

LEMMA SkippedMerge ==
  ASSUME PipelineTypeOK, MergeInv, FlushDue, Input.kind = "null" \/ BadTime,
         input_index' = input_index + 1, UNCHANGED <<inputs, last_input, offered>>
  PROVE  MergeInv'
  <1> USE DEF MergeInv
  <1>1. /\ input_index \in 1 .. Len(inputs) /\ Input = inputs[input_index]
        /\ Input.time \in Nat /\ last_input \in Int
    BY DueInput DEF PipelineTypeOK, NoOffset, Offsets
  <1>2. ~Counts(input_index) \/ Input.time < last_input
    BY PassedOver
  <1>3. \A j : Counts(j)' <=> Counts(j)
    BY DEF Counts
  <1>4. LatestInv'
    <2>1. \A j \in 1 .. input_index : Counts(j) => inputs[j].time <= last_input
      BY <1>1, <1>2 DEF LatestInv
    <2>2. last_input # NoOffset =>
            \E j \in 1 .. input_index : Counts(j) /\ inputs[j].time = last_input
      BY <1>1 DEF LatestInv
    <2> QED BY <1>1, <1>3, <2>1, <2>2 DEF LatestInv
  <1>5. input_index \notin Wanted(inputs)
    BY PassedOver
  <1>6. Wanted(inputs) \subseteq Int
    BY DEF Wanted
  <1>7. {i \in Wanted(inputs) : i < input_index + 1} = {i \in Wanted(inputs) : i < input_index}
    BY <1>1, <1>5, <1>6
  <1>8. OfferInv'
    <2>1. offered \in Seq(Nat) /\ \A i \in 1 .. Len(offered) : offered[i] < input_index
      BY DEF OfferInv
    <2>2. \A i \in 1 .. Len(offered) : offered[i] \in Nat
      BY <2>1
    <2>3. \A i \in 1 .. Len(offered) : offered[i] < input_index + 1
      BY <1>1, <2>1, <2>2
    <2> QED BY <1>7, <2>1, <2>3 DEF OfferInv
  <1> QED BY <1>4, <1>8

\* An event in time becomes the latest one.
LEMMA SeenLatest ==
  ASSUME PipelineTypeOK, LatestInv, FlushDue, Input.kind # "null", ~BadTime,
         input_index' = input_index + 1, last_input' = Input.time, UNCHANGED inputs
  PROVE  LatestInv'
  <1>1. /\ input_index \in 1 .. Len(inputs) /\ Input = inputs[input_index]
        /\ Input.time \in Nat /\ last_input \in Int /\ MaxFrames \in Nat
    BY DueInput, LedgerAssumption DEF PipelineTypeOK, NoOffset, Offsets
  <1>2. Input.time < MaxFrames /\ last_input <= Input.time
    BY <1>1 DEF BadTime
  <1>3. \A j : Counts(j)' <=> Counts(j)
    BY DEF Counts
  <1>4. \A j \in 1 .. input_index - 1 : inputs[j].time \in Nat
    BY <1>1, InputTimes
  <1>5. \A j \in 1 .. input_index : Counts(j) => inputs[j].time <= Input.time
    BY <1>1, <1>2, <1>4 DEF LatestInv
  <1>6. Counts(input_index)
    BY <1>1, <1>2 DEF Counts
  <1> QED BY <1>1, <1>3, <1>5, <1>6 DEF LatestInv

LEMMA OtherMerge ==
  ASSUME PipelineTypeOK, MergeInv, FlushOther
  PROVE  MergeInv'
  <1> USE DEF MergeInv
  <1>1. /\ FlushDue /\ Input.kind \in {"other", "short"} /\ ~BadTime
        /\ input_index' = input_index + 1 /\ last_input' = Input.time
        /\ UNCHANGED <<inputs, offered>>
    BY DEF FlushOther
  <1>2. LatestInv'
    BY <1>1, SeenLatest
  <1>3. input_index \in 1 .. Len(inputs) /\ Input = inputs[input_index]
    BY <1>1, DueInput
  <1>4. input_index \notin Wanted(inputs) /\ Wanted(inputs) \subseteq Int
    BY <1>1, <1>3 DEF Wanted
  <1>5. {i \in Wanted(inputs) : i < input_index + 1} = {i \in Wanted(inputs) : i < input_index}
    BY <1>3, <1>4
  <1>6. offered \in Seq(Nat) /\ \A i \in 1 .. Len(offered) : offered[i] < input_index + 1
    BY <1>3 DEF OfferInv
  <1>7. OfferInv'
    BY <1>1, <1>5, <1>6 DEF OfferInv
  <1> QED BY <1>2, <1>7

LEMMA OfferMerge ==
  ASSUME PipelineTypeOK, MergeInv, OfferInput, UNCHANGED inputs
  PROVE  MergeInv'
  <1> USE DEF MergeInv
  <1>1. /\ FlushDue /\ Input.kind = "midi" /\ ~BadTime
        /\ input_index' = input_index + 1 /\ last_input' = Input.time
        /\ offered' = Append(offered, input_index)
    BY DEF OfferInput
  <1>2. LatestInv'
    BY <1>1, SeenLatest
  <1>3. input_index \in 1 .. Len(inputs) /\ input_index \in Wanted(inputs)
    BY <1>1, DueInput, PassedOver
  <1>4. Wanted(inputs) \subseteq Int
    BY DEF Wanted
  <1>5. {i \in Wanted(inputs) : i < input_index + 1}
          = {i \in Wanted(inputs) : i < input_index} \cup {input_index}
    BY <1>3, <1>4
  <1>6. /\ offered \in Seq(Nat) /\ \A i \in 1 .. Len(offered) : offered[i] < input_index
        /\ \A i \in 1 .. Len(offered) - 1 : offered[i] < offered[i + 1]
        /\ {offered[i] : i \in 1 .. Len(offered)} = {i \in Wanted(inputs) : i < input_index}
    BY DEF OfferInv
  <1>7. /\ offered' \in Seq(Nat) /\ Len(offered') = Len(offered) + 1
        /\ \A i \in 1 .. Len(offered) : offered'[i] = offered[i]
        /\ offered'[Len(offered) + 1] = input_index
    BY <1>1, <1>3, <1>6
  <1>8. Len(offered) \in Nat /\ \A i \in 1 .. Len(offered) : offered[i] \in Nat
    BY <1>6
  <1>9. \A i \in 1 .. Len(offered') : offered'[i] < input_index'
    BY <1>1, <1>3, <1>6, <1>7, <1>8
  <1>10. \A i \in 1 .. Len(offered') - 1 : offered'[i] < offered'[i + 1]
    <2>1. ASSUME NEW i \in 1 .. Len(offered) PROVE offered'[i] < offered'[i + 1]
      <3>1. CASE i = Len(offered)
        BY <1>6, <1>7, <3>1
      <3>2. CASE i # Len(offered)
        <4>1. i \in 1 .. Len(offered) - 1 /\ i + 1 \in 1 .. Len(offered)
          BY <1>8, <3>2
        <4> QED BY <1>6, <1>7, <4>1
      <3> QED BY <3>1, <3>2
    <2> QED BY <1>7, <1>8, <2>1
  <1>11. {offered'[i] : i \in 1 .. Len(offered')}
           = {offered[i] : i \in 1 .. Len(offered)} \cup {input_index}
    <2>1. 1 .. Len(offered') = (1 .. Len(offered)) \cup {Len(offered) + 1}
      BY <1>7, <1>8
    <2> QED BY <1>7, <2>1
  <1>12. OfferInv'
    BY <1>1, <1>5, <1>6, <1>7, <1>9, <1>10, <1>11 DEF OfferInv
  <1> QED BY <1>2, <1>12

LEMMA EmptyMerge ==
  ASSUME input_index' = 1, last_input' = NoOffset, offered' = << >>
  PROVE  MergeInv'
  <1>1. LatestInv'
    BY DEF LatestInv
  <1>2. {i \in Wanted(inputs') : i < 1} = {}
    BY DEF Wanted
  <1>3. OfferInv'
    BY <1>2 DEF OfferInv
  <1> QED BY <1>1, <1>3 DEF MergeInv

LEMMA MergeStep ==
  ASSUME CoreInv, MergeInv, [PNext]_pvars
  PROVE  MergeInv'
  <1>t. PipelineTypeOK /\ StageInv /\ MaskInv
    BY DEF CoreInv, DebtInv
  <1>q. ASSUME UNCHANGED merge PROVE MergeInv'
    BY <1>q DEF merge, MergeInv, LatestInv, OfferInv, Counts
  <1>1. CASE Outside
    BY <1>1, <1>t, <1>q, OutsideView
  <1>2. ASSUME NEW r \in Routes, NEW list \in InputLists, Process(r, list) PROVE MergeInv'
    BY <1>2, EmptyMerge DEF Process
  <1>3. CASE FlushSkip
    BY <1>3, <1>t, SkippedMerge DEF FlushSkip
  <1>4. CASE FlushOther
    BY <1>4, <1>t, OtherMerge
  <1>5. CASE InputAccepted \/ InputRefused
    BY <1>5, <1>t, OfferMerge DEF InputAccepted, InputRefused
  <1>6. CASE LedgerStep
    BY <1>6, <1>q, DeliveryView
  <1>7. CASE PanicsOver
    BY <1>7, <1>q DEF PanicsOver
  <1>8. ASSUME NEW c \in Channels, PanicAccepted(c) \/ PanicRefused(c) PROVE MergeInv'
    BY <1>8, <1>q DEF PanicAccepted, PanicRefused
  <1>9. CASE ProcessReturns
    BY <1>9, EmptyMerge DEF ProcessReturns
  <1>10. CASE UNCHANGED pvars
    BY <1>10, <1>q DEF pvars
  <1> QED
    BY <1>1, <1>2, <1>3, <1>4, <1>5, <1>6, <1>7, <1>8, <1>9, <1>10 DEF PNext, Outside

\* Only the end of process() leaves its tail for the outside.
LEMMA TailEnds ==
  ASSUME CoreInv, [PNext]_pvars, p_stage = "tail", p_stage' = "idle"
  PROVE  ProcessReturns
  <1>1. StageInv /\ MaskInv
    BY DEF CoreInv, DebtInv
  <1>2. ~Outside
    BY <1>1, OutsideView
  <1>3. ~FlushSkip /\ ~FlushOther /\ ~InputAccepted /\ ~InputRefused
    BY DEF FlushSkip, FlushOther, InputAccepted, InputRefused
  <1>4. ~LedgerStep /\ ~PanicsOver /\ ~UNCHANGED pvars
    BY DeliveryView DEF PanicsOver, pvars
  <1>5. \A r \in Routes, list \in InputLists : ~Process(r, list)
    BY DEF Process, PIdle
  <1>6. \A c \in Channels : ~PanicAccepted(c) /\ ~PanicRefused(c)
    BY DEF PanicAccepted, PanicRefused, NextPanic
  <1> QED BY <1>2, <1>3, <1>4, <1>5, <1>6 DEF PNext, Outside

\* Every process() offers each well-formed host event once and in order, for every
\* list, also when the output is blocked or blocks in the middle
\* (midi_pipeline.cpp:241).
THEOREM HostEventsPassOnce == PSpec => InputsPassOnce
  <1>1. PInit => MergeInv
    <2> SUFFICES ASSUME PInit PROVE MergeInv
      OBVIOUS
    <2>1. input_index = 1 /\ last_input = NoOffset /\ offered = << >> /\ inputs = << >>
      BY DEF PInit
    <2>2. LatestInv
      BY <2>1 DEF LatestInv
    <2>3. {i \in Wanted(inputs) : i < input_index} = {}
      BY <2>1 DEF Wanted
    <2>4. OfferInv
      BY <2>1, <2>3 DEF OfferInv
    <2> QED BY <2>2, <2>4 DEF MergeInv
  <1>2. CoreInv /\ MergeInv /\ [PNext]_pvars => CoreInv' /\ MergeInv'
    BY CoreStep, MergeStep
  <1>3. CoreInv /\ MergeInv /\ [PNext]_pvars =>
          [p_stage = "tail" /\ p_stage' = "idle" =>
             /\ {offered[i] : i \in 1 .. Len(offered)} = Wanted(inputs)
             /\ \A i \in 1 .. Len(offered) - 1 : offered[i] < offered[i + 1]]_pvars
    <2> SUFFICES ASSUME CoreInv, MergeInv, [PNext]_pvars,
                        p_stage = "tail", p_stage' = "idle"
                 PROVE  /\ {offered[i] : i \in 1 .. Len(offered)} = Wanted(inputs)
                        /\ \A i \in 1 .. Len(offered) - 1 : offered[i] < offered[i + 1]
      OBVIOUS
    <2>1. input_index > Len(inputs) /\ input_index \in Nat /\ Len(inputs) \in Nat
      <3>1. ProcessReturns
        BY TailEnds
      <3>2. inputs \in Seq(InputEvents)
        BY ListType DEF CoreInv
      <3> QED BY <3>1, <3>2 DEF ProcessReturns, CoreInv, PipelineTypeOK
    <2>2. {i \in Wanted(inputs) : i < input_index} = Wanted(inputs)
      BY <2>1 DEF Wanted
    <2> QED BY <2>2 DEF MergeInv, OfferInv
  <1> QED BY <1>1, <1>2, <1>3, CoreStart, PTL DEF PSpec, InputsPassOnce

=============================================================================
