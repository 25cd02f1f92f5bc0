--------------------------- MODULE ClapAdapterProofs ---------------------------
(***************************************************************************)
(* Proofs about ClapAdapter, for all parameters, values, requests and      *)
(* hosts: whichever calls of the two threads cross, the notes follow the   *)
(* structural settings in force, Ready is shown with an open output only,  *)
(* and one generation names one configuration.                             *)
(*                                                                         *)
(* Each of the three has an invariant of its own, on top of the types.     *)
(* The notes' is inductive as it stands.  Ready's follows the audio call:  *)
(* up to the claim, and all through a flush, the pipeline is as the last   *)
(* call left it; from there on only what is about to be stored counts.     *)
(* The generations' follows the main thread's locals as well, and needs    *)
(* the counter above every generation in flight.                           *)
(***************************************************************************)
EXTENDS ClapAdapter, TLAPS

\* The notes of a pipeline that are not owed were started under the settings in force.
Follows(p) == p \in Pipe /\ p.heard \ p.owed \subseteq {StructuralPart(active.config)}

Open(p) == ~p.blocked /\ ~p.hold

\* The audio call, if one runs, has not touched the pipeline.
PipeUntouched == a_flush \/ a_stage \in {"idle", "sync_publish", "sync_record", "snapshot", "claim"}

StatusInv ==
  /\ ~Running => a_stage = "idle"
  /\ a_flush => a_stage \notin {"adopted", "clear", "deliver", "status_store"}
  /\ Running /\ PipeUntouched /\ status = Ready => Open(pipe)
  /\ a_stage = "status_store" /\ a_target = Ready => Open(pipe)

\* No generation is above the counter it was drawn from.
CounterInv ==
  /\ request.generation <= counter
  /\ Publishing => a_generation <= counter
  /\ MainPublishing => m_generation <= counter

AudioConfigInv ==
  /\ audio.generation <= request.generation
  /\ Running /\ a_stage # "edit_publish" /\ ~unpublished
     /\ audio.generation = request.generation => audio = request

\* What the main thread has published or read, and is about to take over.
MainConfigInv ==
  /\ main.generation <= request.generation
  /\ main.generation = request.generation => main = request
  /\ m_stage \in {"load_record", "record"} =>
       /\ m_generation <= request.generation
       /\ m_generation = request.generation => m_config = request.config

GenerationInv == CounterInv /\ AudioConfigInv /\ MainConfigInv

-----------------------------------------------------------------------------
(* The pipeline's operators *)

LEMMA PartType ==
  ASSUME NEW c \in Config
  PROVE  StructuralPart(c) \in Notes
  BY AdapterAssumption DEF StructuralPart, Notes, Config

LEMMA FreshFollows == Follows(Fresh)
  BY DEF Follows, Fresh, Pipe

\* A pipeline that is reset or blocked owes all it sounds, under whichever settings.
LEMMA ResetFollows ==
  ASSUME NEW p \in Pipe
  PROVE  /\ ResetPipe(p) \in Pipe
         /\ ResetPipe(p).heard \ ResetPipe(p).owed = {}
  BY DEF ResetPipe, Pipe

LEMMA BlockedFollows ==
  ASSUME NEW p \in Pipe, NEW h \in SUBSET Notes
  PROVE  Follows(BlockedPipe(p, h))
<1>1. BlockedPipe(p, h) \in Pipe
  BY DEF BlockedPipe, Pipe
<1>2. BlockedPipe(p, h).heard = BlockedPipe(p, h).owed
  BY DEF BlockedPipe, Pipe
<1> QED
  BY <1>1, <1>2 DEF Follows

LEMMA PanickedFollows ==
  ASSUME NEW p, Follows(p), NEW q \in PanickedPipe(p)
  PROVE  Follows(q)
<1> DEFINE r == [p EXCEPT !.hold = TRUE, !.calls = 1]
<1>1. r \in Pipe /\ p.heard \in SUBSET Notes
  BY DEF Follows, Pipe
<1>2. CASE q = [r EXCEPT !.stops = p.heard]
  <2>1. q \in Pipe
    BY <1>1, <1>2 DEF Pipe
  <2>2. q.heard = p.heard /\ q.owed = p.owed
    BY <1>2 DEF Follows, Pipe
  <2> QED
    BY <2>1, <2>2 DEF Follows
<1>3. CASE q = BlockedPipe(r, p.heard)
  BY <1>1, <1>3, BlockedFollows
<1> QED
  BY <1>2, <1>3 DEF PanickedPipe

LEMMA RefusedOnly ==
  ASSUME NEW S, NEW q \in Refused(S)
  PROVE  q \in S
  BY DEF Refused

LEMMA RetriedFollows ==
  ASSUME NEW p, Follows(p), NEW q \in Retried(p)
  PROVE  Follows(q)
<1> USE DEF Follows
<1>1. p.heard \in SUBSET Notes /\ p.owed \in SUBSET Notes
  BY DEF Pipe
<1>2. CASE q = [p EXCEPT !.heard = p.heard \ p.owed, !.owed = {}, !.cleanup = TRUE]
  BY <1>2 DEF Pipe
<1>3. CASE \E R \in SUBSET p.owed : q = BlockedPipe(p, p.heard \ R)
  <2>1. PICK R \in SUBSET p.owed : q = BlockedPipe(p, p.heard \ R)
    BY <1>3
  <2>2. p.heard \ R \in SUBSET Notes
    BY <1>1
  <2> QED
    BY <2>1, <2>2, BlockedFollows
<1> QED
  BY <1>2, <1>3 DEF Retried, Refused

LEMMA NewNotesType ==
  ASSUME active \in Tagged, NEW p, NEW n \in NewNotes(p)
  PROVE  /\ n \in SUBSET Notes
         /\ n \subseteq {StructuralPart(active.config)}
<1>1. StructuralPart(active.config) \in Notes
  BY PartType DEF Tagged
<1> QED
  BY <1>1 DEF NewNotes

LEMMA PlayedFollows ==
  ASSUME active \in Tagged, NEW p, Follows(p), NEW q \in Played(p)
  PROVE  Follows(q)
<1>1. p \in Pipe /\ p.heard \in SUBSET Notes
  BY DEF Follows, Pipe
<1>2. CASE q = p
  BY <1>2
<1>3. CASE \E o \in SUBSET Notes : q = BlockedPipe(p, p.heard \ o)
  BY <1>1, <1>3, BlockedFollows
<1>4. CASE \E n \in NewNotes(p), o \in SUBSET Notes : q = BlockedPipe(p, (p.heard \ o) \cup n)
  <2>1. PICK n \in NewNotes(p), o \in SUBSET Notes : q = BlockedPipe(p, (p.heard \ o) \cup n)
    BY <1>4
  <2>2. (p.heard \ o) \cup n \in SUBSET Notes
    BY <1>1, NewNotesType
  <2> QED
    BY <1>1, <2>1, <2>2, BlockedFollows
<1>5. CASE p.owed = {} /\ \E n \in NewNotes(p) : q = [p EXCEPT !.heard = (p.heard \ p.stops) \cup n]
  <2>1. PICK n \in NewNotes(p) : q = [p EXCEPT !.heard = (p.heard \ p.stops) \cup n]
    BY <1>5
  <2>2. n \in SUBSET Notes /\ n \subseteq {StructuralPart(active.config)}
    BY NewNotesType
  <2>3. q \in Pipe
    BY <1>1, <2>1, <2>2 DEF Pipe
  <2>4. q.heard = (p.heard \ p.stops) \cup n /\ q.owed = {}
    BY <1>1, <1>5, <2>1 DEF Pipe
  <2>5. p.heard \subseteq {StructuralPart(active.config)}
    BY <1>5 DEF Follows
  <2> QED
    BY <2>2, <2>3, <2>4, <2>5 DEF Follows
<1>6. p.stops \subseteq Notes
  BY <1>1 DEF Pipe
<1> QED
  <2>1. CASE p.owed # {} \/ p.blocked
    BY <1>2, <2>1 DEF Played
  <2>2. CASE ~(p.owed # {} \/ p.blocked) /\ p.stops \ p.heard # {}
    <3>1. q \in {BlockedPipe(p, p.heard \ o) : o \in SUBSET (p.stops \cap p.heard)}
      BY <2>2 DEF Played
    <3>2. PICK o \in SUBSET (p.stops \cap p.heard) : q = BlockedPipe(p, p.heard \ o)
      BY <3>1
    <3> QED
      BY <1>3, <1>6, <3>2
  <2>3. CASE ~(p.owed # {} \/ p.blocked) /\ ~(p.stops \ p.heard # {})
    <3>1. \/ q \in {[p EXCEPT !.heard = (p.heard \ p.stops) \cup n] : n \in NewNotes(p)}
          \/ q \in Misplaced(p)
          \/ q \in Refused({BlockedPipe(p, (p.heard \ o) \cup n) : o \in SUBSET p.stops,
                                                                   n \in NewNotes(p)})
      BY <2>3 DEF Played
    <3>2. CASE q \in {[p EXCEPT !.heard = (p.heard \ p.stops) \cup n] : n \in NewNotes(p)}
      BY <1>5, <2>3, <3>2
    <3>3. CASE q \in Misplaced(p)
      <4>1. PICK o \in SUBSET p.stops : q = BlockedPipe(p, p.heard \ o)
        BY <3>3 DEF Misplaced
      <4> QED
        BY <1>3, <1>6, <4>1
    <3>4. CASE q \in Refused({BlockedPipe(p, (p.heard \ o) \cup n) : o \in SUBSET p.stops,
                                                                     n \in NewNotes(p)})
      <4> DEFINE F(o, n) == BlockedPipe(p, (p.heard \ o) \cup n)
                 S == {F(o, n) : o \in SUBSET p.stops, n \in NewNotes(p)}
      <4>1. q \in Refused(S)
        BY <3>4
      <4>2. PICK o \in SUBSET p.stops, n \in NewNotes(p) : q = F(o, n)
        <5> HIDE DEF F
        <5>1. q \in S
          <6> HIDE DEF S
          <6> QED
            BY <4>1, RefusedOnly
        <5> QED
          BY <5>1
      <4>3. o \in SUBSET Notes
        BY <1>6
      <4>4. \E m \in NewNotes(p), r \in SUBSET Notes : q = BlockedPipe(p, (p.heard \ r) \cup m)
        BY <4>2, <4>3
      <4> QED
        BY <1>4, <4>4
    <3> QED
      BY <3>1, <3>2, <3>3, <3>4
  <2> QED
    BY <2>1, <2>2, <2>3

LEMMA FinishedFollows ==
  ASSUME NEW p, Follows(p), NEW quiet \in BOOLEAN
  PROVE  Follows(Finished(p, quiet))
<1>1. Finished(p, quiet) \in Pipe
  BY DEF Follows, Finished, Recovers, Pipe
<1>2. Finished(p, quiet).heard = p.heard /\ Finished(p, quiet).owed = p.owed
  BY DEF Follows, Finished, Recovers, Pipe
<1> QED
  BY <1>1, <1>2 DEF Follows

LEMMA SilencedFollows ==
  ASSUME NEW p, Follows(p), NEW before \in BOOLEAN, NEW q \in Silenced(p, before)
  PROVE  Follows(q)
<1>1. p \in Pipe /\ p.heard \in SUBSET Notes
  BY DEF Follows, Pipe
<1>2. CASE q = p
  BY <1>2
<1>3. CASE q = [p EXCEPT !.panics = FALSE]
  <2>1. q \in Pipe /\ q.heard = p.heard /\ q.owed = p.owed
    BY <1>1, <1>3 DEF Pipe
  <2> QED
    BY <2>1 DEF Follows
<1>4. CASE q = BlockedPipe(p, p.heard)
  BY <1>1, <1>4, BlockedFollows
<1> QED
  BY <1>2, <1>3, <1>4 DEF Silenced, Refused

\* Whatever the retry, the block's events, the hold and the panics come to, process()
\* leaves no note on other settings than those in force, unless it is owed.
LEMMA ProcessedFollows ==
  ASSUME active \in Tagged, NEW p, Follows(p), NEW quiet \in BOOLEAN,
         NEW q \in Processed(p, quiet)
  PROVE  Follows(q)
<1> DEFINE generated == UNION {Played(x) : x \in Retried(p)}
           silenced  == UNION {Silenced(Finished(y, quiet), p.panics) : y \in generated}
<1>1. p.panics \in BOOLEAN
  BY DEF Follows, Pipe
<1>2. ASSUME NEW y \in generated PROVE Follows(y)
  <2>1. PICK x \in Retried(p) : y \in Played(x)
    BY <1>2
  <2> QED
    BY <2>1, RetriedFollows, PlayedFollows
<1>3. ASSUME NEW z \in silenced PROVE Follows(z)
  <2>1. PICK y \in generated : z \in Silenced(Finished(y, quiet), p.panics)
    BY <1>3
  <2>2. Follows(Finished(y, quiet))
    BY <1>2, FinishedFollows
  <2> QED
    BY <1>1, <2>1, <2>2, SilencedFollows
<1>4. q \in silenced \/ q \in Refused({BlockedPipe(z, z.heard) : z \in silenced})
  BY DEF Processed
<1>5. CASE q \in silenced
  BY <1>3, <1>5
<1>6. CASE q \in Refused({BlockedPipe(z, z.heard) : z \in silenced})
  <2>1. q \in {BlockedPipe(z, z.heard) : z \in silenced}
    BY <1>6 DEF Refused
  <2>2. PICK z \in silenced : q = BlockedPipe(z, z.heard)
    BY <2>1
  <2>3. z \in Pipe /\ z.heard \in SUBSET Notes
    BY <1>3 DEF Follows, Pipe
  <2> QED
    BY <2>2, <2>3, BlockedFollows
<1> QED
  BY <1>4, <1>5, <1>6

-----------------------------------------------------------------------------
(* Types, and the notes *)

ConfigType ==
  /\ counter \in Nat
  /\ request \in Tagged /\ main \in Tagged /\ audio \in Tagged
  /\ unpublished \in BOOLEAN /\ unpublished_structural \in BOOLEAN

ExchangeType ==
  /\ prepared_pending \in Tagged \cup {Nothing} /\ prepared \in Tagged \cup {Nothing}
  /\ active \in Tagged
  /\ requested \in Nat /\ reconfiguring \in BOOLEAN

SignalType ==
  /\ panic_requested \in BOOLEAN /\ dirty \in BOOLEAN /\ callback \in BOOLEAN
  /\ status \in Ready .. Unsupported

AudioType ==
  /\ a_flush \in BOOLEAN /\ a_structural \in BOOLEAN /\ a_generation \in Nat
  /\ a_target \in Ready .. MidiBlocked

MainType == m_config \in Config /\ m_generation \in Nat /\ m_attempt \in 0 .. 4

HostType == host \in Hosts /\ edits \in 0 .. MaxEdits

LifecycleType ==
  lifecycle \in {"initialized", "active", "processing"} /\ releasing \in BOOLEAN

Types ==
  /\ ConfigType /\ ExchangeType /\ SignalType /\ AudioType /\ MainType /\ HostType
  /\ LifecycleType

\* The notes' invariant, inductive with the types it needs.
NotesInv == Types /\ Follows(pipe)

\* What a step leaves alone keeps its type.
LEMMA Frame ==
  ASSUME Types
  PROVE  /\ UNCHANGED configs => ConfigType'
         /\ UNCHANGED exchange => ExchangeType'
         /\ UNCHANGED signals => SignalType'
         /\ UNCHANGED a_call => AudioType'
         /\ UNCHANGED m_call => MainType'
         /\ UNCHANGED bounds => HostType'
         /\ UNCHANGED <<lifecycle, releasing>> => LifecycleType'
  BY DEF Types, ConfigType, ExchangeType, SignalType, AudioType, MainType, HostType,
         LifecycleType, configs, exchange, signals, a_call, m_call, bounds

LEMMA FollowsFrame ==
  ASSUME Follows(pipe), UNCHANGED <<active, pipe>>
  PROVE  Follows(pipe)'
  BY DEF Follows

\* Notes that are all owed follow any settings.
LEMMA OwedFollows ==
  ASSUME pipe' \in Pipe, pipe'.heard \ pipe'.owed = {}
  PROVE  Follows(pipe)'
  BY DEF Follows

LEMMA NothingOrTagged ==
  ASSUME NEW x \in Tagged \cup {Nothing}, x # Nothing
  PROVE  x \in Tagged
  OBVIOUS

LEMMA RequestsAreConfigs ==
  ASSUME NEW c \in Requests
  PROVE  c \in Config
  BY AdapterAssumption

LEMMA CountType ==
  ASSUME HostType, Count
  PROVE  HostType'
  BY AdapterAssumption DEF HostType, Count

LEMMA MarkDirtyType ==
  ASSUME dirty \in BOOLEAN, callback \in BOOLEAN, MarkDirty
  PROVE  dirty' \in BOOLEAN /\ callback' \in BOOLEAN
<1>1. dirty' \in BOOLEAN
  BY DEF MarkDirty
<1>2. callback' \in BOOLEAN
  BY DEF MarkDirty
<1> QED
  BY <1>1, <1>2

LEMMA LatchType ==
  ASSUME dirty \in BOOLEAN, callback \in BOOLEAN, status \in Ready .. Unsupported,
         NEW s \in Ready .. Unsupported, Latch(s)
  PROVE  /\ status' \in Ready .. Unsupported /\ dirty' \in BOOLEAN /\ callback' \in BOOLEAN
         /\ status' >= status /\ status' >= s
<1>1. CASE s > status
  BY <1>1, MarkDirtyType DEF Latch, Ready, Unsupported
<1>2. CASE ~(s > status)
  BY <1>2 DEF Latch, Ready, Unsupported
<1> QED
  BY <1>1, <1>2

LEMMA InitNotes ==
  ASSUME Init
  PROVE  NotesInv
<1>1. First \in Tagged
  BY AdapterAssumption DEF First, Tagged
<1>2. ConfigType /\ ExchangeType
  BY <1>1 DEF Init, ConfigType, ExchangeType
<1>3. SignalType
  <2>1. panic_requested \in BOOLEAN /\ dirty \in BOOLEAN /\ callback \in BOOLEAN
    BY DEF Init
  <2>2. status \in Ready .. Unsupported
    BY DEF Init, Ready, Unsupported
  <2> QED
    BY <2>1, <2>2 DEF SignalType
<1>4. AudioType
  <2>1. a_flush \in BOOLEAN /\ a_structural \in BOOLEAN
    BY DEF Init
  <2>2. a_generation \in Nat /\ a_target \in Ready .. MidiBlocked
    BY DEF Init, Ready, MidiBlocked
  <2> QED
    BY <2>1, <2>2 DEF AudioType
<1>5. MainType /\ HostType
  BY AdapterAssumption DEF Init, MainType, HostType
<1>6. LifecycleType
  BY DEF Init, LifecycleType
<1>7. Follows(pipe)
  BY FreshFollows DEF Init
<1> QED
  BY <1>2, <1>3, <1>4, <1>5, <1>6, <1>7 DEF NotesInv, Types

LEMMA LifecycleNotes ==
  ASSUME NotesInv, Lifecycle
  PROVE  NotesInv'
<1> USE DEF NotesInv, Types
<1>1. CASE Activate
  <2>1. ConfigType' /\ ExchangeType'
    BY <1>1 DEF Activate, ConfigType, ExchangeType, Tagged
  <2>2. SignalType'
    BY <1>1 DEF Activate, SignalType, Ready, Unsupported
  <2>3. LifecycleType'
    BY <1>1 DEF Activate, LifecycleType
  <2>4. Follows(pipe)'
    BY <1>1, FreshFollows, OwedFollows DEF Activate, Follows, Fresh
  <2> QED
    BY <1>1, <2>1, <2>2, <2>3, <2>4, Frame DEF Activate
<1>2. CASE Deactivate
  <2>1. ConfigType' /\ ExchangeType'
    BY <1>2 DEF Deactivate, ConfigType, ExchangeType
  <2>2. LifecycleType'
    BY <1>2 DEF Deactivate, LifecycleType
  <2>3. Follows(pipe)'
    BY <1>2, FreshFollows, OwedFollows DEF Deactivate, Follows, Fresh
  <2> QED
    BY <1>2, <2>1, <2>2, <2>3, Frame DEF Deactivate
<1>3. CASE StartProcessing \/ StopProcessing
  <2>1. LifecycleType'
    BY <1>3 DEF StartProcessing, StopProcessing, LifecycleType
  <2> QED
    BY <1>3, <2>1, Frame, FollowsFrame DEF StartProcessing, StopProcessing, exchange
<1>4. CASE Reset
  <2>1. pipe' \in Pipe /\ pipe'.heard \ pipe'.owed = {}
    BY <1>4, ResetFollows DEF Reset, Follows
  <2>2. SignalType'
    <3>1. PanicHold \in Ready .. Unsupported
      BY DEF PanicHold, Ready, Unsupported
    <3> QED
      BY <1>4, <3>1, LatchType DEF Reset, SignalType
  <2> QED
    BY <1>4, <2>1, <2>2, Frame, OwedFollows, CountType DEF Reset
<1> QED
  BY <1>1, <1>2, <1>3, <1>4 DEF Lifecycle

LEMMA AudioConfigNotes ==
  ASSUME NotesInv,
         (\E flush \in BOOLEAN : BeginCall(flush)) \/ Publish \/ PublishFails
           \/ RecordPublication \/ Snapshot \/ (\E c \in Requests : Edit(c)) \/ EditPanic
  PROVE  NotesInv'
<1> USE DEF NotesInv, Types
<1>1. CASE \E flush \in BOOLEAN : BeginCall(flush)
  <2>1. PICK flush \in BOOLEAN : BeginCall(flush)
    BY <1>1
  <2>2. ConfigType'
    BY <2>1 DEF BeginCall, TakeGeneration, ConfigType
  <2>3. AudioType'
    <3>1. a_structural' \in BOOLEAN
      BY <2>1 DEF BeginCall, ConfigType
    <3>2. a_flush' \in BOOLEAN /\ a_generation' \in Nat /\ a_target' = a_target
      BY <2>1 DEF BeginCall, TakeGeneration, ConfigType, AudioType
    <3> QED
      BY <3>1, <3>2 DEF AudioType
  <2> QED
    BY <2>1, <2>2, <2>3, Frame, FollowsFrame DEF BeginCall, exchange
<1>2. CASE Publish
  <2>1. [audio EXCEPT !.generation = a_generation] \in Tagged
    BY DEF ConfigType, AudioType, Tagged
  <2>2. ConfigType'
    BY <1>2, <2>1 DEF Publish, ConfigType
  <2>3. AudioType'
    <3>1. a_structural' \in BOOLEAN
      BY <1>2 DEF Publish, AudioType
    <3> QED
      BY <1>2, <3>1 DEF Publish, AudioType
  <2> QED
    BY <1>2, <2>2, <2>3, Frame, FollowsFrame DEF Publish, exchange
<1>3. CASE PublishFails
  <2>1. ConfigType'
    <3>1. unpublished_structural' \in BOOLEAN
      BY <1>3 DEF PublishFails, ConfigType, AudioType
    <3> QED
      BY <1>3, <3>1 DEF PublishFails, ConfigType
  <2>2. AudioType'
    BY <1>3 DEF PublishFails, AudioType
  <2> QED
    BY <1>3, <2>1, <2>2, Frame, FollowsFrame DEF PublishFails, exchange
<1>4. CASE RecordPublication
  <2>1. ExchangeType'
    BY <1>4 DEF RecordPublication, ExchangeType, AudioType
  <2>2. SignalType'
    <3>1. dirty' \in BOOLEAN /\ callback' \in BOOLEAN
      BY <1>4, MarkDirtyType DEF RecordPublication, SignalType
    <3>2. status' \in Ready .. Unsupported /\ panic_requested' = panic_requested
      BY <1>4 DEF RecordPublication, SignalType, Ready, Reconfiguring, Unsupported
    <3> QED
      BY <3>1, <3>2 DEF SignalType
  <2>3. AudioType'
    BY <1>4 DEF RecordPublication, AudioType
  <2> QED
    BY <1>4, <2>1, <2>2, <2>3, Frame, FollowsFrame DEF RecordPublication
<1>5. CASE Snapshot
  <2>1. ConfigType' /\ AudioType'
    BY <1>5 DEF Snapshot, ConfigType, AudioType
  <2> QED
    BY <1>5, <2>1, Frame, FollowsFrame DEF Snapshot, exchange
<1>6. CASE \E c \in Requests : Edit(c)
  <2>1. PICK c \in Requests : Edit(c)
    BY <1>6
  <2>2. [audio EXCEPT !.config = c] \in Tagged
    BY RequestsAreConfigs DEF ConfigType, Tagged
  <2>3. ConfigType' /\ AudioType'
    BY <2>1, <2>2 DEF Edit, TakeGeneration, ConfigType, AudioType
  <2> QED
    BY <2>1, <2>3, Frame, FollowsFrame, CountType DEF Edit, exchange
<1>7. CASE EditPanic
  <2>1. SignalType'
    <3>1. dirty' \in BOOLEAN /\ callback' \in BOOLEAN
      BY <1>7, MarkDirtyType DEF EditPanic, SignalType
    <3> QED
      BY <1>7, <3>1 DEF EditPanic, SignalType
  <2> QED
    BY <1>7, <2>1, Frame, FollowsFrame, CountType DEF EditPanic, exchange
<1> QED
  BY <1>1, <1>2, <1>3, <1>4, <1>5, <1>6, <1>7

LEMMA AdoptionNotes ==
  ASSUME NotesInv, Claim \/ NoClaim \/ CompareAdopted \/ ClearReconfiguration
  PROVE  NotesInv'
<1> USE DEF NotesInv, Types
<1>1. CASE Claim
  <2>1. prepared \in Tagged
    BY <1>1, NothingOrTagged DEF Claim, Claiming, MayClaim, ExchangeType
  <2>2. active' \in Tagged
    BY <1>1, <2>1 DEF Claim, ExchangeType, Tagged, Config
  <2>3. pipe' \in Pipe /\ pipe'.heard \ pipe'.owed = {}
    BY <1>1, ResetFollows DEF Claim, Follows
  <2>4. ExchangeType'
    BY <1>1, <2>2 DEF Claim, ExchangeType
  <2>5. AudioType'
    BY <1>1, <2>1 DEF Claim, AudioType, Tagged
  <2>6. LifecycleType'
    BY <1>1 DEF Claim, LifecycleType
  <2> QED
    BY <1>1, <2>3, <2>4, <2>5, <2>6, Frame, OwedFollows DEF Claim
<1>2. CASE NoClaim \/ CompareAdopted
  <2>1. AudioType'
    BY <1>2 DEF NoClaim, CompareAdopted, AudioType
  <2> QED
    BY <1>2, <2>1, Frame, FollowsFrame DEF NoClaim, CompareAdopted, exchange
<1>3. CASE ClearReconfiguration
  <2>1. ExchangeType'
    BY <1>3 DEF ClearReconfiguration, ExchangeType
  <2>2. AudioType'
    BY <1>3 DEF ClearReconfiguration, AudioType
  <2> QED
    BY <1>3, <2>1, <2>2, Frame, FollowsFrame DEF ClearReconfiguration
<1> QED
  BY <1>1, <1>2, <1>3

LEMMA DeliveryNotes ==
  ASSUME NotesInv, FlushReturns \/ TakePanic \/ Deliver \/ StoreStatus
  PROVE  NotesInv'
<1> USE DEF NotesInv, Types
<1>1. CASE FlushReturns
  <2>1. AudioType'
    BY <1>1 DEF FlushReturns, AudioForgets, AudioType
  <2> QED
    BY <1>1, <2>1, Frame, FollowsFrame DEF FlushReturns, exchange
<1>2. CASE TakePanic
  <2>1. Follows(pipe')
    BY <1>2, PanickedFollows DEF TakePanic
  <2>2. Follows(pipe)'
    BY <1>2, <2>1 DEF TakePanic, Follows, exchange
  <2>3. AudioType' /\ SignalType'
    BY <1>2 DEF TakePanic, AudioForgets, AudioType, SignalType
  <2> QED
    BY <1>2, <2>2, <2>3, Frame DEF TakePanic
<1>3. CASE Deliver
  <2>1. PICK fault \in Faults, quiet \in BOOLEAN : pipe' \in Processed(pipe, quiet) /\ Latch(fault)
    BY <1>3 DEF Deliver
  <2>2. Follows(pipe')
    BY <2>1, ProcessedFollows DEF ExchangeType
  <2>3. Follows(pipe)'
    BY <1>3, <2>2 DEF Deliver, Follows, exchange
  <2>4. fault \in Ready .. Unsupported
    BY DEF Faults, Ready, Invalid, Unsupported
  <2>5. SignalType'
    BY <1>3, <2>1, <2>4, LatchType DEF Deliver, SignalType
  <2>6. a_target' \in Ready .. MidiBlocked
    BY <1>3 DEF Deliver, Target, AudioType, Ready, PanicHold, Reconfiguring, MidiBlocked
  <2>7. AudioType'
    BY <1>3, <2>6 DEF Deliver, AudioType
  <2>8. LifecycleType'
    <3>1. releasing' = (releasing /\ CleanupPending(pipe')) /\ lifecycle' = lifecycle
      BY <1>3 DEF Deliver
    <3> QED
      BY <3>1 DEF LifecycleType
  <2> QED
    BY <1>3, <2>3, <2>5, <2>7, <2>8, Frame DEF Deliver
<1>4. CASE StoreStatus
  <2>1. SignalType'
    <3>1. dirty' \in BOOLEAN /\ callback' \in BOOLEAN
      BY <1>4, MarkDirtyType DEF StoreStatus, SignalType
    <3> QED
      BY <1>4, <3>1 DEF StoreStatus, SignalType, AudioType, Ready, MidiBlocked, Unsupported
  <2>2. AudioType'
    BY <1>4 DEF StoreStatus, AudioType, Ready, MidiBlocked
  <2> QED
    BY <1>4, <2>1, <2>2, Frame, FollowsFrame DEF StoreStatus, exchange
<1> QED
  BY <1>1, <1>2, <1>3, <1>4

LEMMA LoadNotes ==
  ASSUME NotesInv, LoadPublish \/ LoadPublishFails \/ LoadRecord \/ LoadPrepare \/ MainEvents
  PROVE  NotesInv'
<1> USE DEF NotesInv, Types
<1>1. CASE LoadPublish
  <2>1. ConfigType' /\ MainType'
    BY <1>1 DEF LoadPublish, ConfigType, MainType, Tagged
  <2> QED
    BY <1>1, <2>1, Frame, FollowsFrame DEF LoadPublish, exchange
<1>2. CASE LoadPublishFails
  <2>1. ConfigType' /\ MainType'
    BY <1>2, AdapterAssumption
       DEF LoadPublishFails, LoadGeneration, MainForgets, ConfigType, MainType
  <2> QED
    BY <1>2, <2>1, Frame, FollowsFrame DEF LoadPublishFails, exchange
<1>3. CASE LoadRecord
  <2>1. [config |-> m_config, generation |-> m_generation] \in Tagged
    BY DEF MainType, Tagged
  <2>2. ConfigType'
    BY <1>3, <2>1 DEF LoadRecord, ConfigType
  <2>3. MainType'
    BY <1>3, AdapterAssumption DEF LoadRecord, MainForgets, MainType
  <2>4. ExchangeType'
    BY <1>3, <2>1 DEF LoadRecord, ExchangeType, MainType
  <2>5. SignalType'
    <3>1. panic_requested' \in BOOLEAN /\ UNCHANGED <<dirty, callback>>
      BY <1>3 DEF LoadRecord
    <3>2. status' = status \/ status' = Ready
      BY <1>3 DEF LoadRecord
    <3> QED
      BY <3>1, <3>2 DEF SignalType, Ready, Unsupported
  <2> QED
    BY <1>3, <2>2, <2>3, <2>4, <2>5, Frame, FollowsFrame DEF LoadRecord
<1>4. CASE LoadPrepare
  <2>1. SignalType'
    <3>1. dirty' \in BOOLEAN /\ callback' \in BOOLEAN
      BY <1>4, MarkDirtyType DEF LoadPrepare, SignalType
    <3> QED
      BY <1>4, <3>1 DEF LoadPrepare, SignalType, Ready, Reconfiguring, Unsupported
  <2>2. ExchangeType'
    BY <1>4 DEF LoadPrepare, PublishPrepared, KeepPrepared, ExchangeType
  <2>3. MainType'
    BY <1>4 DEF LoadPrepare, MainType
  <2> QED
    BY <1>4, <2>1, <2>2, <2>3, Frame, FollowsFrame DEF LoadPrepare
<1>5. CASE \E c \in Requests : LoadState(c)
  <2>1. PICK c \in Requests : LoadState(c)
    BY <1>5
  <2>2. ConfigType' /\ MainType'
    BY <2>1, RequestsAreConfigs DEF LoadState, LoadGeneration, ConfigType, MainType
  <2> QED
    BY <2>1, <2>2, Frame, FollowsFrame, CountType DEF LoadState, exchange
<1>6. CASE \E c \in Requests : InactiveEdit(c)
  <2>1. PICK c \in Requests : InactiveEdit(c)
    BY <1>6
  <2>2. [config |-> c, generation |-> counter + 1] \in Tagged
    BY RequestsAreConfigs DEF ConfigType, Tagged
  <2>3. ConfigType'
    BY <2>1, <2>2 DEF InactiveEdit, ConfigType
  <2> QED
    BY <2>1, <2>3, Frame, FollowsFrame, CountType DEF InactiveEdit, exchange
<1>7. CASE InactivePanic
  <2>1. SignalType'
    <3>1. dirty' \in BOOLEAN /\ callback' \in BOOLEAN
      BY <1>7, MarkDirtyType DEF InactivePanic, SignalType
    <3> QED
      BY <1>7, <3>1 DEF InactivePanic, SignalType
  <2> QED
    BY <1>7, <2>1, Frame, FollowsFrame, CountType DEF InactivePanic, exchange
<1> QED
  BY <1>1, <1>2, <1>3, <1>4, <1>5, <1>6, <1>7 DEF MainEvents

LEMMA CallbackNotes ==
  ASSUME NotesInv, OnMainThread \/ MainSnapshot \/ MainSnapshotFails \/ MainRecord \/ MainPrepare
  PROVE  NotesInv'
<1> USE DEF NotesInv, Types
<1>1. CASE OnMainThread
  <2>1. SignalType' /\ MainType'
    BY <1>1 DEF OnMainThread, SignalType, MainType
  <2> QED
    BY <1>1, <2>1, Frame, FollowsFrame DEF OnMainThread, exchange
<1>2. CASE MainSnapshot \/ MainSnapshotFails
  <2>1. MainType'
    BY <1>2 DEF MainSnapshot, MainSnapshotFails, MainType, ConfigType, Tagged
  <2> QED
    BY <1>2, <2>1, Frame, FollowsFrame DEF MainSnapshot, MainSnapshotFails, exchange
<1>3. CASE MainRecord
  <2>1. [config |-> m_config, generation |-> m_generation] \in Tagged
    BY DEF MainType, Tagged
  <2>2. ConfigType'
    BY <1>3, <2>1 DEF MainRecord, ConfigType
  <2>3. ExchangeType'
    BY <1>3, <2>1 DEF MainRecord, ExchangeType, MainType
  <2>4. SignalType'
    <3>1. Reconfiguring \in Ready .. Unsupported
      BY DEF Reconfiguring, Ready, Unsupported
    <3>2. Latch(Reconfiguring) \/ UNCHANGED <<status, dirty, callback>>
      BY <1>3 DEF MainRecord
    <3>3. panic_requested' = panic_requested
      BY <1>3 DEF MainRecord
    <3> QED
      BY <3>1, <3>2, <3>3, LatchType DEF SignalType
  <2>5. MainType'
    BY <1>3, AdapterAssumption DEF MainRecord, MainType
  <2> QED
    BY <1>3, <2>2, <2>3, <2>4, <2>5, Frame, FollowsFrame DEF MainRecord
<1>4. CASE MainPrepare
  <2>1. MainType'
    BY <1>4, AdapterAssumption DEF MainPrepare, MainForgets, MainType
  <2>2. ExchangeType'
    BY <1>4 DEF MainPrepare, PublishPrepared, KeepPrepared, ExchangeType
  <2>3. SignalType'
    <3>1. MarkDirty \/ UNCHANGED <<dirty, callback>>
      BY <1>4 DEF MainPrepare
    <3>2. UNCHANGED <<status, panic_requested>>
      BY <1>4 DEF MainPrepare
    <3> QED
      BY <3>1, <3>2, MarkDirtyType DEF SignalType
  <2> QED
    BY <1>4, <2>1, <2>2, <2>3, Frame, FollowsFrame DEF MainPrepare
<1> QED
  BY <1>1, <1>2, <1>3, <1>4

LEMMA NotesStep ==
  ASSUME NotesInv, [Next]_vars
  PROVE  NotesInv'
<1>1. CASE Next
  BY <1>1, LifecycleNotes, AudioConfigNotes, AdoptionNotes, DeliveryNotes, LoadNotes,
     CallbackNotes DEF Next, AudioCall, AudioEvents, MainCall
<1>2. CASE UNCHANGED vars
  BY <1>2, Frame, FollowsFrame DEF NotesInv, Types, vars, exchange
<1> QED
  BY <1>1, <1>2

LEMMA NotesInvariant == Spec => []NotesInv
<1>1. Init => NotesInv
  BY InitNotes
<1>2. NotesInv /\ [Next]_vars => NotesInv'
  BY NotesStep
<1> QED
  BY <1>1, <1>2, PTL DEF Spec

\* The adapter's variables keep their types, the locals of both threads included
\* (clap_adapter.cpp:48-118).
THEOREM AdapterTypeOK == Spec => []TypeOK
<1>1. NotesInv => TypeOK
  BY DEF NotesInv, Types, ConfigType, ExchangeType, SignalType, AudioType, MainType, HostType,
         LifecycleType, Follows, TypeOK
<1> QED
  BY <1>1, NotesInvariant, PTL

\* Whichever of adoption, panic, refused event and recovery a block combines, a note
\* that sounds and is not owed was started under the structural settings in force
\* (process; clap_adapter.cpp:680-738).
THEOREM NotesFollowTheSettings == Spec => []NotesFollowConfig
<1>1. NotesInv => NotesFollowConfig
  BY DEF NotesInv, Follows, NotesFollowConfig
<1> QED
  BY <1>1, NotesInvariant, PTL

-----------------------------------------------------------------------------
(* What the host is shown *)

StatusVars == <<lifecycle, pipe, a_stage, a_flush, a_target>>

\* The status may go up, never to Ready, while the rest stands.
LEMMA StatusFrame ==
  ASSUME StatusInv, UNCHANGED StatusVars, status' = status \/ status' # Ready
  PROVE  StatusInv'
  BY DEF StatusInv, StatusVars, Running, PipeUntouched, Open

\* A step of the call that leaves the pipeline and the status alone, and neither
\* adopts nor stores.
LEMMA StageFrame ==
  ASSUME StatusInv, UNCHANGED <<lifecycle, pipe, status, a_flush, a_target>>,
         a_stage # "idle" \/ Running,
         PipeUntouched' => PipeUntouched,
         a_stage' \notin {"adopted", "clear", "deliver", "status_store"}
  PROVE  StatusInv'
  BY DEF StatusInv, Running, Open

LEMMA LifecycleStatus ==
  ASSUME NotesInv, StatusInv, Lifecycle
  PROVE  StatusInv'
<1>1. CASE Activate
  BY <1>1 DEF Activate, Quiet, StatusInv, Running, Fresh, Open, a_call
<1>2. CASE Deactivate
  BY <1>2 DEF Deactivate, Quiet, StatusInv, Running, a_call
<1>3. CASE StartProcessing \/ StopProcessing
  BY <1>3 DEF StartProcessing, StopProcessing, StatusInv, Running, PipeUntouched, signals, a_call
<1>4. CASE Reset
  <2>1. status' # Ready
    BY <1>4, LatchType DEF Reset, NotesInv, Types, SignalType, PanicHold, Ready, Unsupported
  <2> QED
    BY <1>4, <2>1 DEF Reset, StatusInv, Running, a_call
<1> QED
  BY <1>1, <1>2, <1>3, <1>4 DEF Lifecycle

LEMMA AudioConfigStatus ==
  ASSUME NotesInv, StatusInv,
         (\E flush \in BOOLEAN : BeginCall(flush)) \/ Publish \/ PublishFails
           \/ RecordPublication \/ Snapshot \/ (\E c \in Requests : Edit(c)) \/ EditPanic
  PROVE  StatusInv'
<1>1. CASE \E flush \in BOOLEAN : BeginCall(flush)
  BY <1>1 DEF BeginCall, StatusInv, Running, PipeUntouched, Open, signals
<1>2. CASE Publish \/ PublishFails
  BY <1>2, StageFrame
     DEF Publish, PublishFails, Publishing, PipeUntouched, signals
<1>3. CASE RecordPublication
  <2>1. status' = status \/ status' # Ready
    BY <1>3 DEF RecordPublication, Ready, Reconfiguring
  <2>2. PipeUntouched' => PipeUntouched
    BY <1>3 DEF RecordPublication, PipeUntouched
  <2> QED
    BY <1>3, <2>1, <2>2 DEF RecordPublication, StatusInv, Running, Open
<1>4. CASE Snapshot
  BY <1>4, StageFrame DEF Snapshot, PipeUntouched, signals
<1>5. CASE \E c \in Requests : Edit(c)
  BY <1>5, StageFrame DEF Edit, PipeUntouched, signals
<1>6. CASE EditPanic
  BY <1>6, StatusFrame DEF EditPanic, StatusVars, a_call
<1> QED
  BY <1>1, <1>2, <1>3, <1>4, <1>5, <1>6

LEMMA CallStatus ==
  ASSUME NotesInv, StatusInv,
         Claim \/ NoClaim \/ CompareAdopted \/ ClearReconfiguration
           \/ FlushReturns \/ TakePanic \/ Deliver \/ StoreStatus
  PROVE  StatusInv'
<1>1. CASE Claim
  BY <1>1 DEF Claim, Claiming, MayClaim, StatusInv, Running, PipeUntouched, signals
<1>2. CASE NoClaim
  BY <1>2, StageFrame DEF NoClaim, PipeUntouched, signals
<1>3. CASE CompareAdopted \/ ClearReconfiguration
  BY <1>3 DEF CompareAdopted, ClearReconfiguration, StatusInv, Running, PipeUntouched, signals
<1>4. CASE FlushReturns
  <2>1. PipeUntouched
    BY <1>4 DEF FlushReturns, PipeUntouched
  <2> QED
    BY <1>4, <2>1, StageFrame
       DEF FlushReturns, AudioForgets, Read, StatusInv, Running, Open, signals
<1>5. CASE TakePanic
  BY <1>5 DEF TakePanic, AudioForgets, Read, StatusInv, Running, PipeUntouched
<1>6. CASE Deliver
  <2>1. Running /\ Running' /\ ~a_flush'
    BY <1>6 DEF Deliver, StatusInv, Running
  <2>2. CASE status' \in {Invalid, Unsupported}
    BY <1>6, <2>1, <2>2 DEF Deliver, StatusInv, Ready, Invalid, Unsupported
  <2>3. CASE status' \notin {Invalid, Unsupported}
    <3>1. a_stage' = "status_store" /\ a_target' = Target(pipe')
      BY <1>6, <2>3 DEF Deliver
    <3>2. a_target' = Ready => Open(pipe')
      BY <3>1 DEF Target, Open, Ready, PanicHold, Reconfiguring, MidiBlocked
    <3> QED
      BY <2>1, <3>1, <3>2 DEF StatusInv, PipeUntouched, Open
  <2> QED
    BY <2>2, <2>3
<1>7. CASE StoreStatus
  <2>1. status' = a_target /\ pipe' = pipe /\ a_stage' = "idle" /\ a_stage = "status_store"
    BY <1>7 DEF StoreStatus
  <2>2. a_flush' = a_flush
    BY <1>7 DEF StoreStatus
  <2> QED
    BY <2>1, <2>2 DEF StatusInv, Open
<1> QED
  BY <1>1, <1>2, <1>3, <1>4, <1>5, <1>6, <1>7

LEMMA MainStatus ==
  ASSUME NotesInv, StatusInv, OnMainThread \/ MainCall \/ MainEvents
  PROVE  StatusInv'
<1> USE DEF StatusVars, signals, a_call
<1>1. CASE OnMainThread \/ MainSnapshot \/ MainSnapshotFails \/ MainPrepare
  BY <1>1, StatusFrame DEF OnMainThread, MainSnapshot, MainSnapshotFails, MainPrepare
<1>2. CASE LoadPublish \/ LoadPublishFails
  BY <1>2, StatusFrame DEF LoadPublish, LoadPublishFails
<1>3. CASE LoadRecord
  <2>1. UNCHANGED StatusVars
    BY <1>3 DEF LoadRecord
  <2>2. CASE Running
    BY <1>3, <2>1, <2>2, StatusFrame DEF LoadRecord
  <2>3. CASE ~Running
    BY <2>1, <2>3 DEF StatusInv, Running
  <2> QED
    BY <2>2, <2>3
<1>4. CASE LoadPrepare
  BY <1>4, StatusFrame DEF LoadPrepare, Ready, Reconfiguring
<1>5. CASE MainRecord
  <2>1. UNCHANGED StatusVars
    BY <1>5 DEF MainRecord
  <2>2. Latch(Reconfiguring) \/ status' = status
    BY <1>5 DEF MainRecord
  <2>3. status' = status \/ status' # Ready
    BY <2>2, LatchType
       DEF NotesInv, Types, SignalType, Reconfiguring, Ready, Unsupported
  <2> QED
    BY <2>1, <2>3, StatusFrame
<1>6. CASE MainEvents
  BY <1>6, StatusFrame DEF MainEvents, LoadState, InactiveEdit, InactivePanic
<1> QED
  BY <1>1, <1>2, <1>3, <1>4, <1>5, <1>6 DEF MainCall

LEMMA StatusInvariant == Spec => []StatusInv
<1>1. Init => StatusInv
  BY DEF Init, StatusInv, Running, Fresh, Open
<1>2. NotesInv /\ StatusInv /\ [Next]_vars => StatusInv'
  <2> SUFFICES ASSUME NotesInv, StatusInv, [Next]_vars
               PROVE  StatusInv'
    OBVIOUS
  <2>1. CASE Next
    BY <2>1, LifecycleStatus, AudioConfigStatus, CallStatus, MainStatus
       DEF Next, AudioCall, AudioEvents
  <2>2. CASE UNCHANGED vars
    BY <2>2, StatusFrame DEF vars, StatusVars, signals, a_call
  <2> QED
    BY <2>1, <2>2
<1> QED
  BY <1>1, <1>2, NotesInvariant, PTL DEF Spec

\* Between calls a running adapter shows Ready with an open output only, whatever the
\* main thread latched or stored while the call was deciding
\* (publish_runtime_status; clap_adapter.cpp:643-654).
THEOREM ReadyIsShownOpen == Spec => []ReadyMeansOpen
<1>1. StatusInv => ReadyMeansOpen
  BY DEF StatusInv, ReadyMeansOpen, PipeUntouched, Open
<1> QED
  BY <1>1, StatusInvariant, PTL

-----------------------------------------------------------------------------
(* Generations *)

\* What the invariant of the generations reads, but for the stages.
GenerationVars == <<configs, a_generation, m_config, m_generation>>

LEMMA GenerationFrame ==
  ASSUME GenerationInv, UNCHANGED <<lifecycle, GenerationVars, a_stage, m_stage>>
  PROVE  GenerationInv'
  BY DEF GenerationInv, CounterInv, AudioConfigInv, MainConfigInv, GenerationVars, configs,
         Running, Publishing, MainPublishing

\* A call that goes on without publishing, editing or reading a configuration.
LEMMA AudioStageFrame ==
  ASSUME GenerationInv, UNCHANGED <<lifecycle, configs, m_config, m_generation, m_stage>>,
         a_stage # "edit_publish",
         a_stage' \notin {"sync_publish", "edit_publish"}
  PROVE  GenerationInv'
  BY DEF GenerationInv, CounterInv, AudioConfigInv, MainConfigInv, configs, Running, Publishing,
         MainPublishing

LEMMA MainStageFrame ==
  ASSUME GenerationInv, UNCHANGED <<lifecycle, configs, a_generation, a_stage>>,
         m_stage' \notin {"load_publish", "load_record", "record"}
  PROVE  GenerationInv'
  BY DEF GenerationInv, CounterInv, AudioConfigInv, MainConfigInv, configs, Running, Publishing,
         MainPublishing

LEMMA LifecycleGeneration ==
  ASSUME NotesInv, StatusInv, GenerationInv, Lifecycle
  PROVE  GenerationInv'
<1> USE DEF NotesInv, Types, ConfigType, Tagged, GenerationInv, CounterInv, AudioConfigInv,
            MainConfigInv, Running, Publishing, MainPublishing, a_call, m_call
<1>1. CASE Activate
  BY <1>1 DEF Activate, Quiet
<1>2. CASE Deactivate
  BY <1>2 DEF Deactivate, Quiet
<1>3. CASE StartProcessing \/ StopProcessing \/ Reset
  BY <1>3 DEF StartProcessing, StopProcessing, Reset, configs
<1> QED
  BY <1>1, <1>2, <1>3 DEF Lifecycle

LEMMA AudioGeneration ==
  ASSUME NotesInv, StatusInv, GenerationInv,
         (\E flush \in BOOLEAN : BeginCall(flush)) \/ AudioCall \/ AudioEvents
  PROVE  GenerationInv'
<1>1. CASE \E flush \in BOOLEAN : BeginCall(flush)
  <2>1. PICK flush \in BOOLEAN : BeginCall(flush)
    BY <1>1
  <2>2. /\ UNCHANGED <<lifecycle, request, main, audio, unpublished, m_call>>
        /\ a_stage = "idle" /\ a_stage' \in {"sync_publish", "snapshot"}
        /\ counter' = counter \/ counter' = counter + 1
        /\ a_stage' = "sync_publish" => a_generation' = counter'
    BY <2>1 DEF BeginCall, TakeGeneration
  <2> QED
    BY <2>2 DEF NotesInv, Types, ConfigType, MainType, Tagged, GenerationInv, CounterInv,
                AudioConfigInv, MainConfigInv, Running, Publishing, MainPublishing, m_call
<1>2. CASE Publish
  <2>1. /\ request' = [audio EXCEPT !.generation = a_generation] /\ audio' = request'
        /\ UNCHANGED <<counter, main, m_call>>
        /\ a_generation > request.generation /\ a_stage' \in {"sync_record", "edit_record"}
    BY <1>2 DEF Publish
  <2>2. request'.generation = a_generation /\ a_generation <= counter
    BY <1>2, <2>1 DEF Publish, NotesInv, Types, ConfigType, Tagged, GenerationInv, CounterInv
  <2>3. CounterInv'
    BY <2>1, <2>2 DEF GenerationInv, CounterInv, Publishing, MainPublishing, m_call
  <2>4. AudioConfigInv'
    BY <2>1, <2>2 DEF NotesInv, Types, AudioType, AudioConfigInv
  <2>5. MainConfigInv'
    BY <2>1, <2>2 DEF NotesInv, Types, ConfigType, AudioType, MainType, Tagged, GenerationInv,
                      MainConfigInv, m_call
  <2> QED
    BY <2>3, <2>4, <2>5 DEF GenerationInv
<1>3. CASE PublishFails
  BY <1>3 DEF PublishFails, GenerationInv, CounterInv, AudioConfigInv, MainConfigInv, Publishing,
              MainPublishing, m_call
<1>4. CASE RecordPublication
  BY <1>4, AudioStageFrame DEF RecordPublication, m_call
<1>5. CASE Snapshot
  <2>1. /\ UNCHANGED <<lifecycle, counter, request, main, m_call>>
        /\ audio' = request \/ (audio' = audio /\ unpublished' = unpublished)
        /\ a_stage = "snapshot" /\ a_stage' = "claim"
    BY <1>5 DEF Snapshot
  <2>2. request.generation \in Nat
    BY DEF NotesInv, Types, ConfigType, Tagged
  <2> QED
    BY <2>1, <2>2 DEF GenerationInv, CounterInv, AudioConfigInv, MainConfigInv, Running,
                      Publishing, MainPublishing, m_call
<1>6. CASE Claim \/ NoClaim \/ CompareAdopted \/ ClearReconfiguration
  BY <1>6, AudioStageFrame
     DEF Claim, Claiming, NoClaim, CompareAdopted, ClearReconfiguration, m_call
<1>7. CASE FlushReturns \/ TakePanic
  BY <1>7, AudioStageFrame DEF FlushReturns, TakePanic, Read, m_call
<1>8. CASE Deliver
  <2>1. a_stage = "deliver" /\ a_stage' \in {"idle", "status_store"}
    BY <1>8 DEF Deliver
  <2> QED
    BY <1>8, <2>1, AudioStageFrame DEF Deliver, m_call
<1>9. CASE StoreStatus
  BY <1>9, AudioStageFrame DEF StoreStatus, m_call
<1>10. CASE \E c \in Requests : Edit(c)
  <2>1. PICK c \in Requests : Edit(c)
    BY <1>10
  <2>2. /\ audio'.generation = audio.generation
        /\ counter' = counter + 1 /\ a_generation' = counter + 1
        /\ a_stage' = "edit_publish" /\ UNCHANGED <<request, main, m_call>>
    BY <2>1 DEF Edit, TakeGeneration, NotesInv, Types, ConfigType, Tagged
  <2> QED
    BY <2>2 DEF NotesInv, Types, ConfigType, MainType, Tagged, GenerationInv, CounterInv,
                AudioConfigInv, MainConfigInv, Publishing, MainPublishing, m_call
<1>11. CASE EditPanic
  BY <1>11, GenerationFrame DEF EditPanic, GenerationVars, a_call, m_call
<1> QED
  BY <1>1, <1>2, <1>3, <1>4, <1>5, <1>6, <1>7, <1>8, <1>9, <1>10, <1>11
     DEF AudioCall, AudioEvents

LEMMA MainGeneration ==
  ASSUME NotesInv, StatusInv, GenerationInv, OnMainThread \/ MainCall \/ MainEvents
  PROVE  GenerationInv'
<1>1. CASE OnMainThread \/ MainSnapshotFails \/ LoadPrepare \/ MainPrepare
  BY <1>1, MainStageFrame
     DEF OnMainThread, MainSnapshotFails, LoadPrepare, MainPrepare, a_call
<1>2. CASE LoadPublish
  <2>1. /\ m_stage = "load_publish" /\ m_stage' = "load_record"
        /\ m_generation > request.generation
        /\ request' = [config |-> m_config, generation |-> m_generation]
        /\ UNCHANGED <<lifecycle, counter, main, audio, unpublished, a_call, m_config, m_generation>>
    BY <1>2 DEF LoadPublish, MainPublishing
  <2>2. m_generation <= counter
    BY <2>1 DEF GenerationInv, CounterInv, MainPublishing
  <2>3. CounterInv'
    BY <2>1, <2>2 DEF GenerationInv, CounterInv, Publishing, MainPublishing, a_call
  <2>4. AudioConfigInv'
    BY <2>1 DEF NotesInv, Types, ConfigType, MainType, Tagged, GenerationInv, AudioConfigInv
  <2>5. MainConfigInv'
    BY <2>1 DEF NotesInv, Types, ConfigType, MainType, Tagged, GenerationInv, MainConfigInv
  <2> QED
    BY <2>3, <2>4, <2>5 DEF GenerationInv
<1>3. CASE LoadPublishFails
  <2>1. /\ UNCHANGED <<lifecycle, request, main, audio, unpublished, a_call>>
        /\ \/ counter' = counter + 1 /\ m_generation' = counter + 1 /\ m_stage' = m_stage
           \/ counter' = counter /\ m_stage' = "idle"
        /\ m_stage = "load_publish"
    BY <1>3 DEF LoadPublishFails, LoadGeneration, MainPublishing
  <2> QED
    BY <2>1 DEF NotesInv, Types, ConfigType, AudioType, Tagged, GenerationInv, CounterInv,
                AudioConfigInv, MainConfigInv, Running, Publishing, MainPublishing, a_call
<1>4. CASE LoadRecord
  <2>1. /\ UNCHANGED <<lifecycle, counter, request, audio, unpublished, a_call>>
        /\ main' = [config |-> m_config, generation |-> m_generation]
        /\ m_stage = "load_record" /\ m_stage' \in {"load_prepare", "idle"}
    BY <1>4 DEF LoadRecord
  <2> QED
    BY <2>1 DEF NotesInv, Types, ConfigType, Tagged, GenerationInv, CounterInv,
                AudioConfigInv, MainConfigInv, Running, Publishing, MainPublishing, a_call
<1>5. CASE MainSnapshot
  <2>1. /\ UNCHANGED <<lifecycle, configs, a_call>>
        /\ m_config' = request.config /\ m_generation' = request.generation
        /\ m_stage = "snapshot" /\ m_stage' = "record"
    BY <1>5 DEF MainSnapshot
  <2> QED
    BY <2>1 DEF NotesInv, Types, ConfigType, Tagged, GenerationInv, CounterInv,
                AudioConfigInv, MainConfigInv, Running, Publishing, MainPublishing, a_call, configs
<1>6. CASE MainRecord
  <2>1. /\ UNCHANGED <<lifecycle, counter, request, audio, unpublished, a_call>>
        /\ main' = main \/ main' = [config |-> m_config, generation |-> m_generation]
        /\ m_stage = "record" /\ m_stage' = "prepare"
    BY <1>6 DEF MainRecord
  <2> QED
    BY <2>1 DEF NotesInv, Types, ConfigType, Tagged, GenerationInv, CounterInv,
                AudioConfigInv, MainConfigInv, Running, Publishing, MainPublishing, a_call
<1>7. CASE \E c \in Requests : LoadState(c)
  <2>1. PICK c \in Requests : LoadState(c)
    BY <1>7
  <2>2. /\ UNCHANGED <<lifecycle, request, main, audio, unpublished, a_call>>
        /\ counter' = counter + 1 /\ m_generation' = counter + 1
        /\ m_stage = "idle" /\ m_stage' = "load_publish"
    BY <2>1 DEF LoadState, LoadGeneration
  <2> QED
    BY <2>2 DEF NotesInv, Types, ConfigType, AudioType, Tagged, GenerationInv, CounterInv,
                AudioConfigInv, MainConfigInv, Running, Publishing, MainPublishing, a_call
<1>8. CASE \E c \in Requests : InactiveEdit(c)
  <2>1. PICK c \in Requests : InactiveEdit(c)
    BY <1>8
  <2>2. /\ UNCHANGED <<lifecycle, audio, a_call, m_call>>
        /\ a_stage = "idle" /\ m_stage = "idle" /\ lifecycle = "initialized"
        /\ counter' = counter + 1 /\ main' = request'
        /\ request' = [config |-> c, generation |-> counter + 1]
    BY <2>1 DEF InactiveEdit, Quiet
  <2> QED
    BY <2>2 DEF NotesInv, Types, ConfigType, Tagged, GenerationInv, CounterInv,
                AudioConfigInv, MainConfigInv, Running, Publishing, MainPublishing, a_call, m_call
<1>9. CASE InactivePanic
  BY <1>9, GenerationFrame DEF InactivePanic, GenerationVars, a_call, m_call
<1> QED
  BY <1>1, <1>2, <1>3, <1>4, <1>5, <1>6, <1>7, <1>8, <1>9 DEF MainCall, MainEvents

LEMMA GenerationInvariant == Spec => []GenerationInv
<1>1. Init => GenerationInv
  BY DEF Init, GenerationInv, CounterInv, AudioConfigInv, MainConfigInv, Running, Publishing,
         MainPublishing, First
<1>2. NotesInv /\ StatusInv /\ GenerationInv /\ [Next]_vars => GenerationInv'
  <2> SUFFICES ASSUME NotesInv, StatusInv, GenerationInv, [Next]_vars
               PROVE  GenerationInv'
    OBVIOUS
  <2>1. CASE Next
    BY <2>1, LifecycleGeneration, AudioGeneration, MainGeneration DEF Next
  <2>2. CASE UNCHANGED vars
    BY <2>2, GenerationFrame DEF vars, GenerationVars, a_call, m_call
  <2> QED
    BY <2>1, <2>2
<1> QED
  BY <1>1, <1>2, NotesInvariant, StatusInvariant, PTL DEF Spec

\* Between calls no owner of the configuration believes that a generation holds
\* something else than the register does, whichever publications were lost
\* (publish_audio_config, state_load; clap_adapter.cpp:305-342, 441-480).
THEOREM GenerationsNameOneConfig == Spec => []SameGenerationSameConfig
<1>1. GenerationInv => SameGenerationSameConfig
  BY DEF GenerationInv, AudioConfigInv, MainConfigInv, SameGenerationSameConfig
<1> QED
  BY <1>1, GenerationInvariant, PTL

=============================================================================
