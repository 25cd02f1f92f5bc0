--------------------------- MODULE NoteLedgerProofs ---------------------------
(***************************************************************************)
(* The ledger's safety properties, and that it implements NoteDelivery,    *)
(* for every number of voices, channels and notes, every block length and  *)
(* every queue capacity.                                                   *)
(***************************************************************************)
EXTENDS NoteLedger, FiniteSetTheorems, TLAPS

-----------------------------------------------------------------------------
(* Typing *)

LEMMA FreeType == Free \in Voice
  BY LedgerAssumption DEF Free, Voice, VoiceIds, Unassigned

LEMMA ReleaseAllType ==
  ASSUME NEW vs \in [Slots -> Voice]
  PROVE  /\ ReleaseAll(vs) \in [Slots -> Voice]
         /\ \A s \in Slots :
              /\ ReleaseAll(vs)[s].active = vs[s].active
              /\ ReleaseAll(vs)[s].pending = Held(vs[s])
              /\ Held(ReleaseAll(vs)[s]) = Held(vs[s])
              /\ Identity(ReleaseAll(vs)[s]) = Identity(vs[s])
              /\ ReleaseAll(vs)[s].voice_id = vs[s].voice_id
  BY DEF ReleaseAll, Voice, Held, Identity

\* Inserting a transition keeps the queue a sequence of transitions, one longer.
LEMMA InsertType ==
  ASSUME NEW q \in Seq(Transition), NEW t \in Transition, NEW p \in 0 .. Len(q)
  PROVE  /\ InsertAfter(q, p, t) \in Seq(Transition)
         /\ Len(InsertAfter(q, p, t)) = Len(q) + 1
         /\ \A i \in 1 .. Len(q) + 1 :
              InsertAfter(q, p, t)[i] =
                IF i <= p THEN q[i] ELSE IF i = p + 1 THEN t ELSE q[i - 1]
  <1> DEFINE r == InsertAfter(q, p, t)
  <1>1. \A i \in 1 .. Len(q) + 1 : r[i] \in Transition
    BY DEF InsertAfter
  <1>2. r \in [1 .. Len(q) + 1 -> Transition]
    BY <1>1 DEF InsertAfter
  <1>3. r \in Seq(Transition) /\ Len(r) = Len(q) + 1
    BY <1>2
  <1> QED BY <1>3 DEF InsertAfter

LEMMA EnqueueType ==
  ASSUME TypeOK, NEW t \in Transition, Enqueue(t)
  PROVE  queue' \in Seq(Transition) /\ Len(queue') <= Capacity /\ invalid' \in BOOLEAN
  <1>1. CASE storage /\ Len(queue) < Capacity
    <2>1. PICK p \in 0 .. Len(queue) : queue' = InsertAfter(queue, p, t)
      BY <1>1 DEF Enqueue
    <2> QED BY <1>1, <2>1, InsertType, LedgerAssumption DEF Enqueue, TypeOK
  <1>2. CASE ~(storage /\ Len(queue) < Capacity)
    BY <1>2 DEF Enqueue, TypeOK
  <1> QED BY <1>1, <1>2

\* The typing of the variables a call keeps while it runs.
CallOK ==
  /\ stage \in {"idle", "releases", "retry", "queued"}
  /\ chained \in BOOLEAN /\ index \in Nat /\ route \in AllRoutes
  /\ last \in Offsets \X {Off, On}
  /\ stage = "releases" => index \in Slots
  /\ stage = "queued" => index > 0

LEMMA NoCallType == NoRoute \in AllRoutes /\ NoEvent \in Offsets \X {Off, On}
  <1>1. NoRoute \in AllRoutes
    BY LedgerAssumption DEF NoRoute, AllRoutes
  <1>2. 0 \in Offsets
    BY LedgerAssumption DEF Offsets
  <1> QED BY <1>1, <1>2 DEF NoEvent

LEMMA ReturnType == Return => CallOK' /\ stage' = "idle"
  <1> SUFFICES ASSUME Return PROVE CallOK' /\ stage' = "idle"
    OBVIOUS
  <1>1. chained' \in BOOLEAN
    BY DEF Return
  <1>2. stage' = "idle" /\ index' \in Nat
    BY DEF Return
  <1>3. route' \in AllRoutes /\ last' \in Offsets \X {Off, On}
    BY NoCallType DEF Return
  <1> QED BY <1>1, <1>2, <1>3 DEF CallOK

LEMMA EndRetryType ==
  ASSUME TypeOK, EndRetry
  PROVE  /\ CallOK' /\ invalid' \in BOOLEAN
         /\ stage' \in {"idle", "queued"}
         /\ stage' = "queued" => index' = 1 /\ last' = last
  <1>1. CASE chained /\ storage
    BY <1>1 DEF EndRetry, EnterQueued, TypeOK, CallOK
  <1>2. CASE ~(chained /\ storage)
    <2>1. Return
      BY <1>2 DEF EndRetry, EnterQueued
    <2>2. invalid' \in BOOLEAN
      BY <1>2 DEF EndRetry, EnterQueued, TypeOK
    <2> QED BY <2>1, <2>2, ReturnType DEF CallOK
  <1> QED BY <1>1, <1>2

LEMMA EnterBlockedType ==
  ASSUME TypeOK, EnterBlocked
  PROVE  /\ voices' \in [Slots -> Voice] /\ active_count' \in 0 .. MaxVoices
         /\ sounding' \subseteq Identities
         /\ blocked' \in BOOLEAN /\ cleanup' \in BOOLEAN
  BY ReleaseAllType DEF EnterBlocked, TypeOK

LEMMA RequestReleaseType ==
  ASSUME TypeOK, RequestRelease
  PROVE  /\ voices' \in [Slots -> Voice] /\ active_count' \in 0 .. MaxVoices
         /\ sounding' \subseteq Identities /\ cleanup' \in BOOLEAN
  BY ReleaseAllType DEF RequestRelease, TypeOK

LEMMA ReleaseType ==
  ASSUME TypeOK, NEW s \in Slots, Release(s)
  PROVE  /\ voices' \in [Slots -> Voice] /\ active_count' \in 0 .. MaxVoices
         /\ sounding' \subseteq Identities
  BY FreeType, LedgerAssumption DEF Release, TypeOK

LEMMA EventType == TypeOK /\ Delivering => Event \in Transition
  BY DEF Delivering, Event, TypeOK

LEMMA SentType ==
  ASSUME TypeOK, Delivering, Sent
  PROVE  CallOK' /\ stage' = "queued"
  <1>1. Event.offset \in Offsets /\ Event.kind \in {Off, On}
    BY EventType DEF Transition
  <1>2. <<Event.offset, Event.kind>> \in Offsets \X {Off, On}
    BY <1>1
  <1> QED BY <1>2 DEF Delivering, Sent, CallOK, TypeOK

\* Typing is inductive.
LEMMA TypeStep == TypeOK /\ [Next]_vars => TypeOK'
  <1> SUFFICES ASSUME TypeOK, [Next]_vars PROVE TypeOK'
    OBVIOUS
  <1> USE DEF TypeOK, held, block, panic, call
  <1>e. << >> \in Seq(Transition) /\ Len(<< >>) = 0
    OBVIOUS
  <1>1. ASSUME NEW a \in BOOLEAN, Forget(a) PROVE TypeOK'
    <2>1. invalid' \in BOOLEAN /\ blocked' \in BOOLEAN /\ cleanup' \in BOOLEAN
          /\ hold' \in BOOLEAN /\ recovery' \in BOOLEAN /\ storage' \in BOOLEAN
      BY <1>1 DEF Forget
    <2>2. voices' \in [Slots -> Voice] /\ sounding' = {} /\ UNCHANGED call
          /\ active_count' = 0 /\ hold_calls' = 0 /\ queue' = << >>
      BY <1>1, FreeType DEF Forget
    <2> QED BY <2>1, <2>2, <1>e, LedgerAssumption
  <1>2. ASSUME NEW a \in BOOLEAN, ActivatePreservingPending(a) PROVE TypeOK'
    <2>1. invalid' \in BOOLEAN /\ storage' \in BOOLEAN
      BY <1>2 DEF ActivatePreservingPending
    <2>2. queue' = << >> /\ UNCHANGED <<held, blocked, cleanup, panic, call>>
      BY <1>2 DEF ActivatePreservingPending
    <2> QED BY <2>1, <2>2, <1>e, LedgerAssumption
  <1>3. CASE ReleaseStoragePreservingPending
    <2>1. invalid' \in BOOLEAN /\ storage' \in BOOLEAN
      BY <1>3 DEF ReleaseStoragePreservingPending
    <2>2. queue' = << >> /\ RequestRelease /\ UNCHANGED <<blocked, panic, call>>
      BY <1>3 DEF ReleaseStoragePreservingPending
    <2> QED BY <2>1, <2>2, <1>e, RequestReleaseType, LedgerAssumption
  <1>4. CASE BeginBlock
    <2>1. invalid' \in BOOLEAN /\ storage' \in BOOLEAN
      BY <1>4 DEF BeginBlock
    <2>2. queue' = << >> /\ UNCHANGED <<held, blocked, cleanup, panic, call>>
      BY <1>4 DEF BeginBlock
    <2> QED BY <2>1, <2>2, <1>e, LedgerAssumption
  <1>5. CASE QueueInvalid
    BY <1>5 DEF QueueInvalid
  <1>6. ASSUME NEW o \in Offsets, NEW k \in {Off, On}, NEW n \in Notes,
               NEW w \in VoiceIds, QueueTransition(o, k, n, w)
        PROVE  TypeOK'
    <2> DEFINE t == [offset |-> o, kind |-> k, note |-> n, voice_id |-> w,
                     sequence |-> Len(queue)]
    <2>1. t \in Transition
      BY DEF Transition
    <2>2. Enqueue(t)
      BY <1>6 DEF QueueTransition
    <2> HIDE DEF t
    <2> QED BY <1>6, <2>1, <2>2, EnqueueType DEF QueueTransition
  <1>7. ASSUME NEW o \in Offsets, CallQueueReleases(o) PROVE TypeOK'
    BY <1>7, LedgerAssumption DEF CallQueueReleases, Slots
  <1>8. CASE QueueRelease
    <2> DEFINE v == voices[index]
               n == Cardinality({s \in 1 .. index - 1 : voices[s].active})
               t == [offset |-> last[1], kind |-> Off, note |-> v.note,
                     voice_id |-> v.voice_id, sequence |-> n]
    <2>1. v \in Voice /\ index \in Slots
      BY <1>8 DEF QueueRelease
    <2>2. n \in Nat
      <3>1. IsFiniteSet(1 .. index - 1)
        BY <2>1, FS_Interval, LedgerAssumption DEF Slots
      <3>2. IsFiniteSet({s \in 1 .. index - 1 : voices[s].active})
        BY <3>1, FS_Subset
      <3> QED BY <3>2, FS_CardinalityType
    <2>3. t \in Transition
      BY <2>1, <2>2 DEF Transition, Voice
    <2>4. queue' \in Seq(Transition) /\ Len(queue') <= Capacity /\ invalid' \in BOOLEAN
      <3>1. CASE v.active
        <4>1. Enqueue(t)
          BY <1>8, <3>1 DEF QueueRelease
        <4> HIDE DEF t
        <4> QED BY <2>3, <4>1, EnqueueType
      <3>2. CASE ~v.active
        BY <1>8, <3>2 DEF QueueRelease
      <3> QED BY <3>1, <3>2
    <2>5. CallOK'
      <3>1. CASE index = MaxVoices
        BY <1>8, <3>1, ReturnType DEF QueueRelease
      <3>2. CASE index # MaxVoices
        BY <1>8, <2>1, <3>2, LedgerAssumption DEF QueueRelease, CallOK, Slots
      <3> QED BY <3>1, <3>2
    <2> QED BY <1>8, <2>4, <2>5 DEF QueueRelease, CallOK
  <1>9. CASE RequestReleaseAll
    BY <1>9, RequestReleaseType DEF RequestReleaseAll
  <1>10. CASE ReportOutputFailure
    BY <1>10, EnterBlockedType DEF ReportOutputFailure
  <1>11. CASE RequestRecovery
    BY <1>11 DEF RequestRecovery
  <1>12. CASE CallRetry
    BY <1>12 DEF CallRetry
  <1>13. ASSUME NEW r \in Routes, CallDeliver(r) PROVE TypeOK'
    BY <1>13, LedgerAssumption DEF CallDeliver
  <1>14. ASSUME NEW r \in Routes, CallDeliverQueued(r) PROVE TypeOK'
    <2>1. CASE storage
      BY <1>14, <2>1, LedgerAssumption DEF CallDeliverQueued, EnterQueued
    <2>2. CASE ~storage
      <3>1. Return /\ invalid' \in BOOLEAN
        BY <1>14, <2>2 DEF CallDeliverQueued, EnterQueued
      <3> QED BY <1>14, <3>1, ReturnType DEF CallDeliverQueued, CallOK
    <2> QED BY <2>1, <2>2
  <1>15. ASSUME NEW s \in Slots, RetryAccepted(s) PROVE TypeOK'
    BY <1>15, ReleaseType, LedgerAssumption DEF RetryAccepted, Offsets
  <1>16. ASSUME NEW s \in Slots, RetryRefused(s) PROVE TypeOK'
    BY <1>16, EnterBlockedType, EndRetryType DEF RetryRefused, CallOK
  <1>17. CASE RetryDone
    BY <1>17, EndRetryType DEF RetryDone, CallOK
  <1>18. ASSUME NEW s \in Slots, OffAccepted(s) PROVE TypeOK'
    BY <1>18, ReleaseType, SentType DEF OffAccepted, Sent, CallOK
  <1>19. CASE OffFailed
    BY <1>19, EnterBlockedType DEF OffFailed
  <1>20. CASE OnHeldBack
    BY <1>20 DEF OnHeldBack, Delivering
  <1>21. ASSUME NEW s \in Slots, NEW c \in Channels, OnAccepted(s, c) PROVE TypeOK'
    <2> DEFINE v == [active |-> TRUE, pending |-> FALSE, note |-> Event.note,
                     channel |-> c, voice_id |-> Event.voice_id]
    <2>1. v \in Voice
      BY <1>21, EventType DEF OnAccepted, Transition, Voice
    <2>2. Identity(v) \in Identities
      BY <1>21, EventType DEF OnAccepted, Transition, Identity, Identities
    <2>3. voices' = [voices EXCEPT ![s] = v] /\ sounding' = sounding \cup {Identity(v)}
      BY <1>21 DEF OnAccepted
    <2> HIDE DEF v
    <2>4. active_count' \in 0 .. MaxVoices
      BY <1>21, LedgerAssumption DEF OnAccepted
    <2> QED BY <1>21, <2>1, <2>2, <2>3, <2>4, SentType DEF OnAccepted, Sent, CallOK
  <1>22. CASE OnFailed
    BY <1>22, EnterBlockedType DEF OnFailed
  <1>23. ASSUME NEW quiet \in BOOLEAN, FinishHold(quiet) PROVE TypeOK'
    <2>1. hold' \in BOOLEAN /\ recovery' \in BOOLEAN /\ blocked' \in BOOLEAN
          /\ cleanup' \in BOOLEAN
      BY <1>23 DEF FinishHold
    <2>2. hold_calls' \in {0, 1}
      BY <1>23 DEF FinishHold
    <2>3. Return /\ UNCHANGED <<held, block, invalid>>
      BY <1>23 DEF FinishHold
    <2> QED BY <2>1, <2>2, <2>3, ReturnType DEF CallOK
  <1>24. CASE UNCHANGED vars
    BY <1>24 DEF vars
  <1> QED
    BY <1>1, <1>2, <1>3, <1>4, <1>5, <1>6, <1>7, <1>8, <1>9, <1>10, <1>11, <1>12,
       <1>13, <1>14, <1>15, <1>16, <1>17, <1>18, <1>19, <1>20, <1>21, <1>22, <1>23,
       <1>24 DEF Next, Lifecycle, Queueing, Requests, Calls, Retry, Deliver

LEMMA InitType == Init => TypeOK
  <1> SUFFICES ASSUME Init PROVE TypeOK
    OBVIOUS
  <1>1. invalid \in BOOLEAN /\ blocked \in BOOLEAN /\ cleanup \in BOOLEAN
        /\ hold \in BOOLEAN /\ recovery \in BOOLEAN /\ storage \in BOOLEAN
        /\ chained \in BOOLEAN
    BY DEF Init
  <1>2. voices \in [Slots -> Voice] /\ sounding = {} /\ active_count = 0
        /\ hold_calls = 0 /\ index = 0 /\ stage = "idle"
    BY FreeType DEF Init
  <1>3. route \in AllRoutes /\ last \in Offsets \X {Off, On}
    BY NoCallType DEF Init
  <1>4. queue \in Seq(Transition) /\ Len(queue) = 0
    BY DEF Init
  <1> QED BY <1>1, <1>2, <1>3, <1>4, LedgerAssumption DEF TypeOK

\* TypeOK is an invariant for every value of the constants.
THEOREM LedgerTypeOK == Spec => []TypeOK
  BY InitType, TypeStep, PTL DEF Spec

-----------------------------------------------------------------------------
(* The host's notes and the ledger's debts *)

PendingIsActive == \A s \in Slots : voices[s].pending => voices[s].active

\* The inductive strengthening: HostAgrees counts held slots through active_count,
\* which only works because no slot is pending without being active.
LedgerInv ==
  TypeOK /\ HostAgrees /\ BlockedOwesAll /\ CleanupIsCurrent /\ PendingIsActive

HeldSlots(vs) == {s \in Slots : Held(vs[s])}

LEMMA HeldSlotsFinite ==
  ASSUME NEW vs
  PROVE  IsFiniteSet(HeldSlots(vs)) /\ Cardinality(HeldSlots(vs)) \in Nat
  <1>1. IsFiniteSet(Slots)
    BY FS_Interval, LedgerAssumption DEF Slots
  <1>2. IsFiniteSet(HeldSlots(vs))
    BY <1>1, FS_Subset DEF HeldSlots
  <1> QED BY <1>2, FS_CardinalityType

LEMMA HeldFree == ~Held(Free) /\ ~Free.pending /\ ~Free.active
  BY DEF Held, Free

\* Marking every active voice pending changes neither what is held nor the count.
LEMMA ReleaseAllAgrees ==
  ASSUME LedgerInv, voices' = ReleaseAll(voices), UNCHANGED <<active_count, sounding>>
  PROVE  /\ HostAgrees' /\ PendingIsActive'
         /\ \A s \in Slots : Held(voices'[s]) => voices'[s].pending
         /\ ~AnyActive(voices) => ~ReleasePending(voices')
  <1> USE DEF LedgerInv
  <1>1. \A s \in Slots :
          /\ voices'[s].active = voices[s].active
          /\ voices'[s].pending = Held(voices[s])
          /\ Held(voices'[s]) = Held(voices[s])
          /\ Identity(voices'[s]) = Identity(voices[s])
          /\ voices'[s].voice_id = voices[s].voice_id
    BY ReleaseAllType DEF TypeOK
  <1>2. {r \in Slots : Held(voices'[r])} = {r \in Slots : Held(voices[r])}
    BY <1>1
  <1>3. HeldIdentities(voices') = HeldIdentities(voices)
    BY <1>1, <1>2 DEF HeldIdentities
  <1>4. HostAgrees'
    BY <1>1, <1>2, <1>3 DEF HostAgrees
  <1>5. PendingIsActive'
    BY <1>1 DEF PendingIsActive, Held
  <1> QED BY <1>1, <1>4, <1>5 DEF AnyActive, ReleasePending, PendingIsActive, Held

\* Clearing a held slot takes exactly its note away from the host.
LEMMA ReleaseAgrees ==
  ASSUME LedgerInv, NEW s \in Slots, Held(voices[s]), Release(s)
  PROVE  /\ HostAgrees' /\ PendingIsActive'
         /\ \A r \in Slots : voices'[r].pending => voices[r].pending
         /\ \A r \in Slots : Held(voices'[r]) => r # s /\ voices'[r] = voices[r]
  <1> USE DEF LedgerInv
  <1>1. /\ voices' = [voices EXCEPT ![s] = Free]
        /\ sounding' = sounding \ {Identity(voices[s])}
        /\ voices \in [Slots -> Voice]
    BY DEF Release, TypeOK
  <1>2. /\ voices'[s] = Free
        /\ \A r \in Slots : r # s => voices'[r] = voices[r]
    BY <1>1
  <1>3. \A r \in Slots : Held(voices'[r]) => r # s /\ voices'[r] = voices[r]
    BY <1>2, HeldFree
  <1>4. HeldSlots(voices') = HeldSlots(voices) \ {s} /\ s \in HeldSlots(voices)
    BY <1>2, <1>3, HeldFree DEF HeldSlots
  <1>5. Cardinality(HeldSlots(voices')) = Cardinality(HeldSlots(voices)) - 1
    BY <1>4, HeldSlotsFinite, FS_RemoveElement
  <1>6. active_count = Cardinality(HeldSlots(voices)) /\ active_count \in Nat
    BY HeldSlotsFinite DEF HostAgrees, HeldSlots
  <1>7. Cardinality(HeldSlots(voices)) > 0
    BY <1>4, HeldSlotsFinite, FS_EmptySet
  <1>8. voices[s].active
    BY DEF PendingIsActive, Held
  <1>9. active_count' = Cardinality(HeldSlots(voices'))
    BY <1>5, <1>6, <1>7, <1>8 DEF Release
  <1>10. sounding' = HeldIdentities(voices')
    <2>1. sounding = HeldIdentities(voices)
      BY DEF HostAgrees
    <2>2. \A r \in HeldSlots(voices) : r # s => Identity(voices[r]) # Identity(voices[s])
      BY DEF HostAgrees, HeldSlots
    <2>3. HeldIdentities(voices) = {Identity(voices[r]) : r \in HeldSlots(voices)}
      BY DEF HeldIdentities, HeldSlots
    <2>4. HeldIdentities(voices') = {Identity(voices'[r]) : r \in HeldSlots(voices')}
      BY DEF HeldIdentities, HeldSlots
    <2>5. {Identity(voices'[r]) : r \in HeldSlots(voices')}
            = {Identity(voices[r]) : r \in HeldSlots(voices) \ {s}}
      BY <1>2, <1>4 DEF HeldSlots
    <2> QED BY <1>1, <1>4, <2>1, <2>2, <2>3, <2>4, <2>5
  <1>11. \A q, r \in Slots : q # r /\ Held(voices'[q]) /\ Held(voices'[r]) =>
           /\ Identity(voices'[q]) # Identity(voices'[r])
           /\ voices'[q].voice_id # Unassigned =>
                voices'[q].voice_id # voices'[r].voice_id
    BY <1>3 DEF HostAgrees
  <1>12. HostAgrees'
    BY <1>9, <1>10, <1>11 DEF HostAgrees, HeldSlots
  <1>13. PendingIsActive' /\ \A r \in Slots : voices'[r].pending => voices[r].pending
    BY <1>2, HeldFree DEF PendingIsActive
  <1> QED BY <1>3, <1>12, <1>13

\* An accepted note-on gives the host one note it was not hearing.
LEMMA OnAgrees ==
  ASSUME LedgerInv, NEW s \in Slots, NEW c \in Channels, OnAccepted(s, c)
  PROVE  /\ HostAgrees' /\ PendingIsActive' /\ ~ReleasePending(voices')
         /\ \A r \in Slots : r # s => voices'[r] = voices[r]
         /\ voices'[s].active /\ ~voices'[s].pending /\ ~Held(voices[s])
         /\ Identity(voices'[s]) \notin sounding
         /\ sounding' = sounding \cup {Identity(voices'[s])}
  <1> USE DEF LedgerInv
  <1> DEFINE v == [active |-> TRUE, pending |-> FALSE, note |-> Event.note,
                   channel |-> c, voice_id |-> Event.voice_id]
  <1>1. /\ voices' = [voices EXCEPT ![s] = v]
        /\ sounding' = sounding \cup {Identity(v)}
        /\ active_count' = active_count + 1
        /\ ~IdentityInUse(voices, Event)
        /\ s \in FreeSlots(voices)
        /\ ~ReleasePending(voices)
        /\ voices \in [Slots -> Voice]
    BY DEF OnAccepted, FirstOf, Delivering, TypeOK
  <1>2. /\ v.active /\ ~v.pending /\ Held(v)
        /\ v.note = Event.note /\ v.voice_id = Event.voice_id
    BY DEF Held
  <1> HIDE DEF v
  <1>3. voices'[s] = v /\ \A r \in Slots : r # s => voices'[r] = voices[r]
    BY <1>1
  <1>4. ~Held(voices[s])
    BY <1>1 DEF FreeSlots
  <1>5. HeldSlots(voices') = HeldSlots(voices) \cup {s} /\ s \notin HeldSlots(voices)
    BY <1>2, <1>3, <1>4 DEF HeldSlots
  <1>6. Cardinality(HeldSlots(voices')) = Cardinality(HeldSlots(voices)) + 1
    BY <1>5, HeldSlotsFinite, FS_AddElement
  <1>7. active_count' = Cardinality(HeldSlots(voices'))
    BY <1>1, <1>6 DEF HostAgrees, HeldSlots
  <1>8. \A r \in Slots : Held(voices[r]) =>
          /\ Identity(voices[r]) # Identity(v)
          /\ v.voice_id # Unassigned => voices[r].voice_id # v.voice_id
    BY <1>1, <1>2 DEF IdentityInUse, Matches, Identity
  <1>9. \A q, r \in Slots : q # r /\ Held(voices'[q]) /\ Held(voices'[r]) =>
          /\ Identity(voices'[q]) # Identity(voices'[r])
          /\ voices'[q].voice_id # Unassigned =>
               voices'[q].voice_id # voices'[r].voice_id
    BY <1>3, <1>8 DEF HostAgrees
  <1>10. sounding' = HeldIdentities(voices') /\ Identity(v) \notin sounding
    <2>1. sounding = {Identity(voices[r]) : r \in HeldSlots(voices)}
      BY DEF HostAgrees, HeldIdentities, HeldSlots
    <2>2. HeldIdentities(voices') = {Identity(voices'[r]) : r \in HeldSlots(voices')}
      BY DEF HeldIdentities, HeldSlots
    <2>3. \A r \in HeldSlots(voices) : voices'[r] = voices[r]
      BY <1>3, <1>5 DEF HeldSlots
    <2>4. {Identity(voices'[r]) : r \in HeldSlots(voices')}
            = {Identity(voices[r]) : r \in HeldSlots(voices)} \cup {Identity(v)}
      BY <1>3, <1>5, <2>3
    <2>5. Identity(v) \notin sounding
      BY <1>8, <2>1 DEF HeldSlots
    <2> QED BY <1>1, <2>1, <2>2, <2>4, <2>5
  <1>11. HostAgrees'
    BY <1>7, <1>9, <1>10 DEF HostAgrees, HeldSlots
  <1>12. PendingIsActive' /\ ~ReleasePending(voices')
    BY <1>1, <1>2, <1>3 DEF PendingIsActive, ReleasePending
  <1> QED BY <1>1, <1>2, <1>3, <1>4, <1>10, <1>11, <1>12

LEMMA BlockedStep ==
  ASSUME LedgerInv, EnterBlocked
  PROVE  HostAgrees' /\ BlockedOwesAll' /\ CleanupIsCurrent' /\ PendingIsActive'
  BY ReleaseAllAgrees DEF EnterBlocked, BlockedOwesAll, CleanupIsCurrent

LEMMA RequestStep ==
  ASSUME LedgerInv, RequestRelease
  PROVE  HostAgrees' /\ BlockedOwesAll' /\ CleanupIsCurrent' /\ PendingIsActive'
  BY ReleaseAllAgrees DEF RequestRelease, BlockedOwesAll, CleanupIsCurrent

LEMMA HeldUnchanged ==
  ASSUME LedgerInv, UNCHANGED held, UNCHANGED <<blocked, cleanup>>
  PROVE  HostAgrees' /\ BlockedOwesAll' /\ CleanupIsCurrent' /\ PendingIsActive'
  BY DEF LedgerInv, held, HostAgrees, BlockedOwesAll, CleanupIsCurrent,
         PendingIsActive, HeldIdentities, Held, Identity, ReleasePending

LEMMA LedgerInvStep == LedgerInv /\ [Next]_vars => LedgerInv'
  <1> SUFFICES ASSUME LedgerInv, [Next]_vars
               PROVE  HostAgrees' /\ BlockedOwesAll' /\ CleanupIsCurrent' /\ PendingIsActive'
    BY TypeStep DEF LedgerInv
  <1> DEFINE Goal == HostAgrees' /\ BlockedOwesAll' /\ CleanupIsCurrent' /\ PendingIsActive'
  <1>1. ASSUME NEW a \in BOOLEAN, Forget(a) PROVE Goal
    <2>1. /\ voices' = [s \in Slots |-> Free] /\ sounding' = {} /\ active_count' = 0
          /\ ~blocked' /\ ~cleanup'
      BY <1>1 DEF Forget
    <2>2. {s \in Slots : Held(voices'[s])} = {}
      BY <2>1, HeldFree
    <2>3. HostAgrees'
      BY <2>1, <2>2, FS_EmptySet DEF HostAgrees, HeldIdentities
    <2> QED BY <2>1, <2>3, HeldFree DEF BlockedOwesAll, CleanupIsCurrent, PendingIsActive
  <1>2. ASSUME NEW a \in BOOLEAN, ActivatePreservingPending(a) PROVE Goal
    BY <1>2, HeldUnchanged DEF ActivatePreservingPending
  <1>3. CASE ReleaseStoragePreservingPending
    BY <1>3, RequestStep DEF ReleaseStoragePreservingPending, LedgerInv, BlockedOwesAll
  <1>4. CASE BeginBlock
    BY <1>4, HeldUnchanged DEF BeginBlock
  <1>5. CASE QueueInvalid
    BY <1>5, HeldUnchanged DEF QueueInvalid
  <1>6. ASSUME NEW o \in Offsets, NEW k \in {Off, On}, NEW n \in Notes,
               NEW w \in VoiceIds, QueueTransition(o, k, n, w)
        PROVE  Goal
    BY <1>6, HeldUnchanged DEF QueueTransition
  <1>7. ASSUME NEW o \in Offsets, CallQueueReleases(o) PROVE Goal
    BY <1>7, HeldUnchanged DEF CallQueueReleases
  <1>8. CASE QueueRelease
    BY <1>8, HeldUnchanged DEF QueueRelease
  <1>9. CASE RequestReleaseAll
    BY <1>9, RequestStep DEF RequestReleaseAll
  <1>10. CASE ReportOutputFailure
    BY <1>10, BlockedStep DEF ReportOutputFailure
  <1>11. CASE RequestRecovery
    BY <1>11, HeldUnchanged DEF RequestRecovery
  <1>12. CASE CallRetry
    BY <1>12, HeldUnchanged DEF CallRetry
  <1>13. ASSUME NEW r \in Routes, CallDeliver(r) PROVE Goal
    BY <1>13, HeldUnchanged DEF CallDeliver
  <1>14. ASSUME NEW r \in Routes, CallDeliverQueued(r) PROVE Goal
    BY <1>14, HeldUnchanged DEF CallDeliverQueued
  <1>15. ASSUME NEW s \in Slots, RetryAccepted(s) PROVE Goal
    <2>1. Held(voices[s]) /\ Release(s) /\ UNCHANGED <<blocked, cleanup>>
      BY <1>15 DEF RetryAccepted, NextPending, Held
    <2> QED BY <2>1, ReleaseAgrees
            DEF LedgerInv, BlockedOwesAll, CleanupIsCurrent, ReleasePending
  <1>16. ASSUME NEW s \in Slots, RetryRefused(s) PROVE Goal
    BY <1>16, BlockedStep DEF RetryRefused
  <1>17. CASE RetryDone
    BY <1>17 DEF RetryDone, LedgerInv, held, HostAgrees, BlockedOwesAll,
                 CleanupIsCurrent, PendingIsActive, ReleasePending, HeldIdentities
  <1>18. ASSUME NEW s \in Slots, OffAccepted(s) PROVE Goal
    <2>1. Held(voices[s]) /\ Release(s) /\ UNCHANGED <<blocked, cleanup>>
      BY <1>18 DEF OffAccepted, FirstOf, Matches, Sent
    <2> QED BY <2>1, ReleaseAgrees
            DEF LedgerInv, BlockedOwesAll, CleanupIsCurrent, ReleasePending
  <1>19. CASE OffFailed
    BY <1>19, BlockedStep DEF OffFailed
  <1>20. CASE OnHeldBack
    BY <1>20, HeldUnchanged DEF OnHeldBack
  <1>21. ASSUME NEW s \in Slots, NEW c \in Channels, OnAccepted(s, c) PROVE Goal
    <2>1. ~blocked' /\ ~ReleasePending(voices')
      BY <1>21, OnAgrees DEF OnAccepted, Delivering, Sent
    <2> QED BY <1>21, <2>1, OnAgrees DEF BlockedOwesAll, CleanupIsCurrent
  <1>22. CASE OnFailed
    BY <1>22, BlockedStep DEF OnFailed
  <1>23. ASSUME NEW quiet \in BOOLEAN, FinishHold(quiet) PROVE Goal
    <2>1. CASE Recovered(quiet)
      <3>1. UNCHANGED held /\ ~blocked' /\ ~cleanup'
        BY <1>23, <2>1 DEF FinishHold
      <3> QED BY <3>1 DEF LedgerInv, held, HostAgrees, BlockedOwesAll,
                CleanupIsCurrent, PendingIsActive, HeldIdentities
    <2>2. CASE ~Recovered(quiet)
      BY <1>23, <2>2, HeldUnchanged DEF FinishHold
    <2> QED BY <2>1, <2>2
  <1>24. CASE UNCHANGED vars
    BY <1>24, HeldUnchanged DEF vars
  <1> QED
    BY <1>1, <1>2, <1>3, <1>4, <1>5, <1>6, <1>7, <1>8, <1>9, <1>10, <1>11, <1>12,
       <1>13, <1>14, <1>15, <1>16, <1>17, <1>18, <1>19, <1>20, <1>21, <1>22, <1>23,
       <1>24 DEF Next, Lifecycle, Queueing, Requests, Calls, Retry, Deliver

LEMMA LedgerInit == Init => LedgerInv
  <1> SUFFICES ASSUME Init PROVE LedgerInv
    OBVIOUS
  <1>1. {s \in Slots : Held(voices[s])} = {}
    BY HeldFree DEF Init
  <1>2. HostAgrees
    BY <1>1, FS_EmptySet DEF Init, HostAgrees, HeldIdentities
  <1>3. PendingIsActive /\ BlockedOwesAll /\ CleanupIsCurrent
    BY HeldFree DEF Init, PendingIsActive, BlockedOwesAll, CleanupIsCurrent
  <1> QED BY <1>2, <1>3, InitType DEF LedgerInv

LEMMA LedgerInvHolds == Spec => []LedgerInv
  BY LedgerInit, LedgerInvStep, PTL DEF Spec

\* No stuck note and no unmatched release: the host always hears exactly the notes
\* the ledger holds, for every number of voices, channels and notes.
THEOREM LedgerKeepsHostNotes == Spec => []HostAgrees
  <1>1. LedgerInv => HostAgrees
    BY DEF LedgerInv
  <1> QED BY <1>1, LedgerInvHolds, PTL

\* A blocked output owes every note it holds, whatever the sink refused when
\* (enter_blocked, generated_note_ledger.cpp:277-281).
THEOREM BlockedOutputOwes == Spec => []BlockedOwesAll
  <1>1. LedgerInv => BlockedOwesAll
    BY DEF LedgerInv
  <1> QED BY <1>1, LedgerInvHolds, PTL

OwesAll == \A s \in Slots : Held(voices[s]) => voices[s].pending

\* Without storage nothing is ever delivered from the queue.
DeliversFromStorage == stage = "queued" => storage

LEMMA StorageStep == DeliversFromStorage /\ [Next]_vars => DeliversFromStorage'
  <1> SUFFICES ASSUME DeliversFromStorage, [Next]_vars, stage' = "queued" PROVE storage'
    BY DEF DeliversFromStorage
  <1>1. CASE UNCHANGED <<stage, storage>>
    BY <1>1 DEF DeliversFromStorage
  <1>2. ASSUME NEW r, EnterQueued(r), UNCHANGED storage PROVE storage'
    BY <1>2 DEF EnterQueued, Return
  <1>3. CASE UNCHANGED vars
    BY <1>1, <1>3 DEF vars, call, block
  <1>4. CASE Lifecycle
    BY <1>4 DEF Lifecycle, Forget, ActivatePreservingPending, ReleaseStoragePreservingPending, Idle,
                call
  <1>5. CASE Queueing
    <2>1. CASE QueueRelease
      BY <2>1 DEF QueueRelease, Return
    <2>2. CASE ~ QueueRelease
      BY <1>1, <1>5, <2>2 DEF Queueing, BeginBlock, QueueInvalid, QueueTransition,
         CallQueueReleases, Idle, call, block
    <2> QED BY <2>1, <2>2
  <1>6. CASE Requests
    BY <1>1, <1>6 DEF Requests, RequestReleaseAll, ReportOutputFailure, RequestRecovery, call, block
  <1>7. CASE Calls
    <2>1. ASSUME NEW r \in Routes, CallDeliverQueued(r) PROVE storage'
      BY <1>2, <2>1 DEF CallDeliverQueued, block
    <2>2. ~ CallRetry /\ \A r \in Routes : ~ CallDeliver(r)
      BY DEF CallRetry, CallDeliver
    <2> QED BY <1>7, <2>1, <2>2 DEF Calls
  <1>8. ASSUME NEW s \in Slots, RetryAccepted(s) \/ RetryRefused(s) PROVE storage'
    <2>1. CASE RetryAccepted(s)
      BY <1>1, <2>1 DEF RetryAccepted, block
    <2>2. CASE RetryRefused(s)
      BY <2>2 DEF RetryRefused, EndRetry, EnterQueued, Return, block
    <2> QED BY <1>8, <2>1, <2>2
  <1>9. CASE RetryDone
    BY <1>9 DEF RetryDone, EndRetry, EnterQueued, Return, block
  <1>10. CASE Deliver /\ ~ RetryDone
    BY <1>1, <1>10 DEF Deliver, OffFailed, OnHeldBack, OnFailed, OffAccepted, OnAccepted,
       FinishHold, Return, Sent, block, call
  <1> QED
    BY <1>3, <1>4, <1>5, <1>6, <1>7, <1>8, <1>9, <1>10 DEF Next, Retry

\* A ledger that gives up its storage owes all it holds, and one that owes all keeps owing
\* all for as long as it has no storage.
KeepsOwing ==
  /\ ReleaseStoragePreservingPending => OwesAll'
  /\ OwesAll /\ ~ storage' => OwesAll'

LEMMA OwingStep == LedgerInv /\ DeliversFromStorage /\ [Next]_vars => KeepsOwing
  <1> SUFFICES ASSUME LedgerInv, DeliversFromStorage, [Next]_vars PROVE KeepsOwing
    OBVIOUS
  <1>1. ASSUME RequestRelease \/ EnterBlocked PROVE OwesAll'
    BY <1>1, ReleaseAllAgrees DEF RequestRelease, EnterBlocked, OwesAll
  <1>2. ReleaseStoragePreservingPending => OwesAll'
    BY <1>1 DEF ReleaseStoragePreservingPending
  <1>3. ASSUME OwesAll, ~ storage' PROVE OwesAll'
    <2>1. CASE UNCHANGED voices
      BY <1>3, <2>1 DEF OwesAll, Held
    <2>2. ASSUME NEW s \in Slots, Release(s) PROVE OwesAll'
      BY <1>3, <2>2, HeldFree DEF Release, OwesAll, LedgerInv, TypeOK, Held
    <2>3. CASE Lifecycle
      BY <1>1, <2>1, <2>3, HeldFree DEF Lifecycle, Forget, ActivatePreservingPending,
         ReleaseStoragePreservingPending, held, OwesAll
    <2>4. CASE Queueing
      BY <2>1, <2>4 DEF Queueing, BeginBlock, QueueInvalid, QueueTransition, CallQueueReleases,
         QueueRelease, held
    <2>5. CASE Requests
      BY <1>1, <2>1, <2>5 DEF Requests, RequestReleaseAll, ReportOutputFailure, RequestRecovery,
         held
    <2>6. CASE Calls
      BY <2>1, <2>6 DEF Calls, CallRetry, CallDeliver, CallDeliverQueued, held
    <2>7. CASE Retry
      BY <1>1, <2>2, <2>7 DEF Retry, RetryAccepted, RetryRefused
    <2>8. CASE Deliver
      <3>1. CASE \E s \in Slots, c \in Channels : OnAccepted(s, c)
        <4>1. stage = "queued" /\ UNCHANGED storage
          BY <3>1 DEF OnAccepted, Delivering, Sent, block
        <4> QED BY <1>3, <4>1 DEF DeliversFromStorage
      <3>2. CASE RetryDone \/ OnHeldBack \/ \E quiet \in BOOLEAN : FinishHold(quiet)
        BY <2>1, <3>2 DEF RetryDone, OnHeldBack, FinishHold, held
      <3>3. CASE OffFailed \/ OnFailed
        BY <1>1, <3>3 DEF OffFailed, OnFailed
      <3>4. CASE \E s \in Slots : OffAccepted(s)
        BY <2>2, <3>4 DEF OffAccepted
      <3> QED BY <2>8, <3>1, <3>2, <3>3, <3>4 DEF Deliver
    <2>9. CASE UNCHANGED vars
      BY <2>1, <2>9 DEF vars, held
    <2> QED BY <2>3, <2>4, <2>5, <2>6, <2>7, <2>8, <2>9 DEF Next
  <1> QED BY <1>2, <1>3 DEF KeepsOwing

\* Deactivation loses no note-off: release_storage_preserving_pending() leaves every held
\* voice owed, and no call before the next activation, be it a refused retry, a request or a
\* transition that finds no storage, leaves one that is not or starts another
\* (generated_note_ledger.cpp:57-64).
THEOREM StoppedOutputOwes == Spec => [][KeepsOwing]_vars
  <1>1. Init => DeliversFromStorage
    BY DEF Init, DeliversFromStorage
  <1>2. LedgerInv /\ DeliversFromStorage /\ [Next]_vars => [KeepsOwing]_vars
    BY OwingStep
  <1> QED BY <1>1, <1>2, StorageStep, LedgerInvHolds, PTL DEF Spec

\* cleanup_complete_ never hides a debt.
THEOREM CleanupIsHonest == Spec => []CleanupIsCurrent
  <1>1. LedgerInv => CleanupIsCurrent
    BY DEF LedgerInv
  <1> QED BY <1>1, LedgerInvHolds, PTL

-----------------------------------------------------------------------------
(* Order of the events of one delivery *)

Sorted(q) == \A i, j \in 1 .. Len(q) : i < j => ~TransitionBefore(q[j], q[i])

\* The event sent last does not come after any entry still to be sent.
CursorInv ==
  /\ stage = "retry" => last = NoEvent
  /\ stage = "idle" => last = NoEvent
  /\ stage = "queued" =>
       \A i \in index .. Len(queue) :
         NotAfter(last, <<queue[i].offset, queue[i].kind>>)

OrderInv == TypeOK /\ Sorted(queue) /\ CursorInv

\* The backward scan of queue_transition keeps the queue sorted.
LEMMA InsertSorted ==
  ASSUME NEW q \in Seq(Transition), NEW t \in Transition, NEW p \in 0 .. Len(q),
         Sorted(q), ScanStops(q, t, p)
  PROVE  Sorted(InsertAfter(q, p, t))
  <1> DEFINE r == InsertAfter(q, p, t)
  <1>1. /\ Len(r) = Len(q) + 1
        /\ \A i \in 1 .. Len(q) + 1 :
             r[i] = IF i <= p THEN q[i] ELSE IF i = p + 1 THEN t ELSE q[i - 1]
    BY InsertType
  <1>2. \A i \in 1 .. Len(q) : q[i] \in Transition
    OBVIOUS
  <1>3. \A x \in Transition : x.offset \in Int /\ x.kind \in Int /\ x.sequence \in Int
    BY DEF Transition, Offsets, Off, On
  <1>4. \A i \in 1 .. p : ~TransitionBefore(t, q[i])
    BY <1>2, <1>3 DEF ScanStops, Sorted, TransitionBefore
  <1>5. ASSUME NEW i \in p + 1 .. Len(q) PROVE ~TransitionBefore(q[i], t)
    <2>1. TransitionBefore(t, q[i])
      BY DEF ScanStops
    <2>2. q[i] \in Transition
      BY <1>2
    <2>3. /\ q[i].offset \in Int /\ q[i].kind \in Int /\ q[i].sequence \in Int
          /\ t.offset \in Int /\ t.kind \in Int /\ t.sequence \in Int
      BY <1>3, <2>2
    <2> QED BY <2>1, <2>3 DEF TransitionBefore
  <1> HIDE DEF r
  <1>6. ASSUME NEW i \in 1 .. Len(q) + 1, NEW j \in 1 .. Len(q) + 1, i < j
        PROVE  ~TransitionBefore(r[j], r[i])
    <2>1. CASE j <= p
      BY <1>1, <1>6, <2>1 DEF Sorted
    <2>2. CASE j = p + 1
      BY <1>1, <1>4, <1>6, <2>2
    <2>3. CASE j > p + 1 /\ i = p + 1
      BY <1>1, <1>5, <1>6, <2>3
    <2>4. CASE j > p + 1 /\ i <= p
      BY <1>1, <1>6, <2>4 DEF Sorted
    <2>5. CASE j > p + 1 /\ i > p + 1
      BY <1>1, <1>6, <2>5 DEF Sorted
    <2> QED BY <2>1, <2>2, <2>3, <2>4, <2>5
  <1> QED BY <1>1, <1>6 DEF Sorted, r

LEMMA EnqueueSorted ==
  ASSUME TypeOK, Sorted(queue), NEW t \in Transition, Enqueue(t)
  PROVE  Sorted(queue')
  <1>1. CASE storage /\ Len(queue) < Capacity
    <2>1. PICK p \in 0 .. Len(queue) :
            ScanStops(queue, t, p) /\ queue' = InsertAfter(queue, p, t)
      BY <1>1 DEF Enqueue
    <2> QED BY <2>1, InsertSorted DEF TypeOK
  <1>2. CASE ~(storage /\ Len(queue) < Capacity)
    BY <1>2 DEF Enqueue
  <1> QED BY <1>1, <1>2

LEMMA QueuedFields ==
  ASSUME TypeOK
  PROVE  \A i \in 1 .. Len(queue) : queue[i].offset \in Nat /\ queue[i].kind \in {0, 1}
  <1>1. \A i \in 1 .. Len(queue) : queue[i] \in Transition
    BY DEF TypeOK
  <1>2. \A x \in Transition : x.offset \in Nat /\ x.kind \in {0, 1}
    BY DEF Transition, Offsets, Off, On
  <1> QED BY <1>1, <1>2

\* A call that enters deliver_queued from the start of a call has sent nothing that
\* could come after a queued entry.
LEMMA EnterCursor ==
  ASSUME TypeOK, last = NoEvent, UNCHANGED queue, NEW r, EnterQueued(r)
  PROVE  CursorInv'
  <1>1. CASE storage
    <2>1. \A i \in 1 .. Len(queue) : queue[i].offset \in Nat /\ queue[i].kind \in {0, 1}
      BY QueuedFields
    <2> QED BY <1>1, <2>1 DEF EnterQueued, CursorInv, NotAfter, NoEvent, Off
  <1>2. CASE ~storage
    BY <1>2 DEF EnterQueued, Return, CursorInv
  <1> QED BY <1>1, <1>2

LEMMA EndRetryCursor ==
  ASSUME TypeOK, CursorInv, stage = "retry", UNCHANGED queue, EndRetry
  PROVE  CursorInv'
  <1>1. CASE chained
    BY <1>1, EnterCursor DEF EndRetry, CursorInv
  <1>2. CASE ~chained
    BY <1>2 DEF EndRetry, Return, CursorInv
  <1> QED BY <1>1, <1>2

\* Sending the entry at the index keeps the cursor behind the rest of the queue.
LEMMA SentCursor ==
  ASSUME OrderInv, Delivering, Sent
  PROVE  CursorInv' /\ NotAfter(last, last')
  <1> USE DEF OrderInv, TypeOK
  <1>1. /\ index \in 1 .. Len(queue) /\ queue' = queue /\ index' = index + 1
        /\ stage' = "queued" /\ last' = <<queue[index].offset, queue[index].kind>>
    BY DEF Delivering, Sent, Event, block
  <1>2. \A i \in 1 .. Len(queue) : queue[i].offset \in Nat /\ queue[i].kind \in {0, 1}
    BY QueuedFields
  <1>3. ASSUME NEW i \in index + 1 .. Len(queue)
        PROVE  NotAfter(<<queue[index].offset, queue[index].kind>>,
                        <<queue[i].offset, queue[i].kind>>)
    <2>1. i \in 1 .. Len(queue) /\ index < i
      BY <1>1
    <2>2. ~TransitionBefore(queue[i], queue[index])
      BY <1>1, <2>1 DEF Sorted
    <2>3. /\ queue[i].offset \in Nat /\ queue[i].kind \in {0, 1}
          /\ queue[index].offset \in Nat /\ queue[index].kind \in {0, 1}
      BY <1>1, <1>2, <2>1
    <2> QED BY <2>2, <2>3 DEF TransitionBefore, NotAfter
  <1>4. NotAfter(last, last')
    BY <1>1 DEF CursorInv, Delivering
  <1> QED BY <1>1, <1>3, <1>4 DEF CursorInv

LEMMA OrderStep ==
  OrderInv /\ [Next]_vars =>
    /\ Sorted(queue)' /\ CursorInv'
    /\ stage \in {"retry", "queued"} /\ stage' # "idle" => NotAfter(last, last')
  <1> SUFFICES ASSUME OrderInv, [Next]_vars
               PROVE  /\ Sorted(queue)' /\ CursorInv'
                      /\ stage \in {"retry", "queued"} /\ stage' # "idle"
                           => NotAfter(last, last')
    OBVIOUS
  <1> DEFINE Goal == /\ Sorted(queue)' /\ CursorInv'
                     /\ stage \in {"retry", "queued"} /\ stage' # "idle"
                          => NotAfter(last, last')
  <1> USE DEF OrderInv, block, held, panic, call
  <1>e. Sorted(<< >>)
    BY DEF Sorted
  <1>r. NotAfter(last, last) /\ NotAfter(NoEvent, NoEvent)
    BY DEF NotAfter, NoEvent, TypeOK, Offsets, Off, On
  <1>q. ASSUME UNCHANGED <<queue, stage, index, last>> PROVE Goal
    BY <1>q, <1>r DEF CursorInv, Sorted
  <1>i. ASSUME Idle, stage' = "idle", last' = last, Sorted(queue') PROVE Goal
    BY <1>i DEF CursorInv, Idle
  <1>1. ASSUME NEW a \in BOOLEAN, Forget(a) PROVE Goal
    BY <1>1, <1>e, <1>i DEF Forget, Idle
  <1>2. ASSUME NEW a \in BOOLEAN, ActivatePreservingPending(a) PROVE Goal
    BY <1>2, <1>e, <1>i DEF ActivatePreservingPending, Idle
  <1>3. CASE ReleaseStoragePreservingPending
    BY <1>3, <1>e, <1>i DEF ReleaseStoragePreservingPending, Idle
  <1>4. CASE BeginBlock
    BY <1>4, <1>e, <1>i DEF BeginBlock, Idle
  <1>5. CASE QueueInvalid
    BY <1>5, <1>q DEF QueueInvalid
  <1>6. ASSUME NEW o \in Offsets, NEW k \in {Off, On}, NEW n \in Notes,
               NEW w \in VoiceIds, QueueTransition(o, k, n, w)
        PROVE  Goal
    <2> DEFINE t == [offset |-> o, kind |-> k, note |-> n, voice_id |-> w,
                     sequence |-> Len(queue)]
    <2>1. t \in Transition
      BY DEF Transition, TypeOK
    <2>2. Enqueue(t) /\ Idle /\ UNCHANGED <<stage, last>>
      BY <1>6 DEF QueueTransition
    <2> HIDE DEF t
    <2> QED BY <2>1, <2>2, <1>i, EnqueueSorted DEF Idle
  <1>7. ASSUME NEW o \in Offsets, CallQueueReleases(o) PROVE Goal
    BY <1>7 DEF CallQueueReleases, CursorInv, Sorted, Idle
  <1>8. CASE QueueRelease
    <2> DEFINE n == Cardinality({s \in 1 .. index - 1 : voices[s].active})
               t == [offset |-> last[1], kind |-> Off, note |-> voices[index].note,
                     voice_id |-> voices[index].voice_id, sequence |-> n]
    <2>1. t \in Transition
      <3>1. index \in Slots /\ voices[index] \in Voice
        BY <1>8 DEF QueueRelease, TypeOK
      <3>2. IsFiniteSet(1 .. index - 1)
        BY <3>1, FS_Interval, LedgerAssumption DEF Slots
      <3>3. IsFiniteSet({s \in 1 .. index - 1 : voices[s].active})
        BY <3>2, FS_Subset
      <3>4. n \in Nat
        BY <3>3, FS_CardinalityType
      <3> QED BY <3>1, <3>4 DEF Transition, Voice, TypeOK
    <2>2. Enqueue(t) \/ queue' = queue
      BY <1>8 DEF QueueRelease
    <2> HIDE DEF t
    <2>3. Sorted(queue)'
      BY <2>1, <2>2, EnqueueSorted
    <2>4. stage = "releases" /\ (Return \/ (stage' = "releases"))
      BY <1>8 DEF QueueRelease
    <2> QED BY <2>3, <2>4 DEF CursorInv, Return
  <1>9. CASE RequestReleaseAll
    BY <1>9, <1>q DEF RequestReleaseAll
  <1>10. CASE ReportOutputFailure
    BY <1>10, <1>q DEF ReportOutputFailure
  <1>11. CASE RequestRecovery
    BY <1>11, <1>q DEF RequestRecovery
  <1>12. CASE CallRetry
    BY <1>12 DEF CallRetry, CursorInv, Sorted, Idle
  <1>13. ASSUME NEW r \in Routes, CallDeliver(r) PROVE Goal
    BY <1>13 DEF CallDeliver, CursorInv, Sorted, Idle
  <1>14. ASSUME NEW r \in Routes, CallDeliverQueued(r) PROVE Goal
    <2>1. last = NoEvent /\ EnterQueued(r) /\ UNCHANGED queue /\ stage = "idle"
      BY <1>14 DEF CallDeliverQueued, CursorInv, Idle
    <2> QED BY <2>1, EnterCursor DEF Sorted
  <1>15. ASSUME NEW s \in Slots, RetryAccepted(s) PROVE Goal
    <2>1. last' = NoEvent /\ last = NoEvent /\ stage' = "retry" /\ UNCHANGED queue
      BY <1>15 DEF RetryAccepted, NoEvent, CursorInv
    <2> QED BY <2>1, <1>r DEF CursorInv, Sorted
  <1>16. ASSUME NEW s \in Slots, RetryRefused(s) PROVE Goal
    <2>1. EndRetry /\ UNCHANGED queue /\ stage = "retry"
      BY <1>16 DEF RetryRefused
    <2>2. Sorted(queue)' /\ CursorInv'
      BY <2>1, EndRetryCursor DEF Sorted
    <2> QED BY <2>1, <2>2, <1>r, EndRetryType
  <1>17. CASE RetryDone
    <2>1. EndRetry /\ UNCHANGED queue /\ stage = "retry"
      BY <1>17 DEF RetryDone
    <2>2. Sorted(queue)' /\ CursorInv'
      BY <2>1, EndRetryCursor DEF Sorted
    <2> QED BY <2>1, <2>2, <1>r, EndRetryType
  <1>18. ASSUME NEW s \in Slots, OffAccepted(s) PROVE Goal
    BY <1>18, SentCursor DEF OffAccepted, Sent, Sorted
  <1>19. CASE OffFailed
    BY <1>19, <1>q DEF OffFailed
  <1>20. CASE OnHeldBack
    <2>1. /\ stage = "queued" /\ UNCHANGED <<stage, queue, last>>
          /\ index' = index + 1 /\ index \in 1 .. Len(queue)
      BY <1>20 DEF OnHeldBack, Delivering, TypeOK
    <2> QED BY <2>1, <1>r DEF CursorInv, Sorted
  <1>21. ASSUME NEW s \in Slots, NEW c \in Channels, OnAccepted(s, c) PROVE Goal
    BY <1>21, SentCursor DEF OnAccepted, Sent, Sorted
  <1>22. CASE OnFailed
    BY <1>22, <1>q DEF OnFailed
  <1>23. ASSUME NEW quiet \in BOOLEAN, FinishHold(quiet) PROVE Goal
    BY <1>23 DEF FinishHold, Return, CursorInv, Sorted
  <1>24. CASE UNCHANGED vars
    BY <1>24, <1>q DEF vars
  <1> QED
    BY <1>1, <1>2, <1>3, <1>4, <1>5, <1>6, <1>7, <1>8, <1>9, <1>10, <1>11, <1>12,
       <1>13, <1>14, <1>15, <1>16, <1>17, <1>18, <1>19, <1>20, <1>21, <1>22, <1>23,
       <1>24 DEF Next, Lifecycle, Queueing, Requests, Calls, Retry, Deliver

\* For every block length and capacity: one delivery reaches the host in order,
\* releases before notes at the same sample, because the queue is always sorted.
THEOREM LedgerDeliversInOrder == Spec => EventsInOrder
  <1>1. Init => OrderInv
    <2>1. Init => TypeOK
      BY InitType
    <2>2. Init => Sorted(queue) /\ CursorInv
      BY DEF Init, Sorted, CursorInv
    <2> QED BY <2>1, <2>2 DEF OrderInv
  <1>2. OrderInv /\ [Next]_vars => OrderInv'
    BY OrderStep, TypeStep DEF OrderInv
  <1>3. OrderInv /\ [Next]_vars =>
          [(stage \in {"retry", "queued"} /\ stage' # "idle") => NotAfter(last, last')]_vars
    BY OrderStep
  <1> QED BY <1>1, <1>2, <1>3, PTL DEF Spec, EventsInOrder

-----------------------------------------------------------------------------
(* Note delivery: every call, and every step of a call that loops, is one step *)
(* of NoteDelivery or leaves it alone.                                         *)

Owed(vs) == {Identity(vs[s]) : s \in {r \in Slots : vs[r].pending}}

\* A step of note delivery, or none.
DeliveryStep == Delivery!Next \/ UNCHANGED <<sounding, Owed(voices), blocked, hold>>

LEMMA IdentityType == ASSUME NEW v \in Voice PROVE Identity(v) \in Identities
  BY DEF Voice, Identity, Identities

\* Where nothing is pending nothing is owed, and conversely.
LEMMA OwedEmpty ==
  ASSUME NEW vs
  PROVE  Owed(vs) = {} <=> ~ReleasePending(vs)
  BY DEF Owed, ReleasePending

\* Marking every active voice pending makes everything sounding owed.
LEMMA AllOwed ==
  ASSUME LedgerInv, voices' = ReleaseAll(voices), UNCHANGED <<active_count, sounding>>
  PROVE  Owed(voices') = sounding
  <1>1. \A s \in Slots : /\ voices'[s].pending = Held(voices[s])
                         /\ Identity(voices'[s]) = Identity(voices[s])
    BY ReleaseAllType DEF LedgerInv, TypeOK
  <1>2. {r \in Slots : voices'[r].pending} = {r \in Slots : Held(voices[r])}
    BY <1>1
  <1>3. Owed(voices') = HeldIdentities(voices)
    BY <1>1, <1>2 DEF Owed, HeldIdentities
  <1> QED BY <1>3 DEF LedgerInv, HostAgrees

LEMMA BlockStep ==
  ASSUME LedgerInv, EnterBlocked, UNCHANGED hold
  PROVE  DeliveryStep
  <1>1. Owed(voices') = sounding /\ blocked' = TRUE /\ UNCHANGED sounding
    BY AllOwed DEF EnterBlocked
  <1>2. Delivery!OweAll
    BY <1>1 DEF Delivery!OweAll, Owed
  <1> QED BY <1>2 DEF DeliveryStep, Delivery!Next

LEMMA OweStep ==
  ASSUME LedgerInv, RequestRelease, UNCHANGED <<hold, blocked>>
  PROVE  DeliveryStep
  <1>1. Owed(voices') = sounding /\ UNCHANGED sounding
    BY AllOwed DEF RequestRelease
  <1>2. Delivery!OweAll
    BY <1>1 DEF Delivery!OweAll, Owed
  <1> QED BY <1>2 DEF DeliveryStep, Delivery!Next

\* A note-off the sink takes ends one note: an owed one, or one of an open output.
LEMMA StopStep ==
  ASSUME LedgerInv, NEW s \in Slots, Held(voices[s]), Release(s),
         UNCHANGED <<hold, blocked>>,
         voices[s].pending \/ (~blocked /\ ~ReleasePending(voices))
  PROVE  DeliveryStep
  <1> PICK id : id = Identity(voices[s])
    OBVIOUS
  <1>1. /\ voices' = [voices EXCEPT ![s] = Free]
        /\ sounding' = sounding \ {id}
        /\ voices \in [Slots -> Voice]
    BY DEF Release, LedgerInv, TypeOK
  <1>2. id \in sounding /\ id \in Identities
    BY <1>1, IdentityType DEF LedgerInv, HostAgrees, HeldIdentities
  <1>3. /\ voices'[s] = Free
        /\ \A r \in Slots : r # s => voices'[r] = voices[r]
    BY <1>1
  <1>4. \A r \in Slots : r # s /\ voices[r].pending => Identity(voices[r]) # id
    BY DEF LedgerInv, HostAgrees, Held
  <1>5. Owed(voices') = Owed(voices) \ {id}
    BY <1>3, <1>4, HeldFree DEF Owed
  <1>6. id \in Owed(voices) \/ (~blocked /\ Owed(voices) = {})
    BY OwedEmpty DEF Owed
  <1>7. Delivery!Stop(id)
    BY <1>1, <1>2, <1>5, <1>6 DEF Delivery!Stop, Owed
  <1> QED BY <1>2, <1>7 DEF DeliveryStep, Delivery!Next

\* No more identities sound than slots are held.
LEMMA FewSounding ==
  ASSUME LedgerInv
  PROVE  IsFiniteSet(sounding) /\ Cardinality(sounding) <= active_count
  <1> DEFINE S == HeldSlots(voices)
             f == [s \in S |-> Identity(voices[s])]
  <1>1. sounding = {Identity(voices[s]) : s \in S} /\ active_count = Cardinality(S)
    BY DEF LedgerInv, HostAgrees, HeldIdentities, HeldSlots
  <1>2. f \in Surjection(S, sounding)
    BY <1>1 DEF Surjection
  <1> QED BY <1>1, <1>2, HeldSlotsFinite, FS_Surjection

\* The abstract module's instance of FiniteSets counts as this module's does.
LEMMA SameCardinality == \A S : Delivery!Cardinality(S) = Cardinality(S)
  BY DEF Delivery!Cardinality, Cardinality

\* An accepted note-on starts one note the host was not hearing.
LEMMA StartStep ==
  ASSUME LedgerInv, NEW s \in Slots, NEW c \in Channels, OnAccepted(s, c)
  PROVE  DeliveryStep
  <1> PICK id : id = Identity(voices'[s])
    OBVIOUS
  <1>1. /\ ~ReleasePending(voices') /\ ~ReleasePending(voices)
        /\ id \notin sounding /\ sounding' = sounding \cup {id}
        /\ ~blocked /\ ~hold /\ UNCHANGED <<blocked, hold>>
        /\ active_count < MaxVoices
    BY OnAgrees DEF OnAccepted, Delivering, Sent, panic
  <1>2. voices' \in [Slots -> Voice] /\ id \in Identities
    <2>1. TypeOK'
      BY TypeStep DEF LedgerInv, Next, Deliver
    <2> QED BY <2>1, IdentityType DEF TypeOK
  <1>3. Owed(voices) = {} /\ Owed(voices') = {}
    BY <1>1, OwedEmpty
  <1>4. Cardinality(sounding) < MaxVoices
    <2>1. Cardinality(sounding) \in Nat /\ active_count \in Nat
      BY FewSounding, FS_CardinalityType DEF LedgerInv, TypeOK
    <2> QED BY <1>1, <2>1, FewSounding, LedgerAssumption
  <1>5. Delivery!Start(id)
    BY <1>1, <1>3, <1>4, SameCardinality DEF Delivery!Start, Owed
  <1> QED BY <1>2, <1>5 DEF DeliveryStep, Delivery!Next

LEMMA Untouched ==
  ASSUME UNCHANGED <<held, blocked, hold>>
  PROVE  DeliveryStep
  BY DEF DeliveryStep, held

LEMMA ImplementsStep == LedgerInv /\ [Next]_vars => DeliveryStep
  <1> SUFFICES ASSUME LedgerInv, [Next]_vars PROVE DeliveryStep
    OBVIOUS
  <1>1. ASSUME NEW a \in BOOLEAN, Forget(a) PROVE DeliveryStep
    <2>1. /\ voices' = [s \in Slots |-> Free] /\ sounding' = {}
          /\ blocked' = FALSE /\ hold' = FALSE
      BY <1>1 DEF Forget
    <2>2. Owed(voices') = {}
      BY <2>1, HeldFree DEF Owed
    <2>3. Delivery!Reset
      BY <2>1, <2>2 DEF Delivery!Reset, Owed
    <2> QED BY <2>3 DEF DeliveryStep, Delivery!Next
  <1>2. ASSUME NEW a \in BOOLEAN, ActivatePreservingPending(a) PROVE DeliveryStep
    BY <1>2, Untouched DEF ActivatePreservingPending, panic
  <1>3. CASE ReleaseStoragePreservingPending
    BY <1>3, OweStep DEF ReleaseStoragePreservingPending, panic
  <1>4. CASE BeginBlock
    BY <1>4, Untouched DEF BeginBlock, panic
  <1>5. CASE QueueInvalid
    BY <1>5, Untouched DEF QueueInvalid, panic
  <1>6. ASSUME NEW o \in Offsets, NEW k \in {Off, On}, NEW n \in Notes,
               NEW w \in VoiceIds, QueueTransition(o, k, n, w)
        PROVE  DeliveryStep
    BY <1>6, Untouched DEF QueueTransition, panic
  <1>7. ASSUME NEW o \in Offsets, CallQueueReleases(o) PROVE DeliveryStep
    BY <1>7, Untouched DEF CallQueueReleases, panic
  <1>8. CASE QueueRelease
    BY <1>8, Untouched DEF QueueRelease, panic
  <1>9. CASE RequestReleaseAll
    BY <1>9, OweStep DEF RequestReleaseAll, panic
  <1>10. CASE ReportOutputFailure
    BY <1>10, BlockStep DEF ReportOutputFailure, panic
  <1>11. CASE RequestRecovery
    <2>1. Delivery!Hold
      BY <1>11 DEF RequestRecovery, held, Delivery!Hold
    <2> QED BY <2>1 DEF DeliveryStep, Delivery!Next
  <1>12. CASE CallRetry
    BY <1>12, Untouched DEF CallRetry, panic
  <1>13. ASSUME NEW r \in Routes, CallDeliver(r) PROVE DeliveryStep
    BY <1>13, Untouched DEF CallDeliver, panic
  <1>14. ASSUME NEW r \in Routes, CallDeliverQueued(r) PROVE DeliveryStep
    BY <1>14, Untouched DEF CallDeliverQueued, panic
  <1>15. ASSUME NEW s \in Slots, RetryAccepted(s) PROVE DeliveryStep
    BY <1>15, StopStep DEF RetryAccepted, NextPending, Held, panic
  <1>16. ASSUME NEW s \in Slots, RetryRefused(s) PROVE DeliveryStep
    BY <1>16, BlockStep DEF RetryRefused, panic
  <1>17. CASE RetryDone
    BY <1>17, Untouched DEF RetryDone, panic
  <1>18. ASSUME NEW s \in Slots, OffAccepted(s) PROVE DeliveryStep
    <2>1. Held(voices[s])
      BY <1>18 DEF OffAccepted, FirstOf, Matches
    <2> QED BY <1>18, <2>1, StopStep DEF OffAccepted, Delivering, Sent, panic
  <1>19. CASE OffFailed
    BY <1>19, BlockStep DEF OffFailed, panic
  <1>20. CASE OnHeldBack
    BY <1>20, Untouched DEF OnHeldBack, panic
  <1>21. ASSUME NEW s \in Slots, NEW c \in Channels, OnAccepted(s, c) PROVE DeliveryStep
    BY <1>21, StartStep
  <1>22. CASE OnFailed
    BY <1>22, BlockStep DEF OnFailed, panic
  <1>23. ASSUME NEW quiet \in BOOLEAN, FinishHold(quiet) PROVE DeliveryStep
    <2>1. CASE Recovered(quiet)
      <3>1. UNCHANGED held /\ hold /\ cleanup /\ hold' = FALSE /\ blocked' = FALSE
        BY <1>23, <2>1 DEF FinishHold, Recovered
      <3>2. ~ReleasePending(voices)
        BY <3>1 DEF LedgerInv, CleanupIsCurrent
      <3>3. blocked => \A s \in Slots : ~Held(voices[s])
        BY <3>2 DEF LedgerInv, BlockedOwesAll, ReleasePending
      <3>4. blocked => sounding = {}
        BY <3>3 DEF LedgerInv, HostAgrees, HeldIdentities
      <3>5. Delivery!Recover
        BY <3>1, <3>2, <3>4, OwedEmpty DEF Delivery!Recover, Owed, held
      <3> QED BY <3>5 DEF DeliveryStep, Delivery!Next
    <2>2. CASE ~Recovered(quiet)
      BY <1>23, <2>2, Untouched DEF FinishHold
    <2> QED BY <2>1, <2>2
  <1>24. CASE UNCHANGED vars
    BY <1>24, Untouched DEF vars, panic
  <1> QED
    BY <1>1, <1>2, <1>3, <1>4, <1>5, <1>6, <1>7, <1>8, <1>9, <1>10, <1>11, <1>12,
       <1>13, <1>14, <1>15, <1>16, <1>17, <1>18, <1>19, <1>20, <1>21, <1>22, <1>23,
       <1>24 DEF Next, Lifecycle, Queueing, Requests, Calls, Retry, Deliver

LEMMA LedgerStartsSilent == Init => Delivery!Init
  <1>1. Init => Owed(voices) = {}
    BY HeldFree DEF Init, Owed
  <1> QED BY <1>1 DEF Init, Delivery!Init, Owed

\* The ledger implements note delivery: the host is told of a new note only on an
\* open output that owes nothing, never of one it hears already, and a blocked output
\* opens again only once every note it had on has been released.
THEOREM LedgerImplementsDelivery == Spec => DeliversNotes
  <1>1. LedgerInv /\ [Next]_vars => [Delivery!Next]_(Delivery!vars)
    BY ImplementsStep DEF DeliveryStep, Delivery!vars, Owed
  <1> QED BY <1>1, LedgerStartsSilent, LedgerInvHolds, PTL DEF Spec, DeliversNotes, Delivery!Spec

=============================================================================
