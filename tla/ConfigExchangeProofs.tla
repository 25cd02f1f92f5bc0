------------------------- MODULE ConfigExchangeProofs -------------------------
(***************************************************************************)
(* The exchange for every number of slots and of generations: its safety   *)
(* properties, that it implements ExchangeService, and that no call of     *)
(* either thread waits for the other.                                      *)
(***************************************************************************)
EXTENDS ConfigExchange, TLAPS

Readable == {"ready", "audio_claimed", "active"}

\* Where each thread is tells what it has selected.
PubControl ==
  /\ p_stage # "idle" => initialized /\ p_gen > publisher_gen
  /\ p_stage \in {"free", "ready"} => p_index \in Slots
  /\ p_stage \in {"take_free", "take_ready", "write", "release"} => p_selected \in Slots

AudControl ==
  /\ a_stage # "idle" => initialized
  /\ a_stage \in {"scan", "scan_gen", "newer", "newer_gen", "reclaim", "reclaim_take",
                  "reclaim_release"} => a_index \in Slots
  /\ a_stage \in {"take", "own", "newer", "newer_gen"} => a_selected \in Slots
  /\ c_index # None => initialized /\ a_stage \in {"idle", "activate"}
  /\ a_stage = "activate" => c_index # None

\* The publisher owns the one slot it writes.
Writing ==
  /\ p_stage \in {"write", "release"} => state[p_selected] = "writing"
  /\ p_stage = "release" => /\ generation[p_selected] = p_gen
                            /\ prepared[p_selected] = p_gen

\* The audio thread owns the slot it has claimed, and the active one.
Claiming ==
  /\ a_stage \in {"own", "newer", "newer_gen"} => state[a_selected] = "audio_claimed"
  /\ a_stage \in {"newer", "newer_gen"} =>
       generation[a_selected] = a_newest /\ a_newest > active_gen
  /\ a_stage = "reclaim_release" => state[a_index] = "audio_claimed"
  /\ c_index # None => /\ state[c_index] = "audio_claimed"
                       /\ generation[c_index] = c_gen /\ c_gen > active_gen

Active ==
  initialized /\ a_stage # "activate" =>
    state[active_index] = "active" /\ generation[active_index] = active_gen

\* Nothing readable is newer than what was published last.
Published ==
  \A i \in Slots : state[i] \in Readable =>
    prepared[i] = generation[i] /\ generation[i] <= publisher_gen

ExchangeInv ==
  /\ TypeOK /\ PubControl /\ AudControl /\ Writing /\ Claiming /\ Active /\ Published
  /\ NewestSurvives

-----------------------------------------------------------------------------
LEMMA InSlots == None \notin Slots /\ 1 \in Slots /\ NumSlots \in Slots /\ Slots \subseteq Nat
  BY ExchangeAssumption DEF Slots, None

\* A loop index that is not at its end can be increased, and an attempt retried.
LEMMA NextIndex ==
  /\ \A i \in Slots : i < NumSlots => i + 1 \in Slots
  /\ \A n \in 0 .. NumSlots : n < NumSlots => n + 1 \in 0 .. NumSlots
  /\ 0 \in 0 .. NumSlots /\ 1 \in 0 .. NumSlots
  BY ExchangeAssumption DEF Slots

AudioStages ==
  {"idle", "scan", "scan_gen", "take", "own", "newer", "newer_gen",
   "reclaim", "reclaim_take", "reclaim_release", "activate"}

\* The audio thread's variables after a step that leaves the claim alone.
LEMMA ClaimerType ==
  ASSUME TypeOK, UNCHANGED claim, a_stage' \in AudioStages,
         a_index' \in Slots \cup {None}, a_selected' \in Slots \cup {None},
         a_newest' \in Generations, a_attempt' \in 0 .. NumSlots
  PROVE  ClaimerOK'
  BY DEF TypeOK, ClaimerOK, claim, AudioStages

LEMMA AudioReturnsType == TypeOK /\ AudioReturns /\ UNCHANGED claim => ClaimerOK'
  <1> SUFFICES ASSUME TypeOK, AudioReturns, UNCHANGED claim PROVE ClaimerOK'
    OBVIOUS
  <1>1. 0 \in Generations
    BY ExchangeAssumption DEF Generations
  <1>2. a_stage' \in AudioStages
    BY DEF AudioReturns, AudioStages
  <1> QED BY <1>1, <1>2, NextIndex, ClaimerType DEF AudioReturns

LEMMA StartAttemptType ==
  ASSUME TypeOK, NEW n \in 0 .. NumSlots, StartAttempt(n), UNCHANGED claim
  PROVE  ClaimerOK'
  <1>1. active_gen \in Generations
    BY DEF TypeOK, SharedOK
  <1>2. a_stage' \in AudioStages
    BY DEF StartAttempt, AudioStages
  <1> QED BY <1>1, <1>2, InSlots, ClaimerType DEF StartAttempt

LEMMA NextAttemptType == TypeOK /\ NextAttempt /\ UNCHANGED claim => ClaimerOK'
  <1> SUFFICES ASSUME TypeOK, NextAttempt, UNCHANGED claim PROVE ClaimerOK'
    OBVIOUS
  <1>1. CASE a_attempt < NumSlots
    <2>1. a_attempt + 1 \in 0 .. NumSlots
      BY <1>1, NextIndex DEF TypeOK, ClaimerOK
    <2> QED BY <1>1, <2>1, StartAttemptType DEF NextAttempt
  <1>2. CASE ~(a_attempt < NumSlots)
    BY <1>2, AudioReturnsType DEF NextAttempt
  <1> QED BY <1>1, <1>2

\* A step of a scan that stays in its stage or moves to another one.
LEMMA StageType ==
  ASSUME TypeOK, UNCHANGED claim, UNCHANGED <<a_index, a_selected, a_newest, a_attempt>>,
         a_stage' \in AudioStages
  PROVE  ClaimerOK'
  BY DEF TypeOK, ClaimerOK, claim, AudioStages

LEMMA ScanOnType ==
  ASSUME TypeOK, a_index \in Slots, NEW i \in Slots \cup {None}, NEW g \in Generations,
         ScanOn(i, g), UNCHANGED claim
  PROVE  ClaimerOK'
  <1>1. a_stage' \in AudioStages
    BY DEF ScanOn, AudioStages
  <1>2. a_index' \in Slots
    BY InSlots, NextIndex DEF ScanOn
  <1> QED BY <1>1, <1>2, ClaimerType DEF ScanOn, TypeOK, ClaimerOK

LEMMA ReclaimOnType ==
  ASSUME TypeOK, a_index \in Slots, ReclaimOn, UNCHANGED claim
  PROVE  ClaimerOK'
  <1>1. CASE a_index < NumSlots
    <2>1. a_stage' \in AudioStages
      BY <1>1 DEF ReclaimOn, AudioStages
    <2>2. a_index' \in Slots
      BY <1>1, NextIndex DEF ReclaimOn
    <2> QED BY <1>1, <2>1, <2>2, ClaimerType DEF ReclaimOn, TypeOK, ClaimerOK
  <1>2. CASE ~(a_index < NumSlots)
    BY <1>2, AudioReturnsType DEF ReclaimOn
  <1> QED BY <1>1, <1>2

LEMMA NewerOnType ==
  ASSUME TypeOK, a_index \in Slots, NewerOn
  PROVE  ClaimerOK'
  <1>1. CASE a_index < NumSlots
    <2>1. a_stage' \in AudioStages
      BY <1>1 DEF NewerOn, AudioStages
    <2>2. a_index' \in Slots
      BY <1>1, NextIndex DEF NewerOn
    <2> QED BY <1>1, <2>1, <2>2, ClaimerType DEF NewerOn, TypeOK, ClaimerOK
  <1>2. CASE ~(a_index < NumSlots)
    <2>1. 0 \in Generations
      BY ExchangeAssumption DEF Generations
    <2>2. /\ a_stage' = "idle" /\ a_index' = None /\ a_selected' = None
          /\ a_newest' = 0 /\ a_attempt' = 0
          /\ c_index' = a_selected /\ c_gen' = a_newest
      BY <1>2 DEF NewerOn, AudioReturns
    <2> QED BY <2>1, <2>2, NextIndex DEF ClaimerOK, TypeOK
  <1> QED BY <1>1, <1>2

LEMMA PublisherType == TypeOK /\ UNCHANGED pub => PublisherOK'
  BY DEF TypeOK, PublisherOK, pub

LEMMA SharedType ==
  ASSUME TypeOK, state' \in [Slots -> SlotStates], UNCHANGED <<generation, prepared>>,
         UNCHANGED <<audio, publisher_gen, initialized>>
  PROVE  SharedOK'
  BY DEF TypeOK, SharedOK, audio

\* Every step keeps each variable in its range.
LEMMA ExchangeTypeStep == ExchangeInv /\ [Next]_vars => TypeOK'
  <1> SUFFICES ASSUME ExchangeInv, [Next]_vars PROVE TypeOK'
    OBVIOUS
  <1> USE DEF ExchangeInv
  <1>0. TypeOK /\ state \in [Slots -> SlotStates] /\ generation \in [Slots -> Generations]
    BY DEF TypeOK, SharedOK
  <1>s. UNCHANGED <<slots, audio, publisher_gen, initialized>> => SharedOK'
    BY DEF slots, audio, TypeOK, SharedOK
  <1>c. UNCHANGED <<aud, claim>> => ClaimerOK'
    BY DEF aud, claim, TypeOK, ClaimerOK
  <1>1. ASSUME NEW g \in Generations, PublishCall(g) PROVE TypeOK'
    BY <1>1, <1>s, <1>c, InSlots, NextIndex DEF PublishCall, TypeOK, PublisherOK
  <1>2. ASSUME NEW g \in Generations, Initialize(g) PROVE TypeOK'
    <2>1. SharedOK'
      BY <1>2, ExchangeAssumption
         DEF Initialize, TypeOK, SharedOK, SlotStates, Generations, Slots
    <2> QED BY <1>2, <2>1, <1>c, PublisherType DEF Initialize, TypeOK
  <1>3. CASE ScanFree
    <2>1. PublisherOK'
      BY <1>3, InSlots, NextIndex DEF ScanFree, PubControl, AudControl, TypeOK, PublisherOK
    <2> QED BY <1>3, <2>1, <1>s, <1>c DEF ScanFree, TypeOK
  <1>4. CASE ScanReady
    <2>1. PublisherOK'
      BY <1>4, InSlots, NextIndex, ExchangeAssumption
         DEF ScanReady, OldestReady, PublishReturns, PubControl, AudControl, TypeOK,
             PublisherOK, Generations
    <2> QED BY <1>4, <2>1, <1>s, <1>c DEF ScanReady, TypeOK
  <1>5. CASE TakeSlot
    <2>1. SharedOK'
      BY <1>5 DEF TakeSlot, SetState, TypeOK, SharedOK, SlotStates, audio
    <2>2. PublisherOK'
      BY <1>5 DEF TakeSlot, TypeOK, PublisherOK
    <2> QED BY <1>5, <2>1, <2>2, <1>c DEF TakeSlot, TypeOK
  <1>6. CASE LoseSlot
    <2>1. PublisherOK'
      BY <1>6, InSlots, NextIndex, ExchangeAssumption
         DEF LoseSlot, PublishReturns, TypeOK, PublisherOK, Generations
    <2> QED BY <1>6, <2>1, <1>s, <1>c DEF LoseSlot, TypeOK
  <1>7. CASE WriteSlot
    <2>1. SharedOK'
      BY <1>7 DEF WriteSlot, TypeOK, SharedOK, PublisherOK, audio
    <2>2. PublisherOK'
      BY <1>7 DEF WriteSlot, TypeOK, PublisherOK
    <2> QED BY <1>7, <2>1, <2>2, <1>c DEF WriteSlot, TypeOK
  <1>8. CASE ReleaseSlot
    <2>1. SharedOK'
      BY <1>8 DEF ReleaseSlot, SetState, TypeOK, SharedOK, PublisherOK, SlotStates, audio
    <2>2. PublisherOK'
      BY <1>8, NextIndex, ExchangeAssumption
         DEF ReleaseSlot, PublishReturns, TypeOK, PublisherOK, Generations
    <2> QED BY <1>8, <2>1, <2>2, <1>c DEF ReleaseSlot, TypeOK
  <1>9. CASE ScanState
    <2>1. ClaimerOK'
      <3>1. a_index \in Slots /\ a_selected \in Slots \cup {None} /\ a_newest \in Generations
        BY <1>9 DEF ScanState, PubControl, AudControl, TypeOK, ClaimerOK
      <3>2. CASE state[a_index] = "ready"
        BY <1>9, <3>2, StageType DEF ScanState, AudioStages
      <3>3. CASE state[a_index] # "ready"
        BY <1>9, <3>1, <3>3, ScanOnType DEF ScanState
      <3> QED BY <3>2, <3>3
    <2> QED BY <1>9, <2>1, <1>s, PublisherType DEF ScanState, TypeOK
  <1>10. CASE ScanGeneration
    <2>1. ClaimerOK'
      <3>1. /\ a_index \in Slots /\ a_selected \in Slots \cup {None}
            /\ a_newest \in Generations /\ generation[a_index] \in Generations
        BY <1>0, <1>10 DEF ScanGeneration, PubControl, AudControl, TypeOK, ClaimerOK
      <3> QED BY <1>10, <3>1, ScanOnType DEF ScanGeneration
    <2> QED BY <1>10, <2>1, <1>s, PublisherType DEF ScanGeneration, TypeOK
  <1>11. CASE TakeReady
    <2>1. SharedOK'
      BY <1>0, <1>11, SharedType DEF TakeReady, SetState, SlotStates
    <2>2. ClaimerOK'
      BY <1>11, StageType, NextAttemptType DEF TakeReady, AudioStages
    <2> QED BY <1>11, <2>1, <2>2, PublisherType DEF TakeReady, TypeOK
  <1>12. CASE OwnGeneration
    <2>1. SharedOK'
      BY <1>0, <1>12, SharedType DEF OwnGeneration, SetState, SlotStates
    <2>2. ClaimerOK'
      <3>1. CASE Owned > active_gen
        <4>1. Owned \in Generations
          BY <1>0, <1>12 DEF OwnGeneration, Owned, PubControl, AudControl
        <4> QED BY <1>12, <3>1, <4>1, InSlots, ClaimerType
                DEF OwnGeneration, AudioStages, TypeOK, ClaimerOK
      <3>2. CASE ~(Owned > active_gen)
        BY <1>12, <3>2, NextAttemptType DEF OwnGeneration
      <3> QED BY <3>1, <3>2
    <2> QED BY <1>12, <2>1, <2>2, PublisherType DEF OwnGeneration, TypeOK
  <1>13. CASE NewerState
    <2>1. ClaimerOK'
      BY <1>13, StageType, NewerOnType DEF NewerState, AudioStages, claim, PubControl, AudControl
    <2> QED BY <1>13, <2>1, <1>s, PublisherType DEF NewerState, TypeOK
  <1>14. CASE NewerGeneration
    <2>1. SharedOK'
      BY <1>0, <1>14, SharedType DEF NewerGeneration, SetState, SlotStates
    <2>2. ClaimerOK'
      BY <1>14, NextAttemptType, NewerOnType DEF NewerGeneration, PubControl, AudControl
    <2> QED BY <1>14, <2>1, <2>2, PublisherType DEF NewerGeneration, TypeOK
  <1>15. CASE ReclaimState
    <2>1. ClaimerOK'
      BY <1>15, StageType, ReclaimOnType DEF ReclaimState, AudioStages, PubControl, AudControl
    <2> QED BY <1>15, <2>1, <1>s, PublisherType DEF ReclaimState, TypeOK
  <1>16. CASE ReclaimTake
    <2>1. SharedOK'
      BY <1>0, <1>16, SharedType DEF ReclaimTake, SetState, SlotStates
    <2>2. ClaimerOK'
      BY <1>16, StageType, ReclaimOnType DEF ReclaimTake, AudioStages, PubControl, AudControl
    <2> QED BY <1>16, <2>1, <2>2, PublisherType DEF ReclaimTake, TypeOK
  <1>17. CASE ReclaimRelease
    <2>1. SharedOK'
      BY <1>0, <1>17, SharedType DEF ReclaimRelease, SetState, SlotStates
    <2>2. ClaimerOK'
      BY <1>17, ReclaimOnType DEF ReclaimRelease, PubControl, AudControl
    <2> QED BY <1>17, <2>1, <2>2, PublisherType DEF ReclaimRelease, TypeOK
  <1>18. CASE Activate
    <2>1. SharedOK'
      BY <1>18 DEF Activate, SetState, TypeOK, SharedOK, SlotStates, ClaimerOK, PubControl,
                   AudControl, audio
    <2>2. ClaimerOK'
      BY <1>18, InSlots, ExchangeAssumption DEF Activate, TypeOK, ClaimerOK, Generations
    <2> QED BY <1>18, <2>1, <2>2, PublisherType DEF Activate, TypeOK
  <1>19. CASE ClaimCall
    BY <1>19, <1>s, NextIndex, StartAttemptType, PublisherType DEF ClaimCall, TypeOK
  <1>20. CASE CommitCall
    <2>1. SharedOK'
      BY <1>0, <1>20, SharedType DEF CommitCall, SetState, SlotStates
    <2>2. ClaimerOK'
      BY <1>20, StageType DEF CommitCall, AudioStages
    <2> QED BY <1>20, <2>1, <2>2, PublisherType DEF CommitCall, TypeOK
  <1>21. CASE Cancel
    <2>1. SharedOK'
      BY <1>0, <1>21, SharedType DEF Cancel, SetState, SlotStates
    <2>2. ClaimerOK'
      BY <1>21, ExchangeAssumption DEF Cancel, TypeOK, ClaimerOK, Generations, aud
    <2> QED BY <1>21, <2>1, <2>2, PublisherType DEF Cancel, TypeOK
  <1>22. CASE Reset
    <2>1. SharedOK'
      <3>1. /\ state' \in [Slots -> SlotStates] /\ generation' \in [Slots -> Generations]
            /\ active_gen' \in Generations /\ publisher_gen' \in Generations
        BY <1>22, ExchangeAssumption DEF Reset, SlotStates, Generations
      <3>2. active_index' \in Slots /\ UNCHANGED prepared
        BY <1>22, InSlots DEF Reset
      <3>3. initialized' \in BOOLEAN
        BY <1>22 DEF Reset
      <3> QED BY <3>1, <3>2, <3>3 DEF TypeOK, SharedOK
    <2> QED BY <1>22, <2>1, <1>c, PublisherType DEF Reset, TypeOK
  <1>23. CASE UNCHANGED vars
    BY <1>23, <1>s, <1>c, PublisherType DEF vars, TypeOK
  <1> QED
    BY <1>1, <1>2, <1>3, <1>4, <1>5, <1>6, <1>7, <1>8, <1>9, <1>10, <1>11, <1>12,
       <1>13, <1>14, <1>15, <1>16, <1>17, <1>18, <1>19, <1>20, <1>21, <1>22, <1>23
       DEF Next, Publisher, Claimer

-----------------------------------------------------------------------------
\* What the invariant says of the numbers it compares.
LEMMA Numbers ==
  ASSUME TypeOK
  PROVE  /\ state \in [Slots -> SlotStates] /\ generation \in [Slots -> Nat]
         /\ prepared \in [Slots -> Nat]
         /\ active_index \in Slots /\ active_gen \in Nat /\ publisher_gen \in Nat
         /\ p_gen \in Nat /\ a_newest \in Nat /\ c_gen \in Nat
  BY ExchangeAssumption DEF TypeOK, SharedOK, PublisherOK, ClaimerOK, Generations, Torn

\* A step of the audio thread changes at most one slot, and that one is readable.
AudioStores(k, s) ==
  /\ UNCHANGED <<generation, prepared, publisher_gen, initialized, pub>>
  /\ k \in Slots /\ state[k] \in Readable
  /\ s \in SlotStates \ {"writing"}
  /\ SetState(k, s)

LEMMA AudioStoresState ==
  ASSUME TypeOK, NEW k, NEW s, AudioStores(k, s)
  PROVE  /\ state'[k] = s
         /\ \A j \in Slots : j # k => state'[j] = state[j]
         /\ UNCHANGED <<generation, prepared, publisher_gen, initialized>>
         /\ UNCHANGED <<p_stage, p_gen, p_index, p_selected>>
         /\ k \in Slots /\ state[k] \in Readable /\ s # "writing"
  BY Numbers DEF AudioStores, SetState, pub

LEMMA AudioFrame ==
  ASSUME ExchangeInv, NEW k, NEW s, AudioStores(k, s)
  PROVE  PubControl' /\ Writing' /\ Published'
  <1> USE DEF ExchangeInv
  <1>1. PubControl'
    BY AudioStoresState DEF PubControl
  <1>2. Writing'
    BY AudioStoresState DEF Writing, PubControl, Readable
  <1>3. Published'
    BY AudioStoresState DEF Published
  <1> QED BY <1>1, <1>2, <1>3

\* The newest configuration survives a store that keeps the slot readable, and one
\* that frees a slot no newer than the active one.
LEMMA KeepsNewest ==
  ASSUME ExchangeInv, NEW k, NEW s \in Readable, AudioStores(k, s)
  PROVE  NewestSurvives'
  BY AudioStoresState DEF ExchangeInv, NewestSurvives, Readable

LEMMA FreesStale ==
  ASSUME ExchangeInv, NEW k, AudioStores(k, "free"), a_stage # "activate",
         k # active_index, generation[k] <= active_gen
  PROVE  NewestSurvives'
  <1> USE DEF ExchangeInv
  <1> SUFFICES ASSUME initialized, p_stage \notin {"write", "release"}
               PROVE  \E i \in Slots : /\ state'[i] \in {"ready", "audio_claimed", "active"}
                                       /\ generation[i] = publisher_gen
    BY AudioStoresState DEF NewestSurvives
  <1>1. PICK i \in Slots : state[i] \in Readable /\ generation[i] = publisher_gen
    BY DEF NewestSurvives, Readable
  <1>2. /\ active_index \in Slots /\ state[active_index] = "active"
        /\ generation[active_index] = active_gen /\ active_gen <= publisher_gen
    BY Numbers DEF Active, Published, Readable
  <1>3. CASE i # k
    BY <1>1, <1>3, AudioStoresState DEF Readable
  <1>4. CASE i = k
    <2>1. generation[active_index] = publisher_gen
      BY <1>1, <1>2, <1>4, Numbers
    <2> QED BY <1>2, <2>1, AudioStoresState
  <1> QED BY <1>3, <1>4

\* After the step the audio thread owns no slot but the active one.
OwnsNothing ==
  /\ initialized' /\ c_index' = None
  /\ a_stage' \in {"idle", "scan", "scan_gen", "take", "reclaim", "reclaim_take"}
  /\ a_stage' \in {"scan", "scan_gen", "reclaim", "reclaim_take"} => a_index' \in Slots
  /\ a_stage' = "take" => a_selected' \in Slots

LEMMA OwnsNothingStep == OwnsNothing => AudControl' /\ Claiming'
  BY DEF OwnsNothing, AudControl, Claiming

LEMMA NextAttemptOwns ==
  NextAttempt /\ initialized' /\ c_index' = None => OwnsNothing
  BY InSlots DEF NextAttempt, StartAttempt, AudioReturns, OwnsNothing

LEMMA ScanOnOwns ==
  ASSUME a_index \in Slots, NEW i \in Slots \cup {None}, NEW g, ScanOn(i, g),
         initialized', c_index' = None
  PROVE  OwnsNothing
  BY InSlots, NextIndex DEF ScanOn, OwnsNothing

LEMMA ReclaimOnOwns ==
  ASSUME a_index \in Slots, ReclaimOn, initialized', c_index' = None
  PROVE  OwnsNothing
  BY InSlots, NextIndex DEF ReclaimOn, AudioReturns, OwnsNothing

\* A store that leaves the active slot alone keeps it active.
LEMMA KeepsActive ==
  ASSUME ExchangeInv, NEW k, NEW s, AudioStores(k, s), k # active_index,
         UNCHANGED audio, a_stage # "activate"
  PROVE  Active'
  BY AudioStoresState, Numbers DEF ExchangeInv, Active, audio

\* A step of the audio thread that stores to no slot.
LEMMA NoStore ==
  ASSUME ExchangeInv, UNCHANGED <<slots, audio, publisher_gen, initialized, pub>>,
         a_stage # "activate"
  PROVE  PubControl' /\ Writing' /\ Published' /\ NewestSurvives' /\ Active'
  BY DEF ExchangeInv, slots, audio, pub, PubControl, Writing, Published, NewestSurvives, Active

\* A step of the publisher leaves the audio thread's variables alone.
PublisherStep == UNCHANGED <<audio, initialized, aud, claim>>

\* The publisher's scans store nothing.
LEMMA PublisherScan ==
  ASSUME ExchangeInv, PublisherStep, UNCHANGED <<slots, publisher_gen>>,
         p_stage \notin {"write", "release"}
  PROVE  AudControl' /\ Claiming' /\ Active' /\ Published' /\ NewestSurvives'
  BY DEF ExchangeInv, PublisherStep, slots, audio, aud, claim, AudControl, Claiming, Active,
         Published, NewestSurvives

\* A slot the publisher stores to belongs to neither a claim nor the active one.
LEMMA PublisherFrame ==
  ASSUME ExchangeInv, PublisherStep, NEW k \in Slots,
         state[k] \notin {"audio_claimed", "active"},
         \A j \in Slots : j # k => state'[j] = state[j] /\ generation'[j] = generation[j]
  PROVE  AudControl' /\ Claiming' /\ Active'
  <1> USE DEF ExchangeInv, PublisherStep, audio, aud, claim
  <1>1. AudControl'
    BY DEF AudControl
  <1>2. Claiming'
    <2>1. c_index # None => c_index \in Slots
      BY DEF TypeOK, ClaimerOK
    <2> QED BY <2>1 DEF AudControl, Claiming
  <1>3. Active'
    BY Numbers DEF Active
  <1> QED BY <1>1, <1>2, <1>3

\* Each step of either thread keeps ownership and the newest configuration.
LEMMA ExchangeStep == ExchangeInv /\ [Next]_vars => ExchangeInv'
  <1> DEFINE Goal == /\ PubControl' /\ AudControl' /\ Writing' /\ Claiming' /\ Active'
                     /\ Published' /\ NewestSurvives'
  <1> SUFFICES ASSUME ExchangeInv, [Next]_vars PROVE Goal
    BY ExchangeTypeStep DEF ExchangeInv
  <1>t. TypeOK /\ (p_selected # None => p_selected \in Slots)
    BY DEF ExchangeInv, TypeOK, PublisherOK
  <1>1. ASSUME NEW g \in Generations, PublishCall(g) PROVE Goal
    <2>1. PublisherStep /\ UNCHANGED <<slots, publisher_gen>> /\ p_stage = "idle"
      BY <1>1 DEF PublishCall, PublisherStep
    <2>2. PubControl' /\ Writing'
      BY <1>1, InSlots DEF PublishCall, PubControl, Writing
    <2> QED BY <2>1, <2>2, PublisherScan
  <1>2. ASSUME NEW g \in Generations, Initialize(g) PROVE Goal
    <2>1. /\ state' = [i \in Slots |-> IF i = 1 THEN "active" ELSE "free"]
          /\ generation' = [i \in Slots |-> IF i = 1 THEN g ELSE 0]
          /\ prepared' = [prepared EXCEPT ![1] = g]
          /\ active_index' = 1 /\ active_gen' = g /\ publisher_gen' = g
          /\ initialized' /\ p_stage' = "idle" /\ a_stage' = "idle" /\ c_index' = None
      BY <1>2 DEF Initialize, Quiescent, pub, aud, claim
    <2>2. /\ state'[1] = "active" /\ generation'[1] = g /\ prepared'[1] = g
          /\ \A i \in Slots : i # 1 => state'[i] = "free"
      BY <1>t, <2>1, InSlots, Numbers
    <2>3. g \in Nat
      BY DEF Generations
    <2> QED BY <2>1, <2>2, <2>3, InSlots
            DEF PubControl, AudControl, Writing, Claiming, Active, Published, NewestSurvives,
                Readable
  <1>3. CASE ScanFree
    <2>1. PublisherStep /\ UNCHANGED <<slots, publisher_gen>> /\ p_stage = "free"
      BY <1>3 DEF ScanFree, PublisherStep
    <2>2. PubControl' /\ Writing'
      BY <1>3, InSlots, NextIndex DEF ScanFree, ExchangeInv, PubControl, Writing
    <2> QED BY <2>1, <2>2, PublisherScan
  <1>4. CASE ScanReady
    <2>1. PublisherStep /\ UNCHANGED <<slots, publisher_gen>> /\ p_stage = "ready"
      BY <1>4 DEF ScanReady, PublisherStep
    <2>2. PubControl' /\ Writing'
      BY <1>4, <1>t, InSlots, NextIndex
         DEF ScanReady, OldestReady, PublishReturns, ExchangeInv, PubControl, Writing
    <2> QED BY <2>1, <2>2, PublisherScan
  <1>5. CASE TakeSlot
    <2>1. /\ PublisherStep /\ UNCHANGED <<generation, publisher_gen, p_gen, p_selected>>
          /\ p_selected \in Slots /\ state[p_selected] \in {"free", "ready"}
          /\ state' = [state EXCEPT ![p_selected] = "writing"]
          /\ prepared' = [prepared EXCEPT ![p_selected] = Torn]
          /\ p_stage # "idle" /\ p_stage' = "write"
      BY <1>5 DEF TakeSlot, PublisherStep, Expected, SetState, ExchangeInv, PubControl
    <2>2. /\ state'[p_selected] = "writing"
          /\ \A j \in Slots : j # p_selected =>
               state'[j] = state[j] /\ generation'[j] = generation[j] /\ prepared'[j] = prepared[j]
      BY <1>t, <2>1, Numbers
    <2>3. AudControl' /\ Claiming' /\ Active'
      BY <2>1, <2>2, PublisherFrame
    <2>4. PubControl' /\ Writing' /\ NewestSurvives'
      BY <2>1, <2>2 DEF ExchangeInv, PublisherStep, PubControl, Writing, NewestSurvives
    <2>5. Published'
      BY <2>1, <2>2 DEF ExchangeInv, Published, Readable
    <2> QED BY <2>3, <2>4, <2>5
  <1>6. CASE LoseSlot
    <2>1. /\ PublisherStep /\ UNCHANGED <<slots, publisher_gen>>
          /\ p_stage \in {"take_free", "take_ready"}
      BY <1>6 DEF LoseSlot, PublisherStep
    <2>2. PubControl' /\ Writing'
      BY <1>6, InSlots DEF LoseSlot, PublishReturns, ExchangeInv, PubControl, Writing
    <2> QED BY <2>1, <2>2, PublisherScan
  <1>7. CASE WriteSlot
    <2>1. /\ PublisherStep /\ UNCHANGED <<state, publisher_gen, p_gen, p_selected>>
          /\ p_selected \in Slots /\ state[p_selected] = "writing"
          /\ prepared' = [prepared EXCEPT ![p_selected] = p_gen]
          /\ generation' = [generation EXCEPT ![p_selected] = p_gen]
          /\ p_stage = "write" /\ p_stage' = "release"
      BY <1>7 DEF WriteSlot, PublisherStep, ExchangeInv, PubControl, Writing
    <2>2. /\ prepared'[p_selected] = p_gen /\ generation'[p_selected] = p_gen
          /\ \A j \in Slots : j # p_selected =>
               state'[j] = state[j] /\ generation'[j] = generation[j] /\ prepared'[j] = prepared[j]
      BY <1>t, <2>1, Numbers
    <2>3. AudControl' /\ Claiming' /\ Active'
      BY <2>1, <2>2, PublisherFrame
    <2>4. PubControl' /\ Writing' /\ NewestSurvives'
      BY <2>1, <2>2 DEF ExchangeInv, PublisherStep, PubControl, Writing, NewestSurvives
    <2>5. Published'
      BY <2>1, <2>2 DEF ExchangeInv, Published, Readable
    <2> QED BY <2>3, <2>4, <2>5
  <1>8. CASE ReleaseSlot
    <2>1. /\ PublisherStep /\ UNCHANGED <<generation, prepared>>
          /\ p_selected \in Slots /\ state[p_selected] = "writing"
          /\ generation[p_selected] = p_gen /\ prepared[p_selected] = p_gen
          /\ p_gen > publisher_gen /\ publisher_gen' = p_gen
          /\ state' = [state EXCEPT ![p_selected] = "ready"]
          /\ p_stage' = "idle"
      BY <1>8 DEF ReleaseSlot, PublishReturns, SetState, PublisherStep, ExchangeInv,
                  PubControl, Writing
    <2>2. /\ state'[p_selected] = "ready"
          /\ \A j \in Slots : j # p_selected =>
               state'[j] = state[j] /\ generation'[j] = generation[j]
      BY <1>t, <2>1, Numbers
    <2>3. AudControl' /\ Claiming' /\ Active'
      BY <2>1, <2>2, PublisherFrame
    <2>4. PubControl' /\ Writing' /\ NewestSurvives'
      BY <2>1, <2>2 DEF PubControl, Writing, NewestSurvives
    <2>5. Published'
      BY <1>t, <2>1, <2>2, Numbers DEF ExchangeInv, Published, Readable
    <2> QED BY <2>3, <2>4, <2>5
  <1>9. CASE ScanState
    <2>1. /\ a_stage = "scan" /\ initialized' /\ a_index \in Slots /\ c_index' = None
          /\ UNCHANGED <<slots, audio, publisher_gen, initialized, pub>>
      BY <1>9 DEF ScanState, ExchangeInv, AudControl, claim
    <2>2. OwnsNothing
      <3>1. CASE state[a_index] = "ready"
        BY <1>9, <2>1, <3>1 DEF ScanState, OwnsNothing
      <3>2. CASE state[a_index] # "ready"
        <4>1. a_selected \in Slots \cup {None}
          BY DEF ExchangeInv, TypeOK, ClaimerOK
        <4> QED BY <1>9, <2>1, <3>2, <4>1, ScanOnOwns DEF ScanState
      <3> QED BY <3>1, <3>2
    <2> QED BY <2>1, <2>2, NoStore, OwnsNothingStep
  <1>10. CASE ScanGeneration
    <2>1. /\ a_stage = "scan_gen" /\ initialized' /\ a_index \in Slots /\ c_index' = None
          /\ UNCHANGED <<slots, audio, publisher_gen, initialized, pub>>
      BY <1>10 DEF ScanGeneration, ExchangeInv, AudControl, claim
    <2>2. a_selected \in Slots \cup {None}
      BY DEF ExchangeInv, TypeOK, ClaimerOK
    <2>3. OwnsNothing
      BY <1>10, <2>1, <2>2, ScanOnOwns DEF ScanGeneration
    <2> QED BY <2>1, <2>3, NoStore, OwnsNothingStep
  <1>11. CASE TakeReady
    <2>1. /\ a_stage = "take" /\ initialized' /\ a_selected \in Slots /\ c_index' = None
          /\ UNCHANGED <<generation, prepared, audio, publisher_gen, initialized, pub>>
      BY <1>11 DEF TakeReady, ExchangeInv, AudControl, claim
    <2>2. CASE state[a_selected] = "ready"
      <3>1. AudioStores(a_selected, "audio_claimed") /\ a_selected # active_index
        BY <1>11, <2>1, <2>2 DEF TakeReady, AudioStores, Readable, SlotStates, ExchangeInv, Active
      <3>2. a_stage' = "own" /\ UNCHANGED a_selected
        BY <1>11, <2>2 DEF TakeReady
      <3>3. AudControl' /\ Claiming'
        BY <2>1, <3>1, <3>2, AudioStoresState DEF AudControl, Claiming, ExchangeInv
      <3> QED BY <2>1, <3>1, <3>3, AudioFrame, KeepsNewest, KeepsActive DEF Readable
    <2>3. CASE state[a_selected] # "ready"
      <3>1. NextAttempt /\ UNCHANGED slots
        BY <1>11, <2>3 DEF TakeReady, slots
      <3> QED BY <2>1, <3>1, NextAttemptOwns, OwnsNothingStep, NoStore
    <2> QED BY <2>2, <2>3
  <1>12. CASE OwnGeneration
    <2>1. /\ a_stage = "own" /\ initialized' /\ a_selected \in Slots /\ c_index' = None
          /\ UNCHANGED <<generation, prepared, audio, publisher_gen, initialized, pub>>
          /\ state[a_selected] = "audio_claimed" /\ a_selected # active_index
      BY <1>12 DEF OwnGeneration, ExchangeInv, AudControl, Claiming, Active, claim
    <2>2. CASE Owned > active_gen
      <3>1. /\ UNCHANGED slots /\ a_stage' = "newer" /\ a_index' = 1
            /\ a_newest' = generation[a_selected] /\ UNCHANGED a_selected
        BY <1>12, <2>2 DEF OwnGeneration, Owned, slots
      <3>2. AudControl' /\ Claiming'
        BY <2>1, <2>2, <3>1, InSlots DEF AudControl, Claiming, slots, audio, Owned
      <3> QED BY <2>1, <3>1, <3>2, NoStore
    <2>3. CASE ~(Owned > active_gen)
      <3>1. AudioStores(a_selected, "free") /\ NextAttempt
        BY <1>12, <2>1, <2>3 DEF OwnGeneration, AudioStores, Readable, SlotStates
      <3>2. generation[a_selected] <= active_gen
        BY <2>1, <2>3, Numbers DEF Owned, ExchangeInv
      <3> QED BY <2>1, <3>1, <3>2, AudioFrame, FreesStale, KeepsActive, NextAttemptOwns,
                 OwnsNothingStep
    <2> QED BY <2>2, <2>3
  <1>n. ASSUME NewerOn, a_stage \in {"newer", "newer_gen"},
               UNCHANGED <<slots, audio, publisher_gen, initialized, pub>>
        PROVE  Goal
    <2>1. /\ initialized' /\ a_index \in Slots /\ a_selected \in Slots /\ c_index = None
          /\ state[a_selected] = "audio_claimed"
          /\ generation[a_selected] = a_newest /\ a_newest > active_gen
      BY <1>n DEF ExchangeInv, AudControl, Claiming
    <2>2. CASE a_index < NumSlots
      <3>1. /\ a_stage' = "newer" /\ a_index' \in Slots /\ c_index' = None
            /\ UNCHANGED <<a_selected, a_newest>>
        BY <1>n, <2>1, <2>2, NextIndex DEF NewerOn, claim
      <3>2. AudControl' /\ Claiming'
        BY <1>n, <2>1, <3>1 DEF AudControl, Claiming, slots, audio
      <3> QED BY <1>n, <3>2, NoStore
    <2>3. CASE ~(a_index < NumSlots)
      <3>1. a_stage' = "idle" /\ c_index' = a_selected /\ c_gen' = a_newest
        BY <1>n, <2>3 DEF NewerOn, AudioReturns
      <3>2. AudControl' /\ Claiming'
        BY <1>n, <2>1, <3>1, InSlots DEF AudControl, Claiming, slots, audio
      <3> QED BY <1>n, <3>2, NoStore
    <2> QED BY <2>2, <2>3
  <1>13. CASE NewerState
    <2>1. /\ a_stage = "newer"
          /\ UNCHANGED <<slots, audio, publisher_gen, initialized, pub>>
      BY <1>13 DEF NewerState
    <2>2. CASE state[a_index] = "ready"
      <3>1. a_stage' = "newer_gen" /\ UNCHANGED <<a_index, a_selected, a_newest, claim>>
        BY <1>13, <2>2 DEF NewerState
      <3>2. AudControl' /\ Claiming'
        BY <2>1, <3>1 DEF ExchangeInv, AudControl, Claiming, slots, audio, claim
      <3> QED BY <2>1, <3>2, NoStore
    <2>3. CASE state[a_index] # "ready"
      BY <1>13, <2>1, <2>3, <1>n DEF NewerState
    <2> QED BY <2>2, <2>3
  <1>14. CASE NewerGeneration
    <2>1. /\ a_stage = "newer_gen" /\ initialized' /\ a_selected \in Slots /\ c_index = None
          /\ UNCHANGED <<generation, prepared, audio, publisher_gen, initialized, pub>>
          /\ state[a_selected] = "audio_claimed" /\ a_selected # active_index
      BY <1>14 DEF NewerGeneration, ExchangeInv, AudControl, Claiming, Active
    <2>2. CASE generation[a_index] > a_newest
      <3>1. AudioStores(a_selected, "ready") /\ NextAttempt /\ c_index' = None
        BY <1>14, <2>1, <2>2 DEF NewerGeneration, AudioStores, Readable, SlotStates, claim
      <3> QED BY <2>1, <3>1, AudioFrame, KeepsNewest, KeepsActive, NextAttemptOwns,
                 OwnsNothingStep DEF Readable
    <2>3. CASE ~(generation[a_index] > a_newest)
      BY <1>14, <2>1, <2>3, <1>n DEF NewerGeneration, slots
    <2> QED BY <2>2, <2>3
  <1>15. CASE ReclaimState
    <2>1. /\ a_stage = "reclaim" /\ initialized' /\ a_index \in Slots /\ c_index' = None
          /\ UNCHANGED <<slots, audio, publisher_gen, initialized, pub>>
      BY <1>15 DEF ReclaimState, ExchangeInv, AudControl, claim
    <2>2. OwnsNothing
      <3>1. CASE state[a_index] = "ready"
        BY <1>15, <2>1, <3>1 DEF ReclaimState, OwnsNothing
      <3>2. CASE state[a_index] # "ready"
        BY <1>15, <2>1, <3>2, ReclaimOnOwns DEF ReclaimState
      <3> QED BY <3>1, <3>2
    <2> QED BY <2>1, <2>2, NoStore, OwnsNothingStep
  <1>16. CASE ReclaimTake
    <2>1. /\ a_stage = "reclaim_take" /\ initialized' /\ a_index \in Slots /\ c_index' = None
          /\ UNCHANGED <<generation, prepared, audio, publisher_gen, initialized, pub>>
      BY <1>16 DEF ReclaimTake, ExchangeInv, AudControl, claim
    <2>2. CASE state[a_index] = "ready"
      <3>1. AudioStores(a_index, "audio_claimed") /\ a_index # active_index
        BY <1>16, <2>1, <2>2
           DEF ReclaimTake, AudioStores, Readable, SlotStates, ExchangeInv, Active
      <3>2. a_stage' = "reclaim_release" /\ UNCHANGED a_index
        BY <1>16, <2>2 DEF ReclaimTake
      <3>3. AudControl' /\ Claiming'
        BY <2>1, <3>1, <3>2, AudioStoresState DEF AudControl, Claiming, ExchangeInv
      <3> QED BY <2>1, <3>1, <3>3, AudioFrame, KeepsNewest, KeepsActive DEF Readable
    <2>3. CASE state[a_index] # "ready"
      <3>1. ReclaimOn /\ UNCHANGED slots
        BY <1>16, <2>3 DEF ReclaimTake, slots
      <3> QED BY <2>1, <3>1, ReclaimOnOwns, OwnsNothingStep, NoStore
    <2> QED BY <2>2, <2>3
  <1>17. CASE ReclaimRelease
    <2>1. /\ a_stage = "reclaim_release" /\ initialized' /\ a_index \in Slots
          /\ c_index' = None /\ ReclaimOn
          /\ UNCHANGED <<generation, prepared, audio, publisher_gen, initialized, pub>>
          /\ state[a_index] = "audio_claimed" /\ a_index # active_index
      BY <1>17 DEF ReclaimRelease, ExchangeInv, AudControl, Claiming, Active, claim
    <2>2. AudControl' /\ Claiming'
      BY <2>1, ReclaimOnOwns, OwnsNothingStep
    <2>3. CASE generation[a_index] > active_gen
      <3>1. AudioStores(a_index, "ready")
        BY <1>17, <2>1, <2>3 DEF ReclaimRelease, AudioStores, Readable, SlotStates
      <3> QED BY <2>1, <2>2, <3>1, AudioFrame, KeepsNewest, KeepsActive DEF Readable
    <2>4. CASE ~(generation[a_index] > active_gen)
      <3>1. AudioStores(a_index, "free")
        BY <1>17, <2>1, <2>4 DEF ReclaimRelease, AudioStores, Readable, SlotStates
      <3>2. generation[a_index] <= active_gen
        BY <2>1, <2>4, Numbers DEF ExchangeInv
      <3> QED BY <2>1, <2>2, <3>1, <3>2, AudioFrame, FreesStale, KeepsActive
    <2> QED BY <2>3, <2>4
  <1>18. CASE Activate
    <2>1. /\ a_stage = "activate" /\ c_index \in Slots /\ initialized'
          /\ state[c_index] = "audio_claimed" /\ generation[c_index] = c_gen
      BY <1>18 DEF Activate, ExchangeInv, AudControl, Claiming, TypeOK, ClaimerOK
    <2>2. AudioStores(c_index, "active")
      BY <1>18, <2>1 DEF Activate, AudioStores, Readable, SlotStates
    <2>3. /\ active_index' = c_index /\ active_gen' = c_gen /\ c_index' = None
          /\ a_stage' = "reclaim" /\ a_index' = 1
      BY <1>18 DEF Activate
    <2>4. AudControl' /\ Claiming'
      BY <2>1, <2>3, InSlots DEF AudControl, Claiming
    <2>5. Active'
      BY <2>1, <2>2, <2>3, AudioStoresState DEF Active, ExchangeInv
    <2> QED BY <2>2, <2>4, <2>5, AudioFrame, KeepsNewest DEF Readable
  <1>19. CASE ClaimCall
    <2>1. /\ a_stage = "idle" /\ initialized' /\ c_index' = None
          /\ UNCHANGED <<slots, audio, publisher_gen, initialized, pub>>
      BY <1>19 DEF ClaimCall, claim
    <2>2. OwnsNothing
      BY <1>19, <2>1, InSlots DEF ClaimCall, StartAttempt, OwnsNothing
    <2> QED BY <2>1, <2>2, NoStore, OwnsNothingStep
  <1>20. CASE CommitCall
    <2>1. /\ a_stage = "idle" /\ initialized /\ c_index # None /\ c_index \in Slots
          /\ state[active_index] = "active" /\ generation[active_index] = active_gen
          /\ state[c_index] = "audio_claimed" /\ generation[c_index] = c_gen
          /\ c_gen > active_gen /\ active_index # c_index
          /\ a_stage' = "activate" /\ UNCHANGED <<claim, audio>>
      BY <1>20 DEF CommitCall, Committable, Cancellable, ExchangeInv, Active, TypeOK, ClaimerOK
    <2>2. AudioStores(active_index, "free")
      BY <1>20, <2>1, Numbers
         DEF CommitCall, AudioStores, Readable, SlotStates, ExchangeInv
    <2>3. AudControl' /\ Claiming' /\ Active'
      BY <2>1, <2>2, AudioStoresState DEF AudControl, Claiming, Active, claim, audio, ExchangeInv
    <2>4. NewestSurvives'
      <3>1. active_gen # publisher_gen
        BY <2>1, Numbers DEF ExchangeInv, Published, Readable
      <3> QED BY <2>1, <2>2, <3>1, AudioStoresState DEF ExchangeInv, NewestSurvives
    <2> QED BY <2>2, <2>3, <2>4, AudioFrame
  <1>21. CASE Cancel
    <2>1. /\ a_stage = "idle" /\ initialized /\ c_index # None /\ c_index \in Slots
          /\ state[c_index] = "audio_claimed" /\ c_index # active_index
          /\ c_index' = None /\ a_stage' = "idle" /\ UNCHANGED audio
      BY <1>21 DEF Cancel, Cancellable, ExchangeInv, Active, TypeOK, ClaimerOK, aud
    <2>2. AudioStores(c_index, "ready")
      BY <1>21, <2>1 DEF Cancel, AudioStores, Readable, SlotStates
    <2>3. AudControl' /\ Claiming'
      BY <2>1 DEF AudControl, Claiming
    <2> QED BY <2>1, <2>2, <2>3, AudioFrame, KeepsNewest, KeepsActive DEF Readable
  <1>22. CASE Reset
    <2>1. /\ ~initialized' /\ p_stage' = "idle" /\ a_stage' = "idle" /\ c_index' = None
          /\ state' = [i \in Slots |-> "free"]
      BY <1>22 DEF Reset, Quiescent, pub, aud, claim
    <2> QED BY <2>1 DEF PubControl, AudControl, Writing, Claiming, Active, Published,
               NewestSurvives, Readable
  <1>23. CASE UNCHANGED vars
    <2> USE <1>23 DEF vars, slots, audio, pub, aud, claim, ExchangeInv
    <2>1. PubControl' /\ AudControl' /\ Writing'
      BY DEF PubControl, AudControl, Writing
    <2>2. Claiming' /\ Active'
      BY DEF Claiming, Active
    <2>3. Published' /\ NewestSurvives'
      BY DEF Published, NewestSurvives
    <2> QED BY <2>1, <2>2, <2>3
  <1> QED
    BY <1>1, <1>2, <1>3, <1>4, <1>5, <1>6, <1>7, <1>8, <1>9, <1>10, <1>11, <1>12,
       <1>13, <1>14, <1>15, <1>16, <1>17, <1>18, <1>19, <1>20, <1>21, <1>22, <1>23
       DEF Next, Publisher, Claimer

LEMMA ExchangeInvHolds == Spec => []ExchangeInv
  <1>1. Init => ExchangeInv
    <2> SUFFICES ASSUME Init PROVE ExchangeInv
      OBVIOUS
    <2>1. SharedOK /\ PublisherOK /\ ClaimerOK
      <3>1. 0 \in Generations /\ None = 0
        BY ExchangeAssumption DEF Generations, None
      <3>2. SharedOK
        BY <3>1, InSlots DEF Init, SharedOK, SlotStates
      <3>3. PublisherOK /\ ClaimerOK
        BY <3>1, NextIndex DEF Init, PublisherOK, ClaimerOK
      <3> QED BY <3>2, <3>3
    <2>2. Published /\ NewestSurvives /\ Active
      BY DEF Init, Published, NewestSurvives, Active, Readable
    <2>3. PubControl /\ AudControl /\ Writing /\ Claiming
      BY DEF Init, PubControl, AudControl, Writing, Claiming
    <2> QED BY <2>1, <2>2, <2>3 DEF ExchangeInv, TypeOK
  <1> QED BY <1>1, ExchangeStep, PTL DEF Spec

\* Whatever the main and the audio thread interleave, every configuration the audio
\* thread may read is whole and tagged with its own generation.
THEOREM ExchangeHandsOverWhole == Spec => []NeverTorn
  <1>1. ExchangeInv => NeverTorn
    <2> SUFFICES ASSUME ExchangeInv PROVE NeverTorn
      OBVIOUS
    <2>1. active_index \in Slots /\ (c_index # None => c_index \in Slots)
      BY DEF ExchangeInv, TypeOK, SharedOK, ClaimerOK
    <2> QED BY <2>1 DEF ExchangeInv, NeverTorn, Published, Claiming, Active, Readable
  <1> QED BY <1>1, ExchangeInvHolds, PTL

\* commit and cancel find a held claim as they left it.
THEOREM HeldClaimCommits == Spec => []ClaimIsGood
  <1>1. ExchangeInv => ClaimIsGood
    BY DEF ExchangeInv, ClaimIsGood, Committable, Cancellable, Claiming, AudControl
  <1> QED BY <1>1, ExchangeInvHolds, PTL

\* The newest configuration published is never lost: replacements, cancels and
\* reclaims only ever drop older ones.
THEOREM NewestIsKept == Spec => []NewestSurvives
  <1>1. ExchangeInv => NewestSurvives
    BY DEF ExchangeInv
  <1> QED BY <1>1, ExchangeInvHolds, PTL

\* Type correctness, for every number of slots and generations.
THEOREM ExchangeTypeOK == Spec => []TypeOK
  <1>1. ExchangeInv => TypeOK
    BY DEF ExchangeInv
  <1> QED BY <1>1, ExchangeInvHolds, PTL

-----------------------------------------------------------------------------
(* The exchange implements ExchangeService *)

\* Generations grow with each publication, no two that matter are the same, a free slot
\* holds none that matters, and every slot is free until the exchange is initialised.
Ordered ==
  /\ active_gen <= publisher_gen
  /\ \A i \in Slots : state[i] = "free" => generation[i] <= active_gen
  /\ \A i \in Slots : generation[i] <= publisher_gen \/ (p_stage = "release" /\ i = p_selected)
  /\ \A i, j \in Slots : i # j /\ generation[i] = generation[j] => generation[i] <= active_gen
  /\ ~initialized => active_gen = 0 /\ \A i \in Slots : state[i] = "free"

\* A claim is of the configuration under its generation.
HeldClaim == Held = IF c_index = None THEN None ELSE c_gen

LEMMA HeldIsClaimed == ExchangeInv => HeldClaim
  BY DEF HeldClaim, ExchangeInv, Held, Claiming, Published, Readable, TypeOK, ClaimerOK

\* Slots that wait as before leave Waiting as it was.
LEMMA SameWaiting ==
  ASSUME \A i \in Slots : Waits(i)' <=> Waits(i), UNCHANGED generation
  PROVE  UNCHANGED Waiting
  BY DEF Waiting

\* A step of the audio thread that keeps the claim and the active configuration, and
\* stores free only where nothing waits, is a stutter.
LEMMA StoreKeepsWaiting ==
  ASSUME ExchangeInv, NEW k, NEW s, AudioStores(k, s), UNCHANGED <<audio, c_index>>,
         \/ state[k] # "active" /\ s \in {"ready", "audio_claimed"}
         \/ s = "free" /\ generation[k] <= active_gen
  PROVE  UNCHANGED Waiting
  <1>1. \A i \in Slots : Waits(i)' <=> Waits(i)
    <2> SUFFICES ASSUME NEW i \in Slots PROVE Waits(i)' <=> Waits(i)
      OBVIOUS
    <2>1. CASE i # k
      BY <2>1, AudioStoresState DEF ExchangeInv, Waits, audio
    <2>2. CASE i = k
      BY <2>2, AudioStoresState, Numbers DEF ExchangeInv, Waits, audio, Readable
    <2> QED BY <2>1, <2>2
  <1>2. UNCHANGED generation
    BY AudioStoresState DEF ExchangeInv
  <1> QED BY <1>1, <1>2, SameWaiting

\* What a step can be to the callers: nothing they see ...
Quiet ==
  /\ UNCHANGED <<slots, audio, publisher_gen, initialized, claim>>
  /\ p_stage = "release" => UNCHANGED <<p_stage, p_selected>>

\* ... a store by the audio thread that drops nothing ...
Stored ==
  \E k \in Slots, s \in SlotStates :
    /\ AudioStores(k, s) /\ UNCHANGED <<audio, claim>>
    /\ \/ state[k] # "active" /\ s \in {"ready", "audio_claimed"}
       \/ s = "free" /\ generation[k] <= active_gen

\* ... or the end of a claim_latest that found something.
Claimed ==
  /\ UNCHANGED <<slots, audio, publisher_gen, initialized, pub>>
  /\ c_index = None /\ c_index' = a_selected /\ c_gen' = a_newest
  /\ a_selected \in Slots /\ state[a_selected] = "audio_claimed"
  /\ generation[a_selected] = a_newest /\ a_newest > active_gen

\* The stores of a publication and of the caller's own calls are actions themselves.
Visible ==
  \/ TakeSlot \/ WriteSlot \/ ReleaseSlot \/ Activate \/ Cancel \/ Reset
  \/ \E g \in Generations : Initialize(g)

LEMMA StepKinds ==
  ASSUME ExchangeInv, [Next]_vars
  PROVE  Quiet \/ Stored \/ Claimed \/ Visible
  <1> USE DEF ExchangeInv
  <1>1. ASSUME NEW g \in Generations, PublishCall(g) PROVE Quiet
    BY <1>1 DEF PublishCall, Quiet
  <1>2. CASE ScanFree \/ ScanReady \/ LoseSlot
    BY <1>2 DEF ScanFree, ScanReady, LoseSlot, Quiet
  <1>3. CASE ScanState \/ ScanGeneration \/ ReclaimState \/ ClaimCall
    BY <1>3 DEF ScanState, ScanGeneration, ReclaimState, ClaimCall, Quiet, pub
  <1>4. CASE TakeReady
    <2>1. CASE state[a_selected] = "ready"
      <3>1. AudioStores(a_selected, "audio_claimed") /\ a_selected \in Slots
        BY <1>4, <2>1 DEF TakeReady, AudioStores, Readable, SlotStates, AudControl
      <3> QED BY <1>4, <2>1, <3>1 DEF TakeReady, Stored, SlotStates
    <2>2. CASE state[a_selected] # "ready"
      BY <1>4, <2>2 DEF TakeReady, Quiet, slots, pub
    <2> QED BY <2>1, <2>2
  <1>5. CASE OwnGeneration
    <2>1. CASE Owned > active_gen
      BY <1>5, <2>1 DEF OwnGeneration, Quiet, slots, pub
    <2>2. CASE ~(Owned > active_gen)
      <3>1. /\ AudioStores(a_selected, "free") /\ a_selected \in Slots
            /\ UNCHANGED <<audio, claim>>
        BY <1>5, <2>2 DEF OwnGeneration, AudioStores, Readable, SlotStates, AudControl, Claiming
      <3>2. generation[a_selected] <= active_gen
        BY <2>2, <3>1, Numbers DEF Owned
      <3> QED BY <3>1, <3>2 DEF Stored, SlotStates
    <2> QED BY <2>1, <2>2
  <1>6. ASSUME NewerOn, a_stage \in {"newer", "newer_gen"},
               UNCHANGED <<slots, audio, publisher_gen, initialized, pub>>
        PROVE  Quiet \/ Claimed
    <2>1. CASE a_index < NumSlots
      BY <1>6, <2>1 DEF NewerOn, Quiet, pub
    <2>2. CASE ~(a_index < NumSlots)
      BY <1>6, <2>2 DEF NewerOn, Claimed, AudControl, Claiming
    <2> QED BY <2>1, <2>2
  <1>7. CASE NewerState
    <2>1. CASE state[a_index] = "ready"
      BY <1>7, <2>1 DEF NewerState, Quiet, pub
    <2>2. CASE state[a_index] # "ready"
      BY <1>6, <1>7, <2>2 DEF NewerState
    <2> QED BY <2>1, <2>2
  <1>8. CASE NewerGeneration
    <2>1. CASE generation[a_index] > a_newest
      <3>1. AudioStores(a_selected, "ready") /\ a_selected \in Slots
        BY <1>8, <2>1
           DEF NewerGeneration, AudioStores, Readable, SlotStates, AudControl, Claiming
      <3>2. state[a_selected] # "active" /\ UNCHANGED <<audio, claim>>
        BY <1>8, <2>1 DEF NewerGeneration, Claiming
      <3> QED BY <3>1, <3>2 DEF Stored, SlotStates
    <2>2. CASE ~(generation[a_index] > a_newest)
      BY <1>6, <1>8, <2>2 DEF NewerGeneration, slots
    <2> QED BY <2>1, <2>2
  <1>9. CASE ReclaimTake
    <2>1. CASE state[a_index] = "ready"
      <3>1. AudioStores(a_index, "audio_claimed") /\ a_index \in Slots
        BY <1>9, <2>1 DEF ReclaimTake, AudioStores, Readable, SlotStates, AudControl
      <3> QED BY <1>9, <2>1, <3>1 DEF ReclaimTake, Stored, SlotStates
    <2>2. CASE state[a_index] # "ready"
      BY <1>9, <2>2 DEF ReclaimTake, Quiet, slots, pub
    <2> QED BY <2>1, <2>2
  <1>10. CASE ReclaimRelease
    <2>1. a_index \in Slots /\ state[a_index] = "audio_claimed" /\ UNCHANGED <<audio, claim>>
      BY <1>10 DEF ReclaimRelease, AudControl, Claiming
    <2>2. CASE generation[a_index] > active_gen
      <3>1. AudioStores(a_index, "ready")
        BY <1>10, <2>1, <2>2 DEF ReclaimRelease, AudioStores, Readable, SlotStates
      <3> QED BY <2>1, <3>1 DEF Stored, SlotStates
    <2>3. CASE ~(generation[a_index] > active_gen)
      <3>1. AudioStores(a_index, "free")
        BY <1>10, <2>1, <2>3 DEF ReclaimRelease, AudioStores, Readable, SlotStates
      <3>2. generation[a_index] <= active_gen
        BY <2>1, <2>3, Numbers
      <3> QED BY <2>1, <3>1, <3>2 DEF Stored, SlotStates
    <2> QED BY <2>2, <2>3
  <1>11. CASE CommitCall
    <2>1. /\ active_index \in Slots /\ state[active_index] = "active"
          /\ generation[active_index] <= active_gen
      BY <1>11, Numbers DEF CommitCall, Committable, Cancellable, Active
    <2>2. AudioStores(active_index, "free") /\ UNCHANGED <<audio, claim>>
      BY <1>11, <2>1 DEF CommitCall, AudioStores, Readable, SlotStates
    <2> QED BY <2>1, <2>2 DEF Stored, SlotStates
  <1>12. CASE UNCHANGED vars
    BY <1>12 DEF vars, pub, Quiet
  <1> QED
    BY <1>1, <1>2, <1>3, <1>4, <1>5, <1>7, <1>8, <1>9, <1>10, <1>11, <1>12
       DEF Next, Publisher, Claimer, Visible

LEMMA OrderedStep == ExchangeInv /\ ExchangeInv' /\ Ordered /\ [Next]_vars => Ordered'
  <1> SUFFICES ASSUME ExchangeInv, ExchangeInv', Ordered, [Next]_vars PROVE Ordered'
    OBVIOUS
  <1>t. TypeOK
    BY DEF ExchangeInv
  <1>p. \A i \in Slots : state[i] \in Readable => generation[i] <= publisher_gen
    BY DEF ExchangeInv, Published
  <1>1. CASE Quiet
    BY <1>1 DEF Quiet, Ordered, slots, audio
  <1>2. CASE Stored
    <2>1. PICK k \in Slots, s \in SlotStates :
            /\ AudioStores(k, s) /\ UNCHANGED <<audio, claim>>
            /\ \/ state[k] # "active" /\ s \in {"ready", "audio_claimed"}
               \/ s = "free" /\ generation[k] <= active_gen
      BY <1>2 DEF Stored
    <2> QED BY <1>t, <2>1, AudioStoresState DEF Ordered, audio, Readable
  <1>3. CASE Claimed
    BY <1>3 DEF Claimed, Ordered, slots, audio, pub
  <1>4. CASE TakeSlot
    <2>1. /\ UNCHANGED <<generation, active_gen, publisher_gen, initialized>>
          /\ initialized /\ p_stage # "release"
          /\ p_selected \in Slots /\ state' = [state EXCEPT ![p_selected] = "writing"]
      BY <1>4 DEF TakeSlot, SetState, audio, ExchangeInv, PubControl
    <2>2. \A i \in Slots : state'[i] = "free" => state[i] = "free"
      BY <1>t, <2>1, Numbers
    <2> QED BY <2>1, <2>2 DEF Ordered
  <1>5. CASE WriteSlot
    <2>1. /\ UNCHANGED <<state, active_gen, publisher_gen, initialized, p_selected>>
          /\ initialized /\ p_stage = "write"
          /\ p_selected \in Slots /\ state[p_selected] = "writing" /\ p_stage' = "release"
          /\ generation' = [generation EXCEPT ![p_selected] = p_gen]
          /\ p_gen > publisher_gen
      BY <1>5 DEF WriteSlot, audio, ExchangeInv, PubControl, Writing
    <2>2. /\ generation'[p_selected] = p_gen
          /\ \A i \in Slots : i # p_selected => generation'[i] = generation[i]
      BY <1>t, <2>1, Numbers
    <2>3. \A i \in Slots : i # p_selected => generation'[i] # p_gen
      BY <1>t, <2>1, <2>2, Numbers DEF Ordered
    <2>4. \A i, j \in Slots : i # j /\ generation'[i] = generation'[j] => generation'[i] <= active_gen
      BY <2>2, <2>3 DEF Ordered
    <2> QED BY <2>1, <2>2, <2>4 DEF Ordered
  <1>6. CASE ReleaseSlot
    <2>1. /\ UNCHANGED <<generation, active_gen, initialized>> /\ initialized
          /\ p_stage = "release" /\ p_stage' = "idle"
          /\ p_selected \in Slots /\ state' = [state EXCEPT ![p_selected] = "ready"]
          /\ generation[p_selected] = p_gen /\ p_gen > publisher_gen /\ publisher_gen' = p_gen
      BY <1>6 DEF ReleaseSlot, SetState, PublishReturns, audio, ExchangeInv, PubControl, Writing
    <2>2. \A i \in Slots : state'[i] = "free" => state[i] = "free"
      BY <1>t, <2>1, Numbers
    <2>3. \A i \in Slots : generation[i] <= publisher_gen'
      BY <1>t, <2>1, Numbers DEF Ordered
    <2>4. active_gen <= publisher_gen'
      BY <1>t, <2>1, Numbers DEF Ordered
    <2> QED BY <2>1, <2>2, <2>3, <2>4 DEF Ordered
  <1>7. CASE Activate
    <2>1. /\ UNCHANGED <<generation, publisher_gen, initialized, p_stage, p_selected>>
          /\ initialized /\ c_index \in Slots /\ state[c_index] = "audio_claimed"
          /\ generation[c_index] = c_gen /\ c_gen > active_gen /\ active_gen' = c_gen
          /\ state' = [state EXCEPT ![c_index] = "active"]
      BY <1>7 DEF Activate, SetState, pub, ExchangeInv, AudControl, Claiming, TypeOK, ClaimerOK
    <2>2. \A i \in Slots : state'[i] = "free" => state[i] = "free"
      BY <1>t, <2>1, Numbers
    <2>3. c_gen <= publisher_gen
      BY <1>p, <2>1 DEF Readable
    <2> QED BY <1>t, <2>1, <2>2, <2>3, Numbers DEF Ordered
  <1>8. CASE Cancel
    <2>1. /\ UNCHANGED <<generation, publisher_gen, active_gen, initialized, p_stage, p_selected>>
          /\ initialized
          /\ state' = [state EXCEPT ![c_index] = "ready"]
      BY <1>8 DEF Cancel, Cancellable, SetState, pub, audio
    <2>2. \A i \in Slots : state'[i] = "free" => state[i] = "free"
      BY <1>t, <2>1, Numbers
    <2> QED BY <2>1, <2>2 DEF Ordered
  <1>9. CASE Reset
    BY <1>9 DEF Reset, Ordered
  <1>10. ASSUME NEW g \in Generations, Initialize(g) PROVE Ordered'
    <2>1. /\ generation' = [i \in Slots |-> IF i = 1 THEN g ELSE 0]
          /\ active_gen' = g /\ publisher_gen' = g /\ g \in Nat /\ initialized'
      BY <1>10 DEF Initialize, Generations
    <2> QED BY <2>1 DEF Ordered
  <1> QED
    BY <1>1, <1>2, <1>3, <1>4, <1>5, <1>6, <1>7, <1>8, <1>9, <1>10, StepKinds DEF Visible

\* Each step is one of the service's, or one it does not see.
LEMMA ServiceStep ==
  ExchangeInv /\ ExchangeInv' /\ Ordered /\ [Next]_vars => [Service!Next]_(Service!vars)
  <1>0. ExchangeInv /\ ExchangeInv' => HeldClaim /\ HeldClaim'
    BY HeldIsClaimed, PTL
  <1> SUFFICES ASSUME ExchangeInv, ExchangeInv', Ordered, [Next]_vars
               PROVE  Service!Next \/ UNCHANGED Service!vars
    OBVIOUS
  <1>t. TypeOK
    BY DEF ExchangeInv
  <1>h. /\ Held = IF c_index = None THEN None ELSE c_gen
        /\ Held' = IF c_index' = None THEN None ELSE c_gen'
    BY <1>0 DEF HeldClaim
  <1>c. c_index # None => /\ c_index \in Slots /\ state[c_index] = "audio_claimed"
                          /\ generation[c_index] = c_gen /\ c_gen > active_gen
    BY DEF ExchangeInv, Claiming, TypeOK, ClaimerOK
  <1>n. None \notin Slots /\ None = 0
    BY InSlots DEF None
  <1>s. ASSUME UNCHANGED <<initialized, Waiting, active_gen, c_index, c_gen>>
        PROVE  UNCHANGED Service!vars
    BY <1>s, <1>h DEF Service!vars
  <1>1. CASE Quiet
    <2>1. UNCHANGED <<initialized, state, generation, active_gen, c_index, c_gen>>
      BY <1>1 DEF Quiet, slots, audio, claim
    <2> QED BY <1>s, <2>1 DEF Waiting, Waits
  <1>2. CASE Stored
    <2>1. PICK k \in Slots, s \in SlotStates :
            /\ AudioStores(k, s) /\ UNCHANGED <<audio, claim>>
            /\ \/ state[k] # "active" /\ s \in {"ready", "audio_claimed"}
               \/ s = "free" /\ generation[k] <= active_gen
      BY <1>2 DEF Stored
    <2>2. UNCHANGED Waiting
      BY <2>1, StoreKeepsWaiting DEF claim
    <2> QED BY <1>s, <2>1, <2>2 DEF audio, claim, AudioStores
  <1>3. CASE Claimed
    <2>1. /\ UNCHANGED <<initialized, state, generation, active_gen>> /\ c_index = None
          /\ c_index' = a_selected /\ c_gen' = a_newest /\ a_selected \in Slots
          /\ state[a_selected] = "audio_claimed" /\ generation[a_selected] = a_newest
          /\ a_newest > active_gen
      BY <1>3 DEF Claimed, slots, audio
    <2>2. \A i \in Slots : Waits(i)' <=> (Waits(i) /\ i # a_selected)
      BY <1>n, <2>1 DEF Waits
    <2>3. Waits(a_selected)
      BY <1>n, <2>1 DEF Waits
    <2>4. \A i \in Slots : Waits(i) /\ generation[i] = a_newest => i = a_selected
      <3>1. ~(a_newest <= active_gen)
        BY <1>t, <2>1, Numbers
      <3> QED BY <2>1, <3>1 DEF Ordered
    <2>5. Waiting' = Waiting \ {a_newest} /\ a_newest \in Waiting
      BY <2>1, <2>2, <2>3, <2>4 DEF Waiting
    <2>6. Held = None /\ Held' = a_newest /\ a_newest \in Generations
      BY <1>n, <1>h, <2>1, <1>t DEF TypeOK, ClaimerOK
    <2>7. Service!Claim(a_newest)
      BY <2>1, <2>5, <2>6 DEF Service!Claim
    <2> QED BY <2>6, <2>7 DEF Service!Next
  <1>4. CASE TakeSlot
    <2>1. /\ UNCHANGED <<initialized, generation, active_gen, c_index, c_gen>>
          /\ p_selected \in Slots /\ state[p_selected] \in {"free", "ready"}
          /\ state' = [state EXCEPT ![p_selected] = "writing"]
      BY <1>4 DEF TakeSlot, SetState, Expected, audio, claim, ExchangeInv, PubControl
    <2>2. \A i \in Slots : i # p_selected => state'[i] = state[i]
      BY <1>t, <2>1, Numbers
    <2>3. state'[p_selected] = "writing"
      BY <1>t, <2>1, Numbers
    <2>4. state[p_selected] = "free" => ~(generation[p_selected] > active_gen)
      BY <1>t, <2>1, Numbers DEF Ordered
    <2>5. \A i \in Slots : Waits(i)' <=> Waits(i)
      BY <2>1, <2>2, <2>3, <2>4 DEF Waits
    <2> QED BY <1>s, <2>1, <2>5, SameWaiting
  <1>5. CASE WriteSlot
    <2>1. /\ UNCHANGED <<initialized, state, active_gen, c_index, c_gen, p_selected>>
          /\ initialized
          /\ p_selected \in Slots /\ state[p_selected] = "writing" /\ p_stage = "write"
          /\ generation' = [generation EXCEPT ![p_selected] = p_gen]
          /\ p_gen > publisher_gen
      BY <1>5 DEF WriteSlot, audio, claim, ExchangeInv, PubControl, Writing
    <2>2. /\ generation'[p_selected] = p_gen
          /\ \A i \in Slots : i # p_selected => generation'[i] = generation[i]
      BY <1>t, <2>1, Numbers
    <2>3. p_gen > active_gen /\ \A i \in Slots : p_gen > generation[i]
      BY <1>t, <2>1, Numbers DEF Ordered
    <2>4. \A w \in Waiting : p_gen > w
      BY <2>3 DEF Waiting
    <2>5. Held # None => p_gen > Held
      BY <1>h, <1>c, <2>3
    <2>6. PICK lost : lost = IF Waits(p_selected) THEN {generation[p_selected]} ELSE {}
      OBVIOUS
    <2>7. p_selected # c_index
      BY <1>c, <1>n, <2>1
    <2>8. Waits(p_selected)' /\ \A i \in Slots : i # p_selected => (Waits(i)' <=> Waits(i))
      BY <2>1, <2>2, <2>3, <2>7 DEF Waits
    <2>9. \A i \in Slots : Waits(i) /\ Waits(p_selected) /\ generation[i] = generation[p_selected]
                            => i = p_selected
      <3>1. Waits(p_selected) => ~(generation[p_selected] <= active_gen)
        BY <1>t, <2>1, Numbers DEF Waits
      <3> QED BY <2>1, <3>1 DEF Ordered
    <2>10. lost \in SUBSET Waiting /\ \A v, w \in lost : v = w
      BY <2>1, <2>6 DEF Waiting
    <2>11. Waiting' = (Waiting \ lost) \cup {p_gen}
      BY <2>1, <2>2, <2>6, <2>8, <2>9 DEF Waiting
    <2>12. UNCHANGED <<initialized, Held, active_gen>> /\ p_gen \in Generations
      BY <1>h, <2>1, <1>t DEF TypeOK, PublisherOK
    <2>13. Service!Publish(p_gen)
      BY <2>1, <2>3, <2>4, <2>5, <2>10, <2>11, <2>12 DEF Service!Publish
    <2> QED BY <2>12, <2>13 DEF Service!Next
  <1>6. CASE ReleaseSlot
    <2>1. /\ UNCHANGED <<initialized, generation, active_gen, c_index, c_gen>>
          /\ p_selected \in Slots /\ state[p_selected] = "writing"
          /\ state' = [state EXCEPT ![p_selected] = "ready"]
      BY <1>6 DEF ReleaseSlot, SetState, audio, claim, ExchangeInv, PubControl, Writing
    <2>2. /\ state'[p_selected] = "ready"
          /\ \A i \in Slots : i # p_selected => state'[i] = state[i]
      BY <1>t, <2>1, Numbers
    <2>3. \A i \in Slots : Waits(i)' <=> Waits(i)
      BY <2>1, <2>2 DEF Waits
    <2> QED BY <1>s, <2>1, <2>3, SameWaiting
  <1>7. CASE Activate
    <2>1. /\ UNCHANGED <<initialized, generation>> /\ c_index # None /\ c_index' = None
          /\ active_gen' = c_gen /\ state' = [state EXCEPT ![c_index] = "active"]
      BY <1>7 DEF Activate, SetState, ExchangeInv, AudControl
    <2>2. /\ state'[c_index] = "active"
          /\ \A i \in Slots : i # c_index => state'[i] = state[i]
      BY <1>t, <1>c, <2>1, Numbers
    <2>3. \A i \in Slots : Waits(i)' <=> (Waits(i) /\ generation[i] > c_gen)
      <3>1. \A i \in Slots : generation[i] > c_gen => generation[i] > active_gen
        BY <1>t, <1>c, <2>1, Numbers
      <3> QED BY <1>n, <2>1, <2>2, <3>1 DEF Waits
    <2>4. Held = c_gen /\ Held' = None /\ c_gen # None
      BY <1>h, <1>c, <1>n, <1>t, <2>1, Numbers
    <2>5. Waiting' = {w \in Waiting : w > Held}
      BY <2>1, <2>3, <2>4 DEF Waiting
    <2> QED BY <1>c, <2>1, <2>4, <2>5 DEF Service!Commit, Service!Next
  <1>8. CASE Cancel
    <2>1. /\ UNCHANGED <<initialized, generation, active_gen>> /\ c_index # None /\ c_index' = None
          /\ state' = [state EXCEPT ![c_index] = "ready"]
      BY <1>8 DEF Cancel, Cancellable, SetState, audio
    <2>2. /\ state'[c_index] = "ready"
          /\ \A i \in Slots : i # c_index => state'[i] = state[i]
      BY <1>t, <1>c, <2>1, Numbers
    <2>3. \A i \in Slots : Waits(i)' <=> (Waits(i) \/ i = c_index)
      BY <1>n, <1>c, <2>1, <2>2 DEF Waits
    <2>4. Held = c_gen /\ Held' = None /\ c_gen # None
      BY <1>h, <1>c, <1>n, <1>t, <2>1, Numbers
    <2>5. Waiting' = Waiting \cup {Held}
      BY <1>c, <2>1, <2>3, <2>4 DEF Waiting
    <2> QED BY <2>1, <2>4, <2>5 DEF Service!GiveBack, Service!Next
  <1>9. ASSUME c_index' = None, \A i \in Slots : state'[i] \in {"free", "active"}
        PROVE  Service!Nothing'
    <2>1. Waiting' = {}
      BY <1>9 DEF Waiting, Waits
    <2>2. Held' = None
      BY <1>h, <1>9
    <2> QED BY <2>1, <2>2 DEF Service!Nothing
  <1>10. CASE Reset
    <2>1. /\ Service!Nothing' /\ ~initialized' /\ active_gen' = 0
          /\ c_index = None
      BY <1>9, <1>10 DEF Reset, claim
    <2>2. CASE initialized
      BY <2>1, <2>2 DEF Service!Stop, Service!Next
    <2>3. CASE ~initialized
      <3>1. Waiting = {} /\ Held = None /\ active_gen = 0
        BY <1>h, <2>1, <2>3 DEF Ordered, Waiting, Waits
      <3>2. initialized \in BOOLEAN /\ initialized' \in BOOLEAN
        BY DEF ExchangeInv, TypeOK, SharedOK
      <3>3. Waiting' = {} /\ Held' = None
        BY <2>1 DEF Service!Nothing
      <3> QED BY <2>1, <2>3, <3>1, <3>2, <3>3 DEF Service!vars
    <2> QED BY <2>2, <2>3
  <1>11. ASSUME NEW g \in Generations, Initialize(g) PROVE Service!Next
    <2>1. Service!Nothing' /\ ~initialized /\ initialized' /\ active_gen' = g
      BY <1>9, <1>11 DEF Initialize, claim
    <2> QED BY <2>1 DEF Service!Start, Service!Next
  <1> QED
    BY <1>1, <1>2, <1>3, <1>4, <1>5, <1>6, <1>7, <1>8, <1>10, <1>11, StepKinds DEF Visible

\* To its callers the exchange is the service: whatever the two threads interleave, what
\* waits is lost to one newer publication or to a commit, a claim is held until its holder
\* ends it, and only newer configurations become active.
THEOREM ExchangeImplementsService == Spec => ImplementsService
  <1>1. Init => Service!Init /\ Ordered
    <2> SUFFICES ASSUME Init PROVE Service!Init /\ Ordered
      OBVIOUS
    <2>1. Waiting = {}
      BY DEF Init, Waiting, Waits
    <2>2. Held = None
      BY DEF Init, Held
    <2> QED BY <2>1, <2>2 DEF Init, Service!Init, Service!Nothing, Ordered
  <1>2. ExchangeInv /\ ExchangeInv' /\ Ordered /\ [Next]_vars => Ordered'
    BY OrderedStep
  <1>3. ExchangeInv /\ ExchangeInv' /\ Ordered /\ [Next]_vars => [Service!Next]_(Service!vars)
    BY ServiceStep
  <1>4. Spec => []Ordered
    BY <1>1, <1>2, ExchangeInvHolds, PTL DEF Spec
  <1> QED BY <1>1, <1>3, <1>4, ExchangeInvHolds, PTL DEF Spec, ImplementsService, Service!Spec
-----------------------------------------------------------------------------
(* Bounded steps: each stage's share of what is left of a call. *)

AudioLeft ==
  /\ a_stage = "idle" => AudioStepsLeft = 0
  /\ a_stage = "reclaim_release" => AudioStepsLeft = 3 * SlotsLeft + 1
  /\ a_stage = "reclaim_take" => AudioStepsLeft = 3 * SlotsLeft + 2
  /\ a_stage = "reclaim" => AudioStepsLeft = 3 * SlotsLeft + 3
  /\ a_stage = "activate" => AudioStepsLeft = 3 * NumSlots + 1
  /\ a_stage = "newer_gen" => AudioStepsLeft = AttemptsLeft + 2 * SlotsLeft + 1
  /\ a_stage = "newer" => AudioStepsLeft = AttemptsLeft + 2 * SlotsLeft + 2
  /\ a_stage = "own" => AudioStepsLeft = AttemptsLeft + 2 * NumSlots + 1
  /\ a_stage = "take" => AudioStepsLeft = AttemptsLeft + 2 * NumSlots + 2
  /\ a_stage = "scan_gen" => AudioStepsLeft = AttemptsLeft + 3 * NumSlots + 2 * SlotsLeft + 3
  /\ a_stage = "scan" => AudioStepsLeft = AttemptsLeft + 3 * NumSlots + 2 * SlotsLeft + 4

PublishLeft ==
  /\ p_stage = "idle" => PublishStepsLeft = 0
  /\ p_stage = "release" => PublishStepsLeft = 1
  /\ p_stage = "write" => PublishStepsLeft = 2
  /\ p_stage \in {"take_free", "take_ready"} => PublishStepsLeft = PublishAttemptsLeft + 3
  /\ p_stage = "ready" => PublishStepsLeft = PublishAttemptsLeft + PublishSlotsLeft + 4
  /\ p_stage = "free" => PublishStepsLeft = PublishAttemptsLeft + PublishSlotsLeft + NumSlots + 4

LEMMA StagesLeft == AudioLeft /\ PublishLeft
  <1>1. AudioLeft
    BY DEF AudioLeft, AudioStepsLeft
  <1>2. PublishLeft
    BY DEF PublishLeft, PublishStepsLeft
  <1> QED BY <1>1, <1>2

\* One attempt more is one share less, and no share is negative.
LEMMA Shares ==
  ASSUME NEW n \in Nat, NEW k \in Nat, NEW a \in 0 .. n
  PROVE  /\ (n - a) * k \in Nat
         /\ a < n => (n - (a + 1)) * k + k = (n - a) * k
  <1>1. PICK d \in Nat : d = n - a
    OBVIOUS
  <1>2. d * k \in Nat
    OBVIOUS
  <1>3. ASSUME a < n PROVE (n - (a + 1)) * k + k = (n - a) * k
    <2>1. n - (a + 1) = d - 1
      BY <1>1
    <2>2. (d - 1) * k + k = d * k
      OBVIOUS
    <2> QED BY <1>1, <2>1, <2>2
  <1> QED BY <1>1, <1>2, <1>3

LEMMA AttemptShares ==
  ASSUME TypeOK
  PROVE  /\ AttemptsLeft \in Nat /\ PublishAttemptsLeft \in Nat
         /\ a_attempt < NumSlots /\ a_attempt' = a_attempt + 1 =>
              AttemptsLeft' + AttemptSteps = AttemptsLeft /\ AttemptsLeft' \in Nat
         /\ p_attempt < NumSlots /\ p_attempt' = p_attempt + 1 =>
              /\ PublishAttemptsLeft' + PublishAttemptSteps = PublishAttemptsLeft
              /\ PublishAttemptsLeft' \in Nat
  <1>1. NumSlots \in Nat /\ a_attempt \in 0 .. NumSlots /\ p_attempt \in 0 .. NumSlots
    BY ExchangeAssumption DEF TypeOK, ClaimerOK, PublisherOK
  <1>2. PICK k \in Nat : k = AttemptSteps
    BY <1>1 DEF AttemptSteps
  <1>3. PICK q \in Nat : q = PublishAttemptSteps
    BY <1>1 DEF PublishAttemptSteps
  <1>4. AttemptsLeft \in Nat /\ PublishAttemptsLeft \in Nat
    BY <1>1, <1>2, <1>3, Shares DEF AttemptsLeft, PublishAttemptsLeft
  <1>5. ASSUME a_attempt < NumSlots, a_attempt' = a_attempt + 1
        PROVE  AttemptsLeft' + AttemptSteps = AttemptsLeft /\ AttemptsLeft' \in Nat
    <2>1. a_attempt + 1 \in 0 .. NumSlots
      BY <1>1, <1>5
    <2>2. AttemptsLeft' = (NumSlots - (a_attempt + 1)) * k
      BY <1>2, <1>5 DEF AttemptsLeft, AttemptSteps
    <2>3. AttemptsLeft = (NumSlots - a_attempt) * k
      BY <1>2 DEF AttemptsLeft
    <2> HIDE DEF AttemptsLeft
    <2> QED BY <1>1, <1>2, <1>5, <2>1, <2>2, <2>3, Shares
  <1>6. ASSUME p_attempt < NumSlots, p_attempt' = p_attempt + 1
        PROVE  /\ PublishAttemptsLeft' + PublishAttemptSteps = PublishAttemptsLeft
               /\ PublishAttemptsLeft' \in Nat
    <2>1. p_attempt + 1 \in 0 .. NumSlots
      BY <1>1, <1>6
    <2>2. PublishAttemptsLeft' = (NumSlots - (p_attempt + 1)) * q
      BY <1>3, <1>6 DEF PublishAttemptsLeft, PublishAttemptSteps
    <2>3. PublishAttemptsLeft = (NumSlots - p_attempt) * q
      BY <1>3 DEF PublishAttemptsLeft
    <2> QED BY <1>1, <1>3, <1>6, <2>1, <2>2, <2>3, Shares
  <1> QED BY <1>4, <1>5, <1>6

\* A step of one thread leaves the other's call where it is.
LEMMA OthersLeft ==
  /\ UNCHANGED pub => UNCHANGED PublishStepsLeft
  /\ UNCHANGED aud => UNCHANGED AudioStepsLeft
  <1>1. UNCHANGED pub => UNCHANGED PublishStepsLeft
    BY DEF pub, PublishStepsLeft, PublishAttemptsLeft, PublishAttemptSteps, PublishSlotsLeft
  <1>2. UNCHANGED aud => UNCHANGED AudioStepsLeft
    BY DEF aud, AudioStepsLeft, AttemptsLeft, AttemptSteps, SlotsLeft
  <1> QED BY <1>1, <1>2

AudioCloser   == AudioStepsLeft' \in Nat /\ AudioStepsLeft' < AudioStepsLeft
PublishCloser == PublishStepsLeft' \in Nat /\ PublishStepsLeft' < PublishStepsLeft

\* What a retry leaves is no more than the attempts that were left.
LEMMA RetryLeft ==
  ASSUME TypeOK, NextAttempt
  PROVE  AudioStepsLeft' \in Nat /\ AudioStepsLeft' <= AttemptsLeft
  <1>1. AudioLeft'
    BY StagesLeft, PTL
  <1>2. NumSlots \in Nat /\ AttemptsLeft \in Nat
    BY ExchangeAssumption, AttemptShares
  <1>3. CASE a_attempt < NumSlots
    <2>1. a_stage' = "scan" /\ a_index' = 1 /\ a_attempt' = a_attempt + 1
      BY <1>3 DEF NextAttempt, StartAttempt
    <2>2. AttemptsLeft' + AttemptSteps = AttemptsLeft /\ AttemptsLeft' \in Nat
      BY <1>3, <2>1, AttemptShares
    <2>3. SlotsLeft' = NumSlots - 1
      BY <2>1 DEF SlotsLeft
    <2>4. AudioStepsLeft' = AttemptsLeft' + 3 * NumSlots + 2 * SlotsLeft' + 4
      BY <1>1, <2>1 DEF AudioLeft
    <2>5. AttemptSteps = 5 * NumSlots + 2
      BY DEF AttemptSteps
    <2>6. PICK left \in Nat : left = AttemptsLeft'
      BY <2>2
    <2>7. AudioStepsLeft' = left + 5 * NumSlots + 2
      BY <1>2, <2>3, <2>4, <2>6
    <2>8. AttemptsLeft = left + (5 * NumSlots + 2)
      <3>1. AttemptsLeft = left + AttemptSteps
        BY <2>2, <2>6
      <3> QED BY <2>5, <3>1
    <2> QED BY <1>2, <2>7, <2>8
  <1>4. CASE ~(a_attempt < NumSlots)
    <2>1. AudioStepsLeft' = 0
      BY <1>1, <1>4 DEF NextAttempt, AudioReturns, AudioLeft
    <2> QED BY <1>2, <2>1
  <1> QED BY <1>3, <1>4
\* What each stage of the audio thread leaves, in numbers.
LEMMA AudioNumbers ==
  ASSUME TypeOK
  PROVE  /\ NumSlots \in Nat /\ NumSlots > 0 /\ AttemptsLeft \in Nat
         /\ a_index \in Slots => SlotsLeft \in Nat
         /\ a_index \in Slots /\ a_index' = a_index + 1 /\ a_index < NumSlots =>
              SlotsLeft' + 1 = SlotsLeft /\ SlotsLeft' \in Nat
         /\ UNCHANGED a_index => UNCHANGED SlotsLeft
         /\ UNCHANGED a_attempt => UNCHANGED AttemptsLeft
         /\ a_index' = 1 => SlotsLeft' + 1 = NumSlots /\ SlotsLeft' \in Nat
  BY ExchangeAssumption, AttemptShares DEF SlotsLeft, Slots, AttemptsLeft, AttemptSteps

LEMMA ScanOnLeft ==
  ASSUME TypeOK, a_index \in Slots, NEW i, NEW g, ScanOn(i, g), a_stage \in {"scan", "scan_gen"}
  PROVE  AudioCloser
  <1>1. AudioLeft /\ AudioLeft'
    BY StagesLeft, PTL
  <1>2. /\ NumSlots \in Nat /\ NumSlots > 0 /\ AttemptsLeft \in Nat /\ SlotsLeft \in Nat
        /\ UNCHANGED AttemptsLeft
    BY AudioNumbers DEF ScanOn
  <1>3. /\ AudioStepsLeft \in Nat
        /\ AudioStepsLeft >= AttemptsLeft + 3 * NumSlots + 2 * SlotsLeft + 3
    BY <1>1, <1>2 DEF AudioLeft
  <1>4. CASE a_index < NumSlots
    <2>1. a_stage' = "scan" /\ SlotsLeft' + 1 = SlotsLeft /\ SlotsLeft' \in Nat
      BY <1>4, AudioNumbers DEF ScanOn
    <2>2. AudioStepsLeft' = AttemptsLeft + 3 * NumSlots + 2 * SlotsLeft' + 4
      BY <1>1, <1>2, <2>1 DEF AudioLeft
    <2>3. PICK m \in Nat, k \in Nat : m = AudioStepsLeft /\ k = SlotsLeft'
      BY <1>3, <2>1
    <2>4. /\ AudioStepsLeft' = AttemptsLeft + 3 * NumSlots + 2 * k + 4
          /\ m >= AttemptsLeft + 3 * NumSlots + 2 * (k + 1) + 3
      BY <1>3, <2>1, <2>2, <2>3
    <2>5. AudioStepsLeft' \in Nat
      BY <1>2, <2>4
    <2>6. AudioStepsLeft' < m
      BY <1>2, <2>4
    <2> QED BY <2>3, <2>5, <2>6 DEF AudioCloser
  <1>5. CASE ~(a_index < NumSlots) /\ i = None
    <2>1. AudioStepsLeft' = 3 * SlotsLeft' + 3 /\ SlotsLeft' + 1 = NumSlots /\ SlotsLeft' \in Nat
      BY <1>1, <1>5, AudioNumbers DEF ScanOn, AudioLeft
    <2>2. PICK m \in Nat, k \in Nat : m = AudioStepsLeft /\ k = SlotsLeft'
      BY <1>3, <2>1
    <2>3. AudioStepsLeft' = 3 * k + 3 /\ m >= AttemptsLeft + 3 * (k + 1) + 2 * SlotsLeft + 3
      BY <1>3, <2>1, <2>2
    <2>5. AudioStepsLeft' \in Nat
      BY <1>2, <2>3
    <2>6. AudioStepsLeft' < m
      BY <1>2, <2>3
    <2> QED BY <2>2, <2>5, <2>6 DEF AudioCloser
  <1>6. CASE ~(a_index < NumSlots) /\ i # None
    <2>1. AudioStepsLeft' = AttemptsLeft + 2 * NumSlots + 2
      BY <1>1, <1>2, <1>6 DEF ScanOn, AudioLeft
    <2> QED BY <1>2, <1>3, <2>1 DEF AudioCloser
  <1> QED BY <1>4, <1>5, <1>6

LEMMA ReclaimOnLeft ==
  ASSUME TypeOK, a_index \in Slots, ReclaimOn,
         a_stage \in {"reclaim", "reclaim_take", "reclaim_release"}
  PROVE  AudioCloser
  <1>1. AudioLeft /\ AudioLeft'
    BY StagesLeft, PTL
  <1>2. SlotsLeft \in Nat
    BY AudioNumbers
  <1>3. AudioStepsLeft \in Nat /\ AudioStepsLeft >= 3 * SlotsLeft + 1
    BY <1>1, <1>2 DEF AudioLeft
  <1>4. CASE a_index < NumSlots
    <2>1. a_stage' = "reclaim" /\ SlotsLeft' + 1 = SlotsLeft /\ SlotsLeft' \in Nat
      BY <1>4, AudioNumbers DEF ReclaimOn
    <2>2. AudioStepsLeft' = 3 * SlotsLeft' + 3
      BY <1>1, <2>1 DEF AudioLeft
    <2>3. PICK m \in Nat, k \in Nat : m = AudioStepsLeft /\ k = SlotsLeft'
      BY <1>3, <2>1
    <2>4. AudioStepsLeft' = 3 * k + 3 /\ m >= 3 * (k + 1) + 1
      BY <1>3, <2>1, <2>2, <2>3
    <2>5. AudioStepsLeft' \in Nat
      BY <1>2, <2>4
    <2>6. AudioStepsLeft' < m
      BY <1>2, <2>4
    <2> QED BY <2>3, <2>5, <2>6 DEF AudioCloser
  <1>5. CASE ~(a_index < NumSlots)
    <2>1. AudioStepsLeft' = 0
      BY <1>1, <1>5 DEF ReclaimOn, AudioReturns, AudioLeft
    <2> QED BY <1>2, <1>3, <2>1 DEF AudioCloser
  <1> QED BY <1>4, <1>5

LEMMA NewerOnLeft ==
  ASSUME TypeOK, a_index \in Slots, NewerOn, a_stage \in {"newer", "newer_gen"}
  PROVE  AudioCloser
  <1>1. AudioLeft /\ AudioLeft'
    BY StagesLeft, PTL
  <1>2. SlotsLeft \in Nat /\ AttemptsLeft \in Nat
    BY AudioNumbers
  <1>3. AudioStepsLeft \in Nat /\ AudioStepsLeft >= AttemptsLeft + 2 * SlotsLeft + 1
    BY <1>1, <1>2 DEF AudioLeft
  <1>4. CASE a_index < NumSlots
    <2>1. /\ a_stage' = "newer" /\ SlotsLeft' + 1 = SlotsLeft /\ SlotsLeft' \in Nat
          /\ UNCHANGED AttemptsLeft
      BY <1>4, AudioNumbers DEF NewerOn
    <2>2. AudioStepsLeft' = AttemptsLeft + 2 * SlotsLeft' + 2
      BY <1>1, <2>1 DEF AudioLeft
    <2>3. PICK m \in Nat, k \in Nat : m = AudioStepsLeft /\ k = SlotsLeft'
      BY <1>3, <2>1
    <2>4. AudioStepsLeft' = AttemptsLeft + 2 * k + 2 /\ m >= AttemptsLeft + 2 * (k + 1) + 1
      BY <1>3, <2>1, <2>2, <2>3
    <2>5. AudioStepsLeft' \in Nat
      BY <1>2, <2>4
    <2>6. AudioStepsLeft' < m
      BY <1>2, <2>4
    <2> QED BY <2>3, <2>5, <2>6 DEF AudioCloser
  <1>5. CASE ~(a_index < NumSlots)
    <2>1. AudioStepsLeft' = 0
      BY <1>1, <1>5 DEF NewerOn, AudioReturns, AudioLeft
    <2> QED BY <1>2, <1>3, <2>1 DEF AudioCloser
  <1> QED BY <1>4, <1>5

\* Where the next attempt starts, the one that was lost had at least a step left.
LEMMA NextAttemptLeft ==
  ASSUME TypeOK, NextAttempt, a_stage \in {"take", "own", "newer_gen"},
         a_stage = "newer_gen" => a_index \in Slots
  PROVE  AudioCloser
  <1>1. AudioLeft
    BY StagesLeft
  <1>2. NumSlots \in Nat /\ AttemptsLeft \in Nat /\ (a_index \in Slots => SlotsLeft \in Nat)
    BY AudioNumbers
  <1>3. AudioStepsLeft \in Nat /\ AudioStepsLeft > AttemptsLeft
    BY <1>1, <1>2 DEF AudioLeft
  <1>4. AudioStepsLeft' \in Nat /\ AudioStepsLeft' <= AttemptsLeft
    BY RetryLeft
  <1> QED BY <1>2, <1>3, <1>4 DEF AudioCloser

\* A compare-exchange or a load that goes on in the same attempt.
LEMMA StageOnLeft ==
  ASSUME TypeOK, UNCHANGED <<a_index, a_attempt>>,
         \/ a_stage = "take" /\ a_stage' = "own"
         \/ /\ a_index \in Slots
            /\ \/ a_stage = "scan" /\ a_stage' = "scan_gen"
               \/ a_stage = "newer" /\ a_stage' = "newer_gen"
               \/ a_stage = "reclaim" /\ a_stage' = "reclaim_take"
               \/ a_stage = "reclaim_take" /\ a_stage' = "reclaim_release"
  PROVE  AudioCloser
  <1>1. AudioLeft /\ AudioLeft'
    BY StagesLeft, PTL
  <1>2. /\ NumSlots \in Nat /\ AttemptsLeft \in Nat /\ (a_index \in Slots => SlotsLeft \in Nat)
        /\ UNCHANGED <<AttemptsLeft, SlotsLeft>>
    BY AudioNumbers
  <1> QED BY <1>1, <1>2 DEF AudioLeft, AudioCloser
\* Every step of the audio thread's calls brings their end nearer.
LEMMA ClaimerCloser == ExchangeInv /\ Claimer => AudioCloser /\ UNCHANGED PublishStepsLeft
  <1> SUFFICES ASSUME ExchangeInv, Claimer PROVE AudioCloser /\ UNCHANGED PublishStepsLeft
    OBVIOUS
  <1>t. TypeOK /\ AudControl
    BY DEF ExchangeInv
  <1>p. UNCHANGED PublishStepsLeft
    <2>1. UNCHANGED pub
      BY DEF Claimer, ScanState, ScanGeneration, TakeReady, OwnGeneration, NewerState,
             NewerGeneration, ReclaimState, ReclaimTake, ReclaimRelease, Activate
    <2> QED BY <2>1, OthersLeft
  <1> SUFFICES AudioCloser
    BY <1>p
  <1>1. CASE ScanState
    <2>1. a_stage = "scan" /\ a_index \in Slots
      BY <1>t, <1>1 DEF ScanState, AudControl
    <2>2. CASE state[a_index] = "ready"
      BY <1>t, <1>1, <2>1, <2>2, StageOnLeft DEF ScanState
    <2>3. CASE state[a_index] # "ready"
      BY <1>t, <1>1, <2>1, <2>3, ScanOnLeft DEF ScanState
    <2> QED BY <2>2, <2>3
  <1>2. CASE ScanGeneration
    <2>1. a_stage = "scan_gen" /\ a_index \in Slots
      BY <1>t, <1>2 DEF ScanGeneration, AudControl
    <2> QED BY <1>t, <1>2, <2>1, ScanOnLeft DEF ScanGeneration
  <1>3. CASE TakeReady
    <2>1. CASE state[a_selected] = "ready"
      BY <1>t, <1>3, <2>1, StageOnLeft DEF TakeReady
    <2>2. CASE state[a_selected] # "ready"
      BY <1>t, <1>3, <2>2, NextAttemptLeft DEF TakeReady
    <2> QED BY <2>1, <2>2
  <1>4. CASE OwnGeneration
    <2>1. CASE Owned > active_gen
      <3>1. a_stage = "own" /\ a_stage' = "newer" /\ a_index' = 1 /\ UNCHANGED a_attempt
        BY <1>4, <2>1 DEF OwnGeneration
      <3>2. AudioLeft /\ AudioLeft'
        BY StagesLeft, PTL
      <3>3. /\ NumSlots \in Nat /\ AttemptsLeft \in Nat /\ UNCHANGED AttemptsLeft
            /\ SlotsLeft' + 1 = NumSlots /\ SlotsLeft' \in Nat
        BY <1>t, <3>1, AudioNumbers
      <3>4. AudioStepsLeft = AttemptsLeft + 2 * NumSlots + 1
        BY <3>1, <3>2 DEF AudioLeft
      <3>5. AudioStepsLeft' = AttemptsLeft + 2 * SlotsLeft' + 2
        BY <3>1, <3>2, <3>3 DEF AudioLeft
      <3>6. PICK k \in Nat, n \in Nat : k = SlotsLeft' /\ n = AudioStepsLeft
        BY <3>3, <3>4
      <3>7. n = AttemptsLeft + 2 * (k + 1) + 1 /\ AudioStepsLeft' = AttemptsLeft + 2 * k + 2
        BY <3>3, <3>4, <3>5, <3>6
      <3>8. AudioStepsLeft' \in Nat
        BY <3>3, <3>7
      <3>9. AudioStepsLeft' < n
        BY <3>3, <3>7
      <3> QED BY <3>6, <3>8, <3>9 DEF AudioCloser
    <2>2. CASE ~(Owned > active_gen)
      BY <1>t, <1>4, <2>2, NextAttemptLeft DEF OwnGeneration
    <2> QED BY <2>1, <2>2
  <1>5. CASE NewerState
    <2>1. a_stage = "newer" /\ a_index \in Slots
      BY <1>t, <1>5 DEF NewerState, AudControl
    <2>2. CASE state[a_index] = "ready"
      BY <1>t, <1>5, <2>1, <2>2, StageOnLeft DEF NewerState
    <2>3. CASE state[a_index] # "ready"
      BY <1>t, <1>5, <2>1, <2>3, NewerOnLeft DEF NewerState
    <2> QED BY <2>2, <2>3
  <1>6. CASE NewerGeneration
    <2>1. a_stage = "newer_gen" /\ a_index \in Slots
      BY <1>t, <1>6 DEF NewerGeneration, AudControl
    <2>2. CASE generation[a_index] > a_newest
      BY <1>t, <1>6, <2>1, <2>2, NextAttemptLeft DEF NewerGeneration
    <2>3. CASE ~(generation[a_index] > a_newest)
      BY <1>t, <1>6, <2>1, <2>3, NewerOnLeft DEF NewerGeneration
    <2> QED BY <2>2, <2>3
  <1>7. CASE ReclaimState
    <2>1. a_stage = "reclaim" /\ a_index \in Slots
      BY <1>t, <1>7 DEF ReclaimState, AudControl
    <2>2. CASE state[a_index] = "ready"
      BY <1>t, <1>7, <2>1, <2>2, StageOnLeft DEF ReclaimState
    <2>3. CASE state[a_index] # "ready"
      BY <1>t, <1>7, <2>1, <2>3, ReclaimOnLeft DEF ReclaimState
    <2> QED BY <2>2, <2>3
  <1>8. CASE ReclaimTake
    <2>1. a_stage = "reclaim_take" /\ a_index \in Slots
      BY <1>t, <1>8 DEF ReclaimTake, AudControl
    <2>2. CASE state[a_index] = "ready"
      BY <1>t, <1>8, <2>1, <2>2, StageOnLeft DEF ReclaimTake
    <2>3. CASE state[a_index] # "ready"
      BY <1>t, <1>8, <2>1, <2>3, ReclaimOnLeft DEF ReclaimTake
    <2> QED BY <2>2, <2>3
  <1>9. CASE ReclaimRelease
    <2>1. a_stage = "reclaim_release" /\ a_index \in Slots
      BY <1>t, <1>9 DEF ReclaimRelease, AudControl
    <2> QED BY <1>t, <1>9, <2>1, ReclaimOnLeft DEF ReclaimRelease
  <1>10. CASE Activate
    <2>1. a_stage = "activate" /\ a_stage' = "reclaim" /\ a_index' = 1
      BY <1>10 DEF Activate
    <2>2. AudioLeft /\ AudioLeft'
      BY StagesLeft, PTL
    <2>3. PICK k \in Nat : k = SlotsLeft' /\ NumSlots = k + 1
      BY <1>t, <2>1, AudioNumbers
    <2>4. AudioStepsLeft = 3 * (k + 1) + 1 /\ AudioStepsLeft' = 3 * k + 3
      BY <2>1, <2>2, <2>3 DEF AudioLeft
    <2> QED BY <2>4 DEF AudioCloser
  <1> QED
    BY <1>1, <1>2, <1>3, <1>4, <1>5, <1>6, <1>7, <1>8, <1>9, <1>10 DEF Claimer

LEMMA PublishNumbers ==
  ASSUME TypeOK
  PROVE  /\ NumSlots \in Nat /\ NumSlots > 0 /\ PublishAttemptsLeft \in Nat
         /\ p_index \in Slots => PublishSlotsLeft \in Nat
         /\ p_index \in Slots /\ p_index' = p_index + 1 /\ p_index < NumSlots =>
              PublishSlotsLeft' + 1 = PublishSlotsLeft /\ PublishSlotsLeft' \in Nat
         /\ UNCHANGED p_attempt => UNCHANGED PublishAttemptsLeft
         /\ p_index' = 1 => PublishSlotsLeft' + 1 = NumSlots /\ PublishSlotsLeft' \in Nat
  BY ExchangeAssumption, AttemptShares
     DEF PublishSlotsLeft, Slots, PublishAttemptsLeft, PublishAttemptSteps

\* Every step of publish brings its end nearer.
LEMMA PublisherCloser == ExchangeInv /\ Publisher => PublishCloser /\ UNCHANGED AudioStepsLeft
  <1> SUFFICES ASSUME ExchangeInv, Publisher PROVE PublishCloser /\ UNCHANGED AudioStepsLeft
    OBVIOUS
  <1>t. TypeOK /\ PubControl
    BY DEF ExchangeInv
  <1>a. UNCHANGED AudioStepsLeft
    <2>1. UNCHANGED aud
      BY DEF Publisher, ScanFree, ScanReady, TakeSlot, LoseSlot, WriteSlot, ReleaseSlot
    <2> QED BY <2>1, OthersLeft
  <1> SUFFICES PublishCloser
    BY <1>a
  <1>l. PublishLeft /\ PublishLeft'
    BY StagesLeft, PTL
  <1>n. PICK n \in Nat, a \in Nat : NumSlots = n + 1 /\ a = PublishAttemptsLeft
    BY <1>t, PublishNumbers
  <1>r. p_stage' = "idle" => PublishStepsLeft' = 0
    BY <1>l DEF PublishLeft
  <1>1. CASE ScanFree
    <2>1. p_stage = "free" /\ p_index \in Slots /\ UNCHANGED p_attempt
      BY <1>t, <1>1 DEF ScanFree, PubControl
    <2>2. PICK k \in Nat : k = PublishSlotsLeft
      BY <1>t, <2>1, PublishNumbers
    <2>3. PublishStepsLeft = a + k + n + 5
      BY <1>l, <1>n, <2>1, <2>2 DEF PublishLeft
    <2>4. PublishAttemptsLeft' = a
      BY <1>t, <1>n, <2>1, PublishNumbers
    <2>5. CASE p_stage' = "take_free"
      <3>1. PublishStepsLeft' = a + 3
        BY <1>l, <2>4, <2>5 DEF PublishLeft
      <3> QED BY <2>3, <3>1 DEF PublishCloser
    <2>6. CASE p_stage' = "free" /\ p_index' = p_index + 1 /\ p_index < NumSlots
      <3>1. PICK d \in Nat : d = PublishSlotsLeft' /\ d + 1 = k
        BY <1>t, <2>1, <2>2, <2>6, PublishNumbers
      <3>2. PublishStepsLeft' = a + d + n + 5
        BY <1>l, <1>n, <2>4, <2>6, <3>1 DEF PublishLeft
      <3>3. PublishStepsLeft = a + (d + 1) + n + 5
        BY <2>3, <3>1
      <3> QED BY <3>2, <3>3 DEF PublishCloser
    <2>7. CASE p_stage' = "ready" /\ p_index' = 1
      <3>1. PublishSlotsLeft' = n
        BY <1>t, <1>n, <2>7, PublishNumbers
      <3>2. PublishStepsLeft' = a + n + 4
        BY <1>l, <2>4, <2>7, <3>1 DEF PublishLeft
      <3> QED BY <2>3, <3>2 DEF PublishCloser
    <2> QED BY <1>1, <2>1, <2>5, <2>6, <2>7 DEF ScanFree
  <1>2. CASE ScanReady
    <2>1. p_stage = "ready" /\ p_index \in Slots
      BY <1>t, <1>2 DEF ScanReady, PubControl
    <2>2. PICK k \in Nat : k = PublishSlotsLeft
      BY <1>t, <2>1, PublishNumbers
    <2>3. PublishStepsLeft = a + k + 4
      BY <1>l, <1>n, <2>1, <2>2 DEF PublishLeft
    <2>4. CASE p_index < NumSlots
      <3>1. p_stage' = "ready" /\ p_index' = p_index + 1 /\ UNCHANGED p_attempt
        BY <1>2, <1>n, <2>1, <2>4 DEF ScanReady
      <3>2. PICK d \in Nat : d = PublishSlotsLeft' /\ d + 1 = k
        BY <1>t, <2>1, <2>2, <2>4, <3>1, PublishNumbers
      <3>3. PublishAttemptsLeft' = a
        BY <1>t, <1>n, <3>1, PublishNumbers
      <3>4. PublishStepsLeft' = a + d + 4
        BY <1>l, <3>1, <3>2, <3>3 DEF PublishLeft
      <3>5. PublishStepsLeft = a + (d + 1) + 4
        BY <2>3, <3>2
      <3> QED BY <3>4, <3>5 DEF PublishCloser
    <2>5. CASE p_stage' = "take_ready" /\ UNCHANGED p_attempt
      <3>1. PublishAttemptsLeft' = a
        BY <1>t, <1>n, <2>5, PublishNumbers
      <3>2. PublishStepsLeft' = a + 3
        BY <1>l, <2>5, <3>1 DEF PublishLeft
      <3> QED BY <2>3, <3>2 DEF PublishCloser
    <2>6. CASE p_stage' = "idle"
      BY <1>r, <2>3, <2>6 DEF PublishCloser
    <2> QED BY <1>2, <2>4, <2>5, <2>6 DEF ScanReady, PublishReturns
  <1>3. CASE TakeSlot
    <2>1. PublishStepsLeft = a + 3 /\ PublishStepsLeft' = 2
      BY <1>l, <1>n, <1>3 DEF TakeSlot, PublishLeft
    <2> QED BY <2>1 DEF PublishCloser
  <1>4. CASE LoseSlot
    <2>1. PublishStepsLeft = a + 3
      BY <1>l, <1>n, <1>4 DEF LoseSlot, PublishLeft
    <2>2. CASE p_attempt < NumSlots
      <3>1. p_stage' = "free" /\ p_index' = 1 /\ p_attempt' = p_attempt + 1
        BY <1>4, <2>2 DEF LoseSlot
      <3>2. /\ PublishAttemptsLeft' + PublishAttemptSteps = PublishAttemptsLeft
            /\ PublishAttemptsLeft' \in Nat
        BY <1>t, <2>2, <3>1, AttemptShares
      <3>3. PICK d \in Nat : d = PublishAttemptsLeft'
        BY <3>2
      <3>4. PublishAttemptSteps = 2 * n + 5
        BY <1>n DEF PublishAttemptSteps
      <3>5. a = d + (2 * n + 5)
        <4>1. a = d + PublishAttemptSteps
          BY <1>n, <3>2, <3>3
        <4> QED BY <3>4, <4>1
      <3>6. PublishSlotsLeft' = n
        BY <1>t, <1>n, <3>1, PublishNumbers
      <3>7. PublishStepsLeft' = d + n + n + 5
        BY <1>l, <1>n, <3>1, <3>3, <3>6 DEF PublishLeft
      <3> QED BY <2>1, <3>5, <3>7 DEF PublishCloser
    <2>3. CASE ~(p_attempt < NumSlots)
      <3>1. p_stage' = "idle"
        BY <1>4, <2>3 DEF LoseSlot, PublishReturns
      <3> QED BY <1>r, <2>1, <3>1 DEF PublishCloser
    <2> QED BY <2>2, <2>3
  <1>5. CASE WriteSlot
    <2>1. PublishStepsLeft = 2 /\ PublishStepsLeft' = 1
      BY <1>l, <1>5 DEF WriteSlot, PublishLeft
    <2> QED BY <2>1 DEF PublishCloser
  <1>6. CASE ReleaseSlot
    <2>1. PublishStepsLeft = 1 /\ p_stage' = "idle"
      BY <1>l, <1>6 DEF ReleaseSlot, PublishReturns, PublishLeft
    <2> QED BY <1>r, <2>1 DEF PublishCloser
  <1> QED BY <1>1, <1>2, <1>3, <1>4, <1>5, <1>6 DEF Publisher

-----------------------------------------------------------------------------
\* "These never wait" (prepared_config_exchange.hpp:111): whatever the other thread does
\* between two of its steps, a call of either thread has fewer steps left after each one.
THEOREM ExchangeNeverWaits == Spec => CallsNeverWait
  <1>1. ExchangeInv /\ [Next]_vars =>
          [/\ Claimer => /\ AudioStepsLeft' >= 0 /\ AudioStepsLeft' < AudioStepsLeft
                         /\ UNCHANGED PublishStepsLeft
           /\ Publisher => /\ PublishStepsLeft' >= 0 /\ PublishStepsLeft' < PublishStepsLeft
                           /\ UNCHANGED AudioStepsLeft]_vars
    BY ClaimerCloser, PublisherCloser DEF AudioCloser, PublishCloser
  <1> QED BY <1>1, ExchangeInvHolds, PTL DEF Spec, CallsNeverWait
AudioBound   == NumSlots * AttemptSteps
PublishBound == NumSlots * PublishAttemptSteps

\* A first attempt has the whole bound before it.
LEMMA FirstAttempt ==
  /\ AudioBound \in Nat /\ PublishBound \in Nat
  /\ AttemptSteps = 5 * NumSlots + 2 /\ AttemptSteps <= AudioBound
  /\ a_attempt = 1 => AttemptsLeft + AttemptSteps = AudioBound /\ AttemptsLeft \in Nat
  /\ p_attempt = 1 => /\ PublishAttemptsLeft + PublishAttemptSteps = PublishBound
                      /\ PublishAttemptsLeft \in Nat
  <1>1. NumSlots \in Nat /\ 0 \in 0 .. NumSlots /\ 0 < NumSlots /\ 1 \in 0 .. NumSlots
    BY ExchangeAssumption
  <1>2. PICK k \in Nat : k = AttemptSteps
    BY <1>1 DEF AttemptSteps
  <1>3. PICK q \in Nat : q = PublishAttemptSteps
    BY <1>1 DEF PublishAttemptSteps
  <1>4. ASSUME NEW j \in Nat
        PROVE  /\ NumSlots * j \in Nat /\ (NumSlots - 1) * j \in Nat
               /\ (NumSlots - 1) * j + j = NumSlots * j
    <2>1. (NumSlots - 0) * j \in Nat /\ (NumSlots - 1) * j \in Nat
      BY <1>1, Shares
    <2>2. (NumSlots - (0 + 1)) * j + j = (NumSlots - 0) * j
      BY <1>1, Shares
    <2>3. NumSlots - 0 = NumSlots /\ NumSlots - (0 + 1) = NumSlots - 1
      BY <1>1
    <2> QED BY <2>1, <2>2, <2>3
  <1>5. AudioBound = NumSlots * k /\ PublishBound = NumSlots * q
    BY <1>2, <1>3 DEF AudioBound, PublishBound
  <1>6. a_attempt = 1 => AttemptsLeft = (NumSlots - 1) * k
    BY <1>2 DEF AttemptsLeft
  <1>7. p_attempt = 1 => PublishAttemptsLeft = (NumSlots - 1) * q
    BY <1>3 DEF PublishAttemptsLeft
  <1>8. AttemptSteps <= AudioBound
    <2>1. PICK d \in Nat : d = (NumSlots - 1) * k
      BY <1>4
    <2>2. AudioBound = d + k
      BY <1>4, <1>5, <2>1
    <2> QED BY <1>2, <2>2
  <1>9. AudioBound \in Nat /\ PublishBound \in Nat
    BY <1>4, <1>5
  <1>10. AttemptSteps = 5 * NumSlots + 2
    BY DEF AttemptSteps
  <1>11. a_attempt = 1 => AttemptsLeft + AttemptSteps = AudioBound /\ AttemptsLeft \in Nat
    BY <1>2, <1>4, <1>5, <1>6
  <1>12. p_attempt = 1 => /\ PublishAttemptsLeft + PublishAttemptSteps = PublishBound
                          /\ PublishAttemptsLeft \in Nat
    BY <1>3, <1>4, <1>5, <1>7
  <1> QED BY <1>8, <1>9, <1>10, <1>11, <1>12

WithinBounds == AudioStepsLeft \in 0 .. AudioBound /\ PublishStepsLeft \in 0 .. PublishBound

LEMMA BoundsStep == ExchangeInv /\ WithinBounds /\ [Next]_vars => WithinBounds'
  <1> SUFFICES ASSUME ExchangeInv, WithinBounds, [Next]_vars PROVE WithinBounds'
    OBVIOUS
  <1>t. TypeOK
    BY DEF ExchangeInv
  <1>l. AudioLeft' /\ PublishLeft'
    BY StagesLeft, PTL
  <1>f. /\ AudioBound \in Nat /\ PublishBound \in Nat
        /\ AttemptSteps = 5 * NumSlots + 2 /\ AttemptSteps <= AudioBound
    BY FirstAttempt
  <1>i. NumSlots \in Nat /\ NumSlots > 0
    BY ExchangeAssumption
  <1>w. /\ UNCHANGED AudioStepsLeft => AudioStepsLeft' \in 0 .. AudioBound
        /\ UNCHANGED PublishStepsLeft => PublishStepsLeft' \in 0 .. PublishBound
    BY DEF WithinBounds
  <1>b. ASSUME AudioStepsLeft' \in 0 .. AudioBound, PublishStepsLeft' \in 0 .. PublishBound
        PROVE  WithinBounds'
    BY <1>b DEF WithinBounds, AudioBound, AttemptSteps, PublishBound, PublishAttemptSteps
  <1>1. CASE Claimer
    <2>1. AudioCloser /\ UNCHANGED PublishStepsLeft
      BY <1>1, ClaimerCloser
    <2>2. AudioStepsLeft' \in 0 .. AudioBound
      BY <1>f, <2>1 DEF AudioCloser, WithinBounds
    <2> QED BY <1>w, <1>b, <2>1, <2>2
  <1>2. CASE Publisher
    <2>1. PublishCloser /\ UNCHANGED AudioStepsLeft
      BY <1>2, PublisherCloser
    <2>2. PublishStepsLeft' \in 0 .. PublishBound
      BY <1>f, <2>1 DEF PublishCloser, WithinBounds
    <2> QED BY <1>w, <1>b, <2>1, <2>2
  <1>3. CASE ClaimCall
    <2>1. a_stage' = "scan" /\ a_index' = 1 /\ a_attempt' = 1 /\ UNCHANGED pub
      BY <1>3 DEF ClaimCall, StartAttempt
    <2>2. AttemptsLeft' + AttemptSteps = AudioBound /\ AttemptsLeft' \in Nat
      <3>1. (a_attempt = 1 =>
               AttemptsLeft + AttemptSteps = AudioBound /\ AttemptsLeft \in Nat)'
        BY FirstAttempt, PTL
      <3> QED BY <2>1, <3>1 DEF AudioBound, AttemptSteps
    <2>3. PICK d \in Nat : d = AttemptsLeft'
      BY <2>2
    <2>4. AudioBound = d + (5 * NumSlots + 2)
      <3>1. AudioBound = d + AttemptSteps
        BY <2>2, <2>3
      <3> QED BY <1>f, <3>1
    <2>5. SlotsLeft' + 1 = NumSlots /\ SlotsLeft' \in Nat
      BY <1>t, <2>1, AudioNumbers
    <2>6. AudioStepsLeft' = d + 3 * NumSlots + 2 * SlotsLeft' + 4
      BY <1>l, <2>1, <2>3 DEF AudioLeft
    <2>7. PICK s \in Nat : s = SlotsLeft' /\ NumSlots = s + 1
      BY <1>i, <2>5
    <2>8. AudioStepsLeft' = d + 3 * (s + 1) + 2 * s + 4 /\ AudioBound = d + (5 * (s + 1) + 2)
      BY <2>4, <2>6, <2>7
    <2>9. AudioStepsLeft' = AudioBound
      BY <2>8
    <2> QED BY <1>f, <1>w, <1>b, <2>1, <2>9, OthersLeft
  <1>4. CASE CommitCall
    <2>1. a_stage' = "activate" /\ UNCHANGED pub
      BY <1>4 DEF CommitCall
    <2>2. AudioStepsLeft' = 3 * NumSlots + 1
      BY <1>l, <2>1 DEF AudioLeft
    <2>3. AudioStepsLeft' \in Nat /\ AudioStepsLeft' <= 5 * NumSlots + 2
      BY <1>i, <2>2
    <2>4. AudioStepsLeft' \in 0 .. AudioBound
      BY <1>f, <2>3
    <2> QED BY <1>w, <1>b, <2>1, <2>4, OthersLeft
  <1>5. ASSUME NEW g \in Generations, PublishCall(g) PROVE WithinBounds'
    <2>1. p_stage' = "free" /\ p_index' = 1 /\ p_attempt' = 1 /\ UNCHANGED aud
      BY <1>5 DEF PublishCall
    <2>2. PublishAttemptsLeft' + PublishAttemptSteps = PublishBound /\ PublishAttemptsLeft' \in Nat
      <3>1. (p_attempt = 1 => /\ PublishAttemptsLeft + PublishAttemptSteps = PublishBound
                              /\ PublishAttemptsLeft \in Nat)'
        BY FirstAttempt, PTL
      <3> QED BY <2>1, <3>1 DEF PublishBound, PublishAttemptSteps
    <2>3. PICK d \in Nat : d = PublishAttemptsLeft'
      BY <2>2
    <2>4. PublishBound = d + (2 * NumSlots + 3)
      <3>1. PublishBound = d + PublishAttemptSteps
        BY <2>2, <2>3
      <3> QED BY <3>1 DEF PublishAttemptSteps
    <2>5. PICK s \in Nat : s = PublishSlotsLeft' /\ NumSlots = s + 1
      BY <1>t, <1>i, <2>1, PublishNumbers
    <2>6. PublishStepsLeft' = d + s + NumSlots + 4
      BY <1>l, <2>1, <2>3, <2>5 DEF PublishLeft
    <2>7. PublishStepsLeft' = d + s + (s + 1) + 4 /\ PublishBound = d + (2 * (s + 1) + 3)
      BY <2>4, <2>5, <2>6
    <2>8. PublishStepsLeft' = PublishBound
      BY <2>7
    <2> QED BY <1>f, <1>w, <1>b, <2>1, <2>8, OthersLeft
  <1>6. ASSUME UNCHANGED <<aud, pub>> PROVE WithinBounds'
    BY <1>6, <1>w, <1>b, OthersLeft
  <1>7. ASSUME NEW g \in Generations, Initialize(g) PROVE WithinBounds'
    BY <1>6, <1>7 DEF Initialize
  <1>8. CASE Cancel \/ Reset \/ UNCHANGED vars
    BY <1>6, <1>8 DEF Cancel, Reset, vars
  <1> QED
    BY <1>1, <1>2, <1>3, <1>4, <1>5, <1>7, <1>8 DEF Next

\* A claim, a commit or a publish ends within a number of its own steps that depends on
\* the number of slots alone: the retries are counted, and each scan is one pass.
THEOREM CallsAreBounded ==
  Spec => [](/\ AudioStepsLeft \in 0 .. NumSlots * AttemptSteps
             /\ PublishStepsLeft \in 0 .. NumSlots * PublishAttemptSteps)
  <1>1. Init => WithinBounds
    <2> SUFFICES ASSUME Init PROVE WithinBounds
      OBVIOUS
    <2>1. AudioStepsLeft = 0 /\ PublishStepsLeft = 0
      BY StagesLeft DEF AudioLeft, PublishLeft, Init
    <2> QED BY <2>1, FirstAttempt DEF WithinBounds
  <1>2. ExchangeInv /\ WithinBounds /\ [Next]_vars => WithinBounds'
    BY BoundsStep
  <1>3. WithinBounds => /\ AudioStepsLeft \in 0 .. NumSlots * AttemptSteps
                        /\ PublishStepsLeft \in 0 .. NumSlots * PublishAttemptSteps
    BY DEF WithinBounds, AudioBound, PublishBound
  <1> QED BY <1>1, <1>2, <1>3, ExchangeInvHolds, PTL DEF Spec
=============================================================================
