---------------------------- MODULE ConfigExchange ----------------------------
(***************************************************************************)
(* PreparedConfigExchange (native/plugin/prepared_config_exchange.cpp):    *)
(* the main thread publishes prepared configurations, the audio thread     *)
(* claims the latest and commits or cancels the claim.  Three slots are    *)
(* shared; no thread ever waits.  One step is one access to a slot's       *)
(* atomic state or generation; loads see the last store, which the         *)
(* compare-exchanges do on any build.                                      *)
(*                                                                         *)
(* The callers (M3Component, the CLAP adapter) publish from one thread,    *)
(* claim from one thread and hold one claim at a time; they initialise on  *)
(* activation and reset on deactivation, while neither call runs and with  *)
(* no claim left.  A configuration is known by the generation it was       *)
(* published with.  Generations are 64-bit and compared within half their  *)
(* range, which no session leaves: here they are plain numbers up to       *)
(* MaxGeneration.                                                          *)
(***************************************************************************)
EXTENDS Integers

CONSTANTS
  NumSlots,       \* kSlotCount (3)
  MaxGeneration   \* bound: generations in use

ASSUME ExchangeAssumption ==
  /\ NumSlots \in Nat \ {0}
  /\ MaxGeneration \in Nat

VARIABLES
  state,          \* slots_[i].state
  generation,     \* slots_[i].generation
  prepared,       \* slots_[i].prepared: a generation, or Torn
  active_index,   \* active_index_
  active_gen,     \* active_generation_
  publisher_gen,  \* publisher_generation_
  initialized,    \* initialized_
  p_stage,        \* publish: where the call is
  p_gen,          \* publish: its argument
  p_index,        \* publish: loop index
  p_selected,     \* publish: selected slot
  p_attempt,      \* publish: attempt
  a_stage,        \* claim_latest, commit: where the call is
  a_index,        \* claim_latest, reclaim_stale_ready: loop index
  a_selected,     \* claim_latest: selected slot
  a_newest,       \* claim_latest: newest generation of the scan, then the claimed one
  a_attempt,      \* claim_latest: attempt
  c_index,        \* the caller's Claim: index, None when invalid
  c_gen           \* the caller's Claim: generation

slots == <<state, generation, prepared>>
audio == <<active_index, active_gen>>
pub   == <<p_stage, p_gen, p_index, p_selected, p_attempt>>
aud   == <<a_stage, a_index, a_selected, a_newest, a_attempt>>
claim == <<c_index, c_gen>>
vars  == <<slots, audio, publisher_gen, initialized, pub, aud, claim>>

-----------------------------------------------------------------------------
Slots       == 1 .. NumSlots
None        == 0
Generations == 0 .. MaxGeneration
Torn        == MaxGeneration + 1      \* a configuration being copied

SlotStates == {"free", "writing", "ready", "audio_claimed", "active"}

SetState(i, s) == state' = [state EXCEPT ![i] = s]

-----------------------------------------------------------------------------
(* publish, on the main thread *)

PublishReturns ==
  /\ p_stage' = "idle" /\ p_gen' = 0 /\ p_index' = None
  /\ p_selected' = None /\ p_attempt' = 0

\* A publish that is not refused at once.
PublishCall(g) ==
  /\ p_stage = "idle"
  /\ initialized /\ g > publisher_gen
  /\ p_stage' = "free" /\ p_gen' = g /\ p_index' = 1 /\ p_attempt' = 1
  /\ UNCHANGED <<slots, audio, publisher_gen, initialized, p_selected, aud, claim>>

\* The first scan looks for a free slot.
ScanFree ==
  /\ p_stage = "free"
  /\ \/ /\ state[p_index] = "free"
        /\ p_selected' = p_index /\ p_stage' = "take_free"
        /\ UNCHANGED p_index
     \/ /\ state[p_index] # "free" /\ p_index < NumSlots
        /\ p_index' = p_index + 1
        /\ UNCHANGED <<p_selected, p_stage>>
     \/ /\ state[p_index] # "free" /\ p_index = NumSlots
        /\ p_index' = 1 /\ p_stage' = "ready"
        /\ UNCHANGED p_selected
  /\ UNCHANGED <<slots, audio, publisher_gen, initialized, p_gen, p_attempt, aud,
                 claim>>

\* The slot the second scan selects once it has looked at slot i.
OldestReady(i) ==
  IF state[i] = "ready"
     /\ (p_selected = None \/ generation[p_selected] > generation[i])
  THEN i ELSE p_selected

\* The second scan looks for the oldest ready slot.  Only this thread stores
\* generations, so a state and its generation are one step.
ScanReady ==
  /\ p_stage = "ready"
  /\ \/ /\ p_index < NumSlots
        /\ p_index' = p_index + 1 /\ p_selected' = OldestReady(p_index)
        /\ UNCHANGED <<p_stage, p_gen, p_attempt>>
     \/ /\ p_index = NumSlots /\ OldestReady(p_index) # None
        /\ p_selected' = OldestReady(p_index) /\ p_stage' = "take_ready"
        /\ UNCHANGED <<p_gen, p_index, p_attempt>>
     \/ /\ p_index = NumSlots /\ OldestReady(p_index) = None
        /\ PublishReturns
  /\ UNCHANGED <<slots, audio, publisher_gen, initialized, aud, claim>>

\* claim_state by the publisher, from the state it saw to writing.
Expected == IF p_stage = "take_free" THEN "free" ELSE "ready"

\* Variant: a store where the compare-exchange belongs.
TakeSlotBlindly ==
  /\ p_stage \in {"take_free", "take_ready"}
  /\ SetState(p_selected, "writing")
  /\ prepared' = [prepared EXCEPT ![p_selected] = Torn]
  /\ p_stage' = "write"
  /\ UNCHANGED <<generation, audio, publisher_gen, initialized, p_gen, p_index,
                 p_selected, p_attempt, aud, claim>>

TakeSlot ==
  /\ p_stage \in {"take_free", "take_ready"}
  /\ state[p_selected] = Expected
  /\ SetState(p_selected, "writing")
  /\ prepared' = [prepared EXCEPT ![p_selected] = Torn]
  /\ p_stage' = "write"
  /\ UNCHANGED <<generation, audio, publisher_gen, initialized, p_gen, p_index,
                 p_selected, p_attempt, aud, claim>>

LoseSlot ==
  /\ p_stage \in {"take_free", "take_ready"}
  /\ state[p_selected] # Expected
  /\ IF p_attempt < NumSlots
     THEN /\ p_stage' = "free" /\ p_index' = 1 /\ p_selected' = None
          /\ p_attempt' = p_attempt + 1
          /\ UNCHANGED p_gen
     ELSE PublishReturns
  /\ UNCHANGED <<slots, audio, publisher_gen, initialized, aud, claim>>

\* The copy is complete and its generation stored.
WriteSlot ==
  /\ p_stage = "write"
  /\ prepared' = [prepared EXCEPT ![p_selected] = p_gen]
  /\ generation' = [generation EXCEPT ![p_selected] = p_gen]
  /\ p_stage' = "release"
  /\ UNCHANGED <<state, audio, publisher_gen, initialized, p_gen, p_index, p_selected,
                 p_attempt, aud, claim>>

\* Variant: the publication is not recorded.
ReleaseSlotForgets ==
  /\ p_stage = "release"
  /\ SetState(p_selected, "ready")
  /\ PublishReturns
  /\ UNCHANGED <<generation, prepared, publisher_gen, audio, initialized, aud, claim>>

ReleaseSlot ==
  /\ p_stage = "release"
  /\ SetState(p_selected, "ready")
  /\ publisher_gen' = p_gen
  /\ PublishReturns
  /\ UNCHANGED <<generation, prepared, audio, initialized, aud, claim>>

-----------------------------------------------------------------------------
(* claim_latest, on the audio thread *)

AudioReturns ==
  /\ a_stage' = "idle" /\ a_index' = None /\ a_selected' = None
  /\ a_newest' = 0 /\ a_attempt' = 0

StartAttempt(n) ==
  /\ a_stage' = "scan" /\ a_index' = 1 /\ a_selected' = None
  /\ a_newest' = active_gen /\ a_attempt' = n

\* Variant: the call goes on until it has what it wants.
NextAttemptUncounted == StartAttempt(a_attempt)

NextAttempt == IF a_attempt < NumSlots THEN StartAttempt(a_attempt + 1) ELSE AudioReturns

\* A claim_latest that is not refused at once.
ClaimCall ==
  /\ a_stage = "idle" /\ c_index = None
  /\ initialized
  /\ StartAttempt(1)
  /\ UNCHANGED <<slots, audio, publisher_gen, initialized, pub, claim>>

\* On to the next slot of the scan, or to claiming the selected one.
ScanOn(selected, newest) ==
  /\ a_selected' = selected /\ a_newest' = newest
  /\ IF a_index < NumSlots
     THEN a_stage' = "scan" /\ a_index' = a_index + 1
     ELSE IF selected = None
     THEN a_stage' = "reclaim" /\ a_index' = 1
     ELSE a_stage' = "take" /\ a_index' = a_index
  /\ UNCHANGED a_attempt

ScanState ==
  /\ a_stage = "scan"
  /\ IF state[a_index] = "ready"
     THEN a_stage' = "scan_gen" /\ UNCHANGED <<a_index, a_selected, a_newest, a_attempt>>
     ELSE ScanOn(a_selected, a_newest)
  /\ UNCHANGED <<slots, audio, publisher_gen, initialized, pub, claim>>

ScanGeneration ==
  /\ a_stage = "scan_gen"
  /\ IF generation[a_index] > a_newest
     THEN ScanOn(a_index, generation[a_index])
     ELSE ScanOn(a_selected, a_newest)
  /\ UNCHANGED <<slots, audio, publisher_gen, initialized, pub, claim>>

TakeReady ==
  /\ a_stage = "take"
  /\ IF state[a_selected] = "ready"
     THEN /\ SetState(a_selected, "audio_claimed")
          /\ a_stage' = "own"
          /\ UNCHANGED <<a_index, a_selected, a_newest, a_attempt>>
     ELSE NextAttempt /\ UNCHANGED state
  /\ UNCHANGED <<generation, prepared, audio, publisher_gen, initialized, pub, claim>>

\* Variant: the generation of the scan, read before the slot was owned.
OwnedAtScan == a_newest

\* The generation that counts is the one read after the slot is owned.
Owned == generation[a_selected]

OwnGeneration ==
  /\ a_stage = "own"
  /\ IF Owned > active_gen
     THEN /\ a_newest' = Owned /\ a_stage' = "newer" /\ a_index' = 1
          /\ UNCHANGED <<state, a_selected, a_attempt>>
     ELSE SetState(a_selected, "free") /\ NextAttempt
  /\ UNCHANGED <<generation, prepared, audio, publisher_gen, initialized, pub, claim>>

\* No newer slot was ready: the claim is the caller's.
NewerOn ==
  IF a_index < NumSlots
  THEN /\ a_stage' = "newer" /\ a_index' = a_index + 1
       /\ UNCHANGED <<a_selected, a_newest, a_attempt, claim>>
  ELSE c_index' = a_selected /\ c_gen' = a_newest /\ AudioReturns

NewerState ==
  /\ a_stage = "newer"
  /\ IF state[a_index] = "ready"
     THEN a_stage' = "newer_gen"
          /\ UNCHANGED <<a_index, a_selected, a_newest, a_attempt, claim>>
     ELSE NewerOn
  /\ UNCHANGED <<slots, audio, publisher_gen, initialized, pub>>

NewerGeneration ==
  /\ a_stage = "newer_gen"
  /\ IF generation[a_index] > a_newest
     THEN SetState(a_selected, "ready") /\ NextAttempt /\ UNCHANGED claim
     ELSE NewerOn /\ UNCHANGED state
  /\ UNCHANGED <<generation, prepared, audio, publisher_gen, initialized, pub>>

-----------------------------------------------------------------------------
(* reclaim_stale_ready, the end of a claim that found nothing and of a commit *)

ReclaimOn ==
  IF a_index < NumSlots
  THEN /\ a_stage' = "reclaim" /\ a_index' = a_index + 1
       /\ UNCHANGED <<a_selected, a_newest, a_attempt>>
  ELSE AudioReturns

ReclaimState ==
  /\ a_stage = "reclaim"
  /\ IF state[a_index] = "ready"
     THEN a_stage' = "reclaim_take" /\ UNCHANGED <<a_index, a_selected, a_newest, a_attempt>>
     ELSE ReclaimOn
  /\ UNCHANGED <<slots, audio, publisher_gen, initialized, pub, claim>>

ReclaimTake ==
  /\ a_stage = "reclaim_take"
  /\ IF state[a_index] = "ready"
     THEN /\ SetState(a_index, "audio_claimed")
          /\ a_stage' = "reclaim_release"
          /\ UNCHANGED <<a_index, a_selected, a_newest, a_attempt>>
     ELSE ReclaimOn /\ UNCHANGED state
  /\ UNCHANGED <<generation, prepared, audio, publisher_gen, initialized, pub, claim>>

\* Variant: every ready slot is taken for stale.
ReclaimReleaseAll ==
  /\ a_stage = "reclaim_release"
  /\ SetState(a_index, "free")
  /\ ReclaimOn
  /\ UNCHANGED <<generation, prepared, audio, publisher_gen, initialized, pub, claim>>

\* A slot that is still newer than the active one is given back.
ReclaimRelease ==
  /\ a_stage = "reclaim_release"
  /\ SetState(a_index, IF generation[a_index] > active_gen THEN "ready" ELSE "free")
  /\ ReclaimOn
  /\ UNCHANGED <<generation, prepared, audio, publisher_gen, initialized, pub, claim>>

-----------------------------------------------------------------------------
(* commit, cancel *)

Cancellable ==
  /\ a_stage = "idle"
  /\ initialized /\ c_index # None
  /\ state[c_index] = "audio_claimed" /\ generation[c_index] = c_gen

Committable == Cancellable /\ c_gen > active_gen

\* commit frees the active slot first ...
CommitCall ==
  /\ Committable
  /\ SetState(active_index, "free")
  /\ a_stage' = "activate"
  /\ UNCHANGED <<generation, prepared, audio, publisher_gen, initialized, pub, a_index,
                 a_selected, a_newest, a_attempt, claim>>

\* ... then activates the claimed one.
Activate ==
  /\ a_stage = "activate"
  /\ SetState(c_index, "active")
  /\ active_index' = c_index /\ active_gen' = c_gen
  /\ c_index' = None /\ c_gen' = 0
  /\ a_stage' = "reclaim" /\ a_index' = 1
  /\ UNCHANGED <<generation, prepared, publisher_gen, initialized, pub, a_selected,
                 a_newest, a_attempt>>

\* Variant: a cancelled claim is dropped.
CancelDrops ==
  /\ Cancellable
  /\ SetState(c_index, "free")
  /\ c_index' = None /\ c_gen' = 0
  /\ UNCHANGED <<generation, prepared, audio, publisher_gen, initialized, pub, aud>>

Cancel ==
  /\ Cancellable
  /\ SetState(c_index, "ready")
  /\ c_index' = None /\ c_gen' = 0
  /\ UNCHANGED <<generation, prepared, audio, publisher_gen, initialized, pub, aud>>

-----------------------------------------------------------------------------
(* initialize, reset: setActive, activate, deactivate, in turn *)

Quiescent == p_stage = "idle" /\ a_stage = "idle"

Initialize(g) ==
  /\ Quiescent /\ c_index = None /\ ~initialized
  /\ state' = [i \in Slots |-> IF i = 1 THEN "active" ELSE "free"]
  /\ generation' = [i \in Slots |-> IF i = 1 THEN g ELSE 0]
  /\ prepared' = [prepared EXCEPT ![1] = g]
  /\ active_index' = 1 /\ active_gen' = g /\ publisher_gen' = g
  /\ initialized' = TRUE
  /\ UNCHANGED <<pub, aud, claim>>

Reset ==
  /\ Quiescent /\ c_index = None
  /\ state' = [i \in Slots |-> "free"]
  /\ generation' = [i \in Slots |-> 0]
  /\ active_index' = 1 /\ active_gen' = 0 /\ publisher_gen' = 0
  /\ initialized' = FALSE
  /\ UNCHANGED <<prepared, pub, aud, claim>>

-----------------------------------------------------------------------------
Init ==
  /\ state = [i \in Slots |-> "free"]
  /\ generation = [i \in Slots |-> 0]
  /\ prepared = [i \in Slots |-> 0]
  /\ active_index = 1 /\ active_gen = 0 /\ publisher_gen = 0
  /\ initialized = FALSE
  /\ p_stage = "idle" /\ p_gen = 0 /\ p_index = None /\ p_selected = None /\ p_attempt = 0
  /\ a_stage = "idle" /\ a_index = None /\ a_selected = None /\ a_newest = 0
  /\ a_attempt = 0
  /\ c_index = None /\ c_gen = 0

Publisher ==
  \/ ScanFree \/ ScanReady \/ TakeSlot \/ LoseSlot \/ WriteSlot \/ ReleaseSlot

Claimer ==
  \/ ScanState \/ ScanGeneration \/ TakeReady \/ OwnGeneration
  \/ NewerState \/ NewerGeneration
  \/ ReclaimState \/ ReclaimTake \/ ReclaimRelease
  \/ Activate

Next ==
  \/ \E g \in Generations : PublishCall(g) \/ Initialize(g)
  \/ Publisher \/ Claimer
  \/ ClaimCall \/ CommitCall \/ Cancel \/ Reset

Spec == Init /\ [][Next]_vars

\* Both threads run their calls to the end, and every audio block with a boundary
\* pending claims, and commits unless the claim is not the one it waits for.
Fairness ==
  /\ WF_vars(Publisher) /\ WF_vars(Claimer)
  /\ SF_vars(ClaimCall) /\ SF_vars(CommitCall)

FairSpec == Spec /\ Fairness

-----------------------------------------------------------------------------
(* Properties *)

SharedOK ==
  /\ state \in [Slots -> SlotStates]
  /\ generation \in [Slots -> Generations]
  /\ prepared \in [Slots -> Generations \cup {Torn}]
  /\ active_index \in Slots
  /\ active_gen \in Generations /\ publisher_gen \in Generations
  /\ initialized \in BOOLEAN

PublisherOK ==
  /\ p_stage \in {"idle", "free", "ready", "take_free", "take_ready", "write", "release"}
  /\ p_gen \in Generations /\ p_index \in Slots \cup {None}
  /\ p_selected \in Slots \cup {None} /\ p_attempt \in 0 .. NumSlots

ClaimerOK ==
  /\ a_stage \in {"idle", "scan", "scan_gen", "take", "own", "newer", "newer_gen",
                  "reclaim", "reclaim_take", "reclaim_release", "activate"}
  /\ a_index \in Slots \cup {None} /\ a_selected \in Slots \cup {None}
  /\ a_newest \in Generations /\ a_attempt \in 0 .. NumSlots
  /\ c_index \in Slots \cup {None} /\ c_gen \in Generations

\* Every variable holds what its C++ type and the loops over it allow.
TypeOK == SharedOK /\ PublisherOK /\ ClaimerOK

\* Whatever the two threads interleave, a slot the audio thread may read holds a whole
\* configuration under its own generation: a claim, and the active slot.
NeverTorn ==
  /\ \A i \in Slots : state[i] \in {"ready", "audio_claimed", "active"}
                        => prepared[i] = generation[i]
  /\ c_index # None => prepared[c_index] = c_gen
  /\ initialized /\ a_stage # "activate" => prepared[active_index] = active_gen

\* A claim the audio thread holds can be committed whenever it chooses: the publisher
\* never takes the slot back, and nothing older than the active configuration is held.
ClaimIsGood == c_index # None /\ a_stage = "idle" => Committable

\* The newest configuration published is never dropped by a replacement, a cancelled
\* claim or a reclaim: outside the store of a newer one it is in some slot.
NewestSurvives ==
  initialized /\ p_stage \notin {"write", "release"} =>
    \E i \in Slots : /\ state[i] \in {"ready", "audio_claimed", "active"}
                     /\ generation[i] = publisher_gen

\* What was published last is in the end what the audio thread plays, unless the
\* exchange is reset or initialised again.
NewestIsAdopted ==
  \A g \in Generations : (initialized /\ publisher_gen = g) ~> (active_gen = g \/ publisher_gen # g)

\* At most this many of its own steps are left of a call of the audio thread: for each
\* attempt to come a scan and a look for something newer, and a reclaim at the end.
AttemptSteps == 5 * NumSlots + 2
AttemptsLeft == (NumSlots - a_attempt) * AttemptSteps
SlotsLeft    == NumSlots - a_index
AudioStepsLeft ==
  CASE a_stage = "idle"            -> 0
    [] a_stage = "reclaim_release" -> 3 * SlotsLeft + 1
    [] a_stage = "reclaim_take"    -> 3 * SlotsLeft + 2
    [] a_stage = "reclaim"         -> 3 * SlotsLeft + 3
    [] a_stage = "activate"        -> 3 * NumSlots + 1
    [] a_stage = "newer_gen"       -> AttemptsLeft + 2 * SlotsLeft + 1
    [] a_stage = "newer"           -> AttemptsLeft + 2 * SlotsLeft + 2
    [] a_stage = "own"             -> AttemptsLeft + 2 * NumSlots + 1
    [] a_stage = "take"            -> AttemptsLeft + 2 * NumSlots + 2
    [] a_stage = "scan_gen"        -> AttemptsLeft + 3 * NumSlots + 2 * SlotsLeft + 3
    [] a_stage = "scan"            -> AttemptsLeft + 3 * NumSlots + 2 * SlotsLeft + 4

\* The same for publish: two scans, and the three steps of taking and writing a slot.
PublishAttemptSteps == 2 * NumSlots + 3
PublishAttemptsLeft == (NumSlots - p_attempt) * PublishAttemptSteps
PublishSlotsLeft    == NumSlots - p_index
PublishStepsLeft ==
  CASE p_stage = "idle"    -> 0
    [] p_stage = "release" -> 1
    [] p_stage = "write"   -> 2
    [] p_stage \in {"take_free", "take_ready"} -> PublishAttemptsLeft + 3
    [] p_stage = "ready"   -> PublishAttemptsLeft + PublishSlotsLeft + 4
    [] p_stage = "free"    -> PublishAttemptsLeft + PublishSlotsLeft + NumSlots + 4

\* "These never wait" (prepared_config_exchange.hpp:111), nor does publish: every step of
\* a call brings its end nearer, whatever it loses to the other thread, and no step of
\* the other thread puts it off.
CallsNeverWait ==
  [][/\ Claimer => /\ AudioStepsLeft' >= 0 /\ AudioStepsLeft' < AudioStepsLeft
                   /\ UNCHANGED PublishStepsLeft
     /\ Publisher => /\ PublishStepsLeft' >= 0 /\ PublishStepsLeft' < PublishStepsLeft
                     /\ UNCHANGED AudioStepsLeft]_vars

\* What the callers see of the slots: a configuration waits from the store of its
\* generation until it is held, dropped, or no longer newer than the active one.
Waits(i) ==
  /\ state[i] \in {"writing", "ready", "audio_claimed"} /\ i # c_index
  /\ generation[i] > active_gen
Waiting == {generation[i] : i \in {j \in Slots : Waits(j)}}
Held == IF c_index = None THEN None ELSE prepared[c_index]

Service == INSTANCE ExchangeService
             WITH open <- initialized, waiting <- Waiting, held <- Held, active <- active_gen

\* Scans, compare-exchanges and retries of both threads amount to what the exchange
\* promises its callers: a claim is theirs alone, nothing that waits is lost but to one
\* newer publication or a newer commit, and nothing goes back to an older one.
ImplementsService == Service!Spec
=============================================================================
