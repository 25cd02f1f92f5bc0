------------------------- MODULE Vst3ComponentProofs -------------------------
(***************************************************************************)
(* Vst3Component for every set of parameters, values and notes: a swap is  *)
(* silent, a held claim fits, and the detector is in step when it runs.    *)
(*                                                                         *)
(* None of the three is inductive.  What carries them is NoteInv: outside  *)
(* ordinary processing every note the host has is owed a release, and the  *)
(* detector has none wherever it is going to run again.                    *)
(***************************************************************************)
EXTENDS Vst3Component, TLAPS

\* A call runs only while processing; a claim is tried only within a boundary.
CallInv ==
  /\ stage # "idle" => processing
  /\ processing => active
  /\ stage \in {"claim_early", "claim_late"} => boundary

\* Outside ordinary processing every heard note is owed.
OwesAll == ~processing \/ boundary \/ blocked \/ hold => owed = heard

\* Where the detector runs again, it starts with no note.
Emptied == ~processing \/ boundary \/ hold => voices = {}

CleanOwesNone == cleanup => owed = {}

InStep == processing /\ ~boundary /\ ~blocked /\ ~hold => owed = {} /\ voices = heard

NoteInv == OwesAll /\ Emptied /\ CleanOwesNone /\ InStep

SafetyInv == CallInv /\ NoteInv /\ ClaimFits

-----------------------------------------------------------------------------
(* What the initial states and the frame give *)

LEMMA InitSafety == Init => SafetyInv
<1> SUFFICES ASSUME Init PROVE SafetyInv
  OBVIOUS
<1>1. CallInv
  BY DEF Init, CallInv
<1>2. NoteInv
  BY DEF Init, NoteInv, OwesAll, Emptied, CleanOwesNone, InStep
<1>3. ClaimFits
  BY DEF Init, ClaimFits
<1> QED BY <1>1, <1>2, <1>3 DEF SafetyInv

NoteVars == <<processing, boundary, hold, output, voices>>

ClaimVars == <<claim, active_generation, boundary, active, pending>>

LEMMA NoteFrame == ASSUME NoteInv, UNCHANGED NoteVars PROVE NoteInv'
BY DEF NoteVars, output, NoteInv, OwesAll, Emptied, CleanOwesNone, InStep

LEMMA ClaimFrame == ASSUME ClaimFits, UNCHANGED ClaimVars PROVE ClaimFits'
BY DEF ClaimVars, ClaimFits, StructuralEqual

\* What the main thread's edits and publications leave alone.
Elsewhere == <<claim, active_generation, configs, lifecycle, status, output, panic, voices, call>>

LEMMA MainThreadFrame == Edits \/ FinishPublish => UNCHANGED Elsewhere
<1>1. Edits => UNCHANGED Elsewhere
  BY DEF Edits, EditorEdit, HostSetParam, HostQueues, SetState, RequestPanic, Unheard,
         exchange, Elsewhere
<1>2. FinishPublish => UNCHANGED Elsewhere
  BY DEF FinishPublish, ReplaceReady, PublishRefused, Unheard, Elsewhere
<1> QED BY <1>1, <1>2

-----------------------------------------------------------------------------
(* The calls keep their place *)

LEMMA CallStep == ASSUME CallInv, [Next]_vars PROVE CallInv'
<1> USE DEF CallInv
<1>1. CASE Edits \/ FinishPublish
  BY <1>1, MainThreadFrame DEF Elsewhere, call, lifecycle, configs
<1>2. CASE Lifecycle
  BY <1>2 DEF Lifecycle, Activate, Deactivate, Reinitialize, StartProcessing,
              StopProcessing, call, lifecycle, configs
<1>3. CASE RefusedCall
  BY <1>3 DEF RefusedCall, call, lifecycle, configs
<1>4. CASE StartCall
  <2>1. CASE ApplyRuntime
    BY <2>1 DEF ApplyRuntime, ReadBatch, lifecycle
  <2>2. CASE SameBoundary
    BY <2>2 DEF SameBoundary, ReadBatch, lifecycle, configs
  <2>3. CASE BeginBoundary
    BY <2>3 DEF BeginBoundary, ReadBatch, lifecycle
  <2> QED BY <1>4, <2>1, <2>2, <2>3 DEF StartCall
<1>5. CASE ProcessCall
  <2>1. CASE ClaimPrepared
    BY <2>1 DEF ClaimPrepared, lifecycle, configs
  <2>2. ASSUME NEW in_batch \in BOOLEAN, HandlePanic(in_batch) PROVE CallInv'
    BY <2>2 DEF HandlePanic, lifecycle, configs
  <2>3. CASE NoSamples \/ SupportedLayout \/ UnsupportedLayout
    BY <2>3 DEF NoSamples, SupportedLayout, UnsupportedLayout, lifecycle, configs
  <2>4. ASSUME NEW R \in SUBSET owed, Retry(R) PROVE CallInv'
    BY <2>4 DEF Retry, AfterRetry, lifecycle, configs
  <2>5. CASE Commit
    BY <2>5 DEF Commit, lifecycle
  <2>6. CASE NoCommit \/ NonFinite \/ NoDetection
    BY <2>6 DEF NoCommit, NonFinite, NoDetection, lifecycle, configs
  <2>7. ASSUME NEW d \in SUBSET Notes, Detect(d) PROVE CallInv'
    BY <2>7 DEF Detect, lifecycle, configs
  <2>8. ASSUME NEW quiet \in BOOLEAN, Finish(quiet) PROVE CallInv'
    BY <2>8 DEF Finish, lifecycle, configs
  <2> QED
    BY <1>5, <2>1, <2>2, <2>3, <2>4, <2>5, <2>6, <2>7, <2>8 DEF ProcessCall
<1>6. CASE UNCHANGED vars
  BY <1>6 DEF vars, call, lifecycle, configs
<1> QED BY <1>1, <1>2, <1>3, <1>4, <1>5, <1>6 DEF Next

-----------------------------------------------------------------------------
(* The notes *)

LEMMA NoteStep == ASSUME CallInv, NoteInv, [Next]_vars PROVE NoteInv'
<1>1. CASE Edits \/ FinishPublish
  <2>1. UNCHANGED NoteVars
    BY <1>1, MainThreadFrame DEF Elsewhere, NoteVars, lifecycle, configs, panic
  <2> QED BY <2>1, NoteFrame
<1>2. CASE Activate
  BY <1>2 DEF Activate, output, panic, CallInv, NoteInv, OwesAll, Emptied, CleanOwesNone,
              InStep
<1>3. CASE Deactivate
  BY <1>3 DEF Deactivate, RequestRelease, panic, NoteInv, OwesAll, Emptied, CleanOwesNone,
              InStep
<1>4. CASE Reinitialize
  BY <1>4 DEF Reinitialize, NoteInv, OwesAll, Emptied, CleanOwesNone, InStep
<1>5. CASE StartProcessing
  BY <1>5 DEF StartProcessing, RequestRecovery, output, panic, configs, NoteInv, OwesAll,
              Emptied, CleanOwesNone, InStep
<1>6. CASE StopProcessing
  BY <1>6 DEF StopProcessing, RequestRelease, RequestRecovery, configs, NoteInv, OwesAll,
              Emptied, CleanOwesNone, InStep
<1>7. CASE RefusedCall
  BY <1>7 DEF RefusedCall, EnterBlocked, lifecycle, configs, panic, NoteInv, OwesAll,
              Emptied, CleanOwesNone, InStep
<1>8. CASE ApplyRuntime \/ SameBoundary
  <2>1. UNCHANGED NoteVars
    BY <1>8 DEF ApplyRuntime, SameBoundary, ReadBatch, NoteVars, lifecycle, configs, panic
  <2> QED BY <2>1, NoteFrame
<1>9. CASE BeginBoundary
  BY <1>9 DEF BeginBoundary, ReadBatch, RequestRelease, lifecycle, panic, NoteInv, OwesAll,
              Emptied, CleanOwesNone, InStep
<1>10. CASE ClaimPrepared \/ NoSamples \/ SupportedLayout \/ NoCommit \/ NoDetection
  <2>1. UNCHANGED NoteVars
    BY <1>10 DEF ClaimPrepared, NoSamples, SupportedLayout, NoCommit, NoDetection, NoteVars,
                 lifecycle, configs, panic
  <2> QED BY <2>1, NoteFrame
<1>11. ASSUME NEW in_batch \in BOOLEAN, HandlePanic(in_batch) PROVE NoteInv'
  <2>1. CASE UNCHANGED <<output, panic, voices>>
    <3>1. UNCHANGED NoteVars
      BY <1>11, <2>1 DEF HandlePanic, NoteVars, lifecycle, configs, panic
    <3> QED BY <3>1, NoteFrame
  <2>2. CASE PanicRecovery
    BY <1>11, <2>2 DEF HandlePanic, PanicRecovery, RequestRelease, RequestRecovery,
                       lifecycle, configs, NoteInv, OwesAll, Emptied, CleanOwesNone, InStep
  <2> QED BY <1>11, <2>1, <2>2 DEF HandlePanic
<1>12. CASE UnsupportedLayout \/ NonFinite
  BY <1>12 DEF UnsupportedLayout, NonFinite, EnterBlocked, lifecycle, configs, panic,
               NoteInv, OwesAll, Emptied, CleanOwesNone, InStep
<1>13. ASSUME NEW R \in SUBSET owed, Retry(R) PROVE NoteInv'
  <2>1. CASE R = owed
    BY <1>13, <2>1 DEF Retry, lifecycle, configs, panic, CallInv, NoteInv, OwesAll, Emptied,
                       CleanOwesNone, InStep
  <2>2. CASE R # owed
    BY <1>13, <2>2 DEF Retry, EnterBlocked, lifecycle, configs, panic, NoteInv, OwesAll,
                       Emptied, CleanOwesNone, InStep
  <2> QED BY <2>1, <2>2
<1>14. CASE Commit
  BY <1>14 DEF Commit, MayCommit, lifecycle, output, panic, NoteInv, OwesAll, Emptied,
               CleanOwesNone, InStep
<1>15. ASSUME NEW d \in SUBSET Notes, Detect(d) PROVE NoteInv'
  <2>1. /\ processing /\ voices = heard /\ owed = {}
        /\ ~boundary /\ ~hold /\ ~blocked
    BY <1>15 DEF Detect, DetectorAllowed, CallInv, NoteInv, InStep
  <2>2. /\ UNCHANGED <<processing, boundary, hold>> /\ voices' = d
    BY <1>15 DEF Detect, lifecycle, configs, panic
  <2>3. CASE heard' = d /\ UNCHANGED <<owed, blocked, cleanup>>
    BY <2>1, <2>2, <2>3 DEF NoteInv, OwesAll, Emptied, CleanOwesNone, InStep
  <2>4. ASSUME NEW h \in SUBSET Notes, EnterBlocked(h) PROVE NoteInv'
    BY <2>1, <2>2, <2>4 DEF EnterBlocked, NoteInv, OwesAll, Emptied, CleanOwesNone, InStep
  <2>5. (heard \ (voices \ d)) \cup (d \ voices) = d
    BY <2>1
  <2> QED BY <1>15, <2>3, <2>4, <2>5 DEF Detect
<1>16. ASSUME NEW quiet \in BOOLEAN, Finish(quiet) PROVE NoteInv'
  <2>1. UNCHANGED <<processing, boundary, heard, owed, voices>>
    BY <1>16 DEF Finish, lifecycle, configs
  <2>2. CASE Recovers(quiet)
    <3>1. owed = {} /\ heard = {} /\ voices = {}
      BY <2>2 DEF Recovers, NoteInv, CleanOwesNone, OwesAll, Emptied
    <3> QED BY <2>1, <3>1 DEF NoteInv, OwesAll, Emptied, CleanOwesNone, InStep
  <2>3. CASE ~Recovers(quiet)
    <3>1. (hold' <=> hold) /\ (blocked' <=> blocked) /\ (cleanup' <=> cleanup)
      BY <1>16, <2>3 DEF Finish
    <3> QED BY <2>1, <3>1 DEF NoteInv, OwesAll, Emptied, CleanOwesNone, InStep
  <2> QED BY <2>2, <2>3
<1>17. CASE UNCHANGED vars
  <2>1. UNCHANGED NoteVars
    BY <1>17 DEF vars, NoteVars, lifecycle, configs, panic
  <2> QED BY <2>1, NoteFrame
<1> QED
  BY <1>1, <1>2, <1>3, <1>4, <1>5, <1>6, <1>7, <1>8, <1>9, <1>10, <1>11, <1>12, <1>13,
     <1>14, <1>15, <1>16, <1>17 DEF Next, Lifecycle, StartCall, ProcessCall

-----------------------------------------------------------------------------
(* The held claim *)

LEMMA ClaimStep == ASSUME CallInv, ClaimFits, [Next]_vars PROVE ClaimFits'
<1>1. CASE Edits \/ FinishPublish
  <2>1. UNCHANGED ClaimVars
    BY <1>1, MainThreadFrame DEF Elsewhere, ClaimVars, lifecycle, configs
  <2> QED BY <2>1, ClaimFrame
<1>2. CASE Activate \/ Deactivate \/ Reinitialize \/ BeginBoundary \/ Commit
  BY <1>2 DEF Activate, Deactivate, Reinitialize, BeginBoundary, Commit, ClaimFits
<1>3. CASE StartProcessing \/ StopProcessing \/ RefusedCall
  <2>1. UNCHANGED ClaimVars
    BY <1>3 DEF StartProcessing, StopProcessing, RefusedCall, ClaimVars, lifecycle, configs,
                exchange
  <2> QED BY <2>1, ClaimFrame
<1>4. CASE ApplyRuntime \/ SameBoundary
  <2>1. UNCHANGED ClaimVars
    BY <1>4 DEF ApplyRuntime, SameBoundary, ReadBatch, ClaimVars, lifecycle, configs
  <2> QED BY <2>1, ClaimFrame
<1>5. CASE ClaimPrepared
  <2>1. UNCHANGED <<active, boundary, pending, active_generation>> /\ boundary /\ active
    BY <1>5 DEF ClaimPrepared, lifecycle, configs, CallInv
  <2>2. CASE UNCHANGED claim
    BY <2>1, <2>2, ClaimFrame DEF ClaimVars
  <2>3. ASSUME NEW r \in Matching, claim' = r PROVE ClaimFits'
    <3>1. r.generation > active_generation /\ StructuralEqual(r.config, pending)
      BY DEF Matching, Claimable, NewerThan
    <3> QED BY <2>1, <2>3, <3>1 DEF ClaimFits, StructuralEqual
  <2> QED BY <1>5, <2>2, <2>3 DEF ClaimPrepared, KeepClaim, CancelClaim, FindNone
<1>6. ASSUME NEW in_batch \in BOOLEAN, HandlePanic(in_batch) PROVE ClaimFits'
  BY <1>6, ClaimFrame DEF HandlePanic, ClaimVars, lifecycle, configs, exchange
<1>7. CASE NoSamples \/ SupportedLayout \/ UnsupportedLayout
  BY <1>7, ClaimFrame DEF NoSamples, SupportedLayout, UnsupportedLayout, ClaimVars,
                          lifecycle, configs, exchange
<1>8. ASSUME NEW R \in SUBSET owed, Retry(R) PROVE ClaimFits'
  BY <1>8, ClaimFrame DEF Retry, ClaimVars, lifecycle, configs, exchange
<1>9. CASE NoCommit \/ NonFinite \/ NoDetection
  BY <1>9, ClaimFrame DEF NoCommit, NonFinite, NoDetection, ClaimVars, lifecycle, configs,
                          exchange
<1>10. ASSUME NEW d \in SUBSET Notes, Detect(d) PROVE ClaimFits'
  BY <1>10, ClaimFrame DEF Detect, ClaimVars, lifecycle, configs, exchange
<1>11. ASSUME NEW quiet \in BOOLEAN, Finish(quiet) PROVE ClaimFits'
  BY <1>11, ClaimFrame DEF Finish, ClaimVars, lifecycle, configs, exchange
<1>12. CASE UNCHANGED vars
  BY <1>12, ClaimFrame DEF vars, ClaimVars, lifecycle, configs, exchange
<1> QED
  BY <1>1, <1>2, <1>3, <1>4, <1>5, <1>6, <1>7, <1>8, <1>9, <1>10, <1>11, <1>12
  DEF Next, Lifecycle, StartCall, ProcessCall

-----------------------------------------------------------------------------
(* The swap *)

\* A step of SilentSwap.
SwapIsSilent ==
  active /\ active' /\ ~StructuralEqual(config', config) => heard = {} /\ heard' = {}

LEMMA SameIsEqual == ASSUME UNCHANGED config PROVE SwapIsSilent
BY DEF SwapIsSilent, StructuralEqual

LEMMA SwapStep == ASSUME CallInv, NoteInv, [Next]_vars PROVE SwapIsSilent
<1>1. CASE Edits \/ FinishPublish
  BY <1>1, MainThreadFrame, SameIsEqual DEF Elsewhere, configs
<1>2. CASE Activate \/ Reinitialize
  BY <1>2 DEF Activate, Reinitialize, SwapIsSilent
<1>3. CASE Deactivate \/ StartProcessing \/ StopProcessing \/ RefusedCall
  BY <1>3, SameIsEqual DEF Deactivate, StartProcessing, StopProcessing, RefusedCall, configs
<1>4. CASE ApplyRuntime
  <2>1. config' = CopyRuntime(config, Candidate)
    BY <1>4 DEF ApplyRuntime
  <2>2. StructuralEqual(config', config)
    BY <2>1, ComponentAssumption DEF StructuralEqual, CopyRuntime
  <2> QED BY <2>2 DEF SwapIsSilent
<1>5. CASE SameBoundary \/ BeginBoundary \/ ClaimPrepared \/ NoSamples \/ SupportedLayout
           \/ UnsupportedLayout \/ NoCommit \/ NonFinite \/ NoDetection
  BY <1>5, SameIsEqual DEF SameBoundary, BeginBoundary, ClaimPrepared, NoSamples,
     SupportedLayout, UnsupportedLayout, NoCommit, NonFinite, NoDetection, configs
<1>6. ASSUME NEW in_batch \in BOOLEAN, HandlePanic(in_batch) PROVE SwapIsSilent
  BY <1>6, SameIsEqual DEF HandlePanic, configs
<1>7. ASSUME NEW R \in SUBSET owed, Retry(R) PROVE SwapIsSilent
  BY <1>7, SameIsEqual DEF Retry, configs
<1>8. CASE Commit
  \* The boundary owes all notes, and nothing is owed any more.
  BY <1>8 DEF Commit, MayCommit, output, NoteInv, OwesAll, SwapIsSilent
<1>9. ASSUME NEW d \in SUBSET Notes, Detect(d) PROVE SwapIsSilent
  BY <1>9, SameIsEqual DEF Detect, configs
<1>10. ASSUME NEW quiet \in BOOLEAN, Finish(quiet) PROVE SwapIsSilent
  BY <1>10, SameIsEqual DEF Finish, configs
<1>11. CASE UNCHANGED vars
  BY <1>11, SameIsEqual DEF vars, configs
<1> QED
  BY <1>1, <1>2, <1>3, <1>4, <1>5, <1>6, <1>7, <1>8, <1>9, <1>10, <1>11
  DEF Next, Lifecycle, StartCall, ProcessCall

-----------------------------------------------------------------------------
(* Types *)

LEMMA DefaultConfig == Default \in Config
<1>1. PICK v \in Values : TRUE
  BY ComponentAssumption
<1>2. [p \in Parameters |-> v] \in Config
  BY <1>1 DEF Config
<1> QED BY <1>2 DEF Default

LEMMA Raising == ASSUME NEW s \in Ready .. Unsupported, status \in Ready .. Unsupported
                 PROVE  Raised(s) \in Ready .. Unsupported /\ Raised(s) >= s
BY DEF Raised, Ready, Unsupported

LEMMA Statuses ==
  /\ Ready \in Ready .. Unsupported /\ PanicHold \in Ready .. Unsupported
  /\ Reconfiguring \in Ready .. Unsupported /\ MidiBlocked \in Ready .. Unsupported
  /\ Invalid \in Ready .. Unsupported /\ Unsupported \in Ready .. Unsupported
BY DEF Ready, PanicHold, Reconfiguring, MidiBlocked, Invalid, Unsupported

LEMMA Copying == ASSUME NEW to \in Config, NEW from \in Config
                 PROVE  CopyRuntime(to, from) \in Config
BY DEF Config, CopyRuntime

LEMMA CandidateOK == ASSUME requested \in Config, CallOK PROVE Candidate \in Config
BY DEF Config, CallOK, Candidate

LEMMA RacesOK == ASSUME ConfigOK, RacesPublication
                 PROVE  replacing' \in Publication \cup {NoPublication}
<1>1. CASE replacing = NoPublication
  BY <1>1 DEF RacesPublication
<1>2. CASE replacing # NoPublication
  <2>1. replacing \in Publication
    BY <1>2 DEF ConfigOK
  <2>2. replacing' = [replacing EXCEPT !.raced = TRUE]
    BY <1>2 DEF RacesPublication
  <2> QED BY <2>1, <2>2 DEF Publication
<1> QED BY <1>1, <1>2

\* A publication the exchange takes is of the next generation.
LEMMA TakenOver == ASSUME ConfigOK, NEW c \in Config, NEW change, TakeOver(c, change)
                   PROVE  /\ main' \in Config /\ main_generation' \in Nat \ {0}
                          /\ Numbered(c) \in Prepared
BY DEF ConfigOK, TakeOver, Numbered, Prepared

LEMMA QueueOK == ASSUME CallOK, NEW change \in Changes, Queue(change) PROVE queued' \in Changes
BY DEF CallOK, Changes, Queue

LEMMA PublishOK == ASSUME ConfigOK, CallOK, NEW c \in Config, NEW change \in Changes,
                          PublishMainConfig(c, change)
                   PROVE  /\ main' \in Config /\ main_generation' \in Nat \ {0}
                          /\ ready' \subseteq Prepared /\ queued' \in Changes
                          /\ replacing' \in Publication \cup {NoPublication}
<1>1. CASE Queue(change) /\ UNCHANGED <<mainvars, replacing, ready>>
  BY <1>1, QueueOK DEF mainvars, ConfigOK
<1>2. CASE /\ TakeOver(c, change) /\ UNCHANGED replacing
           /\ ready' = ready \/ ready' = ready \cup {Numbered(c)}
  BY <1>2, TakenOver, QueueOK DEF TakeOver, ConfigOK
<1>3. CASE /\ replacing' = [config |-> c, change |-> change, raced |-> FALSE]
           /\ UNCHANGED <<mainvars, ready, queued>>
  BY <1>3 DEF mainvars, ConfigOK, CallOK, Publication, Changes
<1> QED BY <1>1, <1>2, <1>3 DEF PublishMainConfig

LEMMA FinishOK == ASSUME ConfigOK, CallOK, FinishPublish
                  PROVE  /\ main' \in Config /\ main_generation' \in Nat \ {0}
                         /\ ready' \subseteq Prepared /\ queued' \in Changes
                         /\ replacing' = NoPublication /\ UNCHANGED <<edits, Unheard>>
<1>1. CASE ReplaceReady
  <2>1. replacing.config \in Config /\ replacing.change \in Changes
    BY <1>1 DEF ReplaceReady, Publishing, ConfigOK, Publication
  <2>2. TakeOver(replacing.config, replacing.change)
    BY <1>1 DEF ReplaceReady
  <2>3. ready' \subseteq ready \cup {Numbered(replacing.config)}
    BY <1>1 DEF ReplaceReady
  <2>4. /\ main' \in Config /\ main_generation' \in Nat \ {0}
        /\ Numbered(replacing.config) \in Prepared
    BY <2>1, <2>2, TakenOver
  <2>5. queued' \in Changes
    BY <2>1, <2>2, QueueOK DEF TakeOver
  <2> QED BY <1>1, <2>3, <2>4, <2>5 DEF ReplaceReady, ConfigOK
<1>2. CASE PublishRefused
  BY <1>2 DEF PublishRefused, mainvars, host, ConfigOK, CallOK, Changes
<1> QED BY <1>1, <1>2 DEF FinishPublish

LEMMA ChangesOK == /\ NoChanges \in Changes
                   /\ \A p \in Parameters, v \in Values : [NoChanges EXCEPT ![p] = v] \in Changes
BY DEF NoChanges, Changes

ConfigVars == <<mainvars, exchange, configs>>

LEMMA ConfigFrame == ASSUME ConfigOK, UNCHANGED ConfigVars PROVE ConfigOK'
BY DEF ConfigVars, mainvars, exchange, configs, ConfigOK

LEMMA ConfigStep == ASSUME TypeOK, [Next]_vars PROVE ConfigOK'
<1> USE DEF TypeOK
<1>0. CASE FinishPublish
  BY <1>0, FinishOK DEF Unheard, configs, ConfigOK
<1>1. CASE Edits
  <2>1. ASSUME NEW c \in Config, NEW change \in Changes, PublishMainConfig(c, change),
               UNCHANGED Unheard
        PROVE  ConfigOK'
    BY <2>1, PublishOK DEF Unheard, configs, ConfigOK
  <2>2. ASSUME NEW p \in Parameters, NEW v \in Values PROVE [main EXCEPT ![p] = v] \in Config
    BY DEF ConfigOK, Config
  <2>3. ASSUME NEW p \in Parameters, NEW v \in Values, EditorEdit(p, v) \/ HostSetParam(p, v)
        PROVE  ConfigOK'
    BY <2>1, <2>2, <2>3, ChangesOK DEF EditorEdit, HostSetParam, SetParam
  <2>4. ASSUME NEW p \in Parameters, NEW v \in Values, HostQueues(p, v) PROVE ConfigOK'
    BY <2>4 DEF HostQueues, Unheard, mainvars, configs, ConfigOK
  <2>5. ASSUME NEW c \in Config, SetState(c) PROVE ConfigOK'
    BY <2>1, <2>5, ChangesOK DEF SetState
  <2>6. CASE RequestPanic
    BY <2>6, ConfigFrame DEF RequestPanic, ConfigVars
  <2> QED BY <1>1, <2>3, <2>4, <2>5, <2>6 DEF Edits
<1>2. CASE Activate
  BY <1>2 DEF Activate, mainvars, ConfigOK
<1>3. CASE Deactivate
  BY <1>3 DEF Deactivate, mainvars, ConfigOK
<1>4. CASE Reinitialize
  <2>1. /\ main' \in Config /\ requested' \in Config /\ config' \in Config
        /\ pending' \in Config
    BY <1>4, DefaultConfig DEF Reinitialize
  <2>2. /\ main_generation' \in Nat \ {0} /\ active_generation' \in Nat
        /\ ready' = {} /\ claim' = NoClaim /\ UNCHANGED replacing
    BY <1>4 DEF Reinitialize
  <2>3. boundary' \in BOOLEAN
    BY <1>4 DEF Reinitialize
  <2> QED BY <2>1, <2>2, <2>3 DEF ConfigOK
<1>5. CASE StartProcessing \/ StopProcessing \/ RefusedCall
  BY <1>5, ConfigFrame DEF StartProcessing, StopProcessing, RefusedCall, ConfigVars
<1>6. CASE ApplyRuntime
  <2>1. requested' \in Config /\ config' \in Config
    BY <1>6, CandidateOK, Copying DEF ApplyRuntime, ConfigOK
  <2> QED BY <1>6, <2>1 DEF ApplyRuntime, ReadBatch, mainvars, ConfigOK
<1>7. CASE SameBoundary
  BY <1>7, ConfigFrame DEF SameBoundary, ReadBatch, ConfigVars, exchange
<1>8. CASE BeginBoundary
  <2>1. ready' \subseteq Prepared
    BY <1>8 DEF BeginBoundary, Cancelled, ConfigOK
  <2>2. replacing' \in Publication \cup {NoPublication}
    BY <1>8, RacesOK DEF BeginBoundary, ConfigOK
  <2>3. claim' = NoClaim /\ pending' \in Config /\ boundary' = TRUE
    BY <1>8, CandidateOK DEF BeginBoundary, ConfigOK
  <2> QED BY <1>8, <2>1, <2>2, <2>3 DEF BeginBoundary, ReadBatch, mainvars, ConfigOK
<1>9. CASE ClaimPrepared
  <2>1. /\ ready' \subseteq Prepared /\ claim' \in Prepared \cup {NoClaim}
        /\ UNCHANGED <<main, main_generation, active_generation, requested, config, pending,
                       boundary>>
    BY <1>9 DEF ClaimPrepared, KeepClaim, CancelClaim, FindNone, Matching, Claimable,
                NewerThan, mainvars, configs, ConfigOK
  <2>2. replacing' \in Publication \cup {NoPublication}
    BY <1>9, RacesOK DEF ClaimPrepared
  <2> QED BY <2>1, <2>2 DEF ConfigOK
<1>10. ASSUME NEW in_batch \in BOOLEAN, HandlePanic(in_batch) PROVE ConfigOK'
  BY <1>10, ConfigFrame DEF HandlePanic, ConfigVars
<1>11. CASE NoSamples \/ SupportedLayout \/ UnsupportedLayout
  BY <1>11, ConfigFrame DEF NoSamples, SupportedLayout, UnsupportedLayout, ConfigVars
<1>12. ASSUME NEW R \in SUBSET owed, Retry(R) PROVE ConfigOK'
  BY <1>12, ConfigFrame DEF Retry, ConfigVars
<1>13. CASE Commit
  <2>1. claim \in Prepared
    BY <1>13 DEF Commit, MayCommit, ConfigOK
  <2>2. claim.config \in Config /\ claim.generation \in Nat
    BY <2>1 DEF Prepared
  <2>3. config' \in Config /\ requested' \in Config
    BY <1>13, <2>2, Copying DEF Commit, ConfigOK
  <2>4. ready' \subseteq Prepared
    BY <1>13 DEF Commit, NewerThan, ConfigOK
  <2>5. replacing' \in Publication \cup {NoPublication}
    BY <1>13, RacesOK DEF Commit
  <2> QED BY <1>13, <2>2, <2>3, <2>4, <2>5 DEF Commit, mainvars, ConfigOK
<1>14. CASE NoCommit \/ NonFinite \/ NoDetection
  BY <1>14, ConfigFrame DEF NoCommit, NonFinite, NoDetection, ConfigVars
<1>15. ASSUME NEW d \in SUBSET Notes, Detect(d) PROVE ConfigOK'
  BY <1>15, ConfigFrame DEF Detect, ConfigVars
<1>16. ASSUME NEW quiet \in BOOLEAN, Finish(quiet) PROVE ConfigOK'
  BY <1>16, ConfigFrame DEF Finish, ConfigVars
<1>17. CASE UNCHANGED vars
  BY <1>17, ConfigFrame DEF vars, ConfigVars
<1> QED
  BY <1>0, <1>1, <1>2, <1>3, <1>4, <1>5, <1>6, <1>7, <1>8, <1>9, <1>10, <1>11, <1>12, <1>13,
     <1>14, <1>15, <1>16, <1>17 DEF Next, Lifecycle, StartCall, ProcessCall

OutputVars == <<status, output, panic, voices>>

LEMMA OutputFrame == ASSUME OutputOK, UNCHANGED OutputVars PROVE OutputOK'
BY DEF OutputVars, output, panic, OutputOK

NotesOK == heard \subseteq Notes /\ owed \subseteq heard /\ voices \subseteq Notes

FlagsOK == /\ blocked \in BOOLEAN /\ cleanup \in BOOLEAN
           /\ hold \in BOOLEAN /\ hold_calls \in {0, 1}

StatusOK == status \in Ready .. Unsupported

LEMMA OutputParts == OutputOK <=> StatusOK /\ NotesOK /\ FlagsOK
BY DEF OutputOK, StatusOK, NotesOK, FlagsOK

LEMMA BlockedOK == ASSUME NEW h \in SUBSET Notes, EnterBlocked(h)
                   PROVE  /\ heard' \subseteq Notes /\ owed' \subseteq heard'
                          /\ blocked' \in BOOLEAN /\ cleanup' \in BOOLEAN
BY DEF EnterBlocked

LEMMA ReleaseOK == ASSUME OutputOK, RequestRelease
                   PROVE  /\ heard' \subseteq Notes /\ owed' \subseteq heard'
                          /\ blocked' \in BOOLEAN /\ cleanup' \in BOOLEAN
<1>1. heard' \subseteq Notes /\ owed' \subseteq heard'
  BY DEF OutputOK, RequestRelease
<1>2. blocked' \in BOOLEAN
  BY DEF OutputOK, RequestRelease
<1>3. cleanup' \in BOOLEAN
  BY DEF RequestRelease
<1> QED BY <1>1, <1>2, <1>3

LEMMA RecoveryOK == RequestRecovery => hold' \in BOOLEAN /\ hold_calls' \in {0, 1}
BY DEF RequestRecovery

LEMMA OutputStep == ASSUME TypeOK, [Next]_vars PROVE OutputOK'
<1> USE DEF TypeOK
<1>0. StatusOK /\ NotesOK /\ FlagsOK
  BY OutputParts
<1>1. CASE Edits \/ FinishPublish
  BY <1>1, MainThreadFrame, OutputFrame DEF Elsewhere, OutputVars
<1>2. CASE Activate
  <2>1. status' \in Ready .. Unsupported
    BY <1>2, Statuses DEF Activate
  <2> QED BY <1>2, <2>1 DEF Activate, output, panic, OutputOK
<1>3. CASE Deactivate
  BY <1>3, ReleaseOK DEF Deactivate, panic, OutputOK
<1>4. CASE Reinitialize
  <2>1. StatusOK'
    BY <1>4, Statuses DEF Reinitialize, StatusOK
  <2>2. NotesOK'
    BY <1>4 DEF Reinitialize, NotesOK
  <2>3. FlagsOK'
    BY <1>4 DEF Reinitialize, FlagsOK
  <2> QED BY <2>1, <2>2, <2>3, OutputParts DEF OutputOK, StatusOK, NotesOK, FlagsOK
<1>5. CASE StartProcessing
  <2>1. status' \in Ready .. Unsupported
    BY <1>5, Raising, Statuses DEF StartProcessing, OutputOK
  <2>2. hold' \in BOOLEAN /\ hold_calls' \in {0, 1}
    BY <1>5, RecoveryOK DEF StartProcessing, panic, OutputOK
  <2> QED BY <1>5, <2>1, <2>2 DEF StartProcessing, output, OutputOK
<1>6. CASE StopProcessing
  <2>1. status' \in Ready .. Unsupported
    BY <1>6, Raising, Statuses DEF StopProcessing, OutputOK
  <2> QED BY <1>6, <2>1, ReleaseOK, RecoveryOK DEF StopProcessing, OutputOK
<1>7. CASE RefusedCall \/ UnsupportedLayout \/ NonFinite
  <2>1. status' \in Ready .. Unsupported
    BY <1>7, Raising, Statuses DEF RefusedCall, UnsupportedLayout, NonFinite, OutputOK
  <2>2. EnterBlocked(heard) /\ UNCHANGED <<panic, voices>>
    BY <1>7 DEF RefusedCall, UnsupportedLayout, NonFinite
  <2> QED BY <2>1, <2>2, BlockedOK DEF panic, OutputOK
<1>8. CASE ApplyRuntime \/ SameBoundary
  BY <1>8, OutputFrame DEF ApplyRuntime, SameBoundary, ReadBatch, OutputVars
<1>9. CASE BeginBoundary
  BY <1>9, ReleaseOK DEF BeginBoundary, ReadBatch, panic, OutputOK
<1>10. CASE ClaimPrepared \/ NoSamples \/ NoCommit
  <2>1. status' \in Ready .. Unsupported
    BY <1>10, Raising, Statuses DEF ClaimPrepared, KeepClaim, CancelClaim, FindNone,
                                    NoSamples, NoCommit, OutputOK
  <2>2. UNCHANGED <<output, panic, voices>>
    BY <1>10 DEF ClaimPrepared, NoSamples, NoCommit
  <2> QED BY <2>1, <2>2 DEF output, panic, OutputOK
<1>11. ASSUME NEW in_batch \in BOOLEAN, HandlePanic(in_batch) PROVE OutputOK'
  <2>1. CASE PanicRecovery
    BY <1>11, <2>1, ReleaseOK, RecoveryOK DEF HandlePanic, PanicRecovery, OutputOK
  <2>2. CASE UNCHANGED <<output, panic, voices>>
    BY <1>11, <2>2, OutputFrame DEF HandlePanic, OutputVars
  <2> QED BY <1>11, <2>1, <2>2 DEF HandlePanic
<1>12. CASE SupportedLayout \/ NoDetection
  BY <1>12, OutputFrame DEF SupportedLayout, NoDetection, OutputVars
<1>13. ASSUME NEW R \in SUBSET owed, Retry(R) PROVE OutputOK'
  <2>1. status' \in Ready .. Unsupported
    BY <1>13, Raising, Statuses DEF Retry, OutputOK
  <2>2. CASE R = owed
    <3>1. NotesOK'
      BY <1>0, <1>13, <2>2 DEF Retry, NotesOK
    <3>2. FlagsOK'
      BY <1>0, <1>13, <2>2 DEF Retry, panic, FlagsOK
    <3> QED BY <2>1, <3>1, <3>2 DEF OutputOK, NotesOK, FlagsOK
  <2>3. CASE R # owed
    <3>1. EnterBlocked(heard \ R) /\ UNCHANGED <<panic, voices>>
      BY <1>13, <2>3 DEF Retry
    <3>2. heard \ R \in SUBSET Notes
      BY DEF OutputOK
    <3> QED BY <2>1, <3>1, <3>2, BlockedOK DEF panic, OutputOK
  <2> QED BY <2>2, <2>3
<1>14. CASE Commit
  <2>1. status' \in Ready .. Unsupported
    BY <1>14, Statuses DEF Commit, OutputOK
  <2> QED BY <1>14, <2>1 DEF Commit, output, panic, OutputOK
<1>15. ASSUME NEW d \in SUBSET Notes, Detect(d) PROVE OutputOK'
  <2>1. voices' = d /\ UNCHANGED <<status, panic>>
    BY <1>15 DEF Detect
  <2>2. ASSUME NEW h \in SUBSET Notes, EnterBlocked(h) PROVE OutputOK'
    BY <2>1, <2>2, BlockedOK DEF panic, OutputOK
  <2>3. CASE /\ heard' = (heard \ (voices \ d)) \cup (d \ voices)
             /\ UNCHANGED <<owed, blocked, cleanup>>
    <3>1. owed = {} /\ heard' \subseteq Notes
      BY <1>15, <2>3 DEF Detect, DetectorAllowed, OutputOK
    <3> QED BY <2>1, <2>3, <3>1 DEF panic, OutputOK
  <2> QED BY <1>15, <2>2, <2>3 DEF Detect
<1>16. ASSUME NEW quiet \in BOOLEAN, Finish(quiet) PROVE OutputOK'
  <2>1. FlagsOK'
    BY <1>0, <1>16 DEF Finish, FlagsOK
  <2>2. status' \in Ready .. Unsupported
    BY <1>16, Raising, Statuses DEF Finish, Delivered, OutputOK
  <2> QED BY <1>16, <2>1, <2>2 DEF Finish, FlagsOK, OutputOK
<1>17. CASE UNCHANGED vars
  BY <1>17, OutputFrame DEF vars, OutputVars
<1> QED
  BY <1>1, <1>2, <1>3, <1>4, <1>5, <1>6, <1>7, <1>8, <1>9, <1>10, <1>11, <1>12, <1>13,
     <1>14, <1>15, <1>16, <1>17 DEF Next, Lifecycle, StartCall, ProcessCall

Stages == {"idle", "claim_early", "panic", "samples", "retry", "claim_late", "commit",
           "detect", "finish"}

CallVars == <<lifecycle, panic_requested, call, host>>

LEMMA CallFrame == ASSUME CallOK, UNCHANGED CallVars PROVE CallOK'
BY DEF CallVars, lifecycle, call, host, CallOK

\* A step of process() moves the stage on and may change the call's two flags.
CallMoves(s) ==
  /\ stage' = s /\ UNCHANGED <<lifecycle, panic_requested, host>>
  /\ supported' \in BOOLEAN /\ finite' \in BOOLEAN

LEMMA MovesOK == ASSUME CallOK, NEW s \in Stages, CallMoves(s) PROVE CallOK'
BY DEF CallMoves, Stages, lifecycle, host, CallOK

LEMMA CountOK == ASSUME CallOK, Count PROVE edits' \in 0 .. MaxEdits
BY ComponentAssumption DEF Count, CallOK

LEMMA NoChangesOK == NoChanges \in [Parameters -> Values \cup {NoChange}]
BY DEF NoChanges

LEMMA CallTypesStep == ASSUME TypeOK, [Next]_vars PROVE CallOK'
<1> USE DEF TypeOK
<1>0. CASE FinishPublish
  BY <1>0, FinishOK DEF Unheard, Changes, lifecycle, call, CallOK
<1>1. CASE Edits
  <2>1. ASSUME NEW p \in Parameters, NEW v \in Values,
               EditorEdit(p, v) \/ HostSetParam(p, v) \/ HostQueues(p, v)
        PROVE  CallOK'
    <3>1. queued' \in [Parameters -> Values \cup {NoChange}]
      <4>1. [main EXCEPT ![p] = v] \in Config
        BY DEF ConfigOK, Config
      <4>2. CASE EditorEdit(p, v) \/ HostSetParam(p, v)
        BY <4>1, <4>2, PublishOK, ChangesOK DEF EditorEdit, HostSetParam, SetParam, Changes
      <4>3. CASE HostQueues(p, v)
        BY <4>3 DEF HostQueues, CallOK
      <4> QED BY <2>1, <4>2, <4>3
    <3>2. edits' \in 0 .. MaxEdits
      BY <2>1, CountOK DEF EditorEdit, HostSetParam, HostQueues
    <3>3. UNCHANGED <<lifecycle, panic_requested, call>>
      BY <2>1 DEF EditorEdit, HostSetParam, HostQueues, Unheard
    <3> QED BY <3>1, <3>2, <3>3 DEF lifecycle, call, CallOK
  <2>2. ASSUME NEW c \in Config, SetState(c) PROVE CallOK'
    <3>1. queued' \in [Parameters -> Values \cup {NoChange}]
      BY <2>2, PublishOK, ChangesOK DEF SetState, Changes
    <3>2. UNCHANGED <<lifecycle, panic_requested, call>> /\ edits' \in 0 .. MaxEdits
      BY <2>2, CountOK DEF SetState, Unheard
    <3> QED BY <3>1, <3>2 DEF lifecycle, call, CallOK
  <2>3. CASE RequestPanic
    <3>1. UNCHANGED <<lifecycle, call, queued>> /\ edits' \in 0 .. MaxEdits
      BY <2>3, CountOK DEF RequestPanic
    <3>2. panic_requested' \in BOOLEAN
      BY <2>3 DEF RequestPanic
    <3> QED BY <3>1, <3>2 DEF lifecycle, call, CallOK
  <2> QED BY <1>1, <2>1, <2>2, <2>3 DEF Edits
<1>2. CASE Lifecycle
  <2>1. /\ active' \in BOOLEAN /\ processing' \in BOOLEAN /\ started' \in BOOLEAN
        /\ panic_requested' \in BOOLEAN
    <3>1. CASE Activate
      BY <3>1 DEF Activate, CallOK
    <3>2. CASE Deactivate
      BY <3>2 DEF Deactivate, CallOK
    <3>3. CASE Reinitialize
      BY <3>3 DEF Reinitialize, CallOK
    <3>4. CASE StartProcessing
      BY <3>4 DEF StartProcessing, CallOK
    <3>5. CASE StopProcessing
      BY <3>5 DEF StopProcessing, CallOK
    <3> QED BY <1>2, <3>1, <3>2, <3>3, <3>4, <3>5 DEF Lifecycle
  <2>2. UNCHANGED <<call, host>>
    BY <1>2 DEF Lifecycle, Activate, Deactivate, Reinitialize, StartProcessing,
                StopProcessing
  <2> QED BY <2>1, <2>2 DEF call, host, CallOK
<1>3. CASE RefusedCall
  BY <1>3, NoChangesOK DEF RefusedCall, lifecycle, call, CallOK
<1>4. CASE StartCall
  <2>1. ASSUME NEW s \in Stages, ReadBatch(s) PROVE CallOK'
    BY <2>1, NoChangesOK DEF ReadBatch, Stages, lifecycle, CallOK
  <2>2. "panic" \in Stages /\ "claim_early" \in Stages
    BY DEF Stages
  <2> QED BY <1>4, <2>1, <2>2 DEF StartCall, ApplyRuntime, SameBoundary, BeginBoundary
<1>5. ASSUME NEW in_batch \in BOOLEAN, HandlePanic(in_batch) PROVE CallOK'
  <2>1. stage' \in Stages /\ UNCHANGED <<lifecycle, supported, finite, queued>>
    BY <1>5 DEF HandlePanic, Stages
  <2>2. edits' \in 0 .. MaxEdits
    BY <1>5, CountOK DEF HandlePanic, CallOK
  <2>3. panic_requested' \in BOOLEAN
    BY <1>5 DEF HandlePanic, CallOK
  <2> QED BY <2>1, <2>2, <2>3 DEF Stages, lifecycle, CallOK
<1>6. CASE ClaimPrepared \/ NoSamples \/ SupportedLayout \/ Commit \/ NoCommit \/ NoDetection
  <2>1. stage' \in Stages
    BY <1>6 DEF ClaimPrepared, NoSamples, SupportedLayout, Commit, NoCommit, NoDetection,
                Stages
  <2>2. CallMoves(stage')
    BY <1>6 DEF ClaimPrepared, NoSamples, SupportedLayout, Commit, NoCommit, NoDetection,
                CallMoves, CallOK
  <2> QED BY <2>1, <2>2, MovesOK
<1>7. CASE UnsupportedLayout
  BY <1>7, MovesOK DEF UnsupportedLayout, CallMoves, Stages, CallOK
<1>8. CASE NonFinite
  BY <1>8, MovesOK DEF NonFinite, CallMoves, Stages, CallOK
<1>9. ASSUME NEW R \in SUBSET owed, Retry(R) PROVE CallOK'
  <2>1. AfterRetry \in Stages
    BY DEF AfterRetry, Stages
  <2>2. CallMoves(AfterRetry)
    BY <1>9 DEF Retry, CallMoves, CallOK
  <2> QED BY <2>1, <2>2, MovesOK
<1>10. ASSUME NEW d \in SUBSET Notes, Detect(d) PROVE CallOK'
  BY <1>10, MovesOK DEF Detect, CallMoves, Stages, CallOK
<1>11. ASSUME NEW quiet \in BOOLEAN, Finish(quiet) PROVE CallOK'
  BY <1>11, MovesOK DEF Finish, CallMoves, Stages
<1>12. CASE UNCHANGED vars
  BY <1>12, CallFrame DEF vars, CallVars
<1> QED
  BY <1>0, <1>1, <1>2, <1>3, <1>4, <1>5, <1>6, <1>7, <1>8, <1>9, <1>10, <1>11, <1>12
  DEF Next, ProcessCall

-----------------------------------------------------------------------------
(* The theorems *)

\* Every variable of the component keeps its type.
THEOREM ComponentTypeOK == Spec => []TypeOK
<1>1. Init => TypeOK
  <2> SUFFICES ASSUME Init PROVE TypeOK
    OBVIOUS
  <2>1. ConfigOK
    <3>1. /\ main \in Config /\ requested \in Config /\ config \in Config
          /\ pending \in Config
      BY DefaultConfig DEF Init
    <3>2. /\ main_generation \in Nat \ {0} /\ active_generation \in Nat
          /\ ready = {} /\ claim = NoClaim /\ replacing = NoPublication
      BY DEF Init
    <3>3. boundary \in BOOLEAN
      BY DEF Init
    <3> QED BY <3>1, <3>2, <3>3 DEF ConfigOK
  <2>2. OutputOK
    BY Statuses DEF Init, OutputOK
  <2>3. CallOK
    <3>1. /\ active \in BOOLEAN /\ processing \in BOOLEAN /\ started \in BOOLEAN
          /\ panic_requested \in BOOLEAN /\ supported \in BOOLEAN /\ finite \in BOOLEAN
      BY DEF Init
    <3>2. stage = "idle" /\ edits \in 0 .. MaxEdits
      BY ComponentAssumption DEF Init
    <3>3. queued \in [Parameters -> Values \cup {NoChange}]
      BY NoChangesOK DEF Init
    <3> QED BY <3>1, <3>2, <3>3 DEF CallOK
  <2> QED BY <2>1, <2>2, <2>3 DEF TypeOK
<1>2. TypeOK /\ [Next]_vars => TypeOK'
  BY ConfigStep, OutputStep, CallTypesStep DEF TypeOK
<1> QED BY <1>1, <1>2, PTL DEF Spec

LEMMA ComponentSafety == Spec => []SafetyInv
<1>1. Init => SafetyInv
  BY InitSafety
<1>2. SafetyInv /\ [Next]_vars => SafetyInv'
  BY CallStep, NoteStep, ClaimStep DEF SafetyInv
<1> QED BY <1>1, <1>2, PTL DEF Spec

\* Whatever boundary, panic, stop, failure or restart came before, process() runs the
\* detector only with the notes the host has on.
THEOREM DetectorStaysInStep == Spec => []DetectorInStep
<1>1. SafetyInv => DetectorInStep
  <2> SUFFICES ASSUME SafetyInv, DetectorAllowed PROVE voices = heard
    BY DEF DetectorInStep
  <2>1. CASE processing
    BY <2>1 DEF SafetyInv, NoteInv, InStep, DetectorAllowed
  <2>2. CASE ~processing
    BY <2>2 DEF SafetyInv, NoteInv, OwesAll, Emptied, DetectorAllowed
  <2> QED BY <2>1, <2>2
<1> QED BY <1>1, ComponentSafety, PTL

\* A claim that claim_matching_prepared_config() took is still what the boundary asked
\* for, and newer than the active configuration, whenever commit() is called.
THEOREM HeldClaimFits == Spec => []ClaimFits
<1>1. SafetyInv => ClaimFits
  BY DEF SafetyInv
<1> QED BY <1>1, ComponentSafety, PTL

\* commit_prepared_config_if_released() swaps the structural settings only when no note
\* of the old ones sounds.
THEOREM SwapsAreSilent == Spec => SilentSwap
<1>1. SafetyInv /\ [Next]_vars => SwapIsSilent
  BY SwapStep DEF SafetyInv
<1>2. SwapIsSilent =>
        (active /\ active' /\ ~StructuralEqual(config', config)
           => heard = {} /\ heard' = {})
  BY DEF SwapIsSilent
<1> QED BY <1>1, <1>2, ComponentSafety, PTL DEF Spec, SilentSwap

\* update_delivery_status() never leaves a call with samples in Ready while the output is
\* blocked or the panic hold is on.
THEOREM ReadyIsOpen == Spec => ReadyMeansOpen
<1>1. ASSUME TypeOK, [Next]_vars, stage = "finish", stage' = "idle", status' = Ready
      PROVE  ~blocked' /\ ~hold'
  <2>1. PICK quiet \in BOOLEAN : Finish(quiet)
    BY <1>1, MainThreadFrame DEF Next, Elsewhere, call, Lifecycle, Activate, Deactivate, Reinitialize, StartProcessing,
       StopProcessing, RefusedCall, StartCall, ApplyRuntime, SameBoundary, BeginBoundary,
       ReadBatch, ProcessCall, ClaimPrepared, HandlePanic, NoSamples, SupportedLayout,
       UnsupportedLayout, Retry, Commit, NoCommit, NonFinite, NoDetection, Detect, vars
  <2>2. Delivered(blocked', hold') = Ready
    BY <1>1, <2>1 DEF Finish
  <2>3. Raised(MidiBlocked) # Ready /\ Raised(PanicHold) # Ready
    BY <1>1, Raising, Statuses DEF TypeOK, OutputOK, MidiBlocked, PanicHold, Ready
  <2> QED BY <2>2, <2>3 DEF Delivered, Unsupported, Invalid, Ready
<1>2. TypeOK /\ [Next]_vars =>
        (stage = "finish" /\ stage' = "idle" /\ status' = Ready => ~blocked' /\ ~hold')
  BY <1>1
<1> QED BY <1>2, ComponentTypeOK, PTL DEF Spec, ReadyMeansOpen
-----------------------------------------------------------------------------
(* The component on the exchange's service *)

\* The generations in use are between the active one and the last one, each of one
\* configuration only, and none is left when the plug-in is not active.
NumbersInv ==
  /\ active_generation <= main_generation
  /\ ~active => ready = {} /\ claim = NoClaim
  /\ \A r \in Cancelled : active_generation < r.generation /\ r.generation <= main_generation
  /\ \A r, q \in Cancelled : r.generation = q.generation => r = q
  /\ claim \notin ready

\* Each edit is numbered at most once, one that is being published not yet.
EditsInv ==
  /\ main_generation <= edits + 1
  /\ Publishing => active /\ main_generation <= edits

\* claim_latest is called only without a claim.
UnclaimedInv == stage \in {"claim_early", "claim_late"} => claim = NoClaim

ServiceInv == NumbersInv /\ EditsInv /\ UnclaimedInv

LEMMA RacesKeeps == ASSUME ConfigOK, RacesPublication PROVE Publishing' <=> Publishing
<1>1. CASE replacing = NoPublication
  BY <1>1 DEF RacesPublication, Publishing
<1>2. CASE replacing # NoPublication
  <2>1. replacing \in Publication /\ replacing' = [replacing EXCEPT !.raced = TRUE]
    BY <1>2 DEF RacesPublication, ConfigOK
  <2>2. replacing'.raced = TRUE
    BY <2>1 DEF Publication
  <2>3. replacing' # NoPublication
    BY <2>2 DEF NoPublication
  <2> QED BY <1>2, <2>3 DEF Publishing
<1> QED BY <1>1, <1>2

LEMMA UnclaimedStep == ASSUME UnclaimedInv, [Next]_vars PROVE UnclaimedInv'
<1> USE DEF UnclaimedInv
<1>1. CASE Edits \/ FinishPublish
  BY <1>1, MainThreadFrame DEF Elsewhere, call
<1>2. CASE Lifecycle
  BY <1>2 DEF Lifecycle, Activate, Deactivate, Reinitialize, StartProcessing,
              StopProcessing, call, exchange
<1>3. CASE RefusedCall
  BY <1>3 DEF RefusedCall, call, exchange
<1>4. CASE StartCall
  BY <1>4 DEF StartCall, ApplyRuntime, SameBoundary, BeginBoundary, ReadBatch
<1>5. CASE ClaimPrepared \/ NoSamples \/ SupportedLayout \/ UnsupportedLayout
  BY <1>5 DEF ClaimPrepared, NoSamples, SupportedLayout, UnsupportedLayout
<1>6. CASE Commit \/ NoCommit \/ NonFinite \/ NoDetection
  BY <1>6 DEF Commit, NoCommit, NonFinite, NoDetection
<1>7. ASSUME NEW in_batch \in BOOLEAN, HandlePanic(in_batch) PROVE UnclaimedInv'
  BY <1>7 DEF HandlePanic
<1>8. ASSUME NEW R \in SUBSET owed, Retry(R) PROVE UnclaimedInv'
  BY <1>8 DEF Retry, AfterRetry, exchange
<1>9. ASSUME NEW d \in SUBSET Notes, Detect(d) PROVE UnclaimedInv'
  BY <1>9 DEF Detect
<1>10. ASSUME NEW quiet \in BOOLEAN, Finish(quiet) PROVE UnclaimedInv'
  BY <1>10 DEF Finish
<1>11. CASE UNCHANGED vars
  BY <1>11 DEF vars, call, exchange
<1> QED
  BY <1>1, <1>2, <1>3, <1>4, <1>5, <1>6, <1>7, <1>8, <1>9, <1>10, <1>11
  DEF Next, ProcessCall

LEMMA EditsFrame ==
  ASSUME EditsInv, UNCHANGED <<main_generation, edits, active>>, Publishing' <=> Publishing
  PROVE  EditsInv'
BY DEF EditsInv

LEMMA EditsStep == ASSUME TypeOK, EditsInv, [Next]_vars PROVE EditsInv'
<1> USE DEF TypeOK
<1>n. main_generation \in Nat /\ edits \in Nat
  BY ComponentAssumption DEF ConfigOK, CallOK
<1>1. CASE Edits
  <2>1. ASSUME NEW c, NEW change, PublishMainConfig(c, change), Count, UNCHANGED Unheard
        PROVE  EditsInv'
    <3>1. CASE UNCHANGED <<mainvars, replacing>>
      BY <1>n, <2>1, <3>1 DEF mainvars, Unheard, lifecycle, Count, Publishing, EditsInv
    <3>2. CASE TakeOver(c, change) /\ UNCHANGED replacing /\ ~Publishing
      BY <1>n, <2>1, <3>2 DEF TakeOver, Count, Publishing, EditsInv
    <3>3. CASE UNCHANGED mainvars /\ active
      BY <1>n, <2>1, <3>3 DEF mainvars, Unheard, lifecycle, Count, EditsInv
    <3> QED BY <2>1, <3>1, <3>2, <3>3 DEF PublishMainConfig
  <2>2. ASSUME Count, UNCHANGED <<mainvars, replacing, lifecycle>> PROVE EditsInv'
    BY <1>n, <2>2 DEF mainvars, lifecycle, Count, Publishing, EditsInv
  <2> QED
    BY <1>1, <2>1, <2>2 DEF Edits, EditorEdit, HostSetParam, SetParam, HostQueues, SetState,
                            RequestPanic, Unheard, exchange
<1>2. CASE FinishPublish
  <2>1. ~Publishing' /\ Publishing /\ UNCHANGED edits
    BY <1>2 DEF FinishPublish, ReplaceReady, PublishRefused, Publishing, host
  <2>2. main_generation' = main_generation + 1 \/ main_generation' = main_generation
    BY <1>2 DEF FinishPublish, ReplaceReady, PublishRefused, TakeOver, mainvars
  <2> QED BY <1>n, <2>1, <2>2 DEF EditsInv
<1>3. CASE Activate \/ Deactivate
  BY <1>3 DEF Activate, Deactivate, mainvars, host, Publishing, EditsInv
<1>4. CASE Reinitialize
  <2>1. ~Publishing' /\ main_generation' = 1 /\ UNCHANGED edits
    BY <1>4 DEF Reinitialize, Publishing, host
  <2> QED BY <1>n, <2>1 DEF EditsInv
<1>5. CASE StartProcessing \/ StopProcessing \/ RefusedCall \/ NoSamples \/ SupportedLayout
           \/ UnsupportedLayout \/ NoCommit \/ NonFinite \/ NoDetection
  <2>1. UNCHANGED <<main_generation, edits, active, replacing>>
    BY <1>5 DEF StartProcessing, StopProcessing, RefusedCall, NoSamples, SupportedLayout,
                UnsupportedLayout, NoCommit, NonFinite, NoDetection, mainvars, exchange,
                lifecycle, host
  <2> QED BY <2>1, EditsFrame DEF Publishing
<1>6. CASE ApplyRuntime \/ SameBoundary
  BY <1>6, EditsFrame DEF ApplyRuntime, SameBoundary, ReadBatch, mainvars, lifecycle, Publishing
<1>7. CASE BeginBoundary \/ ClaimPrepared \/ Commit
  <2>1. UNCHANGED <<main_generation, edits, active>>
    BY <1>7 DEF BeginBoundary, ReadBatch, ClaimPrepared, Commit, mainvars, lifecycle, host
  <2>2. UNCHANGED replacing \/ RacesPublication
    BY <1>7 DEF BeginBoundary, ClaimPrepared, Commit
  <2> QED BY <2>1, <2>2, RacesKeeps, EditsFrame DEF Publishing
<1>8. ASSUME NEW in_batch \in BOOLEAN, HandlePanic(in_batch) PROVE EditsInv'
  <2>1. UNCHANGED <<main_generation, active, replacing>> /\ (Count \/ UNCHANGED edits)
    BY <1>8 DEF HandlePanic, mainvars, lifecycle, exchange
  <2> QED BY <1>n, <2>1 DEF Count, Publishing, EditsInv
<1>9. ASSUME NEW R \in SUBSET owed, Retry(R) PROVE EditsInv'
  BY <1>9, EditsFrame DEF Retry, mainvars, exchange, lifecycle, host, Publishing
<1>10. ASSUME NEW d \in SUBSET Notes, Detect(d) PROVE EditsInv'
  BY <1>10, EditsFrame DEF Detect, mainvars, exchange, lifecycle, host, Publishing
<1>11. ASSUME NEW quiet \in BOOLEAN, Finish(quiet) PROVE EditsInv'
  BY <1>11, EditsFrame DEF Finish, mainvars, exchange, lifecycle, host, Publishing
<1>12. CASE UNCHANGED vars
  BY <1>12, EditsFrame DEF vars, mainvars, exchange, lifecycle, host, Publishing
<1> QED
  BY <1>1, <1>2, <1>3, <1>4, <1>5, <1>6, <1>7, <1>8, <1>9, <1>10, <1>11, <1>12
  DEF Next, Lifecycle, StartCall, ProcessCall

\* What a step can be to the exchange: nothing at all, ...
Unseen == UNCHANGED <<ready, claim, active, active_generation, main_generation>>

\* ... a configuration numbered outside the exchange, ...
Renumbered ==
  /\ main_generation' = main_generation + 1
  /\ UNCHANGED <<ready, claim, active, active_generation>>

\* ... a publication that takes the place of at most one, ...
Published ==
  /\ active /\ main_generation' = main_generation + 1
  /\ UNCHANGED <<claim, active, active_generation>>
  /\ \E c \in Config, lost \in SUBSET ready :
       (\A q, r \in lost : q = r) /\ ready' = (ready \ lost) \cup {Numbered(c)}

\* ... a claim, ...
ClaimKept ==
  /\ claim = NoClaim /\ claim' \in ready /\ ready' = ready \ {claim'}
  /\ UNCHANGED <<active, active_generation, main_generation>>

\* ... a claim given back, ...
GivenBack ==
  /\ claim # NoClaim /\ claim' = NoClaim /\ ready' = ready \cup {claim}
  /\ UNCHANGED <<active, active_generation, main_generation>>

\* ... a commit, ...
Committed ==
  /\ claim # NoClaim /\ claim' = NoClaim
  /\ ready' = NewerThan(claim.generation) /\ active_generation' = claim.generation
  /\ UNCHANGED <<active, main_generation>>

\* ... or a restart.
Restarted == Activate \/ Deactivate \/ Reinitialize

LEMMA ReadyIsNewer == ASSUME ConfigOK, NumbersInv PROVE NewerThan(active_generation) = ready
<1>1. \A r \in ready : active_generation < r.generation /\ r.generation \in Nat
  BY DEF NumbersInv, Cancelled, ConfigOK, Prepared
<1>2. \A r \in ready : r.generation > active_generation
  BY <1>1 DEF ConfigOK
<1> QED BY <1>2 DEF NewerThan

LEMMA ComponentStepKinds ==
  ASSUME TypeOK, ServiceInv, [Next]_vars
  PROVE  \/ Unseen \/ Renumbered \/ Published \/ ClaimKept \/ GivenBack \/ Committed
         \/ Restarted
<1> USE DEF TypeOK, ServiceInv
<1>1. CASE Edits
  <2>1. ASSUME NEW c \in Config, NEW change, PublishMainConfig(c, change), UNCHANGED Unheard
        PROVE  Unseen \/ Renumbered \/ Published
    <3>1. UNCHANGED <<claim, active, active_generation>>
      BY <2>1 DEF Unheard, lifecycle
    <3>2. CASE UNCHANGED <<mainvars, ready>>
      BY <3>1, <3>2 DEF mainvars, Unseen
    <3>3. CASE TakeOver(c, change) /\ UNCHANGED ready
      BY <3>1, <3>3 DEF TakeOver, Renumbered
    <3>4. CASE TakeOver(c, change) /\ ready' = ready \cup {Numbered(c)} /\ active
      <4>1. ready' = (ready \ {}) \cup {Numbered(c)} /\ {} \in SUBSET ready
        BY <3>4
      <4> QED BY <3>1, <3>4, <4>1 DEF TakeOver, Published
    <3> QED BY <2>1, <3>2, <3>3, <3>4 DEF PublishMainConfig
  <2>2. ASSUME NEW p \in Parameters, NEW v \in Values PROVE [main EXCEPT ![p] = v] \in Config
    BY DEF ConfigOK, Config
  <2>3. ASSUME NEW p \in Parameters, NEW v \in Values, EditorEdit(p, v) \/ HostSetParam(p, v)
        PROVE  Unseen \/ Renumbered \/ Published
    BY <2>1, <2>2, <2>3 DEF EditorEdit, HostSetParam, SetParam
  <2>4. ASSUME NEW c \in Config, SetState(c) PROVE Unseen \/ Renumbered \/ Published
    BY <2>1, <2>4 DEF SetState
  <2>5. ASSUME NEW p, NEW v, HostQueues(p, v) PROVE Unseen
    BY <2>5 DEF HostQueues, Unheard, mainvars, lifecycle, Unseen
  <2>6. CASE RequestPanic
    BY <2>6 DEF RequestPanic, mainvars, exchange, lifecycle, Unseen
  <2> QED BY <1>1, <2>3, <2>4, <2>5, <2>6 DEF Edits
<1>2. CASE ReplaceReady
  <2>1. replacing.config \in Config
    BY <1>2 DEF ReplaceReady, Publishing, ConfigOK, Publication
  <2>2. active /\ UNCHANGED <<claim, active, active_generation>>
    BY <1>2 DEF ReplaceReady, Unheard, lifecycle, EditsInv
  <2>3. PICK lost \in Replaceable : ready' = (ready \ lost) \cup {Numbered(replacing.config)}
    BY <1>2 DEF ReplaceReady
  <2>4. lost \in SUBSET ready /\ \A q, r \in lost : q = r
    BY <2>3 DEF Replaceable
  <2>5. main_generation' = main_generation + 1
    BY <1>2 DEF ReplaceReady, TakeOver
  <2> QED BY <2>1, <2>2, <2>3, <2>4, <2>5 DEF Published
<1>3. CASE PublishRefused
  BY <1>3 DEF PublishRefused, Unheard, mainvars, lifecycle, Unseen
<1>4. CASE StartProcessing \/ StopProcessing \/ RefusedCall \/ NoSamples \/ SupportedLayout
           \/ UnsupportedLayout \/ NoCommit \/ NonFinite \/ NoDetection
  BY <1>4 DEF StartProcessing, StopProcessing, RefusedCall, NoSamples, SupportedLayout,
              UnsupportedLayout, NoCommit, NonFinite, NoDetection, mainvars, exchange,
              lifecycle, Unseen
<1>5. CASE ApplyRuntime \/ SameBoundary
  BY <1>5 DEF ApplyRuntime, SameBoundary, ReadBatch, mainvars, lifecycle, Unseen
<1>6. CASE BeginBoundary
  <2>1. CASE claim = NoClaim
    BY <1>6, <2>1 DEF BeginBoundary, ReadBatch, Cancelled, mainvars, lifecycle, Unseen
  <2>2. CASE claim # NoClaim
    BY <1>6, <2>2 DEF BeginBoundary, ReadBatch, Cancelled, mainvars, lifecycle, GivenBack
  <2> QED BY <2>1, <2>2
<1>7. CASE ClaimPrepared
  <2>1. UNCHANGED <<active, active_generation, main_generation>> /\ claim = NoClaim
    BY <1>7 DEF ClaimPrepared, mainvars, lifecycle, UnclaimedInv
  <2>2. CASE KeepClaim
    <3>1. PICK r \in Matching : claim' = r /\ ready' = ready \ {r}
      BY <2>2 DEF KeepClaim
    <3>2. r \in ready
      BY <3>1 DEF Matching, Claimable, NewerThan
    <3> QED BY <2>1, <3>1, <3>2 DEF ClaimKept
  <2>3. CASE CancelClaim
    BY <2>1, <2>3 DEF CancelClaim, Unseen
  <2>4. CASE FindNone
    BY <2>1, <2>4, ReadyIsNewer DEF FindNone, Unseen
  <2> QED BY <1>7, <2>2, <2>3, <2>4 DEF ClaimPrepared
<1>8. CASE Commit
  BY <1>8 DEF Commit, MayCommit, mainvars, lifecycle, Committed
<1>9. ASSUME NEW in_batch \in BOOLEAN, HandlePanic(in_batch) PROVE Unseen
  BY <1>9 DEF HandlePanic, mainvars, exchange, lifecycle, Unseen
<1>10. ASSUME NEW R \in SUBSET owed, Retry(R) PROVE Unseen
  BY <1>10 DEF Retry, mainvars, exchange, lifecycle, Unseen
<1>11. ASSUME NEW d \in SUBSET Notes, Detect(d) PROVE Unseen
  BY <1>11 DEF Detect, mainvars, exchange, lifecycle, Unseen
<1>12. ASSUME NEW quiet \in BOOLEAN, Finish(quiet) PROVE Unseen
  BY <1>12 DEF Finish, mainvars, exchange, lifecycle, Unseen
<1>13. CASE UNCHANGED vars
  BY <1>13 DEF vars, mainvars, exchange, lifecycle, Unseen
<1> QED
  BY <1>1, <1>2, <1>3, <1>4, <1>5, <1>6, <1>7, <1>8, <1>9, <1>10, <1>11, <1>12, <1>13
  DEF Next, FinishPublish, Lifecycle, StartCall, ProcessCall, Restarted

LEMMA NumbersStep ==
  ASSUME TypeOK, TypeOK', ServiceInv, [Next]_vars
  PROVE  NumbersInv'
<1> USE DEF TypeOK, ServiceInv
<1>n. /\ main_generation \in Nat /\ active_generation \in Nat
      /\ \A r \in Cancelled : r.generation \in Nat
  BY DEF ConfigOK, Cancelled, Prepared
<1>1. CASE Unseen
  BY <1>1 DEF Unseen, NumbersInv, Cancelled
<1>2. CASE Renumbered
  BY <1>n, <1>2 DEF Renumbered, NumbersInv, Cancelled
<1>3. CASE Published
  <2>1. PICK c \in Config, lost \in SUBSET ready : ready' = (ready \ lost) \cup {Numbered(c)}
    BY <1>3 DEF Published
  <2>2. /\ active /\ main_generation' = main_generation + 1
        /\ UNCHANGED <<claim, active, active_generation>>
    BY <1>3 DEF Published
  <2>3. Numbered(c).generation = main_generation + 1
    BY DEF Numbered
  <2>4. Cancelled' \subseteq Cancelled \cup {Numbered(c)}
    BY <2>1, <2>2 DEF Cancelled
  <2>5. \A r \in Cancelled : r.generation # main_generation + 1
    BY <1>n DEF NumbersInv
  <2>6. claim' \notin ready'
    <3>1. claim # Numbered(c)
      <4>1. CASE claim = NoClaim
        BY <1>n, <2>3, <4>1 DEF NoClaim
      <4>2. CASE claim # NoClaim
        BY <2>3, <2>5, <4>2 DEF Cancelled
      <4> QED BY <4>1, <4>2
    <3> QED BY <2>1, <2>2, <3>1 DEF NumbersInv
  <2>7. /\ \A r \in Cancelled' : active_generation' < r.generation
                                 /\ r.generation <= main_generation'
        /\ active_generation' <= main_generation'
    BY <1>n, <2>2, <2>3, <2>4 DEF NumbersInv
  <2>8. \A r, q \in Cancelled' : r.generation = q.generation => r = q
    BY <2>3, <2>4, <2>5 DEF NumbersInv
  <2> QED BY <2>2, <2>6, <2>7, <2>8 DEF NumbersInv
<1>4. CASE ClaimKept
  <2>1. /\ claim = NoClaim /\ claim' \in ready /\ ready' = ready \ {claim'}
        /\ UNCHANGED <<active, active_generation, main_generation>>
    BY <1>4 DEF ClaimKept
  <2>2. Cancelled' \subseteq Cancelled
    BY <2>1 DEF Cancelled
  <2> QED BY <2>1, <2>2 DEF NumbersInv
<1>5. CASE GivenBack
  <2>1. /\ claim # NoClaim /\ claim' = NoClaim /\ ready' = ready \cup {claim}
        /\ UNCHANGED <<active, active_generation, main_generation>>
    BY <1>5 DEF GivenBack
  <2>2. Cancelled' = Cancelled
    BY <2>1 DEF Cancelled
  <2>3. NoClaim \notin ready
    BY DEF ConfigOK, Prepared, NoClaim
  <2> QED BY <2>1, <2>2, <2>3 DEF NumbersInv
<1>6. CASE Committed
  <2>1. /\ claim # NoClaim /\ claim' = NoClaim /\ ready' = NewerThan(claim.generation)
        /\ active_generation' = claim.generation
        /\ UNCHANGED <<active, main_generation>>
    BY <1>6 DEF Committed
  <2>2. Cancelled' \subseteq Cancelled
    BY <2>1 DEF Cancelled, NewerThan
  <2>3. claim \in Cancelled /\ claim.generation \in Nat
    BY <1>n, <2>1 DEF Cancelled
  <2>4. \A r \in Cancelled' : active_generation' < r.generation
    BY <1>n, <2>1, <2>2, <2>3 DEF Cancelled, NewerThan
  <2>5. NoClaim \notin ready
    BY DEF ConfigOK, Prepared, NoClaim
  <2>6. claim' \notin ready'
    BY <2>1, <2>5 DEF NewerThan
  <2> QED BY <2>1, <2>2, <2>3, <2>4, <2>6 DEF NumbersInv
<1>7. CASE Restarted
  <2>1. ready' = {} /\ claim' = NoClaim /\ active_generation' <= main_generation'
    BY <1>n, <1>7 DEF Restarted, Activate, Deactivate, Reinitialize, mainvars, NumbersInv
  <2> QED BY <2>1 DEF NumbersInv, Cancelled
<1> QED BY <1>1, <1>2, <1>3, <1>4, <1>5, <1>6, <1>7, ComponentStepKinds

\* The generations that wait, as the service names them.
Waiting == {r.generation : r \in ready}

LEMMA WithinEdits == \A e \in 0 .. MaxEdits, n \in Nat : n <= e + 1 => n \in Generations
BY ComponentAssumption DEF Generations

LEMMA FollowsStep ==
  ASSUME TypeOK, TypeOK', ServiceInv, EditsInv', [Next]_vars
  PROVE  [Service!Next]_(Service!vars)
<1> USE DEF TypeOK, ServiceInv
<1> SUFFICES Service!Next \/ UNCHANGED Service!vars
  OBVIOUS
<1>n. /\ main_generation \in Nat /\ active_generation \in Nat
      /\ \A r \in Cancelled : r.generation \in Nat
  BY DEF ConfigOK, Cancelled, Prepared
<1>g. /\ main_generation \in Generations
      /\ main_generation' \in Nat => main_generation' \in Generations
      /\ \A n \in Nat : n <= main_generation => n \in Generations
  <2>1. /\ main_generation <= edits + 1 /\ edits \in 0 .. MaxEdits
        /\ main_generation' <= edits' + 1 /\ edits' \in 0 .. MaxEdits
    BY DEF EditsInv, CallOK
  <2>2. edits \in Nat
    BY <2>1, ComponentAssumption
  <2>3. main_generation \in Nat
    BY DEF ConfigOK
  <2> QED BY <2>1, <2>2, <2>3, WithinEdits
<1>c. /\ ready \subseteq Cancelled
      /\ claim # NoClaim => claim \in Cancelled /\ active
  BY DEF Cancelled, NumbersInv
<1>h. /\ claim.generation = -1 <=> claim = NoClaim
      /\ claim'.generation = -1 <=> claim' = NoClaim
  BY DEF ConfigOK, Prepared, NoClaim
<1>1. CASE Unseen
  BY <1>1 DEF Unseen, Service!vars
<1>2. CASE Renumbered
  BY <1>2 DEF Renumbered, Service!vars
<1>3. CASE Published
  <2>1. PICK c \in Config, lost \in SUBSET ready :
          (\A q, r \in lost : q = r) /\ ready' = (ready \ lost) \cup {Numbered(c)}
    BY <1>3 DEF Published
  <2>2. /\ active /\ main_generation' = main_generation + 1
        /\ UNCHANGED <<claim, active, active_generation>>
    BY <1>3 DEF Published
  <2>3. main_generation + 1 \in Generations
    <3>1. main_generation' \in Nat
      BY <2>2 DEF ConfigOK
    <3> QED BY <1>g, <2>2, <3>1
  <2>4. PICK g \in Generations : g = main_generation + 1
    BY <2>3
  <2>5. PICK dropped : dropped = {r.generation : r \in lost}
    OBVIOUS
  <2>6. Numbered(c).generation = g
    BY <2>4 DEF Numbered
  <2>7. /\ g > active_generation /\ \A r \in ready : g > r.generation
        /\ claim # NoClaim => g > claim.generation
    BY <1>n, <1>c, <2>4 DEF NumbersInv
  <2>8. \A w \in Waiting : g > w
    BY <2>7 DEF Waiting
  <2>9. dropped \in SUBSET Waiting /\ \A v, w \in dropped : v = w
    BY <2>1, <2>5 DEF Waiting
  <2>10. Waiting' = (Waiting \ dropped) \cup {g}
    <3>1. \A r \in ready : r.generation \in dropped => r \in lost
      BY <1>c, <2>5 DEF NumbersInv
    <3> QED BY <2>1, <2>5, <2>6, <3>1 DEF Waiting
  <2>11. Service!Publish(g)
    BY <1>h, <2>2, <2>7, <2>8, <2>9, <2>10 DEF Service!Publish, Waiting
  <2> QED BY <2>11 DEF Service!Next
<1>4. CASE ClaimKept
  <2>1. /\ claim = NoClaim /\ claim' \in ready /\ ready' = ready \ {claim'}
        /\ UNCHANGED <<active, active_generation, main_generation>>
    BY <1>4 DEF ClaimKept
  <2>2. claim'.generation \in Nat /\ claim'.generation <= main_generation
    BY <1>n, <1>c, <2>1 DEF NumbersInv
  <2>3. PICK g \in Generations : g = claim'.generation
    BY <1>g, <2>2
  <2>4. g \in Waiting /\ Waiting' = Waiting \ {g}
    BY <1>c, <2>1, <2>3 DEF Waiting, NumbersInv
  <2>5. Service!Claim(g)
    BY <1>h, <2>1, <2>3, <2>4 DEF Service!Claim, Waiting
  <2> QED BY <2>5 DEF Service!Next
<1>5. CASE GivenBack
  <2>1. /\ claim # NoClaim /\ claim' = NoClaim /\ ready' = ready \cup {claim}
        /\ UNCHANGED <<active, active_generation, main_generation>>
    BY <1>5 DEF GivenBack
  <2>2. Waiting' = Waiting \cup {claim.generation}
    BY <2>1 DEF Waiting
  <2> QED BY <1>h, <2>1, <2>2 DEF Service!GiveBack, Service!Next, Waiting
<1>6. CASE Committed
  <2>1. /\ claim # NoClaim /\ claim' = NoClaim /\ ready' = NewerThan(claim.generation)
        /\ active_generation' = claim.generation /\ active
        /\ UNCHANGED <<active, main_generation>>
    BY <1>c, <1>6 DEF Committed
  <2>2. claim.generation > active_generation
    BY <1>n, <1>c, <2>1 DEF NumbersInv
  <2>3. Waiting' = {w \in Waiting : w > claim.generation}
    BY <2>1 DEF Waiting, NewerThan
  <2> QED BY <1>h, <2>1, <2>2, <2>3 DEF Service!Commit, Service!Next, Waiting
<1>7. CASE Activate
  <2>1. /\ ~active /\ active' /\ ready' = {} /\ claim' = NoClaim
        /\ active_generation' = main_generation
    BY <1>7 DEF Activate
  <2>3. Service!Nothing'
    BY <1>h, <2>1 DEF Service!Nothing
  <2> QED BY <1>g, <2>1, <2>3 DEF Service!Start, Service!Next
<1>8. CASE Deactivate
  <2>1. active /\ ~active' /\ ready' = {} /\ claim' = NoClaim
    BY <1>8 DEF Deactivate
  <2>2. Service!Nothing'
    BY <1>h, <2>1 DEF Service!Nothing
  <2> QED BY <2>1, <2>2 DEF Service!Stop, Service!Next
<1>9. CASE Reinitialize
  <2>1. ~active /\ UNCHANGED active /\ ready' = {} /\ claim' = NoClaim
    BY <1>9 DEF Reinitialize
  <2>2. ready = {} /\ claim = NoClaim
    BY <2>1 DEF NumbersInv
  <2> QED BY <2>1, <2>2 DEF Service!vars
<1> QED
  BY <1>1, <1>2, <1>3, <1>4, <1>5, <1>6, <1>7, <1>8, <1>9, ComponentStepKinds DEF Restarted

\* Whatever the editor, the host and the audio thread do, M3Component and the exchange as
\* it sees it keep to what ExchangeService promises, which the exchange itself implements.
THEOREM ComponentFollowsService == Spec => FollowsService
<1>1. Init => Service!Init /\ ServiceInv
  <2> SUFFICES ASSUME Init PROVE Service!Init /\ ServiceInv
    OBVIOUS
  <2>1. Service!Init
    BY DEF Init, Service!Init, Service!Nothing, NoClaim
  <2>2. NumbersInv
    BY DEF Init, NumbersInv, Cancelled
  <2>3. EditsInv /\ UnclaimedInv
    BY DEF Init, EditsInv, UnclaimedInv, Publishing
  <2> QED BY <2>1, <2>2, <2>3 DEF ServiceInv
<1>2. TypeOK /\ TypeOK' /\ ServiceInv /\ [Next]_vars => ServiceInv'
  BY NumbersStep, EditsStep, UnclaimedStep DEF ServiceInv
<1>3. TypeOK /\ TypeOK' /\ ServiceInv /\ [Next]_vars => [Service!Next]_(Service!vars)
  BY EditsStep, FollowsStep DEF ServiceInv
<1>4. Spec => []ServiceInv
  BY <1>1, <1>2, ComponentTypeOK, PTL DEF Spec
<1> QED BY <1>1, <1>3, <1>4, ComponentTypeOK, PTL DEF Spec, FollowsService, Service!Spec
=============================================================================
