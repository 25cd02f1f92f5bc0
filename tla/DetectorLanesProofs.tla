-------------------------- MODULE DetectorLanesProofs --------------------------
(***************************************************************************)
(* Proofs about the lanes of the detector, for every number of pitches and *)
(* strings, every tuning, polyphony and number of decisions, and whatever  *)
(* is measured.                                                            *)
(***************************************************************************)
EXTENDS DetectorLanes, FiniteSetTheorems, TLAPS

USE DetectorAssumption

-----------------------------------------------------------------------------
(* Lanes are strings *)

LEMMA UnassignedIsNoString == Unassigned \notin Strings
  BY DEF Unassigned, Strings

LEMMA FreshIsTyped == FreshCandidate \in CandidateState
  BY DEF FreshCandidate, CandidateState

LEMMA LanesAreStrings ==
  ASSUME NEW v \in CandidateState
  PROVE  PrimaryBit(v) \subseteq Strings /\ Assigned(v) \subseteq Strings /\ Owned(v) \subseteq Strings
<1>1. PrimaryBit(v) \subseteq Strings
  BY DEF PrimaryBit, CandidateState
<1>2. v.assigned_string_mask \subseteq Strings /\ v.midi_voice_mask \subseteq Strings
  BY DEF CandidateState
<1> QED
  BY <1>1, <1>2 DEF Assigned, Owned

LEMMA ProjectionsAreStrings ==
  ASSUME NEW v \in CandidateState, NEW group \in SUBSET Strings
  PROVE  ProjectedOutput(v, group) \subseteq Strings
<1>1. Assigned(v) \subseteq Strings /\ v.spectral_lane_mask \subseteq Strings
  BY LanesAreStrings DEF CandidateState
<1> QED
  BY <1>1 DEF ProjectedOutput

LEMMA PlayablesAreStrings ==
  ASSUME NEW c \in Candidates
  PROVE  Playable[c] \subseteq Strings
  BY DEF Candidates, Notes

LEMMA TiersAreStrings ==
  ASSUME NEW c \in Candidates, NEW fit, NEW mask
  PROVE  TierCompletions(c, fit, mask) \subseteq SUBSET Strings
  BY PlayablesAreStrings DEF TierCompletions

LEMMA StateOf ==
  ASSUME TypeOK, NEW c \in Candidates
  PROVE  candidate_states[c] \in CandidateState
  BY DEF TypeOK

LEMMA NotesAreNotes ==
  ASSUME TypeOK, NEW c \in Candidates
  PROVE  OutputNote(c) \in Notes
<1>1. candidate_states[c].emitted_note \in Notes \cup {NoNote}
  BY StateOf DEF CandidateState
<1> QED
  BY <1>1 DEF OutputNote, Candidates, Notes

LEMMA CoastingOwnsStrings ==
  ASSUME TypeOK
  PROVE  OwnedBy(Coasting) \subseteq Strings
<1>1. \A c \in Candidates : Owned(candidate_states[c]) \subseteq Strings
  BY StateOf, LanesAreStrings
<1>2. Coasting \subseteq Candidates
  BY DEF Coasting
<1> QED
  BY <1>1, <1>2 DEF OwnedBy

LEMMA OutputsAreStrings ==
  ASSUME TypeOK, NEW note
  PROVE  OutputMask(note) \subseteq Strings
<1>1. \A c \in Candidates : ProjectedOutput(candidate_states[c], {}) \subseteq Strings
  BY StateOf, ProjectionsAreStrings
<1> QED
  BY <1>1 DEF OutputMask

LEMMA SubsetsAreFinite ==
  ASSUME NEW S \in SUBSET Strings
  PROVE  IsFiniteSet(S) /\ Cardinality(S) \in Nat /\ Cardinality(S) <= NumStrings
<1>1. IsFiniteSet(Strings) /\ Cardinality(Strings) = NumStrings
  BY FS_Interval DEF Strings
<1> QED
  BY <1>1, FS_Subset, FS_CardinalityType

-----------------------------------------------------------------------------
(* The steps that several actions share *)

LEMMA BecomeStep ==
  ASSUME TypeOK, NEW c \in Candidates, NEW w \in CandidateState, Become(c, w)
  PROVE  /\ candidate_states' \in [Candidates -> CandidateState]
         /\ candidate_states'[c] = w
         /\ \A d \in Candidates \ {c} : candidate_states'[d] = candidate_states[d]
  BY DEF Become, TypeOK

LEMMA AdvanceStep ==
  ASSUME TypeOK, NEW next, Advance(next)
  PROVE  /\ candidate' \in Candidates /\ stage' \in {stage, next}
         /\ stage' = stage => candidate' = candidate + 1 \/ stage = next
         /\ candidate' = candidate + 1 \/ (candidate' = 0 /\ candidate + 1 = NumCandidates)
  BY DEF Advance, TypeOK, Candidates

Heard == [Candidates -> SUBSET (Strings \X Notes)]

LEMMA AppendStep ==
  ASSUME TypeOK, NEW n \in Nat, NEW sounds \in Heard, Append(n, sounds)
  PROVE  transitions' \in 0 .. MaxTransitions /\ sounding' \in Heard /\ dropped' \in BOOLEAN
<1>1. transitions' \in 0 .. MaxTransitions
  BY DEF Append, Least, TypeOK
<1>2. Silent \in Heard
  BY DEF Silent, Heard
<1>3. dropped' \in BOOLEAN
  BY DEF Append
<1> QED
  BY <1>1, <1>2, <1>3 DEF Append

LEMMA EmitStep ==
  ASSUME TypeOK, NEW c \in Candidates, NEW note \in Notes,
         NEW offs \in SUBSET Strings, NEW ons \in SUBSET Strings, Emit(c, note, offs, ons)
  PROVE  transitions' \in 0 .. MaxTransitions /\ sounding' \in Heard /\ dropped' \in BOOLEAN
<1> DEFINE sounds == [sounding EXCEPT ![c] = (@ \ (offs \X {note})) \cup (ons \X {note})]
           n == Cardinality(offs) + Cardinality(ons)
<1>1. n \in Nat
  BY SubsetsAreFinite
<1>2. sounds \in Heard
  BY DEF TypeOK, Heard
<1>3. Append(n, sounds)
  BY DEF Emit
<1> HIDE DEF n, sounds
<1> QED
  BY <1>1, <1>2, <1>3, AppendStep

LEMMA AccountStep ==
  ASSUME TypeOK, NEW additional \in SUBSET Strings, Cardinality(additional) <= remaining_extra,
         Account(additional)
  PROVE  /\ committed' \in [Candidates -> SUBSET Strings]
         /\ remaining_extra' \in 0 .. MaxPolyphony /\ allocated_extra' \in SUBSET Strings
<1>1. Cardinality(additional) \in Nat
  BY SubsetsAreFinite
<1> QED
  BY <1>1 DEF Account, TypeOK

-----------------------------------------------------------------------------
(* Types *)

\* What the loops over the voices leave alone.
LEMMA VoiceStep ==
  ASSUME TypeOK, UNCHANGED voice_frame, candidate' \in Candidates,
         stage' \in {stage, "attack", "restore"},
         candidate_states' \in [Candidates -> CandidateState], active_count' \in Nat,
         transitions' \in 0 .. MaxTransitions,
         sounding' \in Heard, dropped' \in BOOLEAN
  PROVE  TypeOK'
  BY DEF TypeOK, voice_frame, Heard

LEMMA FineStep ==
  ASSUME TypeOK, NEW chosen, NEW below, UpdateFine(chosen, below)
  PROVE  fine' \in [Candidates -> SUBSET Strings]
<1>1. \A c \in Candidates : FineUpdates(c, chosen, below) \subseteq SUBSET Strings
  <2> SUFFICES ASSUME NEW c \in Candidates PROVE FineUpdates(c, chosen, below) \subseteq SUBSET Strings
    OBVIOUS
  <2>1. fine[c] \in SUBSET Strings
    BY DEF TypeOK
  <2>2. Fits[c] \subseteq SUBSET Strings
    BY DEF Candidates, Notes
  <2> QED
    BY <2>1, <2>2 DEF FineUpdates
<1> QED
  BY <1>1 DEF UpdateFine, Choices

LEMMA SelectTypes ==
  ASSUME TypeOK, SelectQuiet \/ Select
  PROVE  TypeOK'
<1>1. CASE SelectQuiet
  <2>1. candidate_states' \in [Candidates -> CandidateState]
    <3>1. ASSUME NEW v \in CandidateState
          PROVE  [v EXCEPT !.calibrated_output_target = NoNote, !.calibrated_output_ticks = 0]
                   \in CandidateState
      BY DEF CandidateState
    <3> QED
      BY <1>1, <3>1, StateOf DEF SelectQuiet
  <2>2. fine' \in [Candidates -> SUBSET Strings]
    BY <1>1, FineStep DEF SelectQuiet
  <2> QED
    BY <1>1, <2>1, <2>2 DEF SelectQuiet, TypeOK, locals, history
<1>2. CASE Select
  <2>1. fine' \in [Candidates -> SUBSET Strings]
    BY <1>2, FineStep DEF Select
  <2>2. \A c \in Candidates : GroupsOf(c) \subseteq SUBSET Strings
    <3>1. \A c \in Candidates : fine[c] \in SUBSET Strings
      BY DEF TypeOK
    <3> QED
      BY <3>1, TiersAreStrings DEF GroupsOf
  <2>3. selector_group_masks' \in [Candidates -> SUBSET Strings]
    BY <1>2, <2>2 DEF Select, Choices
  <2>4. selected' \in SUBSET Candidates
    BY <1>2 DEF Select
  <2> QED
    BY <1>2, <2>1, <2>3, <2>4 DEF Select, TypeOK, locals
<1> QED
  BY <1>1, <1>2

LEMMA AssignTypes ==
  ASSUME TypeOK, Assign
  PROVE  TypeOK'
<1>1. candidate_states' \in [Candidates -> CandidateState]
  <2>1. CASE UNCHANGED candidate_states
    BY <2>1 DEF TypeOK
  <2>2. CASE ~ UNCHANGED candidate_states
    <3>1. PICK a \in Assignments,
               lanes \in Choices(selected, LAMBDA c : {{}} \cup SpectralLanes(c)) :
            candidate_states' =
               [c \in Candidates |->
                  IF c \in selected
                  THEN [candidate_states[c] EXCEPT !.assigned_string = a[c],
                                                   !.spectral_lane_mask = lanes[c]]
                  ELSE candidate_states[c]]
      BY <2>2 DEF Assign
    <3>2. \A c \in selected : a[c] \in Strings
      BY DEF Assignments, Choices
    <3>3. \A c \in selected : lanes[c] \subseteq Strings
      <4>1. \A c \in selected : lanes[c] \in {{}} \cup SpectralLanes(c)
        BY DEF Choices
      <4>2. \A c \in selected : c \in Candidates
        BY DEF TypeOK
      <4>3. ASSUME NEW c \in Candidates, NEW lane \in SpectralLanes(c)
            PROVE  lane \subseteq Strings
        <5>1. PICK s \in Playable[c] : lane = {s}
          BY DEF SpectralLanes
        <5> QED
          BY <5>1, PlayablesAreStrings
      <4> QED
        BY <4>1, <4>2, <4>3
    <3>4. \A c \in selected : [candidate_states[c] EXCEPT !.assigned_string = a[c],
                                  !.spectral_lane_mask = lanes[c]] \in CandidateState
      <4>1. \A c \in selected : candidate_states[c] \in CandidateState
        BY DEF TypeOK
      <4>2. ASSUME NEW v \in CandidateState, NEW string \in Strings, NEW mask \in SUBSET Strings
            PROVE  [v EXCEPT !.assigned_string = string, !.spectral_lane_mask = mask]
                     \in CandidateState
        BY DEF CandidateState
      <4> QED
        BY <4>1, <4>2, <3>2, <3>3
    <3> QED
      BY <3>1, <3>4, StateOf
  <2> QED
    BY <2>1, <2>2
<1> QED
  BY <1>1 DEF Assign, TypeOK, locals, history

\* Nothing but strings is ever proposed as a group.
LEMMA ProposalsAreStrings ==
  ASSUME TypeOK, NEW c \in Candidates, NEW v \in CandidateState, NEW other, NEW capacity
  PROVE  Proposals(c, v, other, capacity) \subseteq SUBSET Strings
<1>1. fine[c] \subseteq Strings
  BY DEF TypeOK
<1>2. TierGroups(c, v) \subseteq SUBSET Strings
  BY TiersAreStrings DEF TierGroups
<1>3. TemporalGroups(c, v, other, capacity) \subseteq SUBSET Strings
  BY <1>1, <1>2 DEF TemporalGroups
<1>4. ProfileGroups(c, v, other, capacity) \subseteq SUBSET Strings
  BY PlayablesAreStrings DEF ProfileGroups
<1> QED
  BY <1>3, <1>4, LanesAreStrings DEF Proposals

LEMMA OwnGroupStep ==
  ASSUME NEW v \in CandidateState
  PROVE  /\ OwnGroup(v) \in CandidateState
         /\ PrimaryBit(OwnGroup(v)) = PrimaryBit(v)
         /\ PrimaryBit(v) \subseteq OwnGroup(v).assigned_string_mask
         /\ OwnGroup(v).assigned_string_mask \in {v.assigned_string_mask, PrimaryBit(v)}
         /\ OwnGroup(v).assigned_string_mask = v.assigned_string_mask
              <=> PrimaryBit(v) \subseteq v.assigned_string_mask
<1>1. PrimaryBit(v) \in SUBSET Strings
  BY LanesAreStrings
<1>2. CASE PrimaryBit(v) \subseteq v.assigned_string_mask
  BY <1>2 DEF OwnGroup
<1>3. CASE ~ (PrimaryBit(v) \subseteq v.assigned_string_mask)
  <2>1. OwnGroup(v) \in CandidateState
    BY <1>1, <1>3 DEF OwnGroup, CandidateState
  <2>2. /\ OwnGroup(v).assigned_string_mask = PrimaryBit(v)
        /\ OwnGroup(v).assigned_string = v.assigned_string
    BY <1>3 DEF OwnGroup, CandidateState
  <2> QED
    BY <2>1, <2>2, <1>3 DEF PrimaryBit
<1> QED
  BY <1>2, <1>3

\* What a voice keeps of itself while its group is inferred.
SameVoice(v, w) ==
  /\ w.active = v.active /\ w.assigned_string = v.assigned_string
  /\ w.midi_voice_mask = v.midi_voice_mask /\ w.emitted_note = v.emitted_note
  /\ w.release_ticks = v.release_ticks

LEMMA EvidencedStep ==
  ASSUME TypeOK, NEW c \in Candidates, NEW v \in CandidateState, NEW proposal \in SUBSET Strings,
         NEW dropout
  PROVE  /\ Evidenced(c, v, proposal, dropout) \in CandidateState
         /\ SameVoice(v, Evidenced(c, v, proposal, dropout))
         /\ Evidenced(c, v, proposal, dropout).assigned_string_mask \in {v.assigned_string_mask, proposal}
<1>1. CASE proposal # PrimaryBit(v)
  <2> DEFINE ticks == IF selector_group_masks'[c] = proposal THEN UnisonEvidence
                      ELSE IF v.pending_unison_mask = proposal
                      THEN Least(v.unison_evidence_ticks + 1, UnisonEvidence) ELSE 1
             group == IF ticks >= UnisonEvidence THEN proposal ELSE v.assigned_string_mask
             w == [v EXCEPT !.pending_unison_mask = proposal, !.unison_evidence_ticks = ticks,
                            !.unison_gap_ticks = 0, !.assigned_string_mask = group]
  <2>1. Evidenced(c, v, proposal, dropout) = w
    BY <1>1 DEF Evidenced
  <2>2. ticks \in Nat /\ group \in {v.assigned_string_mask, proposal}
    <3>1. v.unison_evidence_ticks \in Nat
      BY DEF CandidateState
    <3> QED
      BY <3>1 DEF Least
  <2> HIDE DEF ticks, group
  <2>3. w \in CandidateState
    BY <2>2 DEF CandidateState
  <2>4. SameVoice(v, w) /\ w.assigned_string_mask = group
    BY DEF SameVoice, CandidateState
  <2> QED
    BY <2>1, <2>2, <2>3, <2>4
<1>2. CASE proposal = PrimaryBit(v)
  <2> DEFINE gap == v.unison_gap_ticks + IF v.assigned_string_mask # PrimaryBit(v) THEN 1 ELSE 0
             over == gap >= dropout
             left == IF over THEN 0 ELSE gap
             group == IF over THEN proposal ELSE v.assigned_string_mask
             w == [v EXCEPT !.pending_unison_mask = {}, !.unison_evidence_ticks = 0,
                            !.unison_gap_ticks = left, !.assigned_string_mask = group]
  <2>1. Evidenced(c, v, proposal, dropout) = w
    BY <1>2 DEF Evidenced
  <2>2. left \in Nat /\ group \in {v.assigned_string_mask, proposal}
    <3>1. v.unison_gap_ticks \in Nat
      BY DEF CandidateState
    <3> QED
      BY <3>1
  <2> HIDE DEF left, group
  <2>3. w \in CandidateState
    BY <2>2 DEF CandidateState
  <2>4. SameVoice(v, w) /\ w.assigned_string_mask = group
    BY DEF SameVoice, CandidateState
  <2> QED
    BY <2>1, <2>2, <2>3, <2>4
<1> QED
  BY <1>1, <1>2

\* What inference does to a candidate, however the group it takes came about: its lanes
\* beside the primary string are free, and those it did not have are granted.
Inferred(v, w, granted) ==
  /\ SameVoice(v, w)
  /\ (w.assigned_string_mask \ PrimaryBit(w)) \cap OwnedBy(Coasting) = {}
  /\ w.assigned_string_mask \ (Assigned(v) \cup PrimaryBit(v)) \subseteq granted
  /\ Cardinality(granted) <= remaining_extra

LEMMA InferStep ==
  ASSUME TypeOK, Infer
  PROVE  /\ candidate \in selected /\ candidate \in Candidates
         /\ PrimaryBit(candidate_states[candidate]) # {}
         /\ selector_group_masks' \in [Candidates -> SUBSET Strings]
         /\ \E w \in CandidateState, granted \in SUBSET Strings :
              /\ Inferred(candidate_states[candidate], w, granted)
              /\ Become(candidate, w) /\ Account(granted)
<1> DEFINE c == candidate
           u == candidate_states[c]
           v == OwnGroup(u)
           primary == PrimaryBit(v)
           own == v.assigned_string_mask
           other == OtherOwned(c, own)
           capacity == Least(3, remaining_extra + Cardinality(own \ primary))
<1>1. c \in Candidates /\ c \in selected /\ u \in CandidateState /\ primary # {}
  BY StateOf DEF Infer, TypeOK
<1>2. /\ v \in CandidateState /\ primary = PrimaryBit(u) /\ primary \subseteq own
      /\ own \in {u.assigned_string_mask, primary}
      /\ own = u.assigned_string_mask <=> primary \subseteq u.assigned_string_mask
  BY <1>1, OwnGroupStep
<1>3. v.active = u.active /\ SameVoice(u, v)
  <2>1. CASE PrimaryBit(u) \subseteq u.assigned_string_mask
    BY <2>1 DEF OwnGroup, SameVoice
  <2>2. CASE ~ (PrimaryBit(u) \subseteq u.assigned_string_mask)
    BY <2>2, <1>1 DEF OwnGroup, SameVoice, CandidateState
  <2> QED
    BY <2>1, <2>2
<1>4. PICK proposal \in Proposals(c, v, other, capacity), dropout \in Dropouts :
        /\ selector_group_masks' =
               IF proposal \in TierGroups(c, v) THEN [selector_group_masks EXCEPT ![c] = proposal]
               ELSE selector_group_masks
        /\ LET w == Evidenced(c, v, proposal, dropout)
               additional == w.assigned_string_mask \ (own \cup primary)
           IN IF Granted(w, other, additional)
              THEN Become(c, w) /\ Account(additional)
              ELSE Become(c, [w EXCEPT !.assigned_string_mask = primary]) /\ Account({})
  BY DEF Infer
<1>5. proposal \in SUBSET Strings
  BY <1>1, <1>2, ProposalsAreStrings
<1>6. selector_group_masks' \in [Candidates -> SUBSET Strings]
  BY <1>4, <1>5 DEF TypeOK
<1> DEFINE w == Evidenced(c, v, proposal, dropout)
           additional == w.assigned_string_mask \ (own \cup primary)
<1>7. w \in CandidateState /\ SameVoice(v, w)
  BY <1>1, <1>2, <1>5, EvidencedStep
<1>8. SameVoice(u, w) /\ PrimaryBit(w) = primary
  BY <1>2, <1>3, <1>7 DEF SameVoice, PrimaryBit
<1>9. own \cup primary \subseteq Assigned(u) \cup PrimaryBit(u)
  <2>1. CASE own = u.assigned_string_mask
    BY <2>1, <1>1, <1>2 DEF Assigned
  <2>2. CASE own = primary
    BY <2>2, <1>2
  <2> QED
    BY <2>1, <2>2, <1>2
<1>10. primary \in SUBSET Strings
  BY <1>1, <1>2, LanesAreStrings
<1>11. CASE Granted(w, other, additional)
  <2>1. Become(c, w) /\ Account(additional)
    BY <1>4, <1>11
  <2>2. additional \in SUBSET Strings
    BY <1>7 DEF CandidateState
  <2>3. Cardinality(additional) <= remaining_extra
    BY <1>11 DEF Granted
  <2>4. (w.assigned_string_mask \ PrimaryBit(w)) \cap OwnedBy(Coasting) = {}
    BY <1>11 DEF Granted, OtherOwned
  <2>5. w.assigned_string_mask \ (Assigned(u) \cup PrimaryBit(u)) \subseteq additional
    BY <1>9
  <2>6. Inferred(u, w, additional)
    BY <1>8, <2>3, <2>4, <2>5 DEF Inferred
  <2> QED
    BY <1>1, <1>2, <1>6, <1>7, <2>1, <2>2, <2>6
<1>12. CASE ~ Granted(w, other, additional)
  <2> DEFINE x == [w EXCEPT !.assigned_string_mask = primary]
  <2>1. Become(c, x) /\ Account({})
    BY <1>4, <1>12
  <2>2. x \in CandidateState /\ x.assigned_string_mask = primary
    BY <1>7, <1>10 DEF CandidateState
  <2>3. SameVoice(u, x) /\ PrimaryBit(x) = primary
    <3>1. SameVoice(w, x)
      BY <1>7 DEF SameVoice, CandidateState
    <3> QED
      BY <1>8, <3>1 DEF SameVoice, PrimaryBit
  <2>4. Cardinality({}) <= remaining_extra
    BY FS_EmptySet DEF TypeOK
  <2>5. Inferred(u, x, {})
    BY <1>2, <2>2, <2>3, <2>4 DEF Inferred
  <2> QED
    BY <1>1, <1>2, <1>6, <2>1, <2>2, <2>5
<1> QED
  BY <1>11, <1>12

LEMMA InferTypes ==
  ASSUME TypeOK, BeginUnison \/ Infer \/ SkipInfer
  PROVE  TypeOK'
<1>1. CASE BeginUnison
  <2>1. \A c \in Candidates : Assigned(candidate_states[c]) \subseteq Strings
    BY StateOf, LanesAreStrings
  <2>2. committed' \in [Candidates -> SUBSET Strings]
    BY <1>1, <2>1 DEF BeginUnison
  <2>3. remaining_extra' \in 0 .. MaxPolyphony
    <3>1. Occupied \in Nat
      <4>1. selected \subseteq Candidates /\ IsFiniteSet(Candidates)
        BY FS_Interval DEF TypeOK, Candidates
      <4>2. Cardinality(selected) \in Nat
        BY <4>1, FS_Subset, FS_CardinalityType
      <4> DEFINE taken == UNION {Assigned(candidate_states[c]) : c \in selected}
      <4>3. taken \subseteq Strings
        BY <2>1, <4>1
      <4>4. Occupied = Greatest(Cardinality(taken \cup OwnedBy(Coasting)), Cardinality(selected))
        BY DEF Occupied
      <4> HIDE DEF taken
      <4>5. taken \cup OwnedBy(Coasting) \in SUBSET Strings
        BY <4>3, CoastingOwnsStrings
      <4> QED
        BY <4>2, <4>4, <4>5, SubsetsAreFinite DEF Greatest
    <3> QED
      BY <1>1, <3>1 DEF BeginUnison, Greatest
  <2>4. 0 \in Candidates
    BY DEF Candidates
  <2> QED
    BY <1>1, <2>2, <2>3, <2>4 DEF BeginUnison, TypeOK, history
<1>2. CASE Infer
  <2>1. PICK w \in CandidateState, granted \in SUBSET Strings :
          /\ Inferred(candidate_states[candidate], w, granted)
          /\ Become(candidate, w) /\ Account(granted)
    BY <1>2, InferStep
  <2>2. candidate_states' \in [Candidates -> CandidateState]
    BY <1>2, <2>1, InferStep, BecomeStep
  <2>3. /\ committed' \in [Candidates -> SUBSET Strings]
        /\ remaining_extra' \in 0 .. MaxPolyphony /\ allocated_extra' \in SUBSET Strings
    BY <2>1, AccountStep DEF Inferred
  <2>4. candidate' \in Candidates /\ stage' \in {stage, "notes"}
    BY <1>2, AdvanceStep DEF Infer
  <2>5. selector_group_masks' \in [Candidates -> SUBSET Strings]
    BY <1>2, InferStep
  <2> QED
    BY <1>2, <2>2, <2>3, <2>4, <2>5 DEF Infer, TypeOK, history
<1>3. CASE SkipInfer
  <2>1. /\ committed' \in [Candidates -> SUBSET Strings]
        /\ remaining_extra' \in 0 .. MaxPolyphony /\ allocated_extra' \in SUBSET Strings
    <3>1. Cardinality({}) <= remaining_extra
      BY FS_EmptySet DEF TypeOK
    <3> QED
      BY <1>3, <3>1, AccountStep DEF SkipInfer
  <2>2. candidate' \in Candidates /\ stage' \in {stage, "notes"}
    BY <1>3, AdvanceStep DEF SkipInfer
  <2> QED
    BY <1>3, <2>1, <2>2 DEF SkipInfer, TypeOK, history
<1> QED
  BY <1>1, <1>2, <1>3

\* A voice is asked for a note of the table, whichever way it is found.
LEMMA OutcomesAreNotes ==
  ASSUME TypeOK, NEW c \in Candidates, NEW o \in NoteOutcomes(c)
  PROVE  o.note \in Notes /\ o.target \in Notes \cup {NoNote} /\ o.ticks \in Nat
<1>1. OutputNote(c) \in Notes /\ c \in Notes
  BY NotesAreNotes DEF Candidates, Notes
<1>2. Projected[c] \subseteq Notes
  OBVIOUS
<1>3. candidate_states[c].calibrated_output_ticks \in Nat
  BY StateOf DEF CandidateState
<1>4. ASSUME NEW n \in Notes, o = AtOnce(n)
      PROVE  o.note \in Notes /\ o.target \in Notes \cup {NoNote} /\ o.ticks \in Nat
  BY <1>4 DEF AtOnce
<1>5. ASSUME NEW n \in Notes, o = Toward(c, n)
      PROVE  o.note \in Notes /\ o.target \in Notes \cup {NoNote} /\ o.ticks \in Nat
  <2>1. Agreeing(candidate_states[c], n) \in Nat
    BY <1>3 DEF Agreeing, Least
  <2> QED
    BY <1>1, <1>5, <2>1 DEF Toward
<1>6. (\E n \in Notes : o = AtOnce(n)) \/ (\E n \in Notes : o = Toward(c, n))
  BY <1>1, <1>2 DEF NoteOutcomes
<1> QED
  BY <1>4, <1>5, <1>6

LEMMA RenoteTypes ==
  ASSUME TypeOK, NEW c \in Candidates, NEW note \in Notes, Renote(c, note)
  PROVE  /\ transitions' \in 0 .. MaxTransitions /\ sounding' \in Heard
         /\ dropped' \in BOOLEAN /\ renoted' \in SUBSET Candidates
<1>1. CASE note = OutputNote(c)
  BY <1>1 DEF Renote, Unheard, TypeOK, Heard
<1>2. CASE note # OutputNote(c)
  <2> DEFINE lanes == candidate_states[c].midi_voice_mask
             sounds == [sounding EXCEPT ![c] =
                          (@ \ (lanes \X {OutputNote(c)})) \cup (lanes \X {note})]
  <2>1. lanes \in SUBSET Strings
    BY StateOf DEF CandidateState
  <2>2. sounds \in Heard
    BY <2>1 DEF TypeOK, Heard
  <2>3. 2 * Cardinality(lanes) \in Nat
    BY <2>1, SubsetsAreFinite
  <2>4. Append(2 * Cardinality(lanes), sounds) /\ renoted' = renoted \cup {c}
    BY <1>2 DEF Renote
  <2> HIDE DEF lanes, sounds
  <2>5. transitions' \in 0 .. MaxTransitions /\ sounding' \in Heard /\ dropped' \in BOOLEAN
    BY <2>2, <2>3, <2>4, AppendStep
  <2> QED
    BY <2>4, <2>5 DEF TypeOK
<1> QED
  BY <1>1, <1>2

LEMMA NoteTypes ==
  ASSUME TypeOK, UpdateNote
  PROVE  TypeOK'
<1> DEFINE c == candidate
           v == candidate_states[c]
<1>1. c \in Candidates /\ v \in CandidateState
  BY StateOf DEF TypeOK
<1>2. PICK o \in NoteOutcomes(c) :
        /\ Renote(c, o.note)
        /\ Become(c, [v EXCEPT !.emitted_note = IF o.note = OutputNote(c) THEN @ ELSE o.note,
                               !.calibrated_output_target = o.target,
                               !.calibrated_output_ticks = o.ticks])
  BY DEF UpdateNote
<1>3. o.note \in Notes /\ o.target \in Notes \cup {NoNote} /\ o.ticks \in Nat
  BY <1>1, OutcomesAreNotes
<1>4. candidate_states' \in [Candidates -> CandidateState]
  <2> DEFINE note == IF o.note = OutputNote(c) THEN v.emitted_note ELSE o.note
             w == [v EXCEPT !.emitted_note = note, !.calibrated_output_target = o.target,
                            !.calibrated_output_ticks = o.ticks]
  <2>1. Become(c, w)
    BY <1>2
  <2>2. note \in Notes \cup {NoNote}
    BY <1>1, <1>3 DEF CandidateState
  <2> HIDE DEF note
  <2>3. w \in CandidateState
    BY <1>1, <1>3, <2>2 DEF CandidateState
  <2> QED
    BY <1>1, <2>1, <2>3, BecomeStep
<1>5. /\ transitions' \in 0 .. MaxTransitions /\ sounding' \in Heard
      /\ dropped' \in BOOLEAN /\ renoted' \in SUBSET Candidates
  BY <1>1, <1>2, <1>3, RenoteTypes
<1>6. candidate' \in Candidates /\ stage' \in {stage, "voices"}
  BY AdvanceStep DEF UpdateNote
<1> QED
  BY <1>4, <1>5, <1>6 DEF UpdateNote, TypeOK, Heard

\* The lanes a voice moves to.
LEMMA DesiredAreStrings ==
  ASSUME NEW v \in CandidateState
  PROVE  ProjectedOutput(v, v.continuity_lane_mask) \in SUBSET Strings
<1>1. v.continuity_lane_mask \in SUBSET Strings
  BY DEF CandidateState
<1> QED
  BY <1>1, ProjectionsAreStrings

LEMMA VoiceTypes ==
  ASSUME TypeOK, MoveVoice \/ ReleaseVoice \/ CoastVoice \/ NoVoice
  PROVE  TypeOK'
<1> DEFINE c == candidate
           v == candidate_states[c]
<1>1. c \in Candidates /\ v \in CandidateState /\ OutputNote(c) \in Notes
  BY StateOf, NotesAreNotes DEF TypeOK
<1>2. v.midi_voice_mask \in SUBSET Strings /\ v.release_ticks \in Nat
  BY <1>1 DEF CandidateState
<1>3. active_count \in Nat /\ active_count + 1 \in Nat
  BY DEF TypeOK
<1>4. Unheard => transitions' \in 0 .. MaxTransitions /\ sounding' \in Heard /\ dropped' \in BOOLEAN
  BY DEF Unheard, TypeOK, Heard
<1>5. CASE MoveVoice
  <2> DEFINE desired == ProjectedOutput(v, v.continuity_lane_mask)
             w == [v EXCEPT !.release_ticks = 0, !.midi_voice_mask = desired]
  <2>1. desired \in SUBSET Strings
    BY <1>1, DesiredAreStrings
  <2>2. Emit(c, OutputNote(c), v.midi_voice_mask \ desired, desired \ v.midi_voice_mask)
        /\ Become(c, w)
    BY <1>5 DEF MoveVoice
  <2>3. transitions' \in 0 .. MaxTransitions /\ sounding' \in Heard /\ dropped' \in BOOLEAN
    <3>1. v.midi_voice_mask \ desired \in SUBSET Strings
          /\ desired \ v.midi_voice_mask \in SUBSET Strings
      BY <1>2, <2>1
    <3> QED
      BY <1>1, <2>2, <3>1, EmitStep
  <2> HIDE DEF desired
  <2>4. w \in CandidateState
    BY <1>1, <2>1 DEF CandidateState
  <2>5. candidate_states' \in [Candidates -> CandidateState]
    BY <1>1, <2>2, <2>4, BecomeStep
  <2>6. candidate' \in Candidates /\ stage' \in {stage, "attack"}
    BY <1>5, AdvanceStep DEF MoveVoice
  <2> QED
    BY <1>3, <1>5, <2>3, <2>5, <2>6, VoiceStep DEF MoveVoice
<1>6. CASE ReleaseVoice
  <2>1. transitions' \in 0 .. MaxTransitions /\ sounding' \in Heard /\ dropped' \in BOOLEAN
    <3>1. Emit(c, OutputNote(c), v.midi_voice_mask, {})
      BY <1>6 DEF ReleaseVoice
    <3>2. {} \in SUBSET Strings
      OBVIOUS
    <3> QED
      BY <1>1, <1>2, <3>1, <3>2, EmitStep
  <2>2. candidate_states' \in [Candidates -> CandidateState]
    BY <1>1, <1>6, FreshIsTyped, BecomeStep DEF ReleaseVoice
  <2>3. candidate' \in Candidates /\ stage' \in {stage, "attack"}
    BY <1>6, AdvanceStep DEF ReleaseVoice
  <2> QED
    BY <1>3, <1>6, <2>1, <2>2, <2>3, VoiceStep DEF ReleaseVoice
<1>7. CASE CoastVoice
  <2> DEFINE ticks == Least(v.release_ticks + 1, LongestHold)
             w == [v EXCEPT !.release_ticks = ticks]
  <2>1. Become(c, w)
    BY <1>7 DEF CoastVoice
  <2>2. ticks \in Nat
    BY <1>2 DEF Least, LongestHold, Greatest
  <2> HIDE DEF ticks
  <2>3. w \in CandidateState
    BY <1>1, <2>2 DEF CandidateState
  <2>4. candidate_states' \in [Candidates -> CandidateState]
    BY <1>1, <2>1, <2>3, BecomeStep
  <2>5. candidate' \in Candidates /\ stage' \in {stage, "attack"}
    BY <1>7, AdvanceStep DEF CoastVoice
  <2> QED
    BY <1>3, <1>4, <1>7, <2>4, <2>5, VoiceStep DEF CoastVoice
<1>8. CASE NoVoice
  <2>1. candidate' \in Candidates /\ stage' \in {stage, "attack"}
    BY <1>8, AdvanceStep DEF NoVoice
  <2>2. candidate_states' \in [Candidates -> CandidateState]
    BY <1>8 DEF NoVoice, TypeOK
  <2> QED
    BY <1>3, <1>4, <1>8, <2>1, <2>2, VoiceStep DEF NoVoice
<1> QED
  BY <1>5, <1>6, <1>7, <1>8

LEMMA AttackTypes ==
  ASSUME TypeOK, AttackIdle \/ AttackWaits \/ AttackStarts
  PROVE  TypeOK'
<1> DEFINE c == candidate
           v == candidate_states[c]
<1>1. c \in Candidates /\ v \in CandidateState /\ c \in Notes
  BY StateOf DEF TypeOK, Candidates, Notes
<1>2. active_count \in Nat /\ active_count + 1 \in Nat
  BY DEF TypeOK
<1>3. Unheard => transitions' \in 0 .. MaxTransitions /\ sounding' \in Heard /\ dropped' \in BOOLEAN
  BY DEF Unheard, TypeOK, Heard
<1>4. ASSUME NEW ticks \in Nat
      PROVE  /\ [v EXCEPT !.attack_ticks = ticks] \in CandidateState
             /\ [v EXCEPT !.release_ticks = ticks] \in CandidateState
             /\ [v EXCEPT !.release_ticks = 0, !.attack_ticks = ticks] \in CandidateState
  BY <1>1 DEF CandidateState
<1>5. CASE AttackIdle
  <2>1. candidate_states' \in [Candidates -> CandidateState]
    <3>1. PICK w \in CandidateState : Become(c, w)
      BY <1>1, <1>4, <1>5, FreshIsTyped DEF AttackIdle
    <3> QED
      BY <1>1, <3>1, BecomeStep
  <2>2. candidate' \in Candidates /\ stage' \in {stage, "restore"}
    BY <1>5, AdvanceStep DEF AttackIdle
  <2> QED
    BY <1>2, <1>3, <1>5, <2>1, <2>2, VoiceStep DEF AttackIdle
<1>6. CASE AttackWaits
  <2>1. candidate_states' \in [Candidates -> CandidateState]
    <3>1. PICK ticks \in {0} \cup ({v.attack_ticks + 1} \cap 0 .. AttackDecisions - 1) :
            Become(c, [v EXCEPT !.release_ticks = 0, !.attack_ticks = ticks])
      BY <1>6 DEF AttackWaits
    <3>2. ticks \in Nat
      OBVIOUS
    <3> QED
      BY <1>1, <1>4, <3>1, <3>2, BecomeStep
  <2>2. candidate' \in Candidates /\ stage' \in {stage, "restore"}
    BY <1>6, AdvanceStep DEF AttackWaits
  <2> QED
    BY <1>2, <1>3, <1>6, <2>1, <2>2, VoiceStep DEF AttackWaits
<1>7. CASE AttackStarts
  <2> DEFINE desired == Assigned(v)
             w == [v EXCEPT !.release_ticks = 0, !.attack_ticks = 0, !.active = TRUE,
                            !.midi_voice_mask = desired, !.emitted_note = c]
  <2>1. desired \in SUBSET Strings
    BY <1>1, LanesAreStrings
  <2>2. candidate' \in Candidates /\ stage' \in {stage, "restore"}
    BY <1>7, AdvanceStep DEF AttackStarts
  <2>3. CASE desired = {}
    <3>1. Become(c, [v EXCEPT !.release_ticks = 0, !.attack_ticks = AttackDecisions])
          /\ Unheard /\ UNCHANGED active_count
      BY <1>7, <2>3 DEF AttackStarts
    <3>2. candidate_states' \in [Candidates -> CandidateState]
      <4>1. AttackDecisions \in Nat
        OBVIOUS
      <4> QED
        BY <1>1, <1>4, <3>1, <4>1, BecomeStep
    <3> QED
      BY <1>2, <1>3, <1>7, <2>2, <3>1, <3>2, VoiceStep DEF AttackStarts
  <2>4. CASE desired # {}
    <3>1. Emit(c, c, {}, desired) /\ Become(c, w) /\ active_count' = active_count + 1
      BY <1>7, <2>4 DEF AttackStarts
    <3>2. transitions' \in 0 .. MaxTransitions /\ sounding' \in Heard /\ dropped' \in BOOLEAN
      BY <1>1, <2>1, <3>1, EmitStep
    <3> HIDE DEF desired
    <3>3. w \in CandidateState
      BY <1>1, <2>1 DEF CandidateState
    <3>4. candidate_states' \in [Candidates -> CandidateState]
      BY <1>1, <3>1, <3>3, BecomeStep
    <3> QED
      BY <1>2, <1>7, <2>2, <3>1, <3>2, <3>4, VoiceStep DEF AttackStarts
  <2> QED
    BY <2>3, <2>4
<1> QED
  BY <1>5, <1>6, <1>7

\* The end of a decision writes only what continuity keeps.
Restored(v, w) ==
  /\ SameVoice(v, w) /\ w.assigned_string_mask = v.assigned_string_mask

LEMMA RestoreStep ==
  ASSUME TypeOK, Restore
  PROVE  /\ candidate_states' \in [Candidates -> CandidateState]
         /\ \A c \in Candidates : Restored(candidate_states[c], candidate_states'[c])
<1>1. PICK forgets \in SUBSET Candidates :
         LET cached == [c \in Candidates |-> Caches(c, c \in forgets)]
         IN \E lanes \in Choices(Candidates, LAMBDA c : ContinuityLanes(c, cached[c])) :
              candidate_states' =
                 [c \in Candidates |->
                    [candidate_states[c] EXCEPT
                       !.continuity_lane_mask = lanes[c],
                       !.continuity_cached_group_mask = cached[c],
                       !.continuity_cached_note = IF cached[c] = {} THEN NoNote ELSE OutputNote(c)]]
  BY DEF Restore
<1> DEFINE cached == [c \in Candidates |-> Caches(c, c \in forgets)]
<1>2. PICK lanes \in Choices(Candidates, LAMBDA c : ContinuityLanes(c, cached[c])) :
        candidate_states' =
           [c \in Candidates |->
              [candidate_states[c] EXCEPT
                 !.continuity_lane_mask = lanes[c],
                 !.continuity_cached_group_mask = cached[c],
                 !.continuity_cached_note = IF cached[c] = {} THEN NoNote ELSE OutputNote(c)]]
  BY <1>1
<1>3. \A c \in Candidates : cached[c] \in SUBSET Strings
  <2> SUFFICES ASSUME NEW c \in Candidates PROVE Caches(c, c \in forgets) \in SUBSET Strings
    OBVIOUS
  <2>1. OutputMask(OutputNote(c)) \in SUBSET Strings
    BY OutputsAreStrings
  <2>2. candidate_states[c].continuity_cached_group_mask \in SUBSET Strings
    BY StateOf DEF CandidateState
  <2> QED
    BY <2>1, <2>2 DEF Caches
<1>4. \A c \in Candidates : lanes[c] \in ContinuityLanes(c, cached[c])
  BY DEF Choices
<1> HIDE DEF cached
<1>5. \A c \in Candidates : lanes[c] \in SUBSET Strings
  <2> SUFFICES ASSUME NEW c \in Candidates PROVE ContinuityLanes(c, cached[c]) \subseteq SUBSET Strings
    BY <1>4
  <2>1. OutputMask(OutputNote(c)) \in SUBSET Strings
    BY OutputsAreStrings
  <2>2. \A fit, mask : TierCompletions(c, fit, mask) \subseteq SUBSET Strings
    BY TiersAreStrings
  <2>3. ASSUME NEW l \in ContinuityLanes(c, cached[c])
        PROVE  \/ l \in {{}, OutputMask(OutputNote(c)), cached[c]}
               \/ \E fit, mask : l \in TierCompletions(c, fit, mask)
    BY DEF ContinuityLanes
  <2> QED
    BY <1>3, <2>1, <2>2, <2>3
<1>6. ASSUME NEW v \in CandidateState, NEW l \in SUBSET Strings, NEW g \in SUBSET Strings,
             NEW n \in Notes \cup {NoNote}
      PROVE  LET w == [v EXCEPT !.continuity_lane_mask = l, !.continuity_cached_group_mask = g,
                                !.continuity_cached_note = n]
             IN w \in CandidateState /\ Restored(v, w)
  BY DEF CandidateState, Restored, SameVoice
<1> QED
  BY <1>2, <1>3, <1>5, <1>6, StateOf, NotesAreNotes

LEMMA InitTypes == Init => TypeOK
<1>1. 0 \in Candidates /\ 0 \in 0 .. MaxPolyphony /\ 0 \in 0 .. MaxTransitions
  BY DEF Candidates
<1>2. ASSUME Init PROVE TypeOK
  <2>1. candidate_states \in [Candidates -> CandidateState]
    BY <1>2, FreshIsTyped DEF Init
  <2>2. /\ selector_group_masks \in [Candidates -> SUBSET Strings]
        /\ fine \in [Candidates -> SUBSET Strings]
        /\ committed \in [Candidates -> SUBSET Strings]
        /\ sounding \in [Candidates -> SUBSET (Strings \X Notes)]
    BY <1>2 DEF Init, Silent
  <2> QED
    BY <1>1, <1>2, <2>1, <2>2 DEF Init, TypeOK, Silent
<1> QED
  BY <1>2

LEMMA TypesAreKept ==
  ASSUME TypeOK, [Next]_vars
  PROVE  TypeOK'
<1>1. CASE Restore
  <2>1. 0 \in Candidates /\ 0 \in 0 .. MaxTransitions
    BY DEF Candidates
  <2>2. silence' \in Nat
    <3>1. silence' = silence + 1 \/ silence' = 0
      <4> USE DEF Restore
      <4>1. CASE quiet /\ \E c \in Candidates : candidate_states[c].active
        BY <1>1, <4>1
      <4>2. CASE ~ (quiet /\ \E c \in Candidates : candidate_states[c].active)
        BY <1>1, <4>2
      <4> QED
        BY <4>1, <4>2
    <3>2. silence \in Nat
      BY DEF TypeOK
    <3> QED
      BY <3>1, <3>2
  <2>3. candidate_states' \in [Candidates -> CandidateState]
    BY <1>1, RestoreStep
  <2> QED
    BY <1>1, <2>1, <2>2, <2>3 DEF Restore, TypeOK
<1>2. CASE Reset
  BY <1>2, FreshIsTyped DEF Reset, TypeOK, locals, Silent
<1>3. CASE UNCHANGED vars
  BY <1>3 DEF vars, locals, history, TypeOK
<1> QED
  BY <1>1, <1>2, <1>3, SelectTypes, AssignTypes, InferTypes, NoteTypes, VoiceTypes, AttackTypes
     DEF Next

\* Every mask of a voice is of strings of the instrument and every note it emits one of the
\* table; no decision records more transitions than fit (polyphonic_pitch_detector.cpp:2480).
THEOREM DetectorTypes == Spec => []TypeOK
<1>1. TypeOK /\ [Next]_vars => TypeOK'
  BY TypesAreKept
<1> QED
  BY InitTypes, <1>1, PTL DEF Spec

-----------------------------------------------------------------------------
(* Seats: a voice is active if it sounds, and has a string; a group has a primary string *)

Seated(v) ==
  /\ v.assigned_string = Unassigned => v.assigned_string_mask = {}
  /\ v.active => v.assigned_string # Unassigned
  /\ v.active <=> v.midi_voice_mask # {}

SeatsInv == \A c \in Candidates : Seated(candidate_states[c])

LEMMA SeatsInit == Init => SeatsInv
  BY DEF Init, SeatsInv, Seated, FreshCandidate

LEMMA FreshIsSeated == Seated(FreshCandidate)
  BY DEF Seated, FreshCandidate

\* A voice that moves has somewhere to move to.
LEMMA DesiredIsSomewhere ==
  ASSUME NEW v, v.active, Seated(v)
  PROVE  ProjectedOutput(v, v.continuity_lane_mask) # {}
<1>1. Assigned(v) # {}
  BY DEF Assigned, PrimaryBit, Seated
<1> QED
  BY <1>1 DEF ProjectedOutput

LEMMA BecomeSeated ==
  ASSUME TypeOK, SeatsInv, NEW c \in Candidates, NEW w \in CandidateState, Become(c, w), Seated(w)
  PROVE  SeatsInv'
  BY BecomeStep DEF SeatsInv

LEMMA AssignSeats ==
  ASSUME TypeOK, SeatsInv, SelectQuiet \/ Assign
  PROVE  SeatsInv'
<1>1. CASE SelectQuiet
  <2>1. ASSUME NEW v \in CandidateState, Seated(v)
        PROVE  Seated([v EXCEPT !.calibrated_output_target = NoNote,
                                !.calibrated_output_ticks = 0])
    BY <2>1 DEF CandidateState, Seated
  <2> QED
    BY <1>1, <2>1, StateOf DEF SelectQuiet, SeatsInv
<1>2. CASE Assign /\ UNCHANGED candidate_states
  BY <1>2 DEF SeatsInv
<1>3. CASE Assign /\ ~ UNCHANGED candidate_states
  <2>1. PICK a \in Assignments,
             lanes \in Choices(selected, LAMBDA c : {{}} \cup SpectralLanes(c)) :
          candidate_states' =
             [c \in Candidates |->
                IF c \in selected
                THEN [candidate_states[c] EXCEPT !.assigned_string = a[c],
                                                 !.spectral_lane_mask = lanes[c]]
                ELSE candidate_states[c]]
    BY <1>3 DEF Assign
  <2>2. \A c \in selected : a[c] \in Strings
    BY DEF Assignments, Choices
  <2>3. ASSUME NEW v \in CandidateState, Seated(v), NEW string \in Strings, NEW mask
        PROVE  Seated([v EXCEPT !.assigned_string = string, !.spectral_lane_mask = mask])
    BY <2>3, UnassignedIsNoString DEF CandidateState, Seated
  <2> QED
    BY <2>1, <2>2, <2>3, StateOf DEF SeatsInv
<1> QED
  BY <1>1, <1>2, <1>3

LEMMA InferSeats ==
  ASSUME TypeOK, SeatsInv, Infer
  PROVE  SeatsInv'
<1>1. PICK w \in CandidateState, granted \in SUBSET Strings :
        /\ Inferred(candidate_states[candidate], w, granted)
        /\ Become(candidate, w) /\ Account(granted)
  BY InferStep
<1>2. candidate \in Candidates /\ PrimaryBit(candidate_states[candidate]) # {}
  BY InferStep
<1>3. Seated(w)
  <2>1. Seated(candidate_states[candidate])
    BY <1>2 DEF SeatsInv
  <2> QED
    BY <1>1, <1>2, <2>1 DEF Inferred, SameVoice, PrimaryBit, Seated
<1> QED
  BY <1>1, <1>2, <1>3, BecomeSeated

\* Notes, moves and attacks leave a voice where it is seated, or start one that has lanes.
LEMMA VoiceSeats ==
  ASSUME TypeOK, SeatsInv,
         UpdateNote \/ MoveVoice \/ ReleaseVoice \/ CoastVoice \/ AttackIdle \/ AttackWaits
           \/ AttackStarts
  PROVE  SeatsInv'
<1> DEFINE c == candidate
           v == candidate_states[c]
<1>1. c \in Candidates /\ v \in CandidateState /\ Seated(v) /\ candidate_states' \in
         [Candidates -> CandidateState]
  BY StateOf, NoteTypes, VoiceTypes, AttackTypes DEF TypeOK, SeatsInv
<1>2. ASSUME NEW w, Become(c, w), w.active => v.active,
             w.assigned_string = v.assigned_string,
             w.assigned_string_mask = v.assigned_string_mask,
             w.active <=> w.midi_voice_mask # {}
      PROVE  SeatsInv'
  <2>1. w \in CandidateState
    BY <1>1, <1>2 DEF Become, TypeOK
  <2>2. Seated(w)
    BY <1>1, <1>2 DEF Seated
  <2> QED
    BY <1>1, <1>2, <2>1, <2>2, BecomeSeated
<1>3. CASE UpdateNote
  <2>1. PICK o : Become(c, [v EXCEPT !.emitted_note = IF o.note = OutputNote(c) THEN @ ELSE o.note,
                                     !.calibrated_output_target = o.target,
                                     !.calibrated_output_ticks = o.ticks])
    BY <1>3 DEF UpdateNote
  <2> DEFINE note == IF o.note = OutputNote(c) THEN v.emitted_note ELSE o.note
             w == [v EXCEPT !.emitted_note = note, !.calibrated_output_target = o.target,
                            !.calibrated_output_ticks = o.ticks]
  <2>2. Become(c, w)
    BY <2>1
  <2> HIDE DEF note
  <2>3. /\ w.active = v.active /\ w.assigned_string = v.assigned_string
        /\ w.assigned_string_mask = v.assigned_string_mask
        /\ w.active <=> w.midi_voice_mask # {}
    BY <1>1 DEF CandidateState, Seated
  <2> QED
    BY <1>2, <2>2, <2>3
<1>4. CASE MoveVoice
  <2> DEFINE desired == ProjectedOutput(v, v.continuity_lane_mask)
             w == [v EXCEPT !.release_ticks = 0, !.midi_voice_mask = desired]
  <2>1. Become(c, w) /\ v.active
    BY <1>4 DEF MoveVoice
  <2>2. desired # {}
    BY <1>1, <2>1, DesiredIsSomewhere
  <2> HIDE DEF desired
  <2>3. /\ w.active = v.active /\ w.assigned_string = v.assigned_string
        /\ w.assigned_string_mask = v.assigned_string_mask /\ w.midi_voice_mask = desired
    BY <1>1 DEF CandidateState
  <2> HIDE DEF w
  <2> QED
    BY <1>2, <2>1, <2>2, <2>3
<1>5. CASE ReleaseVoice
  BY <1>1, <1>5, FreshIsTyped, FreshIsSeated, BecomeSeated DEF ReleaseVoice
<1>6. ASSUME NEW ticks, NEW ticks2
      PROVE  /\ ~ Become(c, [v EXCEPT !.release_ticks = ticks]) \/ SeatsInv'
             /\ ~ Become(c, [v EXCEPT !.attack_ticks = ticks]) \/ SeatsInv'
             /\ ~ Become(c, [v EXCEPT !.release_ticks = ticks, !.attack_ticks = ticks2]) \/ SeatsInv'
  <2>1. ASSUME NEW w \in {[v EXCEPT !.release_ticks = ticks], [v EXCEPT !.attack_ticks = ticks],
                          [v EXCEPT !.release_ticks = ticks, !.attack_ticks = ticks2]}
        PROVE  /\ w.active = v.active /\ w.assigned_string = v.assigned_string
               /\ w.assigned_string_mask = v.assigned_string_mask
               /\ w.active <=> w.midi_voice_mask # {}
    BY <1>1 DEF CandidateState, Seated
  <2> QED
    BY <1>2, <2>1
<1>7. CASE CoastVoice
  <2>1. PICK ticks : Become(c, [v EXCEPT !.release_ticks = ticks])
    BY <1>7 DEF CoastVoice
  <2> QED
    BY <1>6, <2>1
<1>8. CASE AttackIdle
  <2>1. \/ Become(c, v) \/ Become(c, FreshCandidate)
        \/ Become(c, [v EXCEPT !.attack_ticks = 0]) \/ Become(c, [v EXCEPT !.release_ticks = 0])
    BY <1>8 DEF AttackIdle
  <2>2. Become(c, v) => SeatsInv'
    BY <1>1, <1>2 DEF Seated
  <2>3. Become(c, FreshCandidate) => SeatsInv'
    BY <1>1, FreshIsTyped, FreshIsSeated, BecomeSeated
  <2> QED
    BY <1>6, <2>1, <2>2, <2>3
<1>9. CASE AttackWaits
  <2>1. PICK ticks : Become(c, [v EXCEPT !.release_ticks = 0, !.attack_ticks = ticks])
    BY <1>9 DEF AttackWaits
  <2> QED
    BY <1>6, <2>1
<1>10. CASE AttackStarts
  <2> DEFINE desired == Assigned(v)
             w == [v EXCEPT !.release_ticks = 0, !.attack_ticks = 0, !.active = TRUE,
                            !.midi_voice_mask = desired, !.emitted_note = c]
  <2>1. \/ Become(c, [v EXCEPT !.release_ticks = 0, !.attack_ticks = AttackDecisions])
        \/ desired # {} /\ Become(c, w)
    BY <1>10 DEF AttackStarts
  <2>2. ASSUME desired # {}, Become(c, w) PROVE SeatsInv'
    <3>1. v.assigned_string # Unassigned
      BY <1>1, <2>2 DEF Assigned, PrimaryBit, Seated
    <3> HIDE DEF desired
    <3>2. /\ w.assigned_string = v.assigned_string /\ w.active = TRUE
          /\ w.midi_voice_mask = desired /\ w \in CandidateState
      <4>1. w.assigned_string = v.assigned_string /\ w.active = TRUE /\ w.midi_voice_mask = desired
        BY <1>1 DEF CandidateState
      <4>2. candidate_states'[c] = w
        BY <1>1, <2>2 DEF Become, TypeOK
      <4> QED
        BY <1>1, <4>1, <4>2
    <3>3. desired # {} /\ Become(c, w)
      BY <2>2
    <3> HIDE DEF w
    <3>4. Seated(w)
      BY <3>1, <3>2, <3>3 DEF Seated
    <3> QED
      BY <1>1, <3>2, <3>3, <3>4, BecomeSeated
  <2> QED
    BY <1>6, <2>1, <2>2
<1> QED
  BY <1>3, <1>4, <1>5, <1>7, <1>8, <1>9, <1>10

LEMMA SeatsAreKept ==
  ASSUME TypeOK, SeatsInv, [Next]_vars
  PROVE  SeatsInv'
<1>1. CASE Restore
  BY <1>1, RestoreStep DEF SeatsInv, Seated, Restored, SameVoice
<1>2. CASE Reset
  BY <1>2, FreshIsSeated DEF Reset, SeatsInv
<1>3. CASE Select \/ BeginUnison \/ SkipInfer \/ NoVoice \/ UNCHANGED vars
  <2>1. UNCHANGED candidate_states
    BY <1>3 DEF Select, BeginUnison, SkipInfer, NoVoice, vars
  <2> QED
    BY <2>1 DEF SeatsInv
<1> QED
  BY <1>1, <1>2, <1>3, AssignSeats, InferSeats, VoiceSeats DEF Next

-----------------------------------------------------------------------------
(* Free lanes: what inference gives away no coasting voice owns *)

Free(c) ==
  LET v == candidate_states[c]
  IN (v.assigned_string_mask \ PrimaryBit(v)) \cap OwnedBy(Coasting) = {}

\* How far inference has come; the phase of the notes changes no lane.
FreeInv ==
  /\ stage = "select" => selected = {}
  /\ stage = "infer" => \A c \in selected : c < candidate => Free(c)
  /\ stage = "notes" \/ (stage = "voices" /\ candidate = 0) => \A c \in selected : Free(c)

\* A step that leaves the unselected voices their lanes leaves them what they own.
LEMMA CoastingStep ==
  ASSUME UNCHANGED selected,
         \A c \in Candidates \ selected :
           /\ candidate_states'[c].active = candidate_states[c].active
           /\ candidate_states'[c].assigned_string = candidate_states[c].assigned_string
           /\ candidate_states'[c].assigned_string_mask = candidate_states[c].assigned_string_mask
           /\ candidate_states'[c].midi_voice_mask = candidate_states[c].midi_voice_mask
  PROVE  Coasting' = Coasting /\ OwnedBy(Coasting)' = OwnedBy(Coasting)
<1>1. Coasting' = Coasting
  BY DEF Coasting
<1>2. \A c \in Coasting : Owned(candidate_states'[c]) = Owned(candidate_states[c])
  BY DEF Coasting, Owned, PrimaryBit
<1>3. OwnedBy(Coasting)' = UNION {Owned(candidate_states'[c]) : c \in Coasting}
  BY <1>1 DEF OwnedBy
<1>4. {Owned(candidate_states'[c]) : c \in Coasting} = {Owned(candidate_states[c]) : c \in Coasting}
  BY <1>2
<1> QED
  BY <1>1, <1>3, <1>4 DEF OwnedBy

LEMMA InferFree ==
  ASSUME TypeOK, FreeInv, Infer
  PROVE  /\ FreeInv' /\ OwnedBy(Coasting)' = OwnedBy(Coasting)
<1>0. PICK c \in Candidates : c = candidate /\ c \in selected
  BY InferStep
<1>1. PICK w \in CandidateState, granted \in SUBSET Strings :
        /\ Inferred(candidate_states[c], w, granted)
        /\ Become(c, w) /\ Account(granted)
  BY <1>0, InferStep
<1>3. /\ candidate_states'[c] = w
      /\ \A d \in Candidates \ {c} : candidate_states'[d] = candidate_states[d]
  BY <1>1, <1>0, BecomeStep
<1>4. UNCHANGED selected /\ stage = "infer" /\ Advance("notes")
  BY <1>0 DEF Infer
<1>5. OwnedBy(Coasting)' = OwnedBy(Coasting)
  BY <1>0, <1>3, <1>4, CoastingStep
<1>6. Free(c)'
  BY <1>1, <1>3, <1>5 DEF Free, Inferred
<1>7. ASSUME NEW d \in selected, d < c PROVE Free(d)'
  <2>1. d \in Candidates \ {c}
    BY <1>0, <1>7 DEF TypeOK, Candidates
  <2>2. Free(d)
    BY <1>0, <1>4, <1>7 DEF FreeInv
  <2> QED
    BY <1>3, <1>5, <2>1, <2>2 DEF Free
<1>8. \A d \in selected : d < c + 1 => Free(d)'
  BY <1>0, <1>6, <1>7 DEF TypeOK, Candidates
<1>9. /\ stage' \in {"infer", "notes"}
      /\ stage' = "infer" => candidate' = c + 1
      /\ stage' = "notes" => c + 1 = NumCandidates
  BY <1>0, <1>4 DEF Advance, Candidates
<1>10. stage' = "notes" => \A d \in selected : Free(d)'
  BY <1>8, <1>9 DEF TypeOK, Candidates
<1> QED
  BY <1>4, <1>5, <1>8, <1>9, <1>10 DEF FreeInv

LEMMA SkipFree ==
  ASSUME TypeOK, SeatsInv, FreeInv, SkipInfer
  PROVE  FreeInv' /\ OwnedBy(Coasting)' = OwnedBy(Coasting)
<1> DEFINE c == candidate
<1>1. c \in Candidates /\ (c \notin selected \/ PrimaryBit(candidate_states[c]) = {})
      /\ UNCHANGED <<candidate_states, selected>> /\ stage = "infer" /\ Advance("notes")
  BY DEF SkipInfer, TypeOK
<1>2. OwnedBy(Coasting)' = OwnedBy(Coasting)
  BY <1>1, CoastingStep
<1>3. \A d : Free(d)' <=> Free(d)
  BY <1>1, <1>2 DEF Free
<1>4. c \in selected => Free(c)
  <2>1. PrimaryBit(candidate_states[c]) = {} => candidate_states[c].assigned_string_mask = {}
    BY <1>1 DEF PrimaryBit, SeatsInv, Seated
  <2> QED
    BY <1>1, <2>1 DEF Free
<1>5. \A d \in selected : d < c + 1 => Free(d)'
  BY <1>1, <1>3, <1>4 DEF FreeInv, TypeOK, Candidates
<1>6. /\ stage' \in {"infer", "notes"}
      /\ stage' = "infer" => candidate' = c + 1
      /\ stage' = "notes" => c + 1 = NumCandidates
  BY <1>1 DEF Advance, Candidates
<1>7. stage' = "notes" => \A d \in selected : Free(d)'
  BY <1>5, <1>6 DEF TypeOK, Candidates
<1> QED
  BY <1>1, <1>2, <1>5, <1>6, <1>7 DEF FreeInv

LEMMA NoteFree ==
  ASSUME TypeOK, FreeInv, UpdateNote
  PROVE  FreeInv'
<1> DEFINE c == candidate
           v == candidate_states[c]
<1>1. c \in Candidates /\ v \in CandidateState /\ candidate_states' \in [Candidates -> CandidateState]
      /\ UNCHANGED selected /\ stage = "notes" /\ Advance("voices")
  BY StateOf, NoteTypes DEF UpdateNote, TypeOK
<1>2. PICK o : Become(c, [v EXCEPT !.emitted_note = IF o.note = OutputNote(c) THEN @ ELSE o.note,
                                   !.calibrated_output_target = o.target,
                                   !.calibrated_output_ticks = o.ticks])
  BY DEF UpdateNote
<1> DEFINE note == IF o.note = OutputNote(c) THEN v.emitted_note ELSE o.note
           w == [v EXCEPT !.emitted_note = note, !.calibrated_output_target = o.target,
                          !.calibrated_output_ticks = o.ticks]
<1>3. Become(c, w)
  BY <1>2
<1> HIDE DEF note
<1>4. /\ w.active = v.active /\ w.assigned_string = v.assigned_string
      /\ w.assigned_string_mask = v.assigned_string_mask /\ w.midi_voice_mask = v.midi_voice_mask
  BY <1>1 DEF CandidateState
<1>5. \A d \in Candidates :
        /\ candidate_states'[d].active = candidate_states[d].active
        /\ candidate_states'[d].assigned_string = candidate_states[d].assigned_string
        /\ candidate_states'[d].assigned_string_mask = candidate_states[d].assigned_string_mask
        /\ candidate_states'[d].midi_voice_mask = candidate_states[d].midi_voice_mask
  <2>1. w \in CandidateState
    BY <1>1, <1>3 DEF Become, TypeOK
  <2> HIDE DEF w
  <2> QED
    BY <1>1, <1>3, <1>4, <2>1, BecomeStep
<1>6. OwnedBy(Coasting)' = OwnedBy(Coasting)
  BY <1>1, <1>5, CoastingStep
<1>7. \A d \in selected : Free(d)'
  <2> SUFFICES ASSUME NEW d \in selected PROVE Free(d)'
    OBVIOUS
  <2>1. d \in Candidates /\ Free(d)
    BY <1>1 DEF FreeInv, TypeOK
  <2> QED
    BY <1>5, <1>6, <2>1 DEF Free, PrimaryBit
<1> QED
  BY <1>1, <1>7 DEF FreeInv, Advance

LEMMA FreeIsKept ==
  ASSUME TypeOK, SeatsInv, FreeInv, [Next]_vars
  PROVE  FreeInv'
<1>1. CASE SelectQuiet
  BY <1>1 DEF SelectQuiet, FreeInv
<1>2. CASE Select \/ Assign
  BY <1>2 DEF Select, Assign, FreeInv
<1>3. CASE BeginUnison
  BY <1>3 DEF BeginUnison, FreeInv, TypeOK, Candidates
<1>4. CASE MoveVoice \/ ReleaseVoice \/ CoastVoice \/ NoVoice
  <2>1. stage = "voices" /\ Advance("attack")
    BY <1>4 DEF MoveVoice, ReleaseVoice, CoastVoice, NoVoice
  <2>2. stage' = "attack" \/ (stage' = "voices" /\ candidate' # 0)
    BY <2>1 DEF Advance, TypeOK, Candidates
  <2> QED
    BY <2>2 DEF FreeInv
<1>5. CASE AttackIdle \/ AttackWaits \/ AttackStarts
  <2>1. stage = "attack" /\ Advance("restore")
    BY <1>5 DEF AttackIdle, AttackWaits, AttackStarts, Attacking
  <2>2. stage' \in {"attack", "restore"}
    BY <2>1 DEF Advance
  <2> QED
    BY <2>2 DEF FreeInv
<1>6. CASE Restore \/ Reset
  BY <1>6 DEF Restore, Reset, FreeInv
<1>7. CASE UNCHANGED vars
  <2>1. UNCHANGED <<candidate_states, selected, stage, candidate>>
    BY <1>7 DEF vars
  <2>2. \A d : Free(d)' <=> Free(d)
    BY <2>1, CoastingStep DEF Free
  <2> QED
    BY <2>1, <2>2 DEF FreeInv
<1> QED
  BY <1>1, <1>2, <1>3, <1>4, <1>5, <1>6, <1>7, InferFree, SkipFree, NoteFree DEF Next

LEMMA DetectorHolds == Spec => [](TypeOK /\ SeatsInv /\ FreeInv)
<1>1. Init => FreeInv
  BY DEF Init, FreeInv
<1>2. (TypeOK /\ SeatsInv /\ FreeInv) /\ [Next]_vars => (TypeOK /\ SeatsInv /\ FreeInv)'
  BY TypesAreKept, SeatsAreKept, FreeIsKept
<1> QED
  BY InitTypes, SeatsInit, <1>1, <1>2, PTL DEF Spec

\* The lanes a unison takes beside its primary string are no fading voice's, whether it owns
\* them by its group or by the notes still sounding: each pass of the inference asks all
\* coasting voices, and no phase up to the notes gives one another lane
\* (polyphonic_pitch_detector.cpp:6207, 6952).
THEOREM UnisonsTakeFreeLanes == Spec => []InferredLanesAreFree
<1>1. FreeInv => InferredLanesAreFree
  BY DEF FreeInv, Free, InferredLanesAreFree
<1> QED
  BY DetectorHolds, <1>1, PTL

-----------------------------------------------------------------------------
(* The budget: remaining_extra never grants a lane beyond the polyphony *)

\* The lanes that count against the polyphony while inference runs.
Held == (UNION {committed[c] : c \in selected}) \cup OwnedBy(Coasting)

BudgetInv ==
  stage = "infer" => \/ remaining_extra = 0
                     \/ Cardinality(Held \cup allocated_extra) + remaining_extra <= MaxPolyphony

LEMMA HeldAreStrings ==
  ASSUME TypeOK
  PROVE  Held \in SUBSET Strings
<1>1. \A c \in selected : committed[c] \subseteq Strings
  BY DEF TypeOK
<1>2. UNION {committed[c] : c \in selected} \subseteq Strings
  BY <1>1
<1> QED
  BY <1>2, CoastingOwnsStrings DEF Held

LEMMA UnionIsBounded ==
  ASSUME NEW S \in SUBSET Strings, NEW T \in SUBSET Strings
  PROVE  /\ Cardinality(S \cup T) \in Nat /\ Cardinality(S) \in Nat /\ Cardinality(T) \in Nat
         /\ Cardinality(S \cup T) <= Cardinality(S) + Cardinality(T)
<1>1. IsFiniteSet(S) /\ IsFiniteSet(T)
  BY SubsetsAreFinite
<1>2. S \cup T \in SUBSET Strings /\ S \cap T \in SUBSET Strings
  OBVIOUS
<1>3. /\ Cardinality(S \cup T) \in Nat /\ Cardinality(S) \in Nat /\ Cardinality(T) \in Nat
      /\ Cardinality(S \cap T) \in Nat
  BY <1>2, SubsetsAreFinite
<1>4. Cardinality(S \cup T) = Cardinality(S) + Cardinality(T) - Cardinality(S \cap T)
  BY <1>1, FS_Union
<1> QED
  BY <1>3, <1>4

LEMMA BudgetBegins ==
  ASSUME TypeOK, BeginUnison
  PROVE  BudgetInv'
<1> DEFINE taken == UNION {Assigned(candidate_states[c]) : c \in selected}
<1>1. Occupied = Greatest(Cardinality(taken \cup OwnedBy(Coasting)), Cardinality(selected))
  BY DEF Occupied
<1>2. taken = UNION {committed'[c] : c \in selected}
  <2>1. \A c \in selected : committed'[c] = Assigned(candidate_states[c])
    BY DEF BeginUnison, TypeOK
  <2> QED
    BY <2>1
<1>3. OwnedBy(Coasting)' = OwnedBy(Coasting) /\ selected' = selected
  BY CoastingStep DEF BeginUnison
<1>4. (Held \cup allocated_extra)' = taken \cup OwnedBy(Coasting)
  <2>1. Held' = (UNION {committed'[c] : c \in selected}) \cup OwnedBy(Coasting)
    BY <1>3 DEF Held
  <2>2. allocated_extra' = {}
    BY DEF BeginUnison
  <2> QED
    BY <1>2, <2>1, <2>2
<1>5. Cardinality(selected) \in Nat
  <2>1. selected \subseteq Candidates /\ IsFiniteSet(Candidates)
    BY FS_Interval DEF TypeOK, Candidates
  <2> QED
    BY <2>1, FS_Subset, FS_CardinalityType
<1>6. Cardinality(taken \cup OwnedBy(Coasting)) \in Nat
  <2>1. \A c \in selected : Assigned(candidate_states[c]) \subseteq Strings
    BY StateOf, LanesAreStrings DEF TypeOK
  <2>2. taken \subseteq Strings
    BY <2>1
  <2> HIDE DEF taken
  <2>3. taken \cup OwnedBy(Coasting) \in SUBSET Strings
    BY <2>2, CoastingOwnsStrings
  <2> QED
    BY <2>3, SubsetsAreFinite
<1> DEFINE held == Cardinality(taken \cup OwnedBy(Coasting))
<1>7. Cardinality((Held \cup allocated_extra)') = held
  BY <1>4
<1> HIDE DEF taken
<1>8. Occupied \in Nat /\ held <= Occupied
  BY <1>1, <1>5, <1>6 DEF Greatest
<1>9. remaining_extra' = Greatest(MaxPolyphony - Occupied, 0)
  BY DEF BeginUnison
<1> HIDE DEF held
<1>10. remaining_extra' = 0 \/ held + remaining_extra' <= MaxPolyphony
  BY <1>6, <1>8, <1>9 DEF Greatest, held
<1> QED
  BY <1>7, <1>10 DEF BudgetInv

\* A step that leaves the lanes it began with alone and accounts for what it grants.
LEMMA BudgetStep ==
  ASSUME TypeOK, BudgetInv, stage = "infer", NEW granted \in SUBSET Strings,
         Cardinality(granted) <= remaining_extra, Account(granted), Advance("notes"),
         UNCHANGED selected, OwnedBy(Coasting)' = OwnedBy(Coasting)
  PROVE  BudgetInv'
<1>1. CASE ~ (candidate + 1 < NumCandidates)
  BY <1>1 DEF Advance, BudgetInv
<1>2. CASE candidate + 1 < NumCandidates
  <2>1. /\ allocated_extra' = allocated_extra \cup granted
        /\ remaining_extra' = remaining_extra - Cardinality(granted) /\ UNCHANGED committed
    BY <1>2 DEF Account
  <2>2. Held' = Held
    BY <2>1 DEF Held
  <2>3. (Held \cup allocated_extra)' = (Held \cup allocated_extra) \cup granted
    BY <2>1, <2>2
  <2>4. Held \cup allocated_extra \in SUBSET Strings
    BY HeldAreStrings DEF TypeOK
  <2>5. /\ Cardinality((Held \cup allocated_extra) \cup granted)
             <= Cardinality(Held \cup allocated_extra) + Cardinality(granted)
        /\ Cardinality(granted) \in Nat /\ Cardinality(Held \cup allocated_extra) \in Nat
        /\ Cardinality((Held \cup allocated_extra) \cup granted) \in Nat
    BY <2>4, UnionIsBounded
  <2>6. remaining_extra \in Nat
    BY DEF TypeOK
  <2>7. remaining_extra' = 0
        \/ Cardinality((Held \cup allocated_extra) \cup granted) + remaining_extra' <= MaxPolyphony
    BY <2>1, <2>5, <2>6 DEF BudgetInv
  <2> QED
    BY <2>3, <2>7 DEF BudgetInv
<1> QED
  BY <1>1, <1>2

LEMMA BudgetIsKept ==
  ASSUME TypeOK, SeatsInv, FreeInv, BudgetInv, [Next]_vars
  PROVE  BudgetInv'
<1>1. CASE Infer
  <2>1. PICK granted \in SUBSET Strings : Cardinality(granted) <= remaining_extra /\ Account(granted)
    BY <1>1, InferStep DEF Inferred
  <2> QED
    BY <1>1, <2>1, InferFree, BudgetStep DEF Infer
<1>2. CASE SkipInfer
  <2>1. {} \in SUBSET Strings /\ Cardinality({}) <= remaining_extra
    BY FS_EmptySet DEF TypeOK
  <2> QED
    BY <1>2, <2>1, SkipFree, BudgetStep DEF SkipInfer
<1>3. CASE UNCHANGED vars
  <2>1. UNCHANGED <<candidate_states, selected, stage, committed, remaining_extra, allocated_extra>>
    BY <1>3 DEF vars, locals
  <2>2. UNCHANGED Held
    BY <2>1, CoastingStep DEF Held
  <2> QED
    BY <2>1, <2>2 DEF BudgetInv
<1>4. CASE SelectQuiet \/ Select \/ Assign \/ UpdateNote \/ Restore \/ Reset
  <2>1. stage' # "infer"
    BY <1>4 DEF SelectQuiet, Select, Assign, UpdateNote, Advance, Restore, Reset
  <2> QED
    BY <2>1 DEF BudgetInv
<1>5. CASE MoveVoice \/ ReleaseVoice \/ CoastVoice \/ NoVoice
  <2>1. stage = "voices" /\ Advance("attack")
    BY <1>5 DEF MoveVoice, ReleaseVoice, CoastVoice, NoVoice
  <2> QED
    BY <2>1 DEF BudgetInv, Advance
<1>6. CASE AttackIdle \/ AttackWaits \/ AttackStarts
  <2>1. stage = "attack" /\ Advance("restore")
    BY <1>6 DEF AttackIdle, AttackWaits, AttackStarts, Attacking
  <2> QED
    BY <2>1 DEF BudgetInv, Advance
<1> QED
  BY <1>1, <1>2, <1>3, <1>4, <1>5, <1>6, BudgetBegins DEF Next

LEMMA BudgetHolds == Spec => []BudgetInv
<1>1. Init => BudgetInv
  BY DEF Init, BudgetInv
<1>2. TypeOK /\ SeatsInv /\ FreeInv /\ BudgetInv /\ [Next]_vars => BudgetInv'
  BY BudgetIsKept
<1> QED
  BY <1>1, <1>2, DetectorHolds, PTL DEF Spec

\* Lanes are granted to a group only as long as they fit in the polyphony beside every lane
\* held when inference began and every lane granted since: what is granted is subtracted from
\* remaining_extra, and overlapping groups are counted once
\* (polyphonic_pitch_detector.cpp:6248-6260, 6951-6958).
THEOREM UnisonsKeepTheBudget == Spec => UnisonKeepsBudget
<1> DEFINE lanes == candidate_states'[candidate].assigned_string_mask
                      \ (Assigned(candidate_states[candidate])
                           \cup PrimaryBit(candidate_states[candidate]))
<1>1. ASSUME TypeOK, BudgetInv, Infer, lanes # {}
      PROVE  Cardinality(Held \cup allocated_extra \cup lanes) <= MaxPolyphony
  <2>1. PICK w \in CandidateState, granted \in SUBSET Strings :
          /\ Inferred(candidate_states[candidate], w, granted)
          /\ Become(candidate, w) /\ Account(granted)
    BY <1>1, InferStep
  <2>2. candidate \in Candidates /\ stage = "infer"
    BY <1>1, InferStep DEF Infer
  <2>3. candidate_states'[candidate] = w
    BY <1>1, <2>1, <2>2, BecomeStep
  <2>4. lanes \subseteq granted
    BY <2>1, <2>3 DEF Inferred
  <2> HIDE DEF lanes
  <2>5. Held \cup allocated_extra \in SUBSET Strings
    BY <1>1, HeldAreStrings DEF TypeOK
  <2>6. lanes \in SUBSET Strings /\ IsFiniteSet(granted)
    BY <2>4, SubsetsAreFinite
  <2>7. Cardinality(lanes) <= Cardinality(granted) /\ Cardinality(granted) \in Nat
        /\ Cardinality(granted) <= remaining_extra
    BY <2>1, <2>4, <2>6, FS_Subset, SubsetsAreFinite DEF Inferred
  <2>8. Cardinality(lanes) # 0 /\ Cardinality(lanes) \in Nat
    BY <1>1, <2>6, SubsetsAreFinite, FS_EmptySet
  <2>9. /\ Cardinality((Held \cup allocated_extra) \cup lanes)
             <= Cardinality(Held \cup allocated_extra) + Cardinality(lanes)
        /\ Cardinality(Held \cup allocated_extra) \in Nat
        /\ Cardinality((Held \cup allocated_extra) \cup lanes) \in Nat
    BY <2>5, <2>6, UnionIsBounded
  <2>10. remaining_extra \in Nat
    BY <1>1 DEF TypeOK
  <2> QED
    BY <1>1, <2>2, <2>7, <2>8, <2>9, <2>10 DEF BudgetInv
<1>2. TypeOK /\ BudgetInv /\ [Next]_vars =>
        [Infer => LET added == candidate_states'[candidate].assigned_string_mask
                                 \ (Assigned(candidate_states[candidate])
                                      \cup PrimaryBit(candidate_states[candidate]))
                      held == (UNION {committed[c] : c \in selected}) \cup OwnedBy(Coasting)
                  IN added # {} =>
                       Cardinality(held \cup allocated_extra \cup added) <= MaxPolyphony]_vars
  BY <1>1 DEF Held
<1> QED
  BY <1>2, DetectorHolds, BudgetHolds, PTL DEF Spec, UnisonKeepsBudget

-----------------------------------------------------------------------------
(* Sounding: as long as no transition is dropped, all are recorded *)

SoundsAs(c, v, heard) ==
  heard = v.midi_voice_mask \X {IF v.emitted_note # NoNote THEN v.emitted_note ELSE c}

SoundInv == ~ dropped => \A c \in Candidates : SoundsAs(c, candidate_states[c], sounding[c])

\* Every note-off and every note-on is recorded.
Whole(c, note, offs, ons) ==
  sounding' = [sounding EXCEPT ![c] = (@ \ (offs \X {note})) \cup (ons \X {note})]

LEMMA EmitWhole ==
  ASSUME NEW c, NEW note, NEW offs, NEW ons, Emit(c, note, offs, ons), ~ dropped'
  PROVE  Whole(c, note, offs, ons) /\ ~ dropped
  BY DEF Emit, Append, Whole

LEMMA RenoteWhole ==
  ASSUME NEW c, NEW note, note # OutputNote(c), Renote(c, note), ~ dropped'
  PROVE  LET lanes == candidate_states[c].midi_voice_mask
         IN /\ sounding' = [sounding EXCEPT ![c] =
                              (@ \ (lanes \X {OutputNote(c)})) \cup (lanes \X {note})]
            /\ ~ dropped
  BY DEF Renote, Append

\* A step of one candidate.
LEMMA SoundStep ==
  ASSUME TypeOK, SoundInv, ~ dropped, NEW c \in Candidates, NEW w \in CandidateState, Become(c, w),
         \A d \in Candidates \ {c} : sounding'[d] = sounding[d],
         SoundsAs(c, w, sounding'[c])
  PROVE  SoundInv'
  BY BecomeStep DEF SoundInv

\* Nothing is heard and nothing changes that is.
LEMMA SilentStep ==
  ASSUME TypeOK, SoundInv, ~ dropped, NEW c \in Candidates, NEW w \in CandidateState, Become(c, w),
         w.midi_voice_mask = candidate_states[c].midi_voice_mask,
         w.emitted_note = candidate_states[c].emitted_note, UNCHANGED sounding
  PROVE  SoundInv'
<1>1. SoundsAs(c, w, sounding'[c])
  BY DEF SoundInv, SoundsAs
<1> QED
  BY <1>1, SoundStep

LEMMA NoteSounds ==
  ASSUME TypeOK, SoundInv, UpdateNote, ~ dropped, ~ dropped'
  PROVE  SoundInv'
<1>0. PICK c \in Candidates : c = candidate
  BY DEF TypeOK
<1> DEFINE v == candidate_states[c]
<1>1. v \in CandidateState /\ SoundsAs(c, v, sounding[c])
      /\ sounding \in [Candidates -> SUBSET (Strings \X Notes)]
      /\ candidate_states' \in [Candidates -> CandidateState]
  BY StateOf, NoteTypes DEF SoundInv, TypeOK
<1>2. PICK o \in NoteOutcomes(c) :
        /\ Renote(c, o.note)
        /\ Become(c, [v EXCEPT !.emitted_note = IF o.note = OutputNote(c) THEN @ ELSE o.note,
                               !.calibrated_output_target = o.target,
                               !.calibrated_output_ticks = o.ticks])
  BY <1>0 DEF UpdateNote
<1> DEFINE emitted == IF o.note = OutputNote(c) THEN v.emitted_note ELSE o.note
           w == [v EXCEPT !.emitted_note = emitted, !.calibrated_output_target = o.target,
                          !.calibrated_output_ticks = o.ticks]
<1>3. Become(c, w)
  BY <1>2
<1>4. o.note \in Notes /\ o.note # NoNote
  <2>1. o.note \in Notes
    BY OutcomesAreNotes
  <2> QED
    BY <2>1 DEF Notes, NoNote
<1> HIDE DEF emitted
<1>5. w.active = v.active /\ w.midi_voice_mask = v.midi_voice_mask /\ w.emitted_note = emitted
  BY <1>1 DEF CandidateState
<1>6. w \in CandidateState
  BY <1>1, <1>3 DEF Become, TypeOK
<1> HIDE DEF w
<1>7. CASE o.note = OutputNote(c)
  <2>1. UNCHANGED sounding /\ emitted = v.emitted_note
    BY <1>2, <1>7 DEF Renote, Unheard, emitted
  <2> QED
    BY <1>3, <1>5, <1>6, <2>1, SilentStep
<1>8. CASE o.note # OutputNote(c)
  <2>1. sounding' = [sounding EXCEPT ![c] =
                       (@ \ (v.midi_voice_mask \X {OutputNote(c)}))
                       \cup (v.midi_voice_mask \X {o.note})]
    BY <1>2, <1>8, RenoteWhole
  <2>2. sounding[c] = v.midi_voice_mask \X {OutputNote(c)}
    BY <1>1 DEF SoundsAs, OutputNote
  <2>3. sounding'[c] = v.midi_voice_mask \X {o.note}
        /\ \A d \in Candidates \ {c} : sounding'[d] = sounding[d]
    BY <1>1, <2>1, <2>2
  <2>4. emitted = o.note
    BY <1>8 DEF emitted
  <2>5. SoundsAs(c, w, sounding'[c])
    BY <1>1, <1>4, <1>5, <2>3, <2>4 DEF SoundsAs
  <2> QED
    BY <1>3, <1>6, <2>3, <2>5, SoundStep
<1> QED
  BY <1>7, <1>8

LEMMA VoiceSounds ==
  ASSUME TypeOK, SeatsInv, SoundInv, MoveVoice \/ ReleaseVoice \/ CoastVoice, ~ dropped, ~ dropped'
  PROVE  SoundInv'
<1>0. PICK c \in Candidates : c = candidate
  BY DEF TypeOK
<1> DEFINE v == candidate_states[c]
<1>1. v \in CandidateState /\ SoundsAs(c, v, sounding[c]) /\ Seated(v)
      /\ sounding \in [Candidates -> SUBSET (Strings \X Notes)]
      /\ candidate_states' \in [Candidates -> CandidateState]
  BY StateOf, VoiceTypes DEF SoundInv, SeatsInv, TypeOK
<1>2. sounding[c] = v.midi_voice_mask \X {OutputNote(c)} /\ v.midi_voice_mask \in SUBSET Strings
  BY <1>1 DEF SoundsAs, OutputNote, CandidateState
<1>3. CASE MoveVoice
  <2> DEFINE desired == ProjectedOutput(v, v.continuity_lane_mask)
             w == [v EXCEPT !.release_ticks = 0, !.midi_voice_mask = desired]
  <2>1. /\ Emit(c, OutputNote(c), v.midi_voice_mask \ desired, desired \ v.midi_voice_mask)
        /\ Become(c, w) /\ v.active
    BY <1>0, <1>3 DEF MoveVoice
  <2>2. desired \in SUBSET Strings
    BY <1>1, DesiredAreStrings
  <2>3. desired # {}
    <3>1. Assigned(v) # {}
      BY <1>1, <2>1 DEF Assigned, PrimaryBit, Seated
    <3> QED
      BY <3>1 DEF ProjectedOutput
  <2> HIDE DEF desired
  <2>4. Whole(c, OutputNote(c), v.midi_voice_mask \ desired, desired \ v.midi_voice_mask)
    <3>1. v.midi_voice_mask \ desired \in SUBSET Strings
          /\ desired \ v.midi_voice_mask \in SUBSET Strings
      BY <1>2, <2>2
    <3> QED
      BY <2>1, <3>1, EmitWhole
  <2>5. sounding'[c] = desired \X {OutputNote(c)}
        /\ \A d \in Candidates \ {c} : sounding'[d] = sounding[d]
    BY <1>1, <1>2, <2>4 DEF Whole
  <2>6. w.active = v.active /\ w.midi_voice_mask = desired /\ w.emitted_note = v.emitted_note
    BY <1>1 DEF CandidateState
  <2>7. w \in CandidateState
    BY <1>1, <2>1 DEF Become, TypeOK
  <2> HIDE DEF w
  <2>8. SoundsAs(c, w, sounding'[c])
    BY <2>1, <2>3, <2>5, <2>6 DEF SoundsAs, OutputNote
  <2> QED
    BY <2>1, <2>5, <2>7, <2>8, SoundStep
<1>4. CASE ReleaseVoice
  <2>1. Emit(c, OutputNote(c), v.midi_voice_mask, {}) /\ Become(c, FreshCandidate)
    BY <1>0, <1>4 DEF ReleaseVoice
  <2>2. Whole(c, OutputNote(c), v.midi_voice_mask, {})
    <3>1. {} \in SUBSET Strings
      OBVIOUS
    <3> QED
      BY <1>2, <2>1, <3>1, EmitWhole
  <2>3. sounding'[c] = {} /\ \A d \in Candidates \ {c} : sounding'[d] = sounding[d]
    BY <1>1, <1>2, <2>2 DEF Whole
  <2>4. SoundsAs(c, FreshCandidate, sounding'[c])
    BY <2>3 DEF SoundsAs, FreshCandidate
  <2> QED
    BY <2>1, <2>3, <2>4, FreshIsTyped, SoundStep
<1>5. CASE CoastVoice
  <2>1. PICK ticks : Become(c, [v EXCEPT !.release_ticks = ticks])
    BY <1>0, <1>5 DEF CoastVoice
  <2> DEFINE w == [v EXCEPT !.release_ticks = ticks]
  <2>2. w.active = v.active /\ w.midi_voice_mask = v.midi_voice_mask
        /\ w.emitted_note = v.emitted_note /\ w \in CandidateState
    <3>1. w.active = v.active /\ w.midi_voice_mask = v.midi_voice_mask
          /\ w.emitted_note = v.emitted_note
      BY <1>1 DEF CandidateState
    <3>2. w \in CandidateState
      BY <1>1, <2>1 DEF Become, TypeOK
    <3> QED
      BY <3>1, <3>2
  <2> HIDE DEF w
  <2>3. UNCHANGED sounding /\ Become(c, w)
    BY <1>5, <2>1 DEF CoastVoice, Unheard, w
  <2> QED
    BY <2>2, <2>3, SilentStep
<1> QED
  BY <1>3, <1>4, <1>5

LEMMA AttackSounds ==
  ASSUME TypeOK, SeatsInv, SoundInv, AttackIdle \/ AttackWaits \/ AttackStarts, ~ dropped, ~ dropped'
  PROVE  SoundInv'
<1>0. PICK c \in Candidates : c = candidate
  BY DEF TypeOK
<1> DEFINE v == candidate_states[c]
<1>1. v \in CandidateState /\ SoundsAs(c, v, sounding[c]) /\ Seated(v)
      /\ sounding \in [Candidates -> SUBSET (Strings \X Notes)]
      /\ candidate_states' \in [Candidates -> CandidateState] /\ c # NoNote
  <2>1. c # NoNote
    BY DEF Candidates, NoNote
  <2> QED
    BY <2>1, StateOf, AttackTypes DEF SoundInv, SeatsInv, TypeOK
<1>2. ~ v.active => sounding[c] = {}
  BY <1>1 DEF SoundsAs, Seated
<1>3. ASSUME NEW w, Become(c, w), UNCHANGED sounding, w.active = v.active,
             w.midi_voice_mask = v.midi_voice_mask, w.emitted_note = v.emitted_note
      PROVE  SoundInv'
  <2>1. w \in CandidateState
    BY <1>1, <1>3 DEF Become, TypeOK
  <2> QED
    BY <1>3, <2>1, SilentStep
<1>4. ASSUME NEW ticks, NEW ticks2
      PROVE  \A w \in {v, [v EXCEPT !.release_ticks = ticks], [v EXCEPT !.attack_ticks = ticks],
                       [v EXCEPT !.release_ticks = ticks, !.attack_ticks = ticks2]} :
               Become(c, w) /\ UNCHANGED sounding => SoundInv'
  <2>1. \A w \in {v, [v EXCEPT !.release_ticks = ticks], [v EXCEPT !.attack_ticks = ticks],
                  [v EXCEPT !.release_ticks = ticks, !.attack_ticks = ticks2]} :
               w.active = v.active /\ w.midi_voice_mask = v.midi_voice_mask
               /\ w.emitted_note = v.emitted_note
    BY <1>1 DEF CandidateState
  <2> QED
    BY <1>3, <2>1
<1>5. CASE AttackIdle
  <2>1. UNCHANGED sounding
    BY <1>5 DEF AttackIdle, Unheard
  <2>2. \/ Become(c, v) \/ Become(c, [v EXCEPT !.attack_ticks = 0])
        \/ Become(c, [v EXCEPT !.release_ticks = 0])
        \/ ~ v.active /\ Become(c, FreshCandidate)
    BY <1>0, <1>5 DEF AttackIdle
  <2>3. ASSUME ~ v.active, Become(c, FreshCandidate) PROVE SoundInv'
    <3>1. SoundsAs(c, FreshCandidate, sounding'[c])
      BY <1>2, <2>1, <2>3 DEF SoundsAs, FreshCandidate
    <3> QED
      BY <2>1, <2>3, <3>1, FreshIsTyped, SoundStep
  <2> QED
    BY <1>4, <2>1, <2>2, <2>3
<1>6. CASE AttackWaits
  <2>1. PICK ticks : Become(c, [v EXCEPT !.release_ticks = 0, !.attack_ticks = ticks])
    BY <1>0, <1>6 DEF AttackWaits
  <2>2. UNCHANGED sounding
    BY <1>6 DEF AttackWaits, Unheard
  <2> QED
    BY <1>4, <2>1, <2>2
<1>7. CASE AttackStarts
  <2> DEFINE desired == Assigned(v)
             w == [v EXCEPT !.release_ticks = 0, !.attack_ticks = 0, !.active = TRUE,
                            !.midi_voice_mask = desired, !.emitted_note = c]
  <2>1. \/ Become(c, [v EXCEPT !.release_ticks = 0, !.attack_ticks = AttackDecisions])
           /\ UNCHANGED sounding
        \/ desired # {} /\ Emit(c, c, {}, desired) /\ Become(c, w)
    BY <1>0, <1>7 DEF AttackStarts, Unheard
  <2>2. ASSUME desired # {}, Emit(c, c, {}, desired), Become(c, w) PROVE SoundInv'
    <3>1. desired \in SUBSET Strings /\ {} \in SUBSET Strings
      BY <1>1, LanesAreStrings
    <3> HIDE DEF desired
    <3>2. Whole(c, c, {}, desired)
      BY <2>2, <3>1, EmitWhole
    <3>3. sounding[c] = {}
      BY <1>0, <1>2, <1>7 DEF AttackStarts, Attacking
    <3>4. sounding'[c] = desired \X {c} /\ \A d \in Candidates \ {c} : sounding'[d] = sounding[d]
      BY <1>1, <3>2, <3>3 DEF Whole
    <3>5. w.active = TRUE /\ w.midi_voice_mask = desired /\ w.emitted_note = c
      BY <1>1 DEF CandidateState
    <3>6. w \in CandidateState
      BY <1>1, <2>2 DEF Become, TypeOK
    <3> HIDE DEF w
    <3>7. SoundsAs(c, w, sounding'[c])
      BY <1>1, <2>2, <3>4, <3>5 DEF SoundsAs
    <3> QED
      BY <2>2, <3>4, <3>6, <3>7, SoundStep
  <2> QED
    BY <1>4, <2>1, <2>2
<1> QED
  BY <1>5, <1>6, <1>7

\* A step that leaves what is heard, and of every voice what it is heard by, alone.
LEMMA QuietStep ==
  ASSUME SoundInv, UNCHANGED <<sounding, dropped>>,
         \A c \in Candidates :
           /\ candidate_states'[c].midi_voice_mask = candidate_states[c].midi_voice_mask
           /\ candidate_states'[c].emitted_note = candidate_states[c].emitted_note
  PROVE  SoundInv'
  BY DEF SoundInv, SoundsAs

LEMMA SoundIsKept ==
  ASSUME TypeOK, SeatsInv, SoundInv, [Next]_vars
  PROVE  SoundInv'
<1>1. CASE SelectQuiet
  <2>1. ASSUME NEW v \in CandidateState
        PROVE  LET w == [v EXCEPT !.calibrated_output_target = NoNote,
                                  !.calibrated_output_ticks = 0]
               IN w.active = v.active /\ w.midi_voice_mask = v.midi_voice_mask
                  /\ w.emitted_note = v.emitted_note
    BY DEF CandidateState
  <2> QED
    BY <1>1, <2>1, StateOf, QuietStep DEF SelectQuiet, history
<1>2. CASE Assign /\ ~ UNCHANGED candidate_states
  <2>1. PICK a \in Assignments,
             lanes \in Choices(selected, LAMBDA c : {{}} \cup SpectralLanes(c)) :
          candidate_states' =
             [c \in Candidates |->
                IF c \in selected
                THEN [candidate_states[c] EXCEPT !.assigned_string = a[c],
                                                 !.spectral_lane_mask = lanes[c]]
                ELSE candidate_states[c]]
    BY <1>2 DEF Assign
  <2>2. UNCHANGED <<sounding, dropped>>
    BY <1>2 DEF Assign, history
  <2>3. ASSUME NEW c \in Candidates
        PROVE  /\ candidate_states'[c].active = candidate_states[c].active
               /\ candidate_states'[c].midi_voice_mask = candidate_states[c].midi_voice_mask
               /\ candidate_states'[c].emitted_note = candidate_states[c].emitted_note
    <3>1. candidate_states[c] \in CandidateState
      BY StateOf
    <3>2. \/ candidate_states'[c] = candidate_states[c]
          \/ \E string, mask :
               candidate_states'[c] = [candidate_states[c] EXCEPT !.assigned_string = string,
                                                                  !.spectral_lane_mask = mask]
      BY <2>1
    <3> QED
      BY <3>1, <3>2 DEF CandidateState
  <2> QED
    BY <2>2, <2>3, QuietStep
<1>3. CASE Infer
  <2>1. PICK w \in CandidateState :
          SameVoice(candidate_states[candidate], w) /\ Become(candidate, w)
    BY <1>3, InferStep DEF Inferred
  <2>2. candidate \in Candidates /\ UNCHANGED <<sounding, dropped>>
    BY <1>3, InferStep DEF Infer, history
  <2> QED
    BY <2>1, <2>2, BecomeStep, QuietStep DEF SameVoice
<1>4. CASE Restore
  BY <1>4, RestoreStep, QuietStep DEF Restore, Restored, SameVoice
<1>5. CASE Reset
  <2>1. \A c \in Candidates : SoundsAs(c, FreshCandidate, {})
    BY DEF SoundsAs, FreshCandidate
  <2> QED
    BY <1>5, <2>1 DEF Reset, SoundInv, Silent
<1>6. CASE \/ Select \/ BeginUnison \/ SkipInfer \/ NoVoice \/ UNCHANGED vars
           \/ (Assign /\ UNCHANGED candidate_states)
  <2>1. UNCHANGED <<candidate_states, sounding, dropped>>
    BY <1>6 DEF Select, BeginUnison, SkipInfer, NoVoice, Unheard, Assign, vars, history
  <2> QED
    BY <2>1, QuietStep
<1>7. CASE UpdateNote \/ MoveVoice \/ ReleaseVoice \/ CoastVoice \/ AttackIdle
            \/ AttackWaits \/ AttackStarts
  <2>1. dropped => dropped'
    BY <1>7 DEF UpdateNote, MoveVoice, ReleaseVoice, CoastVoice, AttackIdle, AttackWaits,
                AttackStarts, Renote, Emit, Append, Unheard
  <2>2. CASE dropped'
    BY <2>2 DEF SoundInv
  <2>3. CASE ~ dropped'
    BY <1>7, <2>1, <2>3, NoteSounds, VoiceSounds, AttackSounds
  <2> QED
    BY <2>2, <2>3
<1> QED
  BY <1>1, <1>2, <1>3, <1>4, <1>5, <1>6, <1>7 DEF Next

\* The transitions a decision records are the notes its state says: whatever moves, starts,
\* ends or takes another note, a pitch is left sounding on exactly its lanes, and only a
\* transition that found no room can ever set the two apart; what is active has lanes to
\* sound on even then (polyphonic_pitch_detector.cpp:2480, 7667-7746).
THEOREM SoundsWhatItRecords == Spec => []SoundsItsLanes
<1>1. Init => SoundInv
  BY DEF Init, SoundInv, SoundsAs, FreshCandidate, Silent
<1>2. TypeOK /\ SeatsInv /\ SoundInv /\ [Next]_vars => SoundInv'
  BY SoundIsKept
<1>3. SeatsInv /\ SoundInv => SoundsItsLanes
  BY DEF SeatsInv, Seated, SoundInv, SoundsAs, SoundsItsLanes, OutputNote
<1> QED
  BY <1>1, <1>2, <1>3, DetectorHolds, PTL DEF Spec

-----------------------------------------------------------------------------
(* Silence: each quiet decision ends a voice, once they are as many as a release takes *)

Alive == {c \in Candidates : candidate_states[c].active}

\* The voices that the loop over the voices has passed and that go on.
Passed == {c \in Alive : stage # "voices" \/ c < candidate}

MostVoices == Least(NumCandidates, MaxPolyphony)

PhaseInv ==
  /\ quiet => selected = {} /\ stage \in {"voices", "attack", "restore"}
  /\ ~ quiet /\ stage # "select" => silence = 0
  /\ stage = "select" => transitions = 0 /\ candidate = 0 /\ ~ quiet /\ selected = {}

CountInv ==
  /\ Cardinality(Alive) <= MaxPolyphony
  /\ stage \in {"voices", "attack", "restore"} => active_count = Cardinality(Passed)
  /\ stage \notin {"voices", "attack", "restore"} => active_count = 0

\* No voice has faded for fewer decisions than the silence, up to a release.
TickInv ==
  /\ \A c \in Alive : candidate_states[c].release_ticks >= Least(silence, ReleaseDecisions)
  /\ quiet => \A c \in Passed :
                candidate_states[c].release_ticks >= Least(silence + 1, ReleaseDecisions)

\* A quiet decision that comes late enough has ended a voice or may end the first it meets.
EndInv ==
  /\ SilenceEndsVoices
  /\ quiet /\ silence + 1 >= ReleaseDecisions =>
       \/ Cardinality(Alive) + silence + 1 - ReleaseDecisions < MostVoices
       \/ Passed = {} /\ (stage = "voices" => transitions = 0)

SilenceInv == PhaseInv /\ CountInv /\ TickInv /\ EndInv

LEMMA AliveIsFinite ==
  /\ IsFiniteSet(Alive) /\ Cardinality(Alive) \in Nat /\ Cardinality(Alive) <= NumCandidates
  /\ IsFiniteSet(Passed) /\ Cardinality(Passed) \in Nat
<1>1. IsFiniteSet(Candidates) /\ Cardinality(Candidates) = NumCandidates
  BY FS_Interval DEF Candidates
<1>2. Alive \subseteq Candidates /\ Passed \subseteq Candidates
  BY DEF Alive, Passed
<1> QED
  BY <1>1, <1>2, FS_Subset, FS_CardinalityType

\* What the voices count: whether they sound, and for how long they have faded.
SamePulse(v, w) == w.active = v.active /\ w.release_ticks = v.release_ticks

LEMMA PulsesAreKept ==
  ASSUME TypeOK,
         \/ SelectQuiet \/ Select \/ Assign \/ BeginUnison \/ Infer \/ SkipInfer \/ UpdateNote
         \/ NoVoice \/ Restore \/ UNCHANGED vars
  PROVE  \A c \in Candidates : SamePulse(candidate_states[c], candidate_states'[c])
<1>1. ASSUME NEW c \in Candidates, NEW w \in CandidateState, Become(c, w),
             SamePulse(candidate_states[c], w)
      PROVE  \A d \in Candidates : SamePulse(candidate_states[d], candidate_states'[d])
  BY <1>1, BecomeStep DEF SamePulse
<1>2. CASE SelectQuiet
  <2>1. ASSUME NEW v \in CandidateState
        PROVE  SamePulse(v, [v EXCEPT !.calibrated_output_target = NoNote,
                                      !.calibrated_output_ticks = 0])
    BY DEF CandidateState, SamePulse
  <2> QED
    BY <1>2, <2>1, StateOf DEF SelectQuiet
<1>3. CASE Assign /\ ~ UNCHANGED candidate_states
  <2>1. PICK a \in Assignments,
             lanes \in Choices(selected, LAMBDA c : {{}} \cup SpectralLanes(c)) :
          candidate_states' =
             [c \in Candidates |->
                IF c \in selected
                THEN [candidate_states[c] EXCEPT !.assigned_string = a[c],
                                                 !.spectral_lane_mask = lanes[c]]
                ELSE candidate_states[c]]
    BY <1>3 DEF Assign
  <2>2. ASSUME NEW c \in Candidates
        PROVE  SamePulse(candidate_states[c], candidate_states'[c])
    <3>1. candidate_states[c] \in CandidateState
      BY StateOf
    <3>2. \/ candidate_states'[c] = candidate_states[c]
          \/ \E string, mask :
               candidate_states'[c] = [candidate_states[c] EXCEPT !.assigned_string = string,
                                                                  !.spectral_lane_mask = mask]
      BY <2>1
    <3> QED
      BY <3>1, <3>2 DEF CandidateState, SamePulse
  <2> QED
    BY <2>2
<1>4. CASE Infer
  <2>1. PICK w \in CandidateState :
          SameVoice(candidate_states[candidate], w) /\ Become(candidate, w)
    BY <1>4, InferStep DEF Inferred
  <2>2. candidate \in Candidates
    BY DEF TypeOK
  <2> QED
    BY <1>1, <2>1, <2>2 DEF SameVoice, SamePulse
<1>5. CASE UpdateNote
  <2>0. PICK c \in Candidates : c = candidate
    BY DEF TypeOK
  <2> DEFINE v == candidate_states[c]
  <2>1. PICK o : Become(c, [v EXCEPT !.emitted_note = IF o.note = OutputNote(c) THEN @ ELSE o.note,
                                     !.calibrated_output_target = o.target,
                                     !.calibrated_output_ticks = o.ticks])
    BY <1>5, <2>0 DEF UpdateNote
  <2> DEFINE note == IF o.note = OutputNote(c) THEN v.emitted_note ELSE o.note
             w == [v EXCEPT !.emitted_note = note, !.calibrated_output_target = o.target,
                            !.calibrated_output_ticks = o.ticks]
  <2>2. Become(c, w)
    BY <2>1
  <2> HIDE DEF note
  <2>3. SamePulse(v, w)
    BY StateOf DEF CandidateState, SamePulse
  <2>4. w \in CandidateState
    BY <1>5, <2>2, NoteTypes DEF Become, TypeOK
  <2> QED
    BY <1>1, <2>2, <2>3, <2>4
<1>6. CASE Restore
  BY <1>6, RestoreStep DEF Restored, SameVoice, SamePulse
<1>7. CASE \/ Select \/ BeginUnison \/ SkipInfer \/ NoVoice \/ UNCHANGED vars
           \/ (Assign /\ UNCHANGED candidate_states)
  <2>1. UNCHANGED candidate_states
    BY <1>7 DEF Select, BeginUnison, SkipInfer, NoVoice, Assign, vars
  <2> QED
    BY <2>1 DEF SamePulse
<1> QED
  BY <1>2, <1>3, <1>4, <1>5, <1>6, <1>7

LEMMA PulseAlive ==
  ASSUME \A c \in Candidates : SamePulse(candidate_states[c], candidate_states'[c])
  PROVE  Alive' = Alive
  BY DEF Alive, SamePulse

\* What each step of a loop over the voices does to the voice it has come to.
LEMMA VoicePulse ==
  ASSUME TypeOK, NEW c \in Candidates, c = candidate
  PROVE  /\ MoveVoice => \E w \in CandidateState :
              Become(c, w) /\ w.active = candidate_states[c].active
         /\ ReleaseVoice => Become(c, FreshCandidate)
         /\ CoastVoice => \E w \in CandidateState :
              /\ Become(c, w) /\ w.active = candidate_states[c].active
              /\ w.release_ticks = Least(candidate_states[c].release_ticks + 1, LongestHold)
         /\ AttackIdle => \E w \in CandidateState :
              /\ Become(c, w) /\ w.active = candidate_states[c].active
              /\ c \notin selected /\ w.active =>
                   w.release_ticks = candidate_states[c].release_ticks
         /\ AttackWaits => \E w \in CandidateState :
              Become(c, w) /\ w.active = candidate_states[c].active
         /\ AttackStarts => \E w \in CandidateState :
              /\ Become(c, w)
              /\ \/ w.active = candidate_states[c].active /\ UNCHANGED active_count
                 \/ /\ ~ candidate_states[c].active /\ w.active
                    /\ active_count < MaxPolyphony /\ active_count' = active_count + 1
<1> DEFINE v == candidate_states[c]
<1>1. v \in CandidateState
  BY StateOf
<1>2. ASSUME NEW w, Become(c, w), candidate_states' \in [Candidates -> CandidateState]
      PROVE  w \in CandidateState
  BY <1>2 DEF Become, TypeOK
<1>3. ASSUME MoveVoice PROVE \E w \in CandidateState : Become(c, w) /\ w.active = v.active
  <2> DEFINE desired == ProjectedOutput(v, v.continuity_lane_mask)
             w == [v EXCEPT !.release_ticks = 0, !.midi_voice_mask = desired]
  <2>1. Become(c, w)
    BY <1>3 DEF MoveVoice
  <2> HIDE DEF desired
  <2>2. w.active = v.active
    BY <1>1 DEF CandidateState
  <2>3. w \in CandidateState
    BY <1>2, <1>3, <2>1, VoiceTypes DEF TypeOK
  <2> QED
    BY <2>1, <2>2, <2>3
<1>4. ReleaseVoice => Become(c, FreshCandidate)
  BY DEF ReleaseVoice
<1>5. ASSUME CoastVoice
      PROVE  \E w \in CandidateState : /\ Become(c, w) /\ w.active = v.active
                                       /\ w.release_ticks = Least(v.release_ticks + 1, LongestHold)
  <2> DEFINE ticks == Least(v.release_ticks + 1, LongestHold)
             w == [v EXCEPT !.release_ticks = ticks]
  <2>1. Become(c, w)
    BY <1>5 DEF CoastVoice
  <2> HIDE DEF ticks
  <2>2. w.active = v.active /\ w.release_ticks = ticks
    BY <1>1 DEF CandidateState
  <2>3. w \in CandidateState
    BY <1>2, <1>5, <2>1, VoiceTypes DEF TypeOK
  <2> QED
    BY <2>1, <2>2, <2>3 DEF ticks
<1>6. ASSUME AttackIdle
      PROVE  \E w \in CandidateState :
               /\ Become(c, w) /\ w.active = v.active
               /\ c \notin selected /\ w.active => w.release_ticks = v.release_ticks
  <2>1. PICK w : /\ Become(c, w)
                 /\ \/ w = v \/ w = [v EXCEPT !.attack_ticks = 0]
                    \/ w = [v EXCEPT !.release_ticks = 0] /\ c \in selected
                    \/ w = FreshCandidate /\ ~ v.active
    BY <1>6 DEF AttackIdle
  <2>2. w \in CandidateState
    BY <1>2, <1>6, <2>1, AttackTypes DEF TypeOK
  <2>3. /\ w.active = v.active
        /\ c \notin selected /\ w.active => w.release_ticks = v.release_ticks
    <3>1. CASE w = v
      BY <3>1
    <3>2. CASE w = [v EXCEPT !.attack_ticks = 0]
      BY <1>1, <3>2 DEF CandidateState
    <3>3. CASE w = [v EXCEPT !.release_ticks = 0] /\ c \in selected
      BY <1>1, <3>3 DEF CandidateState
    <3>4. CASE w = FreshCandidate /\ ~ v.active
      <4>1. w.active = FALSE /\ v.active \in BOOLEAN
        BY <1>1, <3>4 DEF FreshCandidate, CandidateState
      <4> QED
        BY <3>4, <4>1
    <3> QED
      BY <2>1, <3>1, <3>2, <3>3, <3>4
  <2> QED
    BY <2>1, <2>2, <2>3
<1>7. ASSUME AttackWaits PROVE \E w \in CandidateState : Become(c, w) /\ w.active = v.active
  <2>1. PICK ticks : Become(c, [v EXCEPT !.release_ticks = 0, !.attack_ticks = ticks])
    BY <1>7 DEF AttackWaits
  <2> DEFINE w == [v EXCEPT !.release_ticks = 0, !.attack_ticks = ticks]
  <2>2. w.active = v.active
    BY <1>1 DEF CandidateState
  <2>3. w \in CandidateState
    BY <1>2, <1>7, <2>1, AttackTypes DEF TypeOK
  <2> QED
    BY <2>1, <2>2, <2>3
<1>8. ASSUME AttackStarts
      PROVE  \E w \in CandidateState :
               /\ Become(c, w)
               /\ \/ w.active = v.active /\ UNCHANGED active_count
                  \/ /\ ~ v.active /\ w.active
                     /\ active_count < MaxPolyphony /\ active_count' = active_count + 1
  <2> DEFINE desired == Assigned(v)
             started == [v EXCEPT !.release_ticks = 0, !.attack_ticks = 0, !.active = TRUE,
                                  !.midi_voice_mask = desired, !.emitted_note = c]
             due == [v EXCEPT !.release_ticks = 0, !.attack_ticks = AttackDecisions]
  <2>1. \/ Become(c, due) /\ UNCHANGED active_count
        \/ Become(c, started) /\ active_count' = active_count + 1
    BY <1>8 DEF AttackStarts, Unheard
  <2>2. ~ v.active /\ active_count < MaxPolyphony
    BY <1>8 DEF AttackStarts, Attacking
  <2> HIDE DEF desired
  <2>3. due.active = v.active /\ started.active
    BY <1>1 DEF CandidateState
  <2>4. /\ Become(c, due) => due \in CandidateState
        /\ Become(c, started) => started \in CandidateState
    BY <1>2, <1>8, AttackTypes DEF TypeOK
  <2> HIDE DEF due, started
  <2> QED
    BY <2>1, <2>2, <2>3, <2>4
<1> QED
  BY <1>3, <1>4, <1>5, <1>6, <1>7, <1>8

LEMMA PhaseIsKept ==
  ASSUME TypeOK, PhaseInv, [Next]_vars
  PROVE  PhaseInv'
<1>1. CASE SelectQuiet \/ Select
  <2>1. stage = "select"
    BY <1>1 DEF SelectQuiet, Select
  <2>2. CASE SelectQuiet
    <3>1. quiet' = TRUE /\ stage' = "voices" /\ UNCHANGED selected
      BY <2>2 DEF SelectQuiet
    <3>2. selected = {}
      BY <2>1 DEF PhaseInv
    <3> QED
      BY <3>1, <3>2 DEF PhaseInv
  <2>3. CASE Select
    <3>1. UNCHANGED quiet /\ silence' = 0 /\ stage' = "assign"
      BY <2>3 DEF Select
    <3> QED
      BY <2>1, <3>1 DEF PhaseInv
  <2> QED
    BY <1>1, <2>2, <2>3
<1>2. CASE Assign \/ BeginUnison
  <2>1. /\ stage \in {"assign", "unison"} /\ stage' \in {"unison", "infer"}
        /\ UNCHANGED <<selected, quiet, silence>>
    BY <1>2 DEF Assign, BeginUnison, history
  <2> QED
    BY <2>1 DEF PhaseInv
<1>3. CASE Infer \/ SkipInfer
  <2>1. stage = "infer" /\ stage' \in {"infer", "notes"} /\ UNCHANGED <<selected, quiet, silence>>
    BY <1>3 DEF Infer, SkipInfer, Advance, history
  <2> QED
    BY <2>1 DEF PhaseInv
<1>4. CASE UpdateNote
  <2>1. stage = "notes" /\ stage' \in {"notes", "voices"} /\ UNCHANGED <<selected, quiet, silence>>
    BY <1>4 DEF UpdateNote, Advance
  <2> QED
    BY <2>1 DEF PhaseInv
<1>5. CASE MoveVoice \/ ReleaseVoice \/ CoastVoice \/ NoVoice
  <2>1. stage = "voices" /\ stage' \in {"voices", "attack"} /\ UNCHANGED <<selected, quiet, silence>>
    BY <1>5 DEF MoveVoice, ReleaseVoice, CoastVoice, NoVoice, Advance, voice_frame
  <2> QED
    BY <2>1 DEF PhaseInv
<1>6. CASE AttackIdle \/ AttackWaits \/ AttackStarts
  <2>1. stage = "attack" /\ stage' \in {"attack", "restore"} /\ UNCHANGED <<selected, quiet, silence>>
    BY <1>6 DEF AttackIdle, AttackWaits, AttackStarts, Attacking, Advance, voice_frame
  <2> QED
    BY <2>1 DEF PhaseInv
<1>7. CASE Restore
  BY <1>7 DEF Restore, PhaseInv
<1>8. CASE Reset \/ UNCHANGED vars
  BY <1>8 DEF Reset, vars, locals, history, PhaseInv
<1> QED
  BY <1>1, <1>2, <1>3, <1>4, <1>5, <1>6, <1>7, <1>8 DEF Next

\* The voices that go on after a pass of the loop over the voices.
LEMMA PassedNext ==
  ASSUME TypeOK, stage = "voices", Advance("attack")
  PROVE  Passed' = {d \in Alive' : d <= candidate} /\ Passed = {d \in Alive : d < candidate}
<1>1. Alive' \subseteq Candidates
  BY DEF Alive
<1>2. candidate \in Nat /\ candidate < NumCandidates /\ \A d \in Candidates : d \in Nat /\ d < NumCandidates
  BY DEF TypeOK, Candidates
<1>3. CASE candidate + 1 < NumCandidates
  <2>1. candidate' = candidate + 1 /\ stage' = "voices"
    BY <1>3 DEF Advance
  <2> QED
    BY <1>1, <1>2, <2>1 DEF Passed
<1>4. CASE ~ (candidate + 1 < NumCandidates)
  <2>1. stage' = "attack"
    BY <1>4 DEF Advance
  <2>2. \A d \in Candidates : d <= candidate
    BY <1>2, <1>4
  <2> QED
    BY <1>1, <2>1, <2>2 DEF Passed
<1> QED
  BY <1>3, <1>4

\* What the loop over the voices does to the voices that sound, and to those that go on.
LEMMA VoicesCount ==
  ASSUME TypeOK, PhaseInv, CountInv, MoveVoice \/ ReleaseVoice \/ CoastVoice \/ NoVoice
  PROVE  /\ ReleaseVoice => /\ Alive' = Alive \ {candidate} /\ Passed' = Passed
                            /\ candidate \in Alive
         /\ MoveVoice \/ CoastVoice => /\ Alive' = Alive /\ Passed' = Passed \cup {candidate}
                                       /\ candidate \in Alive /\ candidate \notin Passed
         /\ NoVoice => Alive' = Alive /\ Passed' = Passed
<1>0. PICK c \in Candidates : c = candidate
  BY DEF TypeOK
<1>1. stage = "voices" /\ Advance("attack")
  BY DEF MoveVoice, ReleaseVoice, CoastVoice, NoVoice
<1>2. /\ Passed' = {d \in Alive' : d <= c} /\ Passed = {d \in Alive : d < c}
      /\ \A d \in Candidates : d <= c <=> d < c \/ d = c
  BY <1>0, <1>1, PassedNext DEF Candidates
<1>3. Alive \subseteq Candidates /\ Alive' \subseteq Candidates /\ ~ (c < c)
  BY DEF Alive, Candidates
<1>4. ASSUME ReleaseVoice
      PROVE  Alive' = Alive \ {c} /\ Passed' = Passed /\ c \in Alive
  <2>1. Become(c, FreshCandidate) /\ c \in Alive
    BY <1>0, <1>4 DEF ReleaseVoice, Coasting, Alive
  <2>2. Alive' = Alive \ {c}
    BY <2>1, FreshIsTyped, BecomeStep DEF Alive, FreshCandidate
  <2> QED
    BY <1>2, <1>3, <2>1, <2>2
<1>5. ASSUME MoveVoice \/ CoastVoice
      PROVE  Alive' = Alive /\ Passed' = Passed \cup {c} /\ c \in Alive /\ c \notin Passed
  <2>1. PICK w \in CandidateState : Become(c, w) /\ w.active = candidate_states[c].active
    BY <1>0, <1>5, VoicePulse
  <2>2. c \in Alive
    BY <1>0, <1>5 DEF MoveVoice, CoastVoice, Coasting, Alive
  <2>3. Alive' = Alive
    BY <2>1, BecomeStep DEF Alive
  <2> QED
    BY <1>2, <1>3, <2>2, <2>3
<1>6. ASSUME NoVoice PROVE Alive' = Alive /\ Passed' = Passed
  <2>1. c \notin Alive /\ Alive' = Alive
    BY <1>0, <1>6 DEF NoVoice, Alive
  <2> QED
    BY <1>2, <1>3, <2>1
<1> QED
  BY <1>0, <1>4, <1>5, <1>6

LEMMA CountIsKept ==
  ASSUME TypeOK, PhaseInv, CountInv, [Next]_vars
  PROVE  CountInv'
<1>0. /\ IsFiniteSet(Alive) /\ Cardinality(Alive) \in Nat
      /\ IsFiniteSet(Passed) /\ Cardinality(Passed) \in Nat
  BY AliveIsFinite
<1>1. CASE SelectQuiet
  <2>1. Alive' = Alive
    BY <1>1, PulsesAreKept, PulseAlive
  <2>2. stage' = "voices" /\ candidate' = 0 /\ active_count' = 0
    BY <1>1 DEF SelectQuiet, PhaseInv, CountInv, locals
  <2>3. Passed' = {}
    BY <2>2 DEF Passed, Alive, Candidates
  <2> QED
    BY <2>1, <2>2, <2>3, FS_EmptySet DEF CountInv
<1>2. CASE Select \/ Assign \/ BeginUnison \/ Infer \/ SkipInfer
  <2>1. Alive' = Alive
    BY <1>2, PulsesAreKept, PulseAlive
  <2>2. /\ stage' \notin {"voices", "attack", "restore"} /\ UNCHANGED active_count
        /\ stage \notin {"voices", "attack", "restore"}
    BY <1>2 DEF Select, Assign, BeginUnison, Infer, SkipInfer, Advance, locals
  <2> QED
    BY <2>1, <2>2 DEF CountInv
<1>3. CASE UpdateNote
  <2>1. Alive' = Alive
    BY <1>3, PulsesAreKept, PulseAlive
  <2>2. active_count' = 0 /\ (stage' = "notes" \/ (stage' = "voices" /\ candidate' = 0))
    BY <1>3 DEF UpdateNote, Advance, CountInv
  <2>3. candidate' = 0 /\ stage' = "voices" => Passed' = {}
    BY DEF Passed, Alive, Candidates
  <2> QED
    BY <2>1, <2>2, <2>3, FS_EmptySet DEF CountInv
<1>4. CASE MoveVoice \/ ReleaseVoice \/ CoastVoice \/ NoVoice
  <2>1. stage = "voices" /\ stage' \in {"voices", "attack"}
    BY <1>4 DEF MoveVoice, ReleaseVoice, CoastVoice, NoVoice, Advance
  <2>2. CASE ReleaseVoice
    <3>1. Alive' = Alive \ {candidate} /\ Passed' = Passed /\ candidate \in Alive
      BY <2>2, VoicesCount
    <3>2. Cardinality(Alive') = Cardinality(Alive) - 1
      BY <1>0, <3>1, FS_RemoveElement
    <3>3. UNCHANGED active_count
      BY <2>2 DEF ReleaseVoice
    <3> QED
      BY <1>0, <2>1, <3>1, <3>2, <3>3 DEF CountInv
  <2>3. CASE MoveVoice \/ CoastVoice
    <3>1. Alive' = Alive /\ Passed' = Passed \cup {candidate} /\ candidate \notin Passed
      BY <2>3, VoicesCount
    <3>2. Cardinality(Passed') = Cardinality(Passed) + 1
      BY <1>0, <3>1, FS_AddElement
    <3>3. active_count' = active_count + 1
      BY <2>3 DEF MoveVoice, CoastVoice
    <3> QED
      BY <1>0, <2>1, <3>1, <3>2, <3>3 DEF CountInv
  <2>4. CASE NoVoice
    <3>1. Alive' = Alive /\ Passed' = Passed /\ UNCHANGED active_count
      BY <2>4, VoicesCount DEF NoVoice
    <3> QED
      BY <2>1, <3>1 DEF CountInv
  <2> QED
    BY <1>4, <2>2, <2>3, <2>4
<1>5. CASE AttackIdle \/ AttackWaits \/ AttackStarts
  <2>0. PICK c \in Candidates : c = candidate
    BY DEF TypeOK
  <2>1. stage = "attack" /\ stage' \in {"attack", "restore"}
    BY <1>5 DEF AttackIdle, AttackWaits, AttackStarts, Attacking, Advance
  <2>2. Passed = Alive /\ Passed' = Alive'
    BY <2>1 DEF Passed
  <2>3. AttackIdle \/ AttackWaits => UNCHANGED active_count
    BY DEF AttackIdle, AttackWaits
  <2>4. PICK w \in CandidateState :
          /\ Become(c, w)
          /\ \/ w.active = candidate_states[c].active /\ UNCHANGED active_count
             \/ /\ ~ candidate_states[c].active /\ w.active
                /\ active_count < MaxPolyphony /\ active_count' = active_count + 1
    BY <1>5, <2>0, <2>3, VoicePulse
  <2>5. CASE w.active = candidate_states[c].active /\ UNCHANGED active_count
    <3>1. Alive' = Alive
      BY <2>4, <2>5, BecomeStep DEF Alive
    <3> QED
      BY <2>1, <2>2, <2>5, <3>1 DEF CountInv
  <2>6. CASE /\ ~ candidate_states[c].active /\ w.active
             /\ active_count < MaxPolyphony /\ active_count' = active_count + 1
    <3>1. Alive' = Alive \cup {c} /\ c \notin Alive
      BY <2>4, <2>6, BecomeStep DEF Alive
    <3>2. Cardinality(Alive') = Cardinality(Alive) + 1
      BY <1>0, <3>1, FS_AddElement
    <3> QED
      BY <1>0, <2>1, <2>2, <2>6, <3>2 DEF CountInv
  <2> QED
    BY <2>4, <2>5, <2>6
<1>6. CASE Restore
  <2>1. Alive' = Alive
    BY <1>6, PulsesAreKept, PulseAlive
  <2> QED
    BY <1>6, <2>1 DEF Restore, CountInv
<1>7. CASE Reset
  <2>1. Alive' = {}
    BY <1>7 DEF Reset, Alive, FreshCandidate
  <2>2. stage = "select" /\ UNCHANGED <<stage, active_count>>
    BY <1>7 DEF Reset, locals
  <2> QED
    BY <2>1, <2>2, FS_EmptySet DEF CountInv
<1>8. CASE UNCHANGED vars
  <2>1. Alive' = Alive /\ Passed' = Passed /\ UNCHANGED <<stage, active_count>>
    BY <1>8 DEF vars, locals, Alive, Passed
  <2> QED
    BY <2>1 DEF CountInv
<1> QED
  BY <1>1, <1>2, <1>3, <1>4, <1>5, <1>6, <1>7, <1>8 DEF Next

LEMMA HoldsAreLong == LongestHold \in Nat /\ ReleaseDecisions <= LongestHold
  BY DEF LongestHold, Greatest

\* While there is a signal there is nothing to show.
LEMMA LoudNext ==
  ASSUME TypeOK', ~ quiet', silence' = 0
  PROVE  TickInv' /\ EndInv'
<1>1. \A c \in Candidates : candidate_states'[c].release_ticks \in Nat
  BY DEF TypeOK, CandidateState
<1>2. Least(silence', ReleaseDecisions) = 0 /\ ~ (silence' >= ReleaseDecisions)
  BY DEF Least
<1>3. TickInv'
  BY <1>1, <1>2 DEF TickInv, Alive
<1> QED
  BY <1>2, <1>3 DEF EndInv, SilenceEndsVoices

\* A decision that is not quiet, and a reset, end the silence.
LEMMA LoudSteps ==
  ASSUME PhaseInv, ~ quiet, Next, ~ SelectQuiet
  PROVE  ~ quiet' /\ silence' = 0
<1>1. CASE Select
  BY <1>1 DEF Select
<1>2. CASE Restore
  BY <1>2 DEF Restore
<1>3. CASE Reset
  BY <1>3 DEF Reset
<1>4. CASE Assign \/ BeginUnison \/ Infer \/ SkipInfer \/ UpdateNote
  <2>1. stage # "select" /\ UNCHANGED <<quiet, silence>>
    BY <1>4 DEF Assign, BeginUnison, Infer, SkipInfer, UpdateNote, history
  <2> QED
    BY <2>1 DEF PhaseInv
<1>5. CASE MoveVoice \/ ReleaseVoice \/ CoastVoice \/ NoVoice
  BY <1>5 DEF MoveVoice, ReleaseVoice, CoastVoice, NoVoice, PhaseInv, voice_frame
<1>6. CASE AttackIdle \/ AttackWaits \/ AttackStarts
  <2>1. stage # "select" /\ UNCHANGED <<quiet, silence>>
    BY <1>6 DEF AttackIdle, AttackWaits, AttackStarts, Attacking, voice_frame
  <2> QED
    BY <2>1 DEF PhaseInv
<1> QED
  BY <1>1, <1>2, <1>3, <1>4, <1>5, <1>6 DEF Next

\* The steps of a quiet decision.
LEMMA QuietSteps ==
  ASSUME PhaseInv, quiet, Next
  PROVE  ReleaseVoice \/ CoastVoice \/ NoVoice \/ AttackIdle \/ Restore
<1>1. selected = {} /\ stage \in {"voices", "attack", "restore"}
  BY DEF PhaseInv
<1> QED
  BY <1>1 DEF Next, SelectQuiet, Select, Assign, BeginUnison, Infer, SkipInfer, UpdateNote,
     MoveVoice, AttackWaits, AttackStarts, Attacking, Reset

LEMMA TickIsKept ==
  ASSUME TypeOK, PhaseInv, CountInv, TickInv, [Next]_vars
  PROVE  TickInv'
<1> DEFINE ticks(c) == candidate_states[c].release_ticks
<1>1. TypeOK' /\ PhaseInv' /\ silence \in Nat
  BY TypesAreKept, PhaseIsKept DEF TypeOK
<1>2. \A c \in Candidates : ticks(c) \in Nat
  BY StateOf DEF CandidateState
<1>3. CASE UNCHANGED vars
  BY <1>3 DEF vars, history, locals, TickInv, Alive, Passed
<1>4. CASE Next /\ quiet
  <2>1. CASE Restore
    <3>1. quiet' = FALSE /\ silence' \in {0, silence + 1}
      <4>1. silence' = silence + 1 \/ silence' = 0
        <5>1. CASE \E c \in Candidates : candidate_states[c].active
          BY <1>4, <2>1, <5>1 DEF Restore
        <5>2. CASE ~ \E c \in Candidates : candidate_states[c].active
          BY <1>4, <2>1, <5>2 DEF Restore
        <5> QED
          BY <5>1, <5>2
      <4> QED
        BY <2>1, <4>1 DEF Restore
    <3>2. Alive' = Alive /\ \A c \in Candidates : candidate_states'[c].release_ticks = ticks(c)
      BY <2>1, PulsesAreKept, PulseAlive DEF SamePulse
    <3>3. Passed = Alive
      BY <2>1 DEF Passed, Restore
    <3>4. \A c \in Alive : ticks(c) >= Least(silence', ReleaseDecisions)
      <4>1. \A c \in Alive : ticks(c) >= Least(silence + 1, ReleaseDecisions) /\ ticks(c) \in Nat
        BY <1>2, <1>4, <3>3 DEF TickInv, Alive
      <4>2. Least(0, ReleaseDecisions) = 0
        BY DEF Least
      <4> QED
        BY <3>1, <4>1, <4>2
    <3> QED
      BY <3>1, <3>2, <3>4 DEF TickInv, Alive
  <2>2. CASE ReleaseVoice \/ CoastVoice \/ NoVoice \/ AttackIdle
    <3>0. PICK c \in Candidates : c = candidate
      BY DEF TypeOK
    <3>1. UNCHANGED <<quiet, selected, silence>>
      BY <2>2 DEF ReleaseVoice, CoastVoice, NoVoice, AttackIdle, voice_frame
    <3>2. selected = {}
      BY <1>4 DEF PhaseInv
    <3>3. CASE ReleaseVoice
      <4>1. Alive' = Alive \ {c} /\ Passed' = Passed
        BY <3>0, <3>3, VoicesCount
      <4>2. \A d \in Alive' : candidate_states'[d] = candidate_states[d]
        <5>1. Become(c, FreshCandidate)
          BY <3>0, <3>3 DEF ReleaseVoice
        <5> QED
          BY <4>1, <5>1, FreshIsTyped, BecomeStep DEF Alive
      <4>3. Passed' \subseteq Alive'
        BY DEF Passed
      <4> QED
        BY <3>1, <4>1, <4>2, <4>3 DEF TickInv
    <3>4. CASE CoastVoice
      <4>1. Alive' = Alive /\ Passed' = Passed \cup {c} /\ c \in Alive
        BY <3>0, <3>4, VoicesCount
      <4>2. PICK w \in CandidateState :
              Become(c, w) /\ w.release_ticks = Least(ticks(c) + 1, LongestHold)
        BY <3>0, <3>4, VoicePulse
      <4>3. /\ candidate_states'[c].release_ticks = Least(ticks(c) + 1, LongestHold)
            /\ \A d \in Candidates \ {c} : candidate_states'[d] = candidate_states[d]
        BY <4>2, BecomeStep
      <4>4. ticks(c) >= Least(silence, ReleaseDecisions)
        BY <4>1 DEF TickInv
      <4>5. /\ Least(ticks(c) + 1, LongestHold) >= Least(silence, ReleaseDecisions)
            /\ Least(ticks(c) + 1, LongestHold) >= Least(silence + 1, ReleaseDecisions)
        <5>1. ticks(c) \in Nat
          BY <1>2
        <5> HIDE DEF ticks
        <5> QED
          BY <1>1, <4>4, <5>1, HoldsAreLong DEF Least
      <4> QED
        BY <1>4, <3>1, <4>1, <4>3, <4>5 DEF TickInv, Alive, Passed
    <3>5. CASE NoVoice
      <4>1. Alive' = Alive /\ Passed' = Passed /\ UNCHANGED candidate_states
        BY <3>5, VoicesCount DEF NoVoice
      <4> QED
        BY <3>1, <4>1 DEF TickInv
    <3>6. CASE AttackIdle
      <4>1. PICK w \in CandidateState :
              /\ Become(c, w) /\ w.active = candidate_states[c].active
              /\ c \notin selected /\ w.active => w.release_ticks = ticks(c)
        BY <3>0, <3>6, VoicePulse
      <4>2. Alive' = Alive /\ \A d \in Alive : candidate_states'[d].release_ticks = ticks(d)
        BY <3>2, <4>1, BecomeStep DEF Alive
      <4>3. stage = "attack" /\ stage' \in {"attack", "restore"}
        BY <3>6 DEF AttackIdle, Advance
      <4>4. Passed = Alive /\ Passed' = Alive
        BY <4>2, <4>3 DEF Passed
      <4> QED
        BY <3>1, <4>2, <4>4 DEF TickInv
    <3> QED
      BY <2>2, <3>3, <3>4, <3>5, <3>6
  <2> QED
    BY <1>4, <2>1, <2>2, QuietSteps
<1>5. CASE Next /\ ~ quiet
  <2>1. CASE SelectQuiet
    <3>1. Alive' = Alive /\ \A c \in Candidates : candidate_states'[c].release_ticks = ticks(c)
      BY <2>1, PulsesAreKept, PulseAlive DEF SamePulse
    <3>2. UNCHANGED silence /\ candidate' = 0 /\ stage' = "voices"
      BY <2>1 DEF SelectQuiet, PhaseInv, history
    <3>3. Passed' = {}
      BY <3>2 DEF Passed, Alive, Candidates
    <3> QED
      BY <3>1, <3>2, <3>3 DEF TickInv, Alive
  <2>2. CASE ~ SelectQuiet
    <3>1. ~ quiet' /\ silence' = 0
      BY <1>5, <2>2, LoudSteps
    <3> QED
      BY <1>1, <3>1, LoudNext
  <2> QED
    BY <2>1, <2>2
<1> QED
  BY <1>3, <1>4, <1>5

\* Voices that end, and a bound on what is left of them.
LEMMA MostVoicesBound ==
  ASSUME CountInv
  PROVE  MostVoices \in Nat /\ Cardinality(Alive) <= MostVoices
  BY AliveIsFinite DEF MostVoices, Least, CountInv

\* With no event recorded there is room for every lane of a voice, and a voice that has
\* faded for as long as a release takes must end.
LEMMA FirstVoiceEnds ==
  ASSUME TypeOK, TickInv, quiet, silence + 1 >= ReleaseDecisions, transitions = 0,
         candidate \in Alive
  PROVE  ~ CoastVoice
<1>0. PICK c \in Candidates : c = candidate
  BY DEF TypeOK
<1> DEFINE v == candidate_states[c]
<1>1. v \in CandidateState /\ v.midi_voice_mask \in SUBSET Strings /\ v.release_ticks \in Nat
  <2>1. v \in CandidateState
    BY StateOf
  <2> QED
    BY <2>1 DEF CandidateState
<1>2. ~ (Cardinality(v.midi_voice_mask) > Room)
  BY <1>1, SubsetsAreFinite DEF Room
<1>3. v.release_ticks >= Least(silence, ReleaseDecisions) /\ silence \in Nat
  BY <1>0 DEF TickInv, TypeOK
<1>4. \A dropout : Hold(v, dropout) = ReleaseDecisions
  BY DEF Hold
<1>5. v.release_ticks + 1 >= ReleaseDecisions
  BY <1>1, <1>3 DEF Least
<1>6. \A dropout : MustEnd(c, v, dropout)
  BY <1>4, <1>5 DEF MustEnd
<1> QED
  BY <1>0, <1>2, <1>6 DEF CoastVoice

LEMMA EndIsKept ==
  ASSUME TypeOK, PhaseInv, CountInv, TickInv, EndInv, [Next]_vars
  PROVE  EndInv'
<1> DEFINE n == Cardinality(Alive)
<1>1. TypeOK' /\ silence \in Nat /\ n \in Nat /\ IsFiniteSet(Alive)
  BY TypesAreKept, AliveIsFinite DEF TypeOK
<1>2. MostVoices \in Nat /\ n <= MostVoices /\ UNCHANGED MostVoices
  BY MostVoicesBound DEF MostVoices
<1>3. silence >= ReleaseDecisions => n + silence - ReleaseDecisions < MostVoices
  BY DEF EndInv, SilenceEndsVoices, Alive, MostVoices
<1>4. ASSUME silence' >= ReleaseDecisions
               => Cardinality(Alive') + silence' - ReleaseDecisions < MostVoices,
             quiet' /\ silence' + 1 >= ReleaseDecisions =>
               \/ Cardinality(Alive') + silence' + 1 - ReleaseDecisions < MostVoices
               \/ Passed' = {} /\ (stage' = "voices" => transitions' = 0)
      PROVE  EndInv'
  BY <1>2, <1>4 DEF EndInv, SilenceEndsVoices, Alive, MostVoices
<1>5. CASE UNCHANGED vars
  BY <1>5 DEF vars, history, locals, EndInv, SilenceEndsVoices, Alive, Passed
<1>6. CASE Next /\ ~ quiet
  <2>1. CASE SelectQuiet
    <3>1. Alive' = Alive
      BY <2>1, PulsesAreKept, PulseAlive
    <3>2. UNCHANGED <<silence, transitions>> /\ candidate' = 0 /\ transitions = 0 /\ stage' = "voices"
      BY <2>1 DEF SelectQuiet, PhaseInv, history, locals
    <3>3. Passed' = {}
      BY <3>2 DEF Passed, Alive, Candidates
    <3> QED
      BY <1>3, <1>4, <3>1, <3>2, <3>3
  <2>2. CASE ~ SelectQuiet
    BY <1>1, <1>6, <2>2, LoudSteps, LoudNext
  <2> QED
    BY <2>1, <2>2
<1>7. CASE Next /\ quiet
  <2>0. PICK c \in Candidates : c = candidate
    BY DEF TypeOK
  <2>1. silence + 1 >= ReleaseDecisions =>
          \/ n + silence + 1 - ReleaseDecisions < MostVoices
          \/ Passed = {} /\ (stage = "voices" => transitions = 0)
    BY <1>7 DEF EndInv
  <2>2. CASE Restore
    <3>1. Alive' = Alive /\ quiet' = FALSE
      BY <2>2, PulsesAreKept, PulseAlive DEF Restore
    <3>2. Passed = Alive
      BY <2>2 DEF Passed, Restore
    <3>3. CASE Alive = {}
      <4>1. silence' = 0
        BY <2>2, <3>3 DEF Restore, Alive
      <4> QED
        BY <1>4, <3>1, <4>1
    <3>4. CASE Alive # {}
      <4>1. silence' = silence + 1
        BY <1>7, <2>2, <3>4 DEF Restore, Alive
      <4>2. silence + 1 >= ReleaseDecisions => n + silence + 1 - ReleaseDecisions < MostVoices
        BY <2>1, <3>2, <3>4
      <4> HIDE DEF n
      <4>3. silence' >= ReleaseDecisions => n + silence' - ReleaseDecisions < MostVoices
        BY <1>1, <1>2, <4>1, <4>2
      <4> QED
        BY <1>4, <3>1, <4>3 DEF n
    <3> QED
      BY <3>3, <3>4
  <2>3. CASE ReleaseVoice
    <3>1. Alive' = Alive \ {c} /\ c \in Alive /\ UNCHANGED <<quiet, silence>>
      BY <2>0, <2>3, VoicesCount DEF ReleaseVoice, voice_frame
    <3>2. Cardinality(Alive') = n - 1
      BY <1>1, <3>1, FS_RemoveElement
    <3> HIDE DEF n
    <3>3. silence + 1 >= ReleaseDecisions => (n - 1) + silence + 1 - ReleaseDecisions < MostVoices
      BY <1>1, <1>2, <1>3
    <3>4. silence >= ReleaseDecisions => (n - 1) + silence - ReleaseDecisions < MostVoices
      BY <1>1, <1>2, <1>3
    <3> QED
      BY <1>4, <3>1, <3>2, <3>3, <3>4
  <2>4. CASE CoastVoice
    <3>1. Alive' = Alive /\ c \in Alive /\ UNCHANGED <<quiet, silence>> /\ stage = "voices"
      BY <2>0, <2>4, VoicesCount DEF CoastVoice, voice_frame
    <3>2. silence + 1 >= ReleaseDecisions => n + silence + 1 - ReleaseDecisions < MostVoices
      BY <1>7, <2>0, <2>1, <2>4, <3>1, FirstVoiceEnds
    <3> QED
      BY <1>3, <1>4, <3>1, <3>2
  <2>5. CASE NoVoice
    <3>1. /\ Alive' = Alive /\ Passed' = Passed /\ UNCHANGED <<quiet, silence, transitions>>
          /\ stage = "voices"
      BY <2>5, VoicesCount DEF NoVoice, Unheard, voice_frame
    <3> QED
      BY <1>3, <1>4, <2>1, <3>1
  <2>6. CASE AttackIdle
    <3>1. PICK w \in CandidateState : Become(c, w) /\ w.active = candidate_states[c].active
      BY <2>0, <2>6, VoicePulse
    <3>2. Alive' = Alive
      BY <3>1, BecomeStep DEF Alive
    <3>3. /\ stage = "attack" /\ stage' \in {"attack", "restore"}
          /\ UNCHANGED <<quiet, silence>>
      BY <2>6 DEF AttackIdle, Advance, voice_frame
    <3>4. Passed = Alive /\ Passed' = Alive
      BY <3>2, <3>3 DEF Passed
    <3> QED
      BY <1>3, <1>4, <2>1, <3>2, <3>3, <3>4
  <2> QED
    BY <1>7, <2>2, <2>3, <2>4, <2>5, <2>6, QuietSteps
<1> QED
  BY <1>5, <1>6, <1>7

\* In silence the voices end, whatever held them before: as soon as quiet decisions are as
\* many as a release takes, each ends one at least, since the first voice it meets finds
\* room for all its note-offs, and a decision without a signal starts none.  The longer hold
\* of a group and the beats it depends on no longer count
\* (polyphonic_pitch_detector.cpp:2713-2740, 5711-5730, 7715-7746).
THEOREM SilenceEnds == Spec => []SilenceEndsVoices
<1>1. Init => SilenceInv
  <2> SUFFICES ASSUME Init PROVE SilenceInv
    OBVIOUS
  <2>1. Alive = {}
    BY DEF Init, Alive, FreshCandidate
  <2>2. PhaseInv
    BY DEF Init, PhaseInv
  <2>3. CountInv
    BY <2>1, FS_EmptySet DEF Init, CountInv
  <2>4. TickInv
    BY <2>1 DEF Init, TickInv
  <2>5. EndInv
    BY DEF Init, EndInv, SilenceEndsVoices
  <2> QED
    BY <2>2, <2>3, <2>4, <2>5 DEF SilenceInv
<1>2. TypeOK /\ SilenceInv /\ [Next]_vars => SilenceInv'
  BY PhaseIsKept, CountIsKept, TickIsKept, EndIsKept DEF SilenceInv
<1>3. SilenceInv => SilenceEndsVoices
  BY DEF SilenceInv, EndInv
<1> QED
  BY <1>1, <1>2, <1>3, DetectorHolds, PTL DEF Spec

\* No more voices sound than max_polyphony, at any point of a decision: the loop that starts
\* notes counts the voices that were moved or coast on, ended ones no longer, before it starts
\* another (active_count; polyphonic_pitch_detector.cpp:7665-7765).
THEOREM PolyphonyIsKept == Spec => [](Cardinality(Alive) <= MaxPolyphony)
<1>1. Init => PhaseInv /\ CountInv
  <2> SUFFICES ASSUME Init PROVE PhaseInv /\ CountInv
    OBVIOUS
  <2>1. Alive = {}
    BY DEF Init, Alive, FreshCandidate
  <2>2. CountInv
    BY <2>1, FS_EmptySet DEF Init, CountInv
  <2> QED
    BY <2>2 DEF Init, PhaseInv
<1>2. TypeOK /\ (PhaseInv /\ CountInv) /\ [Next]_vars => (PhaseInv /\ CountInv)'
  BY PhaseIsKept, CountIsKept
<1>3. CountInv => Cardinality(Alive) <= MaxPolyphony
  BY DEF CountInv
<1> QED
  BY <1>1, <1>2, <1>3, DetectorHolds, PTL DEF Spec

=============================================================================
