----------------------------- MODULE DetectorLanes -----------------------------
(***************************************************************************)
(* Which strings a pitch sounds on.  make_decision() of                    *)
(* PolyphonicPitchDetector selects pitches (candidates) that fit on the    *)
(* strings, assigns each a string, infers unisons of one pitch on several  *)
(* strings, replaces notes that the calibration knows better, starts,      *)
(* moves and releases the note of every string lane, and restores groups   *)
(* it knew (continuity), in that order, once per decision quantum, with    *)
(* the MIDI routing per voice and the profile m3.                          *)
(*                                                                         *)
(* Each phase is a step (stage) and each pass of a loop over the           *)
(* candidates is one (candidate).  What is measured (scores, spectra,      *)
(* beats, ages, costs) is a free choice in the phase that reads it; the    *)
(* group a fine fit resolved is kept, because several phases read it.      *)
(* Masks are sets of strings, and a note is the number of its candidate.   *)
(***************************************************************************)
EXTENDS Integers, FiniteSets

CONSTANTS
  NumCandidates,    \* candidate_count_
  NumStrings,       \* kM3OpenNotes.size()
  Playable,         \* playable_string_masks_, for every note
  Fits,             \* the groups a fine fit of a candidate may resolve
  MaxPolyphony,     \* max_polyphony_
  MaxTransitions,   \* kMaxTickTransitions
  AttackDecisions,  \* attack_decisions()
  ReleaseDecisions, \* release_decisions()
  UnisonEvidence,   \* unison_evidence_ticks of infer_m3_unison_strings
  UnisonDropout,    \* unison_dropout_decisions_
  ShortestBeatHold, \* beat_hold of unison_dropout_decisions() for the fastest beat
  LongestBeatHold,  \* and for the slowest
  Projected,        \* the notes project_calibrated_note may give for a candidate
  OutputConsensus   \* kM3CalibratedOutputConsensusDecisions

Candidates == 0 .. NumCandidates - 1
Strings == 0 .. NumStrings - 1
Notes == -1 .. NumCandidates  \* a projection is a semitone off

ASSUME DetectorAssumption ==
  /\ NumCandidates \in Nat \ {0} /\ NumStrings \in Nat \ {0}
  /\ Playable \in [Notes -> SUBSET Strings]
  /\ Projected \in [Candidates -> SUBSET Notes]
  /\ \A c \in Candidates : Projected[c] \subseteq {c - 1, c + 1}
  /\ OutputConsensus \in Nat \ {0}
  /\ Fits \in [Candidates -> SUBSET SUBSET Strings]
  /\ \A c \in Candidates : \A m \in Fits[c] : m \subseteq Playable[c] /\ Cardinality(m) \in 2 .. 4
  /\ MaxPolyphony \in 1 .. NumStrings
  /\ MaxTransitions \in Nat \ {0} /\ NumStrings <= MaxTransitions
  /\ AttackDecisions \in Nat \ {0} /\ ReleaseDecisions \in Nat \ {0}
  /\ UnisonEvidence \in Nat \ {0} /\ UnisonDropout \in Nat \ {0}
  /\ ShortestBeatHold \in Nat \ {0} /\ LongestBeatHold \in Nat
  /\ ShortestBeatHold <= LongestBeatHold

Unassigned == NumStrings  \* kUnassignedTunerString
NoNote == -2              \* kTunerNoSignalNote

VARIABLES
  candidate_states,      \* candidate_states_
  selector_group_masks,  \* selector_group_masks_: the groups the selection keeps whole
  selected,              \* make_decision: selected
  quiet,                 \* make_decision: quiet
  fine,                  \* fine_frequency_evidence_states_: the group resolved, or none
  committed,             \* infer_m3_unison_strings: the lanes each owned when it began
  remaining_extra,       \* infer_m3_unison_strings: remaining_extra
  allocated_extra,       \* infer_m3_unison_strings: allocated_extra_strings
  renoted,               \* the candidates whose note this decision replaced
  active_count,          \* make_decision: active_count
  transitions,           \* decision.transitions.size()
  stage,                 \* make_decision: the phase it is in
  candidate,             \* make_decision: loop index
  sounding,              \* history: the lanes and notes that the events leave a candidate on
  dropped,               \* history: a transition found no room, and sounding is not followed
  silence                \* history: the quiet decisions in a row that voices have outlasted

locals == <<committed, remaining_extra, allocated_extra, renoted, active_count, transitions>>
history == <<sounding, dropped, silence>>
vars == <<candidate_states, selector_group_masks, selected, quiet, fine, locals, stage,
          candidate, history>>

-----------------------------------------------------------------------------
(* Lanes *)

\* CandidateState{}.
FreshCandidate ==
  [active |-> FALSE, assigned_string |-> Unassigned, assigned_string_mask |-> {},
   midi_voice_mask |-> {}, spectral_lane_mask |-> {}, continuity_lane_mask |-> {},
   continuity_cached_group_mask |-> {}, attack_ticks |-> 0, release_ticks |-> 0,
   pending_unison_mask |-> {}, unison_evidence_ticks |-> 0, unison_gap_ticks |-> 0,
   emitted_note |-> NoNote, calibrated_output_target |-> NoNote,
   calibrated_output_ticks |-> 0, continuity_cached_note |-> NoNote]

\* A value of its own set for every member of S.
Choices(S, Of(_)) == {f \in [S -> UNION {Of(x) : x \in S}] : \A x \in S : f[x] \in Of(x)}

Least(a, b) == IF a < b THEN a ELSE b
Greatest(a, b) == IF a > b THEN a ELSE b

PrimaryBit(v) == {v.assigned_string} \ {Unassigned}

\* The lanes a candidate is committed to: its group, or its string alone.
Assigned(v) == IF v.assigned_string_mask # {} THEN v.assigned_string_mask ELSE PrimaryBit(v)

\* The lanes an active voice owns.
Owned(v) ==
  LET held == v.assigned_string_mask \cup v.midi_voice_mask
  IN IF held # {} THEN held ELSE PrimaryBit(v)

ActiveBut(c) == {d \in Candidates \ {c} : candidate_states[d].active}
OwnedBy(S) == UNION {Owned(candidate_states[d]) : d \in S}

Coasting == {c \in Candidates \ selected : candidate_states[c].active}

\* projected_output_string_mask: a single lane yields to a spectral one, and what a
\* continuity group contains to that group.
ProjectedOutput(v, continuity) ==
  LET spectral == IF Cardinality(Assigned(v)) = 1 /\ v.spectral_lane_mask # {}
                  THEN v.spectral_lane_mask ELSE Assigned(v)
  IN IF spectral # {} /\ continuity # {} /\ spectral \subseteq continuity
     THEN continuity ELSE spectral

\* candidate_output_note.
OutputNote(c) ==
  IF candidate_states[c].emitted_note # NoNote THEN candidate_states[c].emitted_note ELSE c

\* bounded_spectral_tier_completion: a fit of two or three members, and one more string
\* that the spectral heads agree on, if the candidate's own lanes do not contradict it.
TierCompletions(c, fit, mask) ==
  {t \in SUBSET Playable[c] :
     /\ Cardinality(fit) \in 2 .. 3 /\ fit \subseteq t
     /\ Cardinality(t) = Cardinality(fit) + 1
     /\ mask # {} /\ (mask \subseteq fit \/ mask = t)}

-----------------------------------------------------------------------------
(* Selection: select_m3_feasible_candidates *)

\* A committed group that the fine fit still resolves exactly.
Retainable(c) ==
  /\ candidate_states[c].active /\ candidate_states[c].assigned_string_mask = fine[c]
  /\ Cardinality(fine[c]) \in 2 .. MaxPolyphony

\* What the selection may keep of a candidate as one whole: nothing, its committed group,
\* or a fit that a tier completes by one string.
GroupsOf(c) ==
  {{}} \cup (IF Retainable(c) THEN {fine[c]} ELSE {})
       \cup {t \in TierCompletions(c, fine[c], candidate_states[c].assigned_string_mask) :
               candidate_states[c].active /\ Cardinality(t) <= MaxPolyphony}

\* The lanes the dynamic programme may charge a candidate for: its whole group, or one
\* string of it.
Options(c, group) ==
  IF group # {} THEN {group}
  ELSE {{s} : s \in Playable[c]} \cup (IF Retainable(c) THEN {fine[c]} ELSE {})

\* A selection has lanes of its own for every candidate, within the polyphony.  The lanes
\* of voices that are not selected are not looked at.
Feasible(selection, groups) ==
  \E lanes \in Choices(selection, LAMBDA c : Options(c, groups[c])) :
    /\ \A c, d \in selection : c # d => lanes[c] \cap lanes[d] = {}
    /\ Cardinality(UNION {lanes[c] : c \in selection}) <= MaxPolyphony

\* is_resolved_unison_resume_candidate: a group that sounds, or a large one of late.
Resumable(c) ==
  IF candidate_states[c].active
  THEN /\ fine[c] # {}
       /\ candidate_states[c].assigned_string_mask \cup candidate_states[c].midi_voice_mask = fine[c]
  ELSE Cardinality(fine[c]) \in 3 .. 4

\* update_fine_frequency_evidence: a candidate that is selected, or coasts on the group
\* its fit resolved, is analysed further; another keeps its fit until it is too old.
FineUpdates(c, chosen, below) ==
  LET v == candidate_states[c]
      carried == ~below /\ v.active /\ fine[c] # {} /\ v.assigned_string_mask = fine[c]
  IN IF c \in chosen \/ carried THEN Fits[c] \cup {{}, fine[c]} ELSE {{}, fine[c]}

UpdateFine(chosen, below) ==
  fine' \in Choices(Candidates, LAMBDA c : FineUpdates(c, chosen, below))

\* Too little signal: nothing is selected, so that no string is assigned, no unison is
\* inferred, and no other note is asked for.
SelectQuiet ==
  /\ stage = "select"
  /\ quiet' = TRUE
  /\ candidate_states' =
       [c \in Candidates |-> [candidate_states[c] EXCEPT !.calibrated_output_target = NoNote,
                                                        !.calibrated_output_ticks = 0]]
  /\ UpdateFine({}, TRUE)
  /\ stage' = "voices"
  /\ UNCHANGED <<selector_group_masks, selected, locals, candidate, history>>

\* The strongest retained group is always selected; while a signal resumes, only the
\* candidates whose group resumes stay selected (filter_resume_selection).
Select ==
  /\ stage = "select"
  /\ \E groups \in Choices(Candidates, GroupsOf), selection \in SUBSET Candidates :
       /\ Feasible(selection, groups)
       /\ LET retained == {c \in Candidates : groups[c] # {} /\ groups[c] = fine[c]}
          IN retained # {} => retained \cap selection # {}
       /\ \/ selected' = selection
          \/ \E resuming \in SUBSET {c \in Candidates : Resumable(c)} \ {{}} :
               selected' = selection \cap resuming
       /\ selector_group_masks' = groups
  /\ UpdateFine(selected', FALSE)
  /\ stage' = "assign"
  /\ silence' = 0
  /\ UNCHANGED <<candidate_states, quiet, locals, candidate, sounding, dropped>>

-----------------------------------------------------------------------------
(* Assignment: assign_m3_strings *)

\* Lanes no selected candidate may take: those a coasting voice is assigned, and those of
\* a sounding group beside its primary string.
Reserved ==
  LET of(c) == LET v == candidate_states[c] IN
        IF ~v.active \/ v.assigned_string = Unassigned THEN {}
        ELSE IF c \notin selected THEN Assigned(v)
        ELSE (IF selector_group_masks[c] # {} THEN selector_group_masks[c]
              ELSE v.assigned_string_mask) \ PrimaryBit(v)
  IN UNION {of(c) : c \in Candidates}

\* The costs choose among the assignments of a string of its own to every candidate.
Assignments ==
  LET free == Strings \ Reserved
  IN {a \in Choices(selected, LAMBDA c : Playable[c] \cap free) :
        \A c, d \in selected : c # d => a[c] # a[d]}

\* spectral_lane_assignment: the string a settled spectrum points to, unless another
\* active voice owns it.  It is asked before the assignment is made.
SpectralLanes(c) ==
  LET v == candidate_states[c]
  IN IF v.active /\ Cardinality(Assigned(v)) = 1 /\ fine[c] = {}
     THEN {{s} : s \in Playable[c] \ OwnedBy(ActiveBut(c))} ELSE {}

\* Without an assignment everything stays as it was.  A spectral lane that agrees with the
\* assignment is the same as none.
Assign ==
  /\ stage = "assign"
  /\ \/ /\ Assignments = {}
        /\ UNCHANGED candidate_states
     \/ \E a \in Assignments,
             lanes \in Choices(selected, LAMBDA c : {{}} \cup SpectralLanes(c)) :
          /\ \A c \in selected : lanes[c] # {a[c]}
          /\ candidate_states' =
               [c \in Candidates |->
                  IF c \in selected
                  THEN [candidate_states[c] EXCEPT !.assigned_string = a[c],
                                                   !.spectral_lane_mask = lanes[c]]
                  ELSE candidate_states[c]]
  /\ stage' = "unison"
  /\ UNCHANGED <<selector_group_masks, selected, quiet, fine, locals, candidate, history>>

-----------------------------------------------------------------------------
(* Unisons: infer_m3_unison_strings *)

\* Variant: a voice that coasts is forgotten.
OccupiedBySelected ==
  Greatest(Cardinality(UNION {Assigned(candidate_states[c]) : c \in selected}),
           Cardinality(selected))

\* The lanes that count against the polyphony when inference begins.
Occupied ==
  Greatest(Cardinality((UNION {Assigned(candidate_states[c]) : c \in selected})
                         \cup OwnedBy(Coasting)),
           Cardinality(selected))

BeginUnison ==
  /\ stage = "unison"
  /\ committed' = [c \in Candidates |->
                     IF c \in selected THEN Assigned(candidate_states[c]) ELSE {}]
  /\ remaining_extra' = Greatest(MaxPolyphony - Occupied, 0)
  /\ allocated_extra' = {}
  /\ stage' = "infer" /\ candidate' = 0
  /\ UNCHANGED <<candidate_states, selector_group_masks, selected, quiet, fine, renoted,
                 active_count, transitions, history>>

\* A primary string outside the group starts a group of its own.
OwnGroup(v) ==
  IF PrimaryBit(v) \subseteq v.assigned_string_mask THEN v
  ELSE [v EXCEPT !.assigned_string_mask = PrimaryBit(v), !.unison_evidence_ticks = 0,
                 !.unison_gap_ticks = 0, !.pending_unison_mask = {}]

\* Variant: of a coasting voice only the lanes it is assigned count.
OtherAssigned(c, own) ==
  (UNION {Assigned(candidate_states[d]) : d \in Coasting}) \cup
  {s \in Strings : Cardinality({d \in selected : s \in committed[d]})
                     > IF s \in own THEN 1 ELSE 0}

\* Lanes of coasting voices, and lanes other selected candidates were committed to.
OtherOwned(c, own) ==
  OwnedBy(Coasting) \cup
  {s \in Strings : Cardinality({d \in selected : s \in committed[d]})
                     > IF s \in own THEN 1 ELSE 0}

\* The groups that a tier completes anew.
TierGroups(c, v) ==
  TierCompletions(c, fine[c], v.assigned_string_mask) \ {v.assigned_string_mask}

\* Groups that measurements in time (a fine fit, a completed tier) propose.
TemporalGroups(c, v, other, capacity) ==
  {g \in TierGroups(c, v) \cup {fine[c]} :
     /\ PrimaryBit(v) \subseteq g /\ Cardinality(g) \in 2 .. 4
     /\ g \cap (other \cup allocated_extra) = {}
     /\ Cardinality(g) - 1 <= capacity}

\* Groups of at most three that the harmonic profile proposes.
ProfileGroups(c, v, other, capacity) ==
  {g \in SUBSET Playable[c] :
     /\ PrimaryBit(v) \subseteq g /\ Cardinality(g) \in 1 .. 3
     /\ (g \ PrimaryBit(v)) \cap (other \cup allocated_extra) = {}
     /\ Cardinality(g) - 1 <= capacity}

\* A fine fit that may be used is used, unless a tier completes it.
Proposals(c, v, other, capacity) ==
  LET temporal == TemporalGroups(c, v, other, capacity)
  IN IF fine[c] \in temporal THEN temporal
     ELSE temporal \cup {PrimaryBit(v)} \cup ProfileGroups(c, v, other, capacity)

\* unison_dropout_decisions: a beat that was measured makes the limit longer.  It is asked
\* anew for every candidate and decision, so it rises and falls while evidence is missing
\* and while a voice fades.
Dropouts ==
  {UnisonDropout} \cup {Greatest(UnisonDropout, h) : h \in ShortestBeatHold .. LongestBeatHold}

\* Evidence for the proposal is counted before the group is taken, its absence before the
\* group is given up; a group the selection reserved needs no more evidence.
Evidenced(c, v, proposal, dropout) ==
  IF proposal # PrimaryBit(v)
  THEN LET ticks == IF selector_group_masks'[c] = proposal THEN UnisonEvidence
                    ELSE IF v.pending_unison_mask = proposal
                    THEN Least(v.unison_evidence_ticks + 1, UnisonEvidence) ELSE 1
       IN [v EXCEPT !.pending_unison_mask = proposal, !.unison_evidence_ticks = ticks,
                    !.unison_gap_ticks = 0,
                    !.assigned_string_mask = IF ticks >= UnisonEvidence THEN proposal ELSE @]
  ELSE LET gap == v.unison_gap_ticks + IF v.assigned_string_mask # PrimaryBit(v) THEN 1 ELSE 0
           over == gap >= dropout
       IN [v EXCEPT !.pending_unison_mask = {}, !.unison_evidence_ticks = 0,
                    !.unison_gap_ticks = IF over THEN 0 ELSE gap,
                    !.assigned_string_mask = IF over THEN proposal ELSE @]

\* The lanes beside the primary string are granted together or not at all.
Granted(v, other, additional) ==
  LET extra == v.assigned_string_mask \ PrimaryBit(v)
  IN /\ extra \cap other = {} /\ additional \cap allocated_extra = {}
     /\ Cardinality(additional) <= remaining_extra

\* The next pass of the loop over the candidates, or the phase after the last.
Advance(next) ==
  IF candidate + 1 < NumCandidates THEN candidate' = candidate + 1 /\ stage' = stage
  ELSE candidate' = 0 /\ stage' = next

\* What a candidate was granted counts for those after it; the last one ends the function
\* and its variables.
Account(additional) ==
  IF candidate + 1 < NumCandidates
  THEN /\ allocated_extra' = allocated_extra \cup additional
       /\ remaining_extra' = remaining_extra - Cardinality(additional)
       /\ UNCHANGED committed
  ELSE /\ allocated_extra' = {} /\ remaining_extra' = 0
       /\ committed' = [c \in Candidates |-> {}]

Become(c, v) == candidate_states' = [candidate_states EXCEPT ![c] = v]

Infer ==
  LET c == candidate
      v == OwnGroup(candidate_states[c])
      primary == PrimaryBit(v)
      own == v.assigned_string_mask
      other == OtherOwned(c, own)
      capacity == Least(3, remaining_extra + Cardinality(own \ primary))
  IN /\ stage = "infer"
     /\ c \in selected /\ primary # {}
     /\ \E proposal \in Proposals(c, v, other, capacity), dropout \in Dropouts :
          /\ selector_group_masks' =
               IF proposal \in TierGroups(c, v) THEN [selector_group_masks EXCEPT ![c] = proposal]
               ELSE selector_group_masks
          /\ LET w == Evidenced(c, v, proposal, dropout)
                 additional == w.assigned_string_mask \ (own \cup primary)
             IN IF Granted(w, other, additional)
                THEN Become(c, w) /\ Account(additional)
                ELSE Become(c, [w EXCEPT !.assigned_string_mask = primary]) /\ Account({})
     /\ Advance("notes")
     /\ UNCHANGED <<selected, quiet, fine, renoted, active_count, transitions, history>>

\* A candidate without a string of its own infers nothing.
SkipInfer ==
  /\ stage = "infer"
  /\ candidate \notin selected \/ PrimaryBit(candidate_states[candidate]) = {}
  /\ Account({})
  /\ Advance("notes")
  /\ UNCHANGED <<candidate_states, selector_group_masks, selected, quiet, fine, renoted,
                 active_count, transitions, history>>

-----------------------------------------------------------------------------
(* Transitions *)

Room == MaxTransitions - transitions
Silent == [c \in Candidates |-> {}]

\* append_transition, for n events: those the decision has no room for are dropped without
\* a word.  If none is, the lanes and notes that sound are afterwards these.
Append(n, sounds) ==
  /\ transitions' = Least(transitions + n, MaxTransitions)
  /\ dropped' = (dropped \/ n > Room)
  /\ sounding' = IF dropped' THEN Silent ELSE sounds

\* Note-offs, then note-ons.
Emit(c, note, offs, ons) ==
  Append(Cardinality(offs) + Cardinality(ons),
         [sounding EXCEPT ![c] = (@ \ (offs \X {note})) \cup (ons \X {note})])

Unheard == UNCHANGED <<transitions, sounding, dropped>>

-----------------------------------------------------------------------------
(* Calibrated notes: update_calibrated_output_notes *)

\* A voice on a single lane beside another one, which is old enough and whose pitch is
\* measured (both free), may sound on another note than the one detected.
Projectable(c) ==
  /\ c \in selected /\ candidate_states[c].active /\ Cardinality(selected) >= 2
  /\ Cardinality(Assigned(candidate_states[c])) = 1

\* Another pitch of this decision has the note, or another voice sounds on it.
Collides(c, note) ==
  \/ note \in selected \ {c}
  \/ \E d \in ActiveBut(c) : OutputNote(d) = note

\* The decisions that have asked for a note in a row, this one included.
Agreeing(v, note) ==
  IF v.calibrated_output_target = note
  THEN Least(v.calibrated_output_ticks + 1, OutputConsensus) ELSE 1

\* A note that is asked for sounds once enough decisions, and never one alone, agree on
\* it.  The detected note, once it does, is no longer a target.
Toward(c, note) ==
  LET v == candidate_states[c]
      adopted == v.calibrated_output_target = note /\ Agreeing(v, note) = OutputConsensus
  IN [note |-> IF adopted THEN note ELSE OutputNote(c),
      target |-> IF adopted /\ note = c THEN NoNote ELSE note,
      ticks |-> IF adopted /\ note = c THEN 0 ELSE Agreeing(v, note)]

AtOnce(note) == [note |-> note, target |-> NoNote, ticks |-> 0]

\* Nothing is measured; no projection is trusted; one is, and collides or not.
NoteOutcomes(c) ==
  {AtOnce(OutputNote(c))}
  \cup {Toward(c, c) : n \in IF Projectable(c) THEN {OutputNote(c)} \ {c} ELSE {}}
  \cup {IF Collides(c, n) THEN AtOnce(c) ELSE Toward(c, n) :
          n \in IF Projectable(c) THEN Projected[c] ELSE {}}

\* change_candidate_output_note: a note-off and a note-on for each lane that sounds.
Renote(c, note) ==
  LET lanes == candidate_states[c].midi_voice_mask
      old == OutputNote(c)
  IN IF note = old THEN Unheard /\ UNCHANGED renoted
     ELSE /\ Append(2 * Cardinality(lanes),
                    [sounding EXCEPT ![c] = (@ \ (lanes \X {old})) \cup (lanes \X {note})])
          /\ renoted' = renoted \cup {c}

UpdateNote ==
  LET c == candidate
  IN /\ stage = "notes"
     /\ \E o \in NoteOutcomes(c) :
          /\ Renote(c, o.note)
          /\ Become(c, [candidate_states[c] EXCEPT
                          !.emitted_note = IF o.note = OutputNote(c) THEN @ ELSE o.note,
                          !.calibrated_output_target = o.target,
                          !.calibrated_output_ticks = o.ticks])
     /\ Advance("voices")
     /\ UNCHANGED <<selector_group_masks, selected, quiet, fine, committed, remaining_extra,
                    allocated_extra, active_count, silence>>

-----------------------------------------------------------------------------
(* Notes: the loops of make_decision that release, move and start the voices *)

voice_frame == <<selector_group_masks, selected, quiet, fine, committed, remaining_extra,
                 allocated_extra, renoted, silence>>

\* An active, selected voice moves to the lanes it is projected on.
MoveVoice ==
  LET c == candidate
      v == candidate_states[c]
      desired == ProjectedOutput(v, v.continuity_lane_mask)
  IN /\ stage = "voices"
     /\ c \in selected /\ v.active
     /\ Emit(c, OutputNote(c), v.midi_voice_mask \ desired, desired \ v.midi_voice_mask)
     /\ Become(c, [v EXCEPT !.release_ticks = 0, !.midi_voice_mask = desired])
     /\ active_count' = active_count + 1
     /\ Advance("attack")
     /\ UNCHANGED voice_frame

\* should_handoff_coasting_candidate_to_resolved_group.
YieldsToGroup(c) ==
  LET owned == Owned(candidate_states[c])
  IN /\ Cardinality(owned) = 1
     /\ \E d \in selected :
          /\ candidate_states[d].active
          /\ Cardinality(selector_group_masks[d]) \in 2 .. 4
          /\ selector_group_masks[d] \cap owned # {}

\* should_handoff_adjacent_coasting_candidate, if what is measured favours it.
MayYieldToNeighbour(c) ==
  LET owned == Owned(candidate_states[c])
  IN /\ ~quiet /\ Cardinality(owned) <= 2
     /\ \E d \in selected \cap {c - 1, c + 1} :
          \/ candidate_states[d].active
          \/ Cardinality(selected) >= 2 /\ Playable[d] \cap owned # {}

\* candidate_release_decisions: a group is held for longer, while there is a signal.
Hold(v, dropout) ==
  IF ~quiet /\ Cardinality(v.assigned_string_mask) >= 2
  THEN Greatest(ReleaseDecisions, dropout) ELSE ReleaseDecisions

\* Variant: the decision that is being made does not count.
MustEndLate(c, v, dropout) == YieldsToGroup(c) \/ v.release_ticks >= Hold(v, dropout)

\* A voice that is not selected coasts until another takes it over or it has been held
\* long enough, and as long as its note-offs do not fit.
MustEnd(c, v, dropout) == YieldsToGroup(c) \/ v.release_ticks + 1 >= Hold(v, dropout)
EndsCoasting(c, v, dropout) == MustEnd(c, v, dropout) \/ MayYieldToNeighbour(c)

\* Variant: the lanes assigned are released, not those that sound.
ReleaseAssigned ==
  LET c == candidate
      v == candidate_states[c]
  IN /\ stage = "voices"
     /\ c \in Coasting
     /\ \E dropout \in Dropouts : EndsCoasting(c, v, dropout)
     /\ Cardinality(Assigned(v)) <= Room
     /\ Emit(c, OutputNote(c), Assigned(v), {})
     /\ Become(c, FreshCandidate)
     /\ Advance("attack")
     /\ UNCHANGED <<active_count, voice_frame>>

ReleaseVoice ==
  LET c == candidate
      v == candidate_states[c]
  IN /\ stage = "voices"
     /\ c \in Coasting
     /\ \E dropout \in Dropouts : EndsCoasting(c, v, dropout)
     /\ Cardinality(v.midi_voice_mask) <= Room
     /\ Emit(c, OutputNote(c), v.midi_voice_mask, {})
     /\ Become(c, FreshCandidate)
     /\ Advance("attack")
     /\ UNCHANGED <<active_count, voice_frame>>

\* No limit is longer than this one: the ticks are not counted beyond it.
LongestHold == Greatest(ReleaseDecisions, Greatest(UnisonDropout, LongestBeatHold))

CoastVoice ==
  LET c == candidate
      v == candidate_states[c]
  IN /\ stage = "voices"
     /\ c \in Coasting
     /\ \/ \E dropout \in Dropouts : ~MustEnd(c, v, dropout)
        \/ Cardinality(v.midi_voice_mask) > Room
     /\ Become(c, [v EXCEPT !.release_ticks = Least(@ + 1, LongestHold)])
     /\ active_count' = active_count + 1
     /\ Advance("attack")
     /\ Unheard /\ UNCHANGED voice_frame

NoVoice ==
  /\ stage = "voices"
  /\ ~candidate_states[candidate].active
  /\ Advance("attack")
  /\ Unheard /\ UNCHANGED <<candidate_states, active_count, voice_frame>>

\* A candidate that cannot start, or need not.
AttackIdle ==
  LET c == candidate
      v == candidate_states[c]
  IN /\ stage = "attack"
     /\ c \notin selected \/ v.active \/ active_count >= MaxPolyphony
     /\ Become(c, IF c \notin selected
                  THEN IF v.active THEN v ELSE [v EXCEPT !.attack_ticks = 0]
                  ELSE IF v.active THEN [v EXCEPT !.release_ticks = 0] ELSE FreshCandidate)
     /\ Advance("restore")
     /\ Unheard /\ UNCHANGED <<active_count, voice_frame>>

\* A selected candidate that does not sound, while there is room for another voice.
Attacking == stage = "attack" /\ candidate \in selected /\ active_count < MaxPolyphony
               /\ ~candidate_states[candidate].active

\* It waits for evidence, or for the decisions an attack takes.
AttackWaits ==
  LET v == candidate_states[candidate]
  IN /\ Attacking
     /\ \E ticks \in {0} \cup ({v.attack_ticks + 1} \cap 0 .. AttackDecisions - 1) :
          Become(candidate, [v EXCEPT !.release_ticks = 0, !.attack_ticks = ticks])
     /\ Advance("restore")
     /\ Unheard /\ UNCHANGED <<active_count, voice_frame>>

\* A note starts on every lane assigned; without a lane the attack stays due.
AttackStarts ==
  LET c == candidate
      v == candidate_states[c]
      desired == Assigned(v)
  IN /\ Attacking
     /\ v.attack_ticks + 1 >= AttackDecisions
     /\ \/ /\ desired = {}
           /\ Become(c, [v EXCEPT !.release_ticks = 0, !.attack_ticks = AttackDecisions])
           /\ Unheard /\ UNCHANGED active_count
        \/ /\ desired # {}
           /\ Emit(c, c, {}, desired)
           /\ Become(c, [v EXCEPT !.release_ticks = 0, !.attack_ticks = 0, !.active = TRUE,
                                  !.midi_voice_mask = desired, !.emitted_note = c])
           /\ active_count' = active_count + 1
     /\ Advance("restore")
     /\ UNCHANGED voice_frame

-----------------------------------------------------------------------------
(* Continuity: update_group_continuity_trackers *)

\* output_mask_for_note: the lanes of the active voices that sound on a note.
OutputMask(note) ==
  UNION {ProjectedOutput(candidate_states[c], {}) :
           c \in {d \in Candidates : candidate_states[d].active /\ OutputNote(d) = note}}

\* A group of three or four that sounds is remembered with its note, unless a larger one
\* of that note is; a tracker that is given to a pitch anew forgets the group first.
Caches(c, forgets) ==
  LET v == candidate_states[c]
      note == OutputNote(c)
      old == IF forgets \/ v.continuity_cached_note # note THEN {}
             ELSE v.continuity_cached_group_mask
      current == OutputMask(note)
  IN IF /\ ~quiet /\ v.active /\ Cardinality(current) \in 3 .. 4
        /\ Cardinality(current) >= Cardinality(old)
     THEN current ELSE old

\* bounded_group_continuity_projection: the lanes it may restore, which no voice of
\* another note owns.  Less than a pair restores nothing.
ContinuityLanes(c, cached) ==
  LET note == OutputNote(c)
      current == OutputMask(note)
      other == OwnedBy({d \in Candidates : candidate_states[d].active /\ OutputNote(d) # note})
      bounded(mask) == /\ mask \subseteq Playable[note] /\ mask \cap other = {}
                       /\ Cardinality(mask \cup other) <= MaxPolyphony
      tiers == {t \in TierCompletions(c, fine[c] \cap Playable[note], current) :
                  bounded(t) /\ current \subseteq t /\ Cardinality(current) >= 2}
  IN IF quiet \/ current = {} THEN {{}}
     ELSE {{}} \cup ({current} \ {{s} : s \in Strings}) \cup
          IF Cardinality(cached) \in 3 .. 4 /\ current \subseteq cached /\ bounded(cached)
          THEN {cached} \cup tiers ELSE {}

\* The end of a decision.  What belongs to it is cleared here: the next one writes it
\* before it reads it.
Restore ==
  /\ stage = "restore"
  /\ \E forgets \in SUBSET Candidates :
       LET cached == [c \in Candidates |-> Caches(c, c \in forgets)]
       IN \E lanes \in Choices(Candidates, LAMBDA c : ContinuityLanes(c, cached[c])) :
            candidate_states' =
               [c \in Candidates |->
                  [candidate_states[c] EXCEPT
                     !.continuity_lane_mask = lanes[c],
                     !.continuity_cached_group_mask = cached[c],
                     !.continuity_cached_note = IF cached[c] = {} THEN NoNote ELSE OutputNote(c)]]
  /\ selected' = {} /\ quiet' = FALSE
  /\ selector_group_masks' = [c \in Candidates |-> {}]
  /\ renoted' = {} /\ active_count' = 0 /\ transitions' = 0
  /\ UNCHANGED <<committed, remaining_extra, allocated_extra>>
  /\ stage' = "select" /\ candidate' = 0
  /\ silence' = IF quiet /\ \E c \in Candidates : candidate_states[c].active
                THEN silence + 1 ELSE 0
  /\ UNCHANGED <<fine, sounding, dropped>>

\* reset(), which the adapters call when they have the ledger release every note.
Reset ==
  /\ stage = "select"
  /\ candidate_states' = [c \in Candidates |-> FreshCandidate]
  /\ fine' = [c \in Candidates |-> {}]
  /\ sounding' = Silent /\ dropped' = FALSE /\ silence' = 0
  /\ UNCHANGED <<selector_group_masks, selected, quiet, locals, stage, candidate>>

-----------------------------------------------------------------------------

Init ==
  /\ candidate_states = [c \in Candidates |-> FreshCandidate]
  /\ selector_group_masks = [c \in Candidates |-> {}]
  /\ selected = {} /\ quiet = FALSE
  /\ fine = [c \in Candidates |-> {}]
  /\ committed = [c \in Candidates |-> {}] /\ remaining_extra = 0 /\ allocated_extra = {}
  /\ renoted = {} /\ active_count = 0 /\ transitions = 0
  /\ stage = "select" /\ candidate = 0
  /\ sounding = Silent /\ dropped = FALSE /\ silence = 0

Next ==
  \/ SelectQuiet \/ Select \/ Assign
  \/ BeginUnison \/ Infer \/ SkipInfer \/ UpdateNote
  \/ MoveVoice \/ ReleaseVoice \/ CoastVoice \/ NoVoice
  \/ AttackIdle \/ AttackWaits \/ AttackStarts
  \/ Restore \/ Reset

Spec == Init /\ [][Next]_vars

-----------------------------------------------------------------------------
(* Properties *)

CandidateState ==
  [active : BOOLEAN, assigned_string : Strings \cup {Unassigned},
   assigned_string_mask : SUBSET Strings, midi_voice_mask : SUBSET Strings,
   spectral_lane_mask : SUBSET Strings, continuity_lane_mask : SUBSET Strings,
   continuity_cached_group_mask : SUBSET Strings, attack_ticks : Nat, release_ticks : Nat,
   pending_unison_mask : SUBSET Strings, unison_evidence_ticks : Nat, unison_gap_ticks : Nat,
   emitted_note : Notes \cup {NoNote}, calibrated_output_target : Notes \cup {NoNote},
   calibrated_output_ticks : Nat, continuity_cached_note : Notes \cup {NoNote}]

\* Every mask is of strings of the instrument, and the counters keep their bounds.
TypeOK ==
  /\ candidate_states \in [Candidates -> CandidateState]
  /\ selector_group_masks \in [Candidates -> SUBSET Strings]
  /\ selected \in SUBSET Candidates /\ quiet \in BOOLEAN
  /\ fine \in [Candidates -> SUBSET Strings]
  /\ committed \in [Candidates -> SUBSET Strings]
  /\ remaining_extra \in 0 .. MaxPolyphony /\ allocated_extra \in SUBSET Strings
  /\ renoted \in SUBSET Candidates /\ active_count \in Nat
  /\ transitions \in 0 .. MaxTransitions
  /\ stage \in {"select", "assign", "unison", "infer", "notes", "voices", "attack", "restore"}
  /\ candidate \in Candidates
  /\ sounding \in [Candidates -> SUBSET (Strings \X Notes)]
  /\ dropped \in BOOLEAN /\ silence \in Nat

\* What the emitted events leave a pitch sounding on is what its state says at the end of
\* every decision, unless a transition has been dropped for want of room in
\* decision.transitions (append_transition); and a pitch is active if it sounds.
SoundsItsLanes ==
  stage = "select" =>
    \A c \in Candidates :
      LET v == candidate_states[c]
      IN /\ ~dropped => sounding[c] = v.midi_voice_mask \X {OutputNote(c)}
         /\ v.active <=> v.midi_voice_mask # {}

\* "Release by normal dropout policy" in silence: once quiet decisions in a row are as many
\* as a release takes, each of them has ended a voice, so that none is left before they are
\* more than a release and the voices there were.  No drop-out limit of a group, however
\* slow its beat, no limit that changes on the way, and no note-offs that found no room
\* (append_candidate_note_off returns false) hold a voice longer.
SilenceEndsVoices ==
  silence >= ReleaseDecisions =>
    Cardinality({c \in Candidates : candidate_states[c].active}) + silence - ReleaseDecisions
      < Least(NumCandidates, MaxPolyphony)

\* infer_m3_unison_strings gives no voice a lane that a coasting voice still owns, be it
\* by its group or by the notes it sounds on.
InferredLanesAreFree ==
  stage = "voices" /\ candidate = 0 =>
    \A c \in selected :
      LET v == candidate_states[c]
      IN (v.assigned_string_mask \ PrimaryBit(v)) \cap OwnedBy(Coasting) = {}

\* Lanes that inference adds to a group fit in the polyphony together with every lane that
\* a selected or a coasting voice was committed to when it began and with those it added
\* before: remaining_extra never grants a lane that is not there.
UnisonKeepsBudget ==
  [][Infer => LET added == candidate_states'[candidate].assigned_string_mask
                             \ (Assigned(candidate_states[candidate]) \cup PrimaryBit(candidate_states[candidate]))
                  held == (UNION {committed[c] : c \in selected}) \cup OwnedBy(Coasting)
              IN added # {} => Cardinality(held \cup allocated_extra \cup added) <= MaxPolyphony]_vars

LaneOf(heard) == {h[1] : h \in heard}

\* The voices that a decision has let coast on.
CoastingOn ==
  {c \in Coasting : stage = "attack" \/ (stage = "voices" /\ c < candidate)}

\* "A coasting voice ... still owns its string lanes, tuner slots, and per-voice MIDI
\* identities until note-off" (infer_m3_unison_strings): once a decision lets a voice coast
\* on, no other pitch starts a note on a lane it sounds on.  The note-on would find the
\* lane's voice live, for which the ledger blocks the output.
CoastingKeepsItsLanes ==
  [][\A c \in CoastingOn, d \in Candidates :
       LaneOf(sounding'[d] \ sounding[d]) \cap LaneOf(sounding[c]) = {}]_vars

\* A decision ends no note that it has itself begun in place of another
\* (change_candidate_output_note).  Both are at one offset, where the ledger puts note-offs
\* first: the note-off would come before its note-on, find no voice and block the output.
\* "Pitch replacement always ends the old generated note before beginning the new one."
ReplacedNotesStay ==
  [][\A c \in renoted : stage = "voices" => sounding[c] \subseteq sounding'[c]]_vars
=============================================================================
