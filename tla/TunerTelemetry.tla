---------------------------- MODULE TunerTelemetry ----------------------------
(***************************************************************************)
(* TunerTelemetry (native/src/tuner_telemetry.cpp): the audio thread       *)
(* publishes tuner frames and, once a block, the input peak; the editor's  *)
(* timer reads the latest of both.  Two kinds of publication share one     *)
(* sequence and one generation.  One step is one access to a shared word;  *)
(* every access in the source is sequentially consistent.                  *)
(*                                                                         *)
(* A frame is its header (frame state, polyphony, voice count) and         *)
(* WordsPerVoice words for each voice; how a voice is packed into them is  *)
(* left out.  Sequence and generation are 32-bit counters; no session      *)
(* wraps them between two reads, and MaxPublications bounds them here.     *)
(***************************************************************************)
EXTENDS Integers

CONSTANTS
  NumVoices,        \* kMaxVoices (8)
  WordsPerVoice,    \* voice_words_a_, voice_words_b_, voice_words_c_ (3)
  Content,          \* what a voice word can hold, Zero among them
  Zero,             \* the word of a default voice
  States,           \* frame states
  Peaks,            \* input peaks, 0 among them
  ReadAttempts,     \* kReadAttempts (3)
  MaxPublications   \* bound: publications of either kind

TelemetryAssumption ==
  /\ NumVoices \in Nat \ {0}
  /\ WordsPerVoice \in Nat \ {0}
  /\ Zero \in Content
  /\ 0 \in Peaks
  /\ States # {}
  /\ ReadAttempts \in Nat \ {0}
  /\ MaxPublications \in Nat

Counts  == 0 .. NumVoices
Words   == 1 .. NumVoices * WordsPerVoice
Headers == [state : States, count : Counts]
Used(h) == h.count * WordsPerVoice      \* words that belong to the frame

\* A frame carries default voices beyond its count.
Frames ==
  {f \in [header : Headers, words : [Words -> Content]] :
      \A w \in Words : w > Used(f.header) => f.words[w] = Zero}
Generations == 0 .. MaxPublications
Value == [frame : Frames, peak : Peaks, generation : Generations]
Empty == [frame |-> <<>>, peak |-> 0, generation |-> 0]

VARIABLES
  sequence,     \* sequence_
  generation,   \* generation_
  header,       \* header_
  input_peak,   \* input_peak_q15_
  words,        \* voice_words_a_, voice_words_b_, voice_words_c_
  w_stage,      \* publish, publish_input_peak: where the call is
  w_frame,      \* publish: its argument
  w_peak,       \* publish_input_peak: its argument
  w_index,      \* publish: next word to store
  w_clear,      \* clear: publish is followed by publish_input_peak(0)
  r_stage,      \* read_latest: where the call is
  r_attempt,    \* read_latest: attempt
  r_before,     \* read_latest: before
  r_index,      \* read_latest: next word to load
  candidate,    \* read_latest: candidate
  snapshot,     \* the caller's snapshot
  published     \* history: what the last finished publication made visible

shared == <<sequence, generation, header, input_peak, words>>
writer == <<w_stage, w_frame, w_peak, w_index, w_clear>>
reader == <<r_stage, r_attempt, r_before, r_index, candidate>>
vars   == <<shared, writer, reader, snapshot, published>>

Even(n) == n % 2 = 0
AnyState == CHOOSE s \in States : TRUE
NoVoices(s) == [header |-> [state |-> s, count |-> 0], words |-> [w \in Words |-> Zero]]
Blank == [frame |-> NoVoices(AnyState), peak |-> 0, generation |-> 0]

TypeOK ==
  /\ sequence \in 0 .. 2 * MaxPublications
  /\ generation \in Generations
  /\ header \in Headers
  /\ input_peak \in Peaks
  /\ words \in [Words -> Content]
  /\ w_stage \in {"idle", "header", "words", "generation", "peak", "finish"}
  /\ w_frame \in Frames
  /\ w_peak \in Peaks
  /\ w_index \in 1 .. NumVoices * WordsPerVoice + 1
  /\ w_clear \in BOOLEAN
  /\ r_stage \in {"idle", "before", "header", "generation", "peak", "words", "after"}
  /\ r_attempt \in 0 .. ReadAttempts
  /\ r_before \in 0 .. 2 * MaxPublications
  /\ r_index \in 1 .. NumVoices * WordsPerVoice + 1
  /\ candidate \in Value
  /\ snapshot \in Value \cup {Empty}
  /\ published \in Value \cup {Empty}

Init ==
  /\ sequence = 0 /\ generation = 0
  /\ header = Blank.frame.header
  /\ input_peak = 0
  /\ words = Blank.frame.words
  /\ w_stage = "idle" /\ w_frame = Blank.frame /\ w_peak = 0 /\ w_index = 1
  /\ w_clear = FALSE
  /\ r_stage = "idle" /\ r_attempt = 0 /\ r_before = 0 /\ r_index = 1
  /\ candidate = Blank
  /\ snapshot = Empty
  /\ published = Empty

-----------------------------------------------------------------------------
(* publish, publish_input_peak and clear, on the audio thread *)

MarkWriting == sequence' = IF Even(sequence) THEN sequence + 1 ELSE sequence

PublishFrame(f, clearing) ==
  /\ w_stage = "idle"
  /\ ~ w_clear
  /\ sequence + 2 <= 2 * MaxPublications
  /\ w_frame' = f
  /\ w_clear' = clearing
  /\ MarkWriting
  /\ w_stage' = "header"
  /\ UNCHANGED <<generation, header, input_peak, words, w_peak, w_index, reader, snapshot, published>>

PublishHeader ==
  /\ w_stage = "header"
  /\ header' = w_frame.header
  /\ w_index' = 1
  /\ w_stage' = "words"
  /\ UNCHANGED <<sequence, generation, input_peak, words, w_frame, w_peak, w_clear, reader, snapshot, published>>

PublishWord ==
  /\ w_stage = "words"
  /\ words' = [words EXCEPT ![w_index] = w_frame.words[w_index]]
  /\ w_index' = w_index + 1
  /\ w_stage' = IF w_index = NumVoices * WordsPerVoice THEN "generation" ELSE "words"
  /\ UNCHANGED <<sequence, generation, header, input_peak, w_frame, w_peak, w_clear, reader, snapshot, published>>

\* An unchanged peak is not published at all.
SamePeak(p) ==
  /\ w_stage = "idle"
  /\ input_peak = p
  /\ w_clear => p = 0
  /\ w_clear' = FALSE
  /\ UNCHANGED <<shared, w_stage, w_frame, w_peak, w_index, reader, snapshot, published>>

PublishPeak(p) ==
  /\ w_stage = "idle"
  /\ input_peak # p
  /\ w_clear => p = 0
  /\ sequence + 2 <= 2 * MaxPublications
  /\ w_peak' = p
  /\ w_clear' = FALSE
  /\ MarkWriting
  /\ w_stage' = "peak"
  /\ UNCHANGED <<generation, header, input_peak, words, w_frame, w_index, reader, snapshot, published>>

\* Variant: the peak counts as part of the frame and gets no generation.
StorePeakOnly ==
  /\ w_stage = "peak"
  /\ input_peak' = w_peak
  /\ w_stage' = "finish"
  /\ UNCHANGED <<sequence, generation, header, words, w_frame, w_peak, w_index, w_clear, reader, snapshot, published>>

StorePeak ==
  /\ w_stage = "peak"
  /\ input_peak' = w_peak
  /\ w_stage' = "generation"
  /\ UNCHANGED <<sequence, generation, header, words, w_frame, w_peak, w_index, w_clear, reader, snapshot, published>>

CountGeneration ==
  /\ w_stage = "generation"
  /\ generation' = generation + 1
  /\ w_stage' = "finish"
  /\ UNCHANGED <<sequence, header, input_peak, words, w_frame, w_peak, w_index, w_clear, reader, snapshot, published>>

\* The history records what a reader can now copy.
PublishFinish ==
  /\ w_stage = "finish"
  /\ sequence' = sequence + 1
  /\ published' = [frame |-> w_frame, peak |-> input_peak, generation |-> generation]
  /\ w_stage' = "idle"
  /\ UNCHANGED <<generation, header, input_peak, words, w_frame, w_peak, w_index, w_clear, reader, snapshot>>

Publisher ==
  \/ \E f \in Frames : PublishFrame(f, FALSE)
  \/ \E s \in States : PublishFrame(NoVoices(s), TRUE)
  \/ PublishHeader \/ PublishWord
  \/ \E p \in Peaks : SamePeak(p) \/ PublishPeak(p)
  \/ StorePeak \/ CountGeneration \/ PublishFinish

-----------------------------------------------------------------------------
(* read_latest, on the editor's thread *)

ReadStart ==
  /\ r_stage = "idle"
  /\ r_stage' = "before"
  /\ r_attempt' = 0
  /\ UNCHANGED <<shared, writer, r_before, r_index, candidate, snapshot, published>>

GiveUp ==
  /\ r_stage = "before"
  /\ r_attempt = ReadAttempts
  /\ r_stage' = "idle"
  /\ UNCHANGED <<shared, writer, r_attempt, r_before, r_index, candidate, snapshot, published>>

ReadBusy ==
  /\ r_stage = "before"
  /\ r_attempt < ReadAttempts
  /\ sequence = 0 \/ ~ Even(sequence)
  /\ r_attempt' = r_attempt + 1
  /\ UNCHANGED <<shared, writer, r_stage, r_before, r_index, candidate, snapshot, published>>

ReadBefore ==
  /\ r_stage = "before"
  /\ r_attempt < ReadAttempts
  /\ sequence # 0 /\ Even(sequence)
  /\ r_before' = sequence
  /\ r_stage' = "header"
  /\ UNCHANGED <<shared, writer, r_attempt, r_index, candidate, snapshot, published>>

\* A fresh candidate: voices beyond the count stay default.
ReadHeader ==
  /\ r_stage = "header"
  /\ candidate' = [Blank EXCEPT !.frame.header = header]
  /\ r_index' = 1
  /\ r_stage' = "generation"
  /\ UNCHANGED <<shared, writer, r_attempt, r_before, snapshot, published>>

ReadGeneration ==
  /\ r_stage = "generation"
  /\ candidate' = [candidate EXCEPT !.generation = generation]
  /\ r_stage' = "peak"
  /\ UNCHANGED <<shared, writer, r_attempt, r_before, r_index, snapshot, published>>

ReadPeak ==
  /\ r_stage = "peak"
  /\ candidate' = [candidate EXCEPT !.peak = input_peak]
  /\ r_stage' = IF Used(candidate.frame.header) = 0 THEN "after" ELSE "words"
  /\ UNCHANGED <<shared, writer, r_attempt, r_before, r_index, snapshot, published>>

ReadWord ==
  /\ r_stage = "words"
  /\ candidate' = [candidate EXCEPT !.frame.words[r_index] = words[r_index]]
  /\ r_index' = r_index + 1
  /\ r_stage' = IF r_index = Used(candidate.frame.header) THEN "after" ELSE "words"
  /\ UNCHANGED <<shared, writer, r_attempt, r_before, snapshot, published>>

Unmoved == sequence = r_before /\ Even(sequence)

\* Variant: any even sequence is accepted.
AcceptAnyEven ==
  /\ r_stage = "after"
  /\ Even(sequence)
  /\ snapshot' = candidate
  /\ r_stage' = "idle"
  /\ UNCHANGED <<shared, writer, r_attempt, r_before, r_index, candidate, published>>

Accept ==
  /\ r_stage = "after"
  /\ Unmoved
  /\ snapshot' = candidate
  /\ r_stage' = "idle"
  /\ UNCHANGED <<shared, writer, r_attempt, r_before, r_index, candidate, published>>

Reject ==
  /\ r_stage = "after"
  /\ ~ Unmoved
  /\ r_stage' = "before"
  /\ r_attempt' = r_attempt + 1
  /\ UNCHANGED <<shared, writer, r_before, r_index, candidate, snapshot, published>>

Reader ==
  \/ ReadStart \/ GiveUp \/ ReadBusy \/ ReadBefore \/ ReadHeader
  \/ ReadGeneration \/ ReadPeak \/ ReadWord \/ Accept \/ Reject

Next == Publisher \/ Reader

Spec == Init /\ [][Next]_vars

-----------------------------------------------------------------------------
(* Properties *)

Ideal == INSTANCE AtomicSnapshot

\* A frame the editor accepts is the one the last finished publication left
\* visible: header, voices, peak and generation belong together although
\* frames and peaks are published by different calls
\* (tuner_telemetry.cpp:168-202).
ReadsAreWhole == Ideal!Spec

\* A generation names what is displayed: two accepted snapshots with one
\* generation are the same, so the editor that skips a known generation
\* (m3_editor.cpp:1904) never misses a frame or a peak.
GenerationNamesContent ==
  [][snapshot # Empty /\ snapshot'.generation = snapshot.generation
       => snapshot' = snapshot]_snapshot

=============================================================================
