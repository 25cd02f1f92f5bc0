---------------------------- MODULE SeqlockProofs ----------------------------
(***************************************************************************)
(* Proofs about the three seqlocks, for every number of words, contents,   *)
(* generations, attempts, publications and writers: each implements an     *)
(* atomic register.                                                        *)
(*                                                                         *)
(* The invariants have one shape.  The sequence is odd exactly while a     *)
(* writer is inside; while none is, the words are what was published last; *)
(* and as long as the sequence is what a read began with, the read has     *)
(* copied what the words still are.  A writer that comes in between moves  *)
(* the sequence with its first access, so that from then on nothing of     *)
(* the copy matters.  The tuner adds that sequence and generation count    *)
(* together, the request that one writer at a time is inside.              *)
(*                                                                         *)
(* That no read waits for a writer is a count of the steps left to it,     *)
(* which its own steps lower and those of the writers leave alone.         *)
(***************************************************************************)
EXTENDS Seqlocks, TLAPS

\* A step of the three is a step of each, or leaves it alone.
LEMMA BankSteps == [Next]_vars => [Bank!Next]_(Bank!vars)
  BY DEF Next, vars, BankStep, TunerStep, RequestStep, bank, Bank!vars, Bank!shared,
         Bank!writer, Bank!reader

LEMMA TunerSteps == [Next]_vars => [Tuner!Next]_(Tuner!vars)
  BY DEF Next, vars, BankStep, TunerStep, RequestStep, tuner, Tuner!vars, Tuner!shared,
         Tuner!writer, Tuner!reader

LEMMA RequestSteps == [Next]_vars => [Request!Next]_(Request!vars)
  BY DEF Next, vars, BankStep, TunerStep, RequestStep, request, Request!vars, Request!shared,
         Request!writer, Request!reader

-----------------------------------------------------------------------------
(* The calibration bank *)

BankShared ==
  /\ b_sequence \in 0 .. 2 * MaxBanks
  /\ b_generation \in BankGenerations
  /\ b_words \in [Bank!Words -> Content]
  /\ b_published \in Bank!Value \cup {Bank!Empty}

BankWriter ==
  /\ b_w_stage \in {"idle", "words", "generation", "finish"}
  /\ b_w_bank \in Bank!Value
  /\ b_w_index \in 1 .. BankWords + 1
  /\ b_w_stage # "idle" => b_sequence < 2 * MaxBanks
  /\ b_w_stage = "words" => b_w_index \in Bank!Words

BankReading == b_r_stage \in {"generation", "words", "after"}

BankReader ==
  /\ b_r_stage \in {"idle", "before", "generation", "words", "after"}
  /\ b_r_attempt \in 0 .. ReadAttempts
  /\ BankReading => b_r_attempt < ReadAttempts
  /\ b_r_before \in 0 .. 2 * MaxBanks
  /\ b_r_index \in 1 .. BankWords + 1
  /\ b_r_stage = "generation" => b_r_index = 1
  /\ b_r_stage = "words" => b_r_index \in Bank!Words
  /\ b_candidate \in Bank!Value
  /\ b_snapshot \in Bank!Value \cup {Bank!Empty}

\* What publish has done so far.
BankWritten ==
  /\ b_w_stage = "idle" <=> Bank!Even(b_sequence)
  /\ b_w_stage = "idle" /\ b_sequence # 0 =>
       b_published = [words |-> b_words, generation |-> b_generation]
  /\ b_w_stage = "words" => \A i \in Bank!Words : i < b_w_index => b_words[i] = b_w_bank.words[i]
  /\ b_w_stage \in {"generation", "finish"} => b_words = b_w_bank.words
  /\ b_w_stage = "finish" => b_generation = b_w_bank.generation

\* What a read has copied, unless a publish began meanwhile.
BankCopied ==
  BankReading =>
    /\ Bank!Even(b_r_before) /\ b_r_before # 0 /\ b_r_before <= b_sequence
    /\ b_sequence = b_r_before /\ b_r_stage # "generation" => b_candidate.generation = b_generation
    /\ b_sequence = b_r_before /\ b_r_stage = "words" =>
         \A i \in Bank!Words : i < b_r_index => b_candidate.words[i] = b_words[i]
    /\ b_sequence = b_r_before /\ b_r_stage = "after" => b_candidate.words = b_words

BankInv == BankShared /\ BankWriter /\ BankReader /\ BankWritten /\ BankCopied

-----------------------------------------------------------------------------
USE BankAssumption DEF Bank!TransportAssumption

LEMMA BankParity ==
  ASSUME NEW n \in Nat
  PROVE  Bank!Even(n) <=> ~ Bank!Even(n + 1)
  BY DEF Bank!Even

\* A bank has a word, so that no bank is Empty.
LEMMA EmptyIsNoBank ==
   Bank!Empty \notin Bank!Value
<1>1. 1 \in Bank!Words
  BY DEF Bank!Words
<1>2. ASSUME NEW f \in [Bank!Words -> Content] PROVE f # <<>>
  BY <1>1
<1> QED
  BY <1>2 DEF Bank!Empty, Bank!Value

LEMMA BlankIsABank ==
   Bank!Blank \in Bank!Value
  BY DEF Bank!Blank, Bank!Value

LEMMA BankInit ==
  ASSUME Bank!Init
  PROVE  BankInv
<1> USE DEF Bank!Init
<1>1. BankShared
  BY BlankIsABank DEF BankShared, Bank!Value
<1>2. BankWriter /\ BankReader
  BY BlankIsABank DEF BankWriter, BankReader
<1>3. BankWritten /\ BankCopied
  BY DEF BankWritten, BankCopied, BankReading, Bank!Even
<1> QED
  BY <1>1, <1>2, <1>3 DEF BankInv

\* The writing thread never steps under a read that then accepts.
LEMMA BankWriterStep ==
  ASSUME BankInv, Bank!Reset \/ Bank!Publisher
  PROVE  BankInv'
<1> USE DEF BankInv, BankReading, Bank!shared, Bank!writer, Bank!reader
<1>1. CASE Bank!Reset
  <2>1. BankShared'
    BY <1>1, BlankIsABank DEF Bank!Reset, BankShared, Bank!Value
  <2>2. BankWriter' /\ BankReader'
    BY <1>1 DEF Bank!Reset, BankWriter, BankReader
  <2>3. BankWritten' /\ BankCopied'
    BY <1>1 DEF Bank!Reset, BankWritten, BankCopied, BankReading, Bank!Even
  <2> QED
    BY <2>1, <2>2, <2>3
<1>2. CASE Bank!PublishBegin
  <2>1. Bank!Even(b_sequence) /\ b_sequence' = b_sequence + 1 /\ ~ Bank!Even(b_sequence')
    <3>1. b_sequence \in Nat
      BY DEF BankShared
    <3> QED
      BY <1>2, <3>1, BankParity DEF Bank!PublishBegin, BankWritten
  <2>2. BankShared' /\ BankWriter' /\ BankReader'
    BY <1>2, <2>1 DEF Bank!PublishBegin, BankShared, BankWriter, BankReader, Bank!Words
  <2>3. BankWritten'
    BY <1>2, <2>1 DEF Bank!PublishBegin, BankWritten, Bank!Words
  <2>4. BankCopied'
    BY <1>2, <2>1 DEF Bank!PublishBegin, BankCopied, BankReading, BankShared, BankReader
  <2> QED
    BY <2>2, <2>3, <2>4
<1>3. CASE Bank!PublishWord
  <2>1. ~ Bank!Even(b_sequence) /\ b_sequence' = b_sequence
    BY <1>3 DEF Bank!PublishWord, BankWritten
  <2>2. BankShared' /\ BankWriter' /\ BankReader'
    <3>1. b_words' \in [Bank!Words -> Content]
      BY <1>3 DEF Bank!PublishWord, BankShared, BankWriter, Bank!Value
    <3>2. b_w_index' \in 1 .. BankWords + 1 /\ (b_w_stage' = "words" => b_w_index' \in Bank!Words)
      BY <1>3 DEF Bank!PublishWord, BankWriter, Bank!Words
    <3> QED
      BY <1>3, <3>1, <3>2 DEF Bank!PublishWord, BankShared, BankWriter, BankReader
  <2>3. BankWritten'
    <3>1. \A i \in Bank!Words : i < b_w_index' => b_words'[i] = b_w_bank.words[i]
      BY <1>3 DEF Bank!PublishWord, BankWritten, BankWriter, BankShared, Bank!Words
    <3>2. b_w_index = BankWords => b_words' = b_w_bank.words
      <4> SUFFICES ASSUME b_w_index = BankWords PROVE b_words' = b_w_bank.words
        OBVIOUS
      <4>1. \A i \in Bank!Words : b_words'[i] = b_w_bank.words[i]
        BY <1>3, <3>1 DEF Bank!PublishWord, Bank!Words
      <4> QED
        BY <4>1, <2>2, <1>3 DEF BankShared, BankWriter, Bank!Value
    <3> QED
      BY <1>3, <2>1, <3>1, <3>2 DEF Bank!PublishWord, BankWritten
  <2>4. BankCopied'
    BY <1>3, <2>1 DEF Bank!PublishWord, BankCopied, BankReading
  <2> QED
    BY <2>2, <2>3, <2>4
<1>4. CASE Bank!PublishGeneration
  <2>1. ~ Bank!Even(b_sequence) /\ b_sequence' = b_sequence
    BY <1>4 DEF Bank!PublishGeneration, BankWritten
  <2>2. BankShared' /\ BankWriter' /\ BankReader'
    BY <1>4 DEF Bank!PublishGeneration, BankShared, BankWriter, BankReader, Bank!Value
  <2>3. BankWritten' /\ BankCopied'
    BY <1>4, <2>1 DEF Bank!PublishGeneration, BankWritten, BankCopied, BankReading
  <2> QED
    BY <2>2, <2>3
<1>5. CASE Bank!PublishFinish
  <2>1. ~ Bank!Even(b_sequence) /\ b_sequence' = b_sequence + 1 /\ Bank!Even(b_sequence')
    BY <1>5, BankParity DEF Bank!PublishFinish, BankWritten, BankShared
  <2>2. BankShared' /\ BankWriter' /\ BankReader'
    BY <1>5, <2>1 DEF Bank!PublishFinish, BankShared, BankWriter, BankReader
  <2>3. b_w_bank = [words |-> b_w_bank.words, generation |-> b_w_bank.generation]
    BY DEF BankWriter, Bank!Value
  <2>4. BankWritten'
    BY <1>5, <2>1, <2>3 DEF Bank!PublishFinish, BankWritten
  <2>5. BankCopied'
    <3>1. BankReading => b_r_before < b_sequence'
      BY <2>1 DEF BankCopied, BankShared, BankReader
    <3> QED
      BY <1>5, <2>1, <3>1 DEF Bank!PublishFinish, BankCopied, BankReading, BankShared,
             BankReader
  <2> QED
    BY <2>2, <2>4, <2>5
<1> QED
  BY <1>1, <1>2, <1>3, <1>4, <1>5 DEF Bank!Publisher

LEMMA BankReaderStep ==
  ASSUME BankInv, Bank!ReadStart \/ Bank!ReadOn
  PROVE  BankInv'
<1> USE DEF BankInv, BankReading, Bank!shared, Bank!writer
<1>1. CASE Bank!ReadStart \/ Bank!GiveUp \/ Bank!ReadBusy \/ Bank!Reject
  BY <1>1 DEF Bank!ReadStart, Bank!GiveUp, Bank!ReadBusy, Bank!Reject, BankShared, BankWriter,
         BankReader, BankWritten,
              BankCopied, BankReading
<1>2. CASE Bank!ReadBefore
  BY <1>2 DEF Bank!ReadBefore, BankShared, BankWriter, BankReader, BankWritten, BankCopied,
         BankReading
<1>3. CASE Bank!ReadGeneration
  <2>1. b_candidate' \in Bank!Value /\ b_candidate'.generation = b_generation
    BY <1>3 DEF Bank!ReadGeneration, BankReader, BankShared, Bank!Value
  <2>2. BankShared' /\ BankWriter' /\ BankReader'
    BY <1>3, <2>1 DEF Bank!ReadGeneration, BankShared, BankWriter, BankReader, Bank!Words
  <2>3. BankWritten' /\ BankCopied'
    BY <1>3, <2>1 DEF Bank!ReadGeneration, BankWritten, BankCopied, BankReading, BankReader,
           Bank!Words
  <2> QED
    BY <2>2, <2>3
<1>4. CASE Bank!ReadWord
  <2>1. b_candidate'.words = [b_candidate.words EXCEPT ![b_r_index] = b_words[b_r_index]]
        /\ b_candidate'.generation = b_candidate.generation /\ b_candidate' \in Bank!Value
    BY <1>4 DEF Bank!ReadWord, BankReader, BankShared, Bank!Value
  <2>2. b_r_index' \in 1 .. BankWords + 1 /\ (b_r_stage' = "words" => b_r_index' \in Bank!Words)
    BY <1>4 DEF Bank!ReadWord, BankReader, Bank!Words
  <2>3. BankShared' /\ BankWriter' /\ BankReader'
    BY <1>4, <2>1, <2>2 DEF Bank!ReadWord, BankShared, BankWriter, BankReader
  <2>4. b_sequence = b_r_before =>
          \A i \in Bank!Words : i < b_r_index' => b_candidate'.words[i] = b_words[i]
    <3> SUFFICES ASSUME b_sequence = b_r_before, NEW i \in Bank!Words, i < b_r_index'
                 PROVE  b_candidate'.words[i] = b_words[i]
      OBVIOUS
    <3>1. b_candidate.words \in [Bank!Words -> Content] /\ b_r_index \in Bank!Words
      BY <1>4 DEF Bank!ReadWord, BankReader, Bank!Value
    <3>2. CASE i = b_r_index
      BY <2>1, <3>1, <3>2
    <3>3. CASE i # b_r_index
      <4>1. i < b_r_index
        BY <1>4, <3>1, <3>3 DEF Bank!ReadWord, Bank!Words
      <4>2. b_candidate.words[i] = b_words[i]
        BY <1>4, <4>1 DEF Bank!ReadWord, BankCopied, BankReading
      <4> QED
        BY <2>1, <3>1, <3>3, <4>2
    <3> QED
      BY <3>2, <3>3
  <2>5. b_sequence = b_r_before /\ b_r_index = BankWords => b_candidate'.words = b_words
    <3> SUFFICES ASSUME b_sequence = b_r_before, b_r_index = BankWords
                 PROVE  b_candidate'.words = b_words
      OBVIOUS
    <3>1. \A i \in Bank!Words : b_candidate'.words[i] = b_words[i]
      BY <1>4, <2>4 DEF Bank!ReadWord, Bank!Words
    <3> QED
      BY <3>1, <2>1 DEF BankShared, Bank!Value
  <2>6. BankWritten' /\ BankCopied'
    BY <1>4, <2>1, <2>4, <2>5 DEF Bank!ReadWord, BankWritten, BankCopied, BankReading
  <2> QED
    BY <2>3, <2>6
<1>5. CASE Bank!Accept
  BY <1>5 DEF Bank!Accept, BankShared, BankWriter, BankReader, BankWritten, BankCopied,
         BankReading
<1> QED
  BY <1>1, <1>2, <1>3, <1>4, <1>5 DEF Bank!ReadOn

LEMMA BankInvStep ==
  ASSUME BankInv, [Bank!Next]_(Bank!vars)
  PROVE  BankInv'
<1>1. CASE UNCHANGED Bank!vars
  BY <1>1 DEF BankInv, Bank!vars, Bank!shared, Bank!writer, Bank!reader, BankShared,
         BankWriter, BankReader, BankWritten,
              BankCopied, BankReading
<1> QED
  BY <1>1, BankWriterStep, BankReaderStep DEF Bank!Next

-----------------------------------------------------------------------------
\* A read that accepts does so while the sequence is even, so that its copy is the
\* bank of the last finished publish.
LEMMA BankAcceptReads ==
  ASSUME BankInv, Bank!Accept
  PROVE  Bank!Ideal!Read
<1> USE DEF BankInv
<1>1. b_candidate = [words |-> b_words, generation |-> b_generation]
  BY DEF Bank!Accept, BankCopied, BankReading, BankReader, Bank!Value
<1>2. b_published = b_candidate
  BY <1>1 DEF Bank!Accept, BankWritten, BankCopied, BankReading
<1> QED
  BY <1>2, EmptyIsNoBank DEF Bank!Accept, Bank!Ideal!Read, BankReader

LEMMA BankStepIsAtomic ==
  ASSUME BankInv, [Bank!Next]_(Bank!vars)
  PROVE  [Bank!Ideal!Next]_(Bank!Ideal!vars)
<1> USE DEF Bank!Ideal!vars, Bank!shared, Bank!writer, Bank!reader
<1>1. CASE Bank!Reset
  BY <1>1 DEF Bank!Reset, Bank!Ideal!Next, Bank!Ideal!Reset
<1>2. CASE Bank!PublishFinish
  BY <1>2 DEF Bank!PublishFinish, Bank!Ideal!Next, Bank!Ideal!Publish, BankInv, BankWriter
<1>3. CASE Bank!PublishBegin \/ Bank!PublishWord \/ Bank!PublishGeneration
  BY <1>3 DEF Bank!PublishBegin, Bank!PublishWord, Bank!PublishGeneration
<1>4. CASE Bank!Accept
  BY <1>4, BankAcceptReads DEF Bank!Ideal!Next
<1>5. CASE (Bank!ReadStart \/ Bank!ReadOn) /\ ~Bank!Accept
  BY <1>5 DEF Bank!ReadOn, Bank!ReadStart, Bank!GiveUp, Bank!ReadBusy, Bank!ReadBefore,
         Bank!ReadGeneration, Bank!ReadWord, Bank!Reject
<1>6. CASE UNCHANGED Bank!vars
  BY <1>6 DEF Bank!vars
<1> QED
  BY <1>1, <1>2, <1>3, <1>4, <1>5, <1>6 DEF Bank!Next, Bank!Publisher, Bank!ReadOn

LEMMA BankHolds == Spec => []BankInv
<1>1. Init => BankInv
  BY BankInit DEF Init
<1>2. BankInv /\ [Next]_vars => BankInv'
  BY BankSteps, BankInvStep
<1> QED
  BY <1>1, <1>2, PTL DEF Spec

\* Whatever the two threads interleave, the transport is an atomic register: a read
\* accepts exactly the bank of the last finished publish
\* (calibration_bank_transport.cpp:66-110).
THEOREM BankIsAtomic == Spec => BankReadsAreWhole
<1>1. Init => Bank!Ideal!Init
  BY DEF Init, Bank!Init, Bank!Ideal!Init
<1>2. BankInv /\ [Next]_vars => [Bank!Ideal!Next]_(Bank!Ideal!vars)
  BY BankSteps, BankStepIsAtomic
<1> QED
  BY <1>1, <1>2, BankHolds, PTL DEF Spec, BankReadsAreWhole, Bank!ReadsAreWhole, Bank!Ideal!Spec

HIDE BankAssumption DEF Bank!TransportAssumption

-----------------------------------------------------------------------------
(* The tuner frame *)

TunerShared ==
  /\ t_sequence \in 0 .. 2 * MaxFrames
  /\ t_generation \in Tuner!Generations
  /\ t_header \in Tuner!Headers
  /\ t_input_peak \in Peaks
  /\ t_words \in [Tuner!Words -> Content]
  /\ t_published \in Tuner!Value \cup {Tuner!Empty}

TunerWriter ==
  /\ t_w_stage \in {"idle", "header", "words", "generation", "peak", "finish"}
  /\ t_w_frame \in Tuner!Frames
  /\ t_w_peak \in Peaks
  /\ t_w_index \in 1 .. Voices * WordsPerVoice + 1
  /\ t_w_clear \in BOOLEAN
  /\ t_w_stage = "words" => t_w_index \in Tuner!Words

TunerReading == t_r_stage \in {"header", "generation", "peak", "words", "after"}

TunerReader ==
  /\ t_r_stage \in {"idle", "before", "header", "generation", "peak", "words", "after"}
  /\ t_r_attempt \in 0 .. ReadAttempts
  /\ TunerReading => t_r_attempt < ReadAttempts
  /\ t_r_before \in 0 .. 2 * MaxFrames
  /\ t_r_index \in 1 .. Voices * WordsPerVoice + 1
  /\ t_r_stage \in {"generation", "peak"} => t_r_index = 1
  /\ t_r_stage = "words" => t_r_index <= Tuner!Used(t_candidate.frame.header)
  /\ t_r_stage = "after" => t_r_index = Tuner!Used(t_candidate.frame.header) + 1
  /\ t_candidate \in Tuner!Value
  /\ t_snapshot \in Tuner!Value \cup {Tuner!Empty}

\* The sequence counts twice what the generation counts.
TunerCounts ==
  /\ t_w_stage = "idle" => t_sequence = 2 * t_generation
  /\ t_w_stage \in {"header", "words", "generation", "peak"} =>
       t_sequence = 2 * t_generation + 1 /\ t_generation < MaxFrames
  /\ t_w_stage = "finish" => t_sequence + 1 = 2 * t_generation
  /\ t_published.generation = IF t_w_stage = "finish" THEN t_generation - 1 ELSE t_generation

\* The shared words are the last frame's, but for what publish has yet to store.
TunerWritten ==
  /\ t_w_stage # "header" => t_header = t_w_frame.header
  /\ t_w_stage \notin {"header", "words"} => t_words = t_w_frame.words
  /\ t_w_stage = "words" => \A i \in Tuner!Words : i < t_w_index => t_words[i] = t_w_frame.words[i]
  /\ t_w_stage = "idle" /\ t_sequence # 0 =>
       t_published = [frame |-> t_w_frame, peak |-> t_input_peak, generation |-> t_generation]

\* What a read has copied, unless a publication began meanwhile.
TunerCopied ==
  TunerReading =>
    /\ Tuner!Even(t_r_before) /\ t_r_before # 0 /\ t_r_before <= t_sequence
    /\ t_sequence = t_r_before =>
         /\ t_r_stage # "header" => t_candidate.frame.header = t_header
         /\ t_r_stage \in {"peak", "words", "after"} => t_candidate.generation = t_generation
         /\ t_r_stage \in {"words", "after"} => t_candidate.peak = t_input_peak
         /\ t_r_stage # "header" =>
              \A i \in Tuner!Words : i < t_r_index => t_candidate.frame.words[i] = t_words[i]

\* What the editor holds is older than what is published, or the same.
TunerNames ==
  t_snapshot # Tuner!Empty =>
    /\ t_snapshot.generation <= t_published.generation
    /\ t_snapshot.generation = t_published.generation => t_snapshot = t_published

TunerInv ==
  TunerShared /\ TunerWriter /\ TunerReader /\ TunerCounts /\ TunerWritten /\ TunerCopied /\ TunerNames

-----------------------------------------------------------------------------
USE TunerAssumption DEF Tuner!TelemetryAssumption

LEMMA TunerParity ==
  ASSUME NEW n \in Nat
  PROVE  Tuner!Even(2 * n) /\ ~ Tuner!Even(2 * n + 1)
  BY DEF Tuner!Even

\* A frame's words fit in the transport's.
LEMMA FrameFits ==
  /\ Voices * WordsPerVoice \in Nat \ {0}
  /\ \A h \in Tuner!Headers :
       Tuner!Used(h) \in Nat /\ Tuner!Used(h) <= Voices * WordsPerVoice
<1>1. \A m, n \in Nat \ {0} : m * n \in Nat \ {0}
  OBVIOUS
<1>2. ASSUME NEW c \in 0 .. Voices
      PROVE  c * WordsPerVoice \in Nat /\ c * WordsPerVoice <= Voices * WordsPerVoice
  OBVIOUS
<1>3. \A h \in Tuner!Headers : h.count \in 0 .. Voices
  BY DEF Tuner!Headers, Tuner!Counts
<1> QED
  BY <1>1, <1>2, <1>3 DEF Tuner!Used

LEMMA SilentFrame ==
  ASSUME NEW s \in FrameStates
  PROVE  Tuner!NoVoices(s) \in Tuner!Frames
<1>1. [state |-> s, count |-> 0] \in Tuner!Headers
  BY DEF Tuner!Headers, Tuner!Counts
<1>2. [w \in Tuner!Words |-> Zero] \in [Tuner!Words -> Content]
  OBVIOUS
<1> QED
  BY <1>1, <1>2 DEF Tuner!NoVoices, Tuner!Frames

LEMMA BlankIsAFrame == Tuner!Blank \in Tuner!Value
<1>1. Tuner!AnyState \in FrameStates
  BY DEF Tuner!AnyState
<1> QED
  BY <1>1, SilentFrame DEF Tuner!Blank, Tuner!Value, Tuner!Generations

LEMMA EmptyIsNoFrame == Tuner!Empty \notin Tuner!Value
<1>1. ASSUME NEW f \in Tuner!Frames PROVE f # <<>>
  <2>1. "header" \in DOMAIN f
    BY DEF Tuner!Frames
  <2>2. "header" \notin DOMAIN <<>>
    OBVIOUS
  <2> QED
    BY <2>1, <2>2
<1> QED
  BY <1>1 DEF Tuner!Empty, Tuner!Value

\* A value has its fields, also when it is the empty one.
LEMMA ValueFields ==
  /\ \A v \in Tuner!Value : /\ v.frame \in Tuner!Frames /\ v.peak \in Peaks
                            /\ v.generation \in Nat /\ v.generation <= MaxFrames
                            /\ v = [frame |-> v.frame, peak |-> v.peak, generation |-> v.generation]
  /\ \A f \in Tuner!Frames : /\ f.header \in Tuner!Headers /\ f.words \in [Tuner!Words -> Content]
                             /\ f = [header |-> f.header, words |-> f.words]
                             /\ \A w \in Tuner!Words : w > Tuner!Used(f.header) => f.words[w] = Zero
  /\ Tuner!Empty.generation = 0
<1>1. \A v \in Tuner!Value : /\ v.frame \in Tuner!Frames /\ v.peak \in Peaks
                            /\ v.generation \in Nat /\ v.generation <= MaxFrames
                            /\ v = [frame |-> v.frame, peak |-> v.peak, generation |-> v.generation]
  BY DEF Tuner!Value, Tuner!Generations
<1>2. \A f \in Tuner!Frames : /\ f.header \in Tuner!Headers /\ f.words \in [Tuner!Words -> Content]
                             /\ f = [header |-> f.header, words |-> f.words]
                             /\ \A w \in Tuner!Words : w > Tuner!Used(f.header) => f.words[w] = Zero
  BY DEF Tuner!Frames
<1> QED
  BY <1>1, <1>2 DEF Tuner!Empty

LEMMA TunerInit ==
  ASSUME Tuner!Init
  PROVE  TunerInv
<1> USE DEF Tuner!Init
<1>1. /\ Tuner!Blank \in Tuner!Value /\ Tuner!Blank.frame \in Tuner!Frames
      /\ Tuner!Blank.frame.header \in Tuner!Headers
      /\ Tuner!Blank.frame.words \in [Tuner!Words -> Content]
  BY BlankIsAFrame, ValueFields
<1>2. TunerShared
  BY <1>1 DEF TunerShared, Tuner!Generations
<1>3. TunerWriter /\ TunerReader
  <2>1. 1 \in 1 .. Voices * WordsPerVoice + 1
    BY FrameFits
  <2>2. TunerWriter
    BY <1>1, <2>1 DEF TunerWriter
  <2>3. TunerReader
    BY <1>1, <2>1 DEF TunerReader, TunerReading
  <2> QED
    BY <2>2, <2>3
<1>4. TunerCounts /\ TunerWritten
  BY ValueFields DEF TunerCounts, TunerWritten
<1>5. TunerCopied /\ TunerNames
  BY DEF TunerCopied, TunerReading, TunerNames
<1> QED
  BY <1>2, <1>3, <1>4, <1>5 DEF TunerInv

\* A publication begins: the sequence turns odd, which no read accepts.
LEMMA TunerBegins ==
  ASSUME TunerInv, t_w_stage = "idle", t_sequence + 2 <= 2 * MaxFrames, Tuner!MarkWriting,
         t_w_stage' \in {"header", "peak"}, t_w_frame' \in Tuner!Frames, t_w_peak' \in Peaks,
         t_w_clear' \in BOOLEAN, t_w_stage' = "peak" => t_w_frame' = t_w_frame,
         UNCHANGED <<t_generation, t_header, t_input_peak, t_words, t_w_index, Tuner!reader,
                     t_snapshot, t_published>>
  PROVE  TunerInv'
<1> USE DEF TunerInv, Tuner!reader
<1>1. t_generation \in Nat /\ t_sequence = 2 * t_generation
  BY DEF TunerShared, Tuner!Generations, TunerCounts
<1>2. t_sequence' = t_sequence + 1 /\ ~Tuner!Even(t_sequence') /\ t_generation < MaxFrames
  BY <1>1, TunerParity DEF Tuner!MarkWriting
<1>3. TunerShared' /\ TunerWriter'
  BY <1>1, <1>2 DEF TunerShared, TunerWriter
<1>4. TunerReader'
  BY DEF TunerReader, TunerReading
<1>5. TunerCounts' /\ TunerWritten' /\ TunerNames'
  BY <1>1, <1>2 DEF TunerCounts, TunerWritten, TunerNames
<1>6. TunerCopied'
  BY <1>1, <1>2 DEF TunerCopied, TunerReading, TunerReader
<1> QED
  BY <1>3, <1>4, <1>5, <1>6

\* While a publication is under way a read in progress has nothing left to keep.
LEMMA OddIsUnread ==
  ASSUME TunerInv, t_w_stage # "idle", UNCHANGED t_sequence,
         UNCHANGED <<Tuner!reader, t_snapshot, t_published>>
  PROVE  TunerReader' /\ TunerCopied' /\ TunerNames'
<1> USE DEF TunerInv, Tuner!reader
<1>1. ~Tuner!Even(t_sequence)
  <2>1. t_generation \in Nat /\ t_sequence \in Nat
    BY DEF TunerShared, Tuner!Generations
  <2>2. CASE t_w_stage = "finish"
    <3>1. t_generation - 1 \in Nat /\ t_sequence = 2 * (t_generation - 1) + 1
      BY <2>1, <2>2 DEF TunerCounts
    <3> QED
      BY <3>1, TunerParity
  <2>3. CASE t_w_stage # "finish"
    <3>1. t_sequence = 2 * t_generation + 1
      BY <2>3 DEF TunerCounts, TunerWriter
    <3> QED
      BY <2>1, <3>1, TunerParity
  <2> QED
    BY <2>2, <2>3
<1>2. TunerReader' /\ TunerNames'
  BY DEF TunerReader, TunerReading, TunerNames
<1>3. TunerCopied'
  BY <1>1 DEF TunerCopied, TunerReading
<1> QED
  BY <1>2, <1>3

LEMMA TunerPublisherStep ==
  ASSUME TunerInv, Tuner!Publisher
  PROVE  TunerInv'
<1> USE DEF TunerInv
<1>1. ASSUME NEW f \in Tuner!Frames, NEW b \in BOOLEAN, Tuner!PublishFrame(f, b)
      PROVE  TunerInv'
  BY <1>1, TunerBegins DEF Tuner!PublishFrame, TunerWriter
<1>2. CASE Tuner!PublishHeader
  <2>1. TunerReader' /\ TunerCopied' /\ TunerNames'
    BY <1>2, OddIsUnread DEF Tuner!PublishHeader
  <2>2. t_header' \in Tuner!Headers
    BY <1>2, ValueFields DEF Tuner!PublishHeader, TunerWriter
  <2>3. TunerShared'
    BY <1>2, <2>2 DEF Tuner!PublishHeader, TunerShared
  <2>4. TunerWriter'
    BY <1>2, FrameFits DEF Tuner!PublishHeader, TunerWriter, Tuner!Words
  <2>5. TunerCounts' /\ TunerWritten'
    BY <1>2 DEF Tuner!PublishHeader, TunerCounts, TunerWritten, Tuner!Words
  <2> QED
    BY <2>1, <2>3, <2>4, <2>5
<1>3. CASE Tuner!PublishWord
  <2>1. TunerReader' /\ TunerCopied' /\ TunerNames'
    BY <1>3, OddIsUnread DEF Tuner!PublishWord
  <2>2. t_w_frame.words \in [Tuner!Words -> Content] /\ t_w_index \in Tuner!Words
    BY <1>3, ValueFields DEF Tuner!PublishWord, TunerWriter
  <2>3. t_words' \in [Tuner!Words -> Content]
    BY <1>3, <2>2 DEF Tuner!PublishWord, TunerShared
  <2>4. TunerShared'
    BY <1>3, <2>3 DEF Tuner!PublishWord, TunerShared
  <2>5. TunerWriter'
    <3>1. t_w_index' \in 1 .. Voices * WordsPerVoice + 1
          /\ (t_w_stage' = "words" => t_w_index' \in Tuner!Words)
      BY <1>3, <2>2, FrameFits DEF Tuner!PublishWord, Tuner!Words
    <3> QED
      BY <1>3, <3>1 DEF Tuner!PublishWord, TunerWriter
  <2>6. \A i \in Tuner!Words : i < t_w_index' => t_words'[i] = t_w_frame.words[i]
    BY <1>3, <2>2, FrameFits DEF Tuner!PublishWord, TunerWritten, TunerShared, Tuner!Words
  <2>7. t_w_index = Voices * WordsPerVoice => t_words' = t_w_frame.words
    <3> SUFFICES ASSUME t_w_index = Voices * WordsPerVoice PROVE t_words' = t_w_frame.words
      OBVIOUS
    <3>1. \A i \in Tuner!Words : t_words'[i] = t_w_frame.words[i]
      BY <1>3, <2>6, FrameFits DEF Tuner!PublishWord, Tuner!Words
    <3> QED
      BY <2>2, <2>3, <3>1
  <2>8. TunerCounts' /\ TunerWritten'
    BY <1>3, <2>6, <2>7 DEF Tuner!PublishWord, TunerCounts, TunerWritten
  <2> QED
    BY <2>1, <2>4, <2>5, <2>8
<1>4. ASSUME NEW p \in Peaks, Tuner!SamePeak(p) PROVE TunerInv'
  <2>1. /\ UNCHANGED <<t_sequence, t_generation, t_header, t_input_peak, t_words, t_published>>
        /\ UNCHANGED <<t_w_stage, t_w_frame, t_w_peak, t_w_index>>
        /\ UNCHANGED <<t_r_stage, t_r_attempt, t_r_before, t_r_index, t_candidate, t_snapshot>>
        /\ t_w_clear' \in BOOLEAN
    BY <1>4 DEF Tuner!SamePeak, Tuner!shared, Tuner!reader
  <2>2. TunerShared' /\ TunerWriter'
    BY <2>1 DEF TunerShared, TunerWriter
  <2>3. TunerReader' /\ TunerCopied'
    BY <2>1 DEF TunerReader, TunerReading, TunerCopied
  <2>4. TunerCounts' /\ TunerWritten' /\ TunerNames'
    BY <2>1 DEF TunerCounts, TunerWritten, TunerNames
  <2> QED
    BY <2>2, <2>3, <2>4
<1>5. ASSUME NEW p \in Peaks, Tuner!PublishPeak(p) PROVE TunerInv'
  BY <1>5, TunerBegins DEF Tuner!PublishPeak, TunerWriter
<1>6. CASE Tuner!StorePeak
  <2>1. TunerReader' /\ TunerCopied' /\ TunerNames'
    BY <1>6, OddIsUnread DEF Tuner!StorePeak
  <2>2. TunerShared' /\ TunerWriter'
    BY <1>6 DEF Tuner!StorePeak, TunerShared, TunerWriter
  <2>3. TunerCounts' /\ TunerWritten'
    BY <1>6 DEF Tuner!StorePeak, TunerCounts, TunerWritten
  <2> QED
    BY <2>1, <2>2, <2>3
<1>7. CASE Tuner!CountGeneration
  <2>1. TunerReader' /\ TunerCopied' /\ TunerNames'
    BY <1>7, OddIsUnread DEF Tuner!CountGeneration
  <2>2. t_generation \in Nat /\ t_generation < MaxFrames /\ t_sequence = 2 * t_generation + 1
    BY <1>7 DEF Tuner!CountGeneration, TunerCounts, TunerShared, Tuner!Generations
  <2>3. TunerShared' /\ TunerWriter'
    BY <1>7, <2>2 DEF Tuner!CountGeneration, TunerShared, TunerWriter, Tuner!Generations
  <2>4. TunerCounts' /\ TunerWritten'
    BY <1>7, <2>2 DEF Tuner!CountGeneration, TunerCounts, TunerWritten
  <2> QED
    BY <2>1, <2>3, <2>4
<1>8. CASE Tuner!PublishFinish
  <2>1. /\ t_generation \in Nat /\ t_generation <= MaxFrames /\ t_sequence \in Nat
        /\ t_sequence + 1 = 2 * t_generation /\ t_published.generation = t_generation - 1
    BY <1>8 DEF Tuner!PublishFinish, TunerShared, Tuner!Generations, TunerCounts
  <2>2. t_sequence' = 2 * t_generation /\ t_sequence' = t_sequence + 1
    BY <1>8, <2>1 DEF Tuner!PublishFinish
  <2>3. t_published' \in Tuner!Value /\ t_published'.generation = t_generation
    BY <1>8 DEF Tuner!PublishFinish, TunerShared, TunerWriter, Tuner!Value
  <2>4. TunerShared' /\ TunerWriter'
    BY <1>8, <2>1, <2>2, <2>3 DEF Tuner!PublishFinish, TunerShared, TunerWriter
  <2>5. TunerReader'
    BY <1>8 DEF Tuner!PublishFinish, Tuner!reader, TunerReader, TunerReading
  <2>6. TunerCounts' /\ TunerWritten'
    BY <1>8, <2>2, <2>3 DEF Tuner!PublishFinish, TunerCounts, TunerWritten
  <2>7. TunerCopied'
    <3>1. TunerReading => t_r_before < t_sequence'
      BY <2>1, <2>2 DEF TunerCopied, TunerReader
    <3> QED
      BY <1>8, <2>2, <3>1 DEF Tuner!PublishFinish, Tuner!reader, TunerCopied, TunerReading,
             TunerReader
  <2>8. TunerNames'
    <3>1. t_snapshot # Tuner!Empty => t_snapshot.generation \in Nat
      BY ValueFields DEF TunerReader
    <3> QED
      BY <1>8, <2>1, <2>3, <3>1 DEF Tuner!PublishFinish, TunerNames
  <2> QED
    BY <2>4, <2>5, <2>6, <2>7, <2>8
<1> QED
  BY <1>1, <1>2, <1>3, <1>4, <1>5, <1>6, <1>7, <1>8, SilentFrame DEF Tuner!Publisher

\* What the writer owns a step of the reader leaves alone.
LEMMA TunerKept ==
  ASSUME TunerInv, UNCHANGED <<Tuner!shared, Tuner!writer, t_published>>
  PROVE  TunerShared' /\ TunerWriter' /\ TunerCounts' /\ TunerWritten'
  BY DEF TunerInv, Tuner!shared, Tuner!writer, TunerShared, TunerWriter, TunerCounts,
         TunerWritten

\* An accepted copy is what the last finished publication made visible.
LEMMA TunerAcceptsWhole ==
  ASSUME TunerInv, Tuner!Accept
  PROVE  t_candidate = t_published /\ t_published # Tuner!Empty
<1> USE DEF TunerInv
<1>1. /\ t_candidate \in Tuner!Value /\ t_candidate.frame \in Tuner!Frames
      /\ t_w_frame \in Tuner!Frames
  BY ValueFields DEF TunerReader, TunerWriter
<1>2. TunerReading /\ t_sequence = t_r_before /\ Tuner!Even(t_sequence) /\ t_sequence # 0
  BY DEF Tuner!Accept, Tuner!Unmoved, TunerReading, TunerCopied
<1>3. t_w_stage = "idle"
  <2>1. t_generation \in Nat /\ t_sequence \in Nat
    BY DEF TunerShared, Tuner!Generations
  <2>2. t_w_stage # "finish"
    <3> SUFFICES ASSUME t_w_stage = "finish" PROVE FALSE
      OBVIOUS
    <3>1. t_generation - 1 \in Nat /\ t_sequence = 2 * (t_generation - 1) + 1
      BY <2>1 DEF TunerCounts
    <3> QED
      BY <1>2, <3>1, TunerParity
  <2>3. t_w_stage \notin {"header", "words", "generation", "peak"}
    BY <1>2, <2>1, TunerParity DEF TunerCounts
  <2> QED
    BY <2>2, <2>3 DEF TunerWriter
<1>4. t_header = t_w_frame.header /\ t_words = t_w_frame.words
  BY <1>3 DEF TunerWritten
<1>5. t_candidate.frame = t_w_frame
  <2>1. t_candidate.frame.header = t_w_frame.header
    BY <1>2, <1>4 DEF TunerCopied, Tuner!Accept
  <2>2. ASSUME NEW i \in Tuner!Words PROVE t_candidate.frame.words[i] = t_w_frame.words[i]
    <3>1. t_candidate.frame.header \in Tuner!Headers
      BY <1>1, ValueFields
    <3>2. t_r_index = Tuner!Used(t_candidate.frame.header) + 1
      BY DEF Tuner!Accept, TunerReader
    <3>3. Tuner!Used(t_candidate.frame.header) \in Nat
      BY <3>1, FrameFits
    <3>4. CASE i < t_r_index
      BY <1>2, <1>4, <3>4 DEF TunerCopied, Tuner!Accept
    <3>5. CASE ~(i < t_r_index)
      <4>1. i > Tuner!Used(t_candidate.frame.header)
        BY <3>2, <3>3, <3>5 DEF Tuner!Words
      <4> QED
        BY <1>1, <2>1, <4>1, ValueFields
    <3> QED
      BY <3>4, <3>5
  <2>3. t_candidate.frame.words = t_w_frame.words
    BY <1>1, <2>2, ValueFields
  <2> QED
    BY <1>1, <2>1, <2>3, ValueFields
<1>6. t_candidate.peak = t_input_peak /\ t_candidate.generation = t_generation
  BY <1>2 DEF TunerCopied, Tuner!Accept
<1>7. t_candidate = t_published
  BY <1>1, <1>2, <1>3, <1>5, <1>6, ValueFields DEF TunerWritten
<1> QED
  BY <1>1, <1>7, EmptyIsNoFrame

LEMMA TunerReaderStep ==
  ASSUME TunerInv, Tuner!Reader
  PROVE  TunerInv'
<1> USE DEF TunerInv, TunerReading, Tuner!shared, Tuner!writer
<1>1. CASE Tuner!ReadStart \/ Tuner!GiveUp \/ Tuner!ReadBusy \/ Tuner!ReadBefore \/ Tuner!Reject
  <2>1. TunerShared' /\ TunerWriter' /\ TunerCounts' /\ TunerWritten'
    BY <1>1, TunerKept DEF Tuner!ReadStart, Tuner!GiveUp, Tuner!ReadBusy, Tuner!ReadBefore,
           Tuner!Reject
  <2>2. TunerReader'
    BY <1>1 DEF Tuner!ReadStart, Tuner!GiveUp, Tuner!ReadBusy, Tuner!ReadBefore, Tuner!Reject,
                TunerReader, TunerShared
  <2>3. TunerCopied' /\ TunerNames'
    BY <1>1 DEF Tuner!ReadStart, Tuner!GiveUp, Tuner!ReadBusy, Tuner!ReadBefore, Tuner!Reject,
                TunerReader, TunerShared, TunerCopied, TunerNames
  <2> QED
    BY <2>1, <2>2, <2>3
<1>2. CASE Tuner!ReadHeader
  <2>1. TunerShared' /\ TunerWriter' /\ TunerCounts' /\ TunerWritten'
    BY <1>2, TunerKept DEF Tuner!ReadHeader
  <2>2. t_candidate' \in Tuner!Value /\ t_candidate'.frame.header = t_header
    <3>1. Tuner!Blank.frame \in Tuner!Frames /\ Tuner!Blank \in Tuner!Value
          /\ \A w \in Tuner!Words : Tuner!Blank.frame.words[w] = Zero
      BY BlankIsAFrame, ValueFields DEF Tuner!Blank, Tuner!NoVoices
    <3>2. [Tuner!Blank.frame EXCEPT !.header = t_header] \in Tuner!Frames
      BY <3>1 DEF Tuner!Frames, TunerShared
    <3> QED
      BY <1>2, <3>1, <3>2, ValueFields DEF Tuner!ReadHeader, Tuner!Value, TunerShared
  <2>3. TunerReader' /\ TunerCopied' /\ TunerNames'
    BY <1>2, <2>2, FrameFits DEF Tuner!ReadHeader, TunerReader, TunerCopied, TunerNames,
           Tuner!Words
  <2> QED
    BY <2>1, <2>3
<1>3. CASE Tuner!ReadGeneration
  <2>1. TunerShared' /\ TunerWriter' /\ TunerCounts' /\ TunerWritten'
    BY <1>3, TunerKept DEF Tuner!ReadGeneration
  <2>2. /\ t_candidate' \in Tuner!Value /\ t_candidate'.frame = t_candidate.frame
        /\ t_candidate'.generation = t_generation
    BY <1>3 DEF Tuner!ReadGeneration, Tuner!Value, TunerReader, TunerShared
  <2>3. TunerReader' /\ TunerCopied' /\ TunerNames'
    BY <1>3, <2>2 DEF Tuner!ReadGeneration, TunerReader, TunerCopied, TunerNames
  <2> QED
    BY <2>1, <2>3
<1>4. CASE Tuner!ReadPeak
  <2>1. TunerShared' /\ TunerWriter' /\ TunerCounts' /\ TunerWritten'
    BY <1>4, TunerKept DEF Tuner!ReadPeak
  <2>2. /\ t_candidate' \in Tuner!Value /\ t_candidate'.frame = t_candidate.frame
        /\ t_candidate'.generation = t_candidate.generation /\ t_candidate'.peak = t_input_peak
    BY <1>4 DEF Tuner!ReadPeak, Tuner!Value, TunerReader, TunerShared
  <2>3. /\ t_candidate.frame.header \in Tuner!Headers
        /\ Tuner!Used(t_candidate.frame.header) \in Nat
    BY ValueFields, FrameFits DEF TunerReader
  <2>4. TunerReader' /\ TunerCopied' /\ TunerNames'
    BY <1>4, <2>2, <2>3 DEF Tuner!ReadPeak, TunerReader, TunerCopied, TunerNames
  <2> QED
    BY <2>1, <2>4
<1>5. CASE Tuner!ReadWord
  <2>1. TunerShared' /\ TunerWriter' /\ TunerCounts' /\ TunerWritten'
    BY <1>5, TunerKept DEF Tuner!ReadWord
  <2> DEFINE used == Tuner!Used(t_candidate.frame.header)
             copied == [t_candidate.frame.words EXCEPT ![t_r_index] = t_words[t_r_index]]
  <2>1a. /\ t_candidate.frame \in Tuner!Frames /\ t_candidate.frame.header \in Tuner!Headers
         /\ t_candidate.frame.words \in [Tuner!Words -> Content]
    BY ValueFields DEF TunerReader
  <2>1b. used \in Nat /\ used <= Voices * WordsPerVoice
    BY <2>1a, FrameFits
  <2>1c. t_r_index <= used /\ t_r_index \in Nat \ {0}
    BY <1>5 DEF Tuner!ReadWord, TunerReader
  <2>1d. t_r_index \in Tuner!Words
    BY <2>1b, <2>1c, FrameFits DEF Tuner!Words
  <2>2. /\ t_candidate.frame \in Tuner!Frames /\ used \in Nat /\ used <= Voices * WordsPerVoice
        /\ t_candidate.frame.words \in [Tuner!Words -> Content]
        /\ t_r_index <= used /\ t_r_index \in Tuner!Words
    BY <2>1a, <2>1b, <2>1c, <2>1d
  <2>3. /\ t_candidate'.frame.header = t_candidate.frame.header
        /\ t_candidate'.frame.words = copied
        /\ t_candidate'.generation = t_candidate.generation /\ t_candidate'.peak = t_candidate.peak
    BY <1>5, ValueFields DEF Tuner!ReadWord, TunerReader, Tuner!Value, Tuner!Frames
  <2>4. t_candidate' \in Tuner!Value
    <3>1. t_candidate' = [t_candidate EXCEPT !.frame = [t_candidate.frame EXCEPT !.words = copied]]
      BY <1>5 DEF Tuner!ReadWord
    <3>2. copied \in [Tuner!Words -> Content]
      BY <2>2 DEF TunerShared
    <3>3. [t_candidate.frame EXCEPT !.words = copied] \in Tuner!Frames
      <4> DEFINE f == [t_candidate.frame EXCEPT !.words = copied]
      <4>1. ASSUME NEW i \in Tuner!Words, i > used PROVE copied[i] = Zero
        <5>1. i # t_r_index
          BY <2>2, <4>1 DEF Tuner!Words
        <5>2. t_candidate.frame.words[i] = Zero
          BY <2>2, <4>1, ValueFields
        <5> QED
          BY <2>2, <5>1, <5>2
      <4> HIDE DEF copied
      <4>2. f.header = t_candidate.frame.header /\ f.words = copied
            /\ f \in [header : Tuner!Headers, words : [Tuner!Words -> Content]]
        BY <2>2, <3>2 DEF Tuner!Frames, copied
      <4> HIDE DEF f
      <4>3. f \in Tuner!Frames
        BY <4>1, <4>2 DEF Tuner!Frames
      <4> QED
        BY <4>3 DEF f
    <3> QED
      BY <3>1, <3>3 DEF TunerReader, Tuner!Value
  <2>5. TunerReader'
    <3>1. t_r_index' = t_r_index + 1 /\ t_r_index \in 1 .. Voices * WordsPerVoice
      BY <1>5, <2>2 DEF Tuner!ReadWord, Tuner!Words
    <3>2. t_r_index' \in 1 .. Voices * WordsPerVoice + 1
      BY <3>1, FrameFits
    <3>3. /\ t_r_stage' = "words" => t_r_index' <= Tuner!Used(t_candidate'.frame.header)
          /\ t_r_stage' = "after" => t_r_index' = Tuner!Used(t_candidate'.frame.header) + 1
      BY <1>5, <2>2, <2>3, <3>1 DEF Tuner!ReadWord
    <3> QED
      BY <1>5, <2>4, <3>2, <3>3 DEF Tuner!ReadWord, TunerReader
  <2>6. ASSUME t_sequence = t_r_before, NEW i \in Tuner!Words, i < t_r_index'
        PROVE  t_candidate'.frame.words[i] = t_words[i]
    <3>1. CASE i = t_r_index
      BY <2>2, <2>3, <3>1
    <3>2. CASE i # t_r_index
      <4>1. i < t_r_index
        BY <1>5, <2>2, <2>6, <3>2 DEF Tuner!ReadWord, Tuner!Words
      <4>2. t_candidate.frame.words[i] = t_words[i]
        BY <1>5, <2>6, <4>1 DEF Tuner!ReadWord, TunerCopied
      <4> QED
        BY <2>2, <2>3, <3>2, <4>2
    <3> QED
      BY <3>1, <3>2
  <2>7. TunerCopied'
    BY <1>5, <2>3, <2>6 DEF Tuner!ReadWord, TunerCopied
  <2>8. TunerNames'
    BY <1>5 DEF Tuner!ReadWord, TunerNames
  <2> QED
    BY <2>1, <2>5, <2>7, <2>8
<1>6. CASE Tuner!Accept
  <2>1. TunerShared' /\ TunerWriter' /\ TunerCounts' /\ TunerWritten'
    BY <1>6, TunerKept DEF Tuner!Accept
  <2>2. TunerReader' /\ TunerCopied'
    BY <1>6 DEF Tuner!Accept, TunerReader, TunerCopied
  <2>3. TunerNames'
    <3>1. t_snapshot' = t_published /\ t_published' = t_published /\ t_published.generation \in Nat
      BY <1>6, TunerAcceptsWhole, ValueFields DEF Tuner!Accept, TunerReader
    <3> QED
      BY <3>1 DEF TunerNames
  <2> QED
    BY <2>1, <2>2, <2>3
<1> QED
  BY <1>1, <1>2, <1>3, <1>4, <1>5, <1>6 DEF Tuner!Reader

LEMMA TunerInvStep ==
  ASSUME TunerInv, [Tuner!Next]_(Tuner!vars)
  PROVE  TunerInv'
<1>1. CASE UNCHANGED Tuner!vars
  BY <1>1 DEF TunerInv, Tuner!vars, Tuner!shared, Tuner!writer, Tuner!reader, TunerShared,
              TunerWriter, TunerReader, TunerReading, TunerCounts, TunerWritten, TunerCopied, TunerNames
<1> QED
  BY <1>1, TunerPublisherStep, TunerReaderStep DEF Tuner!Next

LEMMA TunerHolds == Spec => []TunerInv
<1>1. Init => TunerInv
  BY TunerInit DEF Init
<1>2. TunerInv /\ [Next]_vars => TunerInv'
  BY TunerSteps, TunerInvStep
<1> QED
  BY <1>1, <1>2, PTL DEF Spec

-----------------------------------------------------------------------------
LEMMA TunerStepIsAtomic ==
  ASSUME TunerInv, [Tuner!Next]_(Tuner!vars)
  PROVE  [Tuner!Ideal!Next]_(Tuner!Ideal!vars)
<1> USE DEF Tuner!Ideal!vars, Tuner!shared, Tuner!writer, Tuner!reader
<1>1. CASE Tuner!PublishFinish
  <2>1. t_published' \in Tuner!Value
    BY <1>1 DEF Tuner!PublishFinish, Tuner!Value, TunerInv, TunerShared, TunerWriter
  <2> QED
    BY <1>1, <2>1 DEF Tuner!PublishFinish, Tuner!Ideal!Next, Tuner!Ideal!Publish
<1>2. CASE Tuner!Publisher /\ ~Tuner!PublishFinish
  BY <1>2 DEF Tuner!Publisher, Tuner!PublishFrame, Tuner!PublishHeader, Tuner!PublishWord,
              Tuner!SamePeak, Tuner!PublishPeak, Tuner!StorePeak, Tuner!CountGeneration
<1>3. CASE Tuner!Accept
  BY <1>3, TunerAcceptsWhole DEF Tuner!Accept, Tuner!Ideal!Next, Tuner!Ideal!Read
<1>4. CASE Tuner!Reader /\ ~Tuner!Accept
  BY <1>4 DEF Tuner!Reader, Tuner!ReadStart, Tuner!GiveUp, Tuner!ReadBusy, Tuner!ReadBefore,
              Tuner!ReadHeader, Tuner!ReadGeneration, Tuner!ReadPeak, Tuner!ReadWord, Tuner!Reject
<1>5. CASE UNCHANGED Tuner!vars
  BY <1>5 DEF Tuner!vars
<1> QED
  BY <1>1, <1>2, <1>3, <1>4, <1>5 DEF Tuner!Next

\* Frames and peaks, which different calls publish under one sequence, reach the editor
\* together: what read_latest accepts is what the last finished publication left visible
\* (tuner_telemetry.cpp:168-202).
THEOREM TunerIsAtomic == Spec => FrameReadsAreWhole
<1>1. Init => Tuner!Ideal!Init
  BY DEF Init, Tuner!Init, Tuner!Ideal!Init
<1>2. TunerInv /\ [Next]_vars => [Tuner!Ideal!Next]_(Tuner!Ideal!vars)
  BY TunerSteps, TunerStepIsAtomic
<1> QED
  BY <1>1, <1>2, TunerHolds, PTL DEF Spec, FrameReadsAreWhole, Tuner!ReadsAreWhole,
         Tuner!Ideal!Spec

\* The editor that skips a generation it knows misses neither a frame nor a peak: each
\* finished publication has a generation of its own (m3_editor.cpp:1904).
THEOREM GenerationsNameFrames == Spec => GenerationNamesContent
<1>1. ASSUME TunerInv, [Next]_vars
      PROVE  t_snapshot # Tuner!Empty /\ t_snapshot'.generation = t_snapshot.generation
               => t_snapshot' = t_snapshot
  <2>1. CASE Tuner!Accept
    BY <1>1, <2>1, TunerAcceptsWhole DEF Tuner!Accept, TunerInv, TunerNames
  <2>2. CASE ~Tuner!Accept
    <3>1. UNCHANGED t_snapshot
      BY <1>1, <2>2, TunerSteps
      DEF Tuner!Next, Tuner!vars, Tuner!Publisher, Tuner!Reader, Tuner!PublishFrame,
             Tuner!PublishHeader,
          Tuner!PublishWord, Tuner!SamePeak, Tuner!PublishPeak, Tuner!StorePeak,
          Tuner!CountGeneration, Tuner!PublishFinish, Tuner!ReadStart, Tuner!GiveUp,
          Tuner!ReadBusy, Tuner!ReadBefore, Tuner!ReadHeader, Tuner!ReadGeneration,
          Tuner!ReadPeak, Tuner!ReadWord, Tuner!Reject
    <3> QED
      BY <3>1
  <2> QED
    BY <2>1, <2>2
<1> QED
  BY <1>1, TunerHolds, PTL DEF Spec, GenerationNamesContent, Tuner!GenerationNamesContent

HIDE TunerAssumption DEF Tuner!TelemetryAssumption

-----------------------------------------------------------------------------
(* The requested configuration *)

WriterStages == {"idle", "begin", "claim", "compare", "fields", "generation", "finish"}

\* A writer between its compare-exchange and the store that ends it.
Inside(t) == c_w_stage[t] \in {"compare", "fields", "generation", "finish"}

Visible == [config |-> c_fields, generation |-> c_generation]

RequestShared ==
  /\ c_sequence \in 0 .. 2 * MaxConfigs
  /\ c_fields \in [Request!Fields -> Content]
  /\ c_generation \in Request!Generations
  /\ c_taken \in 0 .. MaxRequests
  /\ c_published \in Request!Value

RequestWriters ==
  /\ c_w_stage \in [Writers -> WriterStages]
  /\ c_w_request \in [Writers -> Request!Value]
  /\ c_w_sequence \in [Writers -> 0 .. 2 * MaxConfigs]
  /\ c_w_index \in [Writers -> 1 .. NumFields + 1]

\* A writer starts at the first field, and claims an even sequence.
RequestCall(t) ==
  /\ c_w_stage[t] \in {"idle", "begin", "claim", "compare"} => c_w_index[t] = 1
  /\ c_w_stage[t] = "fields" => c_w_index[t] \in Request!Fields
  /\ c_w_stage[t] = "claim" \/ Inside(t) =>
       Request!Even(c_w_sequence[t]) /\ c_w_sequence[t] + 2 <= 2 * MaxConfigs

RequestReading == c_r_stage \in {"generation", "fields", "after"}

RequestReader ==
  /\ c_r_stage \in {"idle", "before", "generation", "fields", "after"}
  /\ c_r_attempt \in 0 .. RequestAttempts
  /\ RequestReading => c_r_attempt < RequestAttempts
  /\ c_r_before \in 0 .. 2 * MaxConfigs
  /\ c_r_index \in 1 .. NumFields + 1
  /\ c_r_stage = "fields" => c_r_index \in Request!Fields
  /\ c_candidate \in Request!Value
  /\ c_snapshot \in Request!Value \cup {Request!Empty}

\* What the one writer inside has stored so far, and the generation it replaces.
RequestHolder(t) ==
  Inside(t) =>
    /\ c_sequence = c_w_sequence[t] + 1
    /\ \A u \in Writers : Inside(u) => u = t
    /\ c_w_stage[t] = "compare" => c_published = Visible
    /\ c_w_stage[t] \in {"fields", "generation"} =>
         /\ c_published.generation = c_generation
         /\ Request!Newer(c_w_request[t].generation, c_generation)
    /\ c_w_stage[t] = "fields" =>
         \A i \in Request!Fields : i < c_w_index[t] => c_fields[i] = c_w_request[t].config[i]
    /\ c_w_stage[t] \in {"generation", "finish"} => c_fields = c_w_request[t].config
    /\ c_w_stage[t] = "finish" =>
         /\ c_generation = c_w_request[t].generation
         /\ Request!Newer(c_w_request[t].generation, c_published.generation)

RequestSettled == (\A t \in Writers : ~Inside(t)) => c_published = Visible

\* What a read has copied, unless a publication began meanwhile.
RequestCopied ==
  RequestReading =>
    /\ Request!Even(c_r_before) /\ c_r_before <= c_sequence
    /\ c_sequence = c_r_before =>
         /\ c_r_stage # "generation" => c_candidate.generation = c_generation
         /\ c_r_stage = "fields" =>
              \A i \in Request!Fields : i < c_r_index => c_candidate.config[i] = c_fields[i]
         /\ c_r_stage = "after" => c_candidate.config = c_fields

RequestCalls   == \A t \in Writers : RequestCall(t)
RequestHolders == \A t \in Writers : RequestHolder(t)

RequestInv ==
  /\ RequestShared /\ RequestWriters /\ RequestCalls /\ RequestReader
  /\ RequestHolders /\ RequestSettled /\ RequestCopied

-----------------------------------------------------------------------------
USE RequestAssumption DEF Request!RequestAssumption

LEMMA RequestParity ==
  /\ \A n \in Nat : Request!Even(n) <=> ~Request!Even(n + 1)
  /\ \A n \in Nat : Request!Even(n) <=> Request!Even(n + 2)
  BY DEF Request!Even

LEMMA FirstIsAValue == Request!First \in Request!Value
  BY DEF Request!First, Request!Value, Request!Fields, Request!Generations

LEMMA EmptyIsNoRequest == Request!Empty \notin Request!Value
<1>1. 1 \in Request!Fields
  BY DEF Request!Fields
<1>2. ASSUME NEW f \in [Request!Fields -> Content] PROVE f # <<>>
  BY <1>1
<1> QED
  BY <1>2 DEF Request!Empty, Request!Value

LEMMA RequestFields ==
  ASSUME NEW v \in Request!Value
  PROVE  /\ v.config \in [Request!Fields -> Content] /\ v.generation \in Request!Generations
         /\ v = [config |-> v.config, generation |-> v.generation]
  BY DEF Request!Value

\* With an even sequence no writer is inside.
LEMMA EvenIsFree ==
  ASSUME RequestInv, Request!Even(c_sequence), NEW t \in Writers
  PROVE  ~Inside(t)
<1> SUFFICES ASSUME Inside(t) PROVE FALSE
  OBVIOUS
<1>1. c_w_sequence[t] \in Nat
  BY DEF RequestInv, RequestWriters
<1>2. Request!Even(c_w_sequence[t]) /\ c_sequence = c_w_sequence[t] + 1
  BY DEF RequestInv, RequestCalls, RequestCall, RequestHolders, RequestHolder
<1> QED
  BY <1>1, <1>2, RequestParity

LEMMA RequestInit ==
  ASSUME Request!Init
  PROVE  RequestInv
<1> USE DEF Request!Init
<1>1. RequestShared
  BY FirstIsAValue DEF RequestShared, Request!Generations, Request!Fields
<1>2. RequestWriters
  BY FirstIsAValue DEF RequestWriters, WriterStages
<1>3. RequestReader
  BY FirstIsAValue DEF RequestReader, RequestReading
<1>4. \A t \in Writers : c_w_stage[t] = "idle" /\ c_w_index[t] = 1 /\ ~Inside(t)
  BY DEF Inside
<1>5. RequestCalls /\ RequestHolders
  BY <1>4 DEF RequestCalls, RequestCall, RequestHolders, RequestHolder
<1>6. RequestSettled /\ RequestCopied
  BY DEF RequestSettled, Visible, Request!First, RequestCopied, RequestReading
<1> QED
  BY <1>1, <1>2, <1>3, <1>5, <1>6 DEF RequestInv

\* Only the locals of t may change.
OthersStay(t) ==
  \A u \in Writers \ {t} :
    /\ c_w_stage'[u] = c_w_stage[u] /\ c_w_request'[u] = c_w_request[u]
    /\ c_w_sequence'[u] = c_w_sequence[u] /\ c_w_index'[u] = c_w_index[u]

\* A writer that is outside before and after a step, and touches no shared word.
LEMMA OutsideStep ==
  ASSUME RequestInv, NEW t \in Writers, ~Inside(t), ~Inside(t)', OthersStay(t),
         UNCHANGED <<c_sequence, c_fields, c_generation, Request!reader, c_snapshot, c_published>>,
         RequestCall(t)'
  PROVE  /\ RequestCalls' /\ RequestReader' /\ RequestHolders'
         /\ RequestSettled' /\ RequestCopied'
<1> USE DEF RequestInv, Request!reader
<1>1. \A u \in Writers : Inside(u)' <=> Inside(u)
  BY DEF OthersStay, Inside
<1>2. RequestCalls'
  BY DEF RequestCalls, RequestCall, OthersStay, Inside
<1>3. ASSUME NEW u \in Writers PROVE RequestHolder(u)'
  <2>1. CASE u = t
    BY <2>1 DEF RequestHolder
  <2>2. CASE u # t
    <3>1. RequestHolder(u)
      BY DEF RequestHolders
    <3>2. /\ c_w_stage'[u] = c_w_stage[u] /\ c_w_request'[u] = c_w_request[u]
          /\ c_w_sequence'[u] = c_w_sequence[u] /\ c_w_index'[u] = c_w_index[u]
      BY <2>2 DEF OthersStay
    <3> QED
      BY <1>1, <3>1, <3>2 DEF RequestHolder, Visible
  <2> QED
    BY <2>1, <2>2
<1>4. RequestSettled'
  BY <1>1 DEF RequestSettled, Visible
<1>5. RequestReader' /\ RequestCopied'
  BY DEF RequestReader, RequestReading, RequestCopied
<1> QED
  BY <1>2, <1>3, <1>4, <1>5 DEF RequestHolders

\* The writer inside stays inside: the sequence is odd, which no read accepts.
LEMMA InsideStep ==
  ASSUME RequestInv, NEW t \in Writers, Inside(t), Inside(t)', OthersStay(t),
         UNCHANGED <<c_sequence, Request!reader, c_snapshot, c_published>>,
         RequestCall(t)', c_w_sequence'[t] = c_w_sequence[t],
         (\A u \in Writers : Inside(u)' => u = t) => RequestHolder(t)'
  PROVE  /\ RequestCalls' /\ RequestReader' /\ RequestHolders'
         /\ RequestSettled' /\ RequestCopied'
<1> USE DEF RequestInv, Request!reader
<1>1. \A u \in Writers : Inside(u)' => u = t
  BY DEF RequestHolders, RequestHolder, OthersStay, Inside
<1>2. RequestCalls'
  BY DEF RequestCalls, RequestCall, OthersStay, Inside
<1>3. RequestHolders'
  BY <1>1 DEF RequestHolders, RequestHolder
<1>4. RequestSettled'
  BY DEF RequestSettled
<1>5. ~Request!Even(c_sequence)
  BY EvenIsFree
<1>6. RequestReader' /\ RequestCopied'
  BY <1>5 DEF RequestReader, RequestReading, RequestCopied
<1> QED
  BY <1>2, <1>3, <1>4, <1>6

\* The writer inside leaves: the sequence moves past every read that began before.
LEMMA LeaveStep ==
  ASSUME RequestInv, NEW t \in Writers, Inside(t), ~Inside(t)', OthersStay(t),
         c_sequence' = c_w_sequence[t] + 2, c_published' = Visible',
         UNCHANGED <<Request!reader, c_snapshot>>, RequestCall(t)'
  PROVE  /\ c_sequence' \in 0 .. 2 * MaxConfigs
         /\ RequestCalls' /\ RequestReader' /\ RequestHolders' /\ RequestSettled' /\ RequestCopied'
<1> USE DEF RequestInv, Request!reader
<1>1. \A u \in Writers : ~Inside(u)'
  BY DEF RequestHolders, RequestHolder, OthersStay, Inside
<1>2. RequestCalls'
  BY DEF RequestCalls, RequestCall, OthersStay, Inside
<1>3. RequestHolders' /\ RequestSettled'
  BY <1>1 DEF RequestHolders, RequestHolder, RequestSettled
<1>4. /\ c_w_sequence[t] \in Nat /\ c_w_sequence[t] + 2 <= 2 * MaxConfigs
      /\ c_sequence = c_w_sequence[t] + 1
  BY DEF RequestWriters, RequestCalls, RequestCall, RequestHolders, RequestHolder
<1>5. c_sequence' \in 0 .. 2 * MaxConfigs /\ c_sequence < c_sequence' /\ c_sequence \in Nat
  BY <1>4
<1>6. RequestReader'
  BY DEF RequestReader, RequestReading
<1>7. RequestCopied'
  <2>1. RequestReading => c_r_before < c_sequence'
    BY <1>5 DEF RequestCopied, RequestReader
  <2> QED
    BY <1>5, <2>1 DEF RequestCopied, RequestReading, RequestReader
<1> QED
  BY <1>2, <1>3, <1>5, <1>6, <1>7

LEMMA ReturnTypes ==
  ASSUME RequestWriters, NEW t \in Writers, Request!Return(t)
  PROVE  /\ RequestWriters' /\ OthersStay(t) /\ ~Inside(t)' /\ RequestCall(t)'
<1>1. RequestWriters' /\ OthersStay(t)
  BY FirstIsAValue DEF RequestWriters, Request!Return, OthersStay, WriterStages
<1>2. c_w_stage'[t] = "idle" /\ c_w_index'[t] = 1
  BY DEF RequestWriters, Request!Return
<1> QED
  BY <1>1, <1>2 DEF Inside, RequestCall

LEMMA RequestPublishStep ==
  ASSUME RequestInv, NEW t \in Writers, Request!Publish(t)
  PROVE  RequestInv'
<1> USE DEF RequestInv
<1>0. /\ c_w_request[t] \in Request!Value /\ c_w_sequence[t] \in 0 .. 2 * MaxConfigs
      /\ c_w_index[t] \in 1 .. NumFields + 1
      /\ c_w_request[t].config \in [Request!Fields -> Content]
      /\ c_w_request[t].generation \in Request!Generations
  BY RequestFields DEF RequestWriters
<1>c. RequestCall(t) /\ RequestHolder(t)
  BY DEF RequestCalls, RequestHolders
<1>1. CASE Request!NextGeneration(t)
  <2>1. PICK c \in [Request!Fields -> Content] :
          c_w_request' = [c_w_request EXCEPT ![t] =
            [config |-> c, generation |-> (FirstGeneration + c_taken') % GenerationRange]]
    BY <1>1 DEF Request!NextGeneration
  <2>2. c_taken \in Nat /\ c_taken' = c_taken + 1 /\ c_taken < MaxRequests
    BY <1>1 DEF Request!NextGeneration, RequestShared
  <2>3. (FirstGeneration + c_taken') % GenerationRange \in Request!Generations
    BY <2>2 DEF Request!Generations
  <2>4. [config |-> c, generation |-> (FirstGeneration + c_taken') % GenerationRange]
          \in Request!Value
    BY <2>3 DEF Request!Value
  <2>5. RequestWriters' /\ RequestShared'
    BY <1>1, <2>1, <2>2, <2>4
    DEF Request!NextGeneration, RequestWriters, RequestShared, WriterStages
  <2>6. /\ OthersStay(t) /\ c_w_stage'[t] = "begin" /\ c_w_stage[t] = "idle"
        /\ c_w_index'[t] = c_w_index[t]
    BY <1>1 DEF Request!NextGeneration, OthersStay, RequestWriters
  <2>7. ~Inside(t) /\ ~Inside(t)' /\ RequestCall(t)'
    BY <1>c, <2>6 DEF Inside, RequestCall
  <2> QED
    BY <1>1, <2>5, <2>6, <2>7, OutsideStep DEF Request!NextGeneration
<1>2. CASE Request!Begin(t)
  <2>1. RequestWriters' /\ RequestShared' /\ OthersStay(t)
    BY <1>2 DEF Request!Begin, Request!shared, RequestWriters, RequestShared, WriterStages,
           OthersStay
  <2>2. /\ c_w_stage[t] = "begin" /\ c_w_stage'[t] = "claim" /\ c_w_index'[t] = c_w_index[t]
        /\ c_w_sequence'[t] = c_sequence /\ Request!Even(c_sequence)
        /\ c_sequence + 2 <= 2 * MaxConfigs
    BY <1>2 DEF Request!Begin, RequestWriters
  <2>3. ~Inside(t) /\ ~Inside(t)' /\ RequestCall(t)'
    BY <1>c, <2>2 DEF Inside, RequestCall
  <2> QED
    BY <1>2, <2>1, <2>3, OutsideStep DEF Request!Begin, Request!shared
<1>3. CASE Request!Claim(t)
  <2>1. /\ c_w_stage[t] = "claim" /\ c_w_stage'[t] = "compare" /\ c_w_index'[t] = 1
        /\ c_w_sequence'[t] = c_sequence /\ c_sequence = c_w_sequence[t]
        /\ c_sequence' = c_sequence + 1 /\ Request!Even(c_sequence)
        /\ c_sequence + 2 <= 2 * MaxConfigs
    BY <1>3, <1>c DEF Request!Claim, RequestWriters, RequestCall
  <2>2. RequestWriters' /\ OthersStay(t)
    BY <1>3 DEF Request!Claim, RequestWriters, WriterStages, OthersStay
  <2>3. RequestShared' /\ c_sequence \in Nat
    BY <1>3, <2>1 DEF Request!Claim, RequestShared
  <2>4. \A u \in Writers : ~Inside(u)
    BY <2>1, EvenIsFree
  <2>5. \A u \in Writers : Inside(u)' => u = t
    BY <2>2, <2>4 DEF OthersStay, Inside
  <2>6. RequestCalls'
    BY <2>1, <2>2 DEF RequestCalls, RequestCall, OthersStay, Inside
  <2>7. c_published' = Visible'
    BY <1>3, <2>4 DEF Request!Claim, RequestSettled, Visible
  <2>8. RequestHolders' /\ RequestSettled'
    BY <2>1, <2>5, <2>7 DEF RequestHolders, RequestHolder, RequestSettled
  <2>9. RequestReader'
    BY <1>3 DEF Request!Claim, Request!reader, RequestReader, RequestReading
  <2>10. RequestCopied'
    <3>1. RequestReading => c_r_before < c_sequence'
      BY <2>1, <2>3 DEF RequestCopied, RequestReader
    <3> QED
      BY <1>3, <2>1, <2>3, <3>1 DEF Request!Claim, Request!reader, RequestCopied,
             RequestReading, RequestReader
  <2> QED
    BY <2>2, <2>3, <2>6, <2>8, <2>9, <2>10
<1>4. CASE Request!ClaimFails(t)
  <2>1. RequestWriters' /\ OthersStay(t) /\ ~Inside(t)' /\ RequestCall(t)'
    BY <1>4, ReturnTypes DEF Request!ClaimFails
  <2>2. ~Inside(t)
    BY <1>4 DEF Request!ClaimFails, Inside
  <2>3. RequestShared'
    BY <1>4 DEF Request!ClaimFails, Request!shared, RequestShared
  <2> QED
    BY <1>4, <2>1, <2>2, <2>3, OutsideStep DEF Request!ClaimFails, Request!shared
<1>5. CASE Request!Compare(t)
  <2>1. /\ c_w_stage[t] = "compare" /\ c_w_stage'[t] = "fields"
        /\ c_w_index'[t] = 1 /\ c_w_sequence'[t] = c_w_sequence[t]
        /\ c_w_request'[t] = c_w_request[t]
    BY <1>5, <1>c DEF Request!Compare, RequestWriters, RequestCall
  <2>2. RequestWriters' /\ RequestShared' /\ OthersStay(t)
    BY <1>5 DEF Request!Compare, Request!shared, RequestWriters, RequestShared, WriterStages,
           OthersStay
  <2>3. Inside(t) /\ Inside(t)'
    BY <2>1 DEF Inside
  <2>4. RequestCall(t)'
    BY <1>c, <2>1, <2>3 DEF RequestCall, Request!Fields
  <2>5. (\A u \in Writers : Inside(u)' => u = t) => RequestHolder(t)'
    BY <1>5, <1>c, <2>1, <2>3 DEF Request!Compare, Request!shared, RequestHolder, Visible,
           Request!Fields
  <2> QED
    BY <1>5, <2>1, <2>2, <2>3, <2>4, <2>5, InsideStep DEF Request!Compare, Request!shared
<1>6. CASE Request!Refuse(t)
  <2>1. RequestWriters' /\ OthersStay(t) /\ ~Inside(t)' /\ RequestCall(t)'
    BY <1>6, ReturnTypes DEF Request!Refuse
  <2>2. Inside(t) /\ c_published = Visible
    BY <1>6, <1>c DEF Request!Refuse, Inside, RequestHolder
  <2>3. c_published' = Visible'
    BY <1>6, <2>2 DEF Request!Refuse, Visible
  <2>4. /\ c_sequence' \in 0 .. 2 * MaxConfigs
        /\ RequestCalls' /\ RequestReader' /\ RequestHolders' /\ RequestSettled' /\ RequestCopied'
    BY <1>6, <2>1, <2>2, <2>3, LeaveStep DEF Request!Refuse
  <2>5. RequestShared'
    BY <1>6, <2>4 DEF Request!Refuse, RequestShared
  <2> QED
    BY <2>1, <2>4, <2>5
<1>7. CASE Request!StoreField(t)
  <2>1. /\ c_w_stage[t] = "fields" /\ c_w_index[t] \in Request!Fields
        /\ c_w_stage'[t] = IF c_w_index[t] = NumFields THEN "generation" ELSE "fields"
        /\ c_w_index'[t] = c_w_index[t] + 1 /\ c_w_sequence'[t] = c_w_sequence[t]
        /\ c_w_request'[t] = c_w_request[t]
    BY <1>7, <1>c DEF Request!StoreField, RequestWriters, RequestCall
  <2>2. c_fields' \in [Request!Fields -> Content]
    BY <1>7, <1>0, <2>1 DEF Request!StoreField, RequestShared
  <2>3. RequestShared' /\ OthersStay(t)
    BY <1>7, <2>2 DEF Request!StoreField, RequestShared, OthersStay
  <2>4. RequestWriters'
    <3>1. c_w_index[t] + 1 \in 1 .. NumFields + 1
      BY <2>1 DEF Request!Fields
    <3> QED
      BY <1>7, <3>1 DEF Request!StoreField, RequestWriters, WriterStages
  <2>5. Inside(t) /\ Inside(t)'
    BY <2>1 DEF Inside
  <2>6. RequestCall(t)'
    BY <1>c, <2>1, <2>5 DEF RequestCall, Request!Fields
  <2>7. ASSUME NEW i \in Request!Fields, i < c_w_index'[t]
        PROVE  c_fields'[i] = c_w_request[t].config[i]
    <3>1. CASE i = c_w_index[t]
      BY <1>7, <3>1 DEF Request!StoreField, RequestShared
    <3>2. CASE i # c_w_index[t]
      <4>1. i < c_w_index[t]
        BY <2>1, <2>7, <3>2 DEF Request!Fields
      <4> QED
        BY <1>7, <1>c, <2>1, <2>5, <3>2, <4>1 DEF Request!StoreField, RequestShared,
               RequestHolder
    <3> QED
      BY <3>1, <3>2
  <2>8. c_w_index[t] = NumFields => c_fields' = c_w_request[t].config
    <3> SUFFICES ASSUME c_w_index[t] = NumFields PROVE c_fields' = c_w_request[t].config
      OBVIOUS
    <3>1. \A i \in Request!Fields : i < c_w_index'[t]
      BY <2>1 DEF Request!Fields
    <3>2. \A i \in Request!Fields : c_fields'[i] = c_w_request[t].config[i]
      BY <2>7, <3>1
    <3> QED
      BY <1>0, <2>2, <3>2
  <2>9. (\A u \in Writers : Inside(u)' => u = t) => RequestHolder(t)'
    <3> SUFFICES ASSUME \A u \in Writers : Inside(u)' => u = t
                 PROVE  RequestHolder(t)'
      OBVIOUS
    <3>1. /\ UNCHANGED <<c_sequence, c_generation, c_published>>
          /\ c_sequence = c_w_sequence[t] + 1 /\ c_published.generation = c_generation
          /\ Request!Newer(c_w_request[t].generation, c_generation)
      BY <1>7, <1>c, <2>1, <2>5 DEF Request!StoreField, RequestHolder
    <3> QED
      BY <2>1, <2>7, <2>8, <3>1 DEF RequestHolder
  <2> QED
    BY <1>7, <2>1, <2>3, <2>4, <2>5, <2>6, <2>9, InsideStep DEF Request!StoreField
<1>8. CASE Request!StoreGeneration(t)
  <2>1. /\ c_w_stage[t] = "generation" /\ c_w_stage'[t] = "finish"
        /\ c_w_index'[t] = c_w_index[t] /\ c_w_sequence'[t] = c_w_sequence[t]
        /\ c_w_request'[t] = c_w_request[t]
    BY <1>8 DEF Request!StoreGeneration, RequestWriters
  <2>2. RequestWriters' /\ RequestShared' /\ OthersStay(t)
    BY <1>8, <1>0 DEF Request!StoreGeneration, RequestWriters, RequestShared, WriterStages,
           OthersStay
  <2>3. Inside(t) /\ Inside(t)'
    BY <2>1 DEF Inside
  <2>4. RequestCall(t)'
    BY <1>c, <2>1, <2>3 DEF RequestCall
  <2>5. (\A u \in Writers : Inside(u)' => u = t) => RequestHolder(t)'
    BY <1>8, <1>c, <2>1, <2>3 DEF Request!StoreGeneration, RequestHolder
  <2> QED
    BY <1>8, <2>1, <2>2, <2>3, <2>4, <2>5, InsideStep DEF Request!StoreGeneration
<1>9. CASE Request!Finish(t)
  <2>1. RequestWriters' /\ OthersStay(t) /\ ~Inside(t)' /\ RequestCall(t)'
    BY <1>9, ReturnTypes DEF Request!Finish
  <2>2. /\ Inside(t) /\ c_fields = c_w_request[t].config
        /\ c_generation = c_w_request[t].generation
    BY <1>9, <1>c DEF Request!Finish, Inside, RequestHolder
  <2>3. c_published' = Visible'
    BY <1>9, <1>0, <2>2, RequestFields DEF Request!Finish, Visible
  <2>4. /\ c_sequence' \in 0 .. 2 * MaxConfigs
        /\ RequestCalls' /\ RequestReader' /\ RequestHolders' /\ RequestSettled' /\ RequestCopied'
    BY <1>9, <2>1, <2>2, <2>3, LeaveStep DEF Request!Finish
  <2>5. RequestShared'
    BY <1>9, <1>0, <2>4 DEF Request!Finish, RequestShared
  <2> QED
    BY <2>1, <2>4, <2>5
<1> QED
  BY <1>1, <1>2, <1>3, <1>4, <1>5, <1>6, <1>7, <1>8, <1>9 DEF Request!Publish

LEMMA RequestResetStep ==
  ASSUME RequestInv, Request!Reset
  PROVE  RequestInv'
<1> USE DEF RequestInv, Request!Reset, Request!writer, Request!reader
<1>1. \A t \in Writers : c_w_stage[t] = "idle" /\ ~Inside(t) /\ ~Inside(t)'
  BY DEF Inside
<1>2. RequestShared'
  BY FirstIsAValue DEF RequestShared, Request!Generations, Request!Fields
<1>3. RequestWriters' /\ RequestCalls'
  BY <1>1 DEF RequestWriters, RequestCalls, RequestCall
<1>4. RequestHolders' /\ RequestSettled'
  BY <1>1 DEF RequestHolders, RequestHolder, RequestSettled, Visible, Request!First
<1>5. RequestReader' /\ RequestCopied'
  BY DEF RequestReader, RequestReading, RequestCopied
<1> QED
  BY <1>2, <1>3, <1>4, <1>5

\* An accepted copy is what the last finished publication made visible.
LEMMA RequestAcceptsWhole ==
  ASSUME RequestInv, Request!Accept
  PROVE  c_candidate = c_published /\ c_published # Request!Empty
<1> USE DEF RequestInv
<1>1. c_sequence = c_r_before /\ Request!Even(c_sequence) /\ RequestReading /\ c_r_stage = "after"
  BY DEF Request!Accept, Request!Unmoved, RequestReading
<1>2. c_published = Visible
  BY <1>1, EvenIsFree DEF RequestSettled
<1>3. c_candidate.config = c_fields /\ c_candidate.generation = c_generation
  BY <1>1 DEF RequestCopied
<1>4. c_candidate \in Request!Value
  BY DEF RequestReader
<1> QED
  BY <1>2, <1>3, <1>4, RequestFields, EmptyIsNoRequest DEF Visible

RequestReaderActions ==
  \/ Request!ReadStart \/ Request!GiveUp \/ Request!ReadBusy \/ Request!ReadBefore
  \/ Request!ReadGeneration \/ Request!ReadField \/ Request!Accept \/ Request!Reject

LEMMA RequestReaderStep ==
  ASSUME RequestInv, RequestReaderActions
  PROVE  RequestInv'
<1> USE DEF RequestInv, RequestReading
<1>1. UNCHANGED <<Request!shared, Request!writer, c_published>>
  BY DEF RequestReaderActions, Request!ReadStart, Request!GiveUp, Request!ReadBusy,
         Request!ReadBefore, Request!ReadGeneration, Request!ReadField, Request!Accept,
         Request!Reject
<1>2. RequestShared' /\ RequestWriters'
  BY <1>1 DEF Request!shared, Request!writer, RequestShared, RequestWriters
<1>3. RequestCalls' /\ RequestHolders' /\ RequestSettled'
  BY <1>1 DEF Request!shared, Request!writer, RequestCalls, RequestCall, RequestHolders,
              RequestHolder, RequestSettled, Inside, Visible
<1>4. CASE Request!ReadStart \/ Request!GiveUp \/ Request!ReadBusy \/ Request!ReadBefore
           \/ Request!Reject
  <2>1. RequestReader'
    BY <1>4 DEF Request!ReadStart, Request!GiveUp, Request!ReadBusy, Request!ReadBefore,
                Request!Reject, RequestReader, RequestShared
  <2>2. RequestCopied'
    BY <1>1, <1>4 DEF Request!shared, Request!ReadStart, Request!GiveUp, Request!ReadBusy,
                Request!ReadBefore, Request!Reject, RequestShared, RequestCopied
  <2> QED
    BY <1>2, <1>3, <2>1, <2>2
<1>5. CASE Request!ReadGeneration
  <2>1. c_candidate' \in Request!Value /\ c_candidate'.generation = c_generation
    BY <1>5 DEF Request!ReadGeneration, Request!Value, RequestReader, RequestShared
  <2>2. RequestReader'
    BY <1>5, <2>1 DEF Request!ReadGeneration, RequestReader, Request!Fields
  <2>3. RequestCopied'
    BY <1>1, <1>5, <2>1 DEF Request!shared, Request!ReadGeneration, RequestCopied,
           Request!Fields
  <2> QED
    BY <1>2, <1>3, <2>2, <2>3
<1>6. CASE Request!ReadField
  <2>1. /\ c_candidate.config \in [Request!Fields -> Content] /\ c_r_index \in Request!Fields
        /\ c_r_index' = c_r_index + 1
        /\ c_r_stage' = IF c_r_index = NumFields THEN "after" ELSE "fields"
    BY <1>6, RequestFields DEF Request!ReadField, RequestReader
  <2>2. /\ c_candidate' \in Request!Value /\ c_candidate'.generation = c_candidate.generation
        /\ c_candidate'.config = [c_candidate.config EXCEPT ![c_r_index] = c_fields[c_r_index]]
    BY <1>6, <2>1 DEF Request!ReadField, Request!Value, RequestReader, RequestShared
  <2>3. RequestReader'
    BY <1>6, <2>1, <2>2 DEF Request!ReadField, RequestReader, Request!Fields
  <2>4. ASSUME c_sequence = c_r_before, NEW i \in Request!Fields, i < c_r_index'
        PROVE  c_candidate'.config[i] = c_fields[i]
    <3>1. CASE i = c_r_index
      BY <2>1, <2>2, <3>1
    <3>2. CASE i # c_r_index
      <4>1. i < c_r_index
        BY <2>1, <2>4, <3>2 DEF Request!Fields
      <4>2. c_candidate.config[i] = c_fields[i]
        BY <1>6, <2>4, <4>1 DEF Request!ReadField, RequestCopied
      <4> QED
        BY <2>1, <2>2, <3>2, <4>2
    <3> QED
      BY <3>1, <3>2
  <2>5. ASSUME c_sequence = c_r_before, c_r_index = NumFields
        PROVE  c_candidate'.config = c_fields
    <3>1. \A i \in Request!Fields : i < c_r_index'
      BY <2>1, <2>5 DEF Request!Fields
    <3>2. \A i \in Request!Fields : c_candidate'.config[i] = c_fields[i]
      BY <2>4, <2>5, <3>1
    <3>3. /\ c_candidate'.config \in [Request!Fields -> Content]
          /\ c_fields \in [Request!Fields -> Content]
      BY <2>1, <2>2 DEF RequestShared
    <3> QED
      BY <3>2, <3>3
  <2>6. RequestCopied'
    BY <1>1, <1>6, <2>1, <2>2, <2>4, <2>5 DEF Request!shared, Request!ReadField, RequestCopied
  <2> QED
    BY <1>2, <1>3, <2>3, <2>6
<1>7. CASE Request!Accept
  <2>1. RequestReader' /\ RequestCopied'
    BY <1>7 DEF Request!Accept, RequestReader, RequestCopied
  <2> QED
    BY <1>2, <1>3, <2>1
<1> QED
  BY <1>4, <1>5, <1>6, <1>7 DEF RequestReaderActions

LEMMA RequestInvStep ==
  ASSUME RequestInv, [Request!Next]_(Request!vars)
  PROVE  RequestInv'
<1>1. CASE UNCHANGED Request!vars
  <2> USE <1>1 DEF RequestInv, Request!vars, Request!shared, Request!writer, Request!reader
  <2>1. RequestShared' /\ RequestWriters' /\ RequestReader' /\ RequestCopied'
    BY DEF RequestShared, RequestWriters, RequestReader, RequestReading, RequestCopied
  <2>2. RequestCalls' /\ RequestHolders' /\ RequestSettled'
    BY DEF RequestCalls, RequestCall, RequestHolders, RequestHolder, RequestSettled, Inside,
           Visible
  <2> QED
    BY <2>1, <2>2
<1> QED
  BY <1>1, RequestPublishStep, RequestResetStep, RequestReaderStep
  DEF Request!Next, RequestReaderActions

LEMMA RequestHolds == Spec => []RequestInv
<1>1. Init => RequestInv
  BY RequestInit DEF Init
<1>2. RequestInv /\ [Next]_vars => RequestInv'
  BY RequestSteps, RequestInvStep
<1> QED
  BY <1>1, <1>2, PTL DEF Spec

-----------------------------------------------------------------------------
LEMMA RequestStepIsAtomic ==
  ASSUME RequestInv, [Request!Next]_(Request!vars)
  PROVE  [Request!Ideal!Next]_(Request!Ideal!vars)
<1> USE DEF Request!Ideal!vars
<1>1. ASSUME NEW t \in Writers, Request!Finish(t)
      PROVE  Request!Ideal!Next
  <2>1. c_published' \in Request!Value /\ UNCHANGED c_snapshot
    BY <1>1 DEF Request!Finish, RequestInv, RequestWriters
  <2> QED
    BY <2>1 DEF Request!Ideal!Next, Request!Ideal!Publish
<1>2. ASSUME NEW t \in Writers, Request!Publish(t), ~Request!Finish(t)
      PROVE  UNCHANGED Request!Ideal!vars
  BY <1>2 DEF Request!Publish, Request!NextGeneration, Request!Begin, Request!Claim,
              Request!ClaimFails, Request!Compare, Request!Refuse, Request!StoreField,
              Request!StoreGeneration
<1>3. CASE Request!Reset
  <2>1. c_published' \in Request!Value /\ UNCHANGED c_snapshot
    BY <1>3, FirstIsAValue DEF Request!Reset
  <2> QED
    BY <2>1 DEF Request!Ideal!Next, Request!Ideal!Publish
<1>4. CASE Request!Accept
  BY <1>4, RequestAcceptsWhole DEF Request!Accept, Request!Ideal!Next, Request!Ideal!Read
<1>5. CASE RequestReaderActions /\ ~Request!Accept
  BY <1>5 DEF RequestReaderActions, Request!ReadStart, Request!GiveUp, Request!ReadBusy,
              Request!ReadBefore, Request!ReadGeneration, Request!ReadField, Request!Reject
<1>6. CASE UNCHANGED Request!vars
  BY <1>6 DEF Request!vars
<1> QED
  BY <1>1, <1>2, <1>3, <1>4, <1>5, <1>6 DEF Request!Next, RequestReaderActions

\* Whichever of the two threads publish, what snapshot() accepts is one writer's request
\* as a whole, and the last that was published
\* (prepared_config_exchange.cpp:136-186).
THEOREM RequestIsAtomic == Spec => RequestReadsAreWhole
<1>1. Init => Request!Ideal!Init
  BY FirstIsAValue DEF Init, Request!Init, Request!Ideal!Init
<1>2. RequestInv /\ [Next]_vars => [Request!Ideal!Next]_(Request!Ideal!vars)
  BY RequestSteps, RequestStepIsAtomic
<1> QED
  BY <1>1, <1>2, RequestHolds, PTL
     DEF Spec, RequestReadsAreWhole, Request!ReadsAreWhole, Request!Ideal!Spec

\* A publication that succeeds moves the visible generation forward: a writer that was
\* overtaken between its load and its compare-exchange is refused
\* (prepared_config_exchange.cpp:136-155).
THEOREM GenerationsOnlyAdvance == Spec => GenerationsAdvance
<1>1. ASSUME RequestInv, [Next]_vars, NEW t \in Writers,
             c_w_stage[t] = "finish", c_w_stage'[t] = "idle"
      PROVE  Request!Newer(c_published'.generation, c_published.generation)
  <2>1. [Request!Next]_(Request!vars) /\ c_w_stage \in [Writers -> WriterStages]
    BY <1>1, RequestSteps DEF RequestInv, RequestWriters
  <2>2. ASSUME NEW u \in Writers, Request!Publish(u) PROVE Request!Finish(t)
    BY <1>1, <2>1, <2>2
    DEF Request!Publish, Request!NextGeneration, Request!Begin, Request!Claim,
        Request!ClaimFails, Request!Compare, Request!Refuse, Request!StoreField,
        Request!StoreGeneration, Request!Finish, Request!Return
  <2>3. c_w_stage' # c_w_stage
    BY <1>1
  <2>4. ~RequestReaderActions /\ ~Request!Reset /\ ~UNCHANGED Request!vars
    BY <2>3 DEF RequestReaderActions, Request!ReadStart, Request!GiveUp, Request!ReadBusy,
                Request!ReadBefore, Request!ReadGeneration, Request!ReadField, Request!Accept,
                Request!Reject, Request!Reset, Request!vars, Request!writer
  <2>5. Request!Finish(t)
    BY <2>1, <2>2, <2>4 DEF Request!Next, RequestReaderActions
  <2>6. RequestHolder(t)
    BY <1>1 DEF RequestInv, RequestHolders
  <2> QED
    BY <1>1, <2>5, <2>6 DEF Request!Finish, RequestHolder, Inside
<1>2. RequestInv /\ [Next]_vars =>
        [(\E t \in Writers : c_w_stage[t] = "finish" /\ c_w_stage'[t] = "idle")
           => Request!Newer(c_published'.generation, c_published.generation)]_(Request!vars)
  BY <1>1
<1> QED
  BY <1>2, RequestHolds, PTL DEF Spec, GenerationsAdvance, Request!GenerationsAdvance

HIDE RequestAssumption DEF Request!RequestAssumption

-----------------------------------------------------------------------------
\* The words and the locals of the seven calls keep to their types: no sequence passes
\* its bound, no index its array, and no read makes more attempts than it is given
\* (calibration_bank_transport.cpp:68, tuner_telemetry.cpp:169,
\* prepared_config_exchange.cpp:170).
THEOREM SeqlockTypes == Spec => []TypeOK
<1>1. BankInv => Bank!TypeOK
  BY DEF BankInv, BankShared, BankWriter, BankReader, Bank!TypeOK
<1>2. TunerInv => Tuner!TypeOK
  BY DEF TunerInv, TunerShared, TunerWriter, TunerReader, Tuner!TypeOK
<1>3. RequestInv => Request!TypeOK
  BY DEF RequestInv, RequestShared, RequestWriters, RequestReader, WriterStages, Request!TypeOK
<1>4. BankInv /\ TunerInv /\ RequestInv => TypeOK
  BY <1>1, <1>2, <1>3 DEF TypeOK
<1> QED
  BY <1>4, BankHolds, TunerHolds, RequestHolds, PTL
-----------------------------------------------------------------------------
(* What a read still has to do: for each attempt to come the two looks at    *)
(* the sequence, the words and what comes with them.                         *)

Share(attempts, steps, attempt) == (attempts - attempt) * steps

LEMMA Shares ==
  ASSUME NEW n \in Nat, NEW k \in Nat, NEW a \in 0 .. n
  PROVE  /\ Share(n, k, a) \in 0 .. n * k
         /\ a < n => /\ Share(n, k, a) >= k
                     /\ a + 1 \in 0 .. n
                     /\ Share(n, k, a + 1) = Share(n, k, a) - k
<1>1. PICK d \in Nat : d = n - a
  OBVIOUS
<1>2. d * k \in Nat /\ a * k \in Nat /\ n * k \in Nat /\ d * k + a * k = n * k
  <2>1. n = d + a
    BY <1>1
  <2>2. (d + a) * k = d * k + a * k
    OBVIOUS
  <2> QED
    BY <2>1, <2>2
<1>3. Share(n, k, a) = d * k
  BY <1>1 DEF Share
<1>4. Share(n, k, a) \in 0 .. n * k
  <2>1. PICK x \in Nat, y \in Nat : x = d * k /\ y = a * k
    BY <1>2
  <2> QED
    BY <1>2, <1>3, <2>1
<1>5. ASSUME a < n
      PROVE  Share(n, k, a) >= k /\ a + 1 \in 0 .. n /\ Share(n, k, a + 1) = Share(n, k, a) - k
  <2>1. PICK e \in Nat : d = e + 1 /\ e = n - (a + 1)
    BY <1>1, <1>5
  <2>2. (e + 1) * k = e * k + k /\ e * k \in Nat
    OBVIOUS
  <2>3. Share(n, k, a + 1) = e * k
    BY <2>1 DEF Share
  <2> QED
    BY <1>3, <1>5, <2>1, <2>2, <2>3
<1> QED
  BY <1>4, <1>5

BankShare  == Share(ReadAttempts, BankWords + 3, b_r_attempt)
BankLeft ==
  CASE b_r_stage = "idle"       -> 0
    [] b_r_stage = "before"     -> BankShare + 1
    [] b_r_stage = "generation" -> BankShare
    [] b_r_stage = "words"      -> BankShare - b_r_index
    [] b_r_stage = "after"      -> BankShare - (BankWords + 1)

TunerWords == Voices * WordsPerVoice
TunerShare == Share(ReadAttempts, TunerWords + 5, t_r_attempt)
TunerLeft ==
  CASE t_r_stage = "idle"       -> 0
    [] t_r_stage = "before"     -> TunerShare + 1
    [] t_r_stage = "header"     -> TunerShare
    [] t_r_stage = "generation" -> TunerShare - 1
    [] t_r_stage = "peak"       -> TunerShare - 2
    [] t_r_stage = "words"      -> TunerShare - (2 + t_r_index)
    [] t_r_stage = "after"      -> TunerShare - (TunerWords + 3)
TunerReadOn == Tuner!Reader /\ ~Tuner!ReadStart

RequestShare == Share(RequestAttempts, NumFields + 3, c_r_attempt)
RequestLeft ==
  CASE c_r_stage = "idle"       -> 0
    [] c_r_stage = "before"     -> RequestShare + 1
    [] c_r_stage = "generation" -> RequestShare
    [] c_r_stage = "fields"     -> RequestShare - c_r_index
    [] c_r_stage = "after"      -> RequestShare - (NumFields + 1)
RequestReadOn == RequestReaderActions /\ ~Request!ReadStart

BankEnd == /\ Bank!ReadOn => BankLeft' < BankLeft
           /\ Bank!Publisher => UNCHANGED BankLeft
TunerEnd == /\ TunerReadOn => TunerLeft' < TunerLeft
            /\ Tuner!Publisher => UNCHANGED TunerLeft
RequestEnd == /\ RequestReadOn => RequestLeft' < RequestLeft
              /\ (\E t \in Writers : Request!Publish(t)) => UNCHANGED RequestLeft

LEMMA BankReadsEnd == ASSUME BankInv, [Bank!Next]_(Bank!vars) PROVE BankEnd
<1> USE BankAssumption DEF Bank!TransportAssumption
<1>1. ASSUME UNCHANGED <<b_r_stage, b_r_attempt, b_r_index>> PROVE UNCHANGED BankLeft
  BY <1>1 DEF BankLeft, BankShare, Share
<1>2. Bank!Publisher => UNCHANGED BankLeft
  BY <1>1 DEF Bank!Publisher, Bank!PublishBegin, Bank!PublishWord, Bank!PublishGeneration,
         Bank!PublishFinish, Bank!reader
<1>3. PICK w \in Nat, s \in Nat : w = BankWords /\ s = BankShare
  BY Shares DEF BankShare, BankInv, BankReader
<1>4. b_r_attempt \in 0 .. ReadAttempts /\ b_r_index \in 1 .. w + 1
  BY <1>3 DEF BankInv, BankReader
<1>5. UNCHANGED b_r_attempt => BankShare' = s
  BY <1>3 DEF BankShare, Share
<1>6. b_r_attempt < ReadAttempts =>
        s >= w + 3 /\ (b_r_attempt' = b_r_attempt + 1 => BankShare' = s - (w + 3))
  BY <1>3, <1>4, Shares DEF BankShare
<1>7. ASSUME Bank!ReadOn PROVE BankLeft' < BankLeft
  <2>1. CASE Bank!GiveUp
    <3>1. BankLeft = s + 1 /\ BankLeft' = 0
      BY <1>3, <2>1 DEF Bank!GiveUp, BankLeft
    <3> QED
      BY <3>1
  <2>2. CASE Bank!ReadBusy
    <3>1. BankLeft = s + 1 /\ BankLeft' = s - (w + 3) + 1
      BY <1>3, <1>6, <2>2 DEF Bank!ReadBusy, BankLeft
    <3> QED
      BY <3>1
  <2>3. CASE Bank!ReadBefore
    <3>1. BankLeft = s + 1 /\ BankLeft' = s
      BY <1>3, <1>5, <2>3 DEF Bank!ReadBefore, BankLeft
    <3> QED
      BY <3>1
  <2>4. CASE Bank!ReadGeneration
    <3>1. b_r_index' = 1
      BY <2>4 DEF Bank!ReadGeneration, BankInv, BankReader
    <3>2. BankLeft = s /\ BankLeft' = s - 1
      BY <1>3, <1>5, <2>4, <3>1 DEF Bank!ReadGeneration, BankLeft
    <3> QED
      BY <3>2
  <2>5. CASE Bank!ReadWord
    <3>1. BankLeft = s - b_r_index
      BY <1>3, <2>5 DEF Bank!ReadWord, BankLeft
    <3>2. BankLeft' = s - (b_r_index + 1)
      <4>1. b_r_index' = b_r_index + 1 /\ BankShare' = s
        BY <1>5, <2>5 DEF Bank!ReadWord
      <4>2. CASE b_r_index = BankWords
        <5>1. b_r_stage' = "after"
          BY <2>5, <4>2 DEF Bank!ReadWord
        <5> QED
          BY <1>3, <4>1, <4>2, <5>1 DEF BankLeft
      <4>3. CASE b_r_index # BankWords
        <5>1. b_r_stage' = "words"
          BY <2>5, <4>3 DEF Bank!ReadWord
        <5> QED
          BY <4>1, <5>1 DEF BankLeft
      <4> QED
        BY <4>2, <4>3
    <3> QED
      BY <1>4, <3>1, <3>2
  <2>6. CASE Bank!Accept
    <3>1. s >= w + 3 /\ BankLeft = s - (w + 1) /\ BankLeft' = 0
      BY <1>3, <1>6, <2>6 DEF Bank!Accept, BankLeft, BankInv, BankReader, BankReading
    <3> QED
      BY <3>1
  <2>7. CASE Bank!Reject
    <3>1. BankLeft = s - (w + 1) /\ BankLeft' = s - (w + 3) + 1
      BY <1>3, <1>6, <2>7 DEF Bank!Reject, BankLeft, BankInv, BankReader, BankReading
    <3> QED
      BY <3>1
  <2> QED
    BY <1>7, <2>1, <2>2, <2>3, <2>4, <2>5, <2>6, <2>7 DEF Bank!ReadOn
<1> QED
  BY <1>2, <1>7 DEF BankEnd

LEMMA BankLeftBound == BankInv => BankLeft \in 0 .. ReadAttempts * (BankWords + 3) + 1
<1> USE BankAssumption DEF Bank!TransportAssumption
<1> SUFFICES ASSUME BankInv PROVE BankLeft \in 0 .. ReadAttempts * (BankWords + 3) + 1
  OBVIOUS
<1>1. PICK w \in Nat, b \in Nat : w = BankWords /\ b = ReadAttempts * (BankWords + 3)
  OBVIOUS
<1>2. b_r_attempt \in 0 .. ReadAttempts /\ b_r_index \in 1 .. w + 1
  BY <1>1 DEF BankInv, BankReader
<1>3. BankShare \in 0 .. b
  BY <1>1, <1>2, Shares DEF BankShare
<1>4. b_r_stage \in {"generation", "words", "after"} => BankShare >= w + 3
  BY <1>1, <1>2, Shares DEF BankShare, BankInv, BankReader, BankReading
<1>5. b_r_stage \in {"idle", "before", "generation", "words", "after"}
  BY DEF BankInv, BankReader
<1>6. BankLeft \in 0 .. b + 1
  BY <1>1, <1>2, <1>3, <1>4, <1>5 DEF BankLeft
<1> QED
  BY <1>1, <1>6

LEMMA RequestReadsEnd == ASSUME RequestInv, [Request!Next]_(Request!vars) PROVE RequestEnd
<1>n. NumFields \in Nat /\ RequestAttempts \in Nat
  BY RequestAssumption DEF Request!RequestAssumption
<1>1. ASSUME UNCHANGED <<c_r_stage, c_r_attempt, c_r_index>> PROVE UNCHANGED RequestLeft
  BY <1>1 DEF RequestLeft, RequestShare, Share
<1>2. ASSUME NEW t \in Writers, Request!Publish(t) PROVE UNCHANGED RequestLeft
  BY <1>1, <1>2 DEF Request!Publish, Request!NextGeneration, Request!Begin, Request!Claim,
         Request!ClaimFails, Request!Compare, Request!Refuse, Request!StoreField,
         Request!StoreGeneration, Request!Finish, Request!reader
<1>a. c_r_attempt \in 0 .. RequestAttempts
  BY DEF RequestInv, RequestReader
<1>3. PICK w \in Nat, s \in Nat : w = NumFields /\ s = RequestShare
  <2>1. NumFields + 3 \in Nat /\ RequestAttempts * (NumFields + 3) \in Nat
    BY <1>n
  <2>2. Share(RequestAttempts, NumFields + 3, c_r_attempt)
          \in 0 .. RequestAttempts * (NumFields + 3)
    BY <1>n, <1>a, <2>1, Shares
  <2> QED
    BY <1>n, <2>1, <2>2 DEF RequestShare
<1>4. c_r_attempt \in 0 .. RequestAttempts /\ c_r_index \in 1 .. w + 1
  BY <1>3 DEF RequestInv, RequestReader
<1>5. UNCHANGED c_r_attempt => RequestShare' = s
  BY <1>3 DEF RequestShare, Share
<1>6. c_r_attempt < RequestAttempts =>
        s >= w + 3 /\ (c_r_attempt' = c_r_attempt + 1 => RequestShare' = s - (w + 3))
  BY <1>n, <1>3, <1>4, Shares DEF RequestShare
<1>7. ASSUME RequestReadOn PROVE RequestLeft' < RequestLeft
  <2>1. CASE Request!GiveUp
    <3>1. RequestLeft = s + 1 /\ RequestLeft' = 0
      BY <1>3, <2>1 DEF Request!GiveUp, RequestLeft
    <3> QED
      BY <3>1
  <2>2. CASE Request!ReadBusy
    <3>1. RequestLeft = s + 1 /\ RequestLeft' = s - (w + 3) + 1
      BY <1>3, <1>6, <2>2 DEF Request!ReadBusy, RequestLeft
    <3> QED
      BY <3>1
  <2>3. CASE Request!ReadBefore
    <3>1. RequestLeft = s + 1 /\ RequestLeft' = s
      BY <1>3, <1>5, <2>3 DEF Request!ReadBefore, RequestLeft
    <3> QED
      BY <3>1
  <2>4. CASE Request!ReadGeneration
    <3>1. c_r_index' = 1
      BY <2>4 DEF Request!ReadGeneration
    <3>2. RequestLeft = s /\ RequestLeft' = s - 1
      BY <1>3, <1>5, <2>4, <3>1 DEF Request!ReadGeneration, RequestLeft
    <3> QED
      BY <3>2
  <2>5. CASE Request!ReadField
    <3>1. RequestLeft = s - c_r_index
      BY <1>3, <2>5 DEF Request!ReadField, RequestLeft
    <3>2. RequestLeft' = s - (c_r_index + 1)
      <4>1. c_r_index' = c_r_index + 1 /\ RequestShare' = s
        BY <1>5, <2>5 DEF Request!ReadField
      <4>2. CASE c_r_index = NumFields
        <5>1. c_r_stage' = "after"
          BY <2>5, <4>2 DEF Request!ReadField
        <5> QED
          BY <1>3, <4>1, <4>2, <5>1 DEF RequestLeft
      <4>3. CASE c_r_index # NumFields
        <5>1. c_r_stage' = "fields"
          BY <2>5, <4>3 DEF Request!ReadField
        <5> QED
          BY <4>1, <5>1 DEF RequestLeft
      <4> QED
        BY <4>2, <4>3
    <3> QED
      BY <1>4, <3>1, <3>2
  <2>6. CASE Request!Accept
    <3>1. s >= w + 3 /\ RequestLeft = s - (w + 1) /\ RequestLeft' = 0
      BY <1>3, <1>6, <2>6 DEF Request!Accept, RequestLeft, RequestInv, RequestReader, RequestReading
    <3> QED
      BY <3>1
  <2>7. CASE Request!Reject
    <3>1. RequestLeft = s - (w + 1) /\ RequestLeft' = s - (w + 3) + 1
      BY <1>3, <1>6, <2>7 DEF Request!Reject, RequestLeft, RequestInv, RequestReader, RequestReading
    <3> QED
      BY <3>1
  <2> QED
    BY <1>7, <2>1, <2>2, <2>3, <2>4, <2>5, <2>6, <2>7 DEF RequestReadOn, RequestReaderActions
<1> QED
  BY <1>2, <1>7 DEF RequestEnd

LEMMA RequestLeftBound == RequestInv => RequestLeft \in 0 .. RequestAttempts * (NumFields + 3) + 1
<1>n. NumFields \in Nat /\ RequestAttempts \in Nat
  BY RequestAssumption DEF Request!RequestAssumption
<1> SUFFICES ASSUME RequestInv PROVE RequestLeft \in 0 .. RequestAttempts * (NumFields + 3) + 1
  OBVIOUS
<1>1. PICK w \in Nat, b \in Nat : w = NumFields /\ b = RequestAttempts * (NumFields + 3)
  BY <1>n
<1>2. c_r_attempt \in 0 .. RequestAttempts /\ c_r_index \in 1 .. w + 1
  BY <1>1 DEF RequestInv, RequestReader
<1>3. RequestShare \in 0 .. b
  BY <1>n, <1>1, <1>2, Shares DEF RequestShare
<1>4. c_r_stage \in {"generation", "fields", "after"} => RequestShare >= w + 3
  BY <1>n, <1>1, <1>2, Shares DEF RequestShare, RequestInv, RequestReader, RequestReading
<1>5. c_r_stage \in {"idle", "before", "generation", "fields", "after"}
  BY DEF RequestInv, RequestReader
<1>6. RequestLeft \in 0 .. b + 1
  BY <1>1, <1>2, <1>3, <1>4, <1>5 DEF RequestLeft
<1> QED
  BY <1>1, <1>6


LEMMA TunerReadsEnd == ASSUME TunerInv, [Tuner!Next]_(Tuner!vars) PROVE TunerEnd
<1> USE TunerAssumption DEF Tuner!TelemetryAssumption
<1>1. ASSUME UNCHANGED <<t_r_stage, t_r_attempt, t_r_index>> PROVE UNCHANGED TunerLeft
  BY <1>1 DEF TunerLeft, TunerShare, TunerWords, Share
<1>2. ASSUME Tuner!Publisher PROVE UNCHANGED TunerLeft
  <2>1. UNCHANGED Tuner!reader
    BY <1>2 DEF Tuner!Publisher, Tuner!PublishFrame, Tuner!PublishHeader, Tuner!PublishWord,
           Tuner!SamePeak, Tuner!PublishPeak, Tuner!StorePeak, Tuner!CountGeneration,
           Tuner!PublishFinish
  <2> QED
    BY <1>1, <2>1 DEF Tuner!reader
<1>w. TunerWords \in Nat
  BY DEF TunerWords
<1>3. PICK w \in Nat : w = TunerWords
  BY <1>w
<1>4. /\ t_r_attempt \in 0 .. ReadAttempts /\ t_r_index \in 1 .. w + 1
      /\ t_r_stage = "words" => t_r_index <= w
  <2>1. t_candidate.frame.header \in Tuner!Headers
    BY ValueFields DEF TunerInv, TunerReader
  <2>2. Tuner!Used(t_candidate.frame.header) <= w /\ Tuner!Used(t_candidate.frame.header) \in Nat
    BY <1>3, <2>1, FrameFits DEF TunerWords
  <2> QED
    BY <1>3, <2>2 DEF TunerWords, TunerInv, TunerReader
<1>s. PICK s \in Nat : s = TunerShare
  <2>1. w + 5 \in Nat
    OBVIOUS
  <2>2. ReadAttempts * (w + 5) \in Nat
    OBVIOUS
  <2>3. Share(ReadAttempts, w + 5, t_r_attempt) \in 0 .. ReadAttempts * (w + 5)
    BY <1>4, <2>1, Shares
  <2> QED
    BY <1>3, <2>2, <2>3 DEF TunerShare
<1>5. UNCHANGED t_r_attempt => TunerShare' = s
  BY <1>s DEF TunerShare, TunerWords, Share
<1>6. t_r_attempt < ReadAttempts =>
        s >= w + 5 /\ (t_r_attempt' = t_r_attempt + 1 => TunerShare' = s - (w + 5))
  <2> SUFFICES ASSUME t_r_attempt < ReadAttempts
               PROVE  s >= w + 5 /\ (t_r_attempt' = t_r_attempt + 1 => TunerShare' = s - (w + 5))
    OBVIOUS
  <2>1. w + 5 \in Nat
    OBVIOUS
  <2>2. /\ Share(ReadAttempts, w + 5, t_r_attempt) >= w + 5
        /\ Share(ReadAttempts, w + 5, t_r_attempt + 1)
             = Share(ReadAttempts, w + 5, t_r_attempt) - (w + 5)
    BY <1>4, <2>1, Shares
  <2>3. TunerShare' = Share(ReadAttempts, w + 5, t_r_attempt')
    BY <1>3 DEF TunerShare, TunerWords
  <2> QED
    BY <1>3, <1>s, <2>2, <2>3 DEF TunerShare
<1>r. TunerReading => t_r_attempt < ReadAttempts
  BY DEF TunerInv, TunerReader
<1>7. ASSUME TunerReadOn PROVE TunerLeft' < TunerLeft
  <2>1. CASE Tuner!GiveUp
    <3>1. TunerLeft = s + 1 /\ TunerLeft' = 0
      BY <1>s, <2>1 DEF Tuner!GiveUp, TunerLeft
    <3> QED
      BY <3>1
  <2>2. CASE Tuner!ReadBusy
    <3>1. TunerLeft = s + 1 /\ TunerLeft' = s - (w + 5) + 1
      BY <1>s, <1>6, <2>2 DEF Tuner!ReadBusy, TunerLeft
    <3> QED
      BY <3>1
  <2>3. CASE Tuner!ReadBefore
    <3>1. TunerLeft = s + 1 /\ TunerLeft' = s
      BY <1>s, <1>5, <2>3 DEF Tuner!ReadBefore, TunerLeft
    <3> QED
      BY <3>1
  <2>4. CASE Tuner!ReadHeader
    <3>1. TunerLeft = s /\ TunerLeft' = s - 1
      BY <1>s, <1>5, <2>4 DEF Tuner!ReadHeader, TunerLeft
    <3> QED
      BY <3>1
  <2>5. CASE Tuner!ReadGeneration
    <3>1. TunerLeft = s - 1 /\ TunerLeft' = s - 2
      BY <1>s, <1>5, <2>5 DEF Tuner!ReadGeneration, TunerLeft
    <3> QED
      BY <3>1
  <2>6. CASE Tuner!ReadPeak
    <3>1. TunerLeft = s - 2 /\ t_r_index = 1 /\ t_r_index' = 1 /\ TunerShare' = s
      BY <1>s, <1>5, <2>6 DEF Tuner!ReadPeak, TunerLeft, TunerInv, TunerReader
    <3>2. CASE t_r_stage' = "after"
      <4>1. TunerLeft' = s - (w + 3)
        BY <1>3, <3>1, <3>2 DEF TunerLeft, TunerWords
      <4> QED
        BY <3>1, <4>1
    <3>3. CASE t_r_stage' = "words"
      <4>1. TunerLeft' = s - 3
        BY <3>1, <3>3 DEF TunerLeft
      <4> QED
        BY <3>1, <4>1
    <3> QED
      BY <2>6, <3>2, <3>3 DEF Tuner!ReadPeak
  <2>7. CASE Tuner!ReadWord
    <3>1. PICK i \in Nat : i = t_r_index /\ i <= w
      BY <1>4, <2>7 DEF Tuner!ReadWord
    <3>2. TunerLeft = s - (2 + i) /\ t_r_index' = i + 1 /\ TunerShare' = s
      BY <1>s, <1>5, <2>7, <3>1 DEF Tuner!ReadWord, TunerLeft
    <3>3. CASE t_r_stage' = "after"
      <4>1. TunerLeft' = s - (w + 3)
        BY <1>3, <3>2, <3>3 DEF TunerLeft, TunerWords
      <4> QED
        BY <3>1, <3>2, <4>1
    <3>4. CASE t_r_stage' = "words"
      <4>1. TunerLeft' = s - (2 + (i + 1))
        BY <3>2, <3>4 DEF TunerLeft
      <4> QED
        BY <3>2, <4>1
    <3> QED
      BY <2>7, <3>3, <3>4 DEF Tuner!ReadWord
  <2>8. CASE Tuner!Accept
    <3>1. s >= w + 5 /\ TunerLeft = s - (w + 3) /\ TunerLeft' = 0
      BY <1>3, <1>s, <1>6, <1>r, <2>8 DEF Tuner!Accept, TunerLeft, TunerReading
    <3> QED
      BY <3>1
  <2>9. CASE Tuner!Reject
    <3>1. TunerLeft = s - (w + 3) /\ TunerLeft' = s - (w + 5) + 1
      BY <1>3, <1>s, <1>6, <1>r, <2>9 DEF Tuner!Reject, TunerLeft, TunerReading
    <3> QED
      BY <3>1
  <2> QED
    BY <1>7, <2>1, <2>2, <2>3, <2>4, <2>5, <2>6, <2>7, <2>8, <2>9
       DEF TunerReadOn, Tuner!Reader
<1> QED
  BY <1>2, <1>7 DEF TunerEnd

LEMMA TunerLeftBound == TunerInv => TunerLeft \in 0 .. ReadAttempts * (TunerWords + 5) + 1
<1> USE TunerAssumption DEF Tuner!TelemetryAssumption
<1> SUFFICES ASSUME TunerInv PROVE TunerLeft \in 0 .. ReadAttempts * (TunerWords + 5) + 1
  OBVIOUS
<1>w. TunerWords \in Nat
  BY DEF TunerWords
<1>1. PICK w \in Nat : w = TunerWords
  BY <1>w
<1>b. PICK b \in Nat : b = ReadAttempts * (w + 5)
  OBVIOUS
<1>2. t_r_attempt \in 0 .. ReadAttempts /\ t_r_index \in 1 .. w + 1
  BY <1>1 DEF TunerWords, TunerInv, TunerReader
<1>3. /\ TunerShare \in 0 .. b
      /\ t_r_attempt < ReadAttempts => TunerShare >= w + 5
  <2>1. w + 5 \in Nat
    OBVIOUS
  <2>2. /\ Share(ReadAttempts, w + 5, t_r_attempt) \in 0 .. ReadAttempts * (w + 5)
        /\ t_r_attempt < ReadAttempts => Share(ReadAttempts, w + 5, t_r_attempt) >= w + 5
    BY <1>2, <2>1, Shares
  <2> QED
    BY <1>1, <1>b, <2>2 DEF TunerShare
<1>4. TunerReading => TunerShare >= w + 5
  BY <1>3 DEF TunerInv, TunerReader
<1>5. t_r_stage \in {"idle", "before", "header", "generation", "peak", "words", "after"}
  BY DEF TunerInv, TunerReader
<1>6. TunerLeft \in 0 .. b + 1
  BY <1>1, <1>2, <1>3, <1>4, <1>5 DEF TunerLeft, TunerReading
<1> QED
  BY <1>1, <1>b, <1>6

\* No reader waits for a writer: every step of a read has fewer steps left after it, no step
\* of a writer changes how many, and there are at most so many to begin with. The attempts
\* are counted and each copies the words once (calibration_bank_transport.cpp:68-110,
\* tuner_telemetry.cpp:169-202, prepared_config_exchange.cpp:168-186).
THEOREM ReadsEnd ==
  Spec => /\ [](/\ BankLeft \in 0 .. ReadAttempts * (BankWords + 3) + 1
                /\ TunerLeft \in 0 .. ReadAttempts * (TunerWords + 5) + 1
                /\ RequestLeft \in 0 .. RequestAttempts * (NumFields + 3) + 1)
          /\ [][BankEnd /\ TunerEnd /\ RequestEnd]_vars
<1>1. BankInv /\ TunerInv /\ RequestInv =>
        /\ BankLeft \in 0 .. ReadAttempts * (BankWords + 3) + 1
        /\ TunerLeft \in 0 .. ReadAttempts * (TunerWords + 5) + 1
        /\ RequestLeft \in 0 .. RequestAttempts * (NumFields + 3) + 1
  BY BankLeftBound, TunerLeftBound, RequestLeftBound
<1>2. BankInv /\ TunerInv /\ RequestInv /\ [Next]_vars => [BankEnd /\ TunerEnd /\ RequestEnd]_vars
  BY BankSteps, TunerSteps, RequestSteps, BankReadsEnd, TunerReadsEnd, RequestReadsEnd
<1> QED
  BY <1>1, <1>2, BankHolds, TunerHolds, RequestHolds, PTL DEF Spec
=============================================================================
