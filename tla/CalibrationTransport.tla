------------------------- MODULE CalibrationTransport -------------------------
(***************************************************************************)
(* CalibrationBankTransport (native/src/calibration_bank_transport.cpp):   *)
(* one thread hands a calibration bank to another word by word under an    *)
(* odd/even sequence.  M3Component has two: calibration_published_ from    *)
(* the audio to the main thread and calibration_restore_ back.  One step   *)
(* is one access to a shared word; every access in the source is           *)
(* sequentially consistent.                                                *)
(*                                                                         *)
(* The string mask and the point words are Words; a word's content is      *)
(* opaque.  reset runs while neither thread is inside a call (initialize   *)
(* calls it).  The sequence is a 32-bit counter that no session wraps      *)
(* within one read: MaxPublications bounds it here.                        *)
(***************************************************************************)
EXTENDS Integers

CONSTANTS
  NumWords,         \* calibrated_mask_ and words_ (1 + 1000)
  Content,          \* what one word can hold, Zero among them
  Zero,             \* the content after construction and reset
  Generations,      \* calibration generations in use
  ReadAttempts,     \* kReadAttempts (3)
  MaxPublications   \* bound: publish calls

TransportAssumption ==
  /\ NumWords \in Nat \ {0}
  /\ Zero \in Content
  /\ 0 \in Generations
  /\ ReadAttempts \in Nat \ {0}
  /\ MaxPublications \in Nat

Words == 1 .. NumWords
Value == [words : [Words -> Content], generation : Generations]
Empty == [words |-> <<>>, generation |-> 0]     \* no bank

VARIABLES
  sequence,     \* sequence_
  generation,   \* generation_
  words,        \* calibrated_mask_, words_
  w_stage,      \* publish: where the call is
  w_bank,       \* publish: its arguments
  w_index,      \* publish: next word to store
  r_stage,      \* read_latest: where the call is
  r_attempt,    \* read_latest: attempt
  r_before,     \* read_latest: before
  r_index,      \* read_latest: next word to load
  candidate,    \* read_latest: candidate
  snapshot,     \* the caller's snapshot
  published     \* history: the bank of the last finished publish

shared == <<sequence, generation, words>>
writer == <<w_stage, w_bank, w_index>>
reader == <<r_stage, r_attempt, r_before, r_index, candidate>>
vars   == <<shared, writer, reader, snapshot, published>>

Blank == [words |-> [w \in Words |-> Zero], generation |-> 0]
Even(n) == n % 2 = 0

TypeOK ==
  /\ sequence \in 0 .. 2 * MaxPublications
  /\ generation \in Generations
  /\ words \in [Words -> Content]
  /\ w_stage \in {"idle", "words", "generation", "finish"}
  /\ w_bank \in Value
  /\ w_index \in 1 .. NumWords + 1
  /\ r_stage \in {"idle", "before", "generation", "words", "after"}
  /\ r_attempt \in 0 .. ReadAttempts
  /\ r_before \in 0 .. 2 * MaxPublications
  /\ r_index \in 1 .. NumWords + 1
  /\ candidate \in Value
  /\ snapshot \in Value \cup {Empty}
  /\ published \in Value \cup {Empty}

Init ==
  /\ sequence = 0
  /\ generation = 0
  /\ words = Blank.words
  /\ w_stage = "idle" /\ w_bank = Blank /\ w_index = 1
  /\ r_stage = "idle" /\ r_attempt = 0 /\ r_before = 0 /\ r_index = 1
  /\ candidate = Blank
  /\ snapshot = Empty
  /\ published = Empty

-----------------------------------------------------------------------------
(* reset *)

Reset ==
  /\ w_stage = "idle" /\ r_stage = "idle"
  /\ sequence' = 0
  /\ generation' = 0
  /\ words' = Blank.words
  /\ published' = Empty
  /\ UNCHANGED <<writer, reader, snapshot>>

-----------------------------------------------------------------------------
(* publish, on the writing thread *)

\* writing = before | 1; the store marks the bank as being written.
PublishBegin ==
  /\ w_stage = "idle"
  /\ sequence + 2 <= 2 * MaxPublications
  /\ w_bank' \in Value
  /\ sequence' = IF Even(sequence) THEN sequence + 1 ELSE sequence
  /\ w_index' = 1
  /\ w_stage' = "words"
  /\ UNCHANGED <<generation, words, reader, snapshot, published>>

PublishWord ==
  /\ w_stage = "words"
  /\ words' = [words EXCEPT ![w_index] = w_bank.words[w_index]]
  /\ w_index' = w_index + 1
  /\ w_stage' = IF w_index = NumWords THEN "generation" ELSE "words"
  /\ UNCHANGED <<sequence, generation, w_bank, reader, snapshot, published>>

PublishGeneration ==
  /\ w_stage = "generation"
  /\ generation' = w_bank.generation
  /\ w_stage' = "finish"
  /\ UNCHANGED <<sequence, words, w_bank, w_index, reader, snapshot, published>>

\* writing + 1: the bank is whole.
PublishFinish ==
  /\ w_stage = "finish"
  /\ sequence' = sequence + 1
  /\ published' = w_bank
  /\ w_stage' = "idle"
  /\ UNCHANGED <<generation, words, w_bank, w_index, reader, snapshot>>

-----------------------------------------------------------------------------
(* read_latest, on the reading thread *)

ReadStart ==
  /\ r_stage = "idle"
  /\ r_stage' = "before"
  /\ r_attempt' = 0
  /\ UNCHANGED <<shared, writer, r_before, r_index, candidate, snapshot, published>>

\* The attempts are used up: the caller keeps what it had.
GiveUp ==
  /\ r_stage = "before"
  /\ r_attempt = ReadAttempts
  /\ r_stage' = "idle"
  /\ UNCHANGED <<shared, writer, r_attempt, r_before, r_index, candidate, snapshot, published>>

\* Variant: the reader waits for an even sequence.
ReadBusyWaits ==
  /\ r_stage = "before"
  /\ r_attempt < ReadAttempts
  /\ sequence = 0 \/ ~ Even(sequence)
  /\ UNCHANGED vars

\* Nothing published, or a bank being written: the attempt is spent.
ReadBusy ==
  /\ r_stage = "before"
  /\ r_attempt < ReadAttempts
  /\ sequence = 0 \/ ~ Even(sequence)
  /\ r_attempt' = r_attempt + 1
  /\ UNCHANGED <<shared, writer, r_stage, r_before, r_index, candidate, snapshot, published>>

ReadBefore ==
  /\ r_stage = "before"
  /\ r_attempt < ReadAttempts
  /\ sequence # 0 /\ Even(sequence)
  /\ r_before' = sequence
  /\ r_index' = 1
  /\ r_stage' = "generation"
  /\ UNCHANGED <<shared, writer, r_attempt, candidate, snapshot, published>>

ReadGeneration ==
  /\ r_stage = "generation"
  /\ candidate' = [candidate EXCEPT !.generation = generation]
  /\ r_stage' = "words"
  /\ UNCHANGED <<shared, writer, r_attempt, r_before, r_index, snapshot, published>>

ReadWord ==
  /\ r_stage = "words"
  /\ candidate' = [candidate EXCEPT !.words[r_index] = words[r_index]]
  /\ r_index' = r_index + 1
  /\ r_stage' = IF r_index = NumWords THEN "after" ELSE "words"
  /\ UNCHANGED <<shared, writer, r_attempt, r_before, snapshot, published>>

\* Variant: only the parity of the sequence is checked.
AcceptAnyEven ==
  /\ r_stage = "after"
  /\ Even(sequence)
  /\ snapshot' = candidate
  /\ r_stage' = "idle"
  /\ UNCHANGED <<shared, writer, r_attempt, r_before, r_index, candidate, published>>

\* The sequence did not move: the candidate is accepted.
Accept ==
  /\ r_stage = "after"
  /\ sequence = r_before /\ Even(sequence)
  /\ snapshot' = candidate
  /\ r_stage' = "idle"
  /\ UNCHANGED <<shared, writer, r_attempt, r_before, r_index, candidate, published>>

Reject ==
  /\ r_stage = "after"
  /\ ~ (sequence = r_before /\ Even(sequence))
  /\ r_stage' = "before"
  /\ r_attempt' = r_attempt + 1
  /\ UNCHANGED <<shared, writer, r_before, r_index, candidate, snapshot, published>>

-----------------------------------------------------------------------------
Publisher == PublishBegin \/ PublishWord \/ PublishGeneration \/ PublishFinish
ReadOn ==
  \/ GiveUp \/ ReadBusy \/ ReadBefore
  \/ ReadGeneration \/ ReadWord \/ Accept \/ Reject
Next == Reset \/ Publisher \/ ReadStart \/ ReadOn

Spec == Init /\ [][Next]_vars

-----------------------------------------------------------------------------
(* Properties *)

Ideal == INSTANCE AtomicSnapshot

\* Every bank read_latest accepts is, at that moment, the bank of the last
\* finished publish, generation included: no word and no generation of
\* another bank (calibration_bank_transport.cpp:66-110).
ReadsAreWhole == Ideal!Spec

\* Neither thread waits for the other: wherever the writer has stopped, a
\* reader inside read_latest has a step that moves it on, and TypeOK bounds
\* its attempts (calibration_bank_transport.cpp:68-72).
ReaderNeverWaits == r_stage # "idle" => ENABLED <<ReadOn>>_vars

=============================================================================
