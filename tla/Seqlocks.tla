-------------------------------- MODULE Seqlocks -------------------------------
(***************************************************************************)
(* The three seqlocks of the plug-ins side by side: the calibration bank,  *)
(* the tuner frame and the requested configuration.  They share no         *)
(* variable, so each behaviour follows one of them (link) and leaves the   *)
(* other two as constructed.                                               *)
(***************************************************************************)
EXTENDS Integers

CONSTANTS
  Content, Zero,                   \* what a word can hold, and what it holds at first
  ReadAttempts,                    \* kReadAttempts of the first two
  BankWords, BankGenerations,      \* see CalibrationTransport
  Voices, WordsPerVoice,           \* see TunerTelemetry
  FrameStates, Peaks,
  Writers, NumFields, Initial,     \* see ConfigRequest
  FirstGeneration, GenerationRange, RequestAttempts,
  MaxBanks, MaxFrames, MaxConfigs, \* bounds: publications of each
  MaxRequests                      \* bound: generations taken

VARIABLES
  link,
  b_sequence, b_generation, b_words, b_w_stage, b_w_bank, b_w_index, b_r_stage,
  b_r_attempt, b_r_before, b_r_index, b_candidate, b_snapshot, b_published,
  t_sequence, t_generation, t_header, t_input_peak, t_words, t_w_stage, t_w_frame,
  t_w_peak, t_w_index, t_w_clear, t_r_stage, t_r_attempt, t_r_before, t_r_index,
  t_candidate, t_snapshot, t_published,
  c_sequence, c_fields, c_generation, c_taken, c_w_stage, c_w_request, c_w_sequence,
  c_w_index, c_r_stage, c_r_attempt, c_r_before, c_r_index, c_candidate, c_snapshot, c_published

Bank == INSTANCE CalibrationTransport WITH
  NumWords <- BankWords, Generations <- BankGenerations, MaxPublications <- MaxBanks,
  sequence <- b_sequence, generation <- b_generation, words <- b_words,
  w_stage <- b_w_stage, w_bank <- b_w_bank, w_index <- b_w_index,
  r_stage <- b_r_stage, r_attempt <- b_r_attempt, r_before <- b_r_before,
  r_index <- b_r_index, candidate <- b_candidate, snapshot <- b_snapshot,
  published <- b_published

Tuner == INSTANCE TunerTelemetry WITH
  NumVoices <- Voices, States <- FrameStates, MaxPublications <- MaxFrames,
  sequence <- t_sequence, generation <- t_generation, header <- t_header,
  input_peak <- t_input_peak, words <- t_words, w_stage <- t_w_stage,
  w_frame <- t_w_frame, w_peak <- t_w_peak, w_index <- t_w_index, w_clear <- t_w_clear,
  r_stage <- t_r_stage, r_attempt <- t_r_attempt, r_before <- t_r_before,
  r_index <- t_r_index, candidate <- t_candidate, snapshot <- t_snapshot,
  published <- t_published

Request == INSTANCE ConfigRequest WITH
  ReadAttempts <- RequestAttempts, MaxPublications <- MaxConfigs, taken <- c_taken,
  sequence <- c_sequence, fields <- c_fields, generation <- c_generation,
  w_stage <- c_w_stage, w_request <- c_w_request, w_sequence <- c_w_sequence,
  w_index <- c_w_index, r_stage <- c_r_stage, r_attempt <- c_r_attempt,
  r_before <- c_r_before, r_index <- c_r_index, candidate <- c_candidate,
  snapshot <- c_snapshot, published <- c_published

ASSUME BankAssumption == Bank!TransportAssumption
ASSUME TunerAssumption == Tuner!TelemetryAssumption
ASSUME RequestAssumption == Request!RequestAssumption

bank ==
  <<b_sequence, b_generation, b_words, b_w_stage, b_w_bank, b_w_index, b_r_stage,
    b_r_attempt, b_r_before, b_r_index, b_candidate, b_snapshot, b_published>>
tuner ==
  <<t_sequence, t_generation, t_header, t_input_peak, t_words, t_w_stage, t_w_frame,
    t_w_peak, t_w_index, t_w_clear, t_r_stage, t_r_attempt, t_r_before, t_r_index,
    t_candidate, t_snapshot, t_published>>
request ==
  <<c_sequence, c_fields, c_generation, c_taken, c_w_stage, c_w_request, c_w_sequence,
    c_w_index, c_r_stage, c_r_attempt, c_r_before, c_r_index, c_candidate, c_snapshot,
    c_published>>
vars == <<link, bank, tuner, request>>

Init ==
  /\ link \in {"bank", "tuner", "request"}
  /\ Bank!Init /\ Tuner!Init /\ Request!Init

BankStep    == link = "bank" /\ Bank!Next /\ UNCHANGED <<link, tuner, request>>
TunerStep   == link = "tuner" /\ Tuner!Next /\ UNCHANGED <<link, bank, request>>
RequestStep == link = "request" /\ Request!Next /\ UNCHANGED <<link, bank, tuner>>

Next == BankStep \/ TunerStep \/ RequestStep

Spec == Init /\ [][Next]_vars

\* Each link's variables hold what their C++ types allow.
TypeOK == Bank!TypeOK /\ Tuner!TypeOK /\ Request!TypeOK

\* Each link's readers get whole and current values: see the modules.
BankReadsAreWhole    == Bank!ReadsAreWhole
FrameReadsAreWhole   == Tuner!ReadsAreWhole
RequestReadsAreWhole == Request!ReadsAreWhole

\* A frame generation names one content, and request generations only advance: see
\* TunerTelemetry and ConfigRequest.
GenerationNamesContent == Tuner!GenerationNamesContent
GenerationsAdvance     == Request!GenerationsAdvance

\* The bank's reader never waits for its writer: see CalibrationTransport.
ReaderNeverWaits == Bank!ReaderNeverWaits

=============================================================================
