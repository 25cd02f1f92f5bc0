---------------------------- MODULE ConfigRequest ----------------------------
(***************************************************************************)
(* AtomicConfigRequest (native/plugin/prepared_config_exchange.cpp): the   *)
(* configuration last asked for, published field by field under an         *)
(* odd/even sequence.  In the CLAP adapter the main and the audio thread   *)
(* both publish and both read; a writer that finds the other one inside    *)
(* gives up instead of waiting.  One step is one access to a shared word.  *)
(*                                                                         *)
(* Field accesses are relaxed in the source.  They are taken in program    *)
(* order, as the supported x86-64 builds perform them; a weaker machine    *)
(* could move them past the sequence accesses.  Generations are counted    *)
(* modulo GenerationRange (2^64); the sequence is not wrapped.             *)
(***************************************************************************)
EXTENDS Integers

CONSTANTS
  Writers,          \* the threads that publish
  NumFields,        \* kFieldCount (14)
  Content,          \* what one field can hold
  Initial,          \* the configuration given to the constructor
  FirstGeneration,  \* and its generation
  GenerationRange,  \* 2^64
  ReadAttempts,     \* maximum_attempts (3)
  MaxRequests,      \* bound: generations taken
  MaxPublications   \* bound: publications that win the sequence

RequestAssumption ==
  /\ Writers # {}
  /\ NumFields \in Nat \ {0}
  /\ Initial \in [1 .. NumFields -> Content]
  /\ GenerationRange \in Nat \ {0, 1}
  /\ FirstGeneration \in 0 .. GenerationRange - 1
  /\ ReadAttempts \in Nat \ {0}
  /\ MaxRequests \in Nat
  /\ MaxPublications \in Nat

Fields      == 1 .. NumFields
Generations == 0 .. GenerationRange - 1
Value       == [config : [Fields -> Content], generation : Generations]
First       == [config |-> Initial, generation |-> FirstGeneration]
Empty       == [config |-> <<>>, generation |-> 0]

\* generation_newer
Newer(candidate, reference) ==
  LET distance == (candidate - reference) % GenerationRange
  IN  distance # 0 /\ distance < GenerationRange \div 2

VARIABLES
  sequence,    \* sequence_
  fields,      \* fields_
  generation,  \* generation_
  taken,       \* generation_counter, counted from FirstGeneration
  w_stage,     \* publish, per writer: where the call is
  w_request,   \* publish: its arguments
  w_sequence,  \* publish: sequence
  w_index,     \* publish: next field to store
  r_stage,     \* snapshot: where the call is
  r_attempt,   \* snapshot: attempt
  r_before,    \* snapshot: before
  r_index,     \* snapshot: next field to load
  candidate,   \* snapshot: candidate
  snapshot,    \* the caller's destination
  published    \* history: what the last finished publication made visible

shared == <<sequence, fields, generation, taken>>
writer == <<w_stage, w_request, w_sequence, w_index>>
reader == <<r_stage, r_attempt, r_before, r_index, candidate>>
vars   == <<shared, writer, reader, snapshot, published>>

Even(n) == n % 2 = 0

TypeOK ==
  /\ sequence \in 0 .. 2 * MaxPublications
  /\ fields \in [Fields -> Content]
  /\ generation \in Generations
  /\ taken \in 0 .. MaxRequests
  /\ w_stage \in [Writers -> {"idle", "begin", "claim", "compare", "fields", "generation", "finish"}]
  /\ w_request \in [Writers -> Value]
  /\ w_sequence \in [Writers -> 0 .. 2 * MaxPublications]
  /\ w_index \in [Writers -> 1 .. NumFields + 1]
  /\ r_stage \in {"idle", "before", "generation", "fields", "after"}
  /\ r_attempt \in 0 .. ReadAttempts
  /\ r_before \in 0 .. 2 * MaxPublications
  /\ r_index \in 1 .. NumFields + 1
  /\ candidate \in Value
  /\ snapshot \in Value \cup {Empty}
  /\ published \in Value

\* The constructor stores the initial configuration.
Init ==
  /\ published = First
  /\ sequence = 0
  /\ fields = Initial
  /\ generation = FirstGeneration
  /\ taken = 0
  /\ w_stage = [t \in Writers |-> "idle"]
  /\ w_request = [t \in Writers |-> First]
  /\ w_sequence = [t \in Writers |-> 0]
  /\ w_index = [t \in Writers |-> 1]
  /\ r_stage = "idle" /\ r_attempt = 0 /\ r_before = 0 /\ r_index = 1
  /\ candidate = First
  /\ snapshot = Empty

-----------------------------------------------------------------------------
(* publish *)

\* The call ends and its locals with it.
Return(t) ==
  /\ w_stage' = [w_stage EXCEPT ![t] = "idle"]
  /\ w_request' = [w_request EXCEPT ![t] = First]
  /\ w_sequence' = [w_sequence EXCEPT ![t] = 0]
  /\ w_index' = [w_index EXCEPT ![t] = 1]

\* The caller takes the next generation for its request.
NextGeneration(t) ==
  /\ w_stage[t] = "idle"
  /\ taken < MaxRequests
  /\ taken' = taken + 1
  /\ \E c \in [Fields -> Content] :
       w_request' = [w_request EXCEPT ![t] =
         [config |-> c, generation |-> (FirstGeneration + taken') % GenerationRange]]
  /\ w_stage' = [w_stage EXCEPT ![t] = "begin"]
  /\ UNCHANGED <<sequence, fields, generation, w_sequence, w_index, reader, snapshot,
                 published>>

\* The load.
Begin(t) ==
  /\ w_stage[t] = "begin"
  /\ sequence + 2 <= 2 * MaxPublications
  /\ Even(sequence)
  /\ w_sequence' = [w_sequence EXCEPT ![t] = sequence]
  /\ w_stage' = [w_stage EXCEPT ![t] = "claim"]
  /\ UNCHANGED <<shared, w_request, w_index, reader, snapshot, published>>

\* Variant: a load and a store instead of the compare-exchange.
ClaimByStore(t) ==
  /\ w_stage[t] = "claim"
  /\ sequence' = w_sequence[t] + 1
  /\ w_stage' = [w_stage EXCEPT ![t] = "compare"]
  /\ UNCHANGED <<fields, generation, taken, w_request, w_sequence, w_index, reader, snapshot, published>>

\* The compare-exchange.
Claim(t) ==
  /\ w_stage[t] = "claim"
  /\ sequence = w_sequence[t]
  /\ sequence' = sequence + 1
  /\ w_stage' = [w_stage EXCEPT ![t] = "compare"]
  /\ UNCHANGED <<fields, generation, taken, w_request, w_sequence, w_index, reader, snapshot, published>>

\* The sequence is odd, or moved since the load: publish returns false.
ClaimFails(t) ==
  /\ \/ w_stage[t] = "begin" /\ ~ Even(sequence)
     \/ w_stage[t] = "claim" /\ sequence # w_sequence[t]
  /\ Return(t)
  /\ UNCHANGED <<shared, reader, snapshot, published>>

Compare(t) ==
  /\ w_stage[t] = "compare"
  /\ Newer(w_request[t].generation, generation)
  /\ w_stage' = [w_stage EXCEPT ![t] = "fields"]
  /\ UNCHANGED <<shared, w_request, w_sequence, w_index, reader, snapshot, published>>

\* An older generation is refused and the sequence let go.
Refuse(t) ==
  /\ w_stage[t] = "compare"
  /\ ~ Newer(w_request[t].generation, generation)
  /\ sequence' = w_sequence[t] + 2
  /\ Return(t)
  /\ UNCHANGED <<fields, generation, taken, reader, snapshot, published>>

StoreField(t) ==
  /\ w_stage[t] = "fields"
  /\ fields' = [fields EXCEPT ![w_index[t]] = w_request[t].config[w_index[t]]]
  /\ w_index' = [w_index EXCEPT ![t] = @ + 1]
  /\ w_stage' = [w_stage EXCEPT ![t] = IF w_index[t] = NumFields THEN "generation" ELSE "fields"]
  /\ UNCHANGED <<sequence, generation, taken, w_request, w_sequence, reader, snapshot, published>>

StoreGeneration(t) ==
  /\ w_stage[t] = "generation"
  /\ generation' = w_request[t].generation
  /\ w_stage' = [w_stage EXCEPT ![t] = "finish"]
  /\ UNCHANGED <<sequence, fields, taken, w_request, w_sequence, w_index, reader, snapshot, published>>

Finish(t) ==
  /\ w_stage[t] = "finish"
  /\ sequence' = w_sequence[t] + 2
  /\ published' = w_request[t]
  /\ Return(t)
  /\ UNCHANGED <<fields, generation, taken, reader, snapshot>>

\* reset: the component starts over while no call runs.
Reset ==
  /\ \A t \in Writers : w_stage[t] = "idle"
  /\ r_stage = "idle"
  /\ sequence + 2 <= 2 * MaxPublications
  /\ published' = First
  /\ fields' = Initial
  /\ generation' = FirstGeneration
  /\ sequence' = sequence + 2
  /\ UNCHANGED <<taken, writer, reader, snapshot>>

-----------------------------------------------------------------------------
(* snapshot *)

ReadStart ==
  /\ r_stage = "idle"
  /\ r_stage' = "before"
  /\ r_attempt' = 0
  /\ UNCHANGED <<shared, writer, r_before, r_index, candidate, snapshot, published>>

GiveUp ==
  /\ r_stage = "before"
  /\ r_attempt = ReadAttempts
  /\ r_stage' = "idle"
  /\ UNCHANGED <<shared, writer, r_attempt, r_before, r_index, candidate, snapshot, published>>

ReadBusy ==
  /\ r_stage = "before"
  /\ r_attempt < ReadAttempts
  /\ ~ Even(sequence)
  /\ r_attempt' = r_attempt + 1
  /\ UNCHANGED <<shared, writer, r_stage, r_before, r_index, candidate, snapshot, published>>

ReadBefore ==
  /\ r_stage = "before"
  /\ r_attempt < ReadAttempts
  /\ Even(sequence)
  /\ r_before' = sequence
  /\ r_stage' = "generation"
  /\ UNCHANGED <<shared, writer, r_attempt, r_index, candidate, snapshot, published>>

ReadGeneration ==
  /\ r_stage = "generation"
  /\ candidate' = [candidate EXCEPT !.generation = generation]
  /\ r_index' = 1
  /\ r_stage' = "fields"
  /\ UNCHANGED <<shared, writer, r_attempt, r_before, snapshot, published>>

ReadField ==
  /\ r_stage = "fields"
  /\ candidate' = [candidate EXCEPT !.config[r_index] = fields[r_index]]
  /\ r_index' = r_index + 1
  /\ r_stage' = IF r_index = NumFields THEN "after" ELSE "fields"
  /\ UNCHANGED <<shared, writer, r_attempt, r_before, snapshot, published>>

Unmoved == sequence = r_before /\ Even(sequence)

\* Variant: any even sequence is accepted.
AcceptAnyEven ==
  /\ r_stage = "after"
  /\ Even(sequence)
  /\ snapshot' = candidate
  /\ r_stage' = "idle"
  /\ UNCHANGED <<shared, writer, r_attempt, r_before, r_index, candidate, published>>

Accept ==
  /\ r_stage = "after"
  /\ Unmoved
  /\ snapshot' = candidate
  /\ r_stage' = "idle"
  /\ UNCHANGED <<shared, writer, r_attempt, r_before, r_index, candidate, published>>

Reject ==
  /\ r_stage = "after"
  /\ ~ Unmoved
  /\ r_stage' = "before"
  /\ r_attempt' = r_attempt + 1
  /\ UNCHANGED <<shared, writer, r_before, r_index, candidate, snapshot, published>>

-----------------------------------------------------------------------------
Publish(t) ==
  \/ NextGeneration(t) \/ Begin(t) \/ Claim(t) \/ ClaimFails(t) \/ Compare(t) \/ Refuse(t)
  \/ StoreField(t) \/ StoreGeneration(t) \/ Finish(t)

Next ==
  \/ \E t \in Writers : Publish(t)
  \/ Reset
  \/ ReadStart \/ GiveUp \/ ReadBusy \/ ReadBefore
  \/ ReadGeneration \/ ReadField \/ Accept \/ Reject

Spec == Init /\ [][Next]_vars

-----------------------------------------------------------------------------
(* Properties *)

Ideal == INSTANCE AtomicSnapshot

\* A configuration snapshot() accepts is, at that moment, the one the last
\* successful publish left: no field and no generation of another writer or
\* another request (prepared_config_exchange.cpp:168-186).
ReadsAreWhole == Ideal!Spec

\* Between two resets the visible generation only moves forward, whichever
\* thread publishes and however the calls interleave
\* (prepared_config_exchange.cpp:136-155).
GenerationsAdvance ==
  [][(\E t \in Writers : w_stage[t] = "finish" /\ w_stage'[t] = "idle")
       => Newer(published'.generation, published.generation)]_vars

=============================================================================
