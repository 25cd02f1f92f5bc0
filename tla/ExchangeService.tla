--------------------------- MODULE ExchangeService ---------------------------
(***************************************************************************)
(* What the prepared-configuration exchange promises its callers, without  *)
(* slots, scans or compare-exchanges.  Configurations are known by their   *)
(* generations.  A publication waits until the audio thread holds it, or   *)
(* a newer one is active, or another publication takes its place: then at  *)
(* most one is lost, to a newer one.  What is held stays held until its    *)
(* holder commits it or gives it back, and only ever newer configurations  *)
(* become active.  A publication or a claim may also find nothing to take, *)
(* which changes nothing.                                                  *)
(***************************************************************************)
EXTENDS Integers

CONSTANTS
  Generations,  \* the numbers configurations are published with
  None          \* no claim is held

VARIABLES
  open,         \* between a Start and the Stop that ends it
  waiting,      \* published, newer than the active one, and not held
  held,         \* the claim of the audio thread
  active        \* the active configuration

vars == <<open, waiting, held, active>>

Nothing == waiting = {} /\ held = None

Init == ~open /\ Nothing /\ active = 0

Start(g) == ~open /\ open' /\ Nothing' /\ active' = g

\* What waits or is held is dropped here and nowhere else.
Stop == open /\ ~open' /\ Nothing' /\ active' = 0

\* Generations only grow; of what waits, at most one makes way.
Publish(g) ==
  /\ open
  /\ g > active /\ (held # None => g > held) /\ \A w \in waiting : g > w
  /\ \E lost \in SUBSET waiting :
       /\ \A v, w \in lost : v = w
       /\ waiting' = (waiting \ lost) \cup {g}
  /\ UNCHANGED <<open, held, active>>

\* A claim that runs beside a publication may get an older one than it.
Claim(g) ==
  /\ held = None /\ g \in waiting
  /\ held' = g /\ waiting' = waiting \ {g}
  /\ UNCHANGED <<open, active>>

GiveBack ==
  /\ held # None
  /\ waiting' = waiting \cup {held} /\ held' = None
  /\ UNCHANGED <<open, active>>

\* What is older than the new active configuration waits no more.
Commit ==
  /\ held # None /\ held > active
  /\ active' = held /\ held' = None
  /\ waiting' = {w \in waiting : w > held}
  /\ UNCHANGED open

Next ==
  \/ \E g \in Generations : Start(g) \/ Publish(g) \/ Claim(g)
  \/ GiveBack \/ Commit \/ Stop

Spec == Init /\ [][Next]_vars
=============================================================================
