-------------------------- MODULE ImportLifecycle --------------------------
(* What one import promises, whatever happens to the others: a batch moves   *)
(* forward only, its rows reach the canonical tables all at once or not at   *)
(* all, and a batch that failed before that never puts a row there.          *)
CONSTANTS Batches, Keys

VARIABLES
  phase,    \* of each batch
  held      \* natural keys present in the canonical tables

Init == phase = [b \in Batches |-> "none"] /\ held = {}

Move(b, from, to) == phase[b] \in from /\ phase' = [phase EXCEPT ![b] = to]

Receive(b) == Move(b, {"none"}, "received") /\ UNCHANGED held
Stage(b) == Move(b, {"received"}, "staged") /\ UNCHANGED held
Land(b) == Move(b, {"staged"}, "loaded") /\ \E S \in SUBSET Keys : held' = held \cup S
Complete(b) == Move(b, {"loaded"}, "completed") /\ UNCHANGED held
Fail(b) == Move(b, {"received", "staged", "loaded"}, "failed") /\ UNCHANGED held

Next ==
  \E b \in Batches : Receive(b) \/ Stage(b) \/ Land(b) \/ Complete(b) \/ Fail(b)

Spec == Init /\ [][Next]_<<phase, held>>
=============================================================================
