---------------------------- MODULE MCWebSession ----------------------------
(* TLC instance of WebSession; tabs and requests are interchangeable.  The   *)
(* two questions are asked apart: what tabs do to each other while the clock *)
(* stands, and what the limit does to one tab over time.                     *)
EXTENDS WebSession, TLC

MCSymmetry == Permutations(Tabs) \cup Permutations(Requests)

\* all that happens with three tokens and three requests within one tick
Tangled == now = 0 /\ ~torn /\ Len(family) <= 3 /\ sends <= 4 /\ Cardinality(excused) <= 1
\* one session that goes on, one request at a time
Lasting ==
  /\ excused = {} /\ Cardinality({t \in Tabs : shown[t] # Null}) <= 1
  /\ Cardinality({p \in Requests : req[p] # Null}) <= 1
Focus == Tangled \/ Lasting
=============================================================================
