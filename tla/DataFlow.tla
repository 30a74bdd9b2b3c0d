------------------------------ MODULE DataFlow ------------------------------
(***************************************************************************)
(* What a data-flow solver promises, without saying how: asked about a     *)
(* flow graph it answers with the least solution of its equations.         *)
(* Liveness is shown to implement it.                                      *)
(***************************************************************************)
EXTENDS Integers, Sequences

CONSTANTS
  Names,   \* the names a flow graph mentions
  Flows    \* the [GEN, KILL, successors] triples the solver is asked about

VARIABLES
  asked,   \* the set of the flow graph asked about, empty before
  answer   \* the set of the answer, empty before

vars == <<asked, answer>>

\* The names live out of instruction j when in is live into the instructions;
\* the last instruction has no successor.
LiveOut(fl, in, j) ==
  IF j < Len(fl.GEN) THEN UNION {in[s] : s \in fl.successors[j]} ELSE {}

IsSolution(fl, in) ==
  /\ in \in [1..Len(fl.GEN) -> SUBSET Names]
  /\ \A j \in 1..Len(fl.GEN) :
       in[j] = fl.GEN[j] \cup (LiveOut(fl, in, j) \ fl.KILL[j])

IsLeastSolution(fl, in) ==
  /\ IsSolution(fl, in)
  /\ \A other \in [1..Len(fl.GEN) -> SUBSET Names] :
       IsSolution(fl, other) =>
         \A j \in 1..Len(fl.GEN) : in[j] \subseteq other[j]

Init == asked = {} /\ answer = {}

Ask ==
  /\ asked = {}
  /\ \E fl \in asked' : fl \in Flows /\ asked' = {fl}
  /\ UNCHANGED answer

Answer ==
  /\ answer = {}
  /\ \E fl \in asked, in \in answer' :
       IsLeastSolution(fl, in) /\ answer' = {in}
  /\ UNCHANGED asked

Next == Ask \/ Answer

Spec == Init /\ [][Next]_vars
=============================================================================
