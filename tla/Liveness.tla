------------------------------ MODULE Liveness ------------------------------
(***************************************************************************)
(* The data-flow solver of the L2 compiler, generate_in_out in             *)
(* src/L2/src/liveness.cpp: from the GEN and KILL sets and the successors  *)
(* of the instructions of one function it computes, by backward sweeps     *)
(* repeated until nothing changes, the names live into (In, the code's *)
(* IN) and out of (Out) every instruction.                                 *)
(*                                                                         *)
(* The vectors of the code are sequences here, so instruction 0 of the     *)
(* code is instruction 1 of the model.  One visit of an instruction by the *)
(* inner loop is one step.                                                 *)
(***************************************************************************)
EXTENDS Integers, Sequences, FiniteSets

CONSTANTS
  Names,   \* the registers and variables a function can mention
  Flows    \* the [GEN, KILL, successors] triples a run starts the solver on

VARIABLES
  GEN, KILL,      \* per instruction: names read, names written
  successors,     \* per instruction: set of instruction indices
  In, Out,        \* per instruction: the sets being computed
  i,              \* the instruction the sweep visits next, 0 at its end
  change,         \* some set changed in this sweep
  phase           \* "idle", "sweep" or "done"

vars == <<GEN, KILL, successors, In, Out, i, change, phase>>

-----------------------------------------------------------------------------
(***************************************************************************)
(* What liveness_analysis hands to the solver: three vectors of the same   *)
(* size; the successors of all but the last instruction are instructions   *)
(* of the function (the last one's entry is never looked at).              *)
(***************************************************************************)
IsFlow(g, k, s) ==
  /\ g \in Seq(SUBSET Names)
  /\ k \in [1..Len(g) -> SUBSET Names]
  /\ DOMAIN s = 1..Len(g)
  /\ \A j \in 1..Len(g) : j < Len(g) => s[j] \subseteq 1..Len(g)

ASSUME FlowsAssumption ==
  \A fl \in Flows :
    /\ fl = [GEN |-> fl.GEN, KILL |-> fl.KILL, successors |-> fl.successors]
    /\ IsFlow(fl.GEN, fl.KILL, fl.successors)

\* The names live into one of j's successors; the guard of the code leaves
\* the last instruction without any.
LiveIntoSuccessors(in, j) ==
  IF j < Len(GEN) THEN UNION {in[s] : s \in successors[j]} ELSE {}

Init ==
  /\ GEN = <<>> /\ KILL = <<>> /\ successors = <<>>
  /\ In = <<>> /\ Out = <<>>
  /\ i = 0
  /\ change = FALSE
  /\ phase = "idle"

\* generate_in_out is entered: In and Out start empty, the first sweep starts
\* at the last instruction.
Begin(g, k, s) ==
  /\ GEN' = g /\ KILL' = k /\ successors' = s
  /\ In'  = [j \in 1..Len(g) |-> {}]
  /\ Out' = [j \in 1..Len(g) |-> {}]
  /\ i' = Len(g)
  /\ change' = FALSE
  /\ phase' = "sweep"

\* Mutated forms of Visit: the change flag of the last visit only; a
\* transfer function that forgets KILL.
VisitForgetsChange ==
  /\ phase = "sweep"
  /\ i > 0
  /\ LET out == Out[i] \cup LiveIntoSuccessors(In, i)
         in  == GEN[i] \cup (out \ KILL[i])
     IN  /\ Out' = [Out EXCEPT ![i] = out]
         /\ In'  = [In EXCEPT ![i] = in]
         /\ change' = (out # Out[i] \/ in # In[i])
  /\ i' = i - 1
  /\ UNCHANGED <<GEN, KILL, successors, phase>>

VisitForgetsKill ==
  /\ phase = "sweep"
  /\ i > 0
  /\ LET out == Out[i] \cup LiveIntoSuccessors(In, i)
     IN  /\ Out' = [Out EXCEPT ![i] = out]
         /\ In'  = [In EXCEPT ![i] = GEN[i] \cup out]
         /\ change' = (change \/ out # Out[i] \/ GEN[i] \cup out # In[i])
  /\ i' = i - 1
  /\ UNCHANGED <<GEN, KILL, successors, phase>>

\* The body of the inner loop for instruction i.
Visit ==
  /\ phase = "sweep"
  /\ i > 0
  /\ LET out == Out[i] \cup LiveIntoSuccessors(In, i)
         in  == GEN[i] \cup (out \ KILL[i])
     IN  /\ Out' = [Out EXCEPT ![i] = out]
         /\ In'  = [In EXCEPT ![i] = in]
         /\ change' = (change \/ out # Out[i] \/ in # In[i])
  /\ i' = i - 1
  /\ UNCHANGED <<GEN, KILL, successors, phase>>

\* Mutated form of NextSweep: OUT starts empty in every sweep.
NextSweepClearsOut ==
  /\ phase = "sweep"
  /\ i = 0
  /\ change
  /\ i' = Len(GEN)
  /\ change' = FALSE
  /\ Out' = [j \in 1..Len(GEN) |-> {}]
  /\ UNCHANGED <<GEN, KILL, successors, In, phase>>

\* while (change): another sweep.
NextSweep ==
  /\ phase = "sweep"
  /\ i = 0
  /\ change
  /\ i' = Len(GEN)
  /\ change' = FALSE
  /\ UNCHANGED <<GEN, KILL, successors, In, Out, phase>>

\* Mutated form: one sweep is thought to be enough.
FinishAfterOneSweep ==
  /\ phase = "sweep"
  /\ i = 0
  /\ phase' = "done"
  /\ UNCHANGED <<GEN, KILL, successors, In, Out, i, change>>

\* A sweep without a change: the sets are returned.
Finish ==
  /\ phase = "sweep"
  /\ i = 0
  /\ ~change
  /\ phase' = "done"
  /\ UNCHANGED <<GEN, KILL, successors, In, Out, i, change>>

Solve == Visit \/ NextSweep \/ Finish

Next ==
  \/ /\ phase = "idle"
     /\ \E fl \in Flows : Begin(fl.GEN, fl.KILL, fl.successors)
  \/ Solve

\* The solver is a sequential loop: it is never preempted for good.
Spec == Init /\ [][Next]_vars /\ WF_vars(Solve)

-----------------------------------------------------------------------------
(***************************************************************************)
(* Properties                                                              *)
(***************************************************************************)

\* The type invariant: the solver's vectors keep the size of GEN and its
\* sweep index stays inside them.
TypeOK ==
  /\ IsFlow(GEN, KILL, successors)
  /\ In  \in [1..Len(GEN) -> SUBSET Names]
  /\ Out \in [1..Len(GEN) -> SUBSET Names]
  /\ i \in 0..Len(GEN)
  /\ change \in BOOLEAN
  /\ phase \in {"idle", "sweep", "done"}

\* in is closed under the data-flow equations at instruction j.
ClosedAt(in, j) ==
  GEN[j] \cup (LiveIntoSuccessors(in, j) \ KILL[j]) \subseteq in[j]

IsSolution(in) ==
  /\ in \in [1..Len(GEN) -> SUBSET Names]
  /\ \A j \in 1..Len(GEN) : ClosedAt(in, j)

\* When the do-while loop of generate_in_out exits, every instruction
\* satisfies both equations: Out is what is live into the successors and In
\* is GEN plus what of Out is not killed.  (One sweep without a change has to
\* be enough although each visit uses sets that later visits may change.)
SolvedWhenDone ==
  phase = "done" =>
    \A j \in 1..Len(GEN) :
      /\ Out[j] = LiveIntoSuccessors(In, j)
      /\ In[j]  = GEN[j] \cup (Out[j] \ KILL[j])

\* At no moment does the solver claim a name live that some solution of the
\* equations says is dead: no sweep order can leave a spurious live name
\* behind, although Out is only ever added to.
BelowEverySolution ==
  \A in \in [1..Len(GEN) -> SUBSET Names] :
    IsSolution(in) =>
      \A j \in 1..Len(GEN) :
        /\ In[j]  \subseteq in[j]
        /\ Out[j] \subseteq LiveIntoSuccessors(in, j)

\* Once the solver runs on a function no step removes a name from an In or an
\* Out set (In is recomputed by assignment, not by insertion), which is why
\* the loop ends.
SetsOnlyGrow ==
  [][phase # "idle" =>
       \A j \in 1..Len(GEN) :
         In[j] \subseteq In'[j] /\ Out[j] \subseteq Out'[j]]_vars

\* generate_in_out, seen from liveness_analysis, answers in one step with the
\* least solution of the equations of the function it is called on.
Flow == [GEN |-> GEN, KILL |-> KILL, successors |-> successors]

Promise == INSTANCE DataFlow WITH
             asked  <- IF phase = "idle" THEN {} ELSE {Flow},
             answer <- IF phase = "done" THEN {In} ELSE {}

ImplementsDataFlow == Promise!Spec

\* The do-while loop of generate_in_out ends on every flow graph, loops
\* included.
Terminates == phase = "sweep" ~> phase = "done"

=============================================================================
