--------------------------- MODULE LivenessProofs ---------------------------
(***************************************************************************)
(* Proofs about the data-flow solver of Liveness: type correctness, that   *)
(* what it returns solves the data-flow equations, that it is below every  *)
(* solution (so it is the least one), and that the sets only grow.         *)
(***************************************************************************)
EXTENDS Liveness, TLAPS

-----------------------------------------------------------------------------
(***************************************************************************)
(* Type correctness                                                        *)
(***************************************************************************)

LEMMA BeginTypeOK ==
  ASSUME TypeOK, NEW fl \in Flows, Begin(fl.GEN, fl.KILL, fl.successors)
  PROVE  TypeOK'
<1> DEFINE g == fl.GEN
           k == fl.KILL
           s == fl.successors
<1>1. IsFlow(g, k, s)
  BY FlowsAssumption
<1> HIDE DEF g, k, s
<1>2. Len(g) \in Nat
  BY <1>1 DEF IsFlow
<1>3. /\ GEN' = g /\ KILL' = k /\ successors' = s
      /\ In'  = [j \in 1..Len(g) |-> {}]
      /\ Out' = [j \in 1..Len(g) |-> {}]
      /\ i' = Len(g) /\ change' = FALSE /\ phase' = "sweep"
  BY DEF Begin, g, k, s
<1>4. In' \in [1..Len(g) -> SUBSET Names] /\ Out' \in [1..Len(g) -> SUBSET Names]
  BY <1>3
<1>5. IsFlow(GEN, KILL, successors)'
  BY <1>1, <1>3 DEF IsFlow
<1>6. /\ In' \in [1..Len(GEN') -> SUBSET Names]
      /\ Out' \in [1..Len(GEN') -> SUBSET Names]
      /\ i' \in 0..Len(GEN')
  BY <1>2, <1>3, <1>4
<1>7. change' \in BOOLEAN /\ phase' \in {"idle", "sweep", "done"}
  BY <1>3
<1>8. QED
  BY <1>5, <1>6, <1>7 DEF TypeOK

LEMMA VisitTypeOK ==
  ASSUME TypeOK, Visit
  PROVE  TypeOK'
<1> DEFINE out == Out[i] \cup LiveIntoSuccessors(In, i)
<1>1. i \in 1..Len(GEN)
  BY DEF TypeOK, Visit
<1>2. LiveIntoSuccessors(In, i) \subseteq Names
  BY <1>1 DEF TypeOK, IsFlow, LiveIntoSuccessors
<1>3. out \in SUBSET Names /\ GEN[i] \cup (out \ KILL[i]) \in SUBSET Names
  BY <1>1, <1>2 DEF TypeOK, IsFlow
<1>4. /\ Out' = [Out EXCEPT ![i] = out]
      /\ In' = [In EXCEPT ![i] = GEN[i] \cup (out \ KILL[i])]
      /\ change' \in BOOLEAN
  BY DEF Visit, TypeOK
<1> HIDE DEF out
<1>5. /\ Out' \in [1..Len(GEN) -> SUBSET Names]
      /\ In' \in [1..Len(GEN) -> SUBSET Names]
  BY <1>1, <1>3, <1>4 DEF TypeOK
<1>6. /\ GEN' = GEN /\ KILL' = KILL /\ successors' = successors
      /\ phase' = phase /\ i' = i - 1
  BY DEF Visit
<1>7. IsFlow(GEN, KILL, successors)'
  BY <1>6 DEF TypeOK, IsFlow
<1>8. i' \in 0..Len(GEN)
  BY <1>1, <1>6 DEF TypeOK, IsFlow
<1>9. QED
  BY <1>4, <1>5, <1>6, <1>7, <1>8 DEF TypeOK

\* The solver's vectors keep the size of GEN, and its sweep index stays inside
\* them, whatever function it is given.
THEOREM TypeCorrect == Spec => []TypeOK
<1>1. Init => TypeOK
  <2> SUFFICES ASSUME Init PROVE TypeOK
    OBVIOUS
  <2>1. /\ Len(GEN) = 0
        /\ GEN \in Seq(SUBSET Names)
        /\ KILL \in Seq(SUBSET Names) /\ Len(KILL) = 0
        /\ In \in Seq(SUBSET Names) /\ Len(In) = 0
        /\ Out \in Seq(SUBSET Names) /\ Len(Out) = 0
        /\ DOMAIN successors = 1..0
    BY DEF Init
  <2>2. /\ KILL \in [1..Len(GEN) -> SUBSET Names]
        /\ In \in [1..Len(GEN) -> SUBSET Names]
        /\ Out \in [1..Len(GEN) -> SUBSET Names]
    BY <2>1
  <2>3. IsFlow(GEN, KILL, successors)
    BY <2>1, <2>2 DEF IsFlow
  <2>4. i \in 0..Len(GEN)
    BY <2>1 DEF Init
  <2>5. change \in BOOLEAN /\ phase \in {"idle", "sweep", "done"}
    BY DEF Init
  <2>6. QED
    BY <2>2, <2>3, <2>4, <2>5 DEF TypeOK
<1>2. TypeOK /\ [Next]_vars => TypeOK'
  <2> SUFFICES ASSUME TypeOK, [Next]_vars
               PROVE  TypeOK'
    OBVIOUS
  <2>1. CASE \E fl \in Flows : Begin(fl.GEN, fl.KILL, fl.successors)
    BY <2>1, BeginTypeOK
  <2>2. CASE Visit
    BY <2>2, VisitTypeOK
  <2>3. CASE NextSweep
    <3>1. Len(GEN) \in Nat
      BY DEF TypeOK, IsFlow
    <3>2. i' \in 0..Len(GEN)
      BY <2>3, <3>1 DEF NextSweep
    <3>3. change' \in BOOLEAN
      BY <2>3 DEF NextSweep
    <3>4. QED
      BY <2>3, <3>2, <3>3 DEF NextSweep, TypeOK, IsFlow
  <2>4. CASE Finish
    BY <2>4 DEF Finish, TypeOK, IsFlow
  <2>5. CASE UNCHANGED vars
    BY <2>5 DEF vars, TypeOK, IsFlow
  <2>6. QED
    BY <2>1, <2>2, <2>3, <2>4, <2>5 DEF Next, Solve
<1>3. QED
  BY <1>1, <1>2, PTL DEF Spec

-----------------------------------------------------------------------------
(***************************************************************************)
(* The inductive invariant.  The sets never exceed what their equations    *)
(* allow, and while the current sweep has seen no change the instructions  *)
(* it has visited satisfy both equations.  The bounds are what make one    *)
(* quiet sweep enough: without them OUT, which only ever collects, could   *)
(* hold names that are no longer live into a successor.                    *)
(***************************************************************************)
SolvedAt(j) ==
  /\ Out[j] = LiveIntoSuccessors(In, j)
  /\ In[j]  = GEN[j] \cup (Out[j] \ KILL[j])

Bounded ==
  \A j \in 1..Len(GEN) :
    /\ In[j]  \subseteq GEN[j] \cup (Out[j] \ KILL[j])
    /\ Out[j] \subseteq LiveIntoSuccessors(In, j)

QuietSweepSolves ==
  phase # "idle" /\ change = FALSE =>
    \A j \in 1..Len(GEN) : j > i => SolvedAt(j)

DoneIsQuiet == phase = "done" => i = 0 /\ change = FALSE

IInv == Bounded /\ QuietSweepSolves /\ DoneIsQuiet

\* What is live into the successors grows with the sets of the successors.
LEMMA LiveIntoSuccessorsMonotone ==
  ASSUME TypeOK, NEW a, NEW b, NEW j \in 1..Len(GEN),
         \A s \in 1..Len(GEN) : a[s] \subseteq b[s]
  PROVE  LiveIntoSuccessors(a, j) \subseteq LiveIntoSuccessors(b, j)
BY DEF TypeOK, IsFlow, LiveIntoSuccessors

\* What a visit does, with its LET definitions resolved.
LEMMA VisitEffect ==
  ASSUME TypeOK, Visit
  PROVE  LET out == Out[i] \cup LiveIntoSuccessors(In, i)
             in  == GEN[i] \cup (out \ KILL[i])
         IN  /\ i \in 1..Len(GEN)
             /\ Out'[i] = out
             /\ In'[i] = in
             /\ \A j \in 1..Len(GEN) : j # i => In'[j] = In[j] /\ Out'[j] = Out[j]
             /\ change' = FALSE =>
                  change = FALSE /\ out = Out[i] /\ in = In[i]
             /\ i' = i - 1
             /\ phase = "sweep" /\ phase' = "sweep"
             /\ GEN' = GEN /\ KILL' = KILL /\ successors' = successors
<1> DEFINE out == Out[i] \cup LiveIntoSuccessors(In, i)
           in == GEN[i] \cup (out \ KILL[i])
<1>1. i \in 1..Len(GEN)
  BY DEF TypeOK, Visit
<1>2. /\ Out' = [Out EXCEPT ![i] = out]
      /\ In' = [In EXCEPT ![i] = in]
      /\ i' = i - 1
      /\ phase = "sweep" /\ phase' = "sweep"
      /\ GEN' = GEN /\ KILL' = KILL /\ successors' = successors
  BY DEF Visit
<1>3. change' = FALSE => change = FALSE /\ out = Out[i] /\ in = In[i]
  BY DEF Visit, TypeOK
<1> HIDE DEF out, in
<1>4. /\ Out'[i] = out
      /\ In'[i] = in
      /\ \A j \in 1..Len(GEN) : j # i => In'[j] = In[j] /\ Out'[j] = Out[j]
  BY <1>1, <1>2 DEF TypeOK
<1>5. QED
  BY <1>1, <1>2, <1>3, <1>4 DEF out, in

\* Visiting an instruction only adds to its sets.
LEMMA VisitGrows ==
  ASSUME TypeOK, Bounded, Visit
  PROVE  \A j \in 1..Len(GEN) : In[j] \subseteq In'[j] /\ Out[j] \subseteq Out'[j]
BY VisitEffect DEF Bounded

LEMMA VisitIInv ==
  ASSUME TypeOK, IInv, Visit
  PROVE  IInv'
<1> DEFINE out == Out[i] \cup LiveIntoSuccessors(In, i)
           in == GEN[i] \cup (out \ KILL[i])
<1>1. /\ i \in 1..Len(GEN)
      /\ Out'[i] = out
      /\ In'[i] = in
      /\ \A j \in 1..Len(GEN) : j # i => In'[j] = In[j] /\ Out'[j] = Out[j]
      /\ change' = FALSE => change = FALSE /\ out = Out[i] /\ in = In[i]
      /\ i' = i - 1
      /\ phase = "sweep" /\ phase' = "sweep"
      /\ GEN' = GEN /\ KILL' = KILL /\ successors' = successors
  BY VisitEffect
<1>2. \A j \in 1..Len(GEN) : In[j] \subseteq In'[j] /\ Out[j] \subseteq Out'[j]
  BY VisitGrows DEF IInv
<1>3. \A j \in 1..Len(GEN) :
        LiveIntoSuccessors(In, j) \subseteq LiveIntoSuccessors(In', j)
  BY <1>2, LiveIntoSuccessorsMonotone
<1>4. \A f, j : LiveIntoSuccessors(f, j)' = LiveIntoSuccessors(f', j)
  BY <1>1 DEF LiveIntoSuccessors
<1>5. Bounded'
  <2> SUFFICES ASSUME NEW j \in 1..Len(GEN)
               PROVE  /\ In'[j]  \subseteq GEN[j] \cup (Out'[j] \ KILL[j])
                      /\ Out'[j] \subseteq LiveIntoSuccessors(In', j)
    BY <1>1, <1>4 DEF Bounded, LiveIntoSuccessors
  <2>1. CASE j = i
    BY <2>1, <1>1, <1>3 DEF IInv, Bounded
  <2>2. CASE j # i
    BY <2>2, <1>1, <1>3 DEF IInv, Bounded
  <2>3. QED
    BY <2>1, <2>2
<1>6. QuietSweepSolves'
  <2> SUFFICES ASSUME change' = FALSE, NEW j \in 1..Len(GEN), j > i - 1
               PROVE  SolvedAt(j)'
    BY <1>1 DEF QuietSweepSolves
  <2>1. \A k \in 1..Len(GEN) : In'[k] = In[k] /\ Out'[k] = Out[k]
    BY <1>1
  <2>2. LiveIntoSuccessors(In, j)' = LiveIntoSuccessors(In, j)
    BY <1>1, <2>1 DEF LiveIntoSuccessors, TypeOK, IsFlow
  <2>3. SolvedAt(j)
    <3>1. CASE j = i
      BY <3>1, <1>1 DEF SolvedAt, IInv, Bounded
    <3>2. CASE j > i
      BY <3>2, <1>1 DEF IInv, QuietSweepSolves
    <3>3. QED
      BY <3>1, <3>2, <1>1 DEF TypeOK, IsFlow
  <2>4. QED
    BY <1>1, <2>1, <2>2, <2>3 DEF SolvedAt
<1>7. DoneIsQuiet'
  BY <1>1 DEF DoneIsQuiet
<1>8. QED
  BY <1>5, <1>6, <1>7 DEF IInv

LEMMA BeginIInv ==
  ASSUME TypeOK, NEW fl \in Flows, Begin(fl.GEN, fl.KILL, fl.successors)
  PROVE  IInv'
<1>1. IsFlow(fl.GEN, fl.KILL, fl.successors)
  BY FlowsAssumption
<1>2. Len(fl.GEN) \in Nat
  BY <1>1 DEF IsFlow
<1>3. QED
  BY <1>2 DEF Begin, IInv, Bounded, QuietSweepSolves, DoneIsQuiet

\* The bounds and the quiet-sweep property hold at every step of the solver.
THEOREM Strengthened == Spec => []IInv
<1>1. Init => IInv
  <2> SUFFICES ASSUME Init PROVE IInv
    OBVIOUS
  <2>1. Len(GEN) = 0
    BY DEF Init
  <2>2. QED
    BY <2>1 DEF Init, IInv, Bounded, QuietSweepSolves, DoneIsQuiet
<1>2. TypeOK /\ IInv /\ [Next]_vars => IInv'
  <2> SUFFICES ASSUME TypeOK, IInv, [Next]_vars
               PROVE  IInv'
    OBVIOUS
  <2>1. CASE \E fl \in Flows : Begin(fl.GEN, fl.KILL, fl.successors)
    BY <2>1, BeginIInv
  <2>2. CASE Visit
    BY <2>2, VisitIInv
  <2>3. CASE NextSweep
    <3>1. /\ Bounded'
          /\ i' = Len(GEN) /\ GEN' = GEN /\ phase' = "sweep"
      BY <2>3 DEF NextSweep, IInv, Bounded, LiveIntoSuccessors
    <3>2. Len(GEN) \in Nat
      BY DEF TypeOK, IsFlow
    <3>3. QuietSweepSolves' /\ DoneIsQuiet'
      BY <3>1, <3>2 DEF QuietSweepSolves, DoneIsQuiet
    <3>4. QED
      BY <3>1, <3>3 DEF IInv
  <2>4. CASE Finish
    <3>1. change = FALSE
      BY <2>4 DEF Finish, TypeOK
    <3>2. /\ i = 0 /\ phase = "sweep" /\ phase' = "done"
          /\ UNCHANGED <<GEN, KILL, successors, In, Out, i, change>>
      BY <2>4 DEF Finish
    <3>3. Bounded' /\ QuietSweepSolves'
      BY <3>1, <3>2 DEF IInv, Bounded, QuietSweepSolves, SolvedAt,
                        LiveIntoSuccessors
    <3>4. DoneIsQuiet'
      BY <3>1, <3>2 DEF DoneIsQuiet
    <3>5. QED
      BY <3>3, <3>4 DEF IInv
  <2>5. CASE UNCHANGED vars
    <3>1. UNCHANGED <<GEN, KILL, successors, In, Out, i, change, phase>>
      BY <2>5 DEF vars
    <3>2. Bounded' /\ DoneIsQuiet'
      BY <3>1 DEF IInv, Bounded, DoneIsQuiet, LiveIntoSuccessors
    <3>3. QuietSweepSolves'
      BY <3>1 DEF IInv, QuietSweepSolves, SolvedAt, LiveIntoSuccessors
    <3>4. QED
      BY <3>2, <3>3 DEF IInv
  <2>6. QED
    BY <2>1, <2>2, <2>3, <2>4, <2>5 DEF Next, Solve
<1>3. QED
  BY <1>1, <1>2, TypeCorrect, PTL DEF Spec

-----------------------------------------------------------------------------
(***************************************************************************)
(* The results                                                             *)
(***************************************************************************)

\* What generate_in_out returns satisfies both data-flow equations at every
\* instruction, for every flow graph.
THEOREM Solved == Spec => []SolvedWhenDone
<1>1. TypeOK /\ IInv => SolvedWhenDone
  BY DEF TypeOK, IsFlow, IInv, DoneIsQuiet, QuietSweepSolves, SolvedAt,
         SolvedWhenDone
<1>2. QED
  BY <1>1, TypeCorrect, Strengthened, PTL

\* No step takes a name out of a set the solver has computed.
THEOREM OnlyGrow == Spec => SetsOnlyGrow
<1>1. TypeOK /\ IInv /\ [Next]_vars =>
        [phase # "idle" =>
           \A j \in 1..Len(GEN) :
             In[j] \subseteq In'[j] /\ Out[j] \subseteq Out'[j]]_vars
  <2> SUFFICES ASSUME TypeOK, IInv, Next, phase # "idle",
                      NEW j \in 1..Len(GEN)
               PROVE  In[j] \subseteq In'[j] /\ Out[j] \subseteq Out'[j]
    OBVIOUS
  <2>1. CASE Visit
    BY <2>1, VisitGrows DEF IInv
  <2>2. CASE NextSweep \/ Finish
    BY <2>2 DEF NextSweep, Finish
  <2>3. QED
    BY <2>1, <2>2 DEF Next, Solve
<1>2. QED
  BY <1>1, TypeCorrect, Strengthened, PTL DEF Spec, SetsOnlyGrow

\* One visit keeps the sets below a given solution.
LEMMA VisitBelow ==
  ASSUME TypeOK, Visit, NEW in, IsSolution(in),
         \A j \in 1..Len(GEN) :
           In[j] \subseteq in[j] /\ Out[j] \subseteq LiveIntoSuccessors(in, j)
  PROVE  \A j \in 1..Len(GEN) :
           In'[j] \subseteq in[j] /\ Out'[j] \subseteq LiveIntoSuccessors(in, j)
<1>1. i \in 1..Len(GEN)
  BY VisitEffect
<1>2. LiveIntoSuccessors(In, i) \subseteq LiveIntoSuccessors(in, i)
  BY <1>1, LiveIntoSuccessorsMonotone
<1>3. Out'[i] \subseteq LiveIntoSuccessors(in, i)
  BY <1>1, <1>2, VisitEffect
<1>4. In'[i] = GEN[i] \cup (Out'[i] \ KILL[i])
  BY VisitEffect
<1>5. In'[i] \subseteq in[i]
  BY <1>1, <1>3, <1>4 DEF IsSolution, ClosedAt
<1>6. QED
  BY <1>1, <1>3, <1>5, VisitEffect

\* The solver never overshoots: what it returns is the least solution, since
\* it is one (Solved) and lies below all others.
THEOREM Least == Spec => []BelowEverySolution
<1>1. Init => BelowEverySolution
  <2> SUFFICES ASSUME Init PROVE BelowEverySolution
    OBVIOUS
  <2>1. Len(GEN) = 0
    BY DEF Init
  <2>2. QED
    BY <2>1 DEF BelowEverySolution
<1>2. TypeOK /\ BelowEverySolution /\ [Next]_vars => BelowEverySolution'
  <2> SUFFICES ASSUME TypeOK, BelowEverySolution, [Next]_vars
               PROVE  BelowEverySolution'
    OBVIOUS
  <2>1. CASE \E fl \in Flows : Begin(fl.GEN, fl.KILL, fl.successors)
    <3> SUFFICES ASSUME NEW fl \in Flows,
                        Begin(fl.GEN, fl.KILL, fl.successors)
                 PROVE  BelowEverySolution'
      BY <2>1
    <3>1. IsFlow(fl.GEN, fl.KILL, fl.successors)
      BY FlowsAssumption
    <3>2. Len(fl.GEN) \in Nat
      BY <3>1 DEF IsFlow
    <3>3. QED
      BY <3>2 DEF Begin, BelowEverySolution
  <2>2. CASE Visit
    <3>1. GEN' = GEN /\ KILL' = KILL /\ successors' = successors
      BY <2>2 DEF Visit
    <3>2. \A in : IsSolution(in)' = IsSolution(in')
      BY <3>1 DEF IsSolution, ClosedAt, LiveIntoSuccessors
    <3> SUFFICES ASSUME NEW in \in [1..Len(GEN) -> SUBSET Names],
                        IsSolution(in)
                 PROVE  \A j \in 1..Len(GEN) :
                          /\ In'[j] \subseteq in[j]
                          /\ Out'[j] \subseteq LiveIntoSuccessors(in, j)
      BY <3>1 DEF BelowEverySolution, IsSolution, ClosedAt, LiveIntoSuccessors
    <3>3. QED
      BY <2>2, VisitBelow DEF BelowEverySolution
  <2>3. CASE NextSweep \/ Finish \/ UNCHANGED vars
    BY <2>3 DEF NextSweep, Finish, vars, BelowEverySolution, IsSolution,
                ClosedAt, LiveIntoSuccessors
  <2>4. QED
    BY <2>1, <2>2, <2>3 DEF Next, Solve
<1>3. QED
  BY <1>1, <1>2, TypeCorrect, PTL DEF Spec

\* generate_in_out implements DataFlow: every step of the solver is invisible
\* to its caller but the first, which takes the question, and the last, which
\* answers it with the least solution.
THEOREM Implements == Spec => ImplementsDataFlow
<1>1. Init => Promise!Init
  BY DEF Init, Promise!Init
<1>2. TypeOK /\ IInv /\ BelowEverySolution /\ [Next]_vars
        => [Promise!Next]_(Promise!vars)
  <2> SUFFICES ASSUME TypeOK, IInv, BelowEverySolution,
                      [Next]_vars
               PROVE  Promise!Next \/ UNCHANGED Promise!vars
    OBVIOUS
  <2>1. CASE phase = "idle" /\
             \E fl \in Flows : Begin(fl.GEN, fl.KILL, fl.successors)
    <3>1. PICK fl \in Flows : Begin(fl.GEN, fl.KILL, fl.successors)
      BY <2>1
    <3>2. fl = [GEN |-> fl.GEN, KILL |-> fl.KILL, successors |-> fl.successors]
      BY FlowsAssumption
    <3>3. Flow' = fl /\ phase' = "sweep"
      BY <3>1, <3>2 DEF Begin, Flow
    <3>4. Promise!Ask
      BY <2>1, <3>3 DEF Promise!Ask
    <3>5. QED
      BY <3>4 DEF Promise!Next
  <2>2. CASE Finish
    <3>1. /\ phase = "sweep" /\ phase' = "done" /\ In' = In
          /\ Flow' = Flow
          /\ GEN' = GEN /\ KILL' = KILL /\ successors' = successors
      BY <2>2 DEF Finish, Flow
    <3>2. Promise!IsSolution(Flow, In)
      <4>1. \A j \in 1..Len(GEN) :
              In[j] = GEN[j] \cup (LiveIntoSuccessors(In, j) \ KILL[j])
        <5>1. i = 0 /\ change = FALSE
          BY <2>2 DEF Finish, TypeOK
        <5>2. QED
          BY <3>1, <5>1 DEF IInv, QuietSweepSolves, SolvedAt
      <4>2. In \in [1..Len(GEN) -> SUBSET Names]
        BY DEF TypeOK
      <4>3. \A j : Promise!LiveOut(Flow, In, j) = LiveIntoSuccessors(In, j)
        BY DEF LiveIntoSuccessors, Flow, Promise!LiveOut
      <4>4. QED
        BY <4>1, <4>2, <4>3 DEF Flow, Promise!IsSolution
    <3>3. ASSUME NEW other \in [1..Len(GEN) -> SUBSET Names],
                 Promise!IsSolution(Flow, other)
          PROVE  \A j \in 1..Len(GEN) : In[j] \subseteq other[j]
      <4>1. IsSolution(other)
        BY <3>1, <3>3 DEF IsSolution, ClosedAt, LiveIntoSuccessors, Flow,
                          Promise!IsSolution, Promise!LiveOut
      <4>2. QED
        BY <3>1, <4>1 DEF BelowEverySolution
    <3>4. Promise!IsLeastSolution(Flow, In)
      BY <3>2, <3>3 DEF Promise!IsLeastSolution, Flow
    <3>5. Promise!Answer
      BY <3>1, <3>4 DEF Promise!Answer
    <3>6. QED
      BY <3>5 DEF Promise!Next
  <2>3. CASE Visit \/ NextSweep \/ UNCHANGED vars
    <3>1. /\ GEN' = GEN /\ KILL' = KILL /\ successors' = successors
          /\ phase' = phase
          /\ phase = "done" => In' = In
      BY <2>3 DEF Visit, NextSweep, vars
    <3>2. QED
      BY <3>1 DEF Promise!vars, Flow
  <2>4. QED
    BY <2>1, <2>2, <2>3 DEF Next, Solve
<1>3. QED
  BY <1>1, <1>2, TypeCorrect, Strengthened, Least, PTL
     DEF Spec, ImplementsDataFlow, Promise!Spec

=============================================================================
