---------------------------- MODULE Interference ----------------------------
(***************************************************************************)
(* The graph colouring of the L2 compiler, interference_analysis in        *)
(* src/L2/src/interference.cpp: it builds the interference graph of one    *)
(* function from its liveness, takes the variables out of the graph one by *)
(* one onto a stack, puts the registers back with their own colours, and   *)
(* then pops the stack, giving every variable the first colour none of its *)
(* neighbours has.  The variables left on the stack when no colour is free *)
(* are the ones its caller spills.                                         *)
(*                                                                         *)
(* Colour c of the code is colour c + 1 here: the position of a register   *)
(* in x86_registers.  The graphs are std::maps ordered by name; the order  *)
(* only breaks ties between candidates of the same degree.                 *)
(***************************************************************************)
EXTENDS Integers, Sequences, FiniteSets

CONSTANTS
  Registers,       \* x86_registers, a sequence
  ShiftRegister,   \* the register that holds shift amounts, rcx
  StackPointer,    \* rsp, neither a colour nor a candidate
  Precedes(_, _),  \* the order of the names; where it orders neither of two
                   \* names, either may come first
  Jobs             \* the [lines, variables, shifts] triples a run starts on

VARIABLES
  graph,        \* node -> set of neighbours, of the nodes in the graph
  adjacencies,  \* node -> set of all its interferences
  coloring,     \* node -> colour, of the nodes coloured so far
  stack,        \* the nodes taken out of the graph
  shifted,      \* the shift amounts of the function
  reg,          \* the next register to put back
  step          \* "idle", "simplify", "registers", "select" or "done"

vars == <<graph, adjacencies, coloring, stack, shifted, reg, step>>

-----------------------------------------------------------------------------
RegisterSet == {Registers[c] : c \in DOMAIN Registers}
NonSpill == RegisterSet \cup {StackPointer}

ASSUME RegistersAssumption ==
  /\ Registers \in Seq(RegisterSet)
  /\ \A c, d \in 1..Len(Registers) : Registers[c] = Registers[d] => c = d
  /\ ShiftRegister \in RegisterSet
  /\ StackPointer \notin RegisterSet

\* The parser accepts a variable, a number or rcx (which it renames) as a
\* shift amount.  A function mentions finitely many names.
ASSUME JobsAssumption ==
  \A job \in Jobs : job.shifts \cap NonSpill = {} /\ IsFiniteSet(UNION job.lines)

Colors == 1..Len(Registers)
ShiftColor == CHOOSE c \in Colors : Registers[c] = ShiftRegister

Assign(f, x, y) == [z \in DOMAIN f \cup {x} |-> IF z = x THEN y ELSE f[z]]

Init ==
  /\ graph = <<>> /\ adjacencies = <<>> /\ coloring = <<>>
  /\ stack = <<>>
  /\ shifted = {}
  /\ reg = 1
  /\ step = "idle"

Together(lines, n) == (UNION {l \in lines : n \in l}) \ {n}

\* generate_graph, then the shift amounts are coloured to rcx.  lines are the
\* sets of names that are live together.  The clique of the registers goes
\* into the adjacencies only.
GenerateGraph(lines, variables, shifts) ==
  LET nodes == (UNION lines) \cup variables
  IN  /\ graph' = [n \in nodes |-> Together(lines, n)]
      /\ adjacencies' =
           [n \in nodes \cup RegisterSet |->
              IF n \in RegisterSet
              THEN Together(lines, n) \cup (RegisterSet \ {n})
              ELSE Together(lines, n)]
      /\ coloring' = [n \in shifts |-> ShiftColor]
      /\ stack' = <<>>
      /\ shifted' = shifts
      /\ reg' = 1
      /\ step' = "simplify"

-----------------------------------------------------------------------------
(***************************************************************************)
(* Simplification                                                          *)
(***************************************************************************)
Candidates == DOMAIN graph \ NonSpill
Degree(n) == Cardinality(graph[n])
LowDegree == {n \in Candidates : Degree(n) < Len(Registers)}

\* get_candidate_node: the node of the highest degree below the number of
\* registers, or the node of the highest degree if all have more; of several,
\* the first.
IsCandidate(n) ==
  LET pool == IF LowDegree # {} THEN LowDegree ELSE Candidates
  IN  /\ n \in pool
      /\ \A m \in pool :
           \/ Degree(m) < Degree(n)
           \/ Degree(m) = Degree(n) /\ ~ Precedes(m, n)

\* remove_node: the loop that should take n out of its neighbours' sets walks
\* over copies of them, so only n's own entry goes.
RemoveNode(n) == [m \in DOMAIN graph \ {n} |-> graph[m]]

Simplify ==
  /\ step = "simplify"
  /\ \E n \in Candidates :
       /\ IsCandidate(n)
       /\ graph' = RemoveNode(n)
       /\ stack' = Append(stack, n)
  /\ UNCHANGED <<adjacencies, coloring, shifted, reg, step>>

EndSimplify ==
  /\ step = "simplify"
  /\ Candidates = {}
  /\ step' = "registers"
  /\ UNCHANGED <<graph, adjacencies, coloring, stack, shifted, reg>>

-----------------------------------------------------------------------------
(***************************************************************************)
(* Colouring                                                               *)
(***************************************************************************)

\* The neighbours n has in the graph once it is (back) in it.
NeighborsOf(n) ==
  (IF n \in DOMAIN graph THEN graph[n] ELSE {})
  \cup (adjacencies[n] \cap DOMAIN graph)

\* insert_node: n comes back with an edge to every node of the graph it
\* interferes with.
InsertNode(n) ==
  [m \in DOMAIN graph \cup {n} |->
     IF m = n THEN NeighborsOf(n)
     ELSE IF m \in adjacencies[n] THEN graph[m] \cup {n} ELSE graph[m]]

ColorRegister ==
  /\ step = "registers"
  /\ graph' = InsertNode(Registers[reg])
  /\ coloring' = Assign(coloring, Registers[reg], reg)
  /\ reg' = reg + 1
  /\ step' = IF reg = Len(Registers) THEN "select" ELSE "registers"
  /\ UNCHANGED <<adjacencies, stack, shifted>>

Top == stack[Len(stack)]

\* valid_color reads coloring[neighbor], which gives a neighbour that has no
\* colour (rsp) the first one.
UncoloredNeighbors == NeighborsOf(Top) \ DOMAIN coloring
Touch(extra) ==
  [m \in DOMAIN coloring \cup extra |->
     IF m \in DOMAIN coloring THEN coloring[m] ELSE 1]

NeighborColors ==
  {coloring[m] : m \in NeighborsOf(Top) \cap DOMAIN coloring}
  \cup (IF UncoloredNeighbors # {} THEN {1} ELSE {})

\* Mutated forms of ValidColors: the last register is never tried; only the
\* neighbours that have been popped count, not the registers.
ValidColorsButLast == Colors \ ({Len(Registers)} \cup NeighborColors)
ValidColorsForgetsRegisters ==
  Colors \ {coloring[m] :
              m \in (NeighborsOf(Top) \cap DOMAIN coloring) \ RegisterSet}

ValidColors == Colors \ NeighborColors

\* Mutated form of ColorNode: a precoloured node is not popped.
ColorNodeKeepsPrecolored ==
  /\ step = "select"
  /\ stack # <<>>
  /\ graph' = InsertNode(Top)
  /\ \E c \in ValidColors :
       /\ \A d \in ValidColors : c <= d
       /\ coloring' = IF Top \in DOMAIN coloring
                      THEN Touch(UncoloredNeighbors)
                      ELSE Assign(Touch(UncoloredNeighbors), Top, c)
  /\ stack' = IF Top \in DOMAIN coloring
              THEN stack ELSE SubSeq(stack, 1, Len(stack) - 1)
  /\ UNCHANGED <<adjacencies, shifted, reg, step>>

\* The top of the stack gets its first valid colour, unless it has one.
ColorNode ==
  /\ step = "select"
  /\ stack # <<>>
  /\ graph' = InsertNode(Top)
  /\ \E c \in ValidColors :
       /\ \A d \in ValidColors : c <= d
       /\ coloring' = IF Top \in DOMAIN coloring
                      THEN Touch(UncoloredNeighbors)
                      ELSE Assign(Touch(UncoloredNeighbors), Top, c)
  /\ stack' = SubSeq(stack, 1, Len(stack) - 1)
  /\ UNCHANGED <<adjacencies, shifted, reg, step>>

\* Mutated form: the node is popped before its colour is checked.
GiveUpPops ==
  /\ step = "select"
  /\ stack # <<>>
  /\ ValidColors = {}
  /\ graph' = InsertNode(Top)
  /\ \E extra \in SUBSET UncoloredNeighbors : coloring' = Touch(extra)
  /\ stack' = SubSeq(stack, 1, Len(stack) - 1)
  /\ step' = "done"
  /\ UNCHANGED <<adjacencies, shifted, reg>>

\* No colour is valid: the loop stops with the node still on the stack.  Each
\* neighbour without a colour may or may not have been looked at.
GiveUp ==
  /\ step = "select"
  /\ stack # <<>>
  /\ ValidColors = {}
  /\ graph' = InsertNode(Top)
  /\ \E extra \in SUBSET UncoloredNeighbors : coloring' = Touch(extra)
  /\ step' = "done"
  /\ UNCHANGED <<adjacencies, stack, shifted, reg>>

AllColored ==
  /\ step = "select"
  /\ stack = <<>>
  /\ step' = "done"
  /\ UNCHANGED <<graph, adjacencies, coloring, stack, shifted, reg>>

Analyse ==
  \/ Simplify \/ EndSimplify
  \/ ColorRegister
  \/ ColorNode \/ GiveUp \/ AllColored

Next ==
  \/ /\ step = "idle"
     /\ \E job \in Jobs : GenerateGraph(job.lines, job.variables, job.shifts)
  \/ Analyse

Spec == Init /\ [][Next]_vars /\ WF_vars(Analyse)

-----------------------------------------------------------------------------
(***************************************************************************)
(* Properties                                                              *)
(***************************************************************************)
OnStack == {stack[k] : k \in DOMAIN stack}
Variables == DOMAIN adjacencies \ NonSpill

TypeOK ==
  /\ step \in {"idle", "simplify", "registers", "select", "done"}
  /\ stack \in Seq(Variables)
  /\ reg \in 1..(Len(Registers) + 1)
  /\ \A n \in DOMAIN coloring : coloring[n] \in Colors
  /\ DOMAIN graph \subseteq DOMAIN adjacencies
  /\ \A n \in DOMAIN adjacencies : adjacencies[n] \subseteq DOMAIN adjacencies

\* Two names that are live together never share a register, the registers
\* themselves included, except through the precoloured shift amounts, and
\* then the shared register is the one shift amounts are put in.  (rsp is
\* left out: it has no register of its own.)
ClashOnlyOnShift ==
  \A n \in DOMAIN coloring, m \in DOMAIN coloring :
    /\ StackPointer \notin {n, m}
    /\ n \in DOMAIN adjacencies
    /\ m \in adjacencies[n]
    /\ coloring[n] = coloring[m]
    => coloring[n] = ShiftColor /\ {n, m} \cap shifted # {}

\* Every variable is at any time in exactly one place, the graph or the stack
\* (the node the analysis gave up on is in both), and once the registers are
\* back every variable off the stack has a register: none is forgotten when
\* the stack is unwound, so translate_to_L1 meets no uncoloured variable.
NoVariableLost ==
  step # "idle" =>
    /\ \A j, k \in DOMAIN stack : stack[j] = stack[k] => j = k
    /\ \A n \in Variables :
         \/ n \in DOMAIN graph /\ n \notin OnStack
         \/ n \notin DOMAIN graph /\ n \in OnStack
         \/ step = "done" /\ stack # <<>> /\ n = Top
    /\ step \in {"select", "done"} =>
         \A n \in Variables \ OnStack : n \in DOMAIN coloring

\* A function whose variables all interfere with fewer names than there are
\* registers is coloured without a spill, whatever order the candidates are
\* taken in and whatever stale degrees steer that order.
NoNeedlessSpill ==
  /\ step = "done"
  /\ \A n \in Variables : Cardinality(adjacencies[n]) < Len(Registers)
  => stack = <<>>

\* A colour once given during the selection is final; in particular a shift
\* amount keeps rcx when its turn on the stack comes.
ColorsAreFinal ==
  [][step = "select" =>
       /\ DOMAIN coloring \subseteq DOMAIN coloring'
       /\ \A n \in DOMAIN coloring : coloring'[n] = coloring[n]]_vars

\* Not an invariant.  remove_node's comment: "removes a node from the graph, updating the
\* adjacencies of all others".  During simplification no node of the graph
\* lists a neighbour that has been removed.
NoStaleNeighbor ==
  step = "simplify" =>
    \A n \in DOMAIN graph : graph[n] \subseteq DOMAIN graph

\* The three loops of the analysis end.
Terminates == step = "simplify" ~> step = "done"

=============================================================================
