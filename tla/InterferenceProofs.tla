------------------------- MODULE InterferenceProofs -------------------------
(***************************************************************************)
(* Proofs about the graph colouring of Interference, for any number of     *)
(* registers and any interference graph: no two names that are live        *)
(* together share a register except through a shift amount, no variable is *)
(* lost between the graph and the stack, and none is spilled while         *)
(* variables have fewer neighbours than there are registers.               *)
(***************************************************************************)
EXTENDS Interference, FiniteSetTheorems, FunctionTheorems, TLAPS

-----------------------------------------------------------------------------
(***************************************************************************)
(* The inductive invariant                                                 *)
(***************************************************************************)

\* Interference is symmetric and nothing interferes with itself.
AdjacencyInv ==
  /\ \A n \in DOMAIN adjacencies :
       /\ adjacencies[n] \subseteq DOMAIN adjacencies
       /\ n \notin adjacencies[n]
       /\ \A m \in adjacencies[n] : n \in adjacencies[m]
  /\ step # "idle" => RegisterSet \subseteq DOMAIN adjacencies

\* Where the variables are: the first two parts of NoVariableLost.
PlaceInv ==
  step # "idle" =>
    /\ \A j, k \in DOMAIN stack : stack[j] = stack[k] => j = k
    /\ \A n \in Variables :
         \/ n \in DOMAIN graph /\ n \notin OnStack
         \/ n \notin DOMAIN graph /\ n \in OnStack
         \/ step = "done" /\ stack # <<>> /\ n = Top

\* How far the registers have been put back.
RegInv ==
  /\ step \in {"idle", "simplify"} => reg = 1
  /\ step = "registers" => reg \in Colors /\ Candidates = {}
  /\ step \in {"select", "done"} => reg = Len(Registers) + 1

\* What is coloured, and with what: the shift amounts, the registers put back
\* so far, and otherwise only nodes that are in the graph.
ColorInv ==
  step # "idle" =>
    /\ shifted \cap NonSpill = {}
    /\ \A n \in shifted : n \in DOMAIN coloring /\ coloring[n] = ShiftColor
    /\ \A n \in DOMAIN coloring : n \in shifted \/ n \in DOMAIN graph
    /\ \A c \in Colors :
         c < reg => /\ Registers[c] \in DOMAIN coloring
                    /\ coloring[Registers[c]] = c
    /\ step = "simplify" => DOMAIN coloring = shifted
    /\ step = "registers" =>
         \A n \in DOMAIN coloring :
           n \in shifted \/ \E c \in Colors : c < reg /\ n = Registers[c]
    /\ step \in {"select", "done"} =>
         \A n \in Variables \ OnStack : n \in DOMAIN coloring

IInv ==
  TypeOK /\ AdjacencyInv /\ PlaceInv /\ RegInv /\ ColorInv /\ ClashOnlyOnShift

-----------------------------------------------------------------------------
(***************************************************************************)
(* Lemmas                                                                  *)
(***************************************************************************)
LEMMA RegistersFacts ==
  /\ Len(Registers) \in Nat /\ 1 \in Colors
  /\ \A c \in Colors : Registers[c] \in RegisterSet
  /\ \A n \in RegisterSet : \E c \in Colors : Registers[c] = n
  /\ ShiftColor \in Colors
<1>1. Len(Registers) \in Nat /\ DOMAIN Registers = 1..Len(Registers)
  BY RegistersAssumption
<1>2. \A n \in RegisterSet : \E c \in Colors : Registers[c] = n
  BY <1>1 DEF RegisterSet, Colors
<1>3. \A c \in Colors : Registers[c] \in RegisterSet
  BY <1>1 DEF RegisterSet, Colors
<1>4. \E c \in Colors : Registers[c] = ShiftRegister
  BY <1>2, RegistersAssumption
<1>5. ShiftColor \in Colors
  BY <1>4 DEF ShiftColor
<1>6. 1 \in Colors
  BY <1>1, <1>5 DEF Colors
<1>7. QED
  BY <1>1, <1>2, <1>3, <1>5, <1>6

\* generate_graph establishes the invariant.
LEMMA GenerateIInv ==
  ASSUME NEW lines, NEW variables, NEW shifts, shifts \cap NonSpill = {},
         GenerateGraph(lines, variables, shifts)
  PROVE  IInv'
<1> DEFINE nodes == (UNION lines) \cup variables
<1>1. /\ graph' = [n \in nodes |-> Together(lines, n)]
      /\ adjacencies' =
           [n \in nodes \cup RegisterSet |->
              IF n \in RegisterSet
              THEN Together(lines, n) \cup (RegisterSet \ {n})
              ELSE Together(lines, n)]
      /\ coloring' = [n \in shifts |-> ShiftColor]
      /\ stack' = <<>> /\ shifted' = shifts /\ reg' = 1 /\ step' = "simplify"
  BY DEF GenerateGraph
<1>2. \A n : /\ Together(lines, n) \subseteq UNION lines
             /\ n \notin Together(lines, n)
             /\ \A m \in Together(lines, n) : n \in Together(lines, m)
  BY DEF Together
<1>3. UNION lines \subseteq nodes
  OBVIOUS
<1> HIDE DEF nodes
<1>4. AdjacencyInv'
  BY <1>1, <1>2, <1>3 DEF AdjacencyInv
<1>5. /\ DOMAIN graph' \subseteq DOMAIN adjacencies'
      /\ \A n \in DOMAIN coloring' : coloring'[n] \in Colors
  BY <1>1, RegistersFacts
<1>6. reg' \in 1..(Len(Registers) + 1)
  BY <1>1, RegistersFacts
<1>7. TypeOK'
  <2>1. stack' \in Seq(Variables')
    BY <1>1
  <2>2. \A n \in DOMAIN adjacencies' : adjacencies'[n] \subseteq DOMAIN adjacencies'
    BY <1>4 DEF AdjacencyInv
  <2>3. step' \in {"idle", "simplify", "registers", "select", "done"}
    BY <1>1
  <2>4. QED
    BY <1>5, <1>6, <2>1, <2>2, <2>3 DEF TypeOK
<1>8. PlaceInv'
  <2>1. \A n \in Variables' : n \in DOMAIN graph'
    BY <1>1 DEF Variables, NonSpill
  <2>2. DOMAIN stack' = {} /\ OnStack' = {}
    BY <1>1 DEF OnStack
  <2>3. QED
    BY <2>1, <2>2 DEF PlaceInv
<1>9. RegInv'
  BY <1>1 DEF RegInv
<1>10. ColorInv'
  <2>1. \A n \in shifted' : n \in DOMAIN coloring' /\ coloring'[n] = ShiftColor
    BY <1>1
  <2>2. \A c \in Colors : ~(c < reg')
    BY <1>1, RegistersFacts DEF Colors
  <2>3. DOMAIN coloring' = shifted' /\ shifted' \cap NonSpill = {}
    BY <1>1
  <2>4. QED
    BY <1>1, <2>1, <2>2, <2>3 DEF ColorInv
<1>11. ClashOnlyOnShift'
  BY <1>1 DEF ClashOnlyOnShift
<1>12. QED
  BY <1>4, <1>7, <1>8, <1>9, <1>10, <1>11 DEF IInv

LEMMA SimplifyIInv ==
  ASSUME IInv, Simplify
  PROVE  IInv'
<1>1. PICK n \in Candidates : graph' = RemoveNode(n) /\ stack' = Append(stack, n)
  BY DEF Simplify
<1>2. /\ step = "simplify" /\ step' = step
      /\ UNCHANGED <<adjacencies, coloring, shifted, reg>>
  BY DEF Simplify
<1>3. n \in DOMAIN graph /\ n \in Variables
  BY DEF Candidates, Variables, IInv, TypeOK
<1>4. DOMAIN graph' = DOMAIN graph \ {n}
  BY <1>1 DEF RemoveNode
<1>5. /\ stack' \in Seq(Variables)
      /\ Len(stack') = Len(stack) + 1 /\ Len(stack) \in Nat
      /\ DOMAIN stack = 1..Len(stack) /\ DOMAIN stack' = 1..Len(stack')
      /\ \A k \in 1..Len(stack) : stack'[k] = stack[k]
      /\ stack'[Len(stack) + 1] = n
  BY <1>1, <1>3 DEF IInv, TypeOK
<1>6. OnStack' = OnStack \cup {n}
  BY <1>5 DEF OnStack
<1>7. Variables' = Variables
  BY <1>2 DEF Variables
<1>8. TypeOK' /\ AdjacencyInv' /\ RegInv' /\ ClashOnlyOnShift'
  BY <1>2, <1>4, <1>5, <1>7
     DEF IInv, TypeOK, AdjacencyInv, RegInv, ClashOnlyOnShift
<1>9. n \notin OnStack
  BY <1>2, <1>3 DEF IInv, PlaceInv
<1>10. PlaceInv'
  <2>1. \A j, k \in DOMAIN stack' : stack'[j] = stack'[k] => j = k
    BY <1>2, <1>5, <1>9 DEF IInv, PlaceInv, OnStack
  <2>2. QED
    BY <1>2, <1>4, <1>6, <1>7, <2>1 DEF IInv, PlaceInv
<1>11. ColorInv'
  <2>1. \A m \in DOMAIN coloring' : m \in shifted'
    BY <1>2 DEF IInv, ColorInv
  <2>2. QED
    BY <1>2, <2>1 DEF IInv, ColorInv
<1>12. QED
  BY <1>8, <1>10, <1>11 DEF IInv

LEMMA EndSimplifyIInv ==
  ASSUME IInv, EndSimplify
  PROVE  IInv'
<1>1. /\ step = "simplify" /\ step' = "registers" /\ Candidates = {}
      /\ UNCHANGED <<graph, adjacencies, coloring, stack, shifted, reg>>
  BY DEF EndSimplify
<1>2. Variables' = Variables /\ OnStack' = OnStack /\ Candidates' = Candidates
  BY <1>1 DEF Variables, OnStack, Candidates
<1>3. TypeOK' /\ AdjacencyInv' /\ ClashOnlyOnShift'
  BY <1>1, <1>2 DEF IInv, TypeOK, AdjacencyInv, ClashOnlyOnShift
<1>4. PlaceInv'
  BY <1>1, <1>2 DEF IInv, PlaceInv, Top
<1>5. RegInv'
  BY <1>1, <1>2, RegistersFacts DEF IInv, RegInv
<1>6. ColorInv'
  BY <1>1, <1>2 DEF IInv, ColorInv
<1>7. QED
  BY <1>3, <1>4, <1>5, <1>6 DEF IInv

LEMMA AllColoredIInv ==
  ASSUME IInv, AllColored
  PROVE  IInv'
<1>1. /\ step = "select" /\ step' = "done"
      /\ UNCHANGED <<graph, adjacencies, coloring, stack, shifted, reg>>
  BY DEF AllColored
<1>2. Variables' = Variables /\ OnStack' = OnStack
  BY <1>1 DEF Variables, OnStack
<1>3. TypeOK' /\ AdjacencyInv' /\ ClashOnlyOnShift'
  BY <1>1, <1>2 DEF IInv, TypeOK, AdjacencyInv, ClashOnlyOnShift
<1>4. PlaceInv' /\ RegInv'
  BY <1>1, <1>2 DEF IInv, PlaceInv, RegInv
<1>5. ColorInv'
  BY <1>1, <1>2 DEF IInv, ColorInv
<1>6. QED
  BY <1>3, <1>4, <1>5 DEF IInv

\* insert_node: what happens to the node set, and the neighbours of a node
\* that was not in the graph.
LEMMA InsertNodeFacts ==
  ASSUME NEW n
  PROVE  /\ DOMAIN InsertNode(n) = DOMAIN graph \cup {n}
         /\ n \notin DOMAIN graph =>
              NeighborsOf(n) = adjacencies[n] \cap DOMAIN graph
BY DEF InsertNode, NeighborsOf

LEMMA ColorRegisterIInv ==
  ASSUME IInv, ColorRegister
  PROVE  IInv'
<1> DEFINE r == Registers[reg]
<1>1. /\ step = "registers"
      /\ graph' = InsertNode(r)
      /\ coloring' = Assign(coloring, r, reg)
      /\ reg' = reg + 1
      /\ step' = IF reg = Len(Registers) THEN "select" ELSE "registers"
      /\ UNCHANGED <<adjacencies, stack, shifted>>
  BY DEF ColorRegister
<1>2. reg \in Colors /\ r \in RegisterSet /\ Candidates = {}
  BY <1>1, RegistersFacts DEF IInv, RegInv
<1>3. reg' \in 1..(Len(Registers) + 1)
  BY <1>1, <1>2, RegistersFacts DEF Colors
<1>4. \A c \in Colors : Registers[c] = r => c = reg
  BY <1>2, RegistersAssumption DEF Colors
<1>5. \A c \in Colors : c < reg' <=> c < reg \/ c = reg
  BY <1>1, <1>2, RegistersFacts DEF Colors
<1> HIDE DEF r
<1>6. /\ DOMAIN coloring' = DOMAIN coloring \cup {r}
      /\ coloring'[r] = reg
      /\ \A n \in DOMAIN coloring : n # r => coloring'[n] = coloring[n]
  BY <1>1 DEF Assign
<1>7. DOMAIN graph' = DOMAIN graph \cup {r}
  BY <1>1, InsertNodeFacts
<1>8. Variables' = Variables /\ OnStack' = OnStack
  BY <1>1 DEF Variables, OnStack
<1>9. r \notin shifted /\ r \notin Variables
  BY <1>1, <1>2 DEF IInv, ColorInv, Variables, NonSpill
<1>10. AdjacencyInv'
  BY <1>1 DEF IInv, AdjacencyInv
<1>11. TypeOK'
  <2>1. \A n \in DOMAIN coloring' : coloring'[n] \in Colors
    BY <1>2, <1>6 DEF IInv, TypeOK
  <2>2. DOMAIN graph' \subseteq DOMAIN adjacencies'
    BY <1>1, <1>2, <1>7 DEF IInv, TypeOK, AdjacencyInv
  <2>3. step' \in {"idle", "simplify", "registers", "select", "done"}
    BY <1>1
  <2>4. QED
    BY <1>1, <1>3, <1>8, <2>1, <2>2, <2>3 DEF IInv, TypeOK
<1>12. PlaceInv'
  BY <1>1, <1>7, <1>8, <1>9 DEF IInv, PlaceInv
<1>13. RegInv'
  <2>1. CASE reg = Len(Registers)
    BY <1>1, <2>1 DEF RegInv
  <2>2. CASE reg # Len(Registers)
    <3>1. reg + 1 \in Colors
      BY <1>2, <2>2, RegistersFacts DEF Colors
    <3>2. Candidates' = {}
      BY <1>2, <1>7 DEF Candidates, NonSpill
    <3>3. QED
      BY <1>1, <2>2, <3>1, <3>2 DEF RegInv
  <2>3. QED
    BY <2>1, <2>2
<1>14. ColorInv'
  <2>1. \A n \in shifted : n \in DOMAIN coloring' /\ coloring'[n] = ShiftColor
    BY <1>1, <1>6, <1>9 DEF IInv, ColorInv
  <2>2. \A n \in DOMAIN coloring' : n \in shifted \/ n \in DOMAIN graph'
    BY <1>1, <1>6, <1>7 DEF IInv, ColorInv
  <2>3. \A c \in Colors :
          c < reg' => Registers[c] \in DOMAIN coloring' /\ coloring'[Registers[c]] = c
    BY <1>1, <1>4, <1>5, <1>6 DEF IInv, ColorInv, r
  <2>4. \A n \in DOMAIN coloring' :
          n \in shifted \/ \E c \in Colors : c < reg' /\ n = Registers[c]
    BY <1>1, <1>2, <1>5, <1>6 DEF IInv, ColorInv, r
  <2>5. \A n \in Variables \ OnStack : n \in DOMAIN coloring'
    BY <1>1, <1>2 DEF IInv, PlaceInv, Candidates, Variables
  <2>6. step' # "simplify" /\ shifted \cap NonSpill = {}
    BY <1>1 DEF IInv, ColorInv
  <2>7. QED
    BY <1>1, <1>8, <2>1, <2>2, <2>3, <2>4, <2>5, <2>6 DEF ColorInv
<1>15. ClashOnlyOnShift'
  <2>1. \A m \in DOMAIN coloring :
          m # r /\ coloring[m] = reg => m \in shifted /\ reg = ShiftColor
    <3> SUFFICES ASSUME NEW m \in DOMAIN coloring, m # r, coloring[m] = reg,
                        m \notin shifted
                 PROVE  FALSE
      BY <1>1 DEF IInv, ColorInv
    <3>1. PICK c \in Colors : c < reg /\ m = Registers[c]
      BY <1>1 DEF IInv, ColorInv
    <3>2. coloring[m] = c
      BY <1>1, <3>1 DEF IInv, ColorInv
    <3>3. QED
      BY <1>2, <3>1, <3>2 DEF Colors
  <2>2. SUFFICES ASSUME NEW n \in DOMAIN coloring', NEW m \in DOMAIN coloring',
                        StackPointer \notin {n, m},
                        n \in DOMAIN adjacencies, m \in adjacencies[n],
                        coloring'[n] = coloring'[m]
                 PROVE  coloring'[n] = ShiftColor /\ {n, m} \cap shifted # {}
    BY <1>1 DEF ClashOnlyOnShift
  <2>3. n # m
    BY <2>2 DEF IInv, AdjacencyInv
  <2>4. CASE n # r /\ m # r
    BY <1>6, <2>2, <2>4 DEF IInv, ClashOnlyOnShift
  <2>5. CASE n = r
    BY <1>6, <2>1, <2>2, <2>3, <2>5
  <2>6. CASE m = r
    BY <1>6, <2>1, <2>2, <2>3, <2>6
  <2>7. QED
    BY <2>4, <2>5, <2>6
<1>16. QED
  BY <1>10, <1>11, <1>12, <1>13, <1>14, <1>15 DEF IInv

\* In the selection, what is known of the top of the stack: it is a variable
\* outside the graph, its neighbours are those of its interferences that are
\* in the graph, and of these only rsp can have no colour.
LEMMA TopFacts ==
  ASSUME IInv, step = "select", stack # <<>>
  PROVE  /\ Top \in Variables /\ Top \notin DOMAIN graph
         /\ NeighborsOf(Top) = adjacencies[Top] \cap DOMAIN graph
         /\ UncoloredNeighbors \subseteq {StackPointer}
         /\ UncoloredNeighbors \subseteq DOMAIN graph
         /\ Len(stack) \in Nat \ {0} /\ DOMAIN stack = 1..Len(stack)
<1>1. Len(stack) \in Nat \ {0} /\ DOMAIN stack = 1..Len(stack)
  BY DEF IInv, TypeOK
<1>2. Top \in Variables /\ Top \in OnStack
  BY <1>1 DEF Top, OnStack, IInv, TypeOK
<1>3. Top \notin DOMAIN graph
  BY <1>2 DEF IInv, PlaceInv
<1>4. NeighborsOf(Top) = adjacencies[Top] \cap DOMAIN graph
  BY <1>3, InsertNodeFacts
<1>5. ASSUME NEW m \in DOMAIN graph, m # StackPointer
      PROVE  m \in DOMAIN coloring
  <2>1. CASE m \in RegisterSet
    <3>1. PICK c \in Colors : Registers[c] = m
      BY <2>1, RegistersFacts
    <3>2. c < reg
      BY <3>1, RegistersFacts DEF IInv, RegInv, Colors
    <3>3. QED
      BY <3>1, <3>2 DEF IInv, ColorInv
  <2>2. CASE m \notin RegisterSet
    <3>1. m \in Variables
      BY <1>5, <2>2 DEF Variables, NonSpill, IInv, TypeOK
    <3>2. m \notin OnStack
      BY <1>5, <3>1 DEF IInv, PlaceInv
    <3>3. QED
      BY <3>1, <3>2 DEF IInv, ColorInv
  <2>3. QED
    BY <2>1, <2>2
<1>6. QED
  BY <1>1, <1>2, <1>3, <1>4, <1>5 DEF UncoloredNeighbors

\* valid_color's insertion of rsp changes nothing else.
LEMMA TouchFacts ==
  ASSUME NEW extra, extra \subseteq {StackPointer}
  PROVE  /\ DOMAIN Touch(extra) = DOMAIN coloring \cup extra
         /\ \A m \in DOMAIN coloring : Touch(extra)[m] = coloring[m]
         /\ \A m \in extra \ DOMAIN coloring : Touch(extra)[m] = 1
BY DEF Touch

LEMMA GiveUpIInv ==
  ASSUME IInv, GiveUp
  PROVE  IInv'
<1>1. /\ step = "select" /\ step' = "done" /\ stack # <<>>
      /\ graph' = InsertNode(Top)
      /\ UNCHANGED <<adjacencies, stack, shifted, reg>>
  BY DEF GiveUp
<1>2. PICK extra \in SUBSET UncoloredNeighbors : coloring' = Touch(extra)
  BY DEF GiveUp
<1>3. /\ Top \in Variables /\ extra \subseteq {StackPointer}
      /\ extra \subseteq DOMAIN graph
  BY <1>1, <1>2, TopFacts
<1>4. /\ DOMAIN coloring' = DOMAIN coloring \cup extra
      /\ \A m \in DOMAIN coloring : coloring'[m] = coloring[m]
      /\ \A m \in extra \ DOMAIN coloring : coloring'[m] = 1
  BY <1>2, <1>3, TouchFacts
<1>5. DOMAIN graph' = DOMAIN graph \cup {Top}
  BY <1>1, InsertNodeFacts
<1>6. Variables' = Variables /\ OnStack' = OnStack /\ Top' = Top
  BY <1>1 DEF Variables, OnStack, Top
<1>7. TypeOK'
  <2>1. \A n \in DOMAIN coloring' : coloring'[n] \in Colors
    BY <1>4, RegistersFacts DEF IInv, TypeOK
  <2>2. DOMAIN graph' \subseteq DOMAIN adjacencies'
    BY <1>1, <1>3, <1>5 DEF IInv, TypeOK, Variables
  <2>3. QED
    BY <1>1, <1>6, <2>1, <2>2 DEF IInv, TypeOK
<1>8. AdjacencyInv' /\ RegInv'
  BY <1>1 DEF IInv, AdjacencyInv, RegInv
<1>9. PlaceInv'
  BY <1>1, <1>5, <1>6 DEF IInv, PlaceInv
<1>10. ColorInv'
  <2>1. \A c \in Colors :
          c < reg => Registers[c] \in DOMAIN coloring' /\ coloring'[Registers[c]] = c
    BY <1>1, <1>4 DEF IInv, ColorInv
  <2>2. \A n \in DOMAIN coloring' : n \in shifted \/ n \in DOMAIN graph'
    BY <1>1, <1>3, <1>4, <1>5 DEF IInv, ColorInv
  <2>3. \A n \in shifted : n \in DOMAIN coloring' /\ coloring'[n] = ShiftColor
    BY <1>1, <1>4 DEF IInv, ColorInv
  <2>4. \A n \in Variables \ OnStack : n \in DOMAIN coloring'
    BY <1>1, <1>4 DEF IInv, ColorInv
  <2>5. shifted \cap NonSpill = {}
    BY <1>1 DEF IInv, ColorInv
  <2>6. QED
    BY <1>1, <1>6, <2>1, <2>2, <2>3, <2>4, <2>5 DEF ColorInv
<1>11. ClashOnlyOnShift'
  BY <1>1, <1>3, <1>4 DEF IInv, ClashOnlyOnShift
<1>12. QED
  BY <1>7, <1>8, <1>9, <1>10, <1>11 DEF IInv

LEMMA ColorNodeIInv ==
  ASSUME IInv, ColorNode
  PROVE  IInv'
<1> DEFINE seen == Touch(UncoloredNeighbors)
<1>1. /\ step = "select" /\ step' = "select" /\ stack # <<>>
      /\ graph' = InsertNode(Top)
      /\ stack' = SubSeq(stack, 1, Len(stack) - 1)
      /\ UNCHANGED <<adjacencies, shifted, reg>>
  BY DEF ColorNode
<1>2. PICK c \in ValidColors :
        coloring' = IF Top \in DOMAIN coloring THEN seen ELSE Assign(seen, Top, c)
  BY DEF ColorNode
<1>3. /\ Top \in Variables /\ Top \notin DOMAIN graph
      /\ NeighborsOf(Top) = adjacencies[Top] \cap DOMAIN graph
      /\ UncoloredNeighbors \subseteq {StackPointer}
      /\ UncoloredNeighbors \subseteq DOMAIN graph
      /\ Len(stack) \in Nat \ {0} /\ DOMAIN stack = 1..Len(stack)
  BY <1>1, TopFacts
<1>4. /\ c \in Colors
      /\ \A m \in adjacencies[Top] \cap DOMAIN graph :
           m \in DOMAIN coloring => coloring[m] # c
  BY <1>3 DEF ValidColors, NeighborColors
<1>5. /\ DOMAIN seen = DOMAIN coloring \cup UncoloredNeighbors
      /\ \A m \in DOMAIN coloring : seen[m] = coloring[m]
      /\ \A m \in UncoloredNeighbors \ DOMAIN coloring : seen[m] = 1
  BY <1>3, TouchFacts
<1> HIDE DEF seen
<1>6. /\ DOMAIN coloring' = DOMAIN coloring \cup UncoloredNeighbors \cup {Top}
      /\ \A m \in DOMAIN coloring : coloring'[m] = coloring[m]
      /\ \A m \in UncoloredNeighbors \ DOMAIN coloring : coloring'[m] = 1
      /\ Top \notin DOMAIN coloring => coloring'[Top] = c
  <2>1. Top \notin UncoloredNeighbors
    BY <1>3 DEF Variables, NonSpill
  <2>2. CASE Top \in DOMAIN coloring
    BY <1>2, <1>5, <2>2
  <2>3. CASE Top \notin DOMAIN coloring
    BY <1>2, <1>5, <2>1, <2>3 DEF Assign
  <2>4. QED
    BY <2>2, <2>3
<1>7. DOMAIN graph' = DOMAIN graph \cup {Top}
  BY <1>1, InsertNodeFacts
<1>8. Variables' = Variables
  BY <1>1 DEF Variables
<1>9. /\ stack' \in Seq(Variables)
      /\ Len(stack') = Len(stack) - 1
      /\ DOMAIN stack' = 1..(Len(stack) - 1)
      /\ \A k \in 1..(Len(stack) - 1) : stack'[k] = stack[k]
  BY <1>1, <1>3 DEF IInv, TypeOK
<1>10. \A j, k \in DOMAIN stack : stack[j] = stack[k] => j = k
  BY <1>1 DEF IInv, PlaceInv
<1>11. OnStack' = OnStack \ {Top}
  BY <1>3, <1>9, <1>10 DEF OnStack, Top
<1>12. TypeOK'
  <2>1. \A n \in DOMAIN coloring' : coloring'[n] \in Colors
    BY <1>4, <1>6, RegistersFacts DEF IInv, TypeOK
  <2>2. DOMAIN graph' \subseteq DOMAIN adjacencies'
    BY <1>1, <1>3, <1>7 DEF IInv, TypeOK, Variables
  <2>3. QED
    BY <1>1, <1>8, <1>9, <2>1, <2>2 DEF IInv, TypeOK
<1>13. AdjacencyInv' /\ RegInv'
  BY <1>1 DEF IInv, AdjacencyInv, RegInv
<1>14. PlaceInv'
  <2>1. \A j, k \in DOMAIN stack' : stack'[j] = stack'[k] => j = k
    BY <1>3, <1>9, <1>10
  <2>2. QED
    BY <1>1, <1>3, <1>7, <1>8, <1>11, <2>1 DEF IInv, PlaceInv
<1>15. ColorInv'
  <2>1. \A d \in Colors :
          d < reg => Registers[d] \in DOMAIN coloring' /\ coloring'[Registers[d]] = d
    BY <1>1, <1>6 DEF IInv, ColorInv
  <2>2. \A n \in DOMAIN coloring' : n \in shifted \/ n \in DOMAIN graph'
    BY <1>1, <1>3, <1>6, <1>7 DEF IInv, ColorInv
  <2>3. \A n \in shifted : n \in DOMAIN coloring' /\ coloring'[n] = ShiftColor
    BY <1>1, <1>6 DEF IInv, ColorInv
  <2>4. \A n \in Variables \ OnStack' : n \in DOMAIN coloring'
    BY <1>1, <1>6, <1>11 DEF IInv, ColorInv
  <2>5. shifted \cap NonSpill = {}
    BY <1>1 DEF IInv, ColorInv
  <2>6. QED
    BY <1>1, <1>8, <2>1, <2>2, <2>3, <2>4, <2>5 DEF ColorInv
<1>16. ClashOnlyOnShift'
  \* Only the pairs of the new node matter.
  <2>1. ASSUME NEW m \in DOMAIN coloring', m # StackPointer,
               m \in adjacencies[Top], coloring'[m] = coloring'[Top]
        PROVE  coloring'[Top] = ShiftColor /\ {Top, m} \cap shifted # {}
    <3>1. m # Top /\ m \in DOMAIN coloring
      BY <1>3, <1>6, <2>1 DEF IInv, AdjacencyInv, Variables
    <3>2. CASE Top \in DOMAIN coloring
      <4>1. Top \in shifted
        BY <1>1, <1>3, <3>2 DEF IInv, ColorInv
      <4>2. QED
        BY <1>1, <1>6, <3>2, <4>1 DEF IInv, ColorInv
    <3>3. CASE Top \notin DOMAIN coloring
      <4>1. coloring[m] = c
        BY <1>6, <2>1, <3>1, <3>3
      <4>2. m \notin DOMAIN graph
        BY <1>4, <1>5, <2>1, <3>1, <4>1
      <4>3. m \in shifted /\ coloring[m] = ShiftColor
        BY <1>1, <3>1, <4>2 DEF IInv, ColorInv
      <4>4. QED
        BY <1>6, <2>1, <3>1, <4>3
    <3>4. QED
      BY <3>2, <3>3
  <2>2. SUFFICES ASSUME NEW n \in DOMAIN coloring', NEW m \in DOMAIN coloring',
                        StackPointer \notin {n, m},
                        n \in DOMAIN adjacencies, m \in adjacencies[n],
                        coloring'[n] = coloring'[m]
                 PROVE  coloring'[n] = ShiftColor /\ {n, m} \cap shifted # {}
    BY <1>1 DEF ClashOnlyOnShift
  <2>3. CASE n = Top
    BY <2>1, <2>2, <2>3
  <2>4. CASE m = Top
    <3>1. n \in adjacencies[Top]
      BY <2>2, <2>4 DEF IInv, AdjacencyInv
    <3>2. QED
      BY <2>1, <2>2, <2>4, <3>1
  <2>5. CASE n # Top /\ m # Top
    <3>1. /\ n \in DOMAIN coloring /\ m \in DOMAIN coloring
          /\ coloring[n] = coloring[m] /\ coloring'[n] = coloring[n]
      BY <1>3, <1>6, <2>2, <2>5
    <3>2. QED
      BY <2>2, <3>1 DEF IInv, ClashOnlyOnShift
  <2>6. QED
    BY <2>3, <2>4, <2>5
<1>17. QED
  BY <1>12, <1>13, <1>14, <1>15, <1>16 DEF IInv

-----------------------------------------------------------------------------
(***************************************************************************)
(* The results                                                             *)
(***************************************************************************)
\* The invariant holds at every step of the analysis of every job.
THEOREM Strengthened == Spec => []IInv
<1>1. Init => IInv
  <2> SUFFICES ASSUME Init PROVE IInv
    OBVIOUS
  <2>1. /\ DOMAIN graph = {} /\ DOMAIN adjacencies = {} /\ DOMAIN coloring = {}
        /\ stack = <<>> /\ reg = 1 /\ step = "idle"
    BY DEF Init
  <2>2. 1 \in 1..(Len(Registers) + 1)
    BY RegistersFacts
  <2>3. TypeOK
    BY <2>1, <2>2 DEF TypeOK
  <2>4. QED
    BY <2>1, <2>3 DEF IInv, AdjacencyInv, PlaceInv, RegInv, ColorInv,
                      ClashOnlyOnShift
<1>2. IInv /\ [Next]_vars => IInv'
  <2> SUFFICES ASSUME IInv, [Next]_vars
               PROVE  IInv'
    OBVIOUS
  <2>1. CASE \E job \in Jobs :
               GenerateGraph(job.lines, job.variables, job.shifts)
    BY <2>1, GenerateIInv, JobsAssumption
  <2>2. CASE Simplify
    BY <2>2, SimplifyIInv
  <2>3. CASE EndSimplify
    BY <2>3, EndSimplifyIInv
  <2>4. CASE ColorRegister
    BY <2>4, ColorRegisterIInv
  <2>5. CASE ColorNode
    BY <2>5, ColorNodeIInv
  <2>6. CASE GiveUp
    BY <2>6, GiveUpIInv
  <2>7. CASE AllColored
    BY <2>7, AllColoredIInv
  <2>8. CASE UNCHANGED vars
    <3>1. UNCHANGED <<graph, adjacencies, coloring, stack, shifted, reg, step>>
      BY <2>8 DEF vars
    <3>2. /\ Variables' = Variables /\ OnStack' = OnStack
          /\ Top' = Top /\ Candidates' = Candidates
      BY <3>1 DEF Variables, OnStack, Top, Candidates
    <3>3. TypeOK' /\ AdjacencyInv' /\ PlaceInv'
      BY <3>1, <3>2 DEF IInv, TypeOK, AdjacencyInv, PlaceInv
    <3>4. RegInv' /\ ColorInv' /\ ClashOnlyOnShift'
      BY <3>1, <3>2 DEF IInv, RegInv, ColorInv, ClashOnlyOnShift
    <3>5. QED
      BY <3>3, <3>4 DEF IInv
  <2>9. QED
    BY <2>1, <2>2, <2>3, <2>4, <2>5, <2>6, <2>7, <2>8 DEF Next, Analyse
<1>3. QED
  BY <1>1, <1>2, PTL DEF Spec

\* The state of the analysis is well formed at every step.
THEOREM TypeCorrect == Spec => []TypeOK
<1>1. IInv => TypeOK
  BY DEF IInv
<1>2. QED
  BY <1>1, Strengthened, PTL

\* Names that are live together get different registers, whatever the graph,
\* the number of registers and the order in which candidates are taken, except
\* where a precoloured shift amount is involved, and then the register is rcx.
THEOREM ProperColoring == Spec => []ClashOnlyOnShift
<1>1. IInv => ClashOnlyOnShift
  BY DEF IInv
<1>2. QED
  BY <1>1, Strengthened, PTL

\* The stack discipline loses no variable: a variable off the stack has a
\* register as soon as the registers are back.
THEOREM NothingLost == Spec => []NoVariableLost
<1>1. IInv => NoVariableLost
  BY DEF IInv, NoVariableLost, PlaceInv, ColorInv
<1>2. QED
  BY <1>1, Strengthened, PTL

\* A colour given in the selection is never taken back.
THEOREM FinalColors == Spec => ColorsAreFinal
<1>1. IInv /\ [Next]_vars =>
        [step = "select" =>
           /\ DOMAIN coloring \subseteq DOMAIN coloring'
           /\ \A n \in DOMAIN coloring : coloring'[n] = coloring[n]]_vars
  <2> SUFFICES ASSUME IInv, Next, step = "select"
               PROVE  /\ DOMAIN coloring \subseteq DOMAIN coloring'
                      /\ \A n \in DOMAIN coloring : coloring'[n] = coloring[n]
    OBVIOUS
  <2>1. CASE ColorNode
    <3>1. PICK c \in ValidColors :
            coloring' = IF Top \in DOMAIN coloring
                        THEN Touch(UncoloredNeighbors)
                        ELSE Assign(Touch(UncoloredNeighbors), Top, c)
      BY <2>1 DEF ColorNode
    <3>2. QED
      BY <3>1 DEF Touch, Assign
  <2>2. CASE GiveUp
    BY <2>2 DEF GiveUp, Touch
  <2>3. CASE AllColored
    BY <2>3 DEF AllColored
  <2>4. QED
    BY <2>1, <2>2, <2>3
       DEF Next, Analyse, Simplify, EndSimplify, ColorRegister
<1>2. QED
  BY <1>1, Strengthened, PTL DEF Spec, ColorsAreFinal

-----------------------------------------------------------------------------
(***************************************************************************)
(* Spills                                                                  *)
(***************************************************************************)
\* Every node interferes with finitely many others.
Finite == \A n \in DOMAIN adjacencies : IsFiniteSet(adjacencies[n])

\* When the analysis gives up, a variable has as many neighbours as there are
\* registers.
Crowded ==
  step = "done" /\ stack # <<>> =>
    \E n \in Variables : Len(Registers) <= Cardinality(adjacencies[n])

LEMMA GenerateFinite ==
  ASSUME NEW lines, NEW variables, NEW shifts, IsFiniteSet(UNION lines),
         GenerateGraph(lines, variables, shifts)
  PROVE  Finite'
<1> DEFINE nodes == (UNION lines) \cup variables
<1>1. adjacencies' =
        [n \in nodes \cup RegisterSet |->
           IF n \in RegisterSet
           THEN Together(lines, n) \cup (RegisterSet \ {n})
           ELSE Together(lines, n)]
  BY DEF GenerateGraph
<1>2. IsFiniteSet(RegisterSet)
  <2>1. Registers \in Surjection(Colors, RegisterSet)
    <3>1. Registers \in [Colors -> RegisterSet]
      BY RegistersAssumption DEF Colors
    <3>2. \A r \in RegisterSet : \E c \in Colors : Registers[c] = r
      BY RegistersFacts
    <3> QED
      BY <3>1, <3>2, Fun_IsSurj
  <2>2. IsFiniteSet(Colors)
    BY RegistersFacts, FS_Interval DEF Colors
  <2> QED
    BY <2>1, <2>2, FS_Surjection
<1>3. IsFiniteSet((UNION lines) \cup RegisterSet)
  BY <1>2, FS_Union
<1> HIDE DEF nodes
<1>4. \A n \in DOMAIN adjacencies' : adjacencies'[n] \subseteq (UNION lines) \cup RegisterSet
  BY <1>1 DEF Together
<1> QED
  BY <1>3, <1>4, FS_Subset DEF Finite

\* No colour is valid only when the neighbours have them all, so there are as
\* many of them: each has one colour.
LEMMA GiveUpCrowded ==
  ASSUME IInv, Finite, GiveUp
  PROVE  Top \in Variables /\ Len(Registers) <= Cardinality(adjacencies[Top])
<1>1. /\ step = "select" /\ stack # <<>> /\ ValidColors = {}
  BY DEF GiveUp
<1>2. /\ Top \in Variables
      /\ NeighborsOf(Top) \subseteq adjacencies[Top]
  BY <1>1, TopFacts
<1> DEFINE N == adjacencies[Top]
           color == [m \in N |-> IF m \in DOMAIN coloring THEN coloring[m] ELSE 1]
<1>3. IsFiniteSet(N)
  BY <1>2 DEF Finite, Variables
<1>4. color \in [N -> Colors]
  BY RegistersFacts DEF IInv, TypeOK
<1>5. ASSUME NEW c \in Colors PROVE \E m \in N : color[m] = c
  <2>1. c \in NeighborColors
    BY <1>1 DEF ValidColors
  <2>2. CASE \E m \in NeighborsOf(Top) \cap DOMAIN coloring : coloring[m] = c
    BY <1>2, <2>2
  <2>3. CASE c = 1 /\ UncoloredNeighbors # {}
    BY <1>2, <2>3 DEF UncoloredNeighbors
  <2> QED
    BY <2>1, <2>2, <2>3 DEF NeighborColors
<1> HIDE DEF color, N
<1>6. color \in Surjection(N, Colors)
  BY <1>4, <1>5, Fun_IsSurj
<1>7. Cardinality(Colors) <= Cardinality(N)
  BY <1>3, <1>6, FS_Surjection
<1>8. Cardinality(Colors) = Len(Registers)
  BY RegistersFacts, FS_Interval DEF Colors
<1> QED
  BY <1>2, <1>7, <1>8 DEF N

\* Only a variable with as many neighbours as there are registers stops the
\* selection, whatever the stale degrees made of the stack.
THEOREM NoneNeedless == Spec => []NoNeedlessSpill
<1>1. Init => Finite /\ Crowded
  BY DEF Init, Finite, Crowded
<1>2. IInv /\ (Finite /\ Crowded) /\ [Next]_vars => (Finite /\ Crowded)'
  <2> SUFFICES ASSUME IInv, Finite, Crowded, [Next]_vars
               PROVE  Finite' /\ Crowded'
    OBVIOUS
  <2>1. CASE \E job \in Jobs : GenerateGraph(job.lines, job.variables, job.shifts)
    <3>1. Finite'
      BY <2>1, GenerateFinite, JobsAssumption
    <3>2. step' = "simplify"
      BY <2>1 DEF GenerateGraph
    <3> QED
      BY <3>1, <3>2 DEF Crowded
  <2>2. CASE Simplify \/ EndSimplify \/ ColorRegister \/ ColorNode \/ AllColored
    <3>1. adjacencies' = adjacencies /\ (step' = "done" => stack' = <<>>)
      BY <2>2 DEF Simplify, EndSimplify, ColorRegister, ColorNode, AllColored
    <3> QED
      BY <3>1 DEF Finite, Crowded
  <2>3. CASE GiveUp
    <3>1. Top \in Variables /\ Len(Registers) <= Cardinality(adjacencies[Top])
      BY <2>3, GiveUpCrowded
    <3>2. adjacencies' = adjacencies /\ Variables' = Variables
      BY <2>3 DEF GiveUp, Variables
    <3> QED
      BY <3>1, <3>2 DEF Finite, Crowded
  <2>4. CASE UNCHANGED vars
    <3>1. UNCHANGED <<adjacencies, step, stack>> /\ Variables' = Variables
      BY <2>4 DEF vars, Variables
    <3> QED
      BY <3>1 DEF Finite, Crowded
  <2> QED
    BY <2>1, <2>2, <2>3, <2>4 DEF Next, Analyse
<1>3. IInv /\ Finite /\ Crowded => NoNeedlessSpill
  <2> SUFFICES ASSUME IInv, Finite, Crowded, step = "done", stack # <<>>,
                      \A n \in Variables : Cardinality(adjacencies[n]) < Len(Registers)
               PROVE  FALSE
    BY DEF NoNeedlessSpill
  <2>1. PICK n \in Variables : Len(Registers) <= Cardinality(adjacencies[n])
    BY DEF Crowded
  <2>2. Cardinality(adjacencies[n]) \in Nat
    BY FS_CardinalityType DEF Finite, Variables
  <2> QED
    BY <2>1, <2>2, RegistersFacts
<1> QED
  BY <1>1, <1>2, <1>3, Strengthened, PTL DEF Spec

=============================================================================
