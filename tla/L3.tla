--------------------------------- MODULE L3 ---------------------------------
(***************************************************************************)
(* The L3 compiler (src/L3/src/main.cpp, tree.cpp, tile.h, tile.cpp): each *)
(* instruction becomes a tree, neighbours that share a node are merged     *)
(* into one tree from the end of the function backwards, and every tree is *)
(* tiled and written out as L2, its lowest tile first.                     *)
(*                                                                         *)
(* An instruction is a record                                              *)
(*   op         what it does;                                              *)
(*   root       the variable it assigns, the address it stores to, the     *)
(*              condition of a branch;                                     *)
(*   lhs, rhs   its operands;                                              *)
(*   to         the labels it names;                                       *)
(*   callee, n  what it calls and with how many arguments;                 *)
(* None where it has no such part.  The assignments between arguments and  *)
(* argument registers are instructions of their own, made by the parser.   *)
(***************************************************************************)
EXTENDS Integers, Sequences

CONSTANTS
  Programs,       \* the programs to compile: sequences of [name, code]
  ReturnNumbers   \* what rand() % 100 may give, in decimal

VARIABLES
  program,   \* the functions as parsed
  k,         \* the function being compiled
  pc,        \* "function", "merge", "tile", "done"
  trees,     \* generate_forest of it
  i,         \* the loop of merge_forest: the tree to look at next
  merged,    \* the forest so far
  t,         \* the tree to tile next
  output     \* the L2 code of the functions, the last still being written

vars == <<program, k, pc, trees, i, merged, t, output>>

None == "none"

-----------------------------------------------------------------------------
(***************************************************************************)
(* Trees                                                                   *)
(***************************************************************************)
Arithmetics == {"add", "sub", "mul", "l3and", "lshift", "rshift"}
Comparisons == {"lt", "lte", "eq"}
HasOperands == Arithmetics \cup Comparisons \cup {"assn", "load", "store", "retv"}

Ops == HasOperands \cup {"gt", "gte", "branch", "cbranch", "label", "ret", "call",
                        "callassign"}
Instructions == [op : Ops, root : STRING, lhs : STRING, rhs : STRING,
                 to : Seq(STRING), callee : STRING, n : Nat]

ASSUME ProgramsAreTyped ==
  Programs \subseteq Seq([name : STRING, code : Seq(Instructions)])

\* Mutated form: a label stays as it is.
MangleNothing(label, f) == label

\* The labels of a function carry its name, without the ":", and "uniqid".
Mangle(label, f) == label \o SubSeq(f.name, 2, Len(f.name)) \o "uniqid"

\* A comparison by > or >= is one by < or <= with its operands exchanged.
Normalize(ins) ==
  IF ins.op \in {"gt", "gte"}
  THEN [ins EXCEPT !.op = IF @ = "gt" THEN "lt" ELSE "lte",
                   !.lhs = ins.rhs, !.rhs = ins.lhs]
  ELSE ins

\* The tree of instruction j; below holds the tree merged into it, if any.
GenerateTree(f, j) ==
  [node  |-> [Normalize(f.code[j]) EXCEPT
                !.to = [m \in DOMAIN @ |-> Mangle(@[m], f)]],
   line  |-> j,
   below |-> <<>>]

\* tree has an operand that is what other assigns.
SharesNode(tree, other) ==
  /\ tree.node.op \in HasOperands
  /\ other.node.root # None
  /\ other.node.root \in {tree.node.lhs, tree.node.rhs}

MergeTrees(tree, other) == [tree EXCEPT !.below = <<other>>]

-----------------------------------------------------------------------------
(***************************************************************************)
(* Tiles                                                                   *)
(***************************************************************************)
L2Ins(op, arg, line) ==
  [op |-> op, arg |-> arg, by |-> None, to |-> <<>>, n |-> 0, line |-> line]

RuntimeArgs ==
  [c \in {"print", "allocate", "array-error"} |->
     IF c = "print" THEN 1 ELSE IF c = "allocate" THEN 2 ELSE 0]

ArithmeticTile(node, line) ==
  << L2Ins("assign", <<node.root, node.lhs>>, line),
     [L2Ins("aop", <<node.root, node.rhs>>, line) EXCEPT !.by = node.op] >>

\* A call of a function stores the label to return to, which is made from a
\* number and the callee without its first character; a call of the runtime
\* returns by itself.
CallTile(node, line, number) ==
  LET ret  == ":l3ret" \o number \o SubSeq(node.callee, 2, Len(node.callee))
      call == [L2Ins("call", <<node.callee>>, line) EXCEPT !.n = node.n]
  IN  IF node.callee \in DOMAIN RuntimeArgs
      THEN << [call EXCEPT !.op = "runtime", !.n = RuntimeArgs[node.callee]] >>
      ELSE << [L2Ins("storeret", <<>>, line) EXCEPT !.to = <<ret>>], call,
              [L2Ins("label", <<>>, line) EXCEPT !.to = <<ret>>] >>

\* dump_instructions of the tile that covers a tree.
Dump(tree, number) ==
  LET node == tree.node
      line == tree.line
  IN  CASE node.op = "ret"   -> << L2Ins("return", <<>>, line) >>
        [] node.op = "retv"  -> << L2Ins("assign", <<"rax", node.lhs>>, line),
                                   L2Ins("return", <<>>, line) >>
        [] node.op = "assn"  -> << L2Ins("assign", <<node.root, node.lhs>>, line) >>
        [] node.op = "load"  -> << L2Ins("load", <<node.root, node.lhs>>, line) >>
        [] node.op = "store" -> << L2Ins("store", <<node.root, node.lhs>>, line) >>
        [] node.op \in Arithmetics -> ArithmeticTile(node, line)
        [] node.op \in Comparisons ->
             << [L2Ins("cmp", <<node.root, node.lhs, node.rhs>>, line)
                   EXCEPT !.by = node.op] >>
        [] node.op = "branch"  -> << [L2Ins("goto", <<>>, line) EXCEPT !.to = node.to] >>
        [] node.op = "cbranch" ->
             << [L2Ins("cjump", <<node.root>>, line) EXCEPT !.to = node.to] >>
        [] node.op = "label"   -> << [L2Ins("label", <<>>, line) EXCEPT !.to = node.to] >>
        [] node.op = "call"    -> CallTile(node, line, number)
        [] node.op = "callassign" ->
             CallTile(node, line, number)
             \o << L2Ins("assign", <<node.root, "rax">>, line) >>

\* Mutated form: the tiles of a tree in the order of tiling, the root first.
EmitRootFirst(tree, number) ==
  Dump(tree, number)
  \o (IF tree.below = <<>> THEN <<>> ELSE Dump(tree.below[1], number))

\* The tiles of a tree in reverse: the tree below before the tree.  At most one
\* of the two is a call.
Emit(tree, number) ==
  (IF tree.below = <<>> THEN <<>> ELSE Dump(tree.below[1], number))
  \o Dump(tree, number)

-----------------------------------------------------------------------------
(***************************************************************************)
(* The loop over the functions                                             *)
(***************************************************************************)
Init ==
  /\ program \in Programs
  /\ k = 1
  /\ pc = "function"
  /\ trees = <<>> /\ i = 0 /\ merged = <<>> /\ t = 0
  /\ output = <<>>

\* The next function: its forest, and a forest of one tree is not merged.
StartFunction ==
  /\ pc = "function"
  /\ k <= Len(program)
  /\ trees' = [j \in 1..Len(program[k].code) |-> GenerateTree(program[k], j)]
  /\ output' = Append(output, <<>>)
  /\ t' = 1
  /\ IF Len(trees') > 1
     THEN pc' = "merge" /\ i' = Len(trees') /\ merged' = <<>>
     ELSE pc' = "tile"  /\ i' = 0 /\ merged' = trees'
  /\ UNCHANGED <<program, k>>

\* Mutated form: the tree that was merged stays in the forest too.
MergePairKeepsOther ==
  /\ pc = "merge" /\ i > 1 /\ SharesNode(trees[i], trees[i - 1])
  /\ merged' = <<MergeTrees(trees[i], trees[i - 1])>> \o merged
  /\ i' = i - 1
  /\ UNCHANGED <<program, k, pc, trees, t, output>>

MergePair ==
  /\ pc = "merge" /\ i > 1 /\ SharesNode(trees[i], trees[i - 1])
  /\ merged' = <<MergeTrees(trees[i], trees[i - 1])>> \o merged
  /\ i' = i - 2
  /\ UNCHANGED <<program, k, pc, trees, t, output>>

KeepTree ==
  /\ pc = "merge" /\ i > 0
  /\ ~(i > 1 /\ SharesNode(trees[i], trees[i - 1]))
  /\ merged' = <<trees[i]>> \o merged
  /\ i' = i - 1
  /\ UNCHANGED <<program, k, pc, trees, t, output>>

\* Mutated form: the loop ends before the first tree.
MergeDoneEarly ==
  /\ pc = "merge" /\ i <= 1
  /\ pc' = "tile"
  /\ UNCHANGED <<program, k, trees, i, merged, t, output>>

MergeDone ==
  /\ pc = "merge" /\ i = 0
  /\ pc' = "tile"
  /\ UNCHANGED <<program, k, trees, i, merged, t, output>>

EmitTree ==
  /\ pc = "tile" /\ t <= Len(merged)
  /\ \E number \in ReturnNumbers :
       output' = [output EXCEPT ![k] = @ \o Emit(merged[t], number)]
  /\ t' = t + 1
  /\ UNCHANGED <<program, k, pc, trees, i, merged>>

EndFunction ==
  /\ pc = "tile" /\ t > Len(merged)
  /\ k' = k + 1
  /\ pc' = "function"
  /\ UNCHANGED <<program, trees, i, merged, t, output>>

EndProgram ==
  /\ pc = "function" /\ k > Len(program)
  /\ pc' = "done"
  /\ UNCHANGED <<program, k, trees, i, merged, t, output>>

Next ==
  \/ StartFunction \/ MergePair \/ KeepTree \/ MergeDone
  \/ EmitTree \/ EndFunction \/ EndProgram

Spec == Init /\ [][Next]_vars

-----------------------------------------------------------------------------
(***************************************************************************)
(* Properties                                                              *)
(***************************************************************************)

\* The type invariant: the indices stay inside the forests, and a merged tree
\* has the tree of the line before below it.
TypeOK ==
  /\ pc \in {"function", "merge", "tile", "done"}
  /\ k \in 1..(Len(program) + 1)
  /\ pc \in {"merge", "tile"} => k <= Len(program) /\ Len(output) = k
  /\ pc = "merge" => i \in 0..Len(trees)
  /\ pc = "tile" => t \in 1..(Len(merged) + 1)

\* The function is written out in its order: however trees are merged and
\* tiled, no instruction is emitted before one that precedes it, ...
EmittedInOrder ==
  \A f \in DOMAIN output : \A a, b \in DOMAIN output[f] :
    a < b => output[f][a].line <= output[f][b].line

\* ... and by the end of the function each has been emitted.
NothingLeftOut ==
  \A f \in DOMAIN output : f < k =>
    {output[f][a].line : a \in DOMAIN output[f]} = DOMAIN program[f].code
=============================================================================
