------------------------------ MODULE L3Proofs ------------------------------
(***************************************************************************)
(* Proofs about the L3 compiler, for every program: whatever trees are     *)
(* merged, each function is written out in its order and completely.       *)
(***************************************************************************)
EXTENDS L3, SequenceTheorems, TLAPS

\* s is a sequence, of whatever elements.
IsSeq(s) == s \in Seq({s[a] : a \in DOMAIN s})

\* The lines of emitted code: in order, and all those from m to n.
Lines(s, m, n) ==
  /\ IsSeq(s)
  /\ \A a, b \in DOMAIN s : a < b => s[a].line <= s[b].line
  /\ {s[a].line : a \in DOMAIN s} = m..n

-----------------------------------------------------------------------------
(***************************************************************************)
(* Sequences                                                               *)
(***************************************************************************)

\* Two sequences of any elements can be put together.
LEMMA Concat ==
  ASSUME NEW s, NEW u, IsSeq(s), IsSeq(u)
  PROVE  /\ IsSeq(s \o u)
         /\ DOMAIN (s \o u) = 1..(Len(s) + Len(u))
         /\ Len(s) \in Nat /\ Len(u) \in Nat
         /\ DOMAIN s = 1..Len(s) /\ DOMAIN u = 1..Len(u)
         /\ \A a \in DOMAIN s : (s \o u)[a] = s[a]
         /\ \A a \in DOMAIN u : (s \o u)[Len(s) + a] = u[a]
<1> DEFINE S == {s[a] : a \in DOMAIN s} \cup {u[a] : a \in DOMAIN u}
<1>1. s \in Seq(S) /\ u \in Seq(S)
  BY SeqMonotonic DEF IsSeq
<1>2. s \o u \in Seq(S)
  BY <1>1
<1>3. s \o u \in Seq({(s \o u)[a] : a \in DOMAIN (s \o u)})
  <2> DEFINE w == s \o u
  <2>1. w \in Seq(S)
    BY <1>2
  <2> HIDE DEF w
  <2>2. Len(w) \in Nat /\ DOMAIN w = 1..Len(w) /\ w = [a \in 1..Len(w) |-> w[a]]
    BY <2>1
  <2>3. w \in Seq({w[a] : a \in DOMAIN w})
    BY <2>2, IsASeq
  <2> QED
    BY <2>3 DEF w
<1>4. /\ Len(s) \in Nat /\ Len(u) \in Nat
      /\ DOMAIN s = 1..Len(s) /\ DOMAIN u = 1..Len(u)
  BY <1>1, LenProperties
<1>5. /\ Len(s \o u) = Len(s) + Len(u)
      /\ \A a \in 1..(Len(s) + Len(u)) :
           (s \o u)[a] = IF a <= Len(s) THEN s[a] ELSE u[a - Len(s)]
  BY <1>1, ConcatProperties
<1>6. DOMAIN (s \o u) = 1..(Len(s) + Len(u))
  BY <1>2, <1>5, LenProperties
<1>7. \A a \in DOMAIN s : (s \o u)[a] = s[a]
  BY <1>4, <1>5
<1>8. \A a \in DOMAIN u : (s \o u)[Len(s) + a] = u[a]
  BY <1>4, <1>5
<1> QED
  BY <1>3, <1>4, <1>6, <1>7, <1>8 DEF IsSeq

\* A sequence with one more element.
LEMMA AppendOne ==
  ASSUME NEW s, NEW x, IsSeq(s)
  PROVE  /\ IsSeq(Append(s, x))
         /\ Len(s) \in Nat /\ DOMAIN s = 1..Len(s)
         /\ Len(Append(s, x)) = Len(s) + 1
         /\ DOMAIN Append(s, x) = 1..(Len(s) + 1)
         /\ \A a \in DOMAIN s : Append(s, x)[a] = s[a]
         /\ Append(s, x)[Len(s) + 1] = x
<1> DEFINE S == {s[a] : a \in DOMAIN s} \cup {x}
           w == Append(s, x)
<1>1. s \in Seq(S) /\ x \in S
  BY SeqMonotonic DEF IsSeq
<1> HIDE DEF S
<1>2. /\ w \in Seq(S) /\ Len(w) = Len(s) + 1
      /\ \A a \in 1..Len(s) : w[a] = s[a]
      /\ w[Len(s) + 1] = x
  BY <1>1, AppendProperties
<1>3. Len(s) \in Nat /\ DOMAIN s = 1..Len(s)
  BY <1>1
<1> HIDE DEF w
<1>4. IsSeq(w) /\ DOMAIN w = 1..Len(w)
  BY <1>2 DEF IsSeq
<1> QED
  BY <1>2, <1>3, <1>4 DEF w

\* Code for the lines up to n, then code for the lines from n or n + 1 on.
LEMMA ConcatLines ==
  ASSUME NEW s, NEW u, NEW m \in Int, NEW n \in Int, NEW p \in Int,
         NEW q \in {n, n + 1},
         Lines(s, m, n), Lines(u, q, p), m <= q, n <= p
  PROVE  Lines(s \o u, m, p)
<1> DEFINE w == s \o u
<1>1. /\ IsSeq(w)
      /\ DOMAIN w = 1..(Len(s) + Len(u))
      /\ Len(s) \in Nat /\ Len(u) \in Nat
      /\ DOMAIN s = 1..Len(s) /\ DOMAIN u = 1..Len(u)
      /\ \A a \in DOMAIN s : w[a] = s[a]
      /\ \A a \in DOMAIN u : w[Len(s) + a] = u[a]
  BY Concat DEF Lines
<1> HIDE DEF w
<1>2. /\ \A a \in DOMAIN s : s[a].line \in m..n
      /\ \A a \in DOMAIN u : u[a].line \in q..p
  BY DEF Lines
<1>3. \A a \in DOMAIN w :
        \/ a \in DOMAIN s /\ w[a] = s[a]
        \/ /\ a - Len(s) \in DOMAIN u
           /\ w[a] = u[a - Len(s)]
  <2> SUFFICES ASSUME NEW a \in DOMAIN w, a \notin DOMAIN s
               PROVE  a - Len(s) \in DOMAIN u /\ w[a] = u[a - Len(s)]
    BY <1>1
  <2>1. a - Len(s) \in DOMAIN u /\ Len(s) + (a - Len(s)) = a
    BY <1>1
  <2> QED
    BY <2>1, <1>1
<1>4. ASSUME NEW a \in DOMAIN w, NEW b \in DOMAIN w, a < b
      PROVE  w[a].line <= w[b].line
  <2>1. CASE a \in DOMAIN s /\ b \in DOMAIN s
    BY <2>1, <1>1, <1>4 DEF Lines
  <2>2. CASE a \in DOMAIN s /\ b \notin DOMAIN s
    <3>1. w[a].line \in m..n /\ w[b].line \in q..p
      BY <2>2, <1>1, <1>2, <1>3
    <3> QED
      BY <3>1
  <2>3. CASE a \notin DOMAIN s
    <3>1. b \notin DOMAIN s
      BY <2>3, <1>1, <1>4
    <3>2. /\ a - Len(s) \in DOMAIN u /\ w[a] = u[a - Len(s)]
          /\ b - Len(s) \in DOMAIN u /\ w[b] = u[b - Len(s)]
      BY <2>3, <3>1, <1>3
    <3>3. a - Len(s) < b - Len(s)
      BY <1>1, <1>4
    <3> QED
      BY <3>2, <3>3 DEF Lines
  <2> QED
    BY <2>1, <2>2, <2>3
<1>5. {w[a].line : a \in DOMAIN w} = m..p
  <2>1. ASSUME NEW a \in DOMAIN w
        PROVE  w[a].line \in m..p
    BY <1>2, <1>3
  <2>2. ASSUME NEW l \in m..p
        PROVE  \E a \in DOMAIN w : w[a].line = l
    <3>1. CASE l <= n
      <4>1. PICK a \in DOMAIN s : s[a].line = l
        <5>1. l \in m..n
          BY <3>1
        <5> QED
          BY <5>1 DEF Lines
      <4> QED
        BY <4>1, <1>1
    <3>2. CASE l > n
      <4>1. PICK a \in DOMAIN u : u[a].line = l
        <5>1. l \in q..p
          BY <3>2
        <5> QED
          BY <5>1 DEF Lines
      <4>2. Len(s) + a \in DOMAIN w /\ w[Len(s) + a] = u[a]
        BY <4>1, <1>1
      <4> QED
        BY <4>1, <4>2
    <3> QED
      BY <3>1, <3>2
  <2> QED
    BY <2>1, <2>2
<1> QED
  BY <1>1, <1>4, <1>5 DEF Lines, w

\* Up to three instructions from one line are code for that line.
LEMMA LiteralLines ==
  ASSUME NEW a, NEW b, NEW c, NEW l \in Int, a.line = l, b.line = l, c.line = l
  PROVE  Lines(<<a>>, l, l) /\ Lines(<<a, b>>, l, l) /\ Lines(<<a, b, c>>, l, l)
<1>1. Lines(<<a>>, l, l)
  BY DEF Lines, IsSeq
<1>2. Lines(<<a, b>>, l, l)
  BY DEF Lines, IsSeq
<1>3. Lines(<<a, b, c>>, l, l)
  BY DEF Lines, IsSeq
<1> QED
  BY <1>1, <1>2, <1>3

-----------------------------------------------------------------------------
(***************************************************************************)
(* Trees and their code                                                    *)
(***************************************************************************)

Single(x) == x.node.op \in Ops \ {"gt", "gte"} /\ x.line \in Nat

\* A tree, alone or with the one of the line before below it.
IsTree(x) ==
  /\ Single(x)
  /\ \/ x.below = <<>>
     \/ x.below # <<>> /\ Single(x.below[1]) /\ x.below[1].line = x.line - 1

First(x) == IF x.below = <<>> THEN x.line ELSE x.line - 1

\* The tiles of one instruction come from its line.
LEMMA DumpLines ==
  ASSUME NEW x, NEW number, Single(x)
  PROVE  Lines(Dump(x, number), x.line, x.line)
<1> DEFINE node == x.node
           line == x.line
<1>1. line \in Int
  BY DEF Single
<1>2. \A op, arg : L2Ins(op, arg, line).line = line
  BY DEF L2Ins
<1>3. Lines(CallTile(node, line, number), line, line)
  <2> DEFINE call == [L2Ins("call", <<node.callee>>, line) EXCEPT !.n = node.n]
  <2>1. CASE node.callee \in DOMAIN RuntimeArgs
    <3> DEFINE a == [call EXCEPT !.op = "runtime", !.n = RuntimeArgs[node.callee]]
    <3>1. a.line = line
      BY DEF L2Ins
    <3>2. CallTile(node, line, number) = <<a>>
      BY <2>1 DEF CallTile
    <3> HIDE DEF a
    <3> QED
      BY <1>1, <3>1, <3>2, LiteralLines
  <2>2. CASE node.callee \notin DOMAIN RuntimeArgs
    <3> DEFINE ret == ":l3ret" \o number \o SubSeq(node.callee, 2, Len(node.callee))
               a == [L2Ins("storeret", <<>>, line) EXCEPT !.to = <<ret>>]
               c == [L2Ins("label", <<>>, line) EXCEPT !.to = <<ret>>]
    <3>1. a.line = line /\ call.line = line /\ c.line = line
      BY DEF L2Ins
    <3>2. CallTile(node, line, number) = <<a, call, c>>
      BY <2>2 DEF CallTile
    <3> HIDE DEF a, call, c
    <3> QED
      BY <1>1, <3>1, <3>2, LiteralLines
  <2> QED
    BY <2>1, <2>2
<1>4. CASE node.op \in Arithmetics
  <2> DEFINE a == L2Ins("assign", <<node.root, node.lhs>>, line)
             b == [L2Ins("aop", <<node.root, node.rhs>>, line) EXCEPT !.by = node.op]
  <2>1. a.line = line /\ b.line = line
    BY DEF L2Ins
  <2>2. Dump(x, number) = ArithmeticTile(node, line)
    <3>1. /\ node.op \notin Comparisons
          /\ node.op \notin {"ret", "retv", "assn", "load", "store", "branch",
                             "cbranch", "label", "call", "callassign"}
      BY <1>4 DEF Arithmetics, Comparisons
    <3> QED
      BY <1>4, <3>1 DEF Dump
  <2>3. Dump(x, number) = <<a, b>>
    BY <2>2 DEF ArithmeticTile
  <2> HIDE DEF a, b
  <2> QED
    BY <1>1, <2>1, <2>3, LiteralLines
<1>5. CASE node.op \in Comparisons
  <2> DEFINE a == [L2Ins("cmp", <<node.root, node.lhs, node.rhs>>, line)
                     EXCEPT !.by = node.op]
  <2>1. a.line = line
    BY DEF L2Ins
  <2>2. Dump(x, number) = <<a>>
    BY <1>5 DEF Dump, Comparisons, Arithmetics
  <2> HIDE DEF a
  <2> QED
    BY <1>1, <2>1, <2>2, LiteralLines
<1>6. CASE node.op \in {"branch", "label"}
  <2> DEFINE a(op) == [L2Ins(op, <<>>, line) EXCEPT !.to = node.to]
             b == IF node.op = "branch" THEN a("goto") ELSE a("label")
  <2>1. b.line = line
    BY DEF L2Ins
  <2>2. Dump(x, number) = <<b>>
    BY <1>6 DEF Dump, Comparisons, Arithmetics
  <2> HIDE DEF b
  <2> QED
    BY <1>1, <2>1, <2>2, LiteralLines
<1>7. CASE node.op = "cbranch"
  <2> DEFINE a == [L2Ins("cjump", <<node.root>>, line) EXCEPT !.to = node.to]
  <2>1. a.line = line
    BY DEF L2Ins
  <2>2. Dump(x, number) = <<a>>
    BY <1>7 DEF Dump, Comparisons, Arithmetics
  <2> HIDE DEF a
  <2> QED
    BY <1>1, <2>1, <2>2, LiteralLines
<1>8. CASE node.op \in {"ret", "assn", "load", "store"}
  <2> PICK a : a.line = line /\ Dump(x, number) = <<a>>
    <3>1. CASE node.op = "ret"
      BY <3>1, <1>2 DEF Dump, Comparisons, Arithmetics
    <3>2. CASE node.op = "assn"
      BY <3>2, <1>2 DEF Dump, Comparisons, Arithmetics
    <3>3. CASE node.op = "load"
      BY <3>3, <1>2 DEF Dump, Comparisons, Arithmetics
    <3>4. CASE node.op = "store"
      BY <3>4, <1>2 DEF Dump, Comparisons, Arithmetics
    <3> QED
      BY <1>8, <3>1, <3>2, <3>3, <3>4
  <2> QED
    BY <1>1, LiteralLines
<1>9. CASE node.op = "retv"
  <2> DEFINE a == L2Ins("assign", <<"rax", node.lhs>>, line)
             b == L2Ins("return", <<>>, line)
  <2>1. Dump(x, number) = <<a, b>>
    BY <1>9 DEF Dump, Comparisons, Arithmetics
  <2>2. a.line = line /\ b.line = line
    BY <1>2
  <2> HIDE DEF a, b
  <2> QED
    BY <1>1, <2>1, <2>2, LiteralLines
<1>10. CASE node.op = "call"
  BY <1>3, <1>10 DEF Dump, Comparisons, Arithmetics
<1>11. CASE node.op = "callassign"
  <2> DEFINE a == L2Ins("assign", <<node.root, "rax">>, line)
             s == CallTile(node, line, number)
  <2>1. Dump(x, number) = s \o <<a>>
    BY <1>11 DEF Dump, Comparisons, Arithmetics
  <2>2. a.line = line
    BY <1>2
  <2>3. Lines(s, line, line)
    BY <1>3
  <2> HIDE DEF a, s
  <2>4. Lines(<<a>>, line, line)
    BY <1>1, <2>2, LiteralLines
  <2> HIDE DEF line
  <2>5. Lines(s \o <<a>>, line, line)
    BY <1>1, <2>3, <2>4, ConcatLines
  <2> QED
    BY <2>1, <2>5 DEF line
<1> QED
  BY <1>4, <1>5, <1>6, <1>7, <1>8, <1>9, <1>10, <1>11
     DEF Single, Ops, HasOperands, Arithmetics, Comparisons

\* The code of a tree: the line below it, then its own.
LEMMA EmitLines ==
  ASSUME NEW x, NEW number, IsTree(x)
  PROVE  Lines(Emit(x, number), First(x), x.line)
<1>1. Lines(Dump(x, number), x.line, x.line) /\ x.line \in Nat
  BY DumpLines DEF IsTree, Single
<1>2. CASE x.below = <<>>
  <2>1. IsSeq(Dump(x, number))
    BY <1>1 DEF Lines
  <2>2. <<>> \o Dump(x, number) = Dump(x, number)
    BY <2>1, ConcatEmptySeq DEF IsSeq
  <2> QED
    BY <1>1, <1>2, <2>2 DEF Emit, First
<1>3. CASE x.below # <<>>
  <2> DEFINE y == x.below[1]
             s == Dump(y, number)
             u == Dump(x, number)
  <2>1. Single(y) /\ y.line = x.line - 1
    BY <1>3 DEF IsTree
  <2>2. Lines(s, x.line - 1, x.line - 1)
    BY <2>1, DumpLines
  <2>3. Emit(x, number) = s \o u /\ First(x) = x.line - 1
    BY <1>3 DEF Emit, First
  <2>4. Lines(u, x.line, x.line)
    BY <1>1
  <2> HIDE DEF s, u
  <2>5. Lines(s \o u, x.line - 1, x.line)
    <3> DEFINE l == x.line
    <3>1. Lines(s, l - 1, l - 1) /\ Lines(u, l, l) /\ l \in Nat
      BY <1>1, <2>2, <2>4
    <3> HIDE DEF l
    <3>2. l \in {l - 1, (l - 1) + 1} /\ l - 1 \in Int /\ l - 1 <= l
      BY <3>1
    <3>3. Lines(s \o u, l - 1, l)
      BY <3>1, <3>2, ConcatLines
    <3> QED
      BY <3>3 DEF l
  <2> QED
    BY <2>3, <2>5
<1> QED
  BY <1>2, <1>3

-----------------------------------------------------------------------------
(***************************************************************************)
(* The inductive invariant                                                 *)
(***************************************************************************)

\* A forest whose trees stand for the lines from lo to n, in their order.
Covers(s, lo, n) ==
  /\ IsSeq(s)
  /\ \A a \in DOMAIN s : IsTree(s[a])
  /\ s = <<>> => lo = n + 1
  /\ s # <<>> => First(s[1]) = lo /\ s[Len(s)].line = n
  /\ \A a \in DOMAIN s : a + 1 \in DOMAIN s => First(s[a + 1]) = s[a].line + 1

\* The last line that the trees before tree t stand for.
Upto(s, a) == IF a = 1 THEN 0 ELSE s[a - 1].line

Size == Len(program[k].code)

Written ==
  /\ IsSeq(output)
  /\ k \in 1..(Len(program) + 1)
  /\ Len(output) = (IF pc \in {"merge", "tile"} THEN k ELSE k - 1)
  /\ \A f \in DOMAIN output : f < k => Lines(output[f], 1, Len(program[f].code))

Merging ==
  pc = "merge" =>
    /\ k <= Len(program)
    /\ trees = [j \in 1..Size |-> GenerateTree(program[k], j)]
    /\ i \in 0..Size
    /\ Covers(merged, i + 1, Size)
    /\ t = 1
    /\ Lines(output[k], 1, 0)

Tiling ==
  pc = "tile" =>
    /\ k <= Len(program)
    /\ Covers(merged, 1, Size)
    /\ t \in 1..(Len(merged) + 1)
    /\ Lines(output[k], 1, Upto(merged, t))

IInv ==
  /\ program \in Programs
  /\ pc \in {"function", "merge", "tile", "done"}
  /\ Written
  /\ Merging
  /\ Tiling

\* What the parser gives: every function has a code of typed instructions.
LEMMA Programs1 ==
  ASSUME IInv, k <= Len(program)
  PROVE  /\ Len(program) \in Nat /\ k \in DOMAIN program
         /\ program[k].code \in Seq(Instructions)
         /\ Size \in Nat /\ DOMAIN program[k].code = 1..Size
<1>1. program \in Seq([name : STRING, code : Seq(Instructions)])
  BY ProgramsAreTyped DEF IInv
<1>2. Len(program) \in Nat /\ DOMAIN program = 1..Len(program)
  BY <1>1
<1>3. k \in DOMAIN program
  BY <1>2 DEF IInv, Written
<1>4. program[k].code \in Seq(Instructions)
  <2>1. program[k] \in [name : STRING, code : Seq(Instructions)]
    BY <1>1, <1>3, ElementOfSeq, <1>2
  <2> QED
    BY <2>1
<1> QED
  BY <1>2, <1>3, <1>4 DEF Size

\* The tree of an instruction stands for its line alone.
LEMMA TreeOfLine ==
  ASSUME NEW f, f.code \in Seq(Instructions), NEW j \in 1..Len(f.code)
  PROVE  /\ Single(GenerateTree(f, j))
         /\ GenerateTree(f, j).line = j /\ GenerateTree(f, j).below = <<>>
<1>1. f.code[j] \in Instructions /\ j \in Nat
  OBVIOUS
<1>2. Normalize(f.code[j]).op \in Ops \ {"gt", "gte"}
  <2> DEFINE ins == f.code[j]
  <2>1. ins \in Instructions
    BY <1>1
  <2> HIDE DEF ins
  <2>2. ASSUME ins.op \in {"gt", "gte"}
        PROVE  Normalize(ins).op \in {"lt", "lte"}
    BY <2>1, <2>2 DEF Normalize, Instructions
  <2>3. ASSUME ins.op \notin {"gt", "gte"}
        PROVE  Normalize(ins).op \in Ops \ {"gt", "gte"}
    BY <2>1, <2>3 DEF Normalize, Instructions
  <2>4. {"lt", "lte"} \subseteq Ops \ {"gt", "gte"}
    BY DEF Ops, HasOperands, Comparisons
  <2> QED
    BY <2>2, <2>3, <2>4 DEF ins
<1>3. GenerateTree(f, j).node.op = Normalize(f.code[j]).op
  <2> DEFINE ins == Normalize(f.code[j])
             m == [a \in DOMAIN ins.to |-> Mangle(ins.to[a], f)]
  <2>1. GenerateTree(f, j).node = [ins EXCEPT !.to = m]
    BY DEF GenerateTree
  <2>2. [ins EXCEPT !.to = m].op = ins.op
    <3>1. ins = f.code[j] \/ ins = [f.code[j] EXCEPT
                !.op = IF @ = "gt" THEN "lt" ELSE "lte",
                !.lhs = f.code[j].rhs, !.rhs = f.code[j].lhs]
      BY DEF Normalize
    <3>2. "op" \in DOMAIN ins
      BY <1>1, <3>1 DEF Instructions
    <3> HIDE DEF ins, m
    <3> QED
      BY <3>2
  <2> QED
    BY <2>1, <2>2
<1>4. GenerateTree(f, j).line = j /\ GenerateTree(f, j).below = <<>>
  BY DEF GenerateTree
<1> QED
  BY <1>1, <1>2, <1>3, <1>4 DEF Single

\* Trees are put in front of a forest.
LEMMA CoversMore ==
  ASSUME NEW s, NEW x, NEW lo \in Nat, NEW n \in Nat, NEW new \in Nat,
         Covers(s, lo, n), IsTree(x), x.line = lo - 1, First(x) = new
  PROVE  Covers(<<x>> \o s, new, n)
<1> DEFINE w == <<x>> \o s
<1>1. IsSeq(<<x>>) /\ IsSeq(s) /\ Len(<<x>>) = 1 /\ DOMAIN <<x>> = {1} /\ <<x>>[1] = x
  BY DEF IsSeq, Covers
<1>2. /\ IsSeq(w) /\ DOMAIN w = 1..(1 + Len(s))
      /\ Len(s) \in Nat /\ DOMAIN s = 1..Len(s)
      /\ w[1] = x /\ \A a \in DOMAIN s : w[1 + a] = s[a]
  <2>1. /\ IsSeq(w) /\ DOMAIN w = 1..(Len(<<x>>) + Len(s))
        /\ Len(s) \in Nat /\ DOMAIN s = 1..Len(s)
        /\ \A a \in DOMAIN <<x>> : w[a] = <<x>>[a]
        /\ \A a \in DOMAIN s : w[Len(<<x>>) + a] = s[a]
    BY <1>1, Concat
  <2> HIDE DEF w
  <2> QED
    BY <1>1, <2>1
<1>3. w # <<>> /\ Len(w) = 1 + Len(s)
  BY <1>2 DEF IsSeq
<1> HIDE DEF w
<1>4. \A a \in DOMAIN w : a = 1 \/ (a - 1 \in DOMAIN s /\ w[a] = s[a - 1])
  <2> TAKE a \in DOMAIN w
  <2>1. CASE a = 1
    BY <2>1
  <2>2. CASE a # 1
    <3>1. a - 1 \in DOMAIN s /\ 1 + (a - 1) = a
      BY <2>2, <1>2
    <3> QED
      BY <3>1, <1>2
  <2> QED
    BY <2>1, <2>2
<1>5. \A a \in DOMAIN w : IsTree(w[a])
  BY <1>2, <1>4 DEF Covers
<1>6. w[Len(w)].line = n
  <2>1. CASE s = <<>>
    BY <2>1, <1>2, <1>3 DEF Covers
  <2>2. CASE s # <<>>
    <3>1. Len(s) \in DOMAIN s
      BY <2>2, <1>2 DEF Covers, IsSeq
    <3> QED
      BY <2>2, <3>1, <1>2, <1>3 DEF Covers
  <2> QED
    BY <2>1, <2>2
<1>7. ASSUME NEW a \in DOMAIN w, a + 1 \in DOMAIN w
      PROVE  First(w[a + 1]) = w[a].line + 1
  <2>1. a \in DOMAIN s /\ w[a + 1] = s[a]
    <3>1. a \in DOMAIN s /\ 1 + a = a + 1
      BY <1>2, <1>7
    <3> QED
      BY <3>1, <1>2
  <2>2. CASE a = 1
    <3>1. s # <<>>
      BY <2>1
    <3> QED
      BY <2>1, <2>2, <3>1, <1>2 DEF Covers
  <2>3. CASE a # 1
    <3>1. a - 1 \in DOMAIN s /\ w[a] = s[a - 1] /\ (a - 1) + 1 = a
      BY <2>3, <1>2, <1>4
    <3>2. First(s[(a - 1) + 1]) = s[a - 1].line + 1
      BY <2>1, <3>1 DEF Covers
    <3> QED
      BY <2>1, <3>1, <3>2
  <2> QED
    BY <2>2, <2>3
<1>8. First(w[1]) = new
  BY <1>2
<1> QED
  BY <1>2, <1>3, <1>5, <1>6, <1>7, <1>8 DEF Covers, w

-----------------------------------------------------------------------------
(***************************************************************************)
(* It holds of every state                                                 *)
(***************************************************************************)

LEMMA InitIInv == Init => IInv
<1> SUFFICES ASSUME Init PROVE IInv
  OBVIOUS
<1>1. program \in Programs /\ k = 1 /\ pc = "function" /\ output = <<>>
  BY DEF Init
<1>2. Len(program) \in Nat
  BY <1>1, ProgramsAreTyped
<1> QED
  BY <1>1, <1>2 DEF IInv, Written, Merging, Tiling, IsSeq

\* A function is begun with no code and with all its trees still to merge.
LEMMA StartFunctionIInv == IInv /\ StartFunction => IInv'
<1> SUFFICES ASSUME IInv, StartFunction PROVE IInv'
  OBVIOUS
<1>1. /\ Len(program) \in Nat /\ k \in 1..Len(program) /\ Size \in Nat
      /\ program[k].code \in Seq(Instructions)
  BY Programs1 DEF IInv, Written, StartFunction
<1>2. /\ IsSeq(output') /\ Len(output') = k /\ DOMAIN output' = 1..k
      /\ \A f \in 1..(k - 1) : output'[f] = output[f]
      /\ output'[k] = <<>>
      /\ DOMAIN output = 1..(k - 1)
  <2>1. IsSeq(output) /\ Len(output) = k - 1 /\ output' = Append(output, <<>>)
    BY DEF IInv, Written, StartFunction
  <2>2. (k - 1) + 1 = k
    BY <1>1
  <2> QED
    BY <2>1, <2>2, AppendOne
<1>3. pc' \in {"merge", "tile"} /\ program' = program /\ k' = k /\ t' = 1
  BY DEF StartFunction
<1>4. Written'
  <2>1. ASSUME NEW f \in 1..(k - 1)
        PROVE  Lines(output[f], 1, Len(program[f].code))
    BY <1>1, <1>2 DEF IInv, Written
  <2> QED
    BY <1>1, <1>2, <1>3, <2>1 DEF Written
<1>5. Lines(<<>>, 1, 0)
  BY DEF Lines, IsSeq
<1>6. trees' = [j \in 1..Size |-> GenerateTree(program[k], j)]
  BY DEF StartFunction, Size
<1> DEFINE s == [j \in 1..Size |-> GenerateTree(program[k], j)]
<1>7. /\ IsSeq(s) /\ Len(s) = Size /\ DOMAIN s = 1..Size
      /\ \A a \in 1..Size : /\ IsTree(s[a])
                            /\ s[a].line = a /\ First(s[a]) = a
  <2>1. \A a \in 1..Size : /\ IsTree(s[a])
                           /\ s[a].line = a /\ First(s[a]) = a
    BY <1>1, TreeOfLine DEF Size, IsTree, First
  <2>2. DOMAIN s = 1..Size /\ s = [a \in 1..Size |-> s[a]]
    OBVIOUS
  <2> HIDE DEF s
  <2>3. IsSeq(s) /\ Len(s) = Size
    BY <1>1, <2>2 DEF IsSeq
  <2> QED
    BY <2>1, <2>2, <2>3
<1> HIDE DEF s
<1>8. Size' = Size
  BY <1>3 DEF Size
<1>9. CASE Size > 1
  <2>1. pc' = "merge" /\ i' = Size /\ merged' = <<>>
    BY <1>6, <1>7, <1>9 DEF StartFunction, s
  <2>2. Covers(<<>>, Size + 1, Size)
    BY DEF Covers, IsSeq
  <2>3. Merging'
    <3>1. k' <= Len(program')
      BY <1>1, <1>3
    <3>2. trees' = [j \in 1..Size' |-> GenerateTree(program'[k'], j)]
      BY <1>3, <1>6, <1>8
    <3>3. Lines(output'[k'], 1, 0)
      BY <1>2, <1>3, <1>5
    <3> QED
      BY <1>1, <1>3, <1>8, <2>1, <2>2, <3>1, <3>2, <3>3 DEF Merging
  <2> QED
    BY <1>3, <1>4, <2>1, <2>3 DEF IInv, Tiling
<1>10. CASE Size <= 1
  <2>1. pc' = "tile" /\ merged' = s
    BY <1>1, <1>6, <1>7, <1>10 DEF StartFunction, s
  <2>2. Covers(s, 1, Size)
    <3>1. CASE Size = 0
      BY <3>1, <1>7 DEF Covers
    <3>2. CASE Size = 1
      <4>1. s # <<>> /\ First(s[1]) = 1 /\ s[Len(s)].line = Size
        BY <3>2, <1>7
      <4> QED
        BY <3>2, <4>1, <1>7 DEF Covers
    <3> QED
      BY <1>1, <1>10, <3>1, <3>2
  <2>3. Tiling'
    <3>1. k' <= Len(program')
      BY <1>1, <1>3
    <3>2. Covers(merged', 1, Size')
      BY <1>8, <2>1, <2>2
    <3>3. t' = 1 /\ t' \in 1..(Len(merged') + 1)
      BY <1>1, <1>3, <1>7, <2>1
    <3>4. Lines(output'[k'], 1, Upto(merged', t'))
      BY <1>2, <1>3, <1>5, <3>3 DEF Upto
    <3> QED
      BY <3>1, <3>2, <3>3, <3>4 DEF Tiling
  <2> QED
    BY <1>3, <1>4, <2>1, <2>3 DEF IInv, Merging
<1> QED
  BY <1>1, <1>9, <1>10

\* A tree, merged or not, is put in front of the forest.
LEMMA MergeStepIInv == IInv /\ (MergePair \/ KeepTree) => IInv'
<1> SUFFICES ASSUME IInv, MergePair \/ KeepTree PROVE IInv'
  OBVIOUS
<1>1. /\ program[k].code \in Seq(Instructions) /\ Size \in Nat
      /\ k <= Len(program) /\ i \in 1..Size
      /\ \A j \in 1..Size : trees[j] = GenerateTree(program[k], j)
      /\ Covers(merged, i + 1, Size)
  <2>1. pc = "merge" /\ k <= Len(program) /\ i > 0
    BY DEF IInv, Merging, MergePair, KeepTree
  <2>2. Size \in Nat /\ i \in 0..Size
    BY <2>1, Programs1 DEF IInv, Merging
  <2> QED
    BY <2>1, <2>2, Programs1 DEF IInv, Merging
<1>2. \A j \in 1..Size : /\ Single(trees[j])
                         /\ trees[j].line = j /\ trees[j].below = <<>>
  BY <1>1, TreeOfLine DEF Size
<1>3. i' \in 0..Size /\ Covers(merged', i' + 1, Size)
  <2>1. CASE KeepTree
    <3>1. IsTree(trees[i]) /\ trees[i].line = i /\ First(trees[i]) = i
      BY <1>1, <1>2 DEF IsTree, First
    <3>2. Covers(<<trees[i]>> \o merged, i, Size)
      <4>1. i + 1 \in Nat /\ i \in Nat /\ (i + 1) - 1 = i
        BY <1>1
      <4> QED
        BY <1>1, <3>1, <4>1, CoversMore
    <3>3. i' = i - 1 /\ (i - 1) + 1 = i /\ merged' = <<trees[i]>> \o merged
      BY <2>1, <1>1 DEF KeepTree
    <3> QED
      BY <1>1, <3>2, <3>3
  <2>2. CASE MergePair
    <3> DEFINE x == MergeTrees(trees[i], trees[i - 1])
    <3>1. i > 1 /\ i - 1 \in 1..Size
      BY <2>2, <1>1 DEF MergePair
    <3>2. trees[i - 1].line = i - 1 /\ Single(trees[i - 1]) /\ Single(trees[i])
          /\ trees[i].line = i
      BY <1>1, <1>2, <3>1
    <3>3. x.node = trees[i].node /\ x.line = i /\ x.below = <<trees[i - 1]>>
      <4>1. PICK a, b, c : trees[i] = [node |-> a, line |-> b, below |-> c]
        BY <1>1 DEF GenerateTree
      <4>2. trees[i].line = i
        BY <3>2
      <4> QED
        BY <4>1, <4>2 DEF MergeTrees
    <3>4. IsTree(x) /\ First(x) = i - 1
      <4>1. x.below # <<>> /\ x.below[1] = trees[i - 1]
        BY <3>3
      <4>2. Single(x)
        BY <3>2, <3>3 DEF Single
      <4> QED
        BY <3>2, <3>3, <4>1, <4>2 DEF IsTree, First
    <3> HIDE DEF x
    <3>5. Covers(<<x>> \o merged, i - 1, Size)
      <4>1. i + 1 \in Nat /\ i - 1 \in Nat /\ (i + 1) - 1 = i
        BY <1>1
      <4> QED
        BY <1>1, <3>3, <3>4, <4>1, CoversMore
    <3>6. i' = i - 2 /\ (i - 2) + 1 = i - 1 /\ merged' = <<x>> \o merged
      BY <2>2, <1>1 DEF MergePair, x
    <3> QED
      BY <1>1, <3>1, <3>5, <3>6
  <2> QED
    BY <2>1, <2>2
<1>4. /\ pc' = "merge" /\ pc = "merge" /\ program' = program /\ k' = k
      /\ trees' = trees /\ t' = t /\ output' = output
  BY DEF MergePair, KeepTree
<1>5. Size' = Size
  BY <1>4 DEF Size
<1>6. Written'
  BY <1>4 DEF IInv, Written
<1>7. Merging'
  BY <1>3, <1>4, <1>5 DEF IInv, Merging
<1> QED
  BY <1>4, <1>6, <1>7 DEF IInv, Tiling

\* All trees are merged: the forest covers the function.
LEMMA MergeDoneIInv == IInv /\ MergeDone => IInv'
<1> SUFFICES ASSUME IInv, MergeDone PROVE IInv'
  OBVIOUS
<1>1. /\ pc' = "tile" /\ pc = "merge" /\ i = 0
      /\ program' = program /\ k' = k /\ merged' = merged /\ t' = t
      /\ output' = output
  BY DEF MergeDone
<1>2. Size' = Size
  BY <1>1 DEF Size
<1>3. Written'
  BY <1>1 DEF IInv, Written
<1>4. Tiling'
  <2>1. Covers(merged, 1, Size) /\ t = 1 /\ Lines(output[k], 1, 0) /\ k <= Len(program)
    BY <1>1 DEF IInv, Merging
  <2>2. Len(merged) \in Nat
    BY <2>1 DEF Covers, IsSeq
  <2> QED
    BY <1>1, <1>2, <2>1, <2>2 DEF Tiling, Upto
<1> QED
  BY <1>1, <1>3, <1>4 DEF IInv, Merging

\* The next tree's code follows that of the trees before it.
LEMMA EmitTreeIInv == IInv /\ EmitTree => IInv'
<1> SUFFICES ASSUME IInv, EmitTree PROVE IInv'
  OBVIOUS
<1>1. PICK number \in ReturnNumbers :
        output' = [output EXCEPT ![k] = @ \o Emit(merged[t], number)]
  BY DEF EmitTree
<1>2. /\ pc = "tile" /\ pc' = "tile" /\ program' = program /\ k' = k
      /\ merged' = merged /\ t' = t + 1
  BY DEF EmitTree
<1>3. /\ k \in 1..Len(program) /\ Size \in Nat /\ Len(program) \in Nat
      /\ Covers(merged, 1, Size)
      /\ Lines(output[k], 1, Upto(merged, t))
  BY <1>2, Programs1 DEF IInv, Tiling, Written
<1>4. /\ Len(merged) \in Nat /\ DOMAIN merged = 1..Len(merged)
      /\ t \in DOMAIN merged
  BY <1>2, <1>3 DEF IInv, Tiling, Covers, IsSeq, EmitTree
<1>5. /\ IsSeq(output) /\ Len(output) = k /\ DOMAIN output = 1..k
  BY <1>2 DEF IInv, Written, IsSeq
<1>6. /\ IsSeq(output') /\ Len(output') = k /\ DOMAIN output' = 1..k
      /\ \A f \in 1..(k - 1) : output'[f] = output[f]
      /\ output'[k] = output[k] \o Emit(merged[t], number)
  <2> DEFINE u == output[k] \o Emit(merged[t], number)
             w == [output EXCEPT ![k] = u]
  <2>1. output' = w
    BY <1>1
  <2> HIDE DEF u
  <2>2. /\ DOMAIN w = 1..k /\ w[k] = u /\ w = [f \in 1..k |-> w[f]]
        /\ \A f \in 1..(k - 1) : w[f] = output[f]
    <3>1. k \in 1..k /\ \A f \in 1..(k - 1) : f \in 1..k /\ f # k
      BY <1>3
    <3>2. DOMAIN w = 1..k /\ w = [f \in DOMAIN w |-> w[f]]
      BY <1>5
    <3>3. w[k] = u /\ \A f \in 1..(k - 1) : w[f] = output[f]
      BY <1>5, <3>1
    <3> HIDE DEF w
    <3> QED
      BY <3>2, <3>3
  <2> HIDE DEF w
  <2>3. IsSeq(w) /\ Len(w) = k
    BY <1>3, <2>2 DEF IsSeq
  <2> QED
    BY <2>1, <2>2, <2>3 DEF u
<1>7. IsTree(merged[t]) /\ merged[t].line \in Nat /\ First(merged[t]) \in Int
  BY <1>3, <1>4 DEF Covers, IsTree, Single, First
<1>8. /\ Upto(merged, t) \in Nat
      /\ First(merged[t]) = Upto(merged, t) + 1
      /\ Upto(merged, t) <= merged[t].line
  <2>1. CASE t = 1
    <3>1. First(merged[1]) = 1
      BY <1>3, <1>4, <2>1 DEF Covers
    <3> QED
      BY <1>7, <2>1, <3>1 DEF Upto
  <2>2. CASE t # 1
    <3>1. t - 1 \in DOMAIN merged /\ (t - 1) + 1 = t
      BY <1>4, <2>2
    <3>2. First(merged[t]) = merged[t - 1].line + 1
      BY <1>3, <1>4, <3>1 DEF Covers
    <3>3. merged[t - 1].line \in Nat
      BY <1>3, <3>1 DEF Covers, IsTree, Single
    <3>4. First(merged[t]) <= merged[t].line
      BY <1>7 DEF First
    <3> QED
      BY <1>7, <2>2, <3>2, <3>3, <3>4 DEF Upto
  <2> QED
    BY <2>1, <2>2
<1>9. Lines(output'[k], 1, merged[t].line)
  <2> DEFINE n == Upto(merged, t)
             p == merged[t].line
             u == Emit(merged[t], number)
  <2>1. Lines(u, n + 1, p)
    BY <1>7, <1>8, EmitLines
  <2>2. Lines(output[k], 1, n) /\ n \in Nat /\ p \in Nat /\ n <= p
    BY <1>3, <1>7, <1>8
  <2>3. output'[k] = output[k] \o u
    BY <1>6
  <2> HIDE DEF n, p, u
  <2>4. n \in Int /\ p \in Int /\ n + 1 \in {n, n + 1} /\ 1 <= n + 1
    BY <2>2
  <2>5. Lines(output[k] \o u, 1, p)
    BY <2>1, <2>2, <2>4, ConcatLines
  <2> QED
    BY <2>3, <2>5 DEF p
<1>10. Size' = Size
  BY <1>2 DEF Size
<1>11. Written'
  <2>1. ASSUME NEW f \in 1..(k - 1)
        PROVE  Lines(output[f], 1, Len(program[f].code))
    BY <1>3, <1>5 DEF IInv, Written
  <2> QED
    BY <1>2, <1>3, <1>6, <2>1 DEF Written
<1>12. Tiling'
  <2>1. t' \in 1..(Len(merged') + 1) /\ Upto(merged', t') = merged[t].line
    BY <1>2, <1>4 DEF Upto
  <2>2. k' <= Len(program')
    BY <1>2, <1>3
  <2> QED
    BY <1>2, <1>3, <1>9, <1>10, <2>1, <2>2 DEF Tiling
<1> QED
  BY <1>2, <1>11, <1>12 DEF IInv, Merging

\* The last tree ends with the last line, so the function is complete.
LEMMA EndFunctionIInv == IInv /\ EndFunction => IInv'
<1> SUFFICES ASSUME IInv, EndFunction PROVE IInv'
  OBVIOUS
<1>1. /\ pc = "tile" /\ pc' = "function" /\ program' = program /\ k' = k + 1
      /\ output' = output /\ t > Len(merged)
  BY DEF EndFunction
<1>2. /\ k \in 1..Len(program) /\ Size \in Nat /\ Len(program) \in Nat
      /\ Covers(merged, 1, Size) /\ t \in 1..(Len(merged) + 1)
      /\ Lines(output[k], 1, Upto(merged, t))
  BY <1>1, Programs1 DEF IInv, Tiling, Written
<1>3. Len(merged) \in Nat /\ DOMAIN merged = 1..Len(merged)
  BY <1>2 DEF Covers, IsSeq
<1>4. t = Len(merged) + 1
  BY <1>1, <1>2, <1>3
<1>5. Upto(merged, t) = Size
  <2>1. CASE merged = <<>>
    BY <1>2, <1>4, <2>1 DEF Covers, Upto
  <2>2. CASE merged # <<>>
    <3>1. Len(merged) # 0
      BY <1>2, <1>3, <2>2 DEF Covers, IsSeq
    <3>2. t # 1 /\ t - 1 = Len(merged)
      BY <1>3, <1>4, <3>1
    <3> QED
      BY <1>2, <2>2, <3>2 DEF Covers, Upto
  <2> QED
    BY <2>1, <2>2
<1>6. Written'
  <2>1. IsSeq(output) /\ Len(output) = k /\ DOMAIN output = 1..k
    BY <1>1 DEF IInv, Written, IsSeq
  <2>2. \A f \in DOMAIN output : f < k + 1 => Lines(output[f], 1, Len(program[f].code))
    <3> SUFFICES ASSUME NEW f \in 1..k
                 PROVE  Lines(output[f], 1, Len(program[f].code))
      BY <2>1
    <3>1. CASE f = k
      BY <1>2, <1>5, <3>1 DEF Size
    <3>2. CASE f # k
      BY <1>2, <2>1, <3>2 DEF IInv, Written
    <3> QED
      BY <3>1, <3>2
  <2>3. k' \in 1..(Len(program') + 1) /\ Len(output') = k' - 1
    BY <1>1, <1>2, <2>1
  <2> QED
    BY <1>1, <2>1, <2>2, <2>3 DEF Written
<1> QED
  BY <1>1, <1>6 DEF IInv, Merging, Tiling

\* The strengthened invariant, for every program and every choice of labels.
THEOREM Invariant == Spec => []IInv
<1>1. ASSUME IInv, [Next]_vars
      PROVE  IInv'
  <2>1. CASE EndProgram
    BY <1>1, <2>1 DEF EndProgram, IInv, Written, Merging, Tiling
  <2>2. CASE UNCHANGED vars
    BY <1>1, <2>2 DEF vars, IInv, Written, Merging, Tiling, Size
  <2> QED
    BY <1>1, <2>1, <2>2, StartFunctionIInv, MergeStepIInv, MergeDoneIInv,
       EmitTreeIInv, EndFunctionIInv DEF Next
<1> QED
  BY <1>1, InitIInv, PTL DEF Spec

\* The loops stay inside the forests.
THEOREM TypeCorrect == Spec => []TypeOK
<1>1. IInv => TypeOK
  <2> SUFFICES ASSUME IInv PROVE TypeOK
    OBVIOUS
  <2>1. pc = "merge" => i \in 0..Len(trees)
    <3> SUFFICES ASSUME pc = "merge" PROVE i \in 0..Len(trees)
      OBVIOUS
    <3>1. Size \in Nat
      BY Programs1 DEF IInv, Merging
    <3>2. trees = [j \in 1..Size |-> GenerateTree(program[k], j)] /\ i \in 0..Size
      BY DEF IInv, Merging
    <3> QED
      BY <3>1, <3>2
  <2> QED
    BY <2>1 DEF IInv, Written, Merging, Tiling, TypeOK
<1> QED
  BY <1>1, Invariant, PTL

\* No instruction is emitted before one that precedes it.
THEOREM InOrder == Spec => []EmittedInOrder
<1>1. IInv => EmittedInOrder
  <2> SUFFICES ASSUME IInv, NEW f \in DOMAIN output,
                      NEW a \in DOMAIN output[f], NEW b \in DOMAIN output[f], a < b
               PROVE  output[f][a].line <= output[f][b].line
    BY DEF EmittedInOrder
  <2>1. k \in Nat /\ Len(output) \in {k - 1, k} /\ DOMAIN output = 1..Len(output)
    BY ProgramsAreTyped DEF IInv, Written, IsSeq
  <2>2. CASE f < k
    BY <2>2 DEF IInv, Written, Lines
  <2>3. CASE ~(f < k)
    <3>1. f = k /\ pc \in {"merge", "tile"}
      BY <2>1, <2>3 DEF IInv, Written
    <3> QED
      BY <3>1 DEF IInv, Merging, Tiling, Lines
  <2> QED
    BY <2>2, <2>3
<1> QED
  BY <1>1, Invariant, PTL

\* A function that has been written out has all its instructions.
THEOREM Complete == Spec => []NothingLeftOut
<1>1. IInv => NothingLeftOut
  <2> SUFFICES ASSUME IInv, NEW f \in DOMAIN output, f < k
               PROVE  {output[f][a].line : a \in DOMAIN output[f]}
                        = DOMAIN program[f].code
    BY DEF NothingLeftOut
  <2>1. {output[f][a].line : a \in DOMAIN output[f]} = 1..Len(program[f].code)
    BY DEF IInv, Written, Lines
  <2>2. program[f].code \in Seq(Instructions)
    <3>1. program \in Seq([name : STRING, code : Seq(Instructions)])
      BY ProgramsAreTyped DEF IInv
    <3>2. k \in Nat /\ k <= Len(program) + 1 /\ Len(program) \in Nat
      BY <3>1 DEF IInv, Written
    <3>3. DOMAIN output = 1..Len(output) /\ Len(output) \in Nat
      BY DEF IInv, Written, IsSeq
    <3>4. f \in 1..Len(program)
      BY <3>2, <3>3
    <3>5. program[f] \in [name : STRING, code : Seq(Instructions)]
      BY <3>1, <3>4, ElementOfSeq
    <3> QED
      BY <3>5
  <2>3. DOMAIN program[f].code = 1..Len(program[f].code)
    BY <2>2
  <2> QED
    BY <2>1, <2>3
<1> QED
  BY <1>1, Invariant, PTL
=============================================================================
