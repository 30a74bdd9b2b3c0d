--------------------------- MODULE RegAllocProofs ---------------------------
(***************************************************************************)
(* Proofs about the loop of the L2 compiler that analyses, colours and     *)
(* spills a function until every variable has a register: whatever it      *)
(* spills, in whatever round, the code it adds stays in its own part of    *)
(* the frame.                                                              *)
(***************************************************************************)
EXTENDS RegAlloc, SequenceTheorems, WellFoundedInduction, TLAPS

Special == Graph!NonSpill

\* What the solver works on is the function as it is now, and the names it finds are
\* mentioned there or are registers.
SolverInv ==
  LET lines == 1..Len(f.code)
      sets  == [lines -> SUBSET (Mentioned(f.code) \cup Special)]
  IN  /\ GEN = [j \in lines |-> Gen(f.code[j])]
      /\ KILL = [j \in lines |-> Kill(f.code[j])]
      /\ successors = [j \in lines |-> Successors(f.code, j)]
      /\ In \in sets /\ Out \in sets
      /\ i \in 0..Len(f.code)

\* The stack holds variables of the function, each once, and while it is built none of
\* them is in the graph.
StackInv ==
  /\ stack \in Seq(Mentioned(f.code))
  /\ \A j, k \in DOMAIN stack : stack[j] = stack[k] => j = k
  /\ step = "simplify" =>
       \A n \in DOMAIN graph \ Special :
         n \in Mentioned(f.code) /\ \A k \in DOMAIN stack : stack[k] # n

\* Spill code stays above the locals of the source function and below the caller's frame.
SlotsInv ==
  \A ins \in ToSet(f.code) : ins.line = 0 =>
    ins.off \in source.locals * 8 .. (f.locals - 1) * 8 /\ ins.off % 8 = 0

IInv ==
  /\ source \in Sources
  /\ DOMAIN f = {"code", "locals", "variables"}
  /\ IsCode(f.code) /\ f.locals \in Nat /\ f.locals >= source.locals
  /\ SlotsInv
  /\ pc \in {"function", "liveness", "coloring", "spill", "run", "returned"}
  /\ pc \in {"function", "liveness", "coloring", "spill"}
       => f.variables \subseteq Mentioned(f.code)
  /\ todo \in Seq(Mentioned(f.code))
  /\ \A j, k \in DOMAIN todo : todo[j] = todo[k] => j = k
  /\ pc # "spill" => todo = <<>>
  /\ pc = "liveness" => SolverInv
  /\ pc = "coloring" => StackInv
  /\ pc \in {"run", "returned"} => at \in 1..Len(f.code)

-----------------------------------------------------------------------------
(***************************************************************************)
(* Sequences put together from sequences                                   *)
(***************************************************************************)
\* A nonempty set of numbers has a least one.
LEMMA LeastNumber ==
  ASSUME NEW T, T \subseteq Nat, T # {}
  PROVE  \E x \in T : \A y \in T : x <= y
<1>1. IsWellFoundedOn(OpToRel(<,Nat), Nat)
  BY NatLessThanWellFounded
<1>2. PICK x \in T : \A y \in T : <<y, x>> \notin OpToRel(<,Nat)
  BY <1>1, WFMin
<1>3. \A y \in T : ~(y < x)
  BY <1>2 DEF OpToRel
<1> QED
  BY <1>3

Joined(g, seqs, m) ==
  /\ g[1] = seqs[1]
  /\ \A n \in 2..m : g[n] = g[n-1] \o seqs[n]

LEMMA JoinedExists ==
  ASSUME NEW S, NEW seqs \in Seq(Seq(S)), seqs # <<>>
  PROVE  \E g \in [1..Len(seqs) -> Seq(S)] : Joined(g, seqs, Len(seqs))
<1> DEFINE Has(m) == \E g \in [1..m -> Seq(S)] : Joined(g, seqs, m)
           Bad == {m \in Nat : 1 <= m /\ m <= Len(seqs) /\ ~Has(m)}
<1>0. Len(seqs) \in Nat /\ 1 <= Len(seqs)
  OBVIOUS
<1> SUFFICES Has(Len(seqs))
  OBVIOUS
<1> HIDE DEF Has
<1> SUFFICES ASSUME Bad # {} PROVE FALSE
  BY <1>0
<1>1. PICK m \in Bad : \A k \in Bad : m <= k
  BY LeastNumber
<1>2. Has(1)
  <2> DEFINE g == [n \in 1..1 |-> seqs[1]]
  <2>1. g \in [1..1 -> Seq(S)] /\ Joined(g, seqs, 1)
    BY <1>0 DEF Joined
  <2> HIDE DEF g
  <2> QED
    BY <2>1 DEF Has
<1>3. m \in Nat /\ m > 1 /\ m <= Len(seqs) /\ m-1 \in Nat /\ 1 <= m-1 /\ m-1 <= Len(seqs)
  BY <1>1, <1>2
<1>4. Has(m-1)
  BY <1>1, <1>3
<1>5. PICK g \in [1..m-1 -> Seq(S)] : Joined(g, seqs, m-1)
  BY <1>4 DEF Has
<1> DEFINE h == [n \in 1..m |-> IF n = m THEN g[m-1] \o seqs[m] ELSE g[n]]
<1>6. h \in [1..m -> Seq(S)]
  <2>1. \A n \in 1..m : n # m => n \in 1..m-1
    BY <1>3
  <2>2. g[m-1] \in Seq(S) /\ seqs[m] \in Seq(S)
    BY <1>3, <1>5
  <2>3. g[m-1] \o seqs[m] \in Seq(S)
    BY <2>2
  <2> QED
    BY <2>1, <2>3, <1>5
<1>7. Joined(h, seqs, m)
  <2>1. h[1] = seqs[1]
    BY <1>3, <1>5 DEF Joined
  <2>2. ASSUME NEW n \in 2..m PROVE h[n] = h[n-1] \o seqs[n]
    <3>1. n \in 1..m /\ n-1 \in 1..m /\ n-1 # m /\ n-1 \in 1..m-1
      BY <1>3
    <3>2. h[n-1] = g[n-1]
      BY <3>1
    <3>3. CASE n = m
      BY <3>1, <3>2, <3>3
    <3>4. CASE n # m
      <4>1. n \in 2..m-1 /\ h[n] = g[n]
        BY <3>1, <3>4, <1>3
      <4> QED
        BY <4>1, <3>2, <1>5 DEF Joined
    <3> QED
      BY <3>3, <3>4
  <2> QED
    BY <2>1, <2>2 DEF Joined
<1> HIDE DEF h
<1>8. Has(m)
  BY <1>6, <1>7 DEF Has
<1> QED
  BY <1>1, <1>8

\* FlattenSeq is such a function's last value.
LEMMA FlattenIsJoined ==
  ASSUME NEW S, NEW seqs \in Seq(Seq(S)), seqs # <<>>
  PROVE  \E g \in [1..Len(seqs) -> Seq(S)] :
            Joined(g, seqs, Len(seqs)) /\ FlattenSeq(seqs) = g[Len(seqs)]
<1> DEFINE N == Len(seqs)
           Is(h) == h = [n \in 1..N |-> IF n = 1 THEN seqs[n] ELSE h[n-1] \o seqs[n]]
           c == CHOOSE h : Is(h)
<1>1. N \in Nat /\ N # 0
  OBVIOUS
<1>2. FlattenSeq(seqs) = c[N]
  BY <1>1 DEF FlattenSeq
<1>3. PICK g \in [1..N -> Seq(S)] : Joined(g, seqs, N)
  BY JoinedExists
<1> HIDE DEF N
<1>4. Is(g)
  <2>1. ASSUME NEW n \in 1..N
        PROVE  g[n] = IF n = 1 THEN seqs[n] ELSE g[n-1] \o seqs[n]
    <3>1. n # 1 => n \in 2..N
      BY <1>1
    <3> QED
      BY <1>3, <3>1 DEF Joined
  <2> QED
    BY <2>1
<1> HIDE DEF Is
<1>5. Is(c)
  BY <1>4
<1> USE DEF Is
<1>6. N \in 1..N /\ 1 \in 1..N
  BY <1>1
<1>7. DOMAIN c = 1..N /\ \A n \in 1..N : c[n] = IF n = 1 THEN seqs[n] ELSE c[n-1] \o seqs[n]
  <2> HIDE DEF c
  <2>1. c = [n \in 1..N |-> IF n = 1 THEN seqs[n] ELSE c[n-1] \o seqs[n]]
    BY <1>5
  <2> DEFINE d == [n \in 1..N |-> IF n = 1 THEN seqs[n] ELSE c[n-1] \o seqs[n]]
  <2>2. DOMAIN d = 1..N /\ \A n \in 1..N : d[n] = IF n = 1 THEN seqs[n] ELSE c[n-1] \o seqs[n]
    OBVIOUS
  <2>3. c = d
    BY <2>1
  <2> HIDE DEF d
  <2> QED
    BY <2>2, <2>3
<1> HIDE DEF c, Is
<1> DEFINE Bad == {n \in Nat : n \in 1..N /\ c[n] # g[n]}
<1>8. Bad = {}
  <2> SUFFICES ASSUME Bad # {} PROVE FALSE
    OBVIOUS
  <2>1. PICK m \in Bad : \A k \in Bad : m <= k
    BY LeastNumber
  <2>2. c[1] = seqs[1] /\ g[1] = seqs[1]
    BY <1>6, <1>3, <1>7 DEF Joined
  <2>3. m # 1 /\ m \in 2..N /\ m-1 \in 1..N /\ m-1 \in Nat /\ m-1 \notin Bad
    BY <1>1, <2>1, <2>2
  <2>4. c[m-1] = g[m-1]
    BY <2>3
  <2>5. c[m] = c[m-1] \o seqs[m] /\ g[m] = g[m-1] \o seqs[m]
    BY <1>3, <1>7, <2>3 DEF Joined
  <2> QED
    BY <2>1, <2>4, <2>5
<1>9. c[N] = g[N]
  <2>1. N \notin Bad
    BY <1>8
  <2> QED
    BY <2>1, <1>1, <1>6
<1> QED
  BY <1>2, <1>3, <1>9 DEF N

\* What a sequence put together from others holds, and how it ends
LEMMA FlattenIs ==
  ASSUME NEW S, NEW seqs \in Seq(Seq(S)), seqs # <<>>, Last(seqs) # <<>>
  PROVE  /\ FlattenSeq(seqs) \in Seq(S)
         /\ ToSet(FlattenSeq(seqs)) = UNION {ToSet(seqs[j]) : j \in DOMAIN seqs}
         /\ FlattenSeq(seqs) # <<>>
         /\ Last(FlattenSeq(seqs)) = Last(Last(seqs))
<1> DEFINE N == Len(seqs)
<1>1. PICK g \in [1..N -> Seq(S)] : Joined(g, seqs, N) /\ FlattenSeq(seqs) = g[N]
  BY FlattenIsJoined
<1>2. N \in Nat /\ N # 0 /\ DOMAIN seqs = 1..N /\ \A j \in 1..N : seqs[j] \in Seq(S)
  OBVIOUS
<1>3. N \in 1..N /\ 1 \in 1..N /\ Last(seqs) = seqs[N]
  BY <1>2 DEF Last
<1> HIDE DEF N
<1>4. ASSUME NEW s \in Seq(S), NEW t \in Seq(S)
      PROVE  /\ ToSet(s \o t) = ToSet(s) \union ToSet(t) /\ s \o t \in Seq(S)
             /\ t # <<>> => s \o t # <<>> /\ Last(s \o t) = Last(t)
  <2>1. s \o t \in Seq(S) /\ Len(s \o t) = Len(s) + Len(t)
    OBVIOUS
  <2>2. ASSUME NEW e \in ToSet(s \o t) PROVE e \in ToSet(s) \union ToSet(t)
    <3>1. PICK k \in 1..Len(s \o t) : e = (s \o t)[k]
      BY <2>1 DEF ToSet
    <3>2. CASE k <= Len(s)
      BY <2>1, <3>1, <3>2 DEF ToSet
    <3>3. CASE k > Len(s)
      <4>1. k - Len(s) \in 1..Len(t) /\ e = t[k - Len(s)]
        BY <2>1, <3>1, <3>3
      <4> QED
        BY <4>1 DEF ToSet
    <3> QED
      BY <2>1, <3>2, <3>3
  <2>3. ASSUME NEW e \in ToSet(s) PROVE e \in ToSet(s \o t)
    <3>1. PICK k \in 1..Len(s) : e = s[k]
      BY DEF ToSet
    <3>2. k \in 1..Len(s \o t) /\ (s \o t)[k] = e
      BY <2>1, <3>1
    <3> QED
      BY <2>1, <3>2 DEF ToSet
  <2>4. ASSUME NEW e \in ToSet(t) PROVE e \in ToSet(s \o t)
    <3>1. PICK k \in 1..Len(t) : e = t[k]
      BY DEF ToSet
    <3>2. k + Len(s) \in 1..Len(s \o t) /\ (s \o t)[k + Len(s)] = e
      BY <2>1, <3>1
    <3>3. k + Len(s) \in DOMAIN (s \o t)
      BY <2>1, <3>2
    <3> HIDE <3>1, <3>2
    <3> QED
      BY <3>2, <3>3 DEF ToSet
  <2>5. t # <<>> => s \o t # <<>> /\ Last(s \o t) = Last(t)
    BY <2>1 DEF Last
  <2> QED
    BY <2>1, <2>2, <2>3, <2>4, <2>5
<1> DEFINE Upto(n) == UNION {ToSet(seqs[j]) : j \in 1..n}
           Bad == {n \in Nat : n \in 1..N /\ ToSet(g[n]) # Upto(n)}
<1>5. Upto(1) = ToSet(seqs[1])
  OBVIOUS
<1>6. \A n \in 2..N : Upto(n) = Upto(n-1) \union ToSet(seqs[n])
  <2> TAKE n \in 2..N
  <2>1. \A j \in 1..n : j = n \/ j \in 1..n-1
    OBVIOUS
  <2>2. \A j \in 1..n-1 : j \in 1..n
    OBVIOUS
  <2>3. n \in 1..n
    OBVIOUS
  <2> QED
    BY <2>1, <2>2, <2>3
<1> HIDE DEF Upto
<1>7. Bad = {}
  <2> SUFFICES ASSUME Bad # {} PROVE FALSE
    OBVIOUS
  <2>1. PICK m \in Bad : \A k \in Bad : m <= k
    BY LeastNumber
  <2>2. g[1] = seqs[1]
    BY <1>1 DEF Joined
  <2>3. m # 1
    BY <1>5, <2>1, <2>2
  <2>4. m \in 2..N /\ m \in 1..N /\ m-1 \in 1..N /\ m-1 \in Nat /\ m-1 \notin Bad
    BY <1>2, <2>1, <2>3
  <2>5. ToSet(g[m-1]) = Upto(m-1)
    BY <2>4
  <2>6. g[m] = g[m-1] \o seqs[m]
    BY <1>1, <2>4 DEF Joined
  <2>7. ToSet(g[m]) = ToSet(g[m-1]) \union ToSet(seqs[m])
    BY <1>1, <1>2, <1>4, <2>4, <2>6
  <2> QED
    BY <1>6, <2>1, <2>4, <2>5, <2>7
<1>8. ToSet(g[N]) = Upto(N)
  <2>1. N \notin Bad
    BY <1>7
  <2> QED
    BY <2>1, <1>2, <1>3
<1>9. g[N] # <<>> /\ Last(g[N]) = Last(seqs[N])
  <2>1. CASE N = 1
    BY <1>1, <1>3, <2>1 DEF Joined
  <2>2. CASE N # 1
    <3>1. N \in 2..N /\ N-1 \in 1..N
      BY <1>2, <2>2
    <3>2. g[N] = g[N-1] \o seqs[N]
      BY <1>1, <3>1 DEF Joined
    <3> QED
      BY <1>1, <1>2, <1>3, <1>4, <3>1, <3>2
  <2> QED
    BY <2>1, <2>2
<1> QED
  BY <1>1, <1>2, <1>3, <1>8, <1>9 DEF Upto

-----------------------------------------------------------------------------
(***************************************************************************)
(* Code and the names in it                                                *)
(***************************************************************************)
LEMMA MentionedIs ==
  ASSUME NEW code, NEW name
  PROVE  name \in Mentioned(code)
           <=> \E ins \in ToSet(code) : \E k \in DOMAIN ins.arg : ins.arg[k] = name
BY DEF Mentioned

LEMMA CodeIs ==
  ASSUME NEW code, IsCode(code)
  PROVE  /\ Len(code) \in Nat /\ DOMAIN code = 1..Len(code) /\ Len(code) \in 1..Len(code)
         /\ \A j \in 1..Len(code) : code[j] \in ToSet(code) /\ IsInstruction(code[j])
         /\ Last(code) = code[Len(code)]
         /\ code \in Seq(ToSet(code))
<1>1. code \in Seq(ToSet(code)) /\ code # <<>>
  BY DEF IsCode
<1>2. Len(code) \in Nat /\ DOMAIN code = 1..Len(code) /\ Len(code) # 0
  BY <1>1
<1>3. \A j \in 1..Len(code) : code[j] \in ToSet(code)
  BY <1>2 DEF ToSet
<1> QED
  BY <1>1, <1>2, <1>3 DEF IsCode, Last

\* What Spill makes of a function: each instruction is either new, and uses the slot, or
\* is one of before, where it was and with its operands but for the variable; and every
\* other name is still there.
LEMMA SpillIs ==
  ASSUME NEW code, IsCode(code), NEW v, NEW slot \in Int
  PROVE  /\ IsCode(Spill(code, v, slot))
         /\ \A new \in ToSet(Spill(code, v, slot)) :
              \/ new.line = 0 /\ new.off = (slot - 1) * 8
              \/ \E old \in ToSet(code) : new.line = old.line /\ new.off = old.off
         /\ Mentioned(code) \ {v} \subseteq Mentioned(Spill(code, v, slot))
<1> DEFINE N == Len(code)
           W(j) == SpillName(v, Cardinality({k \in 1..j : NeedsSpilled(code[k], v)}))
           Around(j) == <<SpillLoad(W(j), slot), ReplaceVar(code[j], v, W(j)),
                          SpillStore(W(j), slot)>>
           pieces == [j \in 1..N |-> IF NeedsSpilled(code[j], v) THEN Around(j)
                                     ELSE <<code[j]>>]
           S == UNION {ToSet(pieces[j]) : j \in 1..N}
<1>1. Spill(code, v, slot) = FlattenSeq(pieces)
  BY DEF Spill
<1>2. /\ N \in Nat /\ N \in 1..N /\ DOMAIN code = 1..N
      /\ \A j \in 1..N : code[j] \in ToSet(code) /\ IsInstruction(code[j])
      /\ Last(code) = code[N]
  BY CodeIs
<1> HIDE DEF W
<1>3. ASSUME NEW ins, IsInstruction(ins), NEW w
      PROVE  LET new == ReplaceVar(ins, v, w)
             IN  /\ IsInstruction(new) /\ new.line = ins.line /\ new.off = ins.off
                 /\ DOMAIN new.arg = DOMAIN ins.arg
                 /\ \A k \in DOMAIN ins.arg : ins.arg[k] # v => new.arg[k] = ins.arg[k]
  BY <1>3 DEF ReplaceVar, IsInstruction
<1>4. ASSUME NEW w
      PROVE  /\ IsInstruction(SpillLoad(w, slot)) /\ IsInstruction(SpillStore(w, slot))
             /\ SpillLoad(w, slot).line = 0 /\ SpillLoad(w, slot).off = (slot - 1) * 8
             /\ SpillStore(w, slot).line = 0 /\ SpillStore(w, slot).off = (slot - 1) * 8
  BY DEF SpillLoad, SpillStore, IsInstruction, Writes, Reads, Converted
<1>5. ASSUME NEW j \in 1..N
      PROVE  IF NeedsSpilled(code[j], v)
             THEN ToSet(pieces[j]) = {SpillLoad(W(j), slot), ReplaceVar(code[j], v, W(j)),
                                      SpillStore(W(j), slot)}
             ELSE pieces[j] = <<code[j]>> /\ ToSet(pieces[j]) = {code[j]}
  <2> HIDE DEF N
  <2>1. \A a, b, c : ToSet(<<a, b, c>>) = {a, b, c}
    BY DEF ToSet
  <2>2. \A a : ToSet(<<a>>) = {a}
    BY DEF ToSet
  <2>3. pieces[j] = IF NeedsSpilled(code[j], v) THEN Around(j) ELSE <<code[j]>>
    OBVIOUS
  <2> HIDE DEF pieces
  <2> QED
    BY <2>1, <2>2, <2>3
<1>6. pieces \in Seq(Seq(S)) /\ DOMAIN pieces = 1..N /\ Len(pieces) = N
  <2>1. ASSUME NEW j \in 1..N PROVE pieces[j] \in Seq(S)
    <3>1. ToSet(pieces[j]) \subseteq S
      OBVIOUS
    <3>2. pieces[j] \in Seq(ToSet(pieces[j]))
      <4>1. \A a, b, c : <<a, b, c>> \in Seq(ToSet(<<a, b, c>>))
        BY DEF ToSet
      <4>2. \A a : <<a>> \in Seq(ToSet(<<a>>))
        BY DEF ToSet
      <4>3. pieces[j] = IF NeedsSpilled(code[j], v) THEN Around(j) ELSE <<code[j]>>
        OBVIOUS
      <4> HIDE DEF pieces
      <4> QED
        BY <4>1, <4>2, <4>3
    <3> HIDE DEF pieces, S
    <3> QED
      BY <3>1, <3>2
  <2>2. DOMAIN pieces = 1..N
    OBVIOUS
  <2> DEFINE T == Seq(S)
  <2>3. \A j \in 1..N : pieces[j] \in T
    BY <2>1
  <2>4. pieces = [j \in 1..N |-> pieces[j]]
    OBVIOUS
  <2> HIDE DEF pieces, T, N
  <2>5. pieces \in Seq(T) /\ Len(pieces) = N
    BY <1>2, <2>2, <2>3, <2>4
  <2> QED
    BY <2>2, <2>5 DEF T
<1>7. ~NeedsSpilled(code[N], v)
  BY <1>2 DEF NeedsSpilled, IsCode
<1>8. Last(pieces) = <<code[N]>> /\ pieces # <<>>
  <2>1. pieces[N] = <<code[N]>>
    BY <1>2, <1>5, <1>7
  <2> HIDE DEF pieces, N
  <2> QED
    BY <2>1, <1>2, <1>6 DEF Last
<1> DEFINE flat == Spill(code, v, slot)
<1>9. /\ flat \in Seq(S) /\ ToSet(flat) = S /\ flat # <<>>
      /\ Last(flat) = code[N]
  <2>1. Last(pieces) # <<>> /\ Last(Last(pieces)) = code[N]
    <3>1. \A a : <<a>> # <<>> /\ Last(<<a>>) = a
      BY DEF Last
    <3> QED
      BY <3>1, <1>8
  <2>2. ToSet(FlattenSeq(pieces)) = UNION {ToSet(pieces[j]) : j \in DOMAIN pieces}
    <3> HIDE DEF pieces, S, N
    <3> QED
      BY <1>6, <1>8, <2>1, FlattenIs
  <2>3. S = UNION {ToSet(pieces[j]) : j \in DOMAIN pieces}
    BY <1>6
  <2> HIDE DEF pieces, S, N
  <2>4. /\ FlattenSeq(pieces) \in Seq(S) /\ FlattenSeq(pieces) # <<>>
        /\ Last(FlattenSeq(pieces)) = code[N]
    BY <1>6, <1>8, <2>1, FlattenIs
  <2> QED
    BY <1>1, <2>2, <2>3, <2>4
<1>10. \A new \in S : \E j \in 1..N : new \in ToSet(pieces[j])
  OBVIOUS
<1>11. \A j \in 1..N : ToSet(pieces[j]) \subseteq S
  OBVIOUS
<1> HIDE DEF pieces, S, N, flat
<1>12. ASSUME NEW new \in S
       PROVE  /\ IsInstruction(new)
              /\ \/ new.line = 0 /\ new.off = (slot - 1) * 8
                 \/ \E old \in ToSet(code) : new.line = old.line /\ new.off = old.off
  <2>1. PICK j \in 1..N : new \in ToSet(pieces[j])
    BY <1>10
  <2>2. CASE NeedsSpilled(code[j], v)
    <3>1. \/ new = SpillLoad(W(j), slot) \/ new = SpillStore(W(j), slot)
          \/ new = ReplaceVar(code[j], v, W(j))
      BY <1>5, <2>1, <2>2
    <3> QED
      BY <1>2, <1>3, <1>4, <3>1
  <2>3. CASE ~NeedsSpilled(code[j], v)
    <3>1. new = code[j]
      BY <1>5, <2>1, <2>3
    <3> QED
      BY <1>2, <3>1
  <2> QED
    BY <2>2, <2>3
<1>13. ASSUME NEW name \in Mentioned(code), name # v PROVE name \in Mentioned(flat)
  <2>1. PICK ins \in ToSet(code) : \E k \in DOMAIN ins.arg : ins.arg[k] = name
    BY MentionedIs
  <2>2. PICK k \in DOMAIN ins.arg : ins.arg[k] = name
    BY <2>1
  <2>3. PICK j \in 1..N : ins = code[j]
    BY <1>2 DEF ToSet
  <2>4. CASE NeedsSpilled(code[j], v)
    <3> DEFINE new == ReplaceVar(code[j], v, W(j))
    <3>1. new \in ToSet(flat)
      BY <1>5, <1>9, <1>11, <2>4
    <3>2. k \in DOMAIN new.arg /\ new.arg[k] = name
      BY <1>2, <1>3, <1>13, <2>2, <2>3
    <3> HIDE DEF new
    <3> QED
      BY <3>1, <3>2, MentionedIs
  <2>5. CASE ~NeedsSpilled(code[j], v)
    <3>1. code[j] \in ToSet(flat)
      BY <1>5, <1>9, <1>11, <2>5
    <3> QED
      BY <3>1, <2>2, <2>3, MentionedIs
  <2> QED
    BY <2>4, <2>5
<1>14. IsCode(flat)
  <2>1. flat \in Seq(ToSet(flat))
    BY <1>9
  <2>2. \A ins \in ToSet(flat) : IsInstruction(ins)
    BY <1>9, <1>12
  <2>3. code[N].op \in {"return", "goto"} /\ code[N].arg = <<>> /\ code[N].line # 0
    BY <1>2 DEF IsCode
  <2> QED
    BY <1>9, <2>1, <2>2, <2>3 DEF IsCode
<1> QED
  BY <1>9, <1>12, <1>13, <1>14 DEF flat

LEMMA SpecialIs ==
  /\ caller_save_registers \union callee_save_registers \union {"rsp", "rax"} \subseteq Special
  /\ \A n \in Nat : FirstArgs(n) \subseteq Special
<1>1. DOMAIN x86_registers = 1..15
  BY DEF x86_registers
<1>2. Special = {x86_registers[c] : c \in 1..15} \union {"rsp"}
  BY <1>1 DEF Special, Graph!NonSpill, Graph!RegisterSet
<1>3. /\ x86_registers[1] = "rdx" /\ x86_registers[2] = "rcx" /\ x86_registers[3] = "r8"
      /\ x86_registers[4] = "r9" /\ x86_registers[5] = "rax" /\ x86_registers[6] = "r10"
      /\ x86_registers[7] = "r11" /\ x86_registers[8] = "r12" /\ x86_registers[9] = "r13"
      /\ x86_registers[10] = "r14" /\ x86_registers[11] = "r15" /\ x86_registers[12] = "rbp"
      /\ x86_registers[13] = "rbx" /\ x86_registers[14] = "rdi" /\ x86_registers[15] = "rsi"
  BY DEF x86_registers
<1>4. {"rdx", "rcx", "r8", "r9", "rax", "r10", "r11", "r12", "r13", "r14", "r15", "rbp", "rbx",
       "rdi", "rsi", "rsp"} \subseteq Special
  BY <1>2, <1>3
<1>5. ASSUME NEW n \in Nat PROVE FirstArgs(n) \subseteq Special
  <2>1. \A k \in 1..Least(n, 6) : k \in 1..6
    BY DEF Least
  <2>2. \A k \in 1..6 : arg_registers[k] \in {"rdi", "rsi", "rdx", "rcx", "r8", "r9"}
    BY DEF arg_registers
  <2> QED
    BY <1>4, <2>1, <2>2 DEF FirstArgs
<1> QED
  BY <1>4, <1>5 DEF caller_save_registers, callee_save_registers

\* An instruction reads and writes what it mentions and registers.
LEMMA GenKillIs ==
  ASSUME NEW code, NEW ins \in ToSet(code), IsInstruction(ins)
  PROVE  /\ Gen(ins) \subseteq Mentioned(code) \union Special
         /\ Kill(ins) \subseteq Mentioned(code) \union Special
<1>1. \A k \in Writes[ins.op] \union Reads[ins.op] : ins.arg[k] \in Mentioned(code)
  BY MentionedIs DEF IsInstruction
<1>2. ImplicitGen(ins) \subseteq Special
  <2>1. /\ {"rax"} \union callee_save_registers \subseteq Special
        /\ FirstArgs(6) \subseteq Special /\ FirstArgs(ins.n) \subseteq Special
    BY SpecialIs DEF IsInstruction
  <2> QED
    BY <2>1, Zenon DEF ImplicitGen
<1>3. Gen(ins) \subseteq Mentioned(code) \union Special
  BY <1>1, <1>2 DEF Gen
<1>4. Kill(ins) \subseteq Mentioned(code) \union Special
  BY <1>1, SpecialIs DEF Kill
<1> QED
  BY <1>3, <1>4

LEMMA SuccessorsIs ==
  ASSUME NEW code, IsCode(code), NEW j \in 1..Len(code), j < Len(code)
  PROVE  Successors(code, j) \subseteq 1..Len(code)
<1>1. Len(code) \in Nat
  BY CodeIs
<1> QED
  BY <1>1 DEF Successors

-----------------------------------------------------------------------------
(***************************************************************************)
(* The allocation loop                                                     *)
(***************************************************************************)
LEMMA StartLivenessIInv == IInv /\ StartLiveness => IInv'
<1> SUFFICES ASSUME IInv, StartLiveness PROVE IInv'
  OBVIOUS
<1> DEFINE n == Len(f.code)
<1>1. /\ pc = "function" /\ pc' = "liveness" /\ UNCHANGED <<source, f, todo>>
      /\ GEN' = [j \in 1..n |-> Gen(f.code[j])] /\ KILL' = [j \in 1..n |-> Kill(f.code[j])]
      /\ successors' = [j \in 1..n |-> Successors(f.code, j)]
      /\ Live!Begin(GEN', KILL', successors')
  BY DEF StartLiveness, Live!Begin
<1>2. IsCode(f.code)
  BY DEF IInv
<1>3. n \in Nat
  BY <1>2, CodeIs
<1>4. Len(GEN') = n
  BY <1>1, <1>3
<1>5. In' = [j \in 1..n |-> {}] /\ Out' = [j \in 1..n |-> {}] /\ i' = n
  <2> HIDE DEF n
  <2> QED
    BY <1>1, <1>4 DEF Live!Begin
<1>6. SolverInv'
  BY <1>1, <1>3, <1>5 DEF SolverInv
<1> QED
  BY <1>1, <1>6 DEF IInv, SlotsInv

\* What a visit adds to the sets of an instruction comes from the instruction and from
\* those of its successors.
LEMMA LivenessStepIInv == IInv /\ LivenessStep => IInv'
<1> SUFFICES ASSUME IInv, LivenessStep PROVE IInv'
  OBVIOUS
<1> DEFINE lines == 1..Len(f.code)
           universe == Mentioned(f.code) \union Special
<1>1. pc = "liveness" /\ Live!Solve /\ UNCHANGED <<source, f, pc, todo>>
  BY DEF LivenessStep
<1>2. IsCode(f.code) /\ SolverInv
  BY <1>1 DEF IInv
<1>3. /\ Len(f.code) \in Nat
      /\ \A j \in lines : f.code[j] \in ToSet(f.code) /\ IsInstruction(f.code[j])
  BY <1>2, CodeIs
<1>4. SolverInv'
  <2>1. CASE Live!Visit
    <3> DEFINE out == Out[i] \union Live!LiveIntoSuccessors(In, i)
               in == GEN[i] \union (out \ KILL[i])
    <3>1. /\ i > 0 /\ i' = i - 1 /\ UNCHANGED <<GEN, KILL, successors>>
          /\ Out' = [Out EXCEPT ![i] = out] /\ In' = [In EXCEPT ![i] = in]
      BY <2>1 DEF Live!Visit
    <3>2. i \in lines /\ i' \in 0..Len(f.code)
      BY <1>2, <1>3, <3>1 DEF SolverInv
    <3>3. Len(GEN) = Len(f.code) /\ GEN[i] = Gen(f.code[i])
          /\ successors[i] = Successors(f.code, i)
      BY <1>2, <1>3, <3>2 DEF SolverInv
    <3>4. Live!LiveIntoSuccessors(In, i) \subseteq universe
      <4>1. i < Len(f.code) => successors[i] \subseteq lines
        BY <1>2, <3>2, <3>3, SuccessorsIs
      <4>2. \A s \in lines : In[s] \subseteq universe
        BY <1>2 DEF SolverInv
      <4> QED
        BY <3>3, <4>1, <4>2 DEF Live!LiveIntoSuccessors
    <3>5. out \subseteq universe /\ in \subseteq universe
      <4>1. Gen(f.code[i]) \subseteq universe
        BY <1>3, <3>2, GenKillIs
      <4>2. Out[i] \subseteq universe
        BY <1>2, <3>2 DEF SolverInv
      <4> QED
        BY <3>3, <3>4, <4>1, <4>2
    <3> HIDE DEF out, in
    <3> QED
      BY <1>1, <1>2, <3>1, <3>2, <3>5 DEF SolverInv
  <2>2. CASE Live!NextSweep
    <3>1. i' = Len(GEN) /\ UNCHANGED <<GEN, KILL, successors, In, Out>>
      BY <2>2 DEF Live!NextSweep
    <3>2. Len(GEN) = Len(f.code)
      BY <1>2, <1>3 DEF SolverInv
    <3> QED
      BY <1>1, <1>2, <1>3, <3>1, <3>2 DEF SolverInv
  <2>3. CASE Live!Finish
    BY <1>1, <1>2, <2>3 DEF SolverInv, Live!Finish
  <2> QED
    BY <1>1, <2>1, <2>2, <2>3 DEF Live!Solve
<1> QED
  BY <1>1, <1>4 DEF IInv, SlotsInv

LEMMA StartColoringIInv == IInv /\ StartColoring => IInv'
<1> SUFFICES ASSUME IInv, StartColoring PROVE IInv'
  OBVIOUS
<1> DEFINE universe == Mentioned(f.code) \union Special
<1>1. /\ pc = "liveness" /\ pc' = "coloring" /\ UNCHANGED <<source, f, todo>>
      /\ Graph!GenerateGraph(Lines, f.variables, ShiftAmounts(f.code))
  BY DEF StartColoring
<1>2. IsCode(f.code) /\ SolverInv /\ f.variables \subseteq Mentioned(f.code)
  BY <1>1 DEF IInv
<1>3. /\ stack' = <<>>
      /\ DOMAIN graph' = (UNION Lines) \union f.variables
  BY <1>1 DEF Graph!GenerateGraph
<1>4. UNION Lines \subseteq universe
  <2>1. ASSUME NEW j \in 1..Len(f.code)
        PROVE  In[j] \subseteq universe /\ Out[j] \subseteq universe /\ KILL[j] \subseteq universe
    <3>1. f.code[j] \in ToSet(f.code) /\ IsInstruction(f.code[j])
      BY <1>2, CodeIs
    <3>2. Kill(f.code[j]) \subseteq universe
      BY <3>1, GenKillIs
    <3> QED
      BY <1>2, <3>2 DEF SolverInv
  <2> HIDE DEF universe
  <2> QED
    BY <2>1 DEF Lines
<1>5. StackInv'
  <2>1. \A n \in DOMAIN graph' \ Special : n \in Mentioned(f.code)
    BY <1>2, <1>3, <1>4
  <2> QED
    BY <1>1, <1>3, <2>1 DEF StackInv
<1> QED
  BY <1>1, <1>5 DEF IInv, SlotsInv

\* Only Simplify puts a name on the stack, one that it takes out of the graph.
LEMMA ColoringStepIInv == IInv /\ ColoringStep => IInv'
<1> SUFFICES ASSUME IInv, ColoringStep PROVE IInv'
  OBVIOUS
<1>1. pc = "coloring" /\ Graph!Analyse /\ UNCHANGED <<source, f, pc, todo>>
  BY DEF ColoringStep
<1>2. StackInv
  BY <1>1 DEF IInv
<1>3. /\ stack \in Seq(Mentioned(f.code)) /\ Len(stack) \in Nat
      /\ DOMAIN stack = 1..Len(stack)
      /\ \A j, k \in 1..Len(stack) : stack[j] = stack[k] => j = k
  BY <1>2 DEF StackInv
<1>4. StackInv'
  <2>1. CASE Graph!Simplify
    <3>1. step = "simplify" /\ step' = step
      BY <2>1 DEF Graph!Simplify
    <3>2. PICK n \in DOMAIN graph \ Special :
            graph' = Graph!RemoveNode(n) /\ stack' = Append(stack, n)
      BY <2>1 DEF Graph!Simplify, Graph!Candidates, Special
    <3>3. DOMAIN graph' = DOMAIN graph \ {n}
      BY <3>2 DEF Graph!RemoveNode
    <3>4. /\ n \in Mentioned(f.code)
          /\ \A k \in 1..Len(stack) : stack[k] # n
          /\ \A m \in DOMAIN graph \ Special :
               m \in Mentioned(f.code) /\ \A k \in 1..Len(stack) : stack[k] # m
      BY <1>2, <1>3, <3>1, <3>2 DEF StackInv
    <3>5. /\ stack' \in Seq(Mentioned(f.code)) /\ DOMAIN stack' = 1..Len(stack)+1
          /\ stack'[Len(stack)+1] = n
          /\ \A k \in 1..Len(stack) : stack'[k] = stack[k]
          /\ \A k \in 1..Len(stack)+1 : k = Len(stack)+1 \/ k \in 1..Len(stack)
      BY <1>3, <3>2, <3>4
    <3>6. \A j, k \in 1..Len(stack)+1 : stack'[j] = stack'[k] => j = k
      BY <1>3, <3>4, <3>5
    <3>7. \A m \in DOMAIN graph' \ Special :
            m \in Mentioned(f.code) /\ \A k \in 1..Len(stack)+1 : stack'[k] # m
      BY <3>3, <3>4, <3>5
    <3> QED
      BY <1>1, <3>5, <3>6, <3>7 DEF StackInv
  <2>2. CASE Graph!EndSimplify \/ Graph!AllColored \/ Graph!GiveUp \/ Graph!ColorRegister
    <3>1. stack' = stack /\ step' # "simplify"
      BY <2>2 DEF Graph!EndSimplify, Graph!AllColored, Graph!GiveUp, Graph!ColorRegister
    <3> QED
      BY <1>1, <1>2, <3>1 DEF StackInv
  <2>3. CASE Graph!ColorNode
    <3>1. /\ stack # <<>> /\ stack' = SubSeq(stack, 1, Len(stack) - 1)
          /\ step = "select" /\ step' = step
      BY <2>3 DEF Graph!ColorNode
    <3>2. /\ stack' \in Seq(Mentioned(f.code)) /\ DOMAIN stack' = 1..Len(stack)-1
          /\ \A k \in 1..Len(stack)-1 : k \in 1..Len(stack) /\ stack'[k] = stack[k]
      BY <1>3, <3>1
    <3> QED
      BY <1>1, <1>3, <3>1, <3>2 DEF StackInv
  <2> QED
    BY <1>1, <2>1, <2>2, <2>3 DEF Graph!Analyse
<1> QED
  BY <1>1, <1>4 DEF IInv, SlotsInv

LEMMA ElementsIn ==
  ASSUME NEW A, NEW B, NEW s \in Seq(A), \A k \in DOMAIN s : s[k] \in B
  PROVE  s \in Seq(B)
OBVIOUS

LEMMA StartSpillingIInv == IInv /\ StartSpilling => IInv'
<1> SUFFICES ASSUME IInv, StartSpilling PROVE IInv'
  OBVIOUS
<1>1. pc = "coloring" /\ pc' = "spill" /\ todo' = stack /\ UNCHANGED <<source, f>>
  BY DEF StartSpilling
<1>2. StackInv
  BY <1>1 DEF IInv
<1> QED
  BY <1>1, <1>2 DEF IInv, SlotsInv, StackInv

\* The new slot is the last of the frame, and the names still to be spilled are mentioned
\* in what Spill has made of the function.
LEMMA SpillNextIInv == IInv /\ SpillNext => IInv'
<1> SUFFICES ASSUME IInv, SpillNext PROVE IInv'
  OBVIOUS
<1> DEFINE v == Head(todo)
           spilled == Spill(f.code, v, f.locals + 1)
<1>1. /\ pc = "spill" /\ todo # <<>> /\ todo' = Tail(todo) /\ UNCHANGED <<source, pc>>
      /\ f' = [code |-> spilled, locals |-> f.locals + 1, variables |-> {}]
  BY DEF SpillNext
<1>2. /\ source \in Sources /\ IsCode(f.code) /\ f.locals \in Nat
      /\ f.locals >= source.locals /\ SlotsInv
      /\ todo \in Seq(Mentioned(f.code)) /\ \A j, k \in DOMAIN todo : todo[j] = todo[k] => j = k
  BY DEF IInv
<1>3. source.locals \in Nat
  BY <1>2, SourcesAssumption
<1>4. /\ IsCode(spilled)
      /\ \A new \in ToSet(spilled) :
           \/ new.line = 0 /\ new.off = f.locals * 8
           \/ \E old \in ToSet(f.code) : new.line = old.line /\ new.off = old.off
      /\ Mentioned(f.code) \ {v} \subseteq Mentioned(spilled)
  <2>1. f.locals + 1 \in Int /\ (f.locals + 1) - 1 = f.locals
    BY <1>2
  <2> QED
    BY <1>2, <2>1, SpillIs
<1> HIDE DEF spilled
<1>5. /\ DOMAIN f' = {"code", "locals", "variables"} /\ f'.code = spilled
      /\ f'.locals = f.locals + 1 /\ f'.variables = {}
  BY <1>1
<1>6. SlotsInv'
  <2>1. ASSUME NEW new \in ToSet(spilled), new.line = 0
        PROVE  new.off \in source.locals * 8 .. (f.locals + 1 - 1) * 8 /\ new.off % 8 = 0
    <3>1. CASE new.off = f.locals * 8
      BY <1>2, <1>3, <3>1
    <3>2. CASE new.off # f.locals * 8
      <4>1. PICK old \in ToSet(f.code) : new.line = old.line /\ new.off = old.off
        BY <1>4, <3>2
      <4>2. old.off \in source.locals * 8 .. (f.locals - 1) * 8 /\ old.off % 8 = 0
        BY <1>2, <2>1, <4>1 DEF SlotsInv
      <4> QED
        BY <1>2, <1>3, <4>1, <4>2
    <3> QED
      BY <3>1, <3>2
  <2>2. SlotsInv' <=> \A ins \in ToSet(f'.code) : ins.line = 0 =>
          ins.off \in source'.locals * 8 .. (f'.locals - 1) * 8 /\ ins.off % 8 = 0
    BY DEF SlotsInv
  <2>3. f'.code = spilled /\ f'.locals = f.locals + 1 /\ source' = source
    BY <1>1, <1>5
  <2> HIDE DEF v
  <2>4. \A ins \in ToSet(spilled) : ins.line = 0 =>
          ins.off \in source.locals * 8 .. (f.locals + 1 - 1) * 8 /\ ins.off % 8 = 0
    BY <2>1
  <2>5. ASSUME NEW ins \in ToSet(f'.code), ins.line = 0
        PROVE  ins.off \in source'.locals * 8 .. (f'.locals - 1) * 8 /\ ins.off % 8 = 0
    <3>1. ins \in ToSet(spilled)
      BY <2>3
    <3>2. ins.off \in source.locals * 8 .. (f.locals + 1 - 1) * 8 /\ ins.off % 8 = 0
      BY <2>4, <2>5, <3>1
    <3>3. f'.locals = f.locals + 1 /\ source' = source
      BY <2>3
    <3> DEFINE locals == f'.locals
               before == source'
    <3>4. locals = f.locals + 1 /\ before = source
      BY <3>3
    <3> HIDE DEF locals, before
    <3>5. ins.off \in before.locals * 8 .. (locals - 1) * 8
      BY <1>2, <1>3, <3>2, <3>4
    <3> QED
      BY <3>2, <3>5 DEF locals, before
  <2> QED
    BY <2>2, <2>5
<1>7. /\ Tail(todo) \in Seq(Mentioned(spilled))
      /\ \A j, k \in DOMAIN Tail(todo) : Tail(todo)[j] = Tail(todo)[k] => j = k
  <2>1. /\ Len(todo) \in Nat /\ Len(todo) >= 1 /\ DOMAIN todo = 1..Len(todo)
        /\ v = todo[1] /\ DOMAIN Tail(todo) = 1..Len(todo)-1
        /\ Tail(todo) \in Seq(Mentioned(f.code))
        /\ \A k \in 1..Len(todo)-1 : k+1 \in 1..Len(todo) /\ Tail(todo)[k] = todo[k+1]
    BY <1>1, <1>2
  <2>2. \A k \in 1..Len(todo)-1 : Tail(todo)[k] \in Mentioned(spilled)
    <3> TAKE k \in 1..Len(todo)-1
    <3>1. Tail(todo)[k] = todo[k+1] /\ k+1 # 1 /\ 1 \in DOMAIN todo /\ k+1 \in DOMAIN todo
          /\ todo[k+1] \in Mentioned(f.code)
      BY <1>2, <2>1
    <3>2. todo[k+1] # v
      BY <1>2, <2>1, <3>1
    <3> QED
      BY <1>4, <3>1, <3>2
  <2>3. \A k \in DOMAIN Tail(todo) : Tail(todo)[k] \in Mentioned(spilled)
    BY <2>1, <2>2
  <2>4. Tail(todo) \in Seq(Mentioned(spilled))
    BY <2>1, <2>3, ElementsIn
  <2>5. \A j, k \in 1..Len(todo)-1 : Tail(todo)[j] = Tail(todo)[k] => j = k
    BY <1>2, <2>1
  <2> QED
    BY <2>1, <2>4, <2>5
<1>8. f'.locals \in Nat /\ f'.locals >= source'.locals
  BY <1>1, <1>2, <1>3, <1>5
<1>9. pc' = "spill" /\ source' \in Sources
  BY <1>1, <1>2
<1> QED
  BY <1>1, <1>4, <1>5, <1>6, <1>7, <1>8, <1>9 DEF IInv

LEMMA NextRoundIInv == IInv /\ NextRound => IInv'
<1> SUFFICES ASSUME IInv, NextRound PROVE IInv'
  OBVIOUS
<1>1. pc = "spill" /\ todo = <<>> /\ pc' = "function" /\ UNCHANGED <<source, f, todo>>
  BY DEF NextRound
<1> QED
  BY <1>1 DEF IInv, SlotsInv

-----------------------------------------------------------------------------
(***************************************************************************)
(* The translation and the run                                             *)
(***************************************************************************)
\* The translation changes names, nothing else.
LEMMA TranslateIs ==
  ASSUME NEW code, IsCode(code), NEW colors
  PROVE  /\ IsCode(Translate(code, colors)) /\ Len(Translate(code, colors)) = Len(code)
         /\ \A new \in ToSet(Translate(code, colors)) :
              \E old \in ToSet(code) : new.line = old.line /\ new.off = old.off
<1> DEFINE N == Len(code)
           new == Translate(code, colors)
<1>1. /\ N \in Nat /\ N \in 1..N /\ DOMAIN code = 1..N
      /\ \A j \in 1..N : code[j] \in ToSet(code) /\ IsInstruction(code[j])
      /\ Last(code) = code[N]
  BY CodeIs
<1>2. ASSUME NEW ins, IsInstruction(ins)
      PROVE  LET made == TranslateInstruction(ins, colors)
             IN  /\ IsInstruction(made) /\ made.line = ins.line /\ made.off = ins.off
                 /\ made.op = ins.op /\ DOMAIN made.arg = DOMAIN ins.arg
                 /\ ins.arg = <<>> => made.arg = <<>>
  <2> DEFINE arg == [k \in DOMAIN ins.arg |->
                       IF k \notin Converted[ins.op] THEN ins.arg[k]
                       ELSE IF ins.op = "lea" /\ k = 2 THEN Convert(ins.arg[1], colors)
                       ELSE Convert(ins.arg[k], colors)]
  <2>1. DOMAIN arg = DOMAIN ins.arg
    OBVIOUS
  <2>2. ins.arg = <<>> => arg = <<>>
    OBVIOUS
  <2>3. TranslateInstruction(ins, colors) = [ins EXCEPT !.arg = arg]
    BY DEF TranslateInstruction
  <2> HIDE DEF arg
  <2> QED
    BY <1>2, <2>1, <2>2, <2>3 DEF IsInstruction
<1>3. new = [j \in 1..N |-> TranslateInstruction(code[j], colors)]
  BY DEF Translate
<1> HIDE DEF new, N
<1>4. DOMAIN new = 1..N /\ Len(new) = N /\ new # <<>>
      /\ \A j \in 1..N : new[j] = TranslateInstruction(code[j], colors)
  BY <1>1, <1>3
<1>5. new \in Seq(ToSet(new))
  <2>1. \A j \in 1..N : new[j] \in ToSet(new)
    BY <1>4 DEF ToSet
  <2> QED
    BY <1>1, <1>3, <1>4, <2>1
<1>6. ASSUME NEW ins \in ToSet(new)
      PROVE  \E j \in 1..N : ins = TranslateInstruction(code[j], colors)
  BY <1>4 DEF ToSet
<1>7. Last(new) = TranslateInstruction(code[N], colors)
  BY <1>1, <1>4 DEF Last
<1>8. /\ Last(new).op \in {"return", "goto"}
      /\ Last(new).arg = <<>> /\ Last(new).line # 0
  <2>1. code[N].op \in {"return", "goto"} /\ code[N].arg = <<>> /\ code[N].line # 0
    BY <1>1 DEF IsCode
  <2> QED
    BY <1>1, <1>2, <1>7, <2>1
<1>9. \A ins \in ToSet(new) : IsInstruction(ins)
  BY <1>1, <1>2, <1>6
<1>10. \A ins \in ToSet(new) : \E old \in ToSet(code) : ins.line = old.line /\ ins.off = old.off
  BY <1>1, <1>2, <1>6
<1>11. IsCode(new)
  BY <1>4, <1>5, <1>8, <1>9 DEF IsCode
<1> QED
  BY <1>4, <1>10, <1>11 DEF new, N

LEMMA TranslateIInv == IInv /\ TranslateToL1 => IInv'
<1> SUFFICES ASSUME IInv, TranslateToL1 PROVE IInv'
  OBVIOUS
<1> DEFINE code == Translate(f.code, coloring)
<1>1. /\ pc = "coloring" /\ pc' = "run" /\ at' = 1 /\ UNCHANGED <<source, todo>>
      /\ f' = [f EXCEPT !.code = code]
  BY DEF TranslateToL1
<1>2. /\ IsCode(f.code) /\ DOMAIN f = {"code", "locals", "variables"} /\ SlotsInv
      /\ todo = <<>>
  BY <1>1 DEF IInv
<1>3. /\ IsCode(code)
      /\ \A new \in ToSet(code) :
           \E old \in ToSet(f.code) : new.line = old.line /\ new.off = old.off
  BY <1>2, TranslateIs
<1> HIDE DEF code
<1>4. /\ DOMAIN f' = {"code", "locals", "variables"} /\ f'.code = code
      /\ f'.locals = f.locals
  BY <1>1, <1>2
<1>5. SlotsInv'
  <2>1. SlotsInv' <=> \A ins \in ToSet(f'.code) : ins.line = 0 =>
          ins.off \in source'.locals * 8 .. (f'.locals - 1) * 8 /\ ins.off % 8 = 0
    BY DEF SlotsInv
  <2>2. \A ins \in ToSet(code) : ins.line = 0 =>
          ins.off \in source.locals * 8 .. (f.locals - 1) * 8 /\ ins.off % 8 = 0
    BY <1>2, <1>3 DEF SlotsInv
  <2>3. source' = source
    BY <1>1
  <2> QED
    BY <1>4, <2>1, <2>2, <2>3, Zenon
<1>6. 1 \in 1..Len(code)
  BY <1>3, CodeIs
<1>7. todo' = <<>> /\ source' = source
  BY <1>1, <1>2
<1> QED
  BY <1>1, <1>3, <1>4, <1>5, <1>6, <1>7 DEF IInv

\* Where control goes is inside the function, since its end is no instruction that is
\* followed by another.
LEMMA RunIInv == IInv /\ Run => IInv'
<1> SUFFICES ASSUME IInv, Run PROVE IInv'
  OBVIOUS
<1>1. /\ pc = "run" /\ UNCHANGED <<source, f, todo>>
      /\ \/ pc' = "run" /\ Instruction.line = 0 /\ at' = at + 1
         \/ pc' = "run" /\ Instruction.op # "return" /\ at' \in Targets
         \/ pc' = "returned" /\ at' = at
  BY DEF Run, RunSpillCode, RunInstruction, RunReturn, runVars
<1>2. IsCode(f.code) /\ at \in 1..Len(f.code)
  BY <1>1 DEF IInv
<1>3. /\ Len(f.code) \in Nat /\ Last(f.code) = f.code[Len(f.code)]
      /\ Last(f.code).op \in {"return", "goto"} /\ Last(f.code).line # 0
  BY <1>2, CodeIs DEF IsCode
<1>4. ASSUME Instruction.op # "return" PROVE Targets \subseteq 1..Len(f.code)
  <2>1. Instruction.op \notin {"return", "goto"} => at + 1 \in 1..Len(f.code)
    BY <1>2, <1>3 DEF Instruction
  <2>2. \A k \in at..Len(f.code) : k \in 1..Len(f.code)
    BY <1>2, <1>3
  <2> QED
    BY <1>4, <2>1, <2>2, Zenon DEF Targets
<1>5. at' \in 1..Len(f.code)
  <2>1. Instruction.line = 0 => at + 1 \in 1..Len(f.code)
    BY <1>2, <1>3 DEF Instruction
  <2> QED
    BY <1>1, <1>2, <1>4, <2>1
<1> QED
  BY <1>1, <1>5 DEF IInv, SlotsInv

-----------------------------------------------------------------------------
(***************************************************************************)
(* The theorems                                                            *)
(***************************************************************************)
LEMMA InitIInv == Init => IInv
<1> SUFFICES ASSUME Init PROVE IInv
  OBVIOUS
<1>1. source \in Sources /\ f = source /\ pc = "function" /\ todo = <<>>
  BY DEF Init
<1>2. /\ DOMAIN f = {"code", "locals", "variables"} /\ IsCode(f.code) /\ f.locals \in Nat
      /\ \A ins \in ToSet(f.code) : ins.line # 0
      /\ f.variables \subseteq Mentioned(f.code)
  BY <1>1, SourcesAssumption
<1> QED
  BY <1>1, <1>2 DEF IInv, SlotsInv

LEMMA NextIInv == IInv /\ [Next]_vars => IInv'
<1> SUFFICES ASSUME IInv, [Next]_vars PROVE IInv'
  OBVIOUS
<1>1. CASE UNCHANGED vars
  <2>1. UNCHANGED <<source, f, pc, todo, at, GEN, KILL, successors, In, Out, i, graph,
                    stack, step>>
    BY <1>1 DEF vars, liveVars, graphVars, runVars
  <2> QED
    BY <2>1 DEF IInv, SlotsInv, SolverInv, StackInv
<1> QED
  BY <1>1, StartLivenessIInv, LivenessStepIInv, StartColoringIInv, ColoringStepIInv,
     StartSpillingIInv, SpillNextIInv, NextRoundIInv, TranslateIInv, RunIInv
     DEF Next, Allocate

\* What is needed of a function in every round of the allocation loop and while its
\* translation runs, for every function of the parser.
THEOREM Invariance == Spec => []IInv
<1>1. Init => IInv
  BY InitIInv
<1>2. IInv /\ [Next]_vars => IInv'
  BY NextIInv
<1> QED
  BY <1>1, <1>2, PTL DEF Spec

\* The type invariant: rounds only add locals, only names the function mentions are
\* spilled, and a run stays inside the function.
THEOREM TypeCorrect == Spec => []TypeOK
<1>1. IInv => TypeOK
  <2> SUFFICES ASSUME IInv PROVE TypeOK
    OBVIOUS
  <2>1. todo \in Seq(Mentioned(source.code) \cup Mentioned(f.code))
    BY ElementsIn DEF IInv
  <2> QED
    BY <2>1 DEF IInv, TypeOK
<1> QED
  BY <1>1, Invariance, PTL

\* Whatever is spilled, in any number of rounds, spill code uses whole slots above the
\* locals of the source function and below its caller's frame.
THEOREM SlotsAreOwn == Spec => []SpillSlotsAreOwn
<1>1. IInv /\ TypeOK => SpillSlotsAreOwn
  <2> SUFFICES ASSUME IInv, TypeOK PROVE SpillSlotsAreOwn
    OBVIOUS
  <2>1. \A j \in 1..Len(f.code) : f.code[j] \in ToSet(f.code)
    BY CodeIs DEF IInv
  <2> QED
    BY <2>1 DEF IInv, SlotsInv, SpillSlotsAreOwn
<1> QED
  BY <1>1, Invariance, TypeCorrect, PTL

-----------------------------------------------------------------------------
(***************************************************************************)
(* No variable is left without a register                                  *)
(***************************************************************************)
\* The names that need a register: what instructions read and write.
Needed(code) ==
  (UNION {Gen(ins) \union Kill(ins) : ins \in ToSet(code)}) \ Special

\* The instructions the sweep has passed have what they read in their IN sets.
PassedInv ==
  /\ phase \in {"sweep", "done"}
  /\ phase = "done" => i = 0
  /\ \A j \in 1..Len(f.code) : j > i => GEN[j] \subseteq In[j]

\* Where a name that needs a register is: in the graph, then on the stack, then coloured.
ColorsInv ==
  /\ step \in {"simplify", "registers", "select", "done"}
  /\ step = "simplify" => reg = 1
  /\ step = "registers" => reg \in 1..15
  /\ \A n \in DOMAIN coloring : coloring[n] \in 1..15
  /\ ShiftAmounts(f.code) \subseteq DOMAIN coloring
  /\ \A n \in Needed(f.code) :
       \/ n \in Graph!OnStack
       \/ step = "simplify" /\ n \in DOMAIN graph
       \/ step \in {"select", "done"} /\ n \in DOMAIN coloring

RInv ==
  /\ pc = "liveness" => PassedInv
  /\ pc = "coloring" => ColorsInv
  /\ OnlyRegistersLeft

LEMMA RegistersAre ==
  /\ DOMAIN x86_registers = 1..15 /\ Len(x86_registers) = 15 /\ Special = RegisterNames
  /\ \A c \in 1..15 : x86_registers[c] \in RegisterNames
  /\ Graph!Colors = 1..15 /\ Graph!ShiftColor \in 1..15
<1>1. DOMAIN x86_registers = 1..15 /\ Len(x86_registers) = 15 /\ x86_registers[2] = "rcx"
  BY DEF x86_registers
<1>2. Graph!Colors = 1..15
  BY <1>1 DEF Graph!Colors
<1>3. \E c \in 1..15 : x86_registers[c] = "rcx"
  BY <1>1
<1>4. Graph!ShiftColor \in 1..15
  BY <1>2, <1>3 DEF Graph!ShiftColor
<1>5. Special = RegisterNames
  BY DEF Special, RegisterNames, Graph!NonSpill, Graph!RegisterSet
<1> QED
  BY <1>1, <1>2, <1>4, <1>5 DEF RegisterNames

LEMMA NeededIs ==
  ASSUME NEW code, NEW name
  PROVE  name \in Needed(code)
           <=> /\ name \notin Special
               /\ \E ins \in ToSet(code) : name \in Gen(ins) \/ name \in Kill(ins)
<1> DEFINE mentionedNames == UNION {Gen(ins) \union Kill(ins) : ins \in ToSet(code)}
<1>1. name \in mentionedNames <=> \E ins \in ToSet(code) : name \in Gen(ins) \union Kill(ins)
  OBVIOUS
<1>2. Needed(code) = mentionedNames \ Special
  BY DEF Needed
<1> HIDE DEF mentionedNames
<1> QED
  BY <1>1, <1>2

\* What translate_to_L1 converts is read or written, a shift amount, or needs no register.
LEMMA ConvertedIs ==
  ASSUME NEW code, IsCode(code), NEW ins \in ToSet(code), NEW k \in Converted[ins.op]
  PROVE  ins.arg[k] \in Literals \union Special \union Needed(code) \union ShiftAmounts(code)
<1>1. IsInstruction(ins)
  BY DEF IsCode
<1>2. PICK j \in 1..Len(code) : ins = code[j]
  BY CodeIs DEF ToSet
<1>3. k \in Writes[ins.op] \union Reads[ins.op] \/ (ins.op = "shift" /\ k = 2)
  <2>1. ins.op \in DOMAIN Writes
    BY <1>1 DEF IsInstruction
  <2> QED
    BY <2>1 DEF Writes, Reads, Converted
<1>4. CASE k \in Writes[ins.op]
  <2>1. ins.arg[k] \in Kill(ins)
    BY <1>4 DEF Kill
  <2> QED
    BY <2>1, NeededIs
<1>5. CASE k \in Reads[ins.op]
  <2>1. ins.arg[k] \in Literals \/ ins.arg[k] = "rsp" \/ ins.arg[k] \in Gen(ins)
    BY <1>5 DEF Gen
  <2>2. "rsp" \in Special
    BY SpecialIs
  <2> QED
    BY <2>1, <2>2, NeededIs
<1>6. CASE ins.op = "shift" /\ k = 2
  BY <1>2, <1>6 DEF ShiftAmounts
<1> QED
  BY <1>3, <1>4, <1>5, <1>6

LEMMA PassedInvStep == IInv /\ RInv /\ LivenessStep => PassedInv'
<1> SUFFICES ASSUME IInv, RInv, LivenessStep PROVE PassedInv'
  OBVIOUS
<1>1. pc = "liveness" /\ Live!Solve /\ f' = f
  BY DEF LivenessStep
<1>2. IsCode(f.code) /\ SolverInv /\ PassedInv
  BY <1>1 DEF IInv, RInv
<1>3. /\ Len(f.code) \in Nat /\ DOMAIN In = 1..Len(f.code) /\ i \in 0..Len(f.code)
      /\ Len(GEN) = Len(f.code)
  BY <1>2, CodeIs DEF SolverInv
<1>4. CASE Live!Visit
  <2>1. /\ phase = "sweep" /\ i > 0 /\ i' = i - 1 /\ UNCHANGED <<GEN, phase>>
        /\ \E in : In' = [In EXCEPT ![i] = GEN[i] \union in]
    BY <1>4 DEF Live!Visit
  <2> QED
    BY <1>1, <1>2, <1>3, <2>1 DEF PassedInv
<1>5. CASE Live!NextSweep
  <2>1. phase' = "sweep" /\ i' = Len(f.code)
    BY <1>3, <1>5 DEF Live!NextSweep
  <2> QED
    BY <1>1, <1>3, <2>1 DEF PassedInv
<1>6. CASE Live!Finish
  <2>1. phase' = "done" /\ i = 0 /\ UNCHANGED <<GEN, In, i>>
    BY <1>6 DEF Live!Finish
  <2> QED
    BY <1>1, <1>2, <2>1 DEF PassedInv
<1> QED
  BY <1>1, <1>4, <1>5, <1>6 DEF Live!Solve

\* Everything that needs a register gets into the graph.
LEMMA StartColoringColors == IInv /\ RInv /\ StartColoring => ColorsInv'
<1> SUFFICES ASSUME IInv, RInv, StartColoring PROVE ColorsInv'
  OBVIOUS
<1> DEFINE n == Len(f.code)
<1>1. /\ pc = "liveness" /\ phase = "done" /\ f' = f
      /\ Graph!GenerateGraph(Lines, f.variables, ShiftAmounts(f.code))
  BY DEF StartColoring
<1>2. IsCode(f.code) /\ SolverInv /\ PassedInv
  BY <1>1 DEF IInv, RInv
<1>3. /\ coloring' = [s \in ShiftAmounts(f.code) |-> Graph!ShiftColor]
      /\ DOMAIN graph' = (UNION Lines) \union f.variables
      /\ reg' = 1 /\ step' = "simplify"
  BY <1>1 DEF Graph!GenerateGraph
<1>4. ASSUME NEW ins \in ToSet(f.code) PROVE Gen(ins) \union Kill(ins) \subseteq UNION Lines
  <2>1. PICK j \in 1..n : ins = f.code[j]
    BY <1>2, CodeIs DEF ToSet
  <2>2. GEN[j] = Gen(ins) /\ KILL[j] = Kill(ins)
    BY <1>2, <2>1 DEF SolverInv
  <2>3. Gen(ins) \subseteq In[j]
    BY <1>1, <1>2, <2>2 DEF PassedInv
  <2>4. In[j] \in Lines /\ (Out[j] \union KILL[j]) \in Lines
    BY DEF Lines
  <2> QED
    BY <2>2, <2>3, <2>4
<1>5. Needed(f.code) \subseteq DOMAIN graph'
  BY <1>3, <1>4 DEF Needed
<1>6. \A s \in DOMAIN coloring' : coloring'[s] \in 1..15
  BY <1>3, RegistersAre
<1> QED
  BY <1>1, <1>3, <1>5, <1>6 DEF ColorsInv

\* A name that needs a register goes from the graph to the stack and from there to a
\* colour.
LEMMA ColoringStepColors == IInv /\ RInv /\ ColoringStep => ColorsInv'
<1> SUFFICES ASSUME IInv, RInv, ColoringStep PROVE ColorsInv'
  OBVIOUS
<1>1. pc = "coloring" /\ Graph!Analyse /\ f' = f
  BY DEF ColoringStep
<1>2. StackInv /\ ColorsInv
  BY <1>1 DEF IInv, RInv
<1>3. Len(stack) \in Nat /\ DOMAIN stack = 1..Len(stack) /\ stack \in Seq(Mentioned(f.code))
  BY <1>2 DEF StackInv
<1>4. \A n : n \in Graph!OnStack <=> \E k \in 1..Len(stack) : stack[k] = n
  BY <1>3 DEF Graph!OnStack
<1>5. Graph!OnStack' = {stack'[k] : k \in DOMAIN stack'}
  BY DEF Graph!OnStack
<1>6. \A n \in Needed(f.code) : n \notin Special
  BY NeededIs
<1>7. CASE Graph!Simplify
  <2>1. step = "simplify" /\ UNCHANGED <<coloring, reg, step>>
    BY <1>7 DEF Graph!Simplify
  <2>2. PICK m \in DOMAIN graph : graph' = Graph!RemoveNode(m) /\ stack' = Append(stack, m)
    BY <1>7 DEF Graph!Simplify, Graph!Candidates
  <2>3. DOMAIN graph' = DOMAIN graph \ {m}
    BY <2>2 DEF Graph!RemoveNode
  <2>4. /\ DOMAIN stack' = 1..Len(stack)+1 /\ stack'[Len(stack)+1] = m
        /\ \A k \in 1..Len(stack) : stack'[k] = stack[k] /\ k \in 1..Len(stack)+1
        /\ Len(stack)+1 \in 1..Len(stack)+1
    BY <1>3, <2>2
  <2>5. m \in Graph!OnStack' /\ \A n : n \in Graph!OnStack => n \in Graph!OnStack'
    BY <1>4, <1>5, <2>4
  <2>6. ASSUME NEW n \in Needed(f.code) PROVE n \in Graph!OnStack' \/ n \in DOMAIN graph'
    BY <1>2, <2>1, <2>3, <2>5 DEF ColorsInv
  <2> QED
    BY <1>1, <1>2, <2>1, <2>6 DEF ColorsInv
<1>8. CASE Graph!EndSimplify
  <2>1. step = "simplify" /\ step' = "registers" /\ UNCHANGED <<coloring, reg, stack>>
        /\ DOMAIN graph \ Special = {}
    BY <1>8 DEF Graph!EndSimplify, Graph!Candidates, Special
  <2>2. \A n \in Needed(f.code) : n \in Graph!OnStack
    BY <1>2, <1>6, <2>1 DEF ColorsInv
  <2>3. Graph!OnStack' = Graph!OnStack
    BY <2>1 DEF Graph!OnStack
  <2> QED
    BY <1>1, <1>2, <2>1, <2>2, <2>3 DEF ColorsInv
<1>9. CASE Graph!ColorRegister
  <2>1. /\ step = "registers" /\ stack' = stack /\ reg' = reg + 1
        /\ step' = IF reg = 15 THEN "select" ELSE "registers"
        /\ coloring' = Graph!Assign(coloring, x86_registers[reg], reg)
    BY <1>9, RegistersAre DEF Graph!ColorRegister
  <2>2. reg \in 1..15 /\ \A n \in Needed(f.code) : n \in Graph!OnStack
    BY <1>2, <2>1 DEF ColorsInv
  <2>3. /\ DOMAIN coloring \subseteq DOMAIN coloring'
        /\ \A n \in DOMAIN coloring' : coloring'[n] \in 1..15
    BY <1>2, <2>1, <2>2 DEF ColorsInv, Graph!Assign
  <2>4. Graph!OnStack' = Graph!OnStack
    BY <2>1 DEF Graph!OnStack
  <2>5. step' \in {"registers", "select"} /\ (step' = "registers" => reg' \in 1..15)
    BY <2>1, <2>2
  <2> QED
    BY <1>1, <1>2, <2>2, <2>3, <2>4, <2>5 DEF ColorsInv
<1>10. CASE Graph!ColorNode
  <2>1. /\ step = "select" /\ step' = step /\ stack # <<>>
        /\ stack' = SubSeq(stack, 1, Len(stack) - 1)
    BY <1>10 DEF Graph!ColorNode
  <2>2. PICK c \in Graph!ValidColors :
          coloring' = IF Graph!Top \in DOMAIN coloring
                      THEN Graph!Touch(Graph!UncoloredNeighbors)
                      ELSE Graph!Assign(Graph!Touch(Graph!UncoloredNeighbors), Graph!Top, c)
    BY <1>10 DEF Graph!ColorNode
  <2>3. c \in 1..15
    BY <2>2, RegistersAre DEF Graph!ValidColors
  <2>4. ASSUME NEW extra
        PROVE  /\ DOMAIN coloring \subseteq DOMAIN Graph!Touch(extra)
               /\ \A n \in DOMAIN Graph!Touch(extra) : Graph!Touch(extra)[n] \in 1..15
    BY <1>2 DEF ColorsInv, Graph!Touch
  <2>5. /\ DOMAIN coloring \subseteq DOMAIN coloring' /\ Graph!Top \in DOMAIN coloring'
        /\ \A n \in DOMAIN coloring' : coloring'[n] \in 1..15
    BY <2>2, <2>3, <2>4 DEF Graph!Assign
  <2>6. /\ stack' \in Seq(Mentioned(f.code)) /\ DOMAIN stack' = 1..Len(stack)-1
        /\ \A k \in 1..Len(stack)-1 : k \in 1..Len(stack) /\ stack'[k] = stack[k]
    BY <1>3, <2>1
  <2>7. \A n \in Graph!OnStack : n = Graph!Top \/ n \in Graph!OnStack'
    <3>1. Len(stack) \in Nat
      BY <1>3
    <3>2. \A k \in 1..Len(stack) : k = Len(stack) \/ k \in 1..Len(stack)-1
      BY <3>1
    <3> QED
      BY <1>4, <1>5, <2>6, <3>2 DEF Graph!Top
  <2>8. \A n \in Needed(f.code) : n \in Graph!OnStack' \/ n \in DOMAIN coloring'
    BY <1>2, <2>1, <2>5, <2>7 DEF ColorsInv
  <2> QED
    BY <1>1, <1>2, <2>1, <2>5, <2>8 DEF ColorsInv
<1>11. CASE Graph!GiveUp \/ Graph!AllColored
  <2>1. step = "select" /\ step' = "done" /\ stack' = stack
    BY <1>11 DEF Graph!GiveUp, Graph!AllColored
  <2>2. coloring' = coloring \/ \E extra : coloring' = Graph!Touch(extra)
    BY <1>11 DEF Graph!GiveUp, Graph!AllColored
  <2>3. /\ DOMAIN coloring \subseteq DOMAIN coloring'
        /\ \A n \in DOMAIN coloring' : coloring'[n] \in 1..15
    <3>1. CASE coloring' = coloring
      BY <1>2, <3>1 DEF ColorsInv
    <3>2. CASE \E extra : coloring' = Graph!Touch(extra)
      <4>1. PICK extra : coloring' = Graph!Touch(extra)
        BY <3>2
      <4> QED
        BY <1>2, <4>1 DEF ColorsInv, Graph!Touch
    <3> QED
      BY <2>2, <3>1, <3>2
  <2>4. Graph!OnStack' = Graph!OnStack
    BY <2>1 DEF Graph!OnStack
  <2> QED
    BY <1>1, <1>2, <2>1, <2>3, <2>4 DEF ColorsInv
<1> QED
  BY <1>1, <1>7, <1>8, <1>9, <1>10, <1>11 DEF Graph!Analyse

LEMMA TranslateColors == IInv /\ RInv /\ TranslateToL1 => OnlyRegistersLeft'
<1> SUFFICES ASSUME IInv, RInv, TranslateToL1 PROVE OnlyRegistersLeft'
  OBVIOUS
<1> DEFINE code == f.code
<1>1. /\ pc = "coloring" /\ step = "done" /\ stack = <<>>
      /\ f' = [f EXCEPT !.code = Translate(code, coloring)]
  BY DEF TranslateToL1
<1>2. ColorsInv /\ IsCode(code) /\ DOMAIN f = {"code", "locals", "variables"}
  BY <1>1 DEF IInv, RInv
<1>3. \A n \in Needed(code) \union ShiftAmounts(code) : n \in DOMAIN coloring
  BY <1>1, <1>2 DEF ColorsInv, Graph!OnStack
<1>4. \A n \in Literals \union Special \union Needed(code) \union ShiftAmounts(code) :
        Convert(n, coloring) \in RegisterNames \union Literals
  BY <1>2, <1>3, RegistersAre DEF ColorsInv, Convert
<1> DEFINE new == Translate(code, coloring)
<1>5. ASSUME NEW made \in ToSet(new), NEW k \in Converted[made.op]
      PROVE  made.arg[k] \in RegisterNames \union Literals
  <2>1. /\ DOMAIN code = 1..Len(code)
        /\ \A j \in 1..Len(code) : code[j] \in ToSet(code) /\ IsInstruction(code[j])
    BY <1>2, CodeIs
  <2>2. PICK j \in 1..Len(code) : made = TranslateInstruction(code[j], coloring)
    BY DEF Translate, ToSet
  <2> DEFINE ins == code[j]
  <2>3. ins \in ToSet(code) /\ IsInstruction(ins)
    BY <2>1
  <2> HIDE DEF code, ins, new
  <2>4. made.op = ins.op
    BY <2>2, <2>3 DEF TranslateInstruction, IsInstruction, ins
  <2>5. k \in DOMAIN ins.arg /\ (ins.op = "lea" => 1 \in Converted[ins.op])
    BY <2>3, <2>4 DEF IsInstruction, Converted
  <2>6. made.arg[k] = IF ins.op = "lea" /\ k = 2 THEN Convert(ins.arg[1], coloring)
                      ELSE Convert(ins.arg[k], coloring)
    <3> DEFINE arg == [m \in DOMAIN ins.arg |->
                         IF m \notin Converted[ins.op] THEN ins.arg[m]
                         ELSE IF ins.op = "lea" /\ m = 2 THEN Convert(ins.arg[1], coloring)
                         ELSE Convert(ins.arg[m], coloring)]
    <3>1. made = [ins EXCEPT !.arg = arg]
      BY <2>2 DEF TranslateInstruction, ins
    <3>2. arg[k] = IF ins.op = "lea" /\ k = 2 THEN Convert(ins.arg[1], coloring)
                   ELSE Convert(ins.arg[k], coloring)
      BY <2>4, <2>5
    <3> HIDE DEF arg
    <3>3. made.arg = arg
      BY <2>3, <3>1 DEF IsInstruction
    <3> QED
      BY <3>2, <3>3
  <2>7. \A m \in Converted[ins.op] : Convert(ins.arg[m], coloring) \in RegisterNames \union Literals
    BY <1>2, <1>4, <2>3, ConvertedIs
  <2> QED
    BY <2>4, <2>5, <2>6, <2>7
<1>6. f'.code = new
  BY <1>1, <1>2
<1> HIDE DEF new
<1> QED
  BY <1>5, <1>6 DEF OnlyRegistersLeft

LEMMA InitRInv == Init => RInv
BY DEF Init, RInv, OnlyRegistersLeft

LEMMA NextRInv == IInv /\ RInv /\ [Next]_vars => RInv'
<1> SUFFICES ASSUME IInv, RInv, [Next]_vars PROVE RInv'
  OBVIOUS
<1>1. CASE StartLiveness
  <2>1. pc' = "liveness" /\ UNCHANGED f /\ phase' = "sweep" /\ i' = Len(GEN')
        /\ Len(GEN') = Len(f.code)
    <3>1. IsCode(f.code)
      BY DEF IInv
    <3>2. Len(f.code) \in Nat
      BY <3>1, CodeIs
    <3> QED
      BY <1>1, <3>2 DEF StartLiveness, Live!Begin
  <2>2. PassedInv'
    <3>1. Len(f.code) \in Nat
      BY CodeIs DEF IInv
    <3> QED
      BY <2>1, <3>1 DEF PassedInv
  <2> QED
    BY <2>1, <2>2 DEF RInv, OnlyRegistersLeft
<1>2. CASE LivenessStep
  BY <1>2, PassedInvStep DEF RInv, OnlyRegistersLeft, LivenessStep
<1>3. CASE StartColoring
  BY <1>3, StartColoringColors DEF RInv, OnlyRegistersLeft, StartColoring
<1>4. CASE ColoringStep
  BY <1>4, ColoringStepColors DEF RInv, OnlyRegistersLeft, ColoringStep
<1>5. CASE StartSpilling \/ SpillNext \/ NextRound
  <2>1. pc' \in {"spill", "function"}
    BY <1>5 DEF StartSpilling, SpillNext, NextRound
  <2> QED
    BY <2>1 DEF RInv, OnlyRegistersLeft
<1>6. CASE TranslateToL1
  BY <1>6, TranslateColors DEF RInv, TranslateToL1
<1>7. CASE Run
  <2>1. pc = "run" /\ pc' \in {"run", "returned"} /\ f' = f
    BY <1>7 DEF Run, RunSpillCode, RunInstruction, RunReturn
  <2> QED
    BY <2>1 DEF RInv, OnlyRegistersLeft
<1>8. CASE UNCHANGED vars
  <2>1. UNCHANGED <<f, pc, GEN, In, i, phase, graph, coloring, stack, reg, step>>
    BY <1>8 DEF vars, liveVars, graphVars
  <2> QED
    BY <2>1 DEF RInv, PassedInv, ColorsInv, OnlyRegistersLeft, Graph!OnStack
<1> QED
  BY <1>1, <1>2, <1>3, <1>4, <1>5, <1>6, <1>7, <1>8 DEF Next, Allocate

\* In every round, for every function: once the colouring has succeeded no variable is
\* left where translate_to_L1 looks for names.
THEOREM NothingUncolored == Spec => []OnlyRegistersLeft
<1>1. Init => RInv
  BY InitRInv
<1>2. IInv /\ RInv /\ [Next]_vars => RInv'
  BY NextRInv
<1>3. RInv => OnlyRegistersLeft
  BY DEF RInv
<1> QED
  BY <1>1, <1>2, <1>3, Invariance, PTL DEF Spec

=============================================================================
