---------------------------- MODULE L3Semantics ----------------------------
(***************************************************************************)
(* What a function does, for L3 and for L2 code alike: the stores, jumps,  *)
(* calls and returns it performs, in order, on symbolic values.  It is not *)
(* code of the compiler; it says what the compiler's output is for.        *)
(*                                                                         *)
(* A value is a tuple: <<x>> for what x holds at the start (or the literal *)
(* x), <<op, v, w>> for the result of an operation.                        *)
(***************************************************************************)
EXTENDS L3, SequencesExt

ArgumentRegisters == <<"rdi", "rsi", "rdx", "rcx", "r8", "r9">>
CallerSave == ToSet(ArgumentRegisters) \cup {"r10", "r11", "rax"}

Start == [env |-> <<>>, trace |-> <<>>, ret |-> <<>>]

Val(m, x) == IF x \in DOMAIN m.env THEN m.env[x] ELSE <<x>>

Set(m, x, v) ==
  [m EXCEPT !.env = [y \in DOMAIN m.env \cup {x} |->
                       IF y = x THEN v ELSE m.env[y]]]

Event(m, e) == [m EXCEPT !.trace = Append(@, e)]

\* Memory changes only with an event.
Memory(m, addr) == <<"mem", addr, <<Len(m.trace)>> >>

\* The callee sees the argument registers; the caller gets back rax and loses
\* the other caller-save registers.
CallEvent(m, callee, n) ==
  LET c   == [Event(m, <<"call", Val(m, callee), n,
                       [j \in 1..n |-> Val(m, ArgumentRegisters[j])]>>)
                EXCEPT !.ret = <<>>]
  IN  [c EXCEPT !.env =
         [y \in DOMAIN m.env \cup CallerSave |->
            IF y \in CallerSave THEN <<y, <<"call">>, <<Len(c.trace)>> >>
            ELSE m.env[y]]]

CalleeArgs(callee, n) ==
  IF callee \in DOMAIN RuntimeArgs THEN RuntimeArgs[callee] ELSE n

-----------------------------------------------------------------------------
\* An L3 instruction.
SourceStep(m, ins) ==
  LET binary(op, v, w) == Set(m, ins.root, <<op, Val(m, v), Val(m, w)>>)
      n == CalleeArgs(ins.callee, ins.n)
  IN  CASE ins.op = "assn"    -> Set(m, ins.root, Val(m, ins.lhs))
        [] ins.op \in Arithmetics \cup Comparisons ->
             binary(ins.op, ins.lhs, ins.rhs)
        [] ins.op = "gt"      -> binary("lt", ins.rhs, ins.lhs)
        [] ins.op = "gte"     -> binary("lte", ins.rhs, ins.lhs)
        [] ins.op = "load"    -> Set(m, ins.root, Memory(m, Val(m, ins.lhs)))
        [] ins.op = "store"   ->
             Event(m, <<"store", Val(m, ins.root), Val(m, ins.lhs)>>)
        [] ins.op = "branch"  -> Event(m, <<"goto">>)
        [] ins.op = "cbranch" -> Event(m, <<"cjump", Val(m, ins.root)>>)
        [] ins.op = "label"   -> Event(m, <<"label">>)
        [] ins.op = "ret"     -> Event(m, <<"return", Val(m, "rax")>>)
        [] ins.op = "retv"    -> 
             Event(Set(m, "rax", Val(m, ins.lhs)), <<"return", Val(m, ins.lhs)>>)
        [] ins.op = "call"    -> CallEvent(m, ins.callee, n)
        [] ins.op = "callassign" ->
             LET c == CallEvent(m, ins.callee, n)
             IN  Set(c, ins.root, Val(c, "rax"))

\* An L2 instruction.  A function called without a stored label does not come
\* back; it comes back to the label only if that follows.
TargetStep(m, ins) ==
  LET arg(j) == Val(m, ins.arg[j])
  IN  CASE ins.op = "assign" -> Set(m, ins.arg[1], arg(2))
        [] ins.op = "aop"    -> Set(m, ins.arg[1], <<ins.by, arg(1), arg(2)>>)
        [] ins.op = "cmp"    -> Set(m, ins.arg[1], <<ins.by, arg(2), arg(3)>>)
        [] ins.op = "load"   -> Set(m, ins.arg[1], Memory(m, arg(2)))
        [] ins.op = "store"  -> Event(m, <<"store", arg(1), arg(2)>>)
        [] ins.op = "goto"   -> Event(m, <<"goto">>)
        [] ins.op = "cjump"  -> Event(m, <<"cjump", arg(1)>>)
        [] ins.op = "label"  ->
             IF m.ret = ins.to THEN [m EXCEPT !.ret = <<>>]
             ELSE Event(m, <<"label">>)
        [] ins.op = "return" -> Event(m, <<"return", Val(m, "rax")>>)
        [] ins.op = "storeret" -> [m EXCEPT !.ret = ins.to]
        [] ins.op = "call"   ->
             [CallEvent(m, ins.arg[1], ins.n) EXCEPT !.ret = m.ret]
        [] ins.op = "runtime" -> CallEvent(m, ins.arg[1], ins.n)

SourceRun(f) == FoldLeft(SourceStep, Start, program[f].code)
TargetRun(f) == FoldLeft(TargetStep, Start, output[f])

-----------------------------------------------------------------------------
\* A compiled function does what its source does: the same stores, jumps,
\* calls with the same arguments and returns in the same order, and leaves the
\* same values in its variables.
SameEffect ==
  \A f \in DOMAIN output : f < k =>
    /\ TargetRun(f).trace = SourceRun(f).trace
    /\ \A x \in DOMAIN SourceRun(f).env \ {"rax"} :
         TargetRun(f).env[x] = SourceRun(f).env[x]

\* Where the L2 program defines a label, by function and source line.
Found(label) ==
  UNION {{<<g, output[g][b].line>> :
            b \in {c \in DOMAIN output[g] :
                    output[g][c].op = "label" /\ output[g][c].to = <<label>>}} :
         g \in DOMAIN output}

\* Where the source has the m-th label of an instruction; for the label a call
\* returns to, the call itself.
Meant(f, ins, m) ==
  IF ins.op = "storeret" THEN {<<f, ins.line>>}
  ELSE {<<f, b>> : b \in {c \in DOMAIN program[f].code :
          /\ program[f].code[c].op = "label"
          /\ program[f].code[c].to = <<program[f].code[ins.line].to[m]>>}}

\* L2 and L1 have one name space of labels for all functions.  Every jump and
\* every return finds its label where the source means it and nowhere else:
\* neither a label of another function nor the return of another call has the
\* same name.
JumpsArrive ==
  pc = "done" =>
    \A f \in DOMAIN output : \A a \in DOMAIN output[f] :
      output[f][a].op \in {"goto", "cjump", "storeret"} =>
        \A m \in DOMAIN output[f][a].to :
          Found(output[f][a].to[m]) = Meant(f, output[f][a], m)
=============================================================================
