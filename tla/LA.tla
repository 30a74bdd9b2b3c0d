--------------------------------- MODULE LA ---------------------------------
(***************************************************************************)
(* The LA compiler (src/LA/src/compiler.cpp): the IR code of an LA         *)
(* program.  A number n of the program is 2n + 1 in its variables, 0 an    *)
(* array that is not allocated; operations and indices are decoded before  *)
(* they are used, and every access to an array is checked.  LA             *)
(* instructions are the records of module IR.                              *)
(***************************************************************************)
EXTENDS IR

\* A name is taken as it is: the function has no blocks to look at.
LAFreeVar(seed) == seed

\* Only a number without a sign counts as a constant.
is_number(o) == o[1] = "num" /\ o[2] >= 0

safe_encode_constant(o) == IF is_number(o) THEN Num(encode(o[2])) ELSE o

Prime(o) == LAFreeVar("prime" \o IF o[1] = "num" THEN ToString(o[2]) ELSE o[2])

decode_vars(ops) ==
  FlattenSeq([k \in DOMAIN ops |->
    << Assign(Prime(ops[k]), safe_encode_constant(ops[k])),
       Operate(Prime(ops[k]), Var(Prime(ops[k])), ">>", Num(1)) >>])

encode_var(x) == << Operate(x, Var(x), "<<", Num(1)), Operate(x, Var(x), "+", Num(1)) >>

Decoded(ops) == [k \in DOMAIN ops |-> Var(Prime(ops[k]))]
Encoded(ops) == [k \in DOMAIN ops |-> safe_encode_constant(ops[k])]

Label(l) == Ins("label", "none", Nothing, Nothing, <<>>, <<l>>)
Goto(l)  == Ins("br", "none", Nothing, Nothing, <<>>, <<l>>)
If(c, l, m) == Ins("cbr", "none", c, Nothing, <<>>, <<l, m>>)
ArrayError(s, t) ==
  Ins("call", "none", Nothing, Nothing, <<s, t>>, << <<"runtime", "array-error">> >>)
Length(w, arr, k) == Ins("length", w, arr, k, <<>>, <<>>)

-----------------------------------------------------------------------------
\* Checks of an access, which come with a number of their own, id.
AllocationCheck(arr, id) ==
  LET is == LAFreeVar("isAllocated")
  IN  << Operate(is, Var(arr), "=", Num(0)), If(Var(is), "abort" \o id, "success" \o id),
         Label("abort" \o id), ArrayError(Num(0), Num(0)), Label("success" \o id) >>

IndexCheckOf(arr, index, k, id, dimension) ==
  LET len  == "len_var_cmplr" \o id
      i    == "encoded_idx_cmplr" \o id
      yes  == "success_" \o ToString(k) \o id
      no   == "out_of_bounds_" \o ToString(k) \o id
  IN  << Length(len, Var(arr), Num(dimension)), Assign(i, safe_encode_constant(index)),
         Operate(len, Var(i), "<", Var(len)), If(Var(len), yes, no),
         Label(no), ArrayError(Var(arr), Var(i)), Label(yes) >>

\* Mutated form: every index is compared with the length of the first dimension.
IndexCheckFirstLength(arr, index, k, id) == IndexCheckOf(arr, index, k, id, 0)

IndexCheck(arr, index, k, id) == IndexCheckOf(arr, index, k, id, k)

IndexChecks(f, arr, indices, id) ==
  IF TypeOf(f, arr)[1] # "array" THEN <<>>
  ELSE FlattenSeq([k \in DOMAIN indices |-> IndexCheck(arr, indices[k], k - 1, id)])

\* A callee is a function, of the runtime or not, unless it is a variable
\* declared as code.
Callee(f, o) ==
  IF o[1] = "runtime" \/ (o[1] = "var" /\ TypeOf(f, o[2])[1] = "code") THEN o
  ELSE <<"label", o[2]>>

CompileLA(f, ins, id) ==
  CASE ins.op \in {"assign", "retv", "newtuple"} ->
         << [ins EXCEPT !.s = safe_encode_constant(@)] >>
    [] ins.op = "op" ->
         decode_vars(<<ins.s, ins.t>>)
         \o << [ins EXCEPT !.s = Var(Prime(ins.s)), !.t = Var(Prime(ins.t))] >>
         \o encode_var(ins.w)
    [] ins.op = "declare" ->
         (IF ins.type[1] \in {"array", "tuple"} THEN << Assign(ins.w, Num(0)) >> ELSE <<>>)
         \o << ins >>
    [] ins.op = "cbr" ->
         Append(decode_vars(<<ins.s>>), [ins EXCEPT !.s = Var(Prime(ins.s))])
    [] ins.op \in {"call", "callassign"} ->
         << [ins EXCEPT !.to = << Callee(f, @[1]) >>, !.idx = Encoded(@)] >>
    [] ins.op = "newarray" -> << [ins EXCEPT !.idx = Encoded(@)] >>
    [] ins.op = "write" ->
         AllocationCheck(ins.w, id) \o decode_vars(ins.idx)
         \o IndexChecks(f, ins.w, ins.idx, id)
         \o << [ins EXCEPT !.idx = Decoded(@), !.s = safe_encode_constant(@)] >>
    [] ins.op = "read" ->
         AllocationCheck(ins.s[2], id) \o IndexChecks(f, ins.s[2], ins.idx, id)
         \o decode_vars(ins.idx) \o << [ins EXCEPT !.idx = Decoded(@)] >>
    [] ins.op = "length" ->
         Append(decode_vars(<<ins.t>>), [ins EXCEPT !.t = Var(Prime(ins.t))])
    [] OTHER -> << ins >>

\* The accesses among the first instructions of a function, those given.
Accesses(f, to, ops) == Cardinality({j \in 1..to : f.code[j].op \in ops})

\* Mutated form: reads are not counted.
HashOfWrites(p, g, i) == "id_" \o ToString(Accesses(p[g], i - 1, {"write"}))

\* The number of the next access, among those of all functions.
Hash(p, g, i) ==
  LET access == {"read", "write"}
      before == FoldLeft(+, 0, [h \in 1..(g - 1) |-> Accesses(p[h], Len(p[h].code), access)])
  IN  "id_" \o ToString(before + Accesses(p[g], i - 1, access))

is_terminator(ins) == ins.op \in {"br", "cbr", "return", "retv"}

\* What comes before an instruction: every block starts with a label and ends
\* with a branch or a return.
GoOn(f, i) ==
  LET ins    == f.code[i]
      starts == i = 1 \/ is_terminator(f.code[i - 1])
  IN  IF starts /\ ins.op # "label" THEN << Label(LAFreeVar("entry")) >>
      ELSE IF ~starts /\ ins.op = "label" THEN << Goto(ins.to[1]) >>
      ELSE <<>>

\* The IR code that stands for instruction i of function g of an LA program.
Chunk(p, g, i) == [first |-> GoOn(p[g], i), code |-> CompileLA(p[g], p[g].code[i], Hash(p, g, i))]
=============================================================================
