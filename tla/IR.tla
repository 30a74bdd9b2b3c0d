--------------------------------- MODULE IR ---------------------------------
(***************************************************************************)
(* The IR compiler (src/IR/src/compiler.cpp): the L3 code of an IR         *)
(* instruction.  Arrays have their number of dimensions and the length of  *)
(* each in front of their elements.                                        *)
(*                                                                         *)
(* LA, IR and L3 instructions are records of one kind:                     *)
(*   op, by   what it does, by which operation;                            *)
(*   w        the variable it writes, the array of a write;                *)
(*   s, t     its operands, <<"var", x>>, <<"num", n>> or <<"label", l>>;   *)
(*   idx      indices, dimensions or arguments;                            *)
(*   to       labels, or the function it calls;                            *)
(*   type     of a declaration, <<kind, dimensions>>.                      *)
(***************************************************************************)
EXTENDS Integers, Sequences, SequencesExt, TLC

Var(x) == <<"var", x>>
Num(n) == <<"num", n>>

Nothing == <<"nothing", 0>>

Ins(op, w, s, t, idx, to) ==
  [op |-> op, by |-> "none", w |-> w, s |-> s, t |-> t, idx |-> idx, to |-> to,
   type |-> <<"none", 0>>]

Assign(w, s)      == Ins("assign", w, s, Nothing, <<>>, <<>>)
Operate(w, s, by, t) == [Ins("op", w, s, t, <<>>, <<>>) EXCEPT !.by = by]
Load(w, s)        == Ins("load", w, s, Nothing, <<>>, <<>>)
Store(w, s)       == Ins("store", w, s, Nothing, <<>>, <<>>)
CallOf(w, f, args) == Ins("callassign", w, Nothing, Nothing, args, <<f>>)

encode(n) == 2 * n + 1

-----------------------------------------------------------------------------
\* What an instruction contains as far as get_free_var asks: not the
\* variables of calls with a result, of branches and of returns.
contains(ins) ==
  CASE ins.op = "declare"            -> {Var(ins.w)}
    [] ins.op \in {"assign", "newtuple"} -> {Var(ins.w), ins.s}
    [] ins.op \in {"op", "length"}   -> {Var(ins.w), ins.s, ins.t}
    [] ins.op = "newarray"           -> {Var(ins.w)} \cup ToSet(ins.idx)
    [] ins.op \in {"read", "write"}  -> {Var(ins.w), ins.s} \cup ToSet(ins.idx)
    [] ins.op = "call"               -> ToSet(ins.to) \cup ToSet(ins.idx)
    [] ins.op \in {"callassign", "br", "cbr", "label", "return", "retv"} -> {}

\* Mutated form: the first name is taken.
FreeVarUnchecked(seed, f) == seed

\* A name that is in use gets another "o" in front; so many are enough.
MaxPrefix == 4
Prefixed(seed, k) == FoldLeft(LAMBDA name, j : "o" \o name, seed, [j \in 1..k |-> j])

get_free_var(seed, f) ==
  LET Free(k) == \A i \in DOMAIN f.code : Var(Prefixed(seed, k)) \notin contains(f.code[i])
  IN  Prefixed(seed, CHOOSE k \in 0..MaxPrefix : Free(k) /\ \A j \in 0..(k - 1) : ~Free(j))

FreeVar(seed, f) == get_free_var(seed, f)
Dim(k, f) == FreeVar("dim" \o ToString(k), f)

\* The declarations of a function are kept in a map: the first of a name counts.
TypeOf(f, x) ==
  LET all == f.params \o SelectSeq(f.code, LAMBDA ins : ins.op = "declare")
      of  == SelectSeq(all, LAMBDA d : d.w = x)
  IN  IF of = <<>> THEN <<"none", 0>> ELSE of[1].type

-----------------------------------------------------------------------------
\* Mutated form: the sum of an earlier access is kept.
StartSumKept(sum, mult) == << Assign(mult, Num(1)) >>

Start(sum, mult) == << Assign(sum, Num(0)), Assign(mult, Num(1)) >>

\* The length of an array's dimension k, counted from 0, is in front of its
\* elements; the code computes the place of an element from all but the first.
write_offset(f, arr, indices) ==
  LET n      == Len(indices)
      dimaddr == FreeVar("dim_addr", f)
      mult   == FreeVar("mult", f)
      mix    == FreeVar("mix_sum", f)
      sum    == FreeVar("sum", f)
      offset == FreeVar("offset", f)
      lengths == [k \in 1..(n - 1) |->
        << Operate(dimaddr, arr, "+", Num(16 + 8 * k)), Load(Dim(k, f), Var(dimaddr)),
           Operate(Dim(k, f), Var(Dim(k, f)), ">>", Num(1)) >>]
      terms  == [k \in 1..n |->
        (IF k > 1 THEN << Operate(mult, Var(mult), "*", Var(Dim(k - 1, f))) >> ELSE <<>>)
        \o << Operate(mix, Var(mult), "*", Reverse(indices)[k]),
              Operate(sum, Var(sum), "+", Var(mix)) >>]
  IN  FlattenSeq(lengths)
      \o Start(sum, mult) \o FlattenSeq(terms)
      \o << Operate(offset, Var(sum), "*", Num(8)),
            Operate(offset, Var(offset), "+", Num(16 + 8 * n)),
            Operate(FreeVar("addr", f), arr, "+", Var(offset)) >>

\* Mutated form: the word for the number of dimensions is not counted.
LengthWordsDimsOnly(n) == 2 * n

LengthWords(n) == 1 + encode(n)

ArrayAllocate(f, ins) ==
  LET n  == Len(ins.idx)
      v0 == FreeVar("v0", f)
  IN  [k \in 1..n |-> Operate(Dim(k - 1, f), ins.idx[k], ">>", Num(1))]
      \o << Assign(v0, Var(Dim(0, f))) >>
      \o [k \in 1..(n - 1) |-> Operate(v0, Var(v0), "*", Var(Dim(k, f)))]
      \o << Operate(v0, Var(v0), "<<", Num(1)), Operate(v0, Var(v0), "+", Num(1)),
            Operate(v0, Var(v0), "+", Num(LengthWords(n))),
            CallOf(ins.w, <<"runtime", "allocate">>, <<Var(v0), Num(1)>>),
            Operate(v0, Var(ins.w), "+", Num(8)), Store(Var(v0), Num(encode(n))) >>
      \o FlattenSeq([k \in 1..n |->
           << Operate(v0, Var(ins.w), "+", Num(8 * (k + 1))), Store(Var(v0), ins.idx[k]) >>])

\* The address of an element of a tuple.
TupleElement(f, tuple, index) ==
  LET at  == FreeVar("tupleIndex", f)
      new == FreeVar("newVar", f)
  IN  << Assign(at, index), Operate(at, Var(at), "+", Num(1)),
         Operate(at, Var(at), "*", Num(8)), Assign(new, Var(at)),
         Operate(new, tuple, "+", Var(at)) >>

\* The code that computes the address of an element, and where it is then.
Element(f, arr, indices) ==
  IF TypeOf(f, arr)[1] = "array"
  THEN [code |-> write_offset(f, Var(arr), indices), at |-> Var(FreeVar("addr", f))]
  ELSE [code |-> TupleElement(f, Var(arr), indices[1]), at |-> Var(FreeVar("newVar", f))]

LengthRead(f, ins) ==
  LET v0 == FreeVar("v0", f)
      v1 == FreeVar("v1", f)
      v2 == FreeVar("v2", f)
  IN  << Operate(v0, ins.t, "*", Num(8)), Operate(v1, Var(v0), "+", Num(16)),
         Operate(v2, ins.s, "+", Var(v1)), Load(ins.w, Var(v2)) >>

\* The L3 code of an instruction.
Compile(f, ins) ==
  CASE ins.op = "declare"  -> <<>>
    [] ins.op = "newarray" -> ArrayAllocate(f, ins)
    [] ins.op = "newtuple" ->
         << CallOf(ins.w, <<"runtime", "allocate">>, <<ins.s, Num(1)>>) >>
    [] ins.op = "read"     ->
         LET e == Element(f, ins.s[2], ins.idx) IN Append(e.code, Load(ins.w, e.at))
    [] ins.op = "write"    ->
         LET e == Element(f, ins.w, ins.idx) IN Append(e.code, Store(e.at, ins.s))
    [] ins.op = "length"   -> LengthRead(f, ins)
    [] OTHER               -> << ins >>

\* The names the code uses besides those of the function.
Temporaries(f) ==
  {FreeVar(seed, f) : seed \in {"index", "offset", "addr", "dim_addr", "mult", "mix_sum",
                                "sum", "tupleIndex", "newVar", "v0", "v1", "v2"}}
  \cup {Dim(k, f) : k \in 0..2}
=============================================================================
