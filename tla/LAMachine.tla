----------------------------- MODULE LAMachine -----------------------------
(***************************************************************************)
(* What an LA program means: a machine that executes its instructions one  *)
(* by one, on numbers and on arrays whose elements are apart from each     *)
(* other.  It is what src/LA/src/compiler.cpp and src/IR/src/compiler.cpp  *)
(* have to bring about together (module LAProgram).                        *)
(*                                                                         *)
(* A value is <<"int", n>>, <<"array", a>>, <<"code", g>>, or <<"none", 0>> *)
(* for an array that is not allocated.                                     *)
(***************************************************************************)
EXTENDS Integers, Sequences, SequencesExt, TLC, Bitwise

CONSTANTS
  Programs,   \* sequences of functions [name, params, code]; the first is main
  References  \* what arrays are referred to by

VARIABLES
  program,
  frames,   \* the activations: [of, at, env, w], the one that runs last
  arrays,   \* the arrays and tuples: [dims, elements]
  output    \* what was printed

machine == <<program, frames, arrays, output>>

None == <<"none", 0>>
Int64(n) == <<"int", n>>

Function(name) == CHOOSE g \in DOMAIN program : program[g].name = name

\* Declarations of numbers and code do nothing.
Skip(p, g, i) ==
  CHOOSE j \in i..Len(p[g].code) :
    LET idle(k) == p[g].code[k].op = "declare" /\ p[g].code[k].type[1] \in {"int", "code"}
    IN  ~idle(j) /\ \A k \in i..(j - 1) : idle(k)

Current == Last(frames)
Ins == program[Current.of].code[Current.at]

Value(o) ==
  CASE o[1] = "num"   -> Int64(o[2])
    [] o[1] = "label" -> <<"code", Function(o[2])>>
    [] o[1] = "var"   -> IF o[2] \in DOMAIN Current.env THEN Current.env[o[2]] ELSE None
Number(o) == Value(o)[2]

Holds(b) == IF b THEN 1 ELSE 0

Apply(by, v, w) ==
  CASE by = "+" -> v + w [] by = "-" -> v - w [] by = "*" -> v * w [] by = "&" -> v & w
    [] by = "<<" -> v * 2^w [] by = ">>" -> v \div 2^w
    [] by = "<" -> Holds(v < w) [] by = "<=" -> Holds(v <= w) [] by = "=" -> Holds(v = w)
    [] by = ">" -> Holds(v > w) [] by = ">=" -> Holds(v >= w)

\* The place of an element in row-major order, from 0.
Place(dims, idx) == FoldLeft(LAMBDA n, k : n * dims[k] + idx[k], 0, [k \in DOMAIN idx |-> k])
Size(dims) == FoldLeft(LAMBDA n, d : n * d, 1, dims)

Numbers(os) == [k \in DOMAIN os |-> Number(os[k])]

\* The indices of an access that are not below the length of their dimension.
Beyond(a, idx) == {k \in DOMAIN idx : idx[k] >= arrays[a].dims[k]}

GoTo(i) == [frames EXCEPT ![Len(frames)].at = Skip(program, Current.of, i)]
Follow == Current.at + 1
Set(x, v) == [GoTo(Follow) EXCEPT ![Len(frames)].env = (x :> v) @@ @]

LabelAt(g, l) ==
  CHOOSE i \in DOMAIN program[g].code :
    program[g].code[i].op = "label" /\ program[g].code[i].to = <<l>>

Activation(g, args, w) ==
  [of |-> g, at |-> Skip(program, g, 1), w |-> w,
   env |-> [x \in {program[g].params[k].w : k \in DOMAIN args} |->
              args[CHOOSE k \in DOMAIN args : program[g].params[k].w = x]]]

-----------------------------------------------------------------------------
Init ==
  /\ program \in Programs
  /\ frames = << Activation(1, <<>>, "none") >>
  /\ arrays = <<>>
  /\ output = <<>>

Compute ==
  /\ Ins.op \in {"assign", "op", "declare"}
  /\ frames' = Set(Ins.w,
       CASE Ins.op = "assign"  -> Value(Ins.s)
         [] Ins.op = "op"      -> Int64(Apply(Ins.by, Number(Ins.s), Number(Ins.t)))
         [] Ins.op = "declare" -> None)
  /\ UNCHANGED <<arrays, output>>

Jump ==
  /\ Ins.op \in {"br", "cbr", "label"}
  /\ frames' = GoTo(CASE Ins.op = "label" -> Follow
                      [] Ins.op = "br"  -> LabelAt(Current.of, Ins.to[1])
                      [] Ins.op = "cbr" -> LabelAt(Current.of,
                           IF Number(Ins.s) = 1 THEN Ins.to[1] ELSE Ins.to[2]))
  /\ UNCHANGED <<arrays, output>>

\* Elements of a new array are 0.
New ==
  /\ Ins.op \in {"newarray", "newtuple"}
  /\ \E a \in References \ DOMAIN arrays :
       LET dims == IF Ins.op = "newarray" THEN Numbers(Ins.idx) ELSE <<Number(Ins.s)>>
       IN  /\ arrays' = (a :> [dims |-> dims, tuple |-> Ins.op = "newtuple",
                               elements |-> [n \in 1..Size(dims) |-> Int64(0)]]) @@ arrays
           /\ frames' = Set(Ins.w, <<"array", a>>)
  /\ UNCHANGED output

Target == IF Ins.op = "read" THEN Value(Ins.s) ELSE Value(<<"var", Ins.w>>)

Access ==
  /\ Ins.op \in {"read", "write"} /\ Target # None
  /\ LET a   == Target[2]
         idx == Numbers(Ins.idx)
         e   == 1 + Place(arrays[a].dims, idx)
     IN  /\ Beyond(a, idx) = {}
         /\ frames' = IF Ins.op = "read" THEN Set(Ins.w, arrays[a].elements[e]) ELSE GoTo(Follow)
         /\ arrays' = IF Ins.op = "read" THEN arrays
                      ELSE [arrays EXCEPT ![a].elements[e] = Value(Ins.s)]
  /\ UNCHANGED output

\* The program ends at an access that is not possible, with a message that
\* says the first index that is too large.
Fail ==
  /\ Ins.op \in {"read", "write"}
  /\ \/ /\ Target = None
        /\ output' = Append(output, <<"unallocated", <<>> >>)
     \/ /\ Target # None
        /\ LET beyond == Beyond(Target[2], Numbers(Ins.idx))
           IN  /\ ~arrays[Target[2]].tuple
               /\ beyond # {}
               /\ output' = Append(output,
                    <<"position", << Numbers(Ins.idx)[CHOOSE k \in beyond :
                                                       \A j \in beyond : k <= j] >> >>)
  /\ frames' = <<>>
  /\ UNCHANGED arrays

LengthRead ==
  /\ Ins.op = "length"
  /\ frames' = Set(Ins.w, Int64(arrays[Number(Ins.s)].dims[1 + Number(Ins.t)]))
  /\ UNCHANGED <<arrays, output>>

\* An array prints as its size, its number of dimensions, their lengths and
\* its elements.
CallPrint ==
  /\ Ins.op = "call" /\ Ins.to[1] = <<"runtime", "print">>
  /\ LET v == Value(Ins.idx[1])
         shown(a) ==
           LET words == (IF a.tuple THEN <<>> ELSE <<Len(a.dims)>> \o a.dims)
                        \o [n \in DOMAIN a.elements |-> a.elements[n][2]]
           IN  <<Len(words)>> \o words
     IN  output' = Append(output, <<"print", IF v[1] = "int" THEN <<v[2]>> ELSE shown(arrays[v[2]])>>)
  /\ frames' = GoTo(Follow)
  /\ UNCHANGED arrays

Call ==
  /\ Ins.op \in {"call", "callassign"} /\ Ins.to[1][1] # "runtime"
  /\ LET o == Ins.to[1]
         v == IF o[1] = "var" THEN Value(o) ELSE <<"code", Function(o[2])>>
         args == [k \in DOMAIN Ins.idx |-> Value(Ins.idx[k])]
     IN  frames' = Append(GoTo(Follow),
                          Activation(v[2], args, IF Ins.op = "call" THEN "none" ELSE Ins.w))
  /\ UNCHANGED <<arrays, output>>

Return ==
  /\ Ins.op \in {"return", "retv"}
  /\ frames' = IF Ins.op = "return" \/ Current.w = "none" THEN Front(frames)
               ELSE [Front(frames) EXCEPT ![Len(frames) - 1].env =
                       (Current.w :> Value(Ins.s)) @@ @]
  /\ UNCHANGED <<arrays, output>>

Next ==
  /\ frames # <<>>
  /\ Compute \/ Jump \/ New \/ Access \/ Fail \/ LengthRead \/ CallPrint \/ Call \/ Return
  /\ UNCHANGED program

Spec == Init /\ [][Next]_machine
=============================================================================
