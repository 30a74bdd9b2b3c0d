----------------------------- MODULE LAProgram -----------------------------
(***************************************************************************)
(* LA programs compiled to IR (module LA) and on to L3 (module IR), and a  *)
(* machine that executes the L3 code on the words of the heap, with the    *)
(* runtime it calls: allocate, print and array-error.                      *)
(***************************************************************************)
EXTENDS LA

CONSTANTS
  Programs,    \* LA programs; the first function is main
  HeapStart    \* the address of the first array

VARIABLES
  program,
  ir,        \* its functions in IR
  image,     \* its L3 code; each instruction with the LA instruction it is of
  frames,    \* the activations: [of, pc, env, w], the one that runs last
  heap,      \* the words of the heap that are in use
  shapes,    \* history: the arrays, with their number of dimensions, 0 for a tuple
  output,    \* what was printed
  last       \* history: the state before the LA instruction that runs

vars == <<program, ir, image, frames, heap, shapes, output, last>>

-----------------------------------------------------------------------------
(***************************************************************************)
(* The code                                                                *)
(***************************************************************************)
\* The function as the IR compiler gets it, and the LA instruction each of its
\* instructions comes from; what goes in front of a block starts none.
IRFunction(p, g) ==
  LET chunks == [i \in DOMAIN p[g].code |-> Chunk(p, g, i)]
  IN  [name |-> p[g].name, params |-> p[g].params,
       code |-> FlattenSeq([i \in DOMAIN chunks |-> chunks[i].first \o chunks[i].code]),
       from |-> FlattenSeq([i \in DOMAIN chunks |->
         LET n == Len(chunks[i].first)
         IN  [k \in 1..(n + Len(chunks[i].code)) |-> [of |-> i, starts |-> k = n + 1]]])]

L3Code(f) ==
  FlattenSeq([i \in DOMAIN f.code |->
    LET code == Compile(f, f.code[i])
    IN  [k \in DOMAIN code |-> [ins |-> code[k], of |-> f.from[i].of,
                                starts |-> k = 1 /\ f.from[i].starts]]])

-----------------------------------------------------------------------------
(***************************************************************************)
(* The machine                                                             *)
(***************************************************************************)
CodeAddress(name) == -2 * (CHOOSE g \in DOMAIN program : program[g].name = name)

Activation(g, args, w) ==
  [of |-> g, pc |-> 1, w |-> w,
   env |-> [x \in {program[g].params[k].w : k \in DOMAIN args} |->
              args[CHOOSE k \in DOMAIN args : program[g].params[k].w = x]]]

Snapshot == [frames |-> frames, heap |-> heap, shapes |-> shapes, output |-> output]

Init ==
  /\ program \in Programs
  /\ ir = [g \in DOMAIN program |-> IRFunction(program, g)]
  /\ image = [g \in DOMAIN program |-> L3Code(ir[g])]
  /\ frames = << [of |-> 1, pc |-> 1, w |-> "none", env |-> <<>>] >>
  /\ heap = <<>>
  /\ shapes = <<>>
  /\ output = <<>>
  /\ last = Snapshot

Running == Last(frames)
At == image[Running.of][Running.pc]

\* A variable that was never written is taken for 0.
Word(o) ==
  CASE o[1] = "num"   -> o[2]
    [] o[1] = "label" -> CodeAddress(o[2])
    [] o[1] = "var"   -> IF o[2] \in DOMAIN Running.env THEN Running.env[o[2]] ELSE 0

Arithmetic == INSTANCE LAMachine WITH References <- {}, arrays <- {}

GoTo(pc) == [frames EXCEPT ![Len(frames)].pc = pc]
Set(x, v) == [GoTo(Running.pc + 1) EXCEPT ![Len(frames)].env = (x :> v) @@ @]

Compute ==
  /\ At.ins.op \in {"assign", "op", "load"}
  /\ frames' = Set(At.ins.w,
       CASE At.ins.op = "assign" -> Word(At.ins.s)
         [] At.ins.op = "op"     -> Arithmetic!Apply(At.ins.by, Word(At.ins.s), Word(At.ins.t))
         [] At.ins.op = "load"   -> IF Word(At.ins.s) \in DOMAIN heap
                                    THEN heap[Word(At.ins.s)] ELSE 0)
  /\ UNCHANGED <<heap, shapes, output>>

StoreWord ==
  /\ At.ins.op = "store"
  /\ heap' = (Word(At.ins.w) :> Word(At.ins.s)) @@ heap
  /\ frames' = GoTo(Running.pc + 1)
  /\ UNCHANGED <<shapes, output>>

Jump ==
  /\ At.ins.op \in {"br", "cbr", "label"}
  /\ frames' = IF At.ins.op = "label" THEN GoTo(Running.pc + 1)
       ELSE LET to == IF At.ins.op = "br" \/ Word(At.ins.s) = 1 THEN At.ins.to[1]
                      ELSE At.ins.to[2]
            IN  GoTo(CHOOSE pc \in DOMAIN image[Running.of] :
                       /\ image[Running.of][pc].ins.op = "label"
                       /\ image[Running.of][pc].ins.to = <<to>>)
  /\ UNCHANGED <<heap, shapes, output>>

Runtime(f) == At.ins.op \in {"call", "callassign"} /\ At.ins.to[1] = <<"runtime", f>>

\* The first word of an array is its length.
Allocate ==
  /\ Runtime("allocate")
  /\ LET n == Word(At.ins.idx[1]) \div 2
         a == CHOOSE b \in {HeapStart + 8 * k : k \in 0..100} :
                /\ b \notin DOMAIN heap
                /\ \A c \in DOMAIN heap : c < b
                /\ b - 8 \in DOMAIN heap \/ b = HeapStart
         la == program[Running.of].code[At.of]
     IN  /\ heap' = [b \in {a + 8 * k : k \in 0..n} |->
                       IF b = a THEN n ELSE Word(At.ins.idx[2])] @@ heap
         /\ shapes' = (a :> IF la.op = "newarray" THEN Len(la.idx) ELSE 0) @@ shapes
         /\ frames' = Set(At.ins.w, a)
  /\ UNCHANGED output

Shown(v) ==
  IF v % 2 = 1 THEN <<v \div 2>>
  ELSE <<heap[v]>> \o [k \in 1..heap[v] |-> heap[v + 8 * k] \div 2]

CallPrint ==
  /\ Runtime("print")
  /\ output' = Append(output, <<"print", Shown(Word(At.ins.idx[1]))>>)
  /\ frames' = GoTo(Running.pc + 1)
  /\ UNCHANGED <<heap, shapes>>

ArrayFailure ==
  /\ Runtime("array-error")
  /\ output' = Append(output,
       IF Word(At.ins.idx[1]) = 0 THEN <<"unallocated", <<>> >>
       ELSE <<"position", <<Word(At.ins.idx[2]) \div 2>> >>)
  /\ frames' = <<>>
  /\ UNCHANGED <<heap, shapes>>

Call ==
  /\ At.ins.op \in {"call", "callassign"} /\ At.ins.to[1][1] # "runtime"
  /\ frames' = Append(GoTo(Running.pc + 1),
       Activation(Word(At.ins.to[1]) \div (-2), [k \in DOMAIN At.ins.idx |-> Word(At.ins.idx[k])],
                  At.ins.w))
  /\ UNCHANGED <<heap, shapes, output>>

Return ==
  /\ At.ins.op \in {"return", "retv"}
  /\ frames' = IF At.ins.op = "return" \/ Running.w = "none" THEN Front(frames)
               ELSE [Front(frames) EXCEPT ![Len(frames) - 1].env =
                       (Running.w :> Word(At.ins.s)) @@ @]
  /\ UNCHANGED <<heap, shapes, output>>

Step ==
  /\ frames # <<>>
  /\ Compute \/ StoreWord \/ Jump \/ Allocate \/ CallPrint \/ ArrayFailure \/ Call \/ Return
  /\ last' = IF frames' = <<>> \/ image[frames'[Len(frames')].of][frames'[Len(frames')].pc].starts
             THEN [frames |-> frames', heap |-> heap', shapes |-> shapes', output |-> output']
             ELSE last
  /\ UNCHANGED <<program, ir, image>>

Next == Step \/ (frames = <<>> /\ UNCHANGED vars)

Spec == Init /\ [][Next]_vars

-----------------------------------------------------------------------------
(***************************************************************************)
(* Properties                                                              *)
(***************************************************************************)
\* The variables of an LA function.
Operands(ins) ==
  {Var(ins.w), ins.s, ins.t} \cup ToSet(ins.idx)
  \cup (IF ins.op \in {"call", "callassign"} THEN ToSet(ins.to) ELSE {})

Variables(f) ==
  {f.params[k].w : k \in DOMAIN f.params}
  \cup UNION {{o[2] : o \in {p \in Operands(f.code[i]) : p[1] = "var"}} : i \in DOMAIN f.code}

\* What a word stands for.
Meaning(v) ==
  CASE v % 2 = 1 -> <<"int", v \div 2>>
    [] v = 0     -> <<"none", 0>>
    [] v \in DOMAIN last.shapes -> <<"array", v>>
    [] v < 0 /\ v % 2 = 0 -> <<"code", v \div (-2)>>
    [] OTHER     -> <<"word", v>>

\* Elements are in row-major order behind the lengths.
Contents(a) ==
  LET n     == last.shapes[a]
      first == a + IF n = 0 THEN 8 ELSE 16 + 8 * n
      dims  == IF n = 0 THEN <<last.heap[a]>>
               ELSE [k \in 1..n |-> last.heap[a + 8 + 8 * k] \div 2]
  IN  [dims |-> dims, tuple |-> n = 0,
       elements |-> [k \in 1..Arithmetic!Size(dims) |-> Meaning(last.heap[first + 8 * (k - 1)])]]

Activations ==
  [k \in DOMAIN last.frames |->
     LET r == last.frames[k]
         rest == {pc \in DOMAIN image[r.of] : pc >= r.pc /\ image[r.of][pc].starts}
         pc   == CHOOSE q \in rest : \A s \in rest : q <= s
     IN  [of |-> r.of, at |-> image[r.of][pc].of, w |-> r.w,
          env |-> [x \in DOMAIN r.env \cap Variables(program[r.of]) |-> Meaning(r.env[x])]]]

Machine == INSTANCE LAMachine WITH
  References <- {HeapStart + 8 * k : k \in 0..100},
  frames     <- Activations,
  arrays     <- [a \in DOMAIN last.shapes |-> Contents(a)],
  output     <- last.output

\* Compiled programs do what they say: the values in variables and elements
\* after each LA instruction, the branches taken, the calls, what is printed
\* and the access that ends the program.
ImplementsLA == Machine!Spec

\* The code reads and writes an element within the array it belongs to.
AccessInside ==
  frames # <<>> =>
    LET la   == program[Running.of].code[At.of]
        a    == Word(IF la.op = "read" THEN la.s ELSE Var(la.w))
        cell == Word(IF la.op = "read" THEN At.ins.s ELSE At.ins.w)
    IN  \/ la.op = "read"  /\ (At.ins.op # "load" \/ At.ins.w # la.w)
        \/ la.op = "write" /\ At.ins.op # "store"
        \/ la.op \notin {"read", "write"}
        \/ /\ a \in DOMAIN shapes
           /\ cell \in {a + 8 * k : k \in (IF shapes[a] = 0 THEN 1 ELSE 2 + shapes[a])..heap[a]}

\* Of the code, which no step changes.
Started == Len(frames) = 1 /\ Running.of = 1 /\ Running.pc = 1

\* The labels of a function are all different, those of its blocks and those
\* of the checks of its accesses.
LabelsOnce == Started =>
  \A g \in DOMAIN image : \A pc, qc \in DOMAIN image[g] :
    /\ image[g][pc].ins.op = "label"
    /\ image[g][qc].ins.op = "label"
    /\ image[g][pc].ins.to = image[g][qc].ins.to
    => pc = qc

\* The type invariant: control stays in the code, whose labels are
\* different.
TypeOK ==
  /\ \A k \in DOMAIN frames : /\ frames[k].of \in DOMAIN program
                              /\ frames[k].pc \in DOMAIN image[frames[k].of]
  /\ DOMAIN shapes \subseteq DOMAIN heap
  /\ \A a \in DOMAIN heap : a % 8 = 0
  /\ LabelsOnce

\* No name the IR compiler makes up is a variable of the function.
TemporariesFree == Started =>
  \A g \in DOMAIN program :
    Temporaries(ir[g]) \cap Variables(program[g]) = {}

\* What an L3 instruction reads and writes.
Reads(ins) ==
  {o[2] : o \in {p \in {ins.s, ins.t} \cup ToSet(ins.idx)
                        \cup (IF ins.op = "store" THEN {ins.w} ELSE {}) : p[1] = "var"}}
Writes(ins) == IF ins.op \in {"assign", "op", "load", "callassign"} THEN {ins.w} ELSE {}

\* No temporary is live while a function is called, allocate among them: the
\* collector finds numbers as they are encoded, and arrays by their address.
NoTemporaryAcrossCalls == Started =>
  \A g \in DOMAIN image : \A pc \in DOMAIN image[g] :
    \A x \in Reads(image[g][pc].ins) \ Variables(program[g]) :
      \E qc \in 1..(pc - 1) :
        /\ image[g][qc].of = image[g][pc].of
        /\ x \in Writes(image[g][qc].ins)
        /\ \A rc \in (qc + 1)..(pc - 1) :
             image[g][rc].ins.op \notin {"call", "callassign"} \/
             image[g][rc].ins.to = << <<"runtime", "array-error">> >>
=============================================================================
