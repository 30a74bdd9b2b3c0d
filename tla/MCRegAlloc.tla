----------------------------- MODULE MCRegAlloc -----------------------------
(***************************************************************************)
(* Functions to compile with RegAlloc: the tests of the repository that    *)
(* matter for the allocation, and small functions that force spills.       *)
(***************************************************************************)
EXTENDS RegAlloc

-----------------------------------------------------------------------------
(***************************************************************************)
(* L2 as it is written                                                     *)
(***************************************************************************)
Ins(op, arg) ==
  [op |-> op, arg |-> arg, to |-> {}, then |-> {}, n |-> 0, off |-> 0, line |-> 0]
Assign(w, s)       == Ins("assign", <<w, s>>)
Arith(w, t)        == Ins("aop", <<w, t>>)
Shift(w, s)        == Ins("shift", <<w, s>>)
Compare(w, s, t)   == Ins("cmp", <<w, s, t>>)
Load(w, x, off)    == [Ins("load", <<w, x>>) EXCEPT !.off = off]
Store(x, off, s)   == [Ins("store", <<x, s>>) EXCEPT !.off = off]
Label(l)           == [Ins("label", <<>>) EXCEPT !.to = {l}]
Goto(l)            == [Ins("goto", <<>>) EXCEPT !.to = {l}]
Cjump(s, t, l, m)  == [Ins("cjump", <<s, t>>) EXCEPT !.to = {l, m}, !.then = {l}]
Call(u, n)         == [Ins("call", <<u>>) EXCEPT !.n = n]
Runtime(n)         == [Ins("runtime", <<>>) EXCEPT !.n = n]
Return             == Ins("return", <<>>)

\* (stack-arg off) in a function of the given number of locals, resolved by
\* the parser.
StackArg(w, off, locals) == Load(w, "rsp", locals * 8 + off)

MCLiterals == {"5", "1", "2", "0", ":f", ":ret", ":ret2", ":t", ":e", ":end"}

\* The order of std::string on names of letters, digits and "_".
Characters == <<"0", "1", "2", "3", "4", "5", "6", "7", "8", "9", "A", "B",
                "C", "D", "E", "F", "G", "H", "I", "J", "K", "L", "M", "N",
                "O", "P", "Q", "R", "S", "T", "U", "V", "W", "X", "Y", "Z",
                "_", "a", "b", "c", "d", "e", "f", "g", "h", "i", "j", "k",
                "l", "m", "n", "o", "p", "q", "r", "s", "t", "u", "v", "w",
                "x", "y", "z">>
Code(c) == CHOOSE k \in 1..Len(Characters) : Characters[k] = c
MCPrecedes(n, m) ==
  \E k \in 0..Least(Len(n), Len(m)) :
    /\ SubSeq(n, 1, k) = SubSeq(m, 1, k)
    /\ \/ k = Len(n) /\ k < Len(m)
       \/ /\ k < Len(n) /\ k < Len(m)
          /\ Code(SubSeq(n, k + 1, k + 1)) < Code(SubSeq(m, k + 1, k + 1))

Variables(code) ==
  UNION {{ins.arg[k] : k \in DOMAIN ins.arg} : ins \in ToSet(code)}
  \ (RegisterNames \cup MCLiterals)

Function(locals, code) ==
  [code |-> [j \in 1..Len(code) |-> [code[j] EXCEPT !.line = j]],
   locals |-> locals, variables |-> Variables(code)]

-----------------------------------------------------------------------------
(***************************************************************************)
(* Functions                                                               *)
(***************************************************************************)

\* One variable live across a call: every register is taken, it is spilled.
AcrossCall == Function(0, <<
  Assign("v", "5"), Assign("rdi", "v"),
  Store("rsp", -8, ":ret"), Call(":f", 1), Label(":ret"),
  Assign("rax", "v"), Return >>)

\* Two of them, with a local slot of their own function below the spill slots
\* and a use that reads and writes.
TwoAcrossCall == Function(1, <<
  Store("rsp", 0, "rdi"), Assign("v", "5"), Assign("w", "2"), Arith("v", "w"),
  Store("rsp", -8, ":ret"), Call(":f", 0), Label(":ret"),
  Load("x", "rsp", 0), Assign("rax", "v"), Arith("rax", "w"), Arith("rax", "x"),
  Return >>)

\* Spilled in one branch only, used after the branches join.
Branches == Function(0, <<
  Assign("v", "5"), Assign("w", "1"),
  Cjump("rdi", "w", ":t", ":e"),
  Label(":t"),
  Store("rsp", -8, ":ret"), Call(":f", 0), Label(":ret"),
  Assign("v", "rax"), Goto(":end"),
  Label(":e"), Arith("w", "v"),
  Label(":end"), Assign("rax", "w"), Arith("rax", "v"), Return >>)

\* The caller's rbx is saved in a variable (tests/liveness/test7 and others
\* save callee-save registers by hand).
SaveCalleeSave == Function(0, <<
  Assign("saved", "rbx"), Assign("rbx", "rdi"),
  Store("rsp", -8, ":ret"), Call(":f", 1), Label(":ret"),
  Arith("rax", "rbx"), Assign("rbx", "saved"), Return >>)

\* tests/test10.L2, :printValues, without its last three instructions.
StackArguments == Function(0, <<
  StackArg("s", 0, 0), Assign("rdi", "s"), Runtime(1),
  StackArg("s2", 8, 0), Assign("rdi", "s2"), Runtime(1), Return >>)

\* tests/liveness/test12.L2f: a call through a variable.
CallVariable == Function(0, <<
  Assign("v", ":f"), Call("v", 0), Return >>)

\* Nine variables, rax and the six callee-save registers needed at once, one
\* more than there are registers.
Many == <<"a", "b", "c", "s", "s2", "saved", "v", "w", "x">>
Pressure == Function(0,
  [k \in 1..Len(Many) |-> Assign(Many[k], "5")]
  \o <<Assign("rax", "1")>>
  \o [k \in 1..Len(Many) |-> Arith("rax", Many[k])]
  \o <<Return>>)

\* tests/test6.L2: a shift by a variable, which is precoloured to rcx.
ShiftByVariable == Function(0, <<
  Assign("w", "5"), Assign("v", "5"), Assign("x", "v"), Shift("x", "w"),
  Arith("x", "1"), Assign("rdi", "x"), Runtime(1), Assign("rax", "0"),
  Return >>)

\* The inner loop of initMatrix in src/LA/tests/test10.a, reduced: the bound
\* (v) is read at the top of every round only, the body needs a temporary.
Loop == Function(0, <<
  Assign("v", "rdi"), Assign("w", "0"),
  Label(":t"), Compare("x", "v", "w"),
  Cjump("x", "1", ":end", ":e"),
  Label(":e"), Assign("s", "w"), Store("rsi", 0, "s"), Arith("w", "1"),
  Goto(":t"),
  Label(":end"), Assign("rax", "w"), Return >>)

\* The call in callMyClosure of src/IR/tests/test16.IR, reduced: a function in
\* a variable (v) is called while another variable (w) lives across the call.
\* Not among MCSources: v needs a register that the call takes, and the names
\* its spills make need the same one, for ever.
CallAcross == Function(2, <<
  Assign("v", "rdi"), Assign("w", "5"),
  Store("rsp", -8, ":ret"), Call("v", 0), Label(":ret"),
  Assign("rax", "w"), Return >>)

MCLoop == {Loop}

MCSources ==
  {AcrossCall, TwoAcrossCall, Branches, SaveCalleeSave, StackArguments,
   CallVariable, Pressure, ShiftByVariable}

-----------------------------------------------------------------------------
(***************************************************************************)
(* Every function made of two variables and up to three of these blocks,   *)
(* in any order and with repetition.                                       *)
(***************************************************************************)
CallBlock == <<Store("rsp", -8, ":ret"), Call(":f", 1), Label(":ret")>>
Blocks ==
  { <<Assign("v", "w")>>, <<Arith("w", "v")>>, <<Assign("x", "v"),
    Arith("v", "x")>>, <<Assign("rdi", "v")>>, <<Assign("rbx", "w")>>,
    <<Compare("v", "w", "rax")>>, CallBlock,
    <<Cjump("v", "w", ":t", ":e"), Label(":t"), Assign("v", "5"),
      Label(":e")>> }

IsBranch(block) == block[1].op = "cjump"

MCFamily ==
  { Function(0, <<Assign("v", "1"), Assign("w", "2")>> \o b \o c \o d
                \o <<Assign("rax", "v"), Arith("rax", "w"), Return>>) :
      <<b, c, d>> \in
        {bcd \in (Blocks \cup {<<>>}) \X (Blocks \cup {<<>>}) \X Blocks :
           Cardinality({k \in 1..3 : bcd[k] # <<>> /\ IsBranch(bcd[k])}) < 2} }

-----------------------------------------------------------------------------
(***************************************************************************)
(* Tests of src/L2/tests/liveness, each with the IN sets its .out file     *)
(* gives.                                                                  *)
(***************************************************************************)
Saved == callee_save_registers

Test(locals, code, in) == [function |-> Function(locals, code), in |-> in]

\* tests/liveness/test4.L2f and its .out.
Test4 == Test(0, <<
  Assign("myVar1", "5"), Assign("myVar2", "0"),
  Cjump("rdi", "rsi", ":t", ":e"), Label(":t"), Assign("rax", "myVar1"),
  Goto(":end"), Label(":e"), Assign("rax", "myVar2"), Label(":end"), Return >>,
  << Saved \cup {"rdi", "rsi"}, Saved \cup {"myVar1", "rdi", "rsi"},
     Saved \cup {"myVar1", "myVar2", "rdi", "rsi"}, Saved \cup {"myVar1"},
     Saved \cup {"myVar1"}, Saved \cup {"rax"}, Saved \cup {"myVar2"},
     Saved \cup {"myVar2"}, Saved \cup {"rax"}, Saved \cup {"rax"} >>)

\* tests/liveness/test5.L2f and its .out.
Test5 == Test(1, <<
  Store("rsp", 0, "rbx"), Assign("rbx", "5"), Assign("myVar1", "rbx"),
  Load("rbx", "rsp", 0), Return >>,
  << Saved \cup {"rax"}, (Saved \ {"rbx"}) \cup {"rax"}, Saved \cup {"rax"},
     (Saved \ {"rbx"}) \cup {"rax"}, Saved \cup {"rax"} >>)

\* tests/liveness/test8.L2f and its .out.
Test8 == Test(0, <<
  Assign("rdi", "5"), Call(":f", 1), Return >>,
  << Saved, Saved \cup {"rdi"}, Saved \cup {"rax"} >>)

\* tests/liveness/test9.L2f and its .out.
Test9 == Test(0, <<
  Call(":f", 0), Arith("rax", "1"), Return >>,
  << Saved, Saved \cup {"rax"}, Saved \cup {"rax"} >>)

\* tests/liveness/test11.L2f and its .out.
Test11 == Test(0, <<
  Call(":f", 0), Call(":f", 0), Return >>,
  << Saved, Saved, Saved \cup {"rax"} >>)

\* tests/liveness/test12.L2f and its .out.
Test12 == Test(0, <<
  Assign("myVar", ":f"), Call("myVar", 0), Return >>,
  << Saved, Saved \cup {"myVar"}, Saved \cup {"rax"} >>)

\* tests/liveness/test13.L2f and its .out.
Test13 == Test(0, <<
  Assign("rdi", "5"), Runtime(1), Return >>,
  << Saved, Saved \cup {"rdi"}, Saved \cup {"rax"} >>)

\* tests/liveness/test14.L2f and its .out.
Test14 == Test(0, <<
  Store("rsp", 0, "rbx"), Load("rbx", "rsp", 0), Return >>,
  << Saved \cup {"rax"}, (Saved \ {"rbx"}) \cup {"rax"}, Saved \cup {"rax"} >>)

\* tests/liveness/test16.L2f and its .out.
Test16 == Test(0, <<
  Assign("a", "2"), Call(":f", 0), Arith("a", "a"), Return >>,
  << Saved, Saved \cup {"a"}, Saved \cup {"a", "rax"}, Saved \cup {"rax"} >>)

\* tests/liveness/test20.L2f and its .out.
Test20 == Test(0, <<
  Arith("rdi", "1"), Arith("rdi", "1"), Return >>,
  << Saved \cup {"rax", "rdi"}, Saved \cup {"rax", "rdi"}, Saved \cup {"rax"} >>)

\* tests/liveness/test22.L2f and its .out.
Test22 == Test(0, <<
  Assign("v1", "1"), Assign("v2", "2"), Store("rsp", -8, ":ret"),
  Assign("rdi", "v1"), Call(":f", 1), Label(":ret"), Assign("rax", "0"),
  Return >>,
  << Saved, Saved \cup {"v1"}, Saved \cup {"v1"}, Saved \cup {"v1"},
     Saved \cup {"rdi"}, Saved, Saved, Saved \cup {"rax"} >>)

\* tests/liveness/test19.L2f, its first instructions and its shift.
Test19 == Function(0, <<
  Assign("rdi", "5"), Assign("rsi", "5"), Runtime(2), Load("rdi", "rax", 0),
  Shift("rdi", "1"), Arith("rdi", "1"), Runtime(1), Return >>)

OracleTests == {Test5, Test8, Test9, Test11, Test12, Test14, Test16, Test20,
                Test22}

\* Not among them: Test4 and Test13, whose .out files the code disagrees with,
\* and Test19, whose shift is not taken to read its left side.
MCFunctions == MCSources \cup MCFamily \cup {t.function : t \in OracleTests}

-----------------------------------------------------------------------------
\* The liveness a test is coloured with in its first round is the one its
\* .out file gives, instruction by instruction.
OracleAgrees ==
  pc = "coloring" /\ f = source =>
    \A t \in OracleTests \cup {Test4, Test13} : t.function = source => In = t.in

\* Not an invariant (Test19).  test19.L2f.out: the variable a shift changes is
\* live into the shift ("(r12 r13 r14 r15 rbp rbx rdi)" for (rdi <<= 1)).
ShiftReadsItsLeftSide ==
  pc = "coloring" =>
    \A j \in 1..Len(f.code) :
      f.code[j].op = "shift" => f.code[j].arg[1] \in In[j]
=============================================================================
