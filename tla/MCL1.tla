-------------------------------- MODULE MCL1 --------------------------------
(***************************************************************************)
(* L1 programs to compile and run.                                         *)
(***************************************************************************)
EXTENDS L1, Bitwise

R(r) == <<"reg", r>>
N(n) == <<"num", n>>
L(l) == <<"label", l>>

Instr(op) == [op |-> op, by |-> None, w |-> None, s |-> None, t |-> None,
              base |-> None, off |-> 0, to |-> <<>>, n |-> 0]
Assign(w, s)      == [Instr("assign") EXCEPT !.w = w, !.s = s]
Load(w, off)      == [Instr("load") EXCEPT !.w = w, !.base = "rsp", !.off = off]
Store(off, s)     == [Instr("store") EXCEPT !.s = s, !.base = "rsp", !.off = off]
Aop(w, by, s)     == [Instr("aop") EXCEPT !.w = w, !.by = by, !.s = s]
Maop(off, by, s)  == [Instr("maop") EXCEPT !.base = "rsp", !.off = off, !.by = by, !.s = s]
Maop2(w, by, off) == [Instr("maop2") EXCEPT !.w = w, !.by = by, !.base = "rsp", !.off = off]
Shift(w, by, s)   == [Aop(w, by, s) EXCEPT !.op = "shift"]
Cmp3(w, s, by, t) == [Instr("cmp") EXCEPT !.w = w, !.by = by, !.s = s, !.t = t]
Cjump(s, by, t, l, m) == [Instr("cjump") EXCEPT !.by = by, !.s = s, !.t = t, !.to = <<l, m>>]
Goto(l)           == [Instr("goto") EXCEPT !.to = <<l>>]
Lab(l)            == [Instr("label") EXCEPT !.to = <<l>>]
CallOf(s, n)      == [Instr("call") EXCEPT !.s = s, !.n = n]
PrintCall         == [Instr("runtime") EXCEPT !.to = <<"print">>, !.n = 1]
Lea(w, s, t, n)   == [Instr("lea") EXCEPT !.w = w, !.s = R(s), !.t = R(t), !.n = n]
Ret0              == Instr("return")

Function(name, args, locals, code) ==
  [name |-> name, arguments |-> args, locals |-> locals, code |-> code]

MCBitAnd(v, w) == v & w

Registers == {"rax", "rbx", "rcx", "rdx", "rdi", "rsi", "rbp", "rsp",
              "r8", "r9", "r10", "r11", "r12", "r13", "r14", "r15"}
MCInitialRegs ==
  {[r \in Registers |-> CASE r = "rdi" -> a [] r = "rsi" -> b [] r = "rcx" -> 1 [] OTHER -> 0] :
     a \in {1, 258}, b \in {1, 2}}

-----------------------------------------------------------------------------
(***************************************************************************)
(* Programs of src/L1/tests, and what they print.                          *)
(***************************************************************************)

\* 23.L1: eight arguments, and a callee that keeps a local over a call.
Test23 ==
  << Function(":main", 0, 0,
       << Assign("rdi", N(1)), Assign("rsi", N(2)), Assign("rdx", N(3)), Assign("rcx", N(4)),
          Assign("r8", N(5)), Assign("r9", N(6)), Store(-16, N(7)), Store(-24, N(8)),
          Store(-8, L(":ret")), CallOf(L(":big"), 8), Lab(":ret"), Assign("rdi", R("rax")),
          PrintCall, Ret0 >>),
     Function(":big", 8, 1,
       << Aop("rdi", "-=", R("rsi")), Aop("rdi", "-=", R("rdx")), Aop("rdi", "-=", R("rcx")),
          Aop("rdi", "-=", R("r8")), Aop("rdi", "-=", R("r9")), Load("r8", 16),
          Aop("rdi", "-=", R("r8")), Load("r8", 8), Aop("rdi", "-=", R("r8")),
          Shift("rdi", "<<=", N(1)), Aop("rdi", "+=", N(1)), Store(0, R("rdi")), PrintCall,
          Load("rax", 0), Ret0 >>) >>

\* stackTest.L1: an argument on the stack, with a local in either frame.
StackTest ==
  << Function(":main", 0, 1,
       << Store(-8, L(":f_ret")), Store(-16, N(1)), CallOf(L(":f"), 7), Lab(":f_ret"),
          Cmp3("rdi", R("rax"), "=", N(1)), Shift("rdi", "<<=", N(1)), Aop("rdi", "+=", N(1)),
          PrintCall, Ret0 >>),
     Function(":f", 7, 1, << Load("rax", 8), Ret0 >>) >>

\* basic_shift_register.L1: shifts by rcx.
ShiftTest ==
  << Function(":go", 0, 0,
       << Assign("rdi", N(1)), Assign("rcx", N(5)), Shift("rdi", "<<=", R("rcx")),
          Aop("rdi", "+=", N(1)), PrintCall, Assign("rdi", N(384)), Assign("rcx", N(5)),
          Shift("rdi", ">>=", R("rcx")), Aop("rdi", "+=", N(1)), PrintCall, Ret0 >>) >>

\* test39.L1: rdi + rsi * 4.
LeaTest ==
  << Function(":go", 0, 0,
       << Assign("rdi", N(1)), Assign("rsi", N(2)), Lea("rdi", "rdi", "rsi", 4), PrintCall,
          Ret0 >>) >>

\* 20.L1: a jump that compares two constants.
Test20 ==
  << Function(":mern", 0, 0,
       << Assign("rdi", N(3)), Cjump(N(1), "=", N(0), ":true", ":false"), Lab(":true"),
          Assign("rdi", N(1)), Lab(":false"), PrintCall, Ret0 >>) >>

\* 23.L1.out, stackTest.L1.out, basic_shift_register.L1.out, test39.L1.out, 20.L1.out
Tests ==
  { <<Test23, <<-34, -34>> >>, <<StackTest, <<1>> >>, <<ShiftTest, <<16, 6>> >>,
    <<LeaTest, <<4>> >>, <<Test20, <<1>> >> }

\* A program of the tests prints what its .out file says.
PrintsWhatTestSays ==
  Done => \A test \in Tests : test[1] = program => test[2] = output

-----------------------------------------------------------------------------
(***************************************************************************)
(* Programs made for the checks                                            *)
(***************************************************************************)
Operands == {R("rdi"), R("rsi"), N(1), N(2)}
Comparators == {"<", "<=", "="}

\* Every comparison, as a value and as a jump, but for a jump between constants.
Comparing ==
  {<< Function(":main", 0, 0, << Cmp3(w, s, by, t), Ret0 >>) >> :
     w \in {"rdi", "rax"}, s \in Operands, by \in Comparators, t \in Operands}
Jumping ==
  {<< Function(":main", 0, 0,
        << Cjump(s, by, t, ":a", ":b"), Lab(":a"), Assign("rax", N(1)), Goto(":c"),
           Lab(":b"), Assign("rax", N(2)), Lab(":c"), Ret0 >>) >> :
     s \in Operands, by \in Comparators, t \in {R("rdi"), R("rsi")}}

\* The other instructions, on registers and on the word at the stack pointer.
Changing ==
  {<< Function(":main", 0, 1, << Store(0, N(3)), ins, Maop2("rsi", "+=", 0), Ret0 >>) >> :
     ins \in {Aop(w, by, s) : w \in {"rdi", "rsi"}, by \in {"+=", "-=", "*=", "&="}, s \in Operands}
             \cup {Maop(0, by, s) : by \in {"+=", "-="}, s \in Operands}
             \cup {Maop2("rdi", by, 0) : by \in {"+=", "-="}}
             \cup {Shift("rdi", by, s) : by \in {"<<=", ">>="}, s \in {R("rcx"), N(2)}}
             \cup {Lea("rdi", "rsi", "rdi", n) : n \in {2, 4, 8}}}

\* main calls f with some arguments, f calls g with others, directly or
\* through a register, each with its locals, which it fills and reads.
CallsOf(n, m, locals, callee) ==
  << Function(":main", 0, 1,
       << Store(0, N(1)), Store(-16, N(5)), Store(-24, N(6)), Store(-8, L(":r")),
          CallOf(L(":f"), n), Lab(":r"), Load("rdi", 0), Ret0 >>),
     Function(":f", n, locals,
       << Assign("rbx", L(":g")), Store(8 * locals - 8, N(7)), Load("rsi", 8 * locals),
          Store(-16, R("rsi")), Store(-8, L(":s")), CallOf(callee, m), Lab(":s"),
          Load("rdx", 8 * locals - 8), Ret0 >>),
     Function(":g", m, 1, << Store(0, N(8)), Load("rcx", 8), PrintCall, Ret0 >>) >>
Calling ==
  {CallsOf(n, m, locals, callee) :
     n \in {0, 6, 7, 8}, m \in {1, 7, 8}, locals \in {1, 2}, callee \in {L(":g"), R("rbx")}}

MCPrograms ==
  ({test[1] : test \in Tests} \ {Test20}) \cup Comparing \cup Jumping \cup Changing \cup Calling
\* Not among them: the jump of Test20 goes the wrong way, and products in memory
\* come out without a mnemonic.
MCConstants == {Test20}
MCMemoryProducts ==
  {<< Function(":main", 0, 1, << Store(0, N(3)), ins, Ret0 >>) >> :
     ins \in {Maop(0, "*=", N(2)), Maop2("rdi", "&=", 0)}}
=============================================================================
