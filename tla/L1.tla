--------------------------------- MODULE L1 ---------------------------------
(***************************************************************************)
(* The L1 compiler (compile_L1, src/L1/src/compiler.cpp): the x86 code it  *)
(* writes for each instruction, and an x86 machine that executes it.  The  *)
(* code is executed as it stands in the file, instruction after            *)
(* instruction; a place in it is <<f, i, j>>: the j-th x86 instruction of   *)
(* the i-th instruction of function f, whose header is its instruction 0.   *)
(*                                                                         *)
(* Operands of x86 code are <<"%", r>>, <<"$", n>>, <<"$_", label>>, the   *)
(* memory <<"()", r, off>> and the low byte <<"b", r>> of a register.      *)
(***************************************************************************)
EXTENDS Integers, Sequences, SequencesExt

CONSTANTS Programs, InitialRegs, StackTop, BitAnd(_, _)

VARIABLES
  program,   \* as parsed
  regs,      \* the x86 registers
  flags,     \* how the last cmpq came out
  mem,       \* the words of the stack
  at,        \* the x86 instruction to execute next
  calls,     \* history: the calls that have not returned
  output,    \* the numbers printed
  last       \* history: the state at the end of the last L1 instruction

vars == <<program, regs, flags, mem, at, calls, output, last>>

Machine == INSTANCE L1Machine WITH
  regs <- last.regs, mem <- last.mem, at <- last.at, calls <- last.calls,
  output <- last.output

ASSUME ProgramsAssumption == \A p \in Programs : Machine!IsProgram(p)
ASSUME RegsAssumption == InitialRegs \subseteq [Machine!Registers -> Int]
ASSUME StackAssumption == StackTop \in Nat /\ StackTop % 8 = 0

\* How the steps of a function look to module L1Frames.
FrameStep ==
  IF at = <<0, 0, 1>> THEN "done" ELSE IF at[2] = 0 THEN "enter"
  ELSE LET op == program[at[1]].code[at[2]].op
       IN  IF at[3] = 2 /\ op = "call" THEN "called"
           ELSE IF at[3] = 2 /\ op = "return" THEN "leave" ELSE "body"

Frames == INSTANCE L1Frames WITH
  Addresses <- Machine!Words,
  Words     <- Int,
  Arities   <- UNION {{[arguments |-> p[f].arguments, locals |-> p[f].locals] :
                         f \in DOMAIN p} : p \in Programs},
  Top       <- StackTop,
  step      <- FrameStep,
  rsp       <- regs["rsp"],
  stack     <- mem,
  frames    <- [c \in DOMAIN calls |->
                  [ret   |-> Machine!Address(calls[c].to),
                   base  |-> calls[c].rsp,
                   arity |-> [arguments |-> program[calls[c].of].arguments,
                              locals |-> program[calls[c].of].locals]]]

-----------------------------------------------------------------------------
(***************************************************************************)
(* The code                                                                *)
(***************************************************************************)
None == "none"

X(op, src, dst) == [op |-> op, src |-> src, dst |-> dst]

Reg(r)      == <<"%", r>>
Imm(n)      == <<"$", n>>
Mem(r, off) == <<"()", r, off>>
Low(r)      == <<"b", r>>
Code(l)     == <<"$_", l>>

wrap_arg(o) ==
  CASE o[1] = "reg" -> Reg(o[2]) [] o[1] = "num" -> Imm(o[2])
    [] o[1] = "label" -> Code(o[2])

AopString == [o \in {"+=", "-=", "*=", "&="} |->
                CASE o = "+=" -> "addq" [] o = "-=" -> "subq"
                  [] o = "*=" -> "imulq" [] o = "&=" -> "andq"]
\* An operation on memory: there is no case for the other two, whose mnemonic
\* stays empty, and what is written for them does not assemble.
MaopString == [o \in {"+=", "-=", "*=", "&="} |->
                 CASE o = "+=" -> "addq" [] o = "-=" -> "subq" [] OTHER -> ""]
SopString == [o \in {"<<=", ">>="} |-> IF o = "<<=" THEN "salq" ELSE "sarq"]

\* The condition for a comparison whose operands are in their order, and
\* for one whose operands are exchanged.
Condition(by, reverse) ==
  CASE by = "<"  -> IF reverse THEN "g"  ELSE "l"
    [] by = "<=" -> IF reverse THEN "ge" ELSE "le"
    [] by = "="  -> "e"

IsReg(o) == o[1] = "reg"

\* cmpq wants its second operand in a register: a constant comes first.
Cmpq(ins) ==
  IF IsReg(ins.s) THEN X("cmpq", wrap_arg(ins.t), wrap_arg(ins.s))
                  ELSE X("cmpq", wrap_arg(ins.s), wrap_arg(ins.t))

\* Two constants are compared at compile time.
Holds(by, a, b) == CASE by = "<" -> a < b [] by = "<=" -> a <= b [] by = "=" -> a = b

\* Mutated form: the condition is not exchanged with the operands.
CompareCodeNotReversed(ins) ==
  IF ~IsReg(ins.s) /\ ~IsReg(ins.t)
  THEN << X("movq", Imm(IF Holds(ins.by, ins.s[2], ins.t[2]) THEN 1 ELSE 0), Reg(ins.w)) >>
  ELSE << Cmpq(ins), X("set", Condition(ins.by, FALSE), Low(ins.w)),
          X("movzbq", Low(ins.w), Reg(ins.w)) >>

CompareCode(ins) ==
  IF ~IsReg(ins.s) /\ ~IsReg(ins.t)
  THEN << X("movq", Imm(IF Holds(ins.by, ins.s[2], ins.t[2]) THEN 1 ELSE 0), Reg(ins.w)) >>
  ELSE << Cmpq(ins), X("set", Condition(ins.by, ~IsReg(ins.s)), Low(ins.w)),
          X("movzbq", Low(ins.w), Reg(ins.w)) >>

\* rhs_int is taken from the left side, as in the code.
CjumpCode(ins) ==
  IF ~IsReg(ins.s) /\ ~IsReg(ins.t)
  THEN << X("jmp", None, Code(ins.to[IF Holds(ins.by, ins.s[2], ins.s[2]) THEN 1 ELSE 2])) >>
  ELSE << Cmpq(ins), X("j", Condition(ins.by, ~IsReg(ins.s)), Code(ins.to[1])),
          X("jmp", None, Code(ins.to[2])) >>

\* Mutated form: the factor is taken for the other register.
LeaOperandSwapped(ins) == <<"(,,)", ins.t[2], ins.s[2], ins.n>>

LeaOperand(ins) == <<"(,,)", ins.s[2], ins.t[2], ins.n>>

\* Mutated form: locals are counted as bytes.
HeaderCodeInBytes(f) == << X("subq", Imm(f.locals), Reg("rsp")) >>

HeaderCode(f) == << X("subq", Imm(Frames!HeaderAdjustment(f)), Reg("rsp")) >>

\* The code of instruction i of a function, of its header for 0.
Emit(f, i) ==
  IF i = 0 THEN HeaderCode(f)
  ELSE LET ins  == f.code[i]
           cell == Mem(ins.base, ins.off)
       IN CASE ins.op = "load"   -> << X("movq", cell, Reg(ins.w)) >>
            [] ins.op = "store"  -> << X("movq", wrap_arg(ins.s), cell) >>
            [] ins.op = "assign" -> << X("movq", wrap_arg(ins.s), Reg(ins.w)) >>
            [] ins.op = "return" ->
                 << X("addq", Imm(Frames!ReturnAdjustment(f)), Reg("rsp")), X("ret", None, None) >>
            [] ins.op = "aop"    -> << X(AopString[ins.by], wrap_arg(ins.s), Reg(ins.w)) >>
            [] ins.op = "maop"   -> << X(MaopString[ins.by], wrap_arg(ins.s), cell) >>
            [] ins.op = "maop2"  -> << X(MaopString[ins.by], cell, Reg(ins.w)) >>
            [] ins.op = "shift"  ->
                 << X(SopString[ins.by], IF IsReg(ins.s) THEN Low("rcx") ELSE wrap_arg(ins.s),
                      Reg(ins.w)) >>
            [] ins.op = "cmp"    -> CompareCode(ins)
            [] ins.op = "cjump"  -> CjumpCode(ins)
            [] ins.op = "goto"   ->
                 << X("jmp", None, Code(ins.to[1])), X("jmp", None, Code(ins.to[1])) >>
            [] ins.op = "call"   ->
                 << X("subq", Imm(Frames!CallAdjustment(ins.n)), Reg("rsp")),
                    X("jmp", None, wrap_arg(ins.s)) >>
            [] ins.op = "runtime" -> << X("call", None, ins.to[1]) >>
            [] ins.op = "label"  -> << X("label", None, None) >>
            [] ins.op = "lea"    ->
                 << X("lea", LeaOperand(ins), Reg(ins.w)) >>

-----------------------------------------------------------------------------
(***************************************************************************)
(* The x86 machine                                                         *)
(***************************************************************************)

Init ==
  /\ program \in Programs
  /\ \E r \in InitialRegs : regs = [r EXCEPT !["rsp"] = StackTop - 8]
  /\ flags = "none"
  /\ mem = [a \in Machine!Words |->
              IF a = StackTop - 8 THEN Machine!Address(Machine!Exit) ELSE 0]
  /\ at = <<1, 0, 1>>
  /\ calls = << [of |-> 1, to |-> Machine!Exit, rsp |-> StackTop] >>
  /\ output = <<>>
  /\ last = [regs |-> [regs EXCEPT !["rsp"] = @ - 8 * program[1].locals],
             mem |-> mem, at |-> <<1, 1>>, calls |-> calls, output |-> output]

File == Emit(program[at[1]], at[2])
Ins  == File[at[3]]

Read(o) ==
  CASE o[1] = "%"    -> regs[o[2]]
    [] o[1] = "b"    -> regs[o[2]] % 256
    [] o[1] = "$"    -> o[2]
    [] o[1] = "$_"   -> Machine!Address(Machine!Place(o[2]))
    [] o[1] = "()"   -> mem[regs[o[2]] + o[3]]
    [] o[1] = "(,,)" -> regs[o[2]] + regs[o[3]] * o[4]

Put(o, v) ==
  /\ regs' = IF o[1] = "()" THEN regs
             ELSE [regs EXCEPT ![o[2]] = IF o[1] = "b" THEN 256 * (@ \div 256) + v ELSE v]
  /\ mem' = IF o[1] = "()" THEN [mem EXCEPT ![regs[o[2]] + o[3]] = v] ELSE mem

GoOn == at' = IF at[3] < Len(File) THEN [at EXCEPT ![3] = @ + 1]
              ELSE <<at[1], at[2] + 1, 1>>

GoTo(word) == Machine!IsCode(word) /\ at' = Append(Machine!Position(word), 1)

By == [op \in {"addq", "subq", "imulq", "andq", "salq", "sarq"} |->
         CASE op = "addq" -> "+=" [] op = "subq" -> "-=" [] op = "imulq" -> "*="
           [] op = "andq" -> "&=" [] op = "salq" -> "<<=" [] op = "sarq" -> ">>="]

Move ==
  /\ Ins.op \in {"movq", "movzbq", "lea"}
  /\ Put(Ins.dst, Read(Ins.src))
  /\ GoOn
  /\ UNCHANGED <<flags, calls, output>>

Operate ==
  /\ Ins.op \in DOMAIN By
  /\ Put(Ins.dst, Machine!Apply(By[Ins.op], Read(Ins.dst), Read(Ins.src)))
  /\ GoOn
  /\ UNCHANGED <<flags, calls, output>>

\* cmpq a, b compares b with a.
Cmp ==
  /\ Ins.op = "cmpq"
  /\ flags' = CASE Read(Ins.dst) < Read(Ins.src) -> "less"
                [] Read(Ins.dst) = Read(Ins.src) -> "equal"
                [] Read(Ins.dst) > Read(Ins.src) -> "greater"
  /\ GoOn
  /\ UNCHANGED <<regs, mem, calls, output>>

True(condition) ==
  flags \in CASE condition = "l" -> {"less"}    [] condition = "le" -> {"less", "equal"}
              [] condition = "g" -> {"greater"} [] condition = "ge" -> {"greater", "equal"}
              [] condition = "e" -> {"equal"}

Set ==
  /\ Ins.op = "set"
  /\ Put(Ins.dst, IF True(Ins.src) THEN 1 ELSE 0)
  /\ GoOn
  /\ UNCHANGED <<flags, calls, output>>

\* A jump of a call instruction enters a function.
Jump ==
  /\ Ins.op \in {"jmp", "j"}
  /\ IF Ins.op = "j" /\ ~True(Ins.src) THEN GoOn ELSE GoTo(Read(Ins.dst))
  /\ calls' = IF program[at[1]].code[at[2]].op = "call"
              THEN Append(calls, [of |-> at'[1], rsp |-> last.regs["rsp"],
                                  to |-> Machine!Position(last.mem[last.regs["rsp"] - 8])])
              ELSE calls
  /\ UNCHANGED <<regs, flags, mem, output>>

Label ==
  /\ Ins.op = "label"
  /\ GoOn
  /\ UNCHANGED <<regs, flags, mem, calls, output>>

Ret ==
  /\ Ins.op = "ret"
  /\ GoTo(mem[regs["rsp"]])
  /\ regs' = [regs EXCEPT !["rsp"] = @ + 8]
  /\ calls' = Front(calls)
  /\ UNCHANGED <<flags, mem, output>>

\* The function of the runtime returns; it prints its argument.
CallRuntime ==
  /\ Ins.op = "call"
  /\ regs' = [r \in DOMAIN regs |-> IF r \in Machine!CallerSave THEN Machine!Junk ELSE regs[r]]
  /\ mem' = [a \in DOMAIN mem |-> IF a < regs["rsp"] THEN Machine!Junk ELSE mem[a]]
  /\ output' = IF Ins.dst = "print" THEN Append(output, regs["rdi"] \div 2) ELSE output
  /\ GoOn
  /\ UNCHANGED <<flags, calls>>

Done == at = Append(Machine!Exit, 1)

Step ==
  /\ ~Done
  /\ Move \/ Operate \/ Cmp \/ Set \/ Jump \/ Label \/ Ret \/ CallRuntime
  /\ last' = IF at'[3] = 1 /\ (at'[1] = 0 \/ at'[2] # 0)
             THEN [regs |-> regs', mem |-> mem', at |-> <<at'[1], at'[2]>>,
                   calls |-> calls', output |-> output']
             ELSE last
  /\ UNCHANGED program

Next == Step \/ (Done /\ UNCHANGED vars)

Spec == Init /\ [][Next]_vars

-----------------------------------------------------------------------------
(***************************************************************************)
(* Properties                                                              *)
(***************************************************************************)

\* The type invariant: control stays in the code, the stack pointer in the
\* stack.
TypeOK ==
  /\ \/ Done
     \/ at[1] \in DOMAIN program /\ at[2] \in 0..Len(program[at[1]].code) /\ at[3] \in 1..Len(File)
  /\ regs["rsp"] \in 0..StackTop /\ regs["rsp"] % 8 = 0
  /\ Len(calls) >= IF Done THEN 0 ELSE 1

\* The L1 program keeps to what its meaning depends on.
WellBehaved == Machine!WellBehaved

\* The x86 code does what the L1 program says: the same values in registers
\* and stack after each L1 instruction, every comparison decided as written,
\* and every return, whatever the callee has on the stack, behind its call with
\* the caller's stack pointer.
ImplementsL1 == Machine!Spec

\* Its functions use the stack as module L1Frames says.
ImplementsFrames == Frames!Spec
=============================================================================
