----------------------------- MODULE L1Machine -----------------------------
(***************************************************************************)
(* What an L1 program means: a machine that executes its instructions one  *)
(* by one.  A call sets up the frame of the callee, and a return goes back *)
(* behind the call, with the stack pointer the caller had, whatever the    *)
(* callee did in its frame.  It is what src/L1/src/compiler.cpp has to     *)
(* bring about with x86 instructions (module L1).                          *)
(*                                                                         *)
(* An instruction is a record                                              *)
(*   op         what it does, by which operation;                          *)
(*   w          the register it writes;                                    *)
(*   s, t       its operands, <<"reg", r>>, <<"num", n>> or <<"label", l>>; *)
(*   base, off  the memory it uses;                                        *)
(*   to, n      the labels it names; arguments, or the factor of a lea.    *)
(***************************************************************************)
EXTENDS Integers, Sequences, SequencesExt

CONSTANTS
  Programs,      \* sequences of [name, arguments, locals, code]
  InitialRegs,   \* what the registers may hold at the start of main
  StackTop,      \* the stack: words at the multiples of 8 below StackTop
  BitAnd(_, _)      \* the bitwise and of two words

VARIABLES
  program,
  regs,    \* the registers
  mem,     \* the words of the stack
  at,      \* the instruction to execute next: its function and place
  calls,   \* the functions that have not returned: where they return to, and
           \* the stack pointer of their caller
  output   \* the numbers printed

machine == <<program, regs, mem, at, calls, output>>

Exit == <<0, 0>>

Registers == {"rax", "rbx", "rcx", "rdx", "rdi", "rsi", "rbp", "rsp",
              "r8", "r9", "r10", "r11", "r12", "r13", "r14", "r15"}
Words == {8 * m : m \in 0..((StackTop \div 8) - 1)}

CallerSave == {"r8", "r9", "r10", "r11", "rax", "rcx", "rdi", "rdx", "rsi"}
Junk == 99       \* what the runtime leaves in them, and below the stack

MaxLength == 20  \* of the functions looked at

\* Words are integers, and so are addresses of code.
Address(p) == -(100 * p[1] + p[2] + 1)

Positions == {<<f, i>> : f \in DOMAIN program, i \in 0..MaxLength} \cup {Exit}
Position(word) == CHOOSE p \in Positions : Address(p) = word
IsCode(word) == \E p \in Positions : Address(p) = word

\* Where a label is; a function's name leads to its header.
Place(label) ==
  CHOOSE p \in Positions :
    /\ p # Exit
    /\ \/ p[2] = 0 /\ program[p[1]].name = label
       \/ /\ p[2] \in DOMAIN program[p[1]].code
          /\ program[p[1]].code[p[2]].op = "label"
          /\ program[p[1]].code[p[2]].to = <<label>>

Value(o) ==
  CASE o[1] = "reg"   -> regs[o[2]]
    [] o[1] = "num"   -> o[2]
    [] o[1] = "label" -> Address(Place(o[2]))

Compare(by, v, w) ==
  CASE by = "<" -> v < w [] by = "<=" -> v <= w [] by = "=" -> v = w

Apply(by, v, w) ==
  CASE by = "+=" -> v + w [] by = "-=" -> v - w [] by = "*=" -> v * w
    [] by = "&=" -> BitAnd(v, w)
    [] by = "<<=" -> v * 2^w [] by = ">>=" -> v \div 2^w

StackArguments(n) == IF n > 6 THEN n - 6 ELSE 0

-----------------------------------------------------------------------------
(***************************************************************************)
(* The programs that have a meaning: what the grammar asks of an           *)
(* instruction, that the labels are there, each once, and that no function *)
(* runs off its end; and what x86 asks: that a constant fits into 32 bits  *)
(* unless it is assigned to a register.  Three forms that the parser       *)
(* accepts are not among them, as the compiler fails on them: it compares  *)
(* the first of two constants of a jump with itself, writes no mnemonic    *)
(* for *= and &= with memory, and takes 0 for a factor of lea.             *)
(***************************************************************************)
IsRegister(o) == o[1] = "reg" /\ o[2] \in Registers
IsNumber(o)   == o[1] = "num" /\ o[2] \in Int
Int32         == -2147483647 - 1 .. 2147483647
IsImmediate(o) == IsNumber(o) /\ o[2] \in Int32

Labelled(f, l) == {i \in DOMAIN f.code : f.code[i].op = "label" /\ f.code[i].to = <<l>>}
IsLabel(p, o) ==
  o[1] = "label" /\ \E g \in DOMAIN p : p[g].name = o[2] \/ Labelled(p[g], o[2]) # {}

\* Nothing is defined twice.
LabelsUnique(p) ==
  \A f, g \in DOMAIN p :
    /\ p[f].name = p[g].name => f = g
    /\ Labelled(p[f], p[g].name) = {}
    /\ \A i \in DOMAIN p[f].code, j \in DOMAIN p[g].code :
         p[f].code[i].op = "label" /\ j \in Labelled(p[g], p[f].code[i].to[1]) =>
           f = g /\ i = j

\* Where function f may jump to: a label of its own.
IsTarget(p, f, l) ==
  /\ Labelled(p[f], l) # {}
  /\ \A g \in DOMAIN p : p[g].name # l /\ (g # f => Labelled(p[g], l) = {})

IsInstruction(p, f, ins) ==
  /\ ins.op \in {"assign", "load", "store", "aop", "maop", "maop2", "shift", "cmp", "lea",
                 "label", "goto", "cjump", "call", "return", "runtime"}
  /\ ins.op \in {"assign", "load", "aop", "maop2", "shift", "cmp", "lea"} =>
       ins.w \in Registers \ {"rsp"}
  /\ ins.op \in {"load", "store", "maop", "maop2"} => ins.base \in Registers /\ ins.off \in Int32
  /\ ins.op = "assign" => IsRegister(ins.s) \/ IsNumber(ins.s) \/ IsLabel(p, ins.s)
  /\ ins.op = "store" => IsRegister(ins.s) \/ IsImmediate(ins.s) \/ IsLabel(p, ins.s)
  /\ ins.op = "aop" => ins.by \in {"+=", "-=", "*=", "&="}
  /\ ins.op \in {"maop", "maop2"} => ins.by \in {"+=", "-="}
  /\ ins.op \in {"aop", "maop"} => IsRegister(ins.s) \/ IsImmediate(ins.s)
  /\ ins.op = "shift" =>
       ins.by \in {"<<=", ">>="} /\ (ins.s = <<"reg", "rcx">> \/ IsImmediate(ins.s))
  /\ ins.op \in {"cmp", "cjump"} =>
       /\ ins.by \in {"<", "<=", "="}
       /\ IsRegister(ins.s) \/ IsImmediate(ins.s)
       /\ IsRegister(ins.t) \/ IsImmediate(ins.t)
  /\ ins.op = "cjump" =>
       /\ IsRegister(ins.s) \/ IsRegister(ins.t)
       /\ IsTarget(p, f, ins.to[1]) /\ IsTarget(p, f, ins.to[2])
  /\ ins.op = "goto" => IsTarget(p, f, ins.to[1])
  /\ ins.op = "lea" =>
       /\ IsRegister(ins.s) /\ IsRegister(ins.t) /\ "rsp" \notin {ins.s[2], ins.t[2]}
       /\ ins.n \in {2, 4, 8}
  /\ ins.op = "call" =>
       /\ ins.n \in Nat
       /\ (IsRegister(ins.s) /\ ins.s[2] # "rsp") \/ IsLabel(p, ins.s)
  /\ ins.op \in {"label", "runtime"} => ins.to = <<ins.to[1]>>

IsFunction(p, f) ==
  /\ p[f].arguments \in Nat /\ p[f].locals \in Nat
  /\ DOMAIN p[f].code = 1..Len(p[f].code) /\ Len(p[f].code) \in 1..MaxLength
  /\ p[f].code[Len(p[f].code)].op \in {"goto", "cjump", "call", "return"}
  /\ \A i \in DOMAIN p[f].code : IsInstruction(p, f, p[f].code[i])

IsProgram(p) ==
  /\ DOMAIN p = 1..Len(p) /\ Len(p) \in Nat \ {0}
  /\ \A f \in DOMAIN p : IsFunction(p, f)
  /\ LabelsUnique(p)
  /\ p[1].arguments <= 6 /\ 8 + 8 * p[1].locals <= StackTop

-----------------------------------------------------------------------------
Init ==
  /\ program \in Programs
  /\ \E r \in InitialRegs :
       regs = [r EXCEPT !["rsp"] = StackTop - 8 - 8 * program[1].locals]
  /\ mem = [a \in Words |->
              IF a = StackTop - 8 THEN Address(Exit) ELSE 0]
  /\ at = <<1, 1>>
  /\ calls = << [of |-> 1, to |-> Exit, rsp |-> StackTop] >>
  /\ output = <<>>

Ins == program[at[1]].code[at[2]]
Cell == regs[Ins.base] + Ins.off
Follow == <<at[1], at[2] + 1>>

\* What an instruction that writes a register computes.
Result ==
  CASE Ins.op = "assign" -> Value(Ins.s)
    [] Ins.op = "load"   -> mem[Cell]
    [] Ins.op = "maop2"  -> Apply(Ins.by, regs[Ins.w], mem[Cell])
    [] Ins.op \in {"aop", "shift"} -> Apply(Ins.by, regs[Ins.w], Value(Ins.s))
    [] Ins.op = "cmp"    -> IF Compare(Ins.by, Value(Ins.s), Value(Ins.t)) THEN 1 ELSE 0
    [] Ins.op = "lea"    -> Value(Ins.s) + Ins.n * Value(Ins.t)

Compute ==
  /\ Ins.op \in {"assign", "load", "aop", "maop2", "shift", "cmp", "lea"}
  /\ regs' = [regs EXCEPT ![Ins.w] = Result]
  /\ at' = Follow
  /\ UNCHANGED <<mem, calls, output>>

Write ==
  /\ Ins.op \in {"store", "maop"}
  /\ mem' = [mem EXCEPT ![Cell] =
       IF Ins.op = "store" THEN Value(Ins.s) ELSE Apply(Ins.by, @, Value(Ins.s))]
  /\ at' = Follow
  /\ UNCHANGED <<regs, calls, output>>

Jump ==
  /\ Ins.op \in {"label", "goto", "cjump"}
  /\ at' = CASE Ins.op = "label" -> Follow
             [] Ins.op = "goto"  -> Place(Ins.to[1])
             [] Ins.op = "cjump" -> IF Compare(Ins.by, Value(Ins.s), Value(Ins.t))
                                    THEN Place(Ins.to[1]) ELSE Place(Ins.to[2])
  /\ UNCHANGED <<regs, mem, calls, output>>

\* The label to return to is in the word below the stack pointer, the
\* arguments after the sixth are below it.
Call ==
  /\ Ins.op = "call"
  /\ LET g == Position(Value(Ins.s))[1]
     IN  /\ regs' = [regs EXCEPT !["rsp"] =
                       @ - 8 - 8 * StackArguments(Ins.n) - 8 * program[g].locals]
         /\ at' = <<g, 1>>
         /\ calls' = Append(calls, [of |-> g, to |-> Position(mem[regs["rsp"] - 8]),
                                    rsp |-> regs["rsp"]])
  /\ UNCHANGED <<mem, output>>

Return ==
  /\ Ins.op = "return"
  /\ at' = Last(calls).to
  /\ regs' = [regs EXCEPT !["rsp"] = Last(calls).rsp]
  /\ calls' = Front(calls)
  /\ UNCHANGED <<mem, output>>

\* The runtime uses the stack below rsp and the registers it may.
Runtime ==
  /\ Ins.op = "runtime"
  /\ regs' = [r \in DOMAIN regs |-> IF r \in CallerSave THEN Junk ELSE regs[r]]
  /\ mem' = [a \in DOMAIN mem |-> IF a < regs["rsp"] THEN Junk ELSE mem[a]]
  /\ output' = IF Ins.to = <<"print">> THEN Append(output, regs["rdi"] \div 2) ELSE output
  /\ at' = Follow
  /\ UNCHANGED calls

Next ==
  /\ at # Exit
  /\ Compute \/ Write \/ Jump \/ Call \/ Return \/ Runtime
  /\ UNCHANGED program

Spec == Init /\ [][Next]_machine

-----------------------------------------------------------------------------
(***************************************************************************)
(* What the code of a function has to keep to while it runs.  Its accesses *)
(* are to the stack, and it leaves the word with its return address and    *)
(* what its callers have above it alone.  It calls a function, with as     *)
(* many arguments as that takes, with the label to return to in the word   *)
(* below the stack pointer, and while there is room on the stack.  It      *)
(* shifts by less than the width of a word.                                *)
(***************************************************************************)
CallsProperly ==
  /\ mem[regs["rsp"] - 8] \in {Address(<<at[1], i>>) : i \in DOMAIN program[at[1]].code}
  /\ \E g \in DOMAIN program :
       /\ Value(Ins.s) = Address(<<g, 0>>)
       /\ program[g].arguments = Ins.n
       /\ regs["rsp"] - 8 - 8 * StackArguments(Ins.n) - 8 * program[g].locals >= 0

WellBehaved ==
  at # Exit =>
    /\ Ins.op \in {"load", "store", "maop", "maop2"} => Cell \in Words
    /\ Ins.op \in {"store", "maop"} => Cell < Last(calls).rsp - 8
    /\ Ins.op = "shift" => Value(Ins.s) \in 0..63
    /\ Ins.op = "call" => CallsProperly
=============================================================================
