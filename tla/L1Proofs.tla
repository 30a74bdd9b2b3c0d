------------------------------ MODULE L1Proofs ------------------------------
(***************************************************************************)
(* Proofs that the x86 code of an L1 program does what the program says,   *)
(* and that its functions use the stack as module L1Frames says, for every *)
(* program of IsProgram (module L1Machine), whatever the registers hold at *)
(* its start.                                                              *)
(***************************************************************************)
EXTENDS L1, SequenceTheorems, TLAPS

\* What the results of two operations are: BitAnd is a parameter, and of powers
\* the provers know nothing.
Integral ==
  /\ \A v, w \in Int : BitAnd(v, w) \in Int
  /\ \A n \in 0..63 : 2^n \in Nat /\ 2^n > 0

-----------------------------------------------------------------------------
(***************************************************************************)
(* The L1 program.                                                         *)
(***************************************************************************)
\* The stack pointer while the body of an activation runs.
Body(p, c) ==
  c.rsp - 8 - 8 * Machine!StackArguments(p[c.of].arguments) - 8 * p[c.of].locals

Activations == [of : Nat, to : Nat \X Nat, rsp : Nat]

\* Each activation is below that of its caller, and returns into it.
CallsInv(p, cs) ==
  /\ cs \in Seq(Activations)
  /\ \A c \in DOMAIN cs :
       /\ cs[c].of \in DOMAIN p
       /\ cs[c].rsp \in 8..StackTop /\ cs[c].rsp % 8 = 0 /\ Body(p, cs[c]) >= 0
       /\ cs[c].to = Machine!Exit
            \/ \E i \in DOMAIN p[cs[c - 1].of].code : cs[c].to = <<cs[c - 1].of, i>>
       /\ c = 1 <=> cs[c].to = Machine!Exit
       /\ c = 1 => cs[c].rsp = StackTop
       /\ c > 1 => cs[c].rsp = Body(p, cs[c - 1])
       /\ \A d \in DOMAIN cs : c <= d => cs[d].rsp <= cs[c].rsp

\* The word above which an activation has nothing holds its return address.
ReturnsInv(cs, m) == \A c \in DOMAIN cs : m[cs[c].rsp - 8] = Machine!Address(cs[c].to)

Inside(p, pos, cs, rsp) ==
  /\ Len(cs) > 0
  /\ \E i \in DOMAIN p[cs[Len(cs)].of].code : pos = <<cs[Len(cs)].of, i>>
  /\ rsp = Body(p, cs[Len(cs)])

LastInv ==
  /\ program \in Programs
  /\ last.regs \in [Machine!Registers -> Int] /\ last.mem \in [Machine!Words -> Int]
  /\ CallsInv(program, last.calls) /\ ReturnsInv(last.calls, last.mem)
  /\ \/ last.at = Machine!Exit /\ last.calls = <<>> /\ last.regs["rsp"] = StackTop
     \/ Inside(program, last.at, last.calls, last.regs["rsp"])

-----------------------------------------------------------------------------
(***************************************************************************)
(* Its code, between two x86 instructions.                                 *)
(***************************************************************************)
\* An L1 instruction is done.
Between ==
  /\ at \in {<<0, 0, 1>>} \cup {<<f, i, 1>> : f \in DOMAIN program, i \in 1..Machine!MaxLength}
  /\ last = [regs |-> regs, mem |-> mem, at |-> <<at[1], at[2]>>, calls |-> calls,
             output |-> output]

\* A function was jumped to, main or one that is called.
Entering ==
  /\ \E f \in DOMAIN program : at = <<f, 0, 1>>
  /\ mem = last.mem /\ output = last.output
  /\ \/ /\ last.at = <<at[1], 1>> /\ calls = last.calls
        /\ regs = [last.regs EXCEPT !["rsp"] = @ + Frames!HeaderAdjustment(program[at[1]])]
     \/ /\ last.at # Machine!Exit /\ Machine!Ins.op = "call"
        /\ Machine!Value(Machine!Ins.s) = Machine!Address(<<at[1], 0>>)
        /\ regs = [last.regs EXCEPT !["rsp"] = @ - Frames!CallAdjustment(Machine!Ins.n)]
        /\ calls = Append(last.calls,
                     [of |-> at[1], rsp |-> last.regs["rsp"],
                      to |-> Machine!Position(last.mem[last.regs["rsp"] - 8])])

CompareHolds(ins) == Machine!Compare(ins.by, Machine!Value(ins.s), Machine!Value(ins.t))
ByFlags(ins) == IsReg(ins.s) \/ IsReg(ins.t)

\* An instruction of more than one x86 instruction is under way.
Midway(ins) ==
  /\ last.at # Machine!Exit
  /\ mem = last.mem /\ calls = last.calls /\ output = last.output
  /\ \/ /\ ins.op \in {"cmp", "cjump"} /\ ByFlags(ins) /\ at = Append(last.at, 2)
        /\ True(Condition(ins.by, ~IsReg(ins.s))) <=> CompareHolds(ins)
        /\ regs = last.regs
     \/ /\ ins.op = "cmp" /\ ByFlags(ins) /\ at = Append(last.at, 3)
        /\ regs = [last.regs EXCEPT ![ins.w] =
                     256 * (@ \div 256) + (IF CompareHolds(ins) THEN 1 ELSE 0)]
     \/ /\ ins.op = "cjump" /\ ByFlags(ins) /\ at = Append(last.at, 3)
        /\ ~CompareHolds(ins)
        /\ regs = last.regs
     \/ /\ ins.op = "return" /\ at = Append(last.at, 2)
        /\ regs = [last.regs EXCEPT !["rsp"] =
                     @ + Frames!ReturnAdjustment(program[at[1]])]
     \/ /\ ins.op = "call" /\ at = Append(last.at, 2)
        /\ regs = [last.regs EXCEPT !["rsp"] = @ - Frames!CallAdjustment(ins.n)]

\* The inductive invariant.
IInv == LastInv /\ (Between \/ Entering \/ Midway(Machine!Ins))

-----------------------------------------------------------------------------
(***************************************************************************)
(* Programs and places in them.                                            *)
(***************************************************************************)
LEMMA CodeIs ==
  ASSUME program \in Programs, NEW f \in DOMAIN program
  PROVE  /\ f \in Nat /\ f >= 1
         /\ program[f].arguments \in Nat /\ program[f].locals \in Nat
         /\ DOMAIN program[f].code = 1..Len(program[f].code)
         /\ Len(program[f].code) \in 1..20
         /\ program[f].code[Len(program[f].code)].op \in {"goto", "cjump", "call", "return"}
         /\ \A i \in DOMAIN program[f].code :
              /\ Machine!IsInstruction(program, f, program[f].code[i])
              /\ i \in 1..20
<1>1. Machine!IsProgram(program)
  BY ProgramsAssumption
<1>2. f \in Nat /\ f >= 1 /\ Machine!IsFunction(program, f)
  BY <1>1 DEF Machine!IsProgram
<1>3. Len(program[f].code) \in 1..20 /\ DOMAIN program[f].code = 1..Len(program[f].code)
  BY <1>2 DEF Machine!IsFunction, Machine!MaxLength
<1>4. \A i \in DOMAIN program[f].code : i \in 1..20
  <2>1. ASSUME NEW n \in 1..20, NEW i \in 1..n PROVE i \in 1..20
    OBVIOUS
  <2> QED
    BY <1>3, <2>1
<1> QED
  BY <1>2, <1>3, <1>4 DEF Machine!IsFunction

LEMMA MainIs ==
  ASSUME program \in Programs
  PROVE  /\ 1 \in DOMAIN program
         /\ program[1].arguments <= 6 /\ 8 + 8 * program[1].locals <= StackTop
BY ProgramsAssumption DEF Machine!IsProgram

LEMMA PositionsAre ==
  ASSUME program \in Programs
  PROVE  /\ \A f \in DOMAIN program : \A i \in 0..20 : <<f, i>> \in Machine!Positions
         /\ Machine!Exit \in Machine!Positions
         /\ \A p \in Machine!Positions :
              \/ p = <<0, 0>>
              \/ \E f \in DOMAIN program : \E i \in 0..20 : p = <<f, i>> /\ f \in Nat /\ f >= 1
BY CodeIs DEF Machine!Positions, Machine!MaxLength, Machine!Exit

LEMMA PlaceIs ==
  ASSUME program \in Programs, NEW f \in DOMAIN program
  PROVE  /\ <<f, 0>> \in Machine!Positions /\ <<f, 0>> # Machine!Exit
         /\ \A i \in DOMAIN program[f].code :
              /\ <<f, i>> \in Machine!Positions /\ <<f, i>> # Machine!Exit
<1>1. f # 0 /\ \A i \in DOMAIN program[f].code : i \in 0..20
  BY CodeIs
<1>2. \A i : <<f, i>> # Machine!Exit
  BY <1>1 DEF Machine!Exit
<1>3. \A i \in 0..20 : <<f, i>> \in Machine!Positions
  BY PositionsAre
<1> QED
  BY <1>1, <1>2, <1>3

\* The address of a place is that of no other.
LEMMA AddressIs ==
  ASSUME program \in Programs, NEW p \in Machine!Positions
  PROVE  /\ Machine!Address(p) \in Int
         /\ Machine!IsCode(Machine!Address(p))
         /\ Machine!Position(Machine!Address(p)) = p
         /\ \A q \in Machine!Positions : Machine!Address(q) = Machine!Address(p) => q = p
<1>1. \A q \in Machine!Positions :
        /\ Machine!Address(q) \in Int
        /\ Machine!Address(q) = Machine!Address(p) => q = p
  <2> SUFFICES ASSUME NEW q \in Machine!Positions
               PROVE  /\ Machine!Address(q) \in Int
                      /\ Machine!Address(q) = Machine!Address(p) => q = p
    OBVIOUS
  <2> DEFINE Pair(r, f, i) == r = <<f, i>> /\ (f = 0 => i = 0)
  <2>0. ASSUME NEW r \in Machine!Positions
        PROVE  \E f \in Nat, i \in 0..20 : Pair(r, f, i)
    <3>1. CASE r = <<0, 0>>
      <4>1. Pair(r, 0, 0) /\ 0 \in Nat /\ 0 \in 0..20
        BY <3>1
      <4> QED
        BY <4>1
    <3>2. CASE \E f \in DOMAIN program : \E i \in 0..20 : r = <<f, i>> /\ f \in Nat /\ f >= 1
      <4>1. PICK f \in DOMAIN program, i \in 0..20 : r = <<f, i>> /\ f \in Nat /\ f >= 1
        BY <3>2
      <4>2. Pair(r, f, i)
        BY <4>1
      <4> QED
        BY <4>1, <4>2
    <3> QED
      BY <3>1, <3>2, PositionsAre
  <2>1. PICK f \in Nat, i \in 0..20 : p = <<f, i>> /\ (f = 0 => i = 0)
    BY <2>0
  <2>2. PICK g \in Nat, j \in 0..20 : q = <<g, j>> /\ (g = 0 => j = 0)
    BY <2>0
  <2>3. Machine!Address(p) = -(100 * f + i + 1) /\ Machine!Address(q) = -(100 * g + j + 1)
    BY <2>1, <2>2 DEF Machine!Address
  <2>4. 100 * f + i + 1 = 100 * g + j + 1 => f = g /\ i = j
    OBVIOUS
  <2> QED
    BY <2>1, <2>2, <2>3, <2>4
<1> QED
  BY <1>1 DEF Machine!IsCode, Machine!Position

\* A label leads to a place.
LEMMA LabelIs ==
  ASSUME program \in Programs, NEW o, Machine!IsLabel(program, o)
  PROVE  Machine!Place(o[2]) \in Machine!Positions
<1> DEFINE Fits(p) == /\ p # Machine!Exit
                      /\ \/ p[2] = 0 /\ program[p[1]].name = o[2]
                         \/ /\ p[2] \in DOMAIN program[p[1]].code
                            /\ program[p[1]].code[p[2]].op = "label"
                            /\ program[p[1]].code[p[2]].to = <<o[2]>>
<1>1. PICK g \in DOMAIN program : program[g].name = o[2] \/ Machine!Labelled(program[g], o[2]) # {}
  BY DEF Machine!IsLabel
<1>2. \E p \in Machine!Positions : Fits(p)
  <2>1. CASE program[g].name = o[2]
    <3>1. <<g, 0>> \in Machine!Positions /\ <<g, 0>> # Machine!Exit
      BY PlaceIs
    <3>2. Fits(<<g, 0>>)
      BY <2>1, <3>1
    <3> QED
      BY <3>1, <3>2
  <2>2. CASE Machine!Labelled(program[g], o[2]) # {}
    <3>1. PICK i \in DOMAIN program[g].code :
            program[g].code[i].op = "label" /\ program[g].code[i].to = <<o[2]>>
      BY <2>2 DEF Machine!Labelled
    <3>2. <<g, i>> \in Machine!Positions /\ <<g, i>> # Machine!Exit
      BY PlaceIs
    <3>3. Fits(<<g, i>>)
      BY <3>1, <3>2
    <3> QED
      BY <3>2, <3>3
  <2> QED
    BY <1>1, <2>1, <2>2
<1>3. Machine!Place(o[2]) = CHOOSE p \in Machine!Positions : Fits(p)
  BY DEF Machine!Place
<1> HIDE DEF Fits
<1> QED
  BY <1>2, <1>3

\* A jump leads to an instruction of its function.
LEMMA TargetIs ==
  ASSUME program \in Programs, NEW f \in DOMAIN program, NEW l, Machine!IsTarget(program, f, l)
  PROVE  \E i \in DOMAIN program[f].code : Machine!Place(l) = <<f, i>>
<1> DEFINE Fits(p) == /\ p # Machine!Exit
                      /\ \/ p[2] = 0 /\ program[p[1]].name = l
                         \/ /\ p[2] \in DOMAIN program[p[1]].code
                            /\ program[p[1]].code[p[2]].op = "label"
                            /\ program[p[1]].code[p[2]].to = <<l>>
<1>1. PICK i \in DOMAIN program[f].code :
        program[f].code[i].op = "label" /\ program[f].code[i].to = <<l>>
  BY DEF Machine!IsTarget, Machine!Labelled
<1>2. <<f, i>> \in Machine!Positions /\ <<f, i>> # Machine!Exit
  BY PlaceIs
<1>3. Fits(<<f, i>>)
  BY <1>1, <1>2
<1>4. Machine!Place(l) = CHOOSE p \in Machine!Positions : Fits(p)
  BY DEF Machine!Place
<1>5. \A p \in Machine!Positions : Fits(p) => \E j \in DOMAIN program[f].code : p = <<f, j>>
  <2> SUFFICES ASSUME NEW p \in Machine!Positions, Fits(p)
               PROVE  \E j \in DOMAIN program[f].code : p = <<f, j>>
    OBVIOUS
  <2>1. PICK g \in DOMAIN program, j \in 0..20 : p = <<g, j>>
    BY PositionsAre DEF Machine!Exit
  <2>2. program[g].name # l
    BY DEF Machine!IsTarget
  <2>3. /\ j \in DOMAIN program[g].code
        /\ program[g].code[j].op = "label" /\ program[g].code[j].to = <<l>>
    BY <2>1, <2>2
  <2>4. Machine!Labelled(program[g], l) # {}
    BY <2>3 DEF Machine!Labelled
  <2>5. g = f
    BY <2>4 DEF Machine!IsTarget
  <2> QED
    BY <2>1, <2>3, <2>5
<1> HIDE DEF Fits
<1>6. Fits(Machine!Place(l)) /\ Machine!Place(l) \in Machine!Positions
  BY <1>2, <1>3, <1>4
<1> QED
  BY <1>5, <1>6

-----------------------------------------------------------------------------
(***************************************************************************)
(* Values.                                                                 *)
(***************************************************************************)
\* The words of the stack.
LEMMA WordIs ==
  /\ Machine!Words \subseteq Nat
  /\ \A r \in 8..StackTop : r % 8 = 0 => r - 8 \in Machine!Words
<1>1. ASSUME NEW r \in 8..StackTop, r % 8 = 0
      PROVE  r - 8 \in Machine!Words
  <2> DEFINE m == (r \div 8) - 1
  <2>1. r \in Nat /\ StackTop \in Nat /\ r <= StackTop /\ r >= 8
    BY StackAssumption
  <2>2. m \in 0..((StackTop \div 8) - 1) /\ 8 * m = r - 8
    BY <1>1, <2>1
  <2> QED
    BY <2>2 DEF Machine!Words
<1>2. \A m \in 0..((StackTop \div 8) - 1) : 8 * m \in Nat
  BY StackAssumption
<1> QED
  BY <1>1, <1>2 DEF Machine!Words

LEMMA ApplyIs ==
  ASSUME Integral, NEW by, NEW v \in Int, NEW w \in Int,
         by \in {"+=", "-=", "*=", "&="} \/ (by \in {"<<=", ">>="} /\ w \in 0..63)
  PROVE  Machine!Apply(by, v, w) \in Int
<1>1. CASE by = "+="
  <2>1. Machine!Apply(by, v, w) = v + w
    BY <1>1, Zenon DEF Machine!Apply
  <2> QED
    BY <2>1
<1>2. CASE by = "-="
  <2>1. Machine!Apply(by, v, w) = v - w
    BY <1>2, Zenon DEF Machine!Apply
  <2> QED
    BY <2>1
<1>3. CASE by = "*="
  <2>1. Machine!Apply(by, v, w) = v * w
    BY <1>3, Zenon DEF Machine!Apply
  <2> QED
    BY <2>1
<1>4. CASE by = "&="
  <2>1. Machine!Apply(by, v, w) = BitAnd(v, w)
    BY <1>4, Zenon DEF Machine!Apply
  <2> QED
    BY <2>1 DEF Integral
<1>5. CASE by = "<<=" /\ w \in 0..63
  <2>1. Machine!Apply(by, v, w) = v * 2^w
    BY <1>5, Zenon DEF Machine!Apply
  <2> QED
    BY <1>5, <2>1 DEF Integral
<1>6. CASE by = ">>=" /\ w \in 0..63
  <2>1. Machine!Apply(by, v, w) = v \div 2^w
    BY <1>6, Zenon DEF Machine!Apply
  <2>2. \A n \in Nat : n > 0 => v \div n \in Int
    OBVIOUS
  <2> QED
    BY <1>6, <2>1, <2>2 DEF Integral
<1> QED
  BY <1>1, <1>2, <1>3, <1>4, <1>5, <1>6

LEMMA ValueIs ==
  ASSUME program \in Programs, last.regs \in [Machine!Registers -> Int], NEW o,
         Machine!IsRegister(o) \/ Machine!IsNumber(o) \/ Machine!IsLabel(program, o)
  PROVE  Machine!Value(o) \in Int
<1>1. CASE Machine!IsRegister(o)
  <2>1. o[1] = "reg" /\ o[2] \in Machine!Registers
    BY <1>1 DEF Machine!IsRegister
  <2>2. Machine!Value(o) = last.regs[o[2]]
    BY <2>1, Zenon DEF Machine!Value
  <2> QED
    BY <2>1, <2>2
<1>2. CASE Machine!IsNumber(o)
  <2>1. o[1] = "num" /\ o[2] \in Int
    BY <1>2 DEF Machine!IsNumber
  <2>2. Machine!Value(o) = o[2]
    BY <2>1, Zenon DEF Machine!Value
  <2> QED
    BY <2>1, <2>2
<1>3. CASE Machine!IsLabel(program, o)
  <2>1. o[1] = "label"
    BY <1>3 DEF Machine!IsLabel
  <2>2. Machine!Value(o) = Machine!Address(Machine!Place(o[2]))
    BY <2>1, Zenon DEF Machine!Value
  <2> QED
    BY <1>3, <2>2, LabelIs, AddressIs
<1> QED
  BY <1>1, <1>2, <1>3

\* The operand of an x86 instruction is that of the L1 instruction.
LEMMA OperandIs ==
  ASSUME regs = last.regs, NEW o, o[1] \in {"reg", "num", "label"}
  PROVE  Read(wrap_arg(o)) = Machine!Value(o)
<1>1. CASE o[1] = "reg"
  <2>1. wrap_arg(o) = <<"%", o[2]>> /\ Machine!Value(o) = last.regs[o[2]]
    BY <1>1, Zenon DEF wrap_arg, Reg, Machine!Value
  <2>2. Read(<<"%", o[2]>>) = regs[o[2]]
    BY DEF Read
  <2> QED
    BY <2>1, <2>2
<1>2. CASE o[1] = "num"
  <2>1. wrap_arg(o) = <<"$", o[2]>> /\ Machine!Value(o) = o[2]
    BY <1>2, Zenon DEF wrap_arg, Imm, Machine!Value
  <2>2. Read(<<"$", o[2]>>) = o[2]
    BY DEF Read
  <2> QED
    BY <2>1, <2>2
<1>3. CASE o[1] = "label"
  <2>1. wrap_arg(o) = <<"$_", o[2]>> /\ Machine!Value(o) = Machine!Address(Machine!Place(o[2]))
    BY <1>3, Zenon DEF wrap_arg, Code, Machine!Value
  <2>2. Read(<<"$_", o[2]>>) = Machine!Address(Machine!Place(o[2]))
    BY DEF Read
  <2> QED
    BY <2>1, <2>2
<1> QED
  BY <1>1, <1>2, <1>3

-----------------------------------------------------------------------------
(***************************************************************************)
(* The L1 program runs inside its code and its stack.                      *)
(***************************************************************************)
LEMMA InsIs ==
  ASSUME LastInv, last.at # Machine!Exit
  PROVE  \E f \in DOMAIN program : \E i \in DOMAIN program[f].code :
           /\ last.at = <<f, i>> /\ f = last.calls[Len(last.calls)].of
           /\ Machine!Ins = program[f].code[i]
           /\ Machine!IsInstruction(program, f, Machine!Ins)
           /\ Machine!Ins.op \notin {"goto", "cjump", "call", "return"} =>
                i + 1 \in DOMAIN program[f].code
<1> DEFINE n == Len(last.calls)
           f == last.calls[n].of
<1>1. Inside(program, last.at, last.calls, last.regs["rsp"]) /\ CallsInv(program, last.calls) /\ program \in Programs
  BY DEF LastInv
<1>2. n \in DOMAIN last.calls /\ f \in DOMAIN program
  <2>1. n \in Nat /\ n > 0 /\ DOMAIN last.calls = 1..n
    BY <1>1 DEF Inside, CallsInv
  <2>2. n \in DOMAIN last.calls
    BY <2>1
  <2> QED
    BY <1>1, <2>2 DEF CallsInv
<1>3. PICK i \in DOMAIN program[f].code : last.at = <<f, i>>
  BY <1>1 DEF Inside
<1>4. Machine!Ins = program[f].code[i]
  BY <1>3 DEF Machine!Ins
<1>5. Machine!IsInstruction(program, f, Machine!Ins)
  BY <1>1, <1>2, <1>4, CodeIs
<1>6. Machine!Ins.op \notin {"goto", "cjump", "call", "return"} => i + 1 \in DOMAIN program[f].code
  <2>1. /\ Len(program[f].code) \in 1..20 /\ i \in 1..Len(program[f].code)
        /\ DOMAIN program[f].code = 1..Len(program[f].code)
        /\ program[f].code[Len(program[f].code)].op \in {"goto", "cjump", "call", "return"}
    BY <1>1, <1>2, CodeIs
  <2>2. Machine!Ins.op \notin {"goto", "cjump", "call", "return"} => i # Len(program[f].code)
    BY <1>4, <2>1
  <2> QED
    BY <2>1, <2>2
<1> QED
  BY <1>2, <1>3, <1>4, <1>5, <1>6

LEMMA CellIs ==
  ASSUME LastInv, Machine!WellBehaved, last.at # Machine!Exit,
         Machine!Ins.op \in {"load", "store", "maop", "maop2"}
  PROVE  /\ Machine!Cell \in Machine!Words /\ Machine!Cell \in Int
         /\ last.mem[Machine!Cell] \in Int
<1>1. Machine!Cell \in Machine!Words
  BY DEF Machine!WellBehaved
<1>2. Machine!Words \subseteq Int
  BY StackAssumption DEF Machine!Words
<1> QED
  BY <1>1, <1>2 DEF LastInv

LEMMA ResultIs ==
  ASSUME Integral, LastInv, Machine!WellBehaved, last.at # Machine!Exit,
         Machine!Ins.op \in {"assign", "load", "aop", "maop2", "shift", "cmp", "lea"}
  PROVE  Machine!Result \in Int /\ Machine!Ins.w \in Machine!Registers \ {"rsp"}
<1> DEFINE ins == Machine!Ins
<1>1. PICK f \in DOMAIN program : Machine!IsInstruction(program, f, ins)
  BY InsIs
<1>2. program \in Programs /\ last.regs \in [Machine!Registers -> Int]
  BY DEF LastInv
<1>3. ins.w \in Machine!Registers \ {"rsp"}
  BY <1>1 DEF Machine!IsInstruction
<1>4. last.regs[ins.w] \in Int
  BY <1>2, <1>3
<1>5. CASE ins.op = "assign"
  <2>1. Machine!Result = Machine!Value(ins.s)
    BY <1>5, Zenon DEF Machine!Result
  <2>2. Machine!IsRegister(ins.s) \/ Machine!IsNumber(ins.s) \/ Machine!IsLabel(program, ins.s)
    BY <1>1, <1>5 DEF Machine!IsInstruction
  <2> QED
    BY <1>2, <1>3, <2>1, <2>2, ValueIs
<1>6. CASE ins.op = "load"
  <2>1. Machine!Result = last.mem[Machine!Cell]
    BY <1>6, Zenon DEF Machine!Result
  <2> QED
    BY <1>3, <1>6, <2>1, CellIs
<1>7. CASE ins.op = "maop2"
  <2>1. Machine!Result = Machine!Apply(ins.by, last.regs[ins.w], last.mem[Machine!Cell])
    BY <1>7, Zenon DEF Machine!Result
  <2>2. ins.by \in {"+=", "-="}
    BY <1>1, <1>7 DEF Machine!IsInstruction
  <2> QED
    BY <1>3, <1>4, <1>7, <2>1, <2>2, CellIs, ApplyIs
<1>8. CASE ins.op = "aop"
  <2>1. Machine!Result = Machine!Apply(ins.by, last.regs[ins.w], Machine!Value(ins.s))
    BY <1>8, Zenon DEF Machine!Result
  <2>2. /\ ins.by \in {"+=", "-=", "*=", "&="}
        /\ Machine!IsRegister(ins.s) \/ Machine!IsNumber(ins.s)
    BY <1>1, <1>8 DEF Machine!IsInstruction, Machine!IsImmediate
  <2>3. Machine!Value(ins.s) \in Int
    BY <1>2, <2>2, ValueIs
  <2> QED
    BY <1>3, <1>4, <2>1, <2>2, <2>3, ApplyIs
<1>9. CASE ins.op = "shift"
  <2>1. Machine!Result = Machine!Apply(ins.by, last.regs[ins.w], Machine!Value(ins.s))
    BY <1>9, Zenon DEF Machine!Result
  <2>2. ins.by \in {"<<=", ">>="}
    BY <1>1, <1>9 DEF Machine!IsInstruction
  <2>3. Machine!Value(ins.s) \in 0..63
    BY <1>9 DEF Machine!WellBehaved
  <2> QED
    BY <1>3, <1>4, <2>1, <2>2, <2>3, ApplyIs
<1>10. CASE ins.op = "cmp"
  <2>1. Machine!Result \in {0, 1}
    BY <1>10, Zenon DEF Machine!Result
  <2> QED
    BY <1>3, <2>1
<1>11. CASE ins.op = "lea"
  <2>1. Machine!Result = Machine!Value(ins.s) + ins.n * Machine!Value(ins.t)
    BY <1>11, Zenon DEF Machine!Result
  <2>2. Machine!IsRegister(ins.s) /\ Machine!IsRegister(ins.t) /\ ins.n \in Int
    BY <1>1, <1>11 DEF Machine!IsInstruction
  <2>3. Machine!Value(ins.s) \in Int /\ Machine!Value(ins.t) \in Int
    BY <1>2, <2>2, ValueIs
  <2> QED
    BY <1>3, <2>1, <2>2, <2>3
<1> QED
  BY <1>5, <1>6, <1>7, <1>8, <1>9, <1>10, <1>11

\* The activation that runs.
Top == last.calls[Len(last.calls)]

LEMMA TopIs ==
  ASSUME LastInv, last.at # Machine!Exit
  PROVE  /\ Len(last.calls) \in DOMAIN last.calls /\ Len(last.calls) \in Nat
         /\ DOMAIN last.calls = 1..Len(last.calls)
         /\ Top.of \in DOMAIN program
         /\ Top.rsp \in 8..StackTop /\ Top.rsp % 8 = 0 /\ Body(program, Top) >= 0
         /\ \A c \in DOMAIN last.calls : last.calls[c].rsp >= Top.rsp
         /\ last.regs["rsp"] = Body(program, Top)
         /\ \E i \in DOMAIN program[Top.of].code : last.at = <<Top.of, i>>
<1>1. Inside(program, last.at, last.calls, last.regs["rsp"]) /\ CallsInv(program, last.calls)
  BY DEF LastInv
<1>2. Len(last.calls) \in Nat /\ Len(last.calls) > 0 /\ DOMAIN last.calls = 1..Len(last.calls)
  BY <1>1 DEF Inside, CallsInv
<1>3. Len(last.calls) \in DOMAIN last.calls /\ \A c \in DOMAIN last.calls : c <= Len(last.calls)
  BY <1>2
<1>4. \A c \in DOMAIN last.calls : Top.rsp <= last.calls[c].rsp /\ last.calls[c].rsp \in 8..StackTop
  BY <1>1, <1>3 DEF CallsInv, Top
<1>5. \A c \in DOMAIN last.calls : last.calls[c].rsp >= Top.rsp
  BY <1>3, <1>4, StackAssumption DEF Top
<1> QED
  BY <1>1, <1>2, <1>3, <1>5 DEF CallsInv, Inside, Top

\* Where the body of an activation has its stack pointer: below the return
\* address, a whole number of words below the top.
LEMMA BodyIs ==
  ASSUME program \in Programs, NEW c, c.of \in DOMAIN program, c.rsp \in Nat, c.rsp % 8 = 0
  PROVE  /\ Body(program, c) \in Int /\ Body(program, c) % 8 = 0 /\ Body(program, c) <= c.rsp - 8
         /\ Machine!StackArguments(program[c.of].arguments) \in Nat
         /\ program[c.of].locals \in Nat
<1> DEFINE m == Machine!StackArguments(program[c.of].arguments)
           k == program[c.of].locals
<1>1. m \in Nat /\ k \in Nat
  BY CodeIs DEF Machine!StackArguments
<1>2. Body(program, c) = c.rsp - 8 - 8 * m - 8 * k
  BY DEF Body
<1> HIDE DEF m, k
<1>3. ASSUME NEW r \in Nat, r % 8 = 0
      PROVE  r - 8 - 8 * m - 8 * k \in Int /\ (r - 8 - 8 * m - 8 * k) % 8 = 0
             /\ r - 8 - 8 * m - 8 * k <= r - 8
  BY <1>1, <1>3
<1> QED
  BY <1>1, <1>2, <1>3 DEF m, k

\* A step of an activation that leaves its callers' part of the stack alone.
LEMMA StaysInside ==
  ASSUME LastInv, last.at # Machine!Exit, program' = program, last'.calls = last.calls,
         last'.regs \in [Machine!Registers -> Int], last'.regs["rsp"] = last.regs["rsp"],
         last'.mem \in [Machine!Words -> Int],
         \A a \in Machine!Words : a >= Top.rsp - 8 => last'.mem[a] = last.mem[a],
         \E j \in DOMAIN program[Top.of].code : last'.at = <<Top.of, j>>
  PROVE  LastInv'
<1>1. program' \in Programs
  BY DEF LastInv
<1>2. CallsInv(program', last'.calls)
  BY DEF LastInv
<1>3. ReturnsInv(last'.calls, last'.mem)
  <2> SUFFICES ASSUME NEW c \in DOMAIN last.calls
               PROVE  last'.mem[last.calls[c].rsp - 8] = Machine!Address(last.calls[c].to)
    BY DEF ReturnsInv
  <2>1. last.mem[last.calls[c].rsp - 8] = Machine!Address(last.calls[c].to)
    BY DEF LastInv, ReturnsInv
  <2>2. /\ last.calls[c].rsp \in 8..StackTop /\ last.calls[c].rsp % 8 = 0
        /\ last.calls[c].rsp >= Top.rsp /\ Top.rsp \in 8..StackTop
    BY TopIs DEF LastInv, CallsInv
  <2>3. last.calls[c].rsp - 8 \in Machine!Words /\ last.calls[c].rsp - 8 >= Top.rsp - 8
    BY <2>2, WordIs, StackAssumption
  <2> QED
    BY <2>1, <2>3
<1>4. Inside(program', last'.at, last'.calls, last'.regs["rsp"])
  <2>1. Len(last.calls) > 0 /\ last.regs["rsp"] = Body(program, Top)
    BY DEF LastInv, Inside, Top
  <2> QED
    BY <2>1 DEF Inside, Top
<1> QED
  BY <1>1, <1>2, <1>3, <1>4 DEF LastInv

LEMMA FollowIs ==
  ASSUME LastInv, last.at # Machine!Exit,
         Machine!Ins.op \notin {"goto", "cjump", "call", "return"}
  PROVE  \E j \in DOMAIN program[Top.of].code : Machine!Follow = <<Top.of, j>>
<1>1. PICK f \in DOMAIN program : \E i \in DOMAIN program[f].code :
        /\ last.at = <<f, i>> /\ f = Top.of
        /\ i + 1 \in DOMAIN program[f].code
  BY InsIs DEF Top
<1>2. PICK i \in DOMAIN program[f].code : last.at = <<f, i>> /\ i + 1 \in DOMAIN program[f].code
  BY <1>1
<1>3. Machine!Follow = <<f, i + 1>>
  BY <1>2 DEF Machine!Follow
<1> QED
  BY <1>1, <1>2, <1>3

LEMMA ComputeKeeps ==
  ASSUME Integral, LastInv, Machine!WellBehaved, last.at # Machine!Exit,
         program' = program, Machine!Compute
  PROVE  LastInv'
<1>1. /\ last'.regs = [last.regs EXCEPT ![Machine!Ins.w] = Machine!Result]
      /\ last'.at = Machine!Follow /\ last'.mem = last.mem /\ last'.calls = last.calls
      /\ Machine!Ins.op \in {"assign", "load", "aop", "maop2", "shift", "cmp", "lea"}
  BY DEF Machine!Compute
<1>2. Machine!Result \in Int /\ Machine!Ins.w \in Machine!Registers \ {"rsp"}
  BY <1>1, ResultIs
<1>3. last.regs \in [Machine!Registers -> Int] /\ last.mem \in [Machine!Words -> Int]
  BY DEF LastInv
<1>4. "rsp" \in Machine!Registers
  BY DEF Machine!Registers
<1>5. last'.regs \in [Machine!Registers -> Int] /\ last'.regs["rsp"] = last.regs["rsp"]
  BY <1>1, <1>2, <1>3, <1>4
<1>6. \E j \in DOMAIN program[Top.of].code : Machine!Follow = <<Top.of, j>>
  BY <1>1, FollowIs
<1> QED
  BY <1>1, <1>3, <1>5, <1>6, StaysInside

LEMMA WriteKeeps ==
  ASSUME Integral, LastInv, Machine!WellBehaved, last.at # Machine!Exit,
         program' = program, Machine!Write
  PROVE  LastInv'
<1> DEFINE ins == Machine!Ins
           cell == Machine!Cell
           v == IF ins.op = "store" THEN Machine!Value(ins.s)
                ELSE Machine!Apply(ins.by, last.mem[cell], Machine!Value(ins.s))
<1>1. /\ last'.mem = [last.mem EXCEPT ![cell] = v]
      /\ last'.at = Machine!Follow /\ last'.regs = last.regs /\ last'.calls = last.calls
      /\ ins.op \in {"store", "maop"}
  BY DEF Machine!Write
<1>2. last.regs \in [Machine!Registers -> Int] /\ last.mem \in [Machine!Words -> Int]
      /\ program \in Programs
  BY DEF LastInv
<1>3. cell \in Machine!Words /\ cell \in Int /\ last.mem[cell] \in Int /\ cell < Top.rsp - 8
  <2>1. cell < Top.rsp - 8
    BY <1>1 DEF Machine!WellBehaved, Machine!Last, Top
  <2> QED
    BY <1>1, <2>1, CellIs
<1>4. PICK f \in DOMAIN program : Machine!IsInstruction(program, f, ins)
  BY InsIs
<1>5. v \in Int
  <2>1. /\ Machine!IsRegister(ins.s) \/ Machine!IsNumber(ins.s) \/ Machine!IsLabel(program, ins.s)
        /\ ins.op = "maop" => ins.by \in {"+=", "-="}
    BY <1>1, <1>4 DEF Machine!IsInstruction, Machine!IsImmediate
  <2>2. Machine!Value(ins.s) \in Int
    BY <1>2, <2>1, ValueIs
  <2>3. ins.op = "maop" => Machine!Apply(ins.by, last.mem[cell], Machine!Value(ins.s)) \in Int
    BY <1>3, <2>1, <2>2, ApplyIs
  <2> QED
    BY <1>1, <2>2, <2>3
<1>6. \E j \in DOMAIN program[Top.of].code : Machine!Follow = <<Top.of, j>>
  BY <1>1, FollowIs
<1> HIDE DEF cell, v
<1>7. last'.mem \in [Machine!Words -> Int]
  BY <1>1, <1>2, <1>5
<1>8. \A a \in Machine!Words : a >= Top.rsp - 8 => last'.mem[a] = last.mem[a]
  <2>1. Top.rsp \in Int /\ Machine!Words \subseteq Nat
    BY TopIs, WordIs, StackAssumption
  <2>2. \A a \in Machine!Words : a >= Top.rsp - 8 => a # cell
    BY <1>3, <2>1
  <2> QED
    BY <1>1, <1>2, <2>2
<1> QED
  BY <1>1, <1>2, <1>6, <1>7, <1>8, StaysInside

LEMMA JumpKeeps ==
  ASSUME LastInv, last.at # Machine!Exit, program' = program, Machine!Jump
  PROVE  LastInv'
<1> DEFINE ins == Machine!Ins
<1>1. /\ last'.regs = last.regs /\ last'.mem = last.mem /\ last'.calls = last.calls
      /\ ins.op \in {"label", "goto", "cjump"}
  BY DEF Machine!Jump
<1>2. PICK f \in DOMAIN program : f = Top.of /\ Machine!IsInstruction(program, f, ins)
  BY InsIs DEF Top
<1>3. program \in Programs
  BY DEF LastInv
<1>4. \E j \in DOMAIN program[f].code : last'.at = <<f, j>>
  <2>1. CASE ins.op = "label"
    <3>1. last'.at = Machine!Follow
      BY <2>1, Zenon DEF Machine!Jump
    <3> QED
      BY <1>2, <2>1, <3>1, FollowIs
  <2>2. CASE ins.op = "goto"
    <3>1. last'.at = Machine!Place(ins.to[1])
      BY <2>2, Zenon DEF Machine!Jump
    <3>2. Machine!IsTarget(program, f, ins.to[1])
      BY <1>2, <2>2 DEF Machine!IsInstruction
    <3> QED
      BY <1>3, <3>1, <3>2, TargetIs
  <2>3. CASE ins.op = "cjump"
    <3>1. last'.at = Machine!Place(ins.to[1]) \/ last'.at = Machine!Place(ins.to[2])
      BY <2>3, Zenon DEF Machine!Jump
    <3>2. Machine!IsTarget(program, f, ins.to[1]) /\ Machine!IsTarget(program, f, ins.to[2])
      BY <1>2, <2>3 DEF Machine!IsInstruction
    <3> QED
      BY <1>3, <3>1, <3>2, TargetIs
  <2> QED
    BY <1>1, <2>1, <2>2, <2>3
<1>5. last.regs \in [Machine!Registers -> Int] /\ last.mem \in [Machine!Words -> Int]
  BY DEF LastInv
<1> QED
  BY <1>1, <1>2, <1>4, <1>5, StaysInside

LEMMA RuntimeKeeps ==
  ASSUME LastInv, last.at # Machine!Exit, program' = program, Machine!Runtime
  PROVE  LastInv'
<1>1. /\ last'.regs = [r \in DOMAIN last.regs |->
                         IF r \in Machine!CallerSave THEN Machine!Junk ELSE last.regs[r]]
      /\ last'.mem = [a \in DOMAIN last.mem |->
                        IF a < last.regs["rsp"] THEN Machine!Junk ELSE last.mem[a]]
      /\ last'.at = Machine!Follow /\ last'.calls = last.calls
      /\ Machine!Ins.op = "runtime"
  BY DEF Machine!Runtime
<1>2. last.regs \in [Machine!Registers -> Int] /\ last.mem \in [Machine!Words -> Int]
      /\ program \in Programs
  BY DEF LastInv
<1>3. Machine!Junk \in Int /\ "rsp" \in Machine!Registers /\ "rsp" \notin Machine!CallerSave
  BY DEF Machine!Junk, Machine!Registers, Machine!CallerSave
<1>4. /\ last'.regs \in [Machine!Registers -> Int] /\ last'.regs["rsp"] = last.regs["rsp"]
      /\ last'.mem \in [Machine!Words -> Int]
  BY <1>1, <1>2, <1>3
<1>5. \A a \in Machine!Words : a >= Top.rsp - 8 => last'.mem[a] = last.mem[a]
  <2>1. Top.rsp \in Nat /\ last.regs["rsp"] \in Int /\ last.regs["rsp"] <= Top.rsp - 8
    BY <1>2, TopIs, BodyIs, StackAssumption
  <2>2. ASSUME NEW a \in Machine!Words, a >= Top.rsp - 8 PROVE ~(a < last.regs["rsp"])
    <3>1. a \in Nat
      BY WordIs
    <3> QED
      BY <2>1, <2>2, <3>1
  <2> QED
    BY <1>1, <1>2, <2>2
<1>6. \E j \in DOMAIN program[Top.of].code : Machine!Follow = <<Top.of, j>>
  BY <1>1, FollowIs
<1> QED
  BY <1>1, <1>4, <1>5, <1>6, StaysInside

\* A call of function g adds an activation below the one that runs.
LEMMA CalledInv ==
  ASSUME LastInv, last.at # Machine!Exit, NEW g \in DOMAIN program,
         NEW i \in DOMAIN program[Top.of].code, NEW new,
         new = [of |-> g, to |-> <<Top.of, i>>, rsp |-> last.regs["rsp"]],
         Body(program, new) >= 0,
         last.mem[last.regs["rsp"] - 8] = Machine!Address(<<Top.of, i>>)
  PROVE  /\ CallsInv(program, Append(last.calls, new))
         /\ ReturnsInv(Append(last.calls, new), last.mem)
<1> DEFINE cs == last.calls
           n == Len(cs)
           ds == Append(cs, new)
<1>1. program \in Programs /\ CallsInv(program, cs) /\ ReturnsInv(cs, last.mem)
  BY DEF LastInv
<1>2. /\ n \in DOMAIN cs /\ n \in Nat /\ DOMAIN cs = 1..n /\ cs[n] = Top
      /\ Top.of \in DOMAIN program
      /\ Top.rsp \in Nat /\ Top.rsp % 8 = 0
      /\ \A c \in DOMAIN cs : cs[c].rsp >= Top.rsp /\ cs[c].rsp \in Nat
      /\ new.rsp = Body(program, Top) /\ new.of = g /\ new.to = <<Top.of, i>>
  BY TopIs, <1>1, StackAssumption DEF CallsInv, Top
<1>3. new.rsp \in Int /\ new.rsp % 8 = 0 /\ new.rsp <= Top.rsp - 8
  BY <1>1, <1>2, BodyIs
<1>4. new.rsp >= 8
  <2>1. Body(program, new) = new.rsp - 8 - 8 * Machine!StackArguments(program[g].arguments)
                               - 8 * program[g].locals
    BY <1>2 DEF Body
  <2>2. Machine!StackArguments(program[g].arguments) \in Nat /\ program[g].locals \in Nat
    BY <1>1, CodeIs DEF Machine!StackArguments
  <2> QED
    BY <1>3, <2>1, <2>2
<1>5. new.rsp \in 8..StackTop
  BY <1>2, <1>3, <1>4, TopIs, StackAssumption
<1>6. /\ g \in Nat /\ Top.of \in Nat /\ Top.of # 0 /\ i \in Nat
  BY <1>1, <1>2, CodeIs
<1>7. new \in Activations
  BY <1>2, <1>5, <1>6 DEF Activations
<1>8. cs \in Seq(Activations)
  BY <1>1 DEF CallsInv
<1>9. /\ ds \in Seq(Activations) /\ DOMAIN ds = 1..(n + 1) /\ ds[n + 1] = new
      /\ \A c \in 1..n : ds[c] = cs[c]
  BY <1>7, <1>8, AppendProperties
<1>10. new.to # Machine!Exit
  BY <1>2, <1>6 DEF Machine!Exit
<1> HIDE DEF cs, n, ds
<1>11. ASSUME NEW c \in DOMAIN ds
       PROVE  /\ ds[c].of \in DOMAIN program
              /\ ds[c].rsp \in 8..StackTop /\ ds[c].rsp % 8 = 0 /\ Body(program, ds[c]) >= 0
              /\ ds[c].to = Machine!Exit
                   \/ \E j \in DOMAIN program[ds[c - 1].of].code : ds[c].to = <<ds[c - 1].of, j>>
              /\ c = 1 <=> ds[c].to = Machine!Exit
              /\ c = 1 => ds[c].rsp = StackTop
              /\ c > 1 => ds[c].rsp = Body(program, ds[c - 1])
              /\ \A d \in DOMAIN ds : c <= d => ds[d].rsp <= ds[c].rsp
  <2>1. CASE c \in 1..n
    <3>1. c \in DOMAIN cs /\ ds[c] = cs[c] /\ (c > 1 => ds[c - 1] = cs[c - 1])
      BY <1>2, <1>9, <2>1
    <3>2. ASSUME NEW d \in DOMAIN ds, c <= d PROVE ds[d].rsp <= ds[c].rsp
      <4>1. CASE d \in 1..n
        BY <1>1, <1>2, <1>9, <3>1, <3>2, <4>1 DEF CallsInv
      <4>2. CASE d = n + 1
        <5>1. ds[d].rsp = new.rsp /\ cs[c].rsp >= Top.rsp /\ cs[c].rsp \in Nat
          BY <1>2, <1>9, <3>1, <4>2
        <5> QED
          BY <1>2, <1>3, <3>1, <5>1
      <4> QED
        BY <1>2, <1>9, <4>1, <4>2
    <3>3. /\ cs[c].of \in DOMAIN program
          /\ cs[c].rsp \in 8..StackTop /\ cs[c].rsp % 8 = 0 /\ Body(program, cs[c]) >= 0
          /\ cs[c].to = Machine!Exit
               \/ \E j \in DOMAIN program[cs[c - 1].of].code : cs[c].to = <<cs[c - 1].of, j>>
          /\ c = 1 <=> cs[c].to = Machine!Exit
          /\ c = 1 => cs[c].rsp = StackTop
          /\ c > 1 => cs[c].rsp = Body(program, cs[c - 1])
      BY <1>1, <3>1 DEF CallsInv
    <3>4. c = 1 \/ c > 1
      BY <2>1, <1>2
    <3> QED
      BY <3>1, <3>2, <3>3, <3>4
  <2>2. CASE c = n + 1
    <3>1. ds[c] = new /\ ds[c - 1] = Top /\ c > 1 /\ c # 1
      BY <1>2, <1>9, <2>2
    <3>2. ASSUME NEW d \in DOMAIN ds, c <= d PROVE ds[d].rsp <= ds[c].rsp
      <4>1. d = c
        BY <1>2, <1>9, <2>2, <3>2
      <4> QED
        BY <1>3, <3>1, <4>1
    <3> QED
      BY <1>2, <1>3, <1>5, <1>10, <3>1, <3>2
  <2> QED
    BY <1>2, <1>9, <2>1, <2>2
<1>12. CallsInv(program, ds)
  BY <1>9, <1>11 DEF CallsInv
<1>13. ReturnsInv(ds, last.mem)
  <2> SUFFICES ASSUME NEW c \in DOMAIN ds
               PROVE  last.mem[ds[c].rsp - 8] = Machine!Address(ds[c].to)
    BY DEF ReturnsInv
  <2>1. CASE c \in 1..n
    BY <1>1, <1>2, <1>9, <2>1 DEF ReturnsInv
  <2>2. CASE c = n + 1
    <3>1. ds[c] = new
      BY <1>9, <2>2
    <3>2. new.rsp = last.regs["rsp"] /\ new.to = <<Top.of, i>>
      OBVIOUS
    <3> QED
      BY <3>1, <3>2
  <2> QED
    BY <1>2, <1>9, <2>1, <2>2
<1> QED
  BY <1>12, <1>13 DEF ds, cs

\* What a call calls and where it returns to.
LEMMA CallIs ==
  ASSUME LastInv, Machine!WellBehaved, last.at # Machine!Exit, Machine!Ins.op = "call"
  PROVE  \E g \in DOMAIN program : \E i \in DOMAIN program[Top.of].code :
           /\ Machine!Value(Machine!Ins.s) = Machine!Address(<<g, 0>>)
           /\ Machine!Position(Machine!Value(Machine!Ins.s)) = <<g, 0>>
           /\ program[g].arguments = Machine!Ins.n
           /\ last.mem[last.regs["rsp"] - 8] = Machine!Address(<<Top.of, i>>)
           /\ Machine!Position(last.mem[last.regs["rsp"] - 8]) = <<Top.of, i>>
           /\ last.regs["rsp"] - 8 - 8 * Machine!StackArguments(Machine!Ins.n)
                - 8 * program[g].locals >= 0
<1>1. Machine!CallsProperly /\ program \in Programs
  BY DEF Machine!WellBehaved, LastInv
<1>2. last.at[1] = Top.of /\ Top.of \in DOMAIN program
  BY TopIs
<1>3. PICK i \in DOMAIN program[Top.of].code :
        last.mem[last.regs["rsp"] - 8] = Machine!Address(<<Top.of, i>>)
  BY <1>1, <1>2 DEF Machine!CallsProperly
<1>4. PICK g \in DOMAIN program :
        /\ Machine!Value(Machine!Ins.s) = Machine!Address(<<g, 0>>)
        /\ program[g].arguments = Machine!Ins.n
        /\ last.regs["rsp"] - 8 - 8 * Machine!StackArguments(Machine!Ins.n)
             - 8 * program[g].locals >= 0
  BY <1>1 DEF Machine!CallsProperly
<1>5. <<g, 0>> \in Machine!Positions /\ <<Top.of, i>> \in Machine!Positions
  BY <1>1, <1>2, PlaceIs
<1> QED
  BY <1>1, <1>3, <1>4, <1>5, AddressIs

LEMMA CallKeeps ==
  ASSUME LastInv, Machine!WellBehaved, last.at # Machine!Exit, program' = program, Machine!Call
  PROVE  LastInv'
<1> DEFINE ins == Machine!Ins
           rsp == last.regs["rsp"]
<1>1. ins.op = "call"
  BY DEF Machine!Call
<1>2. PICK g \in DOMAIN program : \E i \in DOMAIN program[Top.of].code :
        /\ Machine!Position(Machine!Value(ins.s)) = <<g, 0>>
        /\ program[g].arguments = ins.n
        /\ last.mem[rsp - 8] = Machine!Address(<<Top.of, i>>)
        /\ Machine!Position(last.mem[rsp - 8]) = <<Top.of, i>>
        /\ rsp - 8 - 8 * Machine!StackArguments(ins.n) - 8 * program[g].locals >= 0
  BY <1>1, CallIs
<1>3. PICK i \in DOMAIN program[Top.of].code :
        /\ last.mem[rsp - 8] = Machine!Address(<<Top.of, i>>)
        /\ Machine!Position(last.mem[rsp - 8]) = <<Top.of, i>>
  BY <1>2
<1> DEFINE new == [of |-> g, to |-> <<Top.of, i>>, rsp |-> rsp]
<1>4. /\ last'.regs = [last.regs EXCEPT !["rsp"] = Body(program, new)]
      /\ last'.at = <<g, 1>> /\ last'.mem = last.mem
      /\ last'.calls = Append(last.calls, new)
  <2>1. Machine!Position(Machine!Value(ins.s))[1] = g
    BY <1>2
  <2>2. /\ last'.regs = [last.regs EXCEPT !["rsp"] =
                           @ - 8 - 8 * Machine!StackArguments(ins.n) - 8 * program[g].locals]
        /\ last'.at = <<g, 1>> /\ last'.mem = last.mem
        /\ last'.calls = Append(last.calls,
             [of |-> g, to |-> Machine!Position(last.mem[rsp - 8]), rsp |-> rsp])
    BY <2>1, Zenon DEF Machine!Call
  <2>3. rsp - 8 - 8 * Machine!StackArguments(ins.n) - 8 * program[g].locals = Body(program, new)
    BY <1>2 DEF Body
  <2> QED
    BY <1>3, <2>2, <2>3
<1>5. Body(program, new) >= 0
  BY <1>2 DEF Body
<1>6. CallsInv(program, last'.calls) /\ ReturnsInv(last'.calls, last'.mem)
  BY <1>3, <1>4, <1>5, CalledInv
<1>7. /\ program \in Programs /\ last.regs \in [Machine!Registers -> Int]
      /\ last.mem \in [Machine!Words -> Int] /\ CallsInv(program, last.calls)
  BY DEF LastInv
<1>8. /\ Len(last'.calls) = Len(last.calls) + 1 /\ Len(last.calls) \in Nat
      /\ last'.calls[Len(last.calls) + 1] = new
  BY <1>4, <1>7 DEF CallsInv
<1>9. Body(program, new) \in Int
  <2>0. "rsp" \in Machine!Registers /\ ins.n \in Nat
    BY <1>2, <1>7, CodeIs DEF Machine!Registers
  <2>1. rsp \in Int /\ Machine!StackArguments(ins.n) \in Nat /\ program[g].locals \in Nat
    BY <1>2, <1>7, <2>0, CodeIs DEF Machine!StackArguments
  <2> QED
    BY <1>2, <2>1 DEF Body
<1>10. last'.regs \in [Machine!Registers -> Int] /\ last'.regs["rsp"] = Body(program, new)
  <2>1. "rsp" \in Machine!Registers
    BY DEF Machine!Registers
  <2> HIDE DEF new
  <2> QED
    BY <1>4, <1>7, <1>9, <2>1
<1>11. 1 \in DOMAIN program[g].code
  BY <1>7, CodeIs
<1> HIDE DEF new
<1>12. new.of = g
  BY DEF new
<1>13. Inside(program, last'.at, last'.calls, last'.regs["rsp"])
  BY <1>4, <1>8, <1>10, <1>11, <1>12 DEF Inside
<1> QED
  BY <1>4, <1>6, <1>7, <1>10, <1>13 DEF LastInv

LEMMA ReturnKeeps ==
  ASSUME LastInv, last.at # Machine!Exit, program' = program, Machine!Return
  PROVE  LastInv'
<1> DEFINE cs == last.calls
           n == Len(cs)
           ds == SubSeq(cs, 1, n - 1)
<1>1. /\ last'.regs = [last.regs EXCEPT !["rsp"] = Top.rsp]
      /\ last'.at = Top.to /\ last'.mem = last.mem /\ last'.calls = ds
  BY DEF Machine!Return, Machine!Last, Machine!Front, Top
<1>2. /\ program \in Programs /\ CallsInv(program, cs) /\ ReturnsInv(cs, last.mem)
      /\ last.regs \in [Machine!Registers -> Int] /\ last.mem \in [Machine!Words -> Int]
  BY DEF LastInv
<1>3. n \in DOMAIN cs /\ n \in Nat /\ DOMAIN cs = 1..n /\ cs[n] = Top /\ Top.rsp \in Int
  BY TopIs, StackAssumption DEF Top
<1>4. cs \in Seq(Activations)
  BY <1>2 DEF CallsInv
<1>5. /\ ds \in Seq(Activations) /\ Len(ds) = n - 1 /\ DOMAIN ds = 1..(n - 1)
      /\ \A c \in 1..(n - 1) : ds[c] = cs[c]
  BY <1>3, <1>4, SubSeqProperties
<1> HIDE DEF cs, n, ds
<1>6. CallsInv(program, ds)
  <2> SUFFICES ASSUME NEW c \in DOMAIN ds
               PROVE  /\ ds[c].of \in DOMAIN program
                      /\ ds[c].rsp \in 8..StackTop /\ ds[c].rsp % 8 = 0
                      /\ Body(program, ds[c]) >= 0
                      /\ ds[c].to = Machine!Exit
                           \/ \E i \in DOMAIN program[ds[c - 1].of].code :
                                ds[c].to = <<ds[c - 1].of, i>>
                      /\ c = 1 <=> ds[c].to = Machine!Exit
                      /\ c = 1 => ds[c].rsp = StackTop
                      /\ c > 1 => ds[c].rsp = Body(program, ds[c - 1])
                      /\ \A d \in DOMAIN ds : c <= d => ds[d].rsp <= ds[c].rsp
    BY <1>5 DEF CallsInv
  <2>1. c \in DOMAIN cs /\ ds[c] = cs[c] /\ (c > 1 => ds[c - 1] = cs[c - 1]) /\ (c = 1 \/ c > 1)
    BY <1>3, <1>5
  <2>2. \A d \in DOMAIN ds : d \in DOMAIN cs /\ ds[d] = cs[d]
    BY <1>3, <1>5
  <2> QED
    BY <1>2, <2>1, <2>2 DEF CallsInv
<1>7. ReturnsInv(ds, last.mem)
  <2>1. \A d \in DOMAIN ds : d \in DOMAIN cs /\ ds[d] = cs[d]
    BY <1>3, <1>5
  <2> QED
    BY <1>2, <2>1 DEF ReturnsInv
<1>8. last'.regs \in [Machine!Registers -> Int] /\ last'.regs["rsp"] = Top.rsp
  BY <1>1, <1>2, <1>3 DEF Machine!Registers
<1>9. CASE n = 1
  <2>1. Top.to = Machine!Exit /\ Top.rsp = StackTop
    BY <1>2, <1>3, <1>9 DEF CallsInv
  <2>2. ds = <<>>
    BY <1>5, <1>9
  <2> QED
    BY <1>1, <1>2, <1>6, <1>7, <1>8, <2>1, <2>2 DEF LastInv
<1>10. CASE n # 1
  <2>1. n > 1 /\ n - 1 \in 1..(n - 1)
    BY <1>3, <1>10
  <2>2. /\ Top.to # Machine!Exit /\ Top.rsp = Body(program, cs[n - 1])
        /\ Top.to = Machine!Exit
             \/ \E i \in DOMAIN program[cs[n - 1].of].code : Top.to = <<cs[n - 1].of, i>>
    BY <1>2, <1>3, <1>10, <2>1 DEF CallsInv
  <2>3. Inside(program, last'.at, ds, last'.regs["rsp"])
    BY <1>1, <1>5, <1>8, <2>1, <2>2 DEF Inside
  <2> QED
    BY <1>1, <1>2, <1>6, <1>7, <1>8, <2>3 DEF LastInv
<1> QED
  BY <1>9, <1>10

LEMMA MachineKeeps ==
  ASSUME Integral, LastInv, Machine!WellBehaved, Machine!Next
  PROVE  LastInv'
<1>1. last.at # Machine!Exit /\ program' = program
  BY DEF Machine!Next
<1> QED
  BY <1>1, ComputeKeeps, WriteKeeps, JumpKeeps, CallKeeps, ReturnKeeps, RuntimeKeeps
     DEF Machine!Next

-----------------------------------------------------------------------------
(***************************************************************************)
(* The x86 machine.                                                        *)
(***************************************************************************)
LEMMA ReadIs ==
  /\ \A r : Read(Reg(r)) = regs[r]
  /\ \A r : Read(Low(r)) = regs[r] % 256
  /\ \A n : Read(Imm(n)) = n
  /\ \A l : Read(Code(l)) = Machine!Address(Machine!Place(l))
  /\ \A r, off : Read(Mem(r, off)) = mem[regs[r] + off]
<1>1. \A r : Read(Reg(r)) = regs[r]
  BY DEF Read, Reg
<1>2. \A r : Read(Low(r)) = regs[r] % 256
  BY DEF Read, Low
<1>3. \A n : Read(Imm(n)) = n
  BY DEF Read, Imm
<1>4. \A l : Read(Code(l)) = Machine!Address(Machine!Place(l))
  BY DEF Read, Code
<1>5. \A r, off : Read(Mem(r, off)) = mem[regs[r] + off]
  BY DEF Read, Mem
<1> QED
  BY <1>1, <1>2, <1>3, <1>4, <1>5

LEMMA PutIs ==
  /\ \A r, v : Put(Reg(r), v) => regs' = [regs EXCEPT ![r] = v] /\ mem' = mem
  /\ \A r, v : Put(Low(r), v) =>
       regs' = [regs EXCEPT ![r] = 256 * (@ \div 256) + v] /\ mem' = mem
  /\ \A r, off, v : Put(Mem(r, off), v) =>
       regs' = regs /\ mem' = [mem EXCEPT ![regs[r] + off] = v]
<1>1. \A r, v : Put(Reg(r), v) => regs' = [regs EXCEPT ![r] = v] /\ mem' = mem
  BY DEF Put, Reg
<1>2. \A r, v : Put(Low(r), v) =>
        regs' = [regs EXCEPT ![r] = 256 * (@ \div 256) + v] /\ mem' = mem
  BY DEF Put, Low
<1>3. \A r, off, v : Put(Mem(r, off), v) =>
        regs' = regs /\ mem' = [mem EXCEPT ![regs[r] + off] = v]
  BY DEF Put, Mem
<1> QED
  BY <1>1, <1>2, <1>3

LEMMA XIs ==
  ASSUME NEW op, NEW src, NEW dst
  PROVE  X(op, src, dst).op = op /\ X(op, src, dst).src = src /\ X(op, src, dst).dst = dst
BY DEF X

\* Which action executes an x86 instruction.
LEMMA StepIs ==
  ASSUME Step
  PROVE  /\ Ins.op \in {"movq", "movzbq", "lea"} => Move
         /\ Ins.op \in {"addq", "subq", "imulq", "andq", "salq", "sarq"} => Operate
         /\ Ins.op = "cmpq" => Cmp
         /\ Ins.op = "set" => Set
         /\ Ins.op \in {"jmp", "j"} => Jump
         /\ Ins.op = "label" => Label
         /\ Ins.op = "ret" => Ret
         /\ Ins.op = "call" => CallRuntime
         /\ program' = program /\ ~Done
<1>1. DOMAIN By = {"addq", "subq", "imulq", "andq", "salq", "sarq"}
  BY DEF By
<1>2. \/ Ins.op \in {"movq", "movzbq", "lea"} /\ Move
      \/ Ins.op \in {"addq", "subq", "imulq", "andq", "salq", "sarq"} /\ Operate
      \/ Ins.op = "cmpq" /\ Cmp
      \/ Ins.op = "set" /\ Set
      \/ Ins.op \in {"jmp", "j"} /\ Jump
      \/ Ins.op = "label" /\ Label
      \/ Ins.op = "ret" /\ Ret
      \/ Ins.op = "call" /\ CallRuntime
  BY <1>1 DEF Step, Move, Operate, Cmp, Set, Jump, Label, Ret, CallRuntime
<1>3. program' = program /\ ~Done
  BY DEF Step
<1> QED
  BY <1>2, <1>3

\* What a step records when it ends an L1 instruction, and when it does not.
LEMMA RecordIs ==
  ASSUME Step, NEW g, NEW j, NEW k, at' = <<g, j, k>>
  PROVE  /\ k = 1 /\ (g = 0 \/ j # 0) =>
              last' = [regs |-> regs', mem |-> mem', at |-> <<g, j>>, calls |-> calls',
                       output |-> output']
         /\ k # 1 \/ (g # 0 /\ j = 0) => last' = last
<1>1. at'[1] = g /\ at'[2] = j /\ at'[3] = k
  OBVIOUS
<1>2. last' = IF at'[3] = 1 /\ (at'[1] = 0 \/ at'[2] # 0)
              THEN [regs |-> regs', mem |-> mem', at |-> <<at'[1], at'[2]>>,
                    calls |-> calls', output |-> output']
              ELSE last
  BY DEF Step
<1> QED
  BY <1>1, <1>2

LEMMA TripleIs ==
  ASSUME NEW f, NEW i, NEW k
  PROVE  Append(<<f, i>>, k) = <<f, i, k>>
<1> DEFINE S == {f, i, k}
           s == Append(<<f, i>>, k)
           t == <<f, i, k>>
<1>1. <<f, i>> \in Seq(S) /\ Len(<<f, i>>) = 2
  OBVIOUS
<1>2. s \in Seq(S) /\ Len(s) = 3 /\ s[1] = f /\ s[2] = i /\ s[3] = k
  BY <1>1, AppendProperties
<1>3. t \in Seq(S) /\ Len(t) = 3 /\ t[1] = f /\ t[2] = i /\ t[3] = k
  OBVIOUS
<1> HIDE DEF S, s, t
<1>4. \A j \in 1..Len(s) : s[j] = t[j]
  BY <1>2, <1>3
<1>5. s = t
  BY <1>2, <1>3, <1>4, SeqEqual
<1> QED
  BY <1>5 DEF s, t

\* From an x86 instruction to the next.
LEMMA GoOnIs ==
  ASSUME NEW f, NEW i, NEW k \in 1..3, at = <<f, i, k>>, GoOn, Len(File) \in 1..3
  PROVE  /\ k < Len(File) => at' = <<f, i, k + 1>>
         /\ k >= Len(File) => at' = <<f, i + 1, 1>>
BY DEF GoOn

LEMMA GoToIs ==
  ASSUME program \in Programs, NEW p \in Machine!Positions, GoTo(Machine!Address(p))
  PROVE  at' = Append(p, 1)
BY AddressIs DEF GoTo

LEMMA OpIs ==
  /\ \A by \in {"+=", "-=", "*=", "&="} :
       AopString[by] \in {"addq", "subq", "imulq", "andq"} /\ By[AopString[by]] = by
  /\ \A by \in {"+=", "-="} :
       MaopString[by] \in {"addq", "subq"} /\ By[MaopString[by]] = by
  /\ \A by \in {"<<=", ">>="} :
       SopString[by] \in {"salq", "sarq"} /\ By[SopString[by]] = by
<1>1. /\ AopString["+="] = "addq" /\ AopString["-="] = "subq"
      /\ AopString["*="] = "imulq" /\ AopString["&="] = "andq"
  BY DEF AopString
<1>2. SopString["<<="] = "salq" /\ SopString[">>="] = "sarq"
  BY DEF SopString
<1>3. MaopString["+="] = "addq" /\ MaopString["-="] = "subq"
  BY DEF MaopString
<1>4. /\ By["addq"] = "+=" /\ By["subq"] = "-=" /\ By["imulq"] = "*=" /\ By["andq"] = "&="
      /\ By["salq"] = "<<=" /\ By["sarq"] = ">>="
  BY DEF By
<1> QED
  BY <1>1, <1>2, <1>3, <1>4

\* The code of the instruction under way.
LEMMA FileIs ==
  ASSUME LastInv, last.at # Machine!Exit, NEW k \in 1..3, at = Append(last.at, k)
  PROVE  /\ Top.of \in DOMAIN program
         /\ \E i \in DOMAIN program[Top.of].code :
              /\ i \in 1..20 /\ last.at = <<Top.of, i>> /\ at = <<Top.of, i, k>>
              /\ program[Top.of].code[i] = Machine!Ins
              /\ File = Emit(program[Top.of], i) /\ Ins = File[k]
              /\ Machine!IsInstruction(program, Top.of, Machine!Ins)
              /\ Machine!Ins.op \notin {"goto", "cjump", "call", "return"} =>
                   i + 1 \in 1..20
<1>1. PICK f \in DOMAIN program : \E i \in DOMAIN program[f].code :
        /\ last.at = <<f, i>> /\ f = Top.of
        /\ Machine!Ins = program[f].code[i]
        /\ Machine!IsInstruction(program, f, Machine!Ins)
        /\ Machine!Ins.op \notin {"goto", "cjump", "call", "return"} =>
             i + 1 \in DOMAIN program[f].code
  BY InsIs DEF Top
<1>2. PICK i \in DOMAIN program[f].code :
        /\ last.at = <<f, i>> /\ f = Top.of
        /\ Machine!Ins = program[f].code[i]
        /\ Machine!IsInstruction(program, f, Machine!Ins)
        /\ Machine!Ins.op \notin {"goto", "cjump", "call", "return"} =>
             i + 1 \in DOMAIN program[f].code
  BY <1>1
<1>3. program \in Programs
  BY DEF LastInv
<1>4. at = <<f, i, k>>
  <2>1. Append(<<f, i>>, k) = <<f, i, k>>
    BY TripleIs
  <2> QED
    BY <1>2, <2>1
<1>5. File = Emit(program[f], i) /\ Ins = File[k]
  BY <1>4 DEF File, Ins
<1>6. \A j \in DOMAIN program[f].code : j \in 1..20
  BY <1>3, CodeIs
<1> QED
  BY <1>2, <1>4, <1>5, <1>6

LEMMA EmitIs ==
  ASSUME NEW f, NEW i, i # 0, NEW ins, ins = f.code[i]
  PROVE
    /\ ins.op = "load" => Emit(f, i) = << X("movq", Mem(ins.base, ins.off), Reg(ins.w)) >>
    /\ ins.op = "store" => Emit(f, i) = << X("movq", wrap_arg(ins.s), Mem(ins.base, ins.off)) >>
    /\ ins.op = "assign" => Emit(f, i) = << X("movq", wrap_arg(ins.s), Reg(ins.w)) >>
    /\ ins.op = "return" => Emit(f, i) =
         << X("addq", Imm(Frames!ReturnAdjustment(f)), Reg("rsp")), X("ret", None, None) >>
    /\ ins.op = "aop" => Emit(f, i) = << X(AopString[ins.by], wrap_arg(ins.s), Reg(ins.w)) >>
    /\ ins.op = "maop" => Emit(f, i) =
         << X(MaopString[ins.by], wrap_arg(ins.s), Mem(ins.base, ins.off)) >>
    /\ ins.op = "maop2" => Emit(f, i) =
         << X(MaopString[ins.by], Mem(ins.base, ins.off), Reg(ins.w)) >>
    /\ ins.op = "shift" => Emit(f, i) =
         << X(SopString[ins.by], IF IsReg(ins.s) THEN Low("rcx") ELSE wrap_arg(ins.s), Reg(ins.w)) >>
    /\ ins.op = "cmp" => Emit(f, i) = CompareCode(ins)
    /\ ins.op = "cjump" => Emit(f, i) = CjumpCode(ins)
    /\ ins.op = "goto" => Emit(f, i) =
         << X("jmp", None, Code(ins.to[1])), X("jmp", None, Code(ins.to[1])) >>
    /\ ins.op = "call" => Emit(f, i) =
         << X("subq", Imm(Frames!CallAdjustment(ins.n)), Reg("rsp")), X("jmp", None, wrap_arg(ins.s)) >>
    /\ ins.op = "runtime" => Emit(f, i) = << X("call", None, ins.to[1]) >>
    /\ ins.op = "label" => Emit(f, i) = << X("label", None, None) >>
    /\ ins.op = "lea" => Emit(f, i) = << X("lea", LeaOperand(ins), Reg(ins.w)) >>
<1>1. ins.op = "load" => Emit(f, i) =
         << X("movq", Mem(ins.base, ins.off), Reg(ins.w)) >>
  BY Zenon DEF Emit
<1>2. ins.op = "store" => Emit(f, i) =
         << X("movq", wrap_arg(ins.s), Mem(ins.base, ins.off)) >>
  BY Zenon DEF Emit
<1>3. ins.op = "assign" => Emit(f, i) =
         << X("movq", wrap_arg(ins.s), Reg(ins.w)) >>
  BY Zenon DEF Emit
<1>4. ins.op = "return" => Emit(f, i) =
         << X("addq", Imm(Frames!ReturnAdjustment(f)), Reg("rsp")), X("ret", None, None) >>
  BY Zenon DEF Emit
<1>5. ins.op = "aop" => Emit(f, i) =
         << X(AopString[ins.by], wrap_arg(ins.s), Reg(ins.w)) >>
  BY Zenon DEF Emit
<1>6. ins.op = "maop" => Emit(f, i) =
         << X(MaopString[ins.by], wrap_arg(ins.s), Mem(ins.base, ins.off)) >>
  BY Zenon DEF Emit
<1>7. ins.op = "maop2" => Emit(f, i) =
         << X(MaopString[ins.by], Mem(ins.base, ins.off), Reg(ins.w)) >>
  BY Zenon DEF Emit
<1>8. ins.op = "shift" => Emit(f, i) =
         << X(SopString[ins.by], IF IsReg(ins.s) THEN Low("rcx") ELSE wrap_arg(ins.s), Reg(ins.w)) >>
  BY Zenon DEF Emit
<1>9. ins.op = "cmp" => Emit(f, i) =
         CompareCode(ins)
  BY Zenon DEF Emit
<1>10. ins.op = "cjump" => Emit(f, i) =
         CjumpCode(ins)
  BY Zenon DEF Emit
<1>11. ins.op = "goto" => Emit(f, i) =
         << X("jmp", None, Code(ins.to[1])), X("jmp", None, Code(ins.to[1])) >>
  BY Zenon DEF Emit
<1>12. ins.op = "call" => Emit(f, i) =
         << X("subq", Imm(Frames!CallAdjustment(ins.n)), Reg("rsp")), X("jmp", None, wrap_arg(ins.s)) >>
  BY Zenon DEF Emit
<1>13. ins.op = "runtime" => Emit(f, i) =
         << X("call", None, ins.to[1]) >>
  BY Zenon DEF Emit
<1>14. ins.op = "label" => Emit(f, i) =
         << X("label", None, None) >>
  BY Zenon DEF Emit
<1>15. ins.op = "lea" => Emit(f, i) =
         << X("lea", LeaOperand(ins), Reg(ins.w)) >>
  BY Zenon DEF Emit
<1> QED
  BY <1>1, <1>2, <1>3, <1>4, <1>5, <1>6, <1>7, <1>8, <1>9, <1>10, <1>11, <1>12, <1>13, <1>14, <1>15

-----------------------------------------------------------------------------
(***************************************************************************)
(* A step of the x86 machine is one of the L1 program, or changes nothing  *)
(* of it.                                                                  *)
(***************************************************************************)
\* The end of an L1 instruction.
LEMMA EndIs ==
  ASSUME LastInv, Step, NEW g, NEW j, at' = <<g, j, 1>>,
         (g = 0 /\ j = 0) \/ (g \in DOMAIN program /\ j \in 1..20)
  PROVE  /\ last'.regs = regs' /\ last'.mem = mem' /\ last'.calls = calls'
         /\ last'.output = output' /\ last'.at = <<g, j>>
         /\ Between'
<1>1. program' = program
  BY StepIs
<1>2. last' = [regs |-> regs', mem |-> mem', at |-> <<g, j>>, calls |-> calls',
               output |-> output']
  BY RecordIs
<1>3. at'[1] = g /\ at'[2] = j
  OBVIOUS
<1>4. at' \in {<<0, 0, 1>>} \cup {<<f, i, 1>> : f \in DOMAIN program', i \in 1..Machine!MaxLength}
  BY <1>1 DEF Machine!MaxLength
<1>5. Between'
  BY <1>2, <1>3, <1>4 DEF Between
<1> QED
  BY <1>2, <1>5

\* The end of one that is followed by the next.
LEMMA FollowEndIs ==
  ASSUME LastInv, last.at # Machine!Exit, Step, NEW k \in 1..3, at = Append(last.at, k),
         GoOn, Len(File) = k, Machine!Ins.op \notin {"goto", "cjump", "call", "return"}
  PROVE  /\ last'.regs = regs' /\ last'.mem = mem' /\ last'.calls = calls'
         /\ last'.output = output' /\ last'.at = Machine!Follow
         /\ Between'
<1>1. PICK f \in DOMAIN program, i \in 1..20 :
        last.at = <<f, i>> /\ at = <<f, i, k>> /\ i + 1 \in 1..20
  BY FileIs
<1>2. at' = <<f, i + 1, 1>>
  BY <1>1 DEF GoOn
<1>3. Machine!Follow = <<f, i + 1>>
  BY <1>1 DEF Machine!Follow
<1> QED
  BY <1>1, <1>2, <1>3, EndIs

\* The instructions that compute a value for a register.
LEMMA ComputeEnds ==
  ASSUME LastInv, last.at # Machine!Exit, Step, NEW k \in 1..3, at = Append(last.at, k),
         GoOn, Len(File) = k,
         Machine!Ins.op \in {"assign", "load", "aop", "maop2", "shift", "cmp", "lea"},
         regs' = [last.regs EXCEPT ![Machine!Ins.w] = Machine!Result],
         mem' = last.mem, calls' = last.calls, output' = last.output
  PROVE  Between' /\ Machine!Next
<1>1. /\ last'.regs = regs' /\ last'.mem = mem' /\ last'.calls = calls'
      /\ last'.output = output' /\ last'.at = Machine!Follow
      /\ Between' /\ program' = program
  BY FollowEndIs, StepIs
<1>2. Machine!Compute
  BY <1>1 DEF Machine!Compute
<1> QED
  BY <1>1, <1>2 DEF Machine!Next

LEMMA WriteEnds ==
  ASSUME LastInv, last.at # Machine!Exit, Step, NEW k \in 1..3, at = Append(last.at, k),
         GoOn, Len(File) = k, Machine!Ins.op \in {"store", "maop"},
         mem' = [last.mem EXCEPT ![Machine!Cell] =
                   IF Machine!Ins.op = "store" THEN Machine!Value(Machine!Ins.s)
                   ELSE Machine!Apply(Machine!Ins.by, @, Machine!Value(Machine!Ins.s))],
         regs' = last.regs, calls' = last.calls, output' = last.output
  PROVE  Between' /\ Machine!Next
<1>1. /\ last'.regs = regs' /\ last'.mem = mem' /\ last'.calls = calls'
      /\ last'.output = output' /\ last'.at = Machine!Follow
      /\ Between' /\ program' = program
  BY FollowEndIs, StepIs
<1>2. Machine!Write
  BY <1>1 DEF Machine!Write
<1> QED
  BY <1>1, <1>2 DEF Machine!Next

LEMMA BetweenIs ==
  ASSUME LastInv, Between, ~Done
  PROVE  /\ last.at # Machine!Exit /\ at = Append(last.at, 1)
         /\ regs = last.regs /\ mem = last.mem /\ calls = last.calls /\ output = last.output
<1>1. /\ regs = last.regs /\ mem = last.mem /\ calls = last.calls /\ output = last.output
      /\ last.at = <<at[1], at[2]>>
  BY DEF Between
<1>2. Machine!Exit = <<0, 0>> /\ at # <<0, 0, 1>>
  BY TripleIs DEF Done, Machine!Exit
<1>3. PICK f \in DOMAIN program, i \in 1..20 : at = <<f, i, 1>>
  BY <1>2 DEF Between, Machine!MaxLength
<1>4. last.at = <<f, i>> /\ i # 0
  BY <1>1, <1>3
<1> QED
  BY <1>1, <1>2, <1>3, <1>4, TripleIs

\* The first x86 instruction of an L1 instruction.
LEMMA FirstIs ==
  ASSUME LastInv, Between, Step
  PROVE  /\ last.at # Machine!Exit /\ at = Append(last.at, 1)
         /\ regs = last.regs /\ mem = last.mem /\ calls = last.calls /\ output = last.output
         /\ \E f \in DOMAIN program : \E i \in DOMAIN program[f].code :
              /\ i # 0 /\ program[f].code[i] = Machine!Ins /\ at = <<f, i, 1>>
              /\ File = Emit(program[f], i) /\ Ins = File[1] /\ f = Top.of
              /\ Machine!IsInstruction(program, f, Machine!Ins)
<1>1. /\ last.at # Machine!Exit /\ at = Append(last.at, 1)
      /\ regs = last.regs /\ mem = last.mem /\ calls = last.calls /\ output = last.output
  BY StepIs, BetweenIs
<1>2. PICK f : f = Top.of
  OBVIOUS
<1>3. f \in DOMAIN program
  BY <1>1, <1>2, FileIs
<1>4. PICK i \in DOMAIN program[f].code :
           /\ i \in 1..20 /\ program[f].code[i] = Machine!Ins /\ at = <<f, i, 1>>
           /\ File = Emit(program[f], i) /\ Ins = File[1]
           /\ Machine!IsInstruction(program, f, Machine!Ins)
  BY <1>1, <1>2, FileIs
<1>5. i # 0
  BY <1>4
<1> QED
  BY <1>1, <1>2, <1>3, <1>4, <1>5

\* What the code of an instruction is, when it is one x86 instruction.
LEMMA SingleIs ==
  ASSUME LastInv, Between, Step
  PROVE  LET ins == Machine!Ins
             cell == Mem(ins.base, ins.off)
         IN  /\ ins.op = "assign" => File = << X("movq", wrap_arg(ins.s), Reg(ins.w)) >>
             /\ ins.op = "load"   => File = << X("movq", cell, Reg(ins.w)) >>
             /\ ins.op = "store"  => File = << X("movq", wrap_arg(ins.s), cell) >>
             /\ ins.op = "aop"    => File = << X(AopString[ins.by], wrap_arg(ins.s), Reg(ins.w)) >>
             /\ ins.op = "maop"   => File = << X(MaopString[ins.by], wrap_arg(ins.s), cell) >>
             /\ ins.op = "maop2"  => File = << X(MaopString[ins.by], cell, Reg(ins.w)) >>
             /\ ins.op = "shift"  =>
                  File = << X(SopString[ins.by], IF IsReg(ins.s) THEN Low("rcx") ELSE wrap_arg(ins.s), Reg(ins.w)) >>
             /\ ins.op = "lea"    => File = << X("lea", LeaOperand(ins), Reg(ins.w)) >>
             /\ ins.op = "label"  => File = << X("label", None, None) >>
             /\ ins.op = "runtime" => File = << X("call", None, ins.to[1]) >>
<1>1. PICK ins : ins = Machine!Ins
  OBVIOUS
<1>2. PICK f, i : i # 0 /\ ins = f.code[i] /\ File = Emit(f, i)
  BY <1>1, FirstIs
<1> QED
  BY <1>1, <1>2, EmitIs

\* A move, or an operation, whose result is that of the L1 instruction.
LEMMA MoveComputes ==
  ASSUME LastInv, Between, Step, NEW op \in {"movq", "lea"}, NEW src,
         Machine!Ins.op \in {"assign", "load", "aop", "maop2", "shift", "cmp", "lea"},
         File = << X(op, src, Reg(Machine!Ins.w)) >>, Read(src) = Machine!Result
  PROVE  Between' /\ Machine!Next
<1> DEFINE w == Machine!Ins.w
<1>1. /\ regs = last.regs /\ mem = last.mem /\ calls = last.calls /\ output = last.output
      /\ last.at # Machine!Exit /\ at = Append(last.at, 1) /\ 1 \in 1..3 /\ Ins = File[1]
  BY FirstIs
<1>2. Len(File) = 1 /\ Ins.op = op /\ Ins.src = src /\ Ins.dst = Reg(w)
  BY <1>1, XIs
<1>3. /\ Put(Reg(w), Read(src)) /\ GoOn
      /\ calls' = calls /\ output' = output
  BY <1>2, StepIs DEF Move
<1>4. regs' = [regs EXCEPT ![w] = Machine!Result] /\ mem' = mem
  BY <1>3, PutIs
<1>5. /\ regs' = [last.regs EXCEPT ![w] = Machine!Result] /\ mem' = last.mem
      /\ calls' = last.calls /\ output' = last.output
  BY <1>1, <1>3, <1>4
<1> QED
  BY <1>1, <1>2, <1>3, <1>5, ComputeEnds

LEMMA OperationComputes ==
  ASSUME LastInv, Between, Step, NEW src,
         NEW op \in {"addq", "subq", "imulq", "andq", "salq", "sarq"},
         Machine!Ins.op \in {"assign", "load", "aop", "maop2", "shift", "cmp", "lea"},
         File = << X(op, src, Reg(Machine!Ins.w)) >>,
         Machine!Apply(By[op], last.regs[Machine!Ins.w], Read(src)) = Machine!Result
  PROVE  Between' /\ Machine!Next
<1> DEFINE w == Machine!Ins.w
<1>1. /\ regs = last.regs /\ mem = last.mem /\ calls = last.calls /\ output = last.output
      /\ last.at # Machine!Exit /\ at = Append(last.at, 1) /\ 1 \in 1..3 /\ Ins = File[1]
  BY FirstIs
<1>2. Len(File) = 1 /\ Ins.op = op /\ Ins.src = src /\ Ins.dst = Reg(w)
  BY <1>1, XIs
<1>3. /\ Put(Reg(w), Machine!Apply(By[op], Read(Reg(w)), Read(src))) /\ GoOn
      /\ calls' = calls /\ output' = output
  BY <1>2, StepIs DEF Operate
<1>4. regs' = [regs EXCEPT ![w] = Machine!Result] /\ mem' = mem
  <2>1. Read(Reg(w)) = last.regs[w]
    BY <1>1, ReadIs
  <2>2. Put(Reg(w), Machine!Result)
    BY <1>3, <2>1
  <2> QED
    BY <2>2, PutIs
<1>5. /\ regs' = [last.regs EXCEPT ![w] = Machine!Result] /\ mem' = last.mem
      /\ calls' = last.calls /\ output' = last.output
  BY <1>1, <1>3, <1>4
<1> QED
  BY <1>1, <1>2, <1>3, <1>5, ComputeEnds

\* What an instruction writes.
LEMMA WriteIs ==
  ASSUME LastInv, Between, Step, Machine!Ins.op \in {"store", "maop"}, NEW v,
         v = IF Machine!Ins.op = "store" THEN Machine!Value(Machine!Ins.s)
             ELSE Machine!Apply(Machine!Ins.by, last.mem[Machine!Cell],
                                Machine!Value(Machine!Ins.s)),
         Put(Mem(Machine!Ins.base, Machine!Ins.off), v),
         GoOn, Len(File) = 1, calls' = calls, output' = output
  PROVE  Between' /\ Machine!Next
<1>1. /\ regs = last.regs /\ mem = last.mem /\ calls = last.calls /\ output = last.output
      /\ last.at # Machine!Exit /\ at = Append(last.at, 1) /\ 1 \in 1..3
  BY FirstIs
<1>2. Machine!Cell = regs[Machine!Ins.base] + Machine!Ins.off
  BY <1>1 DEF Machine!Cell
<1>3. regs' = regs /\ mem' = [mem EXCEPT ![Machine!Cell] = v]
  BY <1>2, PutIs
<1> QED
  BY <1>1, <1>3, WriteEnds

LEMMA SourceIs ==
  ASSUME LastInv, Between, Step,
         Machine!Ins.op \in {"assign", "store", "aop", "maop"}
  PROVE  Read(wrap_arg(Machine!Ins.s)) = Machine!Value(Machine!Ins.s)
<1>1. PICK f \in DOMAIN program : Machine!IsInstruction(program, f, Machine!Ins)
  BY FirstIs
<1>2. Machine!Ins.s[1] \in {"reg", "num", "label"}
  BY <1>1 DEF Machine!IsInstruction, Machine!IsRegister, Machine!IsImmediate, Machine!IsNumber,
     Machine!IsLabel
<1> QED
  BY <1>2, FirstIs, OperandIs

LEMMA AssignStep ==
  ASSUME LastInv, Between, Step, Machine!Ins.op = "assign"
  PROVE  Between' /\ Machine!Next
<1>1. Machine!Result = Machine!Value(Machine!Ins.s)
  BY Zenon DEF Machine!Result
<1>2. File = << X("movq", wrap_arg(Machine!Ins.s), Reg(Machine!Ins.w)) >>
  BY SingleIs
<1> QED
  BY <1>1, <1>2, SourceIs, MoveComputes

LEMMA LoadStep ==
  ASSUME LastInv, Between, Step, Machine!Ins.op = "load"
  PROVE  Between' /\ Machine!Next
<1>1. Machine!Result = last.mem[Machine!Cell]
  BY Zenon DEF Machine!Result
<1>2. File = << X("movq", Mem(Machine!Ins.base, Machine!Ins.off), Reg(Machine!Ins.w)) >>
  BY SingleIs
<1>3. Read(Mem(Machine!Ins.base, Machine!Ins.off)) = Machine!Result
  BY <1>1, FirstIs, ReadIs DEF Machine!Cell
<1> QED
  BY <1>2, <1>3, MoveComputes

LEMMA StoreStep ==
  ASSUME LastInv, Between, Step, Machine!Ins.op = "store"
  PROVE  Between' /\ Machine!Next
<1> DEFINE ins == Machine!Ins
<1>1. File = << X("movq", wrap_arg(ins.s), Mem(ins.base, ins.off)) >> /\ Ins = File[1]
  BY SingleIs, FirstIs
<1>2. /\ Len(File) = 1
      /\ Ins.op = "movq" /\ Ins.src = wrap_arg(ins.s) /\ Ins.dst = Mem(ins.base, ins.off)
  BY <1>1, XIs
<1>3. /\ Put(Mem(ins.base, ins.off), Machine!Value(ins.s)) /\ GoOn
      /\ calls' = calls /\ output' = output
  BY <1>2, StepIs, SourceIs DEF Move
<1> QED
  BY <1>2, <1>3, WriteIs

LEMMA AopStep ==
  ASSUME LastInv, Between, Step, Machine!Ins.op = "aop"
  PROVE  Between' /\ Machine!Next
<1> DEFINE ins == Machine!Ins
<1>1. PICK f \in DOMAIN program : Machine!IsInstruction(program, f, ins)
  BY FirstIs
<1>2. ins.by \in {"+=", "-=", "*=", "&="}
  BY <1>1 DEF Machine!IsInstruction
<1>3. File = << X(AopString[ins.by], wrap_arg(ins.s), Reg(ins.w)) >>
  BY SingleIs
<1>4. Machine!Result = Machine!Apply(ins.by, last.regs[ins.w], Machine!Value(ins.s))
  BY Zenon DEF Machine!Result
<1> QED
  BY <1>2, <1>3, <1>4, OpIs, SourceIs, OperationComputes

LEMMA MaopStep ==
  ASSUME LastInv, Between, Step, Machine!Ins.op = "maop"
  PROVE  Between' /\ Machine!Next
<1> DEFINE ins == Machine!Ins
           cell == Mem(ins.base, ins.off)
<1>1. PICK f \in DOMAIN program : Machine!IsInstruction(program, f, ins)
  BY FirstIs
<1>2. ins.by \in {"+=", "-="}
  BY <1>1 DEF Machine!IsInstruction
<1>3. File = << X(MaopString[ins.by], wrap_arg(ins.s), cell) >> /\ Ins = File[1]
  BY SingleIs, FirstIs
<1>4. /\ Len(File) = 1
      /\ Ins.op = MaopString[ins.by] /\ Ins.src = wrap_arg(ins.s) /\ Ins.dst = cell
  BY <1>3, XIs
<1>5. Read(cell) = last.mem[Machine!Cell]
  BY FirstIs, ReadIs DEF Machine!Cell
<1>6. Ins.op \in {"addq", "subq"} /\ By[Ins.op] = ins.by
  BY <1>2, <1>4, OpIs
<1>7. /\ Put(cell, Machine!Apply(ins.by, last.mem[Machine!Cell], Machine!Value(ins.s))) /\ GoOn
      /\ calls' = calls /\ output' = output
  BY <1>4, <1>5, <1>6, StepIs, SourceIs DEF Operate
<1> QED
  BY <1>4, <1>7, WriteIs

LEMMA Maop2Step ==
  ASSUME LastInv, Between, Step, Machine!Ins.op = "maop2"
  PROVE  Between' /\ Machine!Next
<1> DEFINE ins == Machine!Ins
<1>1. PICK f \in DOMAIN program : Machine!IsInstruction(program, f, ins)
  BY FirstIs
<1>2. ins.by \in {"+=", "-="}
  BY <1>1 DEF Machine!IsInstruction
<1>3. File = << X(MaopString[ins.by], Mem(ins.base, ins.off), Reg(ins.w)) >>
  BY SingleIs
<1>4. Read(Mem(ins.base, ins.off)) = last.mem[Machine!Cell]
  BY FirstIs, ReadIs DEF Machine!Cell
<1>5. Machine!Result = Machine!Apply(ins.by, last.regs[ins.w], last.mem[Machine!Cell])
  BY Zenon DEF Machine!Result
<1> QED
  BY <1>2, <1>3, <1>4, <1>5, OpIs, OperationComputes

\* A shift by a register takes its low byte, which is the value of one that
\* is less than 64.
LEMMA ShiftStep ==
  ASSUME LastInv, Machine!WellBehaved, Between, Step, Machine!Ins.op = "shift"
  PROVE  Between' /\ Machine!Next
<1> DEFINE ins == Machine!Ins
           src == IF IsReg(ins.s) THEN Low("rcx") ELSE wrap_arg(ins.s)
<1>1. PICK f \in DOMAIN program : Machine!IsInstruction(program, f, ins)
  BY FirstIs
<1>2. ins.by \in {"<<=", ">>="} /\ (ins.s = <<"reg", "rcx">> \/ Machine!IsNumber(ins.s))
  BY <1>1 DEF Machine!IsInstruction, Machine!IsImmediate
<1>3. File = << X(SopString[ins.by], src, Reg(ins.w)) >>
  BY SingleIs
<1>4. Machine!Value(ins.s) \in 0..63
  BY FirstIs DEF Machine!WellBehaved
<1>5. Read(src) = Machine!Value(ins.s)
  <2>1. CASE ins.s = <<"reg", "rcx">>
    <3>1. src = Low("rcx") /\ ins.s[1] = "reg" /\ ins.s[2] = "rcx"
      BY <2>1 DEF IsReg
    <3>2. Machine!Value(ins.s) = last.regs["rcx"]
      BY <3>1, Zenon DEF Machine!Value
    <3>3. Read(src) = last.regs["rcx"] % 256
      BY <3>1, FirstIs, ReadIs
    <3>4. \A n \in 0..63 : n % 256 = n
      OBVIOUS
    <3> QED
      BY <1>4, <3>2, <3>3, <3>4
  <2>2. CASE Machine!IsNumber(ins.s)
    <3>1. ins.s[1] = "num"
      BY <2>2 DEF Machine!IsNumber
    <3>2. src = wrap_arg(ins.s)
      BY <3>1 DEF IsReg
    <3> QED
      BY <3>1, <3>2, FirstIs, OperandIs
  <2> QED
    BY <1>2, <2>1, <2>2
<1>6. Machine!Result = Machine!Apply(ins.by, last.regs[ins.w], Machine!Value(ins.s))
  BY Zenon DEF Machine!Result
<1> HIDE DEF src
<1> QED
  BY <1>2, <1>3, <1>5, <1>6, OpIs, OperationComputes

LEMMA LeaReads ==
  ASSUME NEW ins
  PROVE  Read(LeaOperand(ins)) = regs[ins.s[2]] + regs[ins.t[2]] * ins.n
BY DEF Read, LeaOperand

LEMMA LeaStep ==
  ASSUME LastInv, Between, Step, Machine!Ins.op = "lea"
  PROVE  Between' /\ Machine!Next
<1> DEFINE ins == Machine!Ins
<1>1. PICK f \in DOMAIN program : Machine!IsInstruction(program, f, ins)
  BY FirstIs
<1>2. Machine!IsRegister(ins.s) /\ Machine!IsRegister(ins.t) /\ ins.n \in Int
  BY <1>1 DEF Machine!IsInstruction
<1>3. ins.s[1] = "reg" /\ ins.t[1] = "reg"
  BY <1>2 DEF Machine!IsRegister
<1>4. Machine!Value(ins.s) = last.regs[ins.s[2]] /\ Machine!Value(ins.t) = last.regs[ins.t[2]]
  BY <1>3, Zenon DEF Machine!Value
<1>5. Machine!Value(ins.s) \in Int /\ Machine!Value(ins.t) \in Int
  BY <1>2, ValueIs DEF LastInv
<1>6. Machine!Result = Machine!Value(ins.s) + ins.n * Machine!Value(ins.t)
  BY Zenon DEF Machine!Result
<1>7. Read(LeaOperand(ins)) = Machine!Value(ins.s) + Machine!Value(ins.t) * ins.n
  <2>1. Read(LeaOperand(ins)) = regs[ins.s[2]] + regs[ins.t[2]] * ins.n
    BY LeaReads
  <2> QED
    BY <1>4, <2>1, FirstIs
<1>8. \A a, b \in Int : a * b = b * a
  OBVIOUS
<1>9. Read(LeaOperand(ins)) = Machine!Result
  BY <1>2, <1>5, <1>6, <1>7, <1>8
<1>10. File = << X("lea", LeaOperand(ins), Reg(ins.w)) >>
  BY SingleIs
<1> QED
  BY <1>9, <1>10, MoveComputes

\* The end of a jump of the L1 program.
LEMMA JumpEnds ==
  ASSUME LastInv, last.at # Machine!Exit, Step, Machine!Ins.op \in {"label", "goto", "cjump"},
         regs' = last.regs, mem' = last.mem, calls' = last.calls, output' = last.output,
         NEW f \in DOMAIN program, NEW j \in 1..20, at' = <<f, j, 1>>,
         Machine!Ins.op = "label" => <<f, j>> = Machine!Follow,
         Machine!Ins.op = "goto" => <<f, j>> = Machine!Place(Machine!Ins.to[1]),
         Machine!Ins.op = "cjump" =>
           <<f, j>> = IF CompareHolds(Machine!Ins) THEN Machine!Place(Machine!Ins.to[1])
                                                   ELSE Machine!Place(Machine!Ins.to[2])
  PROVE  Between' /\ Machine!Next
<1>1. /\ last'.regs = last.regs /\ last'.mem = last.mem /\ last'.calls = last.calls
      /\ last'.output = last.output /\ last'.at = <<f, j>> /\ Between' /\ program' = program
  BY EndIs, StepIs
<1>2. CASE Machine!Ins.op = "label"
  <2>1. Machine!Jump
    BY <1>1, <1>2, Zenon DEF Machine!Jump
  <2> QED
    BY <1>1, <2>1 DEF Machine!Next
<1>3. CASE Machine!Ins.op = "goto"
  <2>1. Machine!Jump
    BY <1>1, <1>3, Zenon DEF Machine!Jump
  <2> QED
    BY <1>1, <2>1 DEF Machine!Next
<1>4. CASE Machine!Ins.op = "cjump"
  <2>1. Machine!Jump
    BY <1>1, <1>4, Zenon DEF Machine!Jump, CompareHolds
  <2> QED
    BY <1>1, <2>1 DEF Machine!Next
<1> QED
  BY <1>2, <1>3, <1>4

\* Where a jump to a label of the function leads.
LEMMA GoToTarget ==
  ASSUME program \in Programs, NEW f \in DOMAIN program, NEW l,
         Machine!IsTarget(program, f, l), GoTo(Read(Code(l)))
  PROVE  \E j \in 1..20 : at' = <<f, j, 1>> /\ Machine!Place(l) = <<f, j>>
<1>1. PICK j \in DOMAIN program[f].code : Machine!Place(l) = <<f, j>>
  BY TargetIs
<1>2. j \in 1..20 /\ <<f, j>> \in Machine!Positions
  BY CodeIs, PlaceIs
<1>3. GoTo(Machine!Address(<<f, j>>))
  BY <1>1, ReadIs
<1>4. at' = Append(<<f, j>>, 1)
  BY <1>2, <1>3, GoToIs
<1>5. at' = <<f, j, 1>>
  BY <1>4, TripleIs
<1> QED
  BY <1>1, <1>2, <1>5

LEMMA LabelStep ==
  ASSUME LastInv, Between, Step, Machine!Ins.op = "label"
  PROVE  Between' /\ Machine!Next
<1>1. /\ regs = last.regs /\ mem = last.mem /\ calls = last.calls /\ output = last.output
      /\ last.at # Machine!Exit /\ at = Append(last.at, 1) /\ 1 \in 1..3 /\ Ins = File[1]
  BY FirstIs
<1>2. File = << X("label", None, None) >>
  BY SingleIs
<1>3. Len(File) = 1 /\ Ins.op = "label"
  BY <1>1, <1>2, XIs
<1>4. GoOn /\ regs' = regs /\ mem' = mem /\ calls' = calls /\ output' = output
  BY <1>3, StepIs DEF Label
<1>5. PICK f \in DOMAIN program, i \in 1..20 :
        last.at = <<f, i>> /\ at = <<f, i, 1>> /\ i + 1 \in 1..20
  BY <1>1, FileIs
<1>6. at' = <<f, i + 1, 1>>
  BY <1>3, <1>4, <1>5 DEF GoOn
<1>7. <<f, i + 1>> = Machine!Follow
  BY <1>5 DEF Machine!Follow
<1> QED
  BY <1>1, <1>4, <1>5, <1>6, <1>7, JumpEnds

LEMMA GotoStep ==
  ASSUME LastInv, Between, Step, Machine!Ins.op = "goto"
  PROVE  Between' /\ Machine!Next
<1> DEFINE ins == Machine!Ins
<1>1. /\ regs = last.regs /\ mem = last.mem /\ calls = last.calls /\ output = last.output
      /\ last.at # Machine!Exit /\ program \in Programs
  BY FirstIs DEF LastInv
<1>2. PICK f \in DOMAIN program : \E i \in DOMAIN program[f].code :
        /\ i # 0 /\ program[f].code[i] = ins /\ at = <<f, i, 1>>
        /\ File = Emit(program[f], i) /\ Ins = File[1]
        /\ Machine!IsInstruction(program, f, ins)
  BY FirstIs
<1>3. PICK i \in DOMAIN program[f].code :
        /\ i # 0 /\ program[f].code[i] = ins /\ at = <<f, i, 1>>
        /\ File = Emit(program[f], i) /\ Ins = File[1]
  BY <1>2
<1>4. File = << X("jmp", None, Code(ins.to[1])), X("jmp", None, Code(ins.to[1])) >>
  BY <1>3, EmitIs
<1>5. Ins.op = "jmp" /\ Ins.dst = Code(ins.to[1])
  BY <1>3, <1>4, XIs
<1>6. /\ GoTo(Read(Code(ins.to[1])))
      /\ regs' = regs /\ mem' = mem /\ calls' = calls /\ output' = output
  BY <1>3, <1>5, StepIs DEF Jump
<1>7. Machine!IsTarget(program, f, ins.to[1])
  BY <1>2 DEF Machine!IsInstruction
<1>8. PICK j \in 1..20 : at' = <<f, j, 1>> /\ Machine!Place(ins.to[1]) = <<f, j>>
  BY <1>1, <1>6, <1>7, GoToTarget
<1> QED
  BY <1>1, <1>6, <1>8, JumpEnds

LEMMA RuntimeStep ==
  ASSUME LastInv, Between, Step, Machine!Ins.op = "runtime"
  PROVE  Between' /\ Machine!Next
<1> DEFINE ins == Machine!Ins
<1>1. /\ regs = last.regs /\ mem = last.mem /\ calls = last.calls /\ output = last.output
      /\ last.at # Machine!Exit /\ at = Append(last.at, 1) /\ 1 \in 1..3 /\ Ins = File[1]
  BY FirstIs
<1>2. File = << X("call", None, ins.to[1]) >>
  BY SingleIs
<1>3. Len(File) = 1 /\ Ins.op = "call" /\ Ins.dst = ins.to[1]
  BY <1>1, <1>2, XIs
<1>4. CallRuntime
  BY <1>3, StepIs
<1>5. GoOn /\ calls' = calls
  BY <1>4 DEF CallRuntime
<1>6. /\ last'.regs = regs' /\ last'.mem = mem' /\ last'.calls = calls'
      /\ last'.output = output' /\ last'.at = Machine!Follow
      /\ Between' /\ program' = program
  BY <1>1, <1>3, <1>5, FollowEndIs, StepIs
<1>7. PICK f \in DOMAIN program : Machine!IsInstruction(program, f, ins)
  BY FirstIs
<1>8. ins.to = <<ins.to[1]>>
  BY <1>7 DEF Machine!IsInstruction
<1>9. ins.to = <<"print">> <=> Ins.dst = "print"
  BY <1>3, <1>8
<1>10. /\ regs' = [r \in DOMAIN last.regs |->
                     IF r \in Machine!CallerSave THEN Machine!Junk ELSE last.regs[r]]
       /\ mem' = [a \in DOMAIN last.mem |->
                    IF a < last.regs["rsp"] THEN Machine!Junk ELSE last.mem[a]]
       /\ output' = IF ins.to = <<"print">> THEN Append(last.output, last.regs["rdi"] \div 2)
                                            ELSE last.output
  BY <1>1, <1>4, <1>9 DEF CallRuntime
<1>11. Machine!Runtime
  BY <1>1, <1>5, <1>6, <1>10 DEF Machine!Runtime
<1> QED
  BY <1>1, <1>6, <1>11 DEF Machine!Next

\* The condition after a cmpq is that of the comparison.
LEMMA ConditionIs ==
  ASSUME NEW a \in Int, NEW b \in Int, NEW by \in {"<", "<=", "="},
         flags' = CASE a < b -> "less" [] a = b -> "equal" [] a > b -> "greater"
  PROVE  /\ True(Condition(by, FALSE))' <=> Machine!Compare(by, a, b)
         /\ True(Condition(by, TRUE))' <=> Machine!Compare(by, b, a)
<1>1. /\ True("l")' <=> flags' = "less"
      /\ True("le")' <=> flags' \in {"less", "equal"}
      /\ True("g")' <=> flags' = "greater"
      /\ True("ge")' <=> flags' \in {"greater", "equal"}
      /\ True("e")' <=> flags' = "equal"
  BY DEF True
<1>2. \/ a < b /\ ~(b < a) /\ a # b /\ ~(a > b) /\ flags' = "less"
      \/ a = b /\ ~(a < b) /\ ~(b < a) /\ ~(a > b) /\ flags' = "equal"
      \/ a > b /\ b < a /\ ~(a < b) /\ a # b /\ flags' = "greater"
  <2>1. CASE a < b
    <3>1. flags' = "less"
      BY <2>1
    <3> QED
      BY <2>1, <3>1
  <2>2. CASE a = b
    <3>1. flags' = "equal"
      BY <2>2
    <3> QED
      BY <2>2, <3>1
  <2>3. CASE a > b
    <3>1. flags' = "greater"
      BY <2>3
    <3> QED
      BY <2>3, <3>1
  <2> QED
    BY <2>1, <2>2, <2>3
<1>3. /\ Condition("<", FALSE) = "l" /\ Condition("<", TRUE) = "g"
      /\ Condition("<=", FALSE) = "le" /\ Condition("<=", TRUE) = "ge"
      /\ Condition("=", FALSE) = "e" /\ Condition("=", TRUE) = "e"
  BY DEF Condition
<1>4. /\ Machine!Compare("<", a, b) <=> a < b
      /\ Machine!Compare("<", b, a) <=> b < a
      /\ Machine!Compare("<=", a, b) <=> a < b \/ a = b
      /\ Machine!Compare("<=", b, a) <=> a > b \/ a = b
      /\ Machine!Compare("=", a, b) <=> a = b
      /\ Machine!Compare("=", b, a) <=> b = a
  BY DEF Machine!Compare
<1>5. CASE by = "<"
  BY <1>1, <1>2, <1>3, <1>4, <1>5
<1>6. CASE by = "<="
  BY <1>1, <1>2, <1>3, <1>4, <1>6
<1>7. CASE by = "="
  BY <1>1, <1>2, <1>3, <1>4, <1>7
<1> QED
  BY <1>5, <1>6, <1>7

\* What an instruction under way compares.
LEMMA ComparisonIs ==
  ASSUME LastInv, last.at # Machine!Exit, Machine!Ins.op \in {"cmp", "cjump"}
  PROVE  LET ins == Machine!Ins
         IN  /\ ins.by \in {"<", "<=", "="}
             /\ Machine!IsRegister(ins.s) \/ Machine!IsNumber(ins.s)
             /\ Machine!IsRegister(ins.t) \/ Machine!IsNumber(ins.t)
             /\ ins.s[1] \in {"reg", "num"} /\ ins.t[1] \in {"reg", "num"}
             /\ Machine!Value(ins.s) \in Int /\ Machine!Value(ins.t) \in Int
             /\ ins.op = "cjump" => ByFlags(ins)
             /\ regs = last.regs => Read(wrap_arg(ins.s)) = Machine!Value(ins.s)
             /\ regs = last.regs => Read(wrap_arg(ins.t)) = Machine!Value(ins.t)
<1> DEFINE ins == Machine!Ins
<1>1. PICK f \in DOMAIN program : Machine!IsInstruction(program, f, ins)
  BY InsIs
<1>2. /\ ins.by \in {"<", "<=", "="}
      /\ Machine!IsRegister(ins.s) \/ Machine!IsNumber(ins.s)
      /\ Machine!IsRegister(ins.t) \/ Machine!IsNumber(ins.t)
      /\ ins.op = "cjump" => Machine!IsRegister(ins.s) \/ Machine!IsRegister(ins.t)
  BY <1>1 DEF Machine!IsInstruction, Machine!IsImmediate
<1>3. ins.s[1] \in {"reg", "num"} /\ ins.t[1] \in {"reg", "num"}
  BY <1>2 DEF Machine!IsRegister, Machine!IsNumber
<1>4. Machine!Value(ins.s) \in Int /\ Machine!Value(ins.t) \in Int
  BY <1>2, ValueIs DEF LastInv
<1>5. ins.op = "cjump" => ByFlags(ins)
  BY <1>2 DEF ByFlags, IsReg, Machine!IsRegister
<1>6. /\ regs = last.regs => Read(wrap_arg(ins.s)) = Machine!Value(ins.s)
      /\ regs = last.regs => Read(wrap_arg(ins.t)) = Machine!Value(ins.t)
  BY <1>3, OperandIs
<1> QED
  BY <1>2, <1>3, <1>4, <1>5, <1>6

\* The comparison of the instruction under way comes out as it did while
\* last stays.
LEMMA SameIs ==
  ASSUME LastInv, last.at # Machine!Exit, last' = last, program' = program,
         NEW ins, ins = Machine!Ins
  PROVE  /\ Machine!Ins' = ins
         /\ ins.op \in {"cmp", "cjump"} => (CompareHolds(ins)' <=> CompareHolds(ins))
<1>1. Machine!Ins' = ins
  BY DEF Machine!Ins
<1>2. ASSUME ins.op \in {"cmp", "cjump"}
      PROVE  CompareHolds(ins)' <=> CompareHolds(ins)
  <2>1. ins.s[1] \in {"reg", "num"} /\ ins.t[1] \in {"reg", "num"}
    BY <1>2, ComparisonIs
  <2>2. ASSUME NEW o, o[1] \in {"reg", "num"}
        PROVE  Machine!Value(o)' = Machine!Value(o)
    <3>1. CASE o[1] = "reg"
      <4>1. Machine!Value(o) = last.regs[o[2]]
        BY <3>1, Zenon DEF Machine!Value
      <4>2. Machine!Value(o)' = last'.regs[o[2]]
        BY <3>1, Zenon DEF Machine!Value
      <4> QED
        BY <4>1, <4>2
    <3>2. CASE o[1] = "num"
      <4>1. Machine!Value(o) = o[2] /\ Machine!Value(o)' = o[2]
        BY <3>2, Zenon DEF Machine!Value
      <4> QED
        BY <4>1
    <3> QED
      BY <2>2, <3>1, <3>2
  <2>3. Machine!Value(ins.s)' = Machine!Value(ins.s) /\ Machine!Value(ins.t)' = Machine!Value(ins.t)
    BY <2>1, <2>2
  <2> QED
    BY <2>3 DEF CompareHolds
<1> QED
  BY <1>1, <1>2

LEMMA MidwayIs ==
  ASSUME last' = last, program' = program, NEW ins, ins = Machine!Ins, Midway(ins)'
  PROVE  Midway(Machine!Ins)'
<1>1. Machine!Ins' = ins
  BY DEF Machine!Ins
<1> QED
  BY <1>1 DEF Midway, CompareHolds, True

\* Two constants are compared at compile time.
LEMMA ConstantsStep ==
  ASSUME LastInv, Between, Step, Machine!Ins.op = "cmp", ~ByFlags(Machine!Ins)
  PROVE  Between' /\ Machine!Next
<1> DEFINE ins == Machine!Ins
           b == IF Holds(ins.by, ins.s[2], ins.t[2]) THEN 1 ELSE 0
<1>1. ins.s[1] = "num" /\ ins.t[1] = "num" /\ ~IsReg(ins.s) /\ ~IsReg(ins.t)
  BY FirstIs, ComparisonIs DEF ByFlags, IsReg
<1>2. PICK f, i : i # 0 /\ ins = f.code[i] /\ File = Emit(f, i)
  BY FirstIs
<1>3. File = CompareCode(ins)
  BY <1>2, EmitIs
<1>4. File = << X("movq", Imm(b), Reg(ins.w)) >>
  BY <1>1, <1>3 DEF CompareCode
<1>5. Machine!Value(ins.s) = ins.s[2] /\ Machine!Value(ins.t) = ins.t[2]
  BY <1>1, Zenon DEF Machine!Value
<1>6. Machine!Result = IF Machine!Compare(ins.by, Machine!Value(ins.s), Machine!Value(ins.t)) THEN 1 ELSE 0
  BY Zenon DEF Machine!Result
<1>7. Holds(ins.by, ins.s[2], ins.t[2]) <=> Machine!Compare(ins.by, ins.s[2], ins.t[2])
  BY Zenon DEF Holds, Machine!Compare
<1>8. Machine!Result = b
  BY <1>5, <1>6, <1>7
<1> HIDE DEF b
<1>9. Read(Imm(b)) = Machine!Result
  BY <1>8, ReadIs
<1> QED
  BY <1>4, <1>9, MoveComputes

\* The code of a comparison of which an operand is a register.
LEMMA ComparisonCodeIs ==
  ASSUME LastInv, last.at # Machine!Exit, NEW k \in 1..3, at = Append(last.at, k),
         Machine!Ins.op \in {"cmp", "cjump"}, ByFlags(Machine!Ins)
  PROVE  LET ins == Machine!Ins
         IN  \E i \in 1..20 : \E f \in DOMAIN program :
               /\ f = Top.of /\ last.at = <<f, i>> /\ at = <<f, i, k>> /\ Len(File) = 3
               /\ Ins = File[k] /\ File[1] = Cmpq(ins)
               /\ ins.op = "cmp" =>
                    /\ File[2] = X("set", Condition(ins.by, ~IsReg(ins.s)), Low(ins.w))
                    /\ File[3] = X("movzbq", Low(ins.w), Reg(ins.w))
               /\ ins.op = "cjump" =>
                    /\ File[2] = X("j", Condition(ins.by, ~IsReg(ins.s)), Code(ins.to[1]))
                    /\ File[3] = X("jmp", None, Code(ins.to[2]))
               /\ program[f].code[i] = ins
               /\ Machine!IsInstruction(program, f, ins)
<1> DEFINE ins == Machine!Ins
<1>1. PICK f \in DOMAIN program, i \in 1..20 :
        /\ f = Top.of /\ last.at = <<f, i>> /\ at = <<f, i, k>>
        /\ program[f].code[i] = ins
        /\ File = Emit(program[f], i) /\ Ins = File[k]
        /\ Machine!IsInstruction(program, f, ins)
  BY FileIs
<1>2. i # 0
  OBVIOUS
<1>3. ins.op = "cmp" => File = CompareCode(ins)
  BY <1>1, <1>2, EmitIs
<1>4. ins.op = "cjump" => File = CjumpCode(ins)
  BY <1>1, <1>2, EmitIs
<1>5. /\ Len(File) = 3 /\ File[1] = Cmpq(ins)
      /\ ins.op = "cmp" =>
           /\ File[2] = X("set", Condition(ins.by, ~IsReg(ins.s)), Low(ins.w))
           /\ File[3] = X("movzbq", Low(ins.w), Reg(ins.w))
      /\ ins.op = "cjump" =>
           /\ File[2] = X("j", Condition(ins.by, ~IsReg(ins.s)), Code(ins.to[1]))
           /\ File[3] = X("jmp", None, Code(ins.to[2]))
  <2>1. CASE ins.op = "cmp"
    <3>1. File = << Cmpq(ins), X("set", Condition(ins.by, ~IsReg(ins.s)), Low(ins.w)),
                    X("movzbq", Low(ins.w), Reg(ins.w)) >>
      BY <1>3, <2>1 DEF CompareCode, ByFlags
    <3> QED
      BY <2>1, <3>1
  <2>2. CASE ins.op = "cjump"
    <3>1. File = << Cmpq(ins), X("j", Condition(ins.by, ~IsReg(ins.s)), Code(ins.to[1])),
                    X("jmp", None, Code(ins.to[2])) >>
      BY <1>4, <2>2 DEF CjumpCode, ByFlags
    <3> QED
      BY <2>2, <3>1
  <2> QED
    BY <2>1, <2>2
<1> QED
  BY <1>1, <1>5

LEMMA CmpqStep ==
  ASSUME LastInv, Between, Step, Machine!Ins.op \in {"cmp", "cjump"}, ByFlags(Machine!Ins)
  PROVE  Midway(Machine!Ins)' /\ last' = last
<1>1. PICK ins : ins = Machine!Ins
  OBVIOUS
<1>2. /\ regs = last.regs /\ mem = last.mem /\ calls = last.calls /\ output = last.output
      /\ last.at # Machine!Exit /\ at = Append(last.at, 1) /\ 1 \in 1..3
      /\ ins.op \in {"cmp", "cjump"} /\ ByFlags(ins)
  BY <1>1, FirstIs
<1>3. PICK i \in 1..20, f \in DOMAIN program :
        /\ last.at = <<f, i>> /\ at = <<f, i, 1>> /\ Len(File) = 3
        /\ Ins = File[1] /\ File[1] = Cmpq(ins)
  BY <1>1, <1>2, ComparisonCodeIs
<1>4. /\ Ins.op = "cmpq"
      /\ IsReg(ins.s) => Ins.src = wrap_arg(ins.t) /\ Ins.dst = wrap_arg(ins.s)
      /\ ~IsReg(ins.s) => Ins.src = wrap_arg(ins.s) /\ Ins.dst = wrap_arg(ins.t)
  BY <1>3, XIs DEF Cmpq
<1>5. Cmp /\ program' = program
  BY <1>4, StepIs
<1>6. at' = <<f, i, 2>>
  <2>1. GoOn
    BY <1>5 DEF Cmp
  <2> QED
    BY <1>3, <2>1 DEF GoOn
<1>7. last' = last
  BY <1>6, RecordIs
<1>8. PICK a, b \in Int : a = Machine!Value(ins.s) /\ b = Machine!Value(ins.t)
  BY <1>1, <1>2, ComparisonIs
<1>9. Read(wrap_arg(ins.s)) = a /\ Read(wrap_arg(ins.t)) = b /\ ins.by \in {"<", "<=", "="}
  BY <1>1, <1>2, <1>8, ComparisonIs
<1>10. True(Condition(ins.by, ~IsReg(ins.s)))' <=> Machine!Compare(ins.by, a, b)
  <2>1. PICK by \in {"<", "<=", "="} : by = ins.by
    BY <1>9
  <2>2. CASE IsReg(ins.s)
    <3>1. flags' = CASE a < b -> "less" [] a = b -> "equal" [] a > b -> "greater"
      BY <1>4, <1>5, <1>9, <2>2, Zenon DEF Cmp
    <3>2. True(Condition(by, FALSE))' <=> Machine!Compare(by, a, b)
      BY <1>8, <3>1, ConditionIs
    <3>3. (~IsReg(ins.s)) = FALSE
      BY <2>2
    <3> QED
      BY <2>1, <3>2, <3>3
  <2>3. CASE ~IsReg(ins.s)
    <3>1. flags' = CASE b < a -> "less" [] b = a -> "equal" [] b > a -> "greater"
      BY <1>4, <1>5, <1>9, <2>3, Zenon DEF Cmp
    <3>2. True(Condition(by, TRUE))' <=> Machine!Compare(by, a, b)
      BY <1>8, <3>1, ConditionIs
    <3>3. (~IsReg(ins.s)) = TRUE
      BY <2>3
    <3> QED
      BY <2>1, <3>2, <3>3
  <2> QED
    BY <2>2, <2>3
<1>11. CompareHolds(ins)' <=> Machine!Compare(ins.by, a, b)
  <2>1. CompareHolds(ins) <=> Machine!Compare(ins.by, a, b)
    BY <1>8 DEF CompareHolds
  <2> QED
    BY <1>1, <1>2, <1>5, <1>7, <2>1, SameIs
<1>12. Midway(ins)'
  <2>1. at' = Append(last'.at, 2) /\ last'.at # Machine!Exit
    BY <1>2, <1>3, <1>6, <1>7, TripleIs
  <2>2. regs' = last'.regs /\ mem' = last'.mem /\ calls' = last'.calls /\ output' = last'.output
    BY <1>2, <1>5, <1>7 DEF Cmp
  <2> QED
    BY <1>2, <1>10, <1>11, <2>1, <2>2 DEF Midway, ByFlags
<1> QED
  BY <1>1, <1>5, <1>7, <1>12, MidwayIs

LEMMA SetStep ==
  ASSUME LastInv, Step, NEW ins, ins = Machine!Ins, last.at # Machine!Exit,
         mem = last.mem, calls = last.calls, output = last.output, regs = last.regs,
         ins.op = "cmp", ByFlags(ins), at = Append(last.at, 2),
         True(Condition(ins.by, ~IsReg(ins.s))) <=> CompareHolds(ins)
  PROVE  Midway(Machine!Ins)' /\ last' = last
<1> DEFINE v == IF CompareHolds(ins) THEN 1 ELSE 0
<1>0. 2 \in 1..3
  OBVIOUS
<1>1. PICK i \in 1..20, f \in DOMAIN program :
        /\ last.at = <<f, i>> /\ at = <<f, i, 2>> /\ Len(File) = 3
        /\ Ins = X("set", Condition(ins.by, ~IsReg(ins.s)), Low(ins.w))
  BY <1>0, ComparisonCodeIs
<1>2. /\ Ins.op = "set" /\ Ins.src = Condition(ins.by, ~IsReg(ins.s)) /\ Ins.dst = Low(ins.w)
  BY <1>1, XIs
<1>3. Set /\ program' = program
  BY <1>2, StepIs
<1>4. Put(Low(ins.w), v)
  BY <1>2, <1>3 DEF Set
<1>5. regs' = [last.regs EXCEPT ![ins.w] = 256 * (@ \div 256) + v] /\ mem' = last.mem
  <2> HIDE DEF v
  <2> QED
    BY <1>4, PutIs
<1>6. at' = <<f, i, 3>>
  <2>1. GoOn
    BY <1>3 DEF Set
  <2> QED
    BY <1>1, <2>1 DEF GoOn
<1>7. last' = last
  BY <1>6, RecordIs
<1>8. CompareHolds(ins)' <=> CompareHolds(ins)
  BY <1>3, <1>7, SameIs
<1>9. Midway(ins)'
  <2>1. at' = Append(last'.at, 3) /\ last'.at # Machine!Exit
    BY <1>1, <1>6, <1>7, TripleIs
  <2>2. /\ regs' = [last'.regs EXCEPT ![ins.w] = 256 * (@ \div 256) + v]
        /\ mem' = last'.mem /\ calls' = last'.calls /\ output' = last'.output
    BY <1>3, <1>5, <1>7 DEF Set
  <2> QED
    BY <1>8, <2>1, <2>2 DEF Midway, ByFlags
<1> QED
  BY <1>3, <1>7, <1>9, MidwayIs

LEMMA MovzbqStep ==
  ASSUME LastInv, Step, Machine!Ins.op = "cmp", last.at # Machine!Exit,
         mem = last.mem, calls = last.calls, output = last.output,
         ByFlags(Machine!Ins), at = Append(last.at, 3),
         regs = [last.regs EXCEPT ![Machine!Ins.w] =
                   256 * (@ \div 256) + (IF CompareHolds(Machine!Ins) THEN 1 ELSE 0)]
  PROVE  Between' /\ Machine!Next
<1> DEFINE v == IF CompareHolds(Machine!Ins) THEN 1 ELSE 0
<1>0. 3 \in 1..3
  OBVIOUS
<1>1. PICK w : w = Machine!Ins.w
  OBVIOUS
<1>2. PICK i \in 1..20, f \in DOMAIN program :
        /\ last.at = <<f, i>> /\ at = <<f, i, 3>> /\ Len(File) = 3
        /\ Ins = X("movzbq", Low(w), Reg(w))
        /\ Machine!IsInstruction(program, f, Machine!Ins)
  BY <1>0, <1>1, ComparisonCodeIs
<1>3. w \in Machine!Registers
  BY <1>1, <1>2 DEF Machine!IsInstruction
<1>4. Ins.op = "movzbq" /\ Ins.src = Low(w) /\ Ins.dst = Reg(w)
  BY <1>2, XIs
<1>5. Put(Reg(w), Read(Low(w))) /\ GoOn /\ calls' = calls /\ output' = output
  BY <1>4, StepIs DEF Move
<1>6. Read(Low(w)) = regs[w] % 256
  BY ReadIs
<1>7. v \in {0, 1} /\ last.regs[w] \in Int /\ regs[w] = 256 * (last.regs[w] \div 256) + v
  BY <1>1, <1>3 DEF LastInv
<1>8. Machine!Result = v
  BY Zenon DEF Machine!Result, CompareHolds
<1> HIDE DEF v
<1>9. Read(Low(w)) = v
  <2>1. ASSUME NEW n \in Int, NEW b \in {0, 1} PROVE (256 * (n \div 256) + b) % 256 = b
    OBVIOUS
  <2> QED
    BY <1>6, <1>7, <2>1
<1>10. regs' = [regs EXCEPT ![w] = v] /\ mem' = mem
  BY <1>5, <1>9, PutIs
<1>11. regs' = [last.regs EXCEPT ![w] = v]
  BY <1>1, <1>3, <1>10 DEF LastInv
<1> QED
  BY <1>1, <1>2, <1>5, <1>8, <1>10, <1>11, ComputeEnds

LEMMA JStep ==
  ASSUME LastInv, Step, NEW ins, ins = Machine!Ins, last.at # Machine!Exit,
         mem = last.mem, calls = last.calls, output = last.output, regs = last.regs,
         ins.op = "cjump", ByFlags(ins), at = Append(last.at, 2),
         True(Condition(ins.by, ~IsReg(ins.s))) <=> CompareHolds(ins)
  PROVE  \/ Midway(Machine!Ins)' /\ last' = last
         \/ Between' /\ Machine!Next
<1>0. 2 \in 1..3
  OBVIOUS
<1>1. PICK i \in 1..20, f \in DOMAIN program :
        /\ last.at = <<f, i>> /\ at = <<f, i, 2>> /\ Len(File) = 3
        /\ Ins = X("j", Condition(ins.by, ~IsReg(ins.s)), Code(ins.to[1]))
        /\ program[f].code[i] = ins /\ Machine!IsInstruction(program, f, ins)
  <2>1. PICK i \in 1..20, f \in DOMAIN program :
          /\ last.at = <<f, i>> /\ at = <<f, i, 2>> /\ Len(File) = 3
          /\ Ins = File[2]
          /\ File[2] = X("j", Condition(ins.by, ~IsReg(ins.s)), Code(ins.to[1]))
          /\ program[f].code[i] = Machine!Ins /\ Machine!IsInstruction(program, f, Machine!Ins)
    BY <1>0, ComparisonCodeIs
  <2> QED
    BY <2>1
<1>2. /\ Ins.op = "j" /\ Ins.src = Condition(ins.by, ~IsReg(ins.s)) /\ Ins.dst = Code(ins.to[1])
  BY <1>1, XIs
<1>3. Jump /\ program' = program /\ program \in Programs
  BY <1>2, StepIs DEF LastInv
<1>4. regs' = regs /\ mem' = mem /\ calls' = calls /\ output' = output
  BY <1>1, <1>3 DEF Jump
<1>5. CASE CompareHolds(ins)
  <2>1. GoTo(Read(Code(ins.to[1])))
    BY <1>2, <1>3, <1>5 DEF Jump
  <2>2. Machine!IsTarget(program, f, ins.to[1])
    BY <1>1 DEF Machine!IsInstruction
  <2>3. PICK j \in 1..20 : at' = <<f, j, 1>> /\ Machine!Place(ins.to[1]) = <<f, j>>
    BY <1>3, <2>1, <2>2, GoToTarget
  <2> QED
    BY <1>4, <1>5, <2>3, JumpEnds
<1>6. CASE ~CompareHolds(ins)
  <2>1. GoOn
    BY <1>2, <1>3, <1>6 DEF Jump
  <2>2. at' = <<f, i, 3>>
    BY <1>1, <2>1 DEF GoOn
  <2>3. last' = last
    BY <2>2, RecordIs
  <2>4. CompareHolds(ins)' <=> CompareHolds(ins)
    BY <1>3, <2>3, SameIs
  <2>5. at' = Append(last'.at, 3) /\ last'.at # Machine!Exit
    BY <1>1, <2>2, <2>3, TripleIs
  <2>6. regs' = last'.regs /\ mem' = last'.mem /\ calls' = last'.calls /\ output' = last'.output
    BY <1>4, <2>3
  <2>7. Midway(ins)'
    BY <1>6, <2>4, <2>5, <2>6 DEF Midway, ByFlags
  <2> QED
    BY <1>3, <2>3, <2>7, MidwayIs
<1> QED
  BY <1>5, <1>6

LEMMA ElseStep ==
  ASSUME LastInv, Step, NEW ins, ins = Machine!Ins, last.at # Machine!Exit,
         mem = last.mem, calls = last.calls, output = last.output, regs = last.regs,
         ins.op = "cjump", ByFlags(ins), at = Append(last.at, 3), ~CompareHolds(ins)
  PROVE  Between' /\ Machine!Next
<1>0. 3 \in 1..3
  OBVIOUS
<1>1. PICK i \in 1..20, f \in DOMAIN program :
        /\ last.at = <<f, i>> /\ at = <<f, i, 3>> /\ Len(File) = 3
        /\ Ins = X("jmp", None, Code(ins.to[2]))
        /\ program[f].code[i] = ins /\ Machine!IsInstruction(program, f, ins)
  <2>1. PICK i \in 1..20, f \in DOMAIN program :
          /\ last.at = <<f, i>> /\ at = <<f, i, 3>> /\ Len(File) = 3
          /\ Ins = File[3]
          /\ File[3] = X("jmp", None, Code(ins.to[2]))
          /\ program[f].code[i] = Machine!Ins /\ Machine!IsInstruction(program, f, Machine!Ins)
    BY <1>0, ComparisonCodeIs
  <2> QED
    BY <2>1
<1>2. Ins.op = "jmp" /\ Ins.dst = Code(ins.to[2])
  BY <1>1, XIs
<1>3. Jump /\ program \in Programs
  BY <1>2, StepIs DEF LastInv
<1>4. /\ regs' = regs /\ mem' = mem /\ calls' = calls /\ output' = output
      /\ GoTo(Read(Code(ins.to[2])))
  BY <1>1, <1>2, <1>3 DEF Jump
<1>5. Machine!IsTarget(program, f, ins.to[2])
  BY <1>1 DEF Machine!IsInstruction
<1>6. PICK j \in 1..20 : at' = <<f, j, 1>> /\ Machine!Place(ins.to[2]) = <<f, j>>
  BY <1>3, <1>4, <1>5, GoToTarget
<1> QED
  BY <1>4, <1>6, JumpEnds

\* By how much the stack pointer is moved.
LEMMA AdjustmentIs ==
  ASSUME NEW f, f.arguments \in Nat, f.locals \in Nat, NEW n \in Nat
  PROVE  /\ Frames!CallAdjustment(n) = 8 + 8 * Machine!StackArguments(n)
         /\ Frames!HeaderAdjustment(f) = 8 * f.locals
         /\ Frames!ReturnAdjustment(f) = 8 * f.locals + 8 * Machine!StackArguments(f.arguments)
         /\ Machine!StackArguments(n) \in Nat /\ Machine!StackArguments(f.arguments) \in Nat
BY DEF Frames!CallAdjustment, Frames!HeaderAdjustment, Frames!ReturnAdjustment,
       Frames!StackArguments, Machine!StackArguments

\* The first of two x86 instructions, one that moves the stack pointer.
LEMMA MovesRsp ==
  ASSUME LastInv, Between, Step, NEW v \in Int, NEW op \in {"addq", "subq"},
         Ins = X(op, Imm(v), Reg("rsp")), Len(File) = 2
  PROVE  /\ regs' = [last.regs EXCEPT !["rsp"] = IF op = "addq" THEN @ + v ELSE @ - v]
         /\ mem' = last.mem /\ calls' = last.calls /\ output' = last.output
         /\ last' = last /\ program' = program
         /\ at' = Append(last'.at, 2) /\ at'[1] = at[1] /\ last'.at # Machine!Exit
<1>1. /\ regs = last.regs /\ mem = last.mem /\ calls = last.calls /\ output = last.output
      /\ last.at # Machine!Exit /\ at = Append(last.at, 1) /\ 1 \in 1..3
  BY FirstIs
<1>2. Ins.op = op /\ Ins.src = Imm(v) /\ Ins.dst = Reg("rsp")
  BY XIs
<1>3. Operate /\ program' = program
  BY <1>2, StepIs
<1>4. /\ Put(Reg("rsp"), Machine!Apply(By[op], Read(Reg("rsp")), Read(Imm(v))))
      /\ GoOn /\ calls' = calls /\ output' = output
  BY <1>2, <1>3 DEF Operate
<1>5. Read(Reg("rsp")) = last.regs["rsp"] /\ Read(Imm(v)) = v
  BY <1>1, ReadIs
<1>6. Machine!Apply(By[op], last.regs["rsp"], v)
        = IF op = "addq" THEN last.regs["rsp"] + v ELSE last.regs["rsp"] - v
  <2>1. By["addq"] = "+=" /\ By["subq"] = "-="
    BY DEF By
  <2>2. \A a, b : Machine!Apply("+=", a, b) = a + b /\ Machine!Apply("-=", a, b) = a - b
    BY Zenon DEF Machine!Apply
  <2>3. CASE op = "addq"
    BY <2>1, <2>2, <2>3
  <2>4. CASE op = "subq"
    BY <2>1, <2>2, <2>4
  <2> QED
    BY <2>3, <2>4
<1>7. /\ regs' = [regs EXCEPT !["rsp"] =
                    IF op = "addq" THEN last.regs["rsp"] + v ELSE last.regs["rsp"] - v]
      /\ mem' = mem
  BY <1>4, <1>5, <1>6, PutIs
<1>8. PICK f \in DOMAIN program, i \in 1..20 : last.at = <<f, i>> /\ at = <<f, i, 1>>
  BY <1>1, FileIs
<1>9. at' = <<f, i, 2>>
  BY <1>4, <1>8 DEF GoOn
<1>10. last' = last
  BY <1>9, RecordIs
<1>11. at' = Append(last'.at, 2) /\ at'[1] = at[1]
  BY <1>8, <1>9, <1>10, TripleIs
<1>12. regs' = [last.regs EXCEPT !["rsp"] = IF op = "addq" THEN @ + v ELSE @ - v]
  BY <1>1, <1>7
<1> QED
  BY <1>1, <1>3, <1>4, <1>7, <1>10, <1>11, <1>12

LEMMA CallSubqStep ==
  ASSUME LastInv, Between, Step, Machine!Ins.op = "call"
  PROVE  Midway(Machine!Ins)' /\ last' = last
<1>1. PICK ins : ins = Machine!Ins
  OBVIOUS
<1>2. PICK f \in DOMAIN program, i \in DOMAIN program[Top.of].code :
        /\ i # 0 /\ program[f].code[i] = ins /\ Ins = File[1] /\ File = Emit(program[f], i)
        /\ Machine!IsInstruction(program, f, ins)
  BY <1>1, FirstIs
<1>3. File = << X("subq", Imm(Frames!CallAdjustment(ins.n)), Reg("rsp")),
                X("jmp", None, wrap_arg(ins.s)) >>
  BY <1>1, <1>2, EmitIs
<1>4. Frames!CallAdjustment(ins.n) \in Int
  <2>1. ins.n \in Nat
    BY <1>1, <1>2 DEF Machine!IsInstruction
  <2> QED
    BY <2>1 DEF Frames!CallAdjustment, Frames!StackArguments
<1>5. Ins = X("subq", Imm(Frames!CallAdjustment(ins.n)), Reg("rsp")) /\ Len(File) = 2
  BY <1>2, <1>3
<1>6. /\ regs' = [last.regs EXCEPT !["rsp"] = @ - Frames!CallAdjustment(ins.n)]
      /\ mem' = last.mem /\ calls' = last.calls /\ output' = last.output
      /\ last' = last /\ program' = program
      /\ at' = Append(last'.at, 2) /\ last'.at # Machine!Exit
  <2>1. PICK v \in Int : v = Frames!CallAdjustment(ins.n)
    BY <1>4
  <2> QED
    BY <1>5, <2>1, MovesRsp
<1>7. Midway(ins)'
  BY <1>1, <1>6 DEF Midway
<1> QED
  BY <1>1, <1>6, <1>7, MidwayIs

LEMMA ReturnAddqStep ==
  ASSUME LastInv, Between, Step, Machine!Ins.op = "return"
  PROVE  Midway(Machine!Ins)' /\ last' = last
<1>1. PICK ins : ins = Machine!Ins
  OBVIOUS
<1>2. PICK f \in DOMAIN program, i \in DOMAIN program[Top.of].code :
        /\ i # 0 /\ program[f].code[i] = ins /\ Ins = File[1] /\ File = Emit(program[f], i)
        /\ at = <<f, i, 1>>
  BY <1>1, FirstIs
<1>3. File = << X("addq", Imm(Frames!ReturnAdjustment(program[f])), Reg("rsp")),
                X("ret", None, None) >>
  BY <1>1, <1>2, EmitIs
<1>4. Frames!ReturnAdjustment(program[f]) \in Int
  BY CodeIs DEF LastInv, Frames!ReturnAdjustment, Frames!StackArguments
<1>5. Ins = X("addq", Imm(Frames!ReturnAdjustment(program[f])), Reg("rsp")) /\ Len(File) = 2
  BY <1>2, <1>3
<1>6. /\ regs' = [last.regs EXCEPT !["rsp"] = @ + Frames!ReturnAdjustment(program[f])]
      /\ mem' = last.mem /\ calls' = last.calls /\ output' = last.output
      /\ last' = last /\ program' = program
      /\ at' = Append(last'.at, 2) /\ at'[1] = f /\ last'.at # Machine!Exit
  <2>1. PICK v \in Int : v = Frames!ReturnAdjustment(program[f])
    BY <1>4
  <2> QED
    BY <1>2, <1>5, <2>1, MovesRsp
<1>7. Midway(ins)'
  BY <1>1, <1>6 DEF Midway
<1> QED
  BY <1>1, <1>6, <1>7, MidwayIs

\* Where the addq of a return leads.
LEMMA LeavingIs ==
  ASSUME LastInv, last.at # Machine!Exit
  PROVE  last.regs["rsp"] + Frames!ReturnAdjustment(program[Top.of]) = Top.rsp - 8
<1>1. program \in Programs /\ Top.of \in DOMAIN program
  BY TopIs DEF LastInv
<1>2. /\ Frames!ReturnAdjustment(program[Top.of])
           = 8 * program[Top.of].locals + 8 * Machine!StackArguments(program[Top.of].arguments)
      /\ program[Top.of].locals \in Nat
      /\ Machine!StackArguments(program[Top.of].arguments) \in Nat
  BY <1>1, CodeIs, AdjustmentIs
<1>3. /\ last.regs["rsp"] = Top.rsp - 8 - 8 * Machine!StackArguments(program[Top.of].arguments)
                              - 8 * program[Top.of].locals
      /\ Top.rsp \in Int
  BY TopIs, StackAssumption DEF Body
<1> QED
  BY <1>2, <1>3

\* A return finds its address above its frame, whatever is in the frame.
LEMMA RetStep ==
  ASSUME LastInv, Step, last.at # Machine!Exit, Machine!Ins.op = "return",
         mem = last.mem, calls = last.calls, output = last.output, at = Append(last.at, 2),
         regs = [last.regs EXCEPT !["rsp"] = @ + Frames!ReturnAdjustment(program[at[1]])]
  PROVE  Between' /\ Machine!Next
<1> DEFINE ins == Machine!Ins
<1>0. 2 \in 1..3
  OBVIOUS
<1>1. PICK f \in DOMAIN program, i \in 1..20 :
        /\ f = Top.of /\ last.at = <<f, i>> /\ at = <<f, i, 2>>
        /\ program[f].code[i] = ins /\ Ins = File[2] /\ File = Emit(program[f], i)
  BY <1>0, FileIs
<1>2. File = << X("addq", Imm(Frames!ReturnAdjustment(program[f])), Reg("rsp")),
                X("ret", None, None) >>
  <2>1. i # 0
    OBVIOUS
  <2> QED
    BY <1>1, <2>1, EmitIs
<1>3. Ins.op = "ret"
  BY <1>1, <1>2, XIs
<1>4. Ret /\ program' = program /\ program \in Programs
  BY <1>3, StepIs DEF LastInv
<1>5. "rsp" \in Machine!Registers /\ last.regs \in [Machine!Registers -> Int]
  BY DEF Machine!Registers, LastInv
<1>6. /\ Top.rsp \in 8..StackTop /\ Top.rsp % 8 = 0 /\ last.regs["rsp"] = Body(program, Top)
      /\ Len(last.calls) \in DOMAIN last.calls
  BY TopIs
<1>7. regs["rsp"] = Top.rsp - 8 /\ Top.rsp \in Int
  <2>1. regs["rsp"] = last.regs["rsp"] + Frames!ReturnAdjustment(program[f])
    BY <1>1, <1>5
  <2>2. Top.rsp \in Int
    BY <1>6, StackAssumption
  <2> QED
    BY <1>1, <2>1, <2>2, LeavingIs
<1>8. mem[regs["rsp"]] = Machine!Address(Top.to)
  BY <1>6, <1>7 DEF LastInv, ReturnsInv, Top
<1>9. regs' = [last.regs EXCEPT !["rsp"] = Top.rsp]
  <2>1. regs' = [regs EXCEPT !["rsp"] = @ + 8]
    BY <1>4 DEF Ret
  <2>2. regs["rsp"] + 8 = Top.rsp
    BY <1>7
  <2> QED
    BY <1>5, <2>1, <2>2
<1>10. /\ GoTo(Machine!Address(Top.to)) /\ mem' = last.mem /\ output' = last.output
       /\ calls' = SubSeq(last.calls, 1, Len(last.calls) - 1)
  BY <1>4, <1>8 DEF Ret, Front
<1>11. \E g, j : /\ Top.to = <<g, j>> /\ Top.to \in Machine!Positions
                 /\ (g = 0 /\ j = 0) \/ (g \in DOMAIN program /\ j \in 1..20)
  <2>1. \/ Top.to = Machine!Exit
        \/ \E c : /\ last.calls[c - 1].of \in DOMAIN program
                  /\ \E j \in DOMAIN program[last.calls[c - 1].of].code :
                       Top.to = <<last.calls[c - 1].of, j>>
    <3>1. CASE Len(last.calls) = 1
      BY <1>6, <3>1 DEF LastInv, CallsInv, Top
    <3>2. CASE Len(last.calls) # 1
      <4>1. Len(last.calls) - 1 \in DOMAIN last.calls
        <5>1. PICK n \in Nat : n = Len(last.calls) /\ n \in 1..n /\ DOMAIN last.calls = 1..n
          BY TopIs
        <5>2. \A m \in Nat : m \in 1..m /\ m # 1 => m - 1 \in 1..m
          OBVIOUS
        <5> QED
          BY <3>2, <5>1, <5>2
      <4> QED
        BY <1>6, <4>1 DEF LastInv, CallsInv, Top
    <3> QED
      BY <3>1, <3>2
  <2>2. CASE Top.to = Machine!Exit
    BY <1>4, <2>2, PositionsAre DEF Machine!Exit
  <2>3. CASE \E g \in DOMAIN program : \E j \in DOMAIN program[g].code : Top.to = <<g, j>>
    <3>1. PICK g \in DOMAIN program : \E j \in DOMAIN program[g].code : Top.to = <<g, j>>
      BY <2>3
    <3>2. PICK j \in DOMAIN program[g].code : Top.to = <<g, j>>
      BY <3>1
    <3>3. j \in 1..20 /\ <<g, j>> \in Machine!Positions
      BY <1>4, CodeIs, PlaceIs
    <3> QED
      BY <3>2, <3>3
  <2> QED
    BY <2>1, <2>2, <2>3
<1>12. PICK g, j : /\ Top.to = <<g, j>> /\ <<g, j>> \in Machine!Positions
                   /\ (g = 0 /\ j = 0) \/ (g \in DOMAIN program /\ j \in 1..20)
  BY <1>11
<1>13. at' = <<g, j, 1>>
  <2>1. at' = Append(<<g, j>>, 1)
    BY <1>4, <1>10, <1>12, GoToIs
  <2> QED
    BY <2>1, TripleIs
<1>14. /\ last'.regs = regs' /\ last'.mem = mem' /\ last'.calls = calls'
       /\ last'.output = output' /\ last'.at = <<g, j>> /\ Between'
  BY <1>12, <1>13, EndIs
<1>15. Machine!Return
  BY <1>9, <1>10, <1>12, <1>14 DEF Machine!Return, Machine!Last, Machine!Front, Top
<1> QED
  BY <1>4, <1>14, <1>15 DEF Machine!Next

\* The jump of a call leads to the header of the function it calls.
LEMMA CallJmpStep ==
  ASSUME LastInv, Machine!WellBehaved, Step, NEW ins, ins = Machine!Ins,
         last.at # Machine!Exit, ins.op = "call",
         mem = last.mem, calls = last.calls, output = last.output, at = Append(last.at, 2),
         regs = [last.regs EXCEPT !["rsp"] = @ - Frames!CallAdjustment(ins.n)]
  PROVE  /\ Entering' /\ last' = last /\ regs' = regs
         /\ at'[1] \in DOMAIN program /\ program[at'[1]].arguments = ins.n
         /\ calls' = Append(last.calls,
                       [of |-> at'[1], rsp |-> last.regs["rsp"],
                        to |-> Machine!Position(last.mem[last.regs["rsp"] - 8])])
<1>0. 2 \in 1..3
  OBVIOUS
<1>1. PICK f \in DOMAIN program, i \in 1..20 :
        /\ f = Top.of /\ last.at = <<f, i>> /\ at = <<f, i, 2>>
        /\ program[f].code[i] = ins /\ Ins = File[2] /\ File = Emit(program[f], i)
  BY <1>0, FileIs
<1>2. File = << X("subq", Imm(Frames!CallAdjustment(ins.n)), Reg("rsp")),
                X("jmp", None, wrap_arg(ins.s)) >>
  <2>1. i # 0
    OBVIOUS
  <2> QED
    BY <1>1, <2>1, EmitIs
<1>3. Ins.op = "jmp" /\ Ins.dst = wrap_arg(ins.s)
  BY <1>1, <1>2, XIs
<1>4. Jump /\ program' = program /\ program \in Programs
  BY <1>3, StepIs DEF LastInv
<1>5. PICK g \in DOMAIN program :
        /\ Machine!Value(ins.s) = Machine!Address(<<g, 0>>) /\ program[g].arguments = ins.n
        /\ g \in Nat /\ g >= 1 /\ <<g, 0>> \in Machine!Positions
  BY <1>4, CallIs, CodeIs, PlaceIs
<1>6. Read(wrap_arg(ins.s)) = Machine!Value(ins.s)
  <2>1. Machine!IsRegister(ins.s) \/ Machine!IsLabel(program, ins.s)
    BY InsIs DEF Machine!IsInstruction
  <2>2. CASE Machine!IsLabel(program, ins.s)
    <3>1. ins.s[1] = "label"
      BY <2>2 DEF Machine!IsLabel
    <3>2. wrap_arg(ins.s) = Code(ins.s[2])
      BY <3>1, Zenon DEF wrap_arg
    <3>3. Machine!Value(ins.s) = Machine!Address(Machine!Place(ins.s[2]))
      BY <3>1, Zenon DEF Machine!Value
    <3> QED
      BY <3>2, <3>3, ReadIs
  <2>3. CASE Machine!IsRegister(ins.s)
    <3>1. ins.s[1] = "reg"
      BY <2>3 DEF Machine!IsRegister
    <3>2. wrap_arg(ins.s) = Reg(ins.s[2])
      BY <3>1, Zenon DEF wrap_arg
    <3>3. Machine!Value(ins.s) = last.regs[ins.s[2]]
      BY <3>1, Zenon DEF Machine!Value
    <3>4. ins.s[2] # "rsp"
      <4>1. last.regs["rsp"] >= 0
        BY TopIs
      <4>2. Machine!Address(<<g, 0>>) = -(100 * g + 1)
        BY <1>5 DEF Machine!Address
      <4> QED
        BY <1>5, <3>3, <4>1, <4>2
    <3>5. regs[ins.s[2]] = last.regs[ins.s[2]]
      BY <2>3, <3>4 DEF LastInv, Machine!IsRegister
    <3> QED
      BY <3>2, <3>3, <3>5, ReadIs
  <2> QED
    BY <2>1, <2>2, <2>3
<1>7. at' = <<g, 0, 1>>
  <2>1. GoTo(Machine!Address(<<g, 0>>))
    BY <1>3, <1>4, <1>5, <1>6 DEF Jump
  <2>2. at' = Append(<<g, 0>>, 1)
    BY <1>4, <1>5, <2>1, GoToIs
  <2> QED
    BY <2>2, TripleIs
<1>8. /\ calls' = Append(last.calls,
                   [of |-> g, rsp |-> last.regs["rsp"],
                    to |-> Machine!Position(last.mem[last.regs["rsp"] - 8])])
      /\ regs' = regs /\ mem' = mem /\ output' = output
  BY <1>1, <1>4, <1>7 DEF Jump
<1>9. last' = last
  BY <1>5, <1>7, RecordIs
<1>10. Machine!Ins' = ins
  BY <1>4, <1>9 DEF Machine!Ins
<1>11. Machine!Value(ins.s)' = Machine!Address(<<g, 0>>)
  <2>1. Machine!Value(ins.s)' = Machine!Value(ins.s)
    BY <1>4, <1>9 DEF Machine!Value, Machine!Place, Machine!Positions, Machine!Exit
  <2> QED
    BY <1>5, <2>1
<1>12. Machine!Value(Machine!Ins.s)' = Machine!Address(<<g, 0>>)
  <2>1. Machine!Value(Machine!Ins.s)' = Machine!Value(ins.s)'
    BY <1>10 DEF Machine!Value
  <2> QED
    BY <1>11, <2>1
<1>13. Entering'
  <2>1. /\ \E f_1 \in DOMAIN program' : at' = <<f_1, 0, 1>>
        /\ mem' = last'.mem /\ output' = last'.output /\ at'[1] = g
    BY <1>1, <1>4, <1>5, <1>7, <1>8, <1>9
  <2>2. last'.at # Machine!Exit /\ Machine!Ins'.op = "call"
    BY <1>9, <1>10
  <2>3. /\ regs' = [last'.regs EXCEPT !["rsp"] = @ - Frames!CallAdjustment(Machine!Ins'.n)]
        /\ calls' = Append(last'.calls,
                      [of |-> at'[1], rsp |-> last'.regs["rsp"],
                       to |-> Machine!Position(last.mem[last.regs["rsp"] - 8])])
    BY <1>8, <1>9, <1>10, <2>1
  <2>4. Machine!Position(last.mem[last.regs["rsp"] - 8])'
          = Machine!Position(last.mem[last.regs["rsp"] - 8])
    BY <1>4, <1>9 DEF Machine!Position, Machine!Positions
  <2> QED
    BY <1>12, <2>1, <2>2, <2>3, <2>4 DEF Entering
<1> QED
  BY <1>5, <1>7, <1>8, <1>9, <1>13

\* The header makes room for the locals: the call is done, or main begins.
LEMMA HeaderStep ==
  ASSUME LastInv, Machine!WellBehaved, Entering, Step
  PROVE  /\ Between' /\ (Machine!Next \/ UNCHANGED Machine!machine)
         /\ regs' = [regs EXCEPT !["rsp"] = @ - Frames!HeaderAdjustment(program[at[1]])]
         /\ mem' = mem /\ calls' = calls /\ at' = <<at[1], 1, 1>> /\ at[1] \in DOMAIN program
<1>1. PICK f \in DOMAIN program : at = <<f, 0, 1>>
  BY DEF Entering
<1>2. program \in Programs /\ program' = program /\ last.regs \in [Machine!Registers -> Int]
      /\ mem = last.mem /\ output = last.output /\ "rsp" \in Machine!Registers
  BY StepIs DEF LastInv, Entering, Machine!Registers
<1>3. /\ program[f].locals \in Nat /\ program[f].arguments \in Nat /\ 1 \in DOMAIN program[f].code
      /\ Frames!HeaderAdjustment(program[f]) = 8 * program[f].locals
  <2>1. /\ program[f].locals \in Nat /\ program[f].arguments \in Nat
        /\ 1 \in DOMAIN program[f].code
    BY <1>2, CodeIs
  <2> QED
    BY <2>1, AdjustmentIs
<1> DEFINE h == 8 * program[f].locals
<1>4. File = << X("subq", Imm(h), Reg("rsp")) >> /\ Ins = File[1]
  BY <1>1, <1>3 DEF File, Ins, Emit, HeaderCode
<1>5. Len(File) = 1 /\ Ins.op = "subq" /\ Ins.src = Imm(h) /\ Ins.dst = Reg("rsp")
  BY <1>4, XIs
<1>6. /\ Put(Reg("rsp"), Machine!Apply(By["subq"], Read(Reg("rsp")), Read(Imm(h))))
      /\ GoOn /\ calls' = calls /\ output' = output
  BY <1>5, StepIs DEF Operate
<1> HIDE DEF h
<1>7. regs' = [regs EXCEPT !["rsp"] = @ - h] /\ mem' = mem
  <2>1. By["subq"] = "-="
    BY DEF By
  <2>2. Machine!Apply("-=", regs["rsp"], h) = regs["rsp"] - h
    BY Zenon DEF Machine!Apply
  <2>3. Read(Reg("rsp")) = regs["rsp"] /\ Read(Imm(h)) = h
    BY ReadIs
  <2> QED
    BY <1>6, <2>1, <2>2, <2>3, PutIs
<1>8. at' = <<f, 1, 1>>
  BY <1>1, <1>5, <1>6 DEF GoOn
<1>9. /\ last'.regs = regs' /\ last'.mem = mem' /\ last'.calls = calls'
      /\ last'.output = output' /\ last'.at = <<f, 1>> /\ Between'
  <2>1. 1 \in 1..20
    OBVIOUS
  <2> QED
    BY <1>8, <2>1, EndIs
<1>10. /\ regs' = [regs EXCEPT !["rsp"] = @ - Frames!HeaderAdjustment(program[at[1]])]
       /\ mem' = mem /\ calls' = calls /\ at' = <<at[1], 1, 1>> /\ at[1] = f
  BY <1>1, <1>3, <1>6, <1>7, <1>8 DEF h
<1>11. CASE /\ last.at = <<f, 1>> /\ calls = last.calls
            /\ regs = [last.regs EXCEPT !["rsp"] = @ + h]
  <2>1. regs' = last.regs
    BY <1>2, <1>3, <1>7, <1>11 DEF h
  <2> QED
    BY <1>2, <1>6, <1>7, <1>9, <1>10, <1>11, <2>1 DEF Machine!machine
<1>12. CASE /\ last.at # Machine!Exit /\ Machine!Ins.op = "call"
            /\ Machine!Value(Machine!Ins.s) = Machine!Address(<<f, 0>>)
            /\ regs = [last.regs EXCEPT !["rsp"] = @ - Frames!CallAdjustment(Machine!Ins.n)]
            /\ calls = Append(last.calls,
                         [of |-> f, rsp |-> last.regs["rsp"],
                          to |-> Machine!Position(last.mem[last.regs["rsp"] - 8])])
  <2>1. Machine!Position(Machine!Value(Machine!Ins.s))[1] = f
    <3>1. <<f, 0>> \in Machine!Positions
      BY <1>2, PlaceIs
    <3>2. Machine!Position(Machine!Value(Machine!Ins.s)) = <<f, 0>>
      BY <1>2, <1>12, <3>1, AddressIs
    <3> QED
      BY <3>2
  <2>2. Machine!Ins.n \in Nat
    BY <1>12, InsIs DEF Machine!IsInstruction
  <2>3. last'.regs = [last.regs EXCEPT !["rsp"] =
                        @ - 8 - 8 * Machine!StackArguments(Machine!Ins.n) - 8 * program[f].locals]
    <3>1. PICK s \in Nat : s = Machine!StackArguments(Machine!Ins.n)
                           /\ Frames!CallAdjustment(Machine!Ins.n) = 8 + 8 * s
      BY <1>3, <2>2, AdjustmentIs
    <3>2. PICK r \in Int : r = last.regs["rsp"]
      BY <1>2
    <3>3. PICK l \in Nat : l = program[f].locals
      BY <1>3
    <3>4. (r - (8 + 8 * s)) - 8 * l = r - 8 - 8 * s - 8 * l
      OBVIOUS
    <3>5. regs' = [last.regs EXCEPT !["rsp"] = (r - (8 + 8 * s)) - 8 * l]
      BY <1>2, <1>7, <1>12, <3>1, <3>2, <3>3 DEF h
    <3> QED
      BY <1>9, <3>1, <3>2, <3>3, <3>4, <3>5
  <2>4. last'.calls = Append(last.calls,
                        [of |-> f, to |-> Machine!Position(last.mem[last.regs["rsp"] - 8]),
                         rsp |-> last.regs["rsp"]])
    BY <1>6, <1>9, <1>12
  <2>5. Machine!Call
    BY <1>2, <1>6, <1>7, <1>9, <1>12, <2>1, <2>3, <2>4, Zenon DEF Machine!Call
  <2> QED
    BY <1>2, <1>9, <1>10, <1>12, <2>5 DEF Machine!Next
<1> QED
  BY <1>1, <1>3, <1>11, <1>12 DEF Entering, h

-----------------------------------------------------------------------------
(***************************************************************************)
(* All steps, and the beginning.                                           *)
(***************************************************************************)
\* An instruction other than a call or a return ends, or is on its way.
LEMMA QuietStep ==
  ASSUME LastInv, Machine!WellBehaved, Between \/ Midway(Machine!Ins), Step,
         Machine!Ins.op \notin {"call", "return"}
  PROVE  \/ Midway(Machine!Ins)' /\ last' = last
         \/ Between' /\ Machine!Next
<1>1. CASE Between
  <2>1. PICK f \in DOMAIN program : Machine!IsInstruction(program, f, Machine!Ins)
    BY <1>1, FirstIs
  <2>2. Machine!Ins.op \in {"assign", "load", "store", "aop", "maop", "maop2", "shift", "cmp",
                            "lea", "label", "goto", "cjump", "runtime"}
    BY <2>1 DEF Machine!IsInstruction
  <2>3. Machine!Ins.op = "cjump" => ByFlags(Machine!Ins)
    BY <1>1, FirstIs, ComparisonIs
  <2> QED
    BY <1>1, <2>2, <2>3, AssignStep, LoadStep, StoreStep, AopStep, MaopStep, Maop2Step,
       ShiftStep, ConstantsStep, CmpqStep, LeaStep, LabelStep, GotoStep, RuntimeStep
<1>2. CASE Midway(Machine!Ins)
  <2>1. PICK ins : ins = Machine!Ins
    OBVIOUS
  <2>2. /\ Midway(ins) /\ ins.op \notin {"call", "return"}
        /\ last.at # Machine!Exit /\ mem = last.mem /\ calls = last.calls /\ output = last.output
    BY <1>2, <2>1 DEF Midway
  <2>3. CASE /\ ins.op \in {"cmp", "cjump"} /\ ByFlags(ins) /\ at = Append(last.at, 2)
             /\ True(Condition(ins.by, ~IsReg(ins.s))) <=> CompareHolds(ins)
             /\ regs = last.regs
    BY <2>1, <2>2, <2>3, SetStep, JStep
  <2>4. CASE /\ ins.op = "cmp" /\ ByFlags(ins) /\ at = Append(last.at, 3)
             /\ regs = [last.regs EXCEPT ![ins.w] =
                          256 * (@ \div 256) + (IF CompareHolds(ins) THEN 1 ELSE 0)]
    BY <2>1, <2>2, <2>4, MovzbqStep
  <2>5. CASE /\ ins.op = "cjump" /\ ByFlags(ins) /\ at = Append(last.at, 3)
             /\ ~CompareHolds(ins)
             /\ regs = last.regs
    BY <2>1, <2>2, <2>5, ElseStep
  <2> QED
    BY <2>2, <2>3, <2>4, <2>5 DEF Midway
<1> QED
  BY <1>1, <1>2

\* A call and a return take two steps each.
LEMMA CallStep ==
  ASSUME LastInv, Machine!WellBehaved, Between \/ Midway(Machine!Ins), Step,
         Machine!Ins.op = "call"
  PROVE  \/ Between /\ Midway(Machine!Ins)' /\ last' = last
         \/ Midway(Machine!Ins) /\ Entering' /\ last' = last
<1>1. CASE Between
  BY <1>1, CallSubqStep
<1>2. CASE Midway(Machine!Ins)
  <2>1. PICK ins : ins = Machine!Ins
    OBVIOUS
  <2>2. /\ last.at # Machine!Exit /\ mem = last.mem /\ calls = last.calls /\ output = last.output
        /\ ins.op = "call" /\ at = Append(last.at, 2)
        /\ regs = [last.regs EXCEPT !["rsp"] = @ - Frames!CallAdjustment(ins.n)]
    BY <1>2, <2>1 DEF Midway
  <2> QED
    BY <1>2, <2>1, <2>2, CallJmpStep
<1> QED
  BY <1>1, <1>2

LEMMA ReturnStep ==
  ASSUME LastInv, Between \/ Midway(Machine!Ins), Step, Machine!Ins.op = "return"
  PROVE  \/ Between /\ Midway(Machine!Ins)' /\ last' = last
         \/ Midway(Machine!Ins) /\ Between' /\ Machine!Next
<1>1. CASE Between
  BY <1>1, ReturnAddqStep
<1>2. CASE Midway(Machine!Ins)
  <2>1. /\ last.at # Machine!Exit /\ mem = last.mem /\ calls = last.calls /\ output = last.output
        /\ at = Append(last.at, 2)
        /\ regs = [last.regs EXCEPT !["rsp"] = @ + Frames!ReturnAdjustment(program[at[1]])]
    BY <1>2 DEF Midway
  <2> QED
    BY <1>2, <2>1, RetStep
<1> QED
  BY <1>1, <1>2

LEMMA StutterKeeps ==
  ASSUME LastInv, UNCHANGED Machine!machine
  PROVE  LastInv'
BY DEF LastInv, Machine!machine, Inside

LEMMA StepKeeps ==
  ASSUME Integral, IInv, Machine!WellBehaved, Step
  PROVE  IInv' /\ (Machine!Next \/ UNCHANGED Machine!machine)
<1>1. LastInv /\ program' = program /\ (Between \/ Entering \/ Midway(Machine!Ins))
  BY StepIs DEF IInv
<1>2. /\ (Between \/ Entering \/ Midway(Machine!Ins))'
      /\ Machine!Next \/ UNCHANGED Machine!machine
  <2>1. CASE Entering
    BY <1>1, <2>1, HeaderStep
  <2>2. CASE Between \/ Midway(Machine!Ins)
    <3>1. last' = last => UNCHANGED Machine!machine
      BY <1>1 DEF Machine!machine
    <3> QED
      BY <1>1, <2>2, <3>1, QuietStep, CallStep, ReturnStep
  <2> QED
    BY <1>1, <2>1, <2>2
<1>3. LastInv'
  BY <1>1, <1>2, MachineKeeps, StutterKeeps
<1> QED
  BY <1>2, <1>3 DEF IInv

LEMMA NextKeeps ==
  ASSUME Integral, IInv, Machine!WellBehaved, [Next]_vars
  PROVE  IInv' /\ [Machine!Next]_Machine!machine
<1>1. CASE Step
  BY <1>1, StepKeeps
<1>2. CASE UNCHANGED vars
  <2>1. UNCHANGED <<program, regs, flags, mem, at, calls, output, last>>
    BY <1>2 DEF vars
  <2>2. UNCHANGED Machine!machine
    BY <2>1 DEF Machine!machine
  <2>3. LastInv /\ LastInv'
    BY <2>2, StutterKeeps DEF IInv
  <2>4. CASE Between
    <3>1. Between'
      BY <2>1, <2>4 DEF Between
    <3> QED
      BY <2>2, <2>3, <3>1 DEF IInv
  <2>5. CASE Entering
    <3>1. PICK ins : ins = Machine!Ins /\ Machine!Ins' = ins
      BY <2>1 DEF Machine!Ins
    <3>2. Machine!Value(Machine!Ins.s)' = Machine!Value(Machine!Ins.s)
      <4>1. Machine!Value(ins.s)' = Machine!Value(ins.s)
        BY <2>1 DEF Machine!Value, Machine!Place, Machine!Positions, Machine!Exit
      <4>2. Machine!Value(Machine!Ins.s)' = Machine!Value(ins.s)'
        BY <3>1 DEF Machine!Value
      <4> QED
        BY <3>1, <4>1, <4>2
    <3>3. Machine!Position(last.mem[last.regs["rsp"] - 8])'
            = Machine!Position(last.mem[last.regs["rsp"] - 8])
      BY <2>1 DEF Machine!Position, Machine!Positions
    <3>4. Entering'
      BY <2>1, <2>5, <3>1, <3>2, <3>3 DEF Entering
    <3> QED
      BY <2>2, <2>3, <3>4 DEF IInv
  <2>6. CASE Midway(Machine!Ins)
    <3>1. PICK ins : ins = Machine!Ins
      OBVIOUS
    <3>2. Midway(ins) /\ last.at # Machine!Exit
      BY <2>6, <3>1 DEF Midway
    <3>3. ins.op \in {"cmp", "cjump"} => (CompareHolds(ins)' <=> CompareHolds(ins))
      BY <2>1, <2>3, <3>1, <3>2, SameIs
    <3>4. True(Condition(ins.by, ~IsReg(ins.s)))' <=> True(Condition(ins.by, ~IsReg(ins.s)))
      BY <2>1 DEF True
    <3>5. Midway(ins)'
      BY <2>1, <3>2, <3>3, <3>4 DEF Midway
    <3>6. Midway(Machine!Ins)'
      BY <2>1, <3>1, <3>5, MidwayIs
    <3> QED
      BY <2>2, <2>3, <3>6 DEF IInv
  <2> QED
    BY <2>4, <2>5, <2>6 DEF IInv
<1> QED
  BY <1>1, <1>2 DEF Next

LEMMA InitIs ==
  ASSUME Init
  PROVE  IInv /\ Machine!Init
<1> DEFINE l == program[1].locals
           c == [of |-> 1, to |-> Machine!Exit, rsp |-> StackTop]
<1>1. program \in Programs /\ flags = "none" /\ at = <<1, 0, 1>> /\ output = <<>>
      /\ calls = << c >>
      /\ mem = [a \in Machine!Words |->
                  IF a = StackTop - 8 THEN Machine!Address(Machine!Exit) ELSE 0]
      /\ last = [regs |-> [regs EXCEPT !["rsp"] = @ - 8 * l], mem |-> mem, at |-> <<1, 1>>,
                 calls |-> calls, output |-> output]
  BY DEF Init
<1>2. PICK r \in InitialRegs : regs = [r EXCEPT !["rsp"] = StackTop - 8]
  BY DEF Init
<1>3. /\ 1 \in DOMAIN program /\ program[1].arguments <= 6 /\ 8 + 8 * l <= StackTop
      /\ program[1].arguments \in Nat /\ l \in Nat /\ 1 \in DOMAIN program[1].code
      /\ StackTop \in Nat /\ StackTop % 8 = 0
  <2>1. /\ 1 \in DOMAIN program /\ program[1].arguments <= 6 /\ 8 + 8 * l <= StackTop
        /\ StackTop \in Nat /\ StackTop % 8 = 0
    BY <1>1, MainIs, StackAssumption
  <2>2. /\ program[1].arguments \in Nat /\ l \in Nat
        /\ DOMAIN program[1].code = 1..Len(program[1].code) /\ Len(program[1].code) \in 1..20
    BY <1>1, <2>1, CodeIs
  <2>3. \A n \in 1..20 : 1 \in 1..n
    OBVIOUS
  <2> QED
    BY <2>1, <2>2, <2>3
<1>4. r \in [Machine!Registers -> Int] /\ "rsp" \in Machine!Registers
  BY <1>2, RegsAssumption DEF Machine!Registers
<1>5. Body(program, c) = StackTop - 8 - 8 * l
  BY <1>3 DEF Body, Machine!StackArguments
<1> HIDE DEF l
<1>6. last.regs = [r EXCEPT !["rsp"] = StackTop - 8 - 8 * l]
  BY <1>1, <1>2, <1>4
<1>7. last.regs \in [Machine!Registers -> Int] /\ last.regs["rsp"] = StackTop - 8 - 8 * l
  BY <1>3, <1>4, <1>6
<1>8. Machine!Address(Machine!Exit) \in Int
  BY DEF Machine!Address, Machine!Exit
<1>9. last.mem \in [Machine!Words -> Int]
  BY <1>1, <1>8
<1>10. StackTop \in 8..StackTop /\ StackTop - 8 \in Machine!Words
  BY <1>3, WordIs
<1>11. CallsInv(program, << c >>)
  <2>1. c \in Activations
    BY <1>3 DEF Activations, Machine!Exit
  <2>2. << c >> \in Seq(Activations) /\ DOMAIN << c >> = {1} /\ << c >>[1] = c
    BY <2>1
  <2>3. Body(program, c) >= 0
    BY <1>3, <1>5
  <2>4. c.of = 1 /\ c.to = Machine!Exit /\ c.rsp = StackTop
    OBVIOUS
  <2> HIDE DEF c
  <2> QED
    BY <1>3, <1>10, <2>2, <2>3, <2>4 DEF CallsInv
<1>12. ReturnsInv(<< c >>, last.mem)
  BY <1>1, <1>10 DEF ReturnsInv
<1>13. Inside(program, last.at, last.calls, last.regs["rsp"])
  BY <1>1, <1>3, <1>5, <1>7 DEF Inside
<1>14. LastInv
  BY <1>1, <1>7, <1>9, <1>11, <1>12, <1>13 DEF LastInv
<1>15. Entering
  <2>1. Frames!HeaderAdjustment(program[1]) = 8 * l
    BY <1>3, AdjustmentIs DEF l
  <2>2. regs = [last.regs EXCEPT !["rsp"] = @ + Frames!HeaderAdjustment(program[1])]
    <3>1. last.regs["rsp"] + 8 * l = StackTop - 8
      BY <1>3, <1>7
    <3> QED
      BY <1>2, <1>4, <1>6, <2>1, <3>1
  <2>3. at[1] = 1
    BY <1>1
  <2> QED
    BY <1>1, <1>3, <2>2, <2>3 DEF Entering
<1>16. Machine!Init
  BY <1>1, <1>6 DEF Machine!Init, l
<1> QED
  BY <1>14, <1>15, <1>16 DEF IInv

-----------------------------------------------------------------------------
(***************************************************************************)
(* Where control and the stack pointer are.                                *)
(***************************************************************************)
LEMMA LengthIs ==
  ASSUME LastInv, last.at # Machine!Exit, NEW k \in 1..3, at = Append(last.at, k)
  PROVE  /\ Len(File) \in 1..3
         /\ Machine!Ins.op \in {"cmp", "cjump"} /\ ByFlags(Machine!Ins) => Len(File) = 3
         /\ Machine!Ins.op \in {"call", "return"} => Len(File) = 2
         /\ at[1] \in DOMAIN program /\ at[2] \in 0..Len(program[at[1]].code) /\ at[3] = k
<1>1. PICK ins : ins = Machine!Ins
  OBVIOUS
<1>2. PICK f : f = Top.of
  OBVIOUS
<1>3. f \in DOMAIN program /\ program \in Programs
  BY <1>2, FileIs DEF LastInv
<1>4. PICK i \in DOMAIN program[f].code :
        /\ i \in 1..20 /\ at = <<f, i, k>>
        /\ program[f].code[i] = ins /\ File = Emit(program[f], i)
        /\ Machine!IsInstruction(program, f, ins)
  BY <1>1, <1>2, FileIs
<1>5. i # 0
  BY <1>4
<1>6. ins.op \in {"assign", "load", "store", "aop", "maop", "maop2", "shift", "cmp", "lea",
                  "label", "goto", "cjump", "call", "return", "runtime"}
  BY <1>4 DEF Machine!IsInstruction
<1>7. /\ Len(Emit(program[f], i)) \in 1..3
      /\ ins.op \in {"cmp", "cjump"} /\ ByFlags(ins) => Len(Emit(program[f], i)) = 3
      /\ ins.op \in {"call", "return"} => Len(Emit(program[f], i)) = 2
  <2>1. /\ Len(CompareCode(ins)) \in 1..3 /\ Len(CjumpCode(ins)) \in 1..3
        /\ ByFlags(ins) => Len(CompareCode(ins)) = 3 /\ Len(CjumpCode(ins)) = 3
    BY DEF CompareCode, CjumpCode, ByFlags
  <2>2. \A a : Len(<< a >>) = 1
    OBVIOUS
  <2>3. \A a, b : Len(<< a, b >>) = 2
    OBVIOUS
  <2>4. 1 \in 1..3 /\ 2 \in 1..3
    OBVIOUS
  <2>5. CASE ins.op \in {"cmp", "cjump"}
    BY <1>4, <1>5, <2>1, <2>5, EmitIs
  <2>6. CASE ins.op \in {"call", "return", "goto"}
    BY <1>4, <1>5, <2>3, <2>4, <2>6, EmitIs
  <2>7. CASE ins.op \in {"assign", "load", "store", "aop", "maop", "maop2", "shift", "lea",
                         "label", "runtime"}
    BY <1>4, <1>5, <2>2, <2>4, <2>7, EmitIs
  <2> QED
    BY <1>6, <2>5, <2>6, <2>7
<1>8. at[1] \in DOMAIN program /\ at[2] \in 0..Len(program[at[1]].code) /\ at[3] = k
  <2>1. PICK n \in Nat : n = Len(program[f].code) /\ i \in 1..n
    BY <1>3, <1>4, CodeIs
  <2>2. i \in 0..n
    BY <2>1
  <2> QED
    BY <1>3, <1>4, <2>1, <2>2
<1> QED
  BY <1>1, <1>4, <1>7, <1>8

LEMMA RspIs ==
  ASSUME LastInv, last.at # Machine!Exit
  PROVE  /\ last.regs["rsp"] \in 0..StackTop /\ last.regs["rsp"] % 8 = 0
         /\ last.regs["rsp"] + Frames!ReturnAdjustment(program[Top.of]) \in 0..StackTop
         /\ (last.regs["rsp"] + Frames!ReturnAdjustment(program[Top.of])) % 8 = 0
         /\ Machine!WellBehaved /\ Machine!Ins.op = "call" =>
              /\ last.regs["rsp"] - Frames!CallAdjustment(Machine!Ins.n) \in 0..StackTop
              /\ (last.regs["rsp"] - Frames!CallAdjustment(Machine!Ins.n)) % 8 = 0
         /\ Len(last.calls) \in Nat /\ Len(last.calls) >= 1
<1> DEFINE b == last.regs["rsp"]
           f == program[Top.of]
<1>1. /\ Top.of \in DOMAIN program /\ Top.rsp \in 8..StackTop /\ Top.rsp % 8 = 0
      /\ Body(program, Top) >= 0 /\ b = Body(program, Top)
      /\ program \in Programs /\ StackTop \in Nat
  BY TopIs, StackAssumption DEF LastInv
<1>2. Top.rsp \in Nat /\ Top.rsp <= StackTop /\ Top.rsp >= 8
  BY <1>1
<1>3. b \in Int /\ b % 8 = 0 /\ b <= Top.rsp - 8
  BY <1>1, <1>2, BodyIs
<1>4. b \in 0..StackTop
  BY <1>1, <1>2, <1>3
<1>5. b + Frames!ReturnAdjustment(f) = Top.rsp - 8
  <2>1. f.arguments \in Nat /\ f.locals \in Nat
    BY <1>1, CodeIs
  <2>2. /\ Frames!ReturnAdjustment(f) = 8 * f.locals + 8 * Machine!StackArguments(f.arguments)
        /\ Machine!StackArguments(f.arguments) \in Nat
    BY <2>1, AdjustmentIs
  <2>3. b = Top.rsp - 8 - 8 * Machine!StackArguments(f.arguments) - 8 * f.locals
    BY <1>1 DEF Body
  <2> HIDE DEF b, f
  <2> QED
    BY <1>2, <2>1, <2>2, <2>3
<1>6. Top.rsp - 8 \in 0..StackTop /\ (Top.rsp - 8) % 8 = 0
  BY <1>1, <1>2
<1>7. ASSUME Machine!WellBehaved, Machine!Ins.op = "call"
      PROVE  /\ b - Frames!CallAdjustment(Machine!Ins.n) \in 0..StackTop
             /\ (b - Frames!CallAdjustment(Machine!Ins.n)) % 8 = 0
  <2>1. PICK g \in DOMAIN program :
          b - 8 - 8 * Machine!StackArguments(Machine!Ins.n) - 8 * program[g].locals >= 0
    BY <1>7, CallIs
  <2>2. Machine!Ins.n \in Nat
    BY <1>7, InsIs DEF Machine!IsInstruction
  <2>3. PICK s \in Nat : /\ s = Machine!StackArguments(Machine!Ins.n)
                         /\ Frames!CallAdjustment(Machine!Ins.n) = 8 + 8 * s
    <3>1. f.arguments \in Nat /\ f.locals \in Nat
      BY <1>1, CodeIs
    <3> QED
      BY <2>2, <3>1, AdjustmentIs
  <2>4. PICK l \in Nat : l = program[g].locals
    BY <1>1, CodeIs
  <2> HIDE DEF b
  <2>5. b - 8 - 8 * s - 8 * l >= 0
    BY <2>1, <2>3, <2>4
  <2>6. b - (8 + 8 * s) >= 0 /\ b - (8 + 8 * s) <= StackTop /\ (b - (8 + 8 * s)) % 8 = 0
    BY <1>1, <1>3, <1>4, <2>5
  <2> QED
    BY <1>1, <1>3, <2>3, <2>6
<1>8. Len(last.calls) \in Nat /\ Len(last.calls) >= 1
  BY TopIs
<1> QED
  BY <1>3, <1>4, <1>5, <1>6, <1>7, <1>8

LEMMA TypeIs ==
  ASSUME IInv, Machine!WellBehaved
  PROVE  TypeOK
<1> DEFINE InCode == /\ at[1] \in DOMAIN program /\ at[2] \in 0..Len(program[at[1]].code)
                     /\ at[3] \in 1..Len(File)
           Rsp    == regs["rsp"] \in 0..StackTop /\ regs["rsp"] % 8 = 0
<1>0. /\ LastInv /\ last.regs \in [Machine!Registers -> Int] /\ "rsp" \in Machine!Registers
      /\ StackTop \in Nat /\ StackTop % 8 = 0
  BY StackAssumption DEF IInv, LastInv, Machine!Registers
<1>1. CASE Between /\ Done
  <2>1. at = <<0, 0, 1>>
    BY <1>1, TripleIs DEF Done, Machine!Exit
  <2>2. last.at = Machine!Exit /\ regs = last.regs /\ calls = last.calls
    BY <1>1, <2>1 DEF Between, Machine!Exit
  <2>3. last.calls = <<>> /\ last.regs["rsp"] = StackTop
    <3>1. ~Inside(program, last.at, last.calls, last.regs["rsp"])
      <4>1. \A f \in DOMAIN program : f # 0
        BY <1>0, CodeIs DEF LastInv
      <4>2. last.calls \in Seq(Activations) /\ \A c \in DOMAIN last.calls : last.calls[c].of \in DOMAIN program
        BY <1>0 DEF LastInv, CallsInv
      <4>3. Len(last.calls) > 0 => Len(last.calls) \in DOMAIN last.calls
        BY <4>2
      <4> QED
        BY <2>2, <4>1, <4>2, <4>3 DEF Inside, Machine!Exit
    <3> QED
      BY <1>0, <3>1 DEF LastInv
  <2>4. Rsp
    BY <1>0, <2>2, <2>3
  <2>5. Len(calls) = 0
    BY <2>2, <2>3
  <2> QED
    BY <1>1, <2>4, <2>5 DEF TypeOK
<1>2. CASE Between /\ ~Done
  <2>1. last.at # Machine!Exit /\ at = Append(last.at, 1) /\ regs = last.regs /\ calls = last.calls
    BY <1>0, <1>2, BetweenIs
  <2>2. 1 \in 1..3 /\ \A n \in 1..3 : 1 \in 1..n
    OBVIOUS
  <2>3. InCode
    <3>1. /\ Len(File) \in 1..3 /\ at[1] \in DOMAIN program
          /\ at[2] \in 0..Len(program[at[1]].code) /\ at[3] = 1
      BY <1>0, <2>1, <2>2, LengthIs
    <3> QED
      BY <2>2, <3>1
  <2> QED
    BY <1>0, <1>2, <2>1, <2>3, RspIs DEF TypeOK
<1>3. CASE Entering
  <2>1. PICK f \in DOMAIN program : at = <<f, 0, 1>>
    BY <1>3 DEF Entering
  <2>2. File = HeaderCode(program[f])
    BY <2>1 DEF File, Emit
  <2>3. Len(File) = 1
    BY <2>2 DEF HeaderCode
  <2>4. program \in Programs /\ Len(program[f].code) \in 1..20
    BY <1>0, CodeIs DEF LastInv
  <2>5. InCode
    BY <2>1, <2>3, <2>4
  <2>6. f # 0
    BY <2>4, CodeIs
  <2>7. ~Done
    BY <2>1, <2>6, TripleIs DEF Done, Machine!Exit
  <2>8. CASE /\ last.at = <<f, 1>> /\ calls = last.calls
             /\ regs = [last.regs EXCEPT !["rsp"] = @ + Frames!HeaderAdjustment(program[f])]
    <3>1. last.at # Machine!Exit
      BY <2>8 DEF Machine!Exit
    <3>2. /\ Top.of = f /\ Top.rsp \in 8..StackTop /\ Top.rsp % 8 = 0
          /\ last.regs["rsp"] = Body(program, Top)
      BY <1>0, <2>8, <3>1, TopIs
    <3>3. PICK l \in Nat, s \in Nat :
            l = program[f].locals /\ s = Machine!StackArguments(program[f].arguments)
      BY <2>4, CodeIs DEF Machine!StackArguments
    <3>4. Frames!HeaderAdjustment(program[f]) = 8 * l
      BY <3>3 DEF Frames!HeaderAdjustment
    <3>5. PICK r \in Nat : r = Top.rsp /\ r >= 8 /\ r <= StackTop /\ r % 8 = 0
      BY <1>0, <3>2
    <3>6. last.regs["rsp"] = r - 8 - 8 * s - 8 * l /\ last.regs["rsp"] >= 0
      BY <1>0, <3>1, <3>2, <3>3, <3>5, TopIs DEF Body
    <3>7. regs["rsp"] = r - 8 - 8 * s
      BY <1>0, <2>8, <3>4, <3>6
    <3>8. r - 8 - 8 * s >= 0 /\ r - 8 - 8 * s <= StackTop /\ (r - 8 - 8 * s) % 8 = 0
      BY <1>0, <3>5, <3>6
    <3>9. Rsp
      BY <1>0, <3>7, <3>8
    <3> QED
      BY <1>0, <2>5, <2>7, <2>8, <3>1, <3>9, RspIs DEF TypeOK
  <2>9. CASE /\ last.at # Machine!Exit /\ Machine!Ins.op = "call"
             /\ regs = [last.regs EXCEPT !["rsp"] = @ - Frames!CallAdjustment(Machine!Ins.n)]
             /\ calls = Append(last.calls,
                          [of |-> f, rsp |-> last.regs["rsp"],
                           to |-> Machine!Position(last.mem[last.regs["rsp"] - 8])])
    <3>1. Rsp
      BY <1>0, <2>9, RspIs
    <3>2. Len(calls) = Len(last.calls) + 1 /\ Len(last.calls) \in Nat
      BY <1>0, <2>9 DEF LastInv, CallsInv
    <3>3. Len(calls) >= 1
      BY <3>2
    <3> QED
      BY <2>5, <2>7, <3>1, <3>3 DEF TypeOK
  <2> QED
    BY <1>3, <2>1, <2>8, <2>9 DEF Entering
<1>4. CASE Midway(Machine!Ins)
  <2>1. PICK ins : ins = Machine!Ins
    OBVIOUS
  <2>2. Midway(ins) /\ last.at # Machine!Exit /\ calls = last.calls
    BY <1>4, <2>1 DEF Midway
  <2>3. PICK k \in {2, 3} :
          /\ at = Append(last.at, k)
          /\ k = 2 \/ ins.op \in {"cmp", "cjump"}
          /\ \/ ins.op \in {"cmp", "cjump"} /\ ByFlags(ins)
             \/ ins.op \in {"call", "return"}
    BY <2>2 DEF Midway
  <2>4. k \in 1..3
    BY <2>3
  <2>5. /\ Len(File) \in 1..3 /\ at[1] \in DOMAIN program
        /\ at[2] \in 0..Len(program[at[1]].code) /\ at[3] = k
        /\ ins.op \in {"cmp", "cjump"} /\ ByFlags(ins) => Len(File) = 3
        /\ ins.op \in {"call", "return"} => Len(File) = 2
    BY <1>0, <2>1, <2>2, <2>3, <2>4, LengthIs
  <2>6. InCode
    <3>1. Len(File) = 3 \/ (Len(File) = 2 /\ k = 2)
      BY <2>3, <2>5
    <3>2. 2 \in 1..2 /\ k \in 1..3
      BY <2>4
    <3> QED
      BY <2>5, <3>1, <3>2
  <2>7. ~Done
    <3>1. PICK f \in DOMAIN program, i \in 1..20 : at = <<f, i, k>>
      BY <1>0, <2>2, <2>3, <2>4, FileIs
    <3> QED
      BY <3>1, TripleIs DEF Done, Machine!Exit
  <2>8. Rsp
    <3>1. CASE ins.op = "cmp"
      <4>1. ins.w \in Machine!Registers \ {"rsp"}
        BY <1>0, <2>1, <2>2, <3>1, InsIs DEF Machine!IsInstruction
      <4>2. regs["rsp"] = last.regs["rsp"]
        BY <1>0, <2>2, <3>1, <4>1 DEF Midway
      <4> QED
        BY <1>0, <2>2, <4>2, RspIs
    <3>2. CASE ins.op = "cjump"
      BY <1>0, <2>2, <3>2, RspIs DEF Midway
    <3>3. CASE ins.op = "return"
      <4>1. at[1] = Top.of
        BY <1>0, <2>2, <2>3, <2>4, FileIs
      <4>2. regs["rsp"] = last.regs["rsp"] + Frames!ReturnAdjustment(program[Top.of])
        BY <1>0, <2>2, <3>3, <4>1 DEF Midway
      <4> QED
        BY <1>0, <2>2, <4>2, RspIs
    <3>4. CASE ins.op = "call"
      <4>1. regs["rsp"] = last.regs["rsp"] - Frames!CallAdjustment(ins.n)
        BY <1>0, <2>2, <3>4 DEF Midway
      <4> QED
        BY <1>0, <2>1, <2>2, <3>4, <4>1, RspIs
    <3> QED
      BY <2>3, <3>1, <3>2, <3>3, <3>4
  <2> QED
    BY <1>0, <2>2, <2>6, <2>7, <2>8, RspIs DEF TypeOK
<1> QED
  BY <1>1, <1>2, <1>3, <1>4 DEF IInv

-----------------------------------------------------------------------------
(***************************************************************************)
(* The frames of module L1Frames.                                          *)
(***************************************************************************)
FrameOf(p, x) ==
  [ret |-> Machine!Address(x.to), base |-> x.rsp,
   arity |-> [arguments |-> p[x.of].arguments, locals |-> p[x.of].locals]]

FramesOf(p, cs) == [c \in DOMAIN cs |-> FrameOf(p, cs[c])]

LEMMA FramesAre ==
  ASSUME NEW p, NEW cs \in Seq(Activations)
  PROVE  /\ Len(FramesOf(p, cs)) = Len(cs)
         /\ \A x \in Activations :
              FramesOf(p, Append(cs, x)) = Append(FramesOf(p, cs), FrameOf(p, x))
         /\ Len(cs) > 0 =>
              /\ FramesOf(p, cs)[Len(cs)] = FrameOf(p, cs[Len(cs)])
              /\ FramesOf(p, SubSeq(cs, 1, Len(cs) - 1))
                   = SubSeq(FramesOf(p, cs), 1, Len(cs) - 1)
<1> DEFINE S == {FrameOf(p, x) : x \in Activations}
           fs == FramesOf(p, cs)
<1>1. Len(cs) \in Nat /\ DOMAIN cs = 1..Len(cs) /\ \A c \in 1..Len(cs) : cs[c] \in Activations
  OBVIOUS
<1>2. ASSUME NEW s \in Seq(Activations)
      PROVE  /\ FramesOf(p, s) \in Seq(S) /\ Len(FramesOf(p, s)) = Len(s)
             /\ \A c \in 1..Len(s) : FramesOf(p, s)[c] = FrameOf(p, s[c])
  <2>1. DOMAIN s = 1..Len(s) /\ Len(s) \in Nat /\ \A c \in 1..Len(s) : s[c] \in Activations
    OBVIOUS
  <2>2. FramesOf(p, s) = [c \in 1..Len(s) |-> FrameOf(p, s[c])]
    BY <2>1 DEF FramesOf
  <2>3. \A c \in 1..Len(s) : FrameOf(p, s[c]) \in S
    BY <2>1
  <2> HIDE DEF S
  <2> QED
    BY <2>1, <2>2, <2>3
<1> HIDE DEF S
<1>3. ASSUME NEW x \in Activations
      PROVE  FramesOf(p, Append(cs, x)) = Append(fs, FrameOf(p, x))
  <2> DEFINE ds == Append(cs, x)
             gs == Append(fs, FrameOf(p, x))
  <2>1. /\ ds \in Seq(Activations) /\ Len(ds) = Len(cs) + 1 /\ ds[Len(cs) + 1] = x
        /\ \A c \in 1..Len(cs) : ds[c] = cs[c]
    BY AppendProperties
  <2>2. FrameOf(p, x) \in S
    BY DEF S
  <2>3. fs \in Seq(S) /\ Len(fs) = Len(cs) /\ \A c \in 1..Len(cs) : fs[c] = FrameOf(p, cs[c])
    BY <1>2
  <2>4. /\ gs \in Seq(S) /\ Len(gs) = Len(cs) + 1 /\ gs[Len(cs) + 1] = FrameOf(p, x)
        /\ \A c \in 1..Len(cs) : gs[c] = FrameOf(p, cs[c])
    <3> HIDE DEF fs
    <3> QED
      BY <2>2, <2>3, AppendProperties
  <2>5. /\ FramesOf(p, ds) \in Seq(S) /\ Len(FramesOf(p, ds)) = Len(cs) + 1
        /\ \A c \in 1..(Len(cs) + 1) : FramesOf(p, ds)[c] = FrameOf(p, ds[c])
    <3> HIDE DEF ds
    <3> QED
      BY <1>2, <2>1
  <2> HIDE DEF ds, gs
  <2>6. \A c \in 1..(Len(cs) + 1) : FramesOf(p, ds)[c] = gs[c]
    <3> SUFFICES ASSUME NEW c \in 1..(Len(cs) + 1) PROVE FramesOf(p, ds)[c] = gs[c]
      OBVIOUS
    <3>1. c \in 1..Len(cs) \/ c = Len(cs) + 1
      BY <1>1
    <3> QED
      BY <2>1, <2>4, <2>5, <3>1
  <2>7. FramesOf(p, ds) = gs
    BY <2>4, <2>5, <2>6, SeqEqual
  <2> QED
    BY <2>7 DEF ds, gs
<1>4. ASSUME Len(cs) > 0
      PROVE  /\ fs[Len(cs)] = FrameOf(p, cs[Len(cs)])
             /\ FramesOf(p, SubSeq(cs, 1, Len(cs) - 1)) = SubSeq(fs, 1, Len(cs) - 1)
  <2> DEFINE n == Len(cs) - 1
             ds == SubSeq(cs, 1, n)
             gs == SubSeq(fs, 1, n)
  <2>1. n \in Nat /\ n + 1 = Len(cs) /\ Len(cs) \in 1..Len(cs)
    BY <1>1, <1>4
  <2>2. fs \in Seq(S) /\ Len(fs) = Len(cs) /\ \A c \in 1..Len(cs) : fs[c] = FrameOf(p, cs[c])
    BY <1>2
  <2> HIDE DEF n, fs
  <2>3. /\ ds \in Seq(Activations) /\ Len(ds) = n
        /\ \A c \in 1..n : ds[c] = cs[c]
    BY <1>1, <2>1, SubSeqProperties
  <2>4. /\ gs \in Seq(S) /\ Len(gs) = n
        /\ \A c \in 1..n : gs[c] = fs[c]
    BY <1>1, <2>1, <2>2, SubSeqProperties
  <2> HIDE DEF ds, gs
  <2>5. /\ FramesOf(p, ds) \in Seq(S) /\ Len(FramesOf(p, ds)) = n
        /\ \A c \in 1..n : FramesOf(p, ds)[c] = FrameOf(p, ds[c])
    BY <1>2, <2>3
  <2>6. \A c \in 1..n : c \in 1..Len(cs)
    BY <2>1
  <2>7. \A c \in 1..n : FramesOf(p, ds)[c] = gs[c]
    BY <2>2, <2>3, <2>4, <2>5, <2>6
  <2>8. FramesOf(p, ds) = gs
    BY <2>4, <2>5, <2>7, SeqEqual
  <2> QED
    BY <2>1, <2>2, <2>8 DEF n, ds, gs, fs
<1> QED
  BY <1>2, <1>3, <1>4

\* The frame of the activation that runs.
LEMMA CurrentIs ==
  ASSUME LastInv, last.at # Machine!Exit, calls = last.calls
  PROVE  /\ Frames!Current = FrameOf(program, Top)
         /\ Frames!Body(Frames!Current) = Body(program, Top)
<1>1. calls \in Seq(Activations) /\ Len(calls) > 0
  BY TopIs DEF LastInv, CallsInv
<1>2. /\ FramesOf(program, calls)[Len(calls)] = FrameOf(program, Top)
      /\ Len(FramesOf(program, calls)) = Len(calls)
  BY <1>1, FramesAre DEF Top
<1>3. Frames!Current = FramesOf(program, calls)[Len(FramesOf(program, calls))]
  BY DEF Frames!Current, FramesOf, FrameOf
<1>4. Frames!Current = FrameOf(program, Top)
  BY <1>2, <1>3
<1>5. Frames!Body(FrameOf(program, Top)) = Body(program, Top)
  BY DEF Frames!Body, FrameOf, Body, Frames!StackArguments, Machine!StackArguments
<1> QED
  BY <1>4, <1>5

\* How the states look to L1Frames.
LEMMA FrameStepIs ==
  ASSUME LastInv, last.at # Machine!Exit, NEW k \in 1..3, at = Append(last.at, k)
  PROVE  FrameStep = IF k = 2 /\ Machine!Ins.op = "call" THEN "called"
                     ELSE IF k = 2 /\ Machine!Ins.op = "return" THEN "leave" ELSE "body"
<1>1. PICK f \in DOMAIN program, i \in 1..20 :
        at = <<f, i, k>> /\ program[f].code[i] = Machine!Ins
  BY FileIs
<1>2. i # 0 /\ at # <<0, 0, 1>> /\ at[1] = f /\ at[2] = i /\ at[3] = k
  BY <1>1
<1> QED
  BY <1>1, <1>2 DEF FrameStep

InBody == /\ FrameStep = "body" /\ calls = last.calls /\ mem = last.mem
          /\ regs["rsp"] = last.regs["rsp"]

LEMMA InBodyIs ==
  /\ LastInv /\ last.at # Machine!Exit
  /\ Between \/ (Midway(Machine!Ins) /\ Machine!Ins.op \notin {"call", "return"})
  => InBody
<1> SUFFICES ASSUME LastInv, last.at # Machine!Exit,
                    \/ Between
                    \/ Midway(Machine!Ins) /\ Machine!Ins.op \notin {"call", "return"}
             PROVE  InBody
  OBVIOUS
<1>1. CASE Between
  <2>1. ~Done
    BY <1>1, TripleIs DEF Done, Between, Machine!Exit
  <2>2. /\ at = Append(last.at, 1) /\ 1 \in 1..3
        /\ regs = last.regs /\ mem = last.mem /\ calls = last.calls
    BY <1>1, <2>1, BetweenIs
  <2> QED
    BY <2>2, FrameStepIs DEF InBody
<1>2. CASE Midway(Machine!Ins) /\ Machine!Ins.op \notin {"call", "return"}
  <2>1. PICK ins : ins = Machine!Ins
    OBVIOUS
  <2>2. /\ Midway(ins) /\ ins.op \notin {"call", "return"}
        /\ mem = last.mem /\ calls = last.calls
    BY <1>2, <2>1 DEF Midway
  <2>3. PICK k \in {2, 3} : at = Append(last.at, k)
    BY <2>2 DEF Midway
  <2>4. k \in 1..3
    BY <2>3
  <2>5. FrameStep = "body"
    BY <2>1, <2>2, <2>3, <2>4, FrameStepIs
  <2>6. regs["rsp"] = last.regs["rsp"]
    <3>1. CASE ins.op = "cmp"
      <4>1. ins.w \in Machine!Registers \ {"rsp"}
        BY <2>1, <3>1, InsIs DEF Machine!IsInstruction
      <4>2. regs = last.regs \/ \E v : regs = [last.regs EXCEPT ![ins.w] = v]
        BY <2>2, <3>1 DEF Midway
      <4>3. last.regs \in [Machine!Registers -> Int] /\ "rsp" \in Machine!Registers
        BY DEF LastInv, Machine!Registers
      <4>4. CASE \E v : regs = [last.regs EXCEPT ![ins.w] = v]
        <5>1. PICK v : regs = [last.regs EXCEPT ![ins.w] = v]
          BY <4>4
        <5> QED
          BY <4>1, <4>3, <5>1
      <4> QED
        BY <4>2, <4>4
    <3>2. CASE ins.op = "cjump"
      BY <2>2, <3>2 DEF Midway
    <3> QED
      BY <2>2, <3>1, <3>2 DEF Midway
  <2> QED
    BY <2>2, <2>5, <2>6 DEF InBody
<1> QED
  BY <1>1, <1>2

LEMMA OnTheWayIs ==
  LastInv /\ Midway(Machine!Ins) /\ Machine!Ins.op \in {"call", "return"} =>
    /\ FrameStep = IF Machine!Ins.op = "call" THEN "called" ELSE "leave"
    /\ calls = last.calls /\ mem = last.mem /\ last.at # Machine!Exit
    /\ regs["rsp"] = IF Machine!Ins.op = "call"
                     THEN last.regs["rsp"] - Frames!CallAdjustment(Machine!Ins.n)
                     ELSE last.regs["rsp"] + Frames!ReturnAdjustment(program[Top.of])
<1> SUFFICES ASSUME LastInv, Midway(Machine!Ins), Machine!Ins.op \in {"call", "return"}
             PROVE  /\ FrameStep = IF Machine!Ins.op = "call" THEN "called" ELSE "leave"
                    /\ calls = last.calls /\ mem = last.mem /\ last.at # Machine!Exit
                    /\ regs["rsp"] = IF Machine!Ins.op = "call"
                         THEN last.regs["rsp"] - Frames!CallAdjustment(Machine!Ins.n)
                         ELSE last.regs["rsp"] + Frames!ReturnAdjustment(program[Top.of])
  OBVIOUS
<1>1. PICK ins : ins = Machine!Ins
  OBVIOUS
<1>2. /\ ins.op \in {"call", "return"} /\ at = Append(last.at, 2)
      /\ calls = last.calls /\ mem = last.mem /\ last.at # Machine!Exit
      /\ ins.op = "call" => regs = [last.regs EXCEPT !["rsp"] = @ - Frames!CallAdjustment(ins.n)]
      /\ ins.op = "return" =>
           regs = [last.regs EXCEPT !["rsp"] = @ + Frames!ReturnAdjustment(program[at[1]])]
  BY <1>1 DEF Midway
<1>3. 2 \in 1..3
  OBVIOUS
<1>4. at[1] = Top.of
  BY <1>2, <1>3, FileIs
<1>5. FrameStep = IF ins.op = "call" THEN "called" ELSE "leave"
  BY <1>1, <1>2, <1>3, FrameStepIs
<1>6. "rsp" \in DOMAIN last.regs
  BY DEF LastInv, Machine!Registers
<1> QED
  BY <1>1, <1>2, <1>4, <1>5, <1>6

LEMMA EnteringIs ==
  LastInv /\ Entering => FrameStep = "enter" /\ mem = last.mem
<1> SUFFICES ASSUME LastInv, Entering PROVE FrameStep = "enter" /\ mem = last.mem
  OBVIOUS
<1>1. PICK f \in DOMAIN program : at = <<f, 0, 1>> /\ f # 0
  BY CodeIs DEF LastInv, Entering
<1> QED
  BY <1>1 DEF FrameStep, Entering

\* The body of a function: what it writes is below its return address.
LEMMA BodyRuns ==
  ASSUME Integral, LastInv, LastInv', Machine!WellBehaved, Step, last.at # Machine!Exit,
         Between \/ Midway(Machine!Ins), Machine!Ins.op \notin {"call", "return"}
  PROVE  Frames!RunBody
<1>1. InBody /\ program' = program
  BY InBodyIs, StepIs
<1>2. /\ last'.calls = last.calls /\ last'.regs["rsp"] = last.regs["rsp"]
      /\ \A a \in Machine!Words : last'.mem[a] # last.mem[a] => a < Top.rsp - 8
      /\ InBody'
  <2>1. CASE Midway(Machine!Ins)' /\ last' = last
    <3>1. Machine!Ins' = Machine!Ins
      BY <1>1, <2>1 DEF Machine!Ins
    <3>2. (/\ LastInv /\ last.at # Machine!Exit
           /\ Between \/ (Midway(Machine!Ins) /\ Machine!Ins.op \notin {"call", "return"}))'
          => InBody'
      BY InBodyIs, PTL
    <3>3. InBody'
      BY <2>1, <3>1, <3>2
    <3> QED
      BY <2>1, <3>3
  <2>2. CASE Between' /\ Machine!Next
    <3>1. /\ last'.calls = last.calls /\ last'.regs["rsp"] = last.regs["rsp"]
          /\ \A a \in Machine!Words : last'.mem[a] # last.mem[a] => a < Top.rsp - 8
      <4>0. /\ last.regs \in [Machine!Registers -> Int] /\ last.mem \in [Machine!Words -> Int]
            /\ "rsp" \in Machine!Registers
        BY DEF LastInv, Machine!Registers
      <4>1. CASE Machine!Compute
        <5>1. Machine!Ins.w \in Machine!Registers \ {"rsp"}
          BY <4>1, ResultIs DEF Machine!Compute
        <5> QED
          BY <4>0, <4>1, <5>1 DEF Machine!Compute
      <4>2. CASE Machine!Write
        <5>1. Machine!Cell < Top.rsp - 8
          BY <4>2 DEF Machine!Write, Machine!WellBehaved, Machine!Last, Top
        <5>2. \A a \in Machine!Words : a # Machine!Cell => last'.mem[a] = last.mem[a]
          BY <4>0, <4>2 DEF Machine!Write
        <5> QED
          BY <4>2, <5>1, <5>2 DEF Machine!Write
      <4>3. CASE Machine!Jump
        BY <4>3 DEF Machine!Jump
      <4>4. CASE Machine!Runtime
        <5>1. "rsp" \notin Machine!CallerSave
          BY DEF Machine!CallerSave
        <5>2. last'.regs["rsp"] = last.regs["rsp"] /\ last'.calls = last.calls
          BY <4>0, <4>4, <5>1 DEF Machine!Runtime
        <5>3. \A a \in Machine!Words : last'.mem[a] # last.mem[a] => a < last.regs["rsp"]
          BY <4>0, <4>4 DEF Machine!Runtime
        <5>4. /\ Top.of \in DOMAIN program /\ Top.rsp \in Nat /\ Top.rsp % 8 = 0
              /\ last.regs["rsp"] = Body(program, Top) /\ program \in Programs
          BY TopIs, StackAssumption DEF LastInv
        <5>5. last.regs["rsp"] \in Int /\ last.regs["rsp"] <= Top.rsp - 8
          BY <5>4, BodyIs
        <5>6. Machine!Words \subseteq Nat
          BY WordIs
        <5>7. ASSUME NEW a \in Machine!Words, last'.mem[a] # last.mem[a] PROVE a < Top.rsp - 8
          <6>1. a \in Nat /\ a < last.regs["rsp"]
            BY <5>3, <5>6, <5>7
          <6> QED
            BY <5>4, <5>5, <6>1
        <5> QED
          BY <5>2, <5>7
      <4> QED
        BY <2>2, <4>1, <4>2, <4>3, <4>4 DEF Machine!Next, Machine!Call, Machine!Return
    <3>2. last'.at # Machine!Exit
      <4>1. last'.calls = last.calls /\ Len(last.calls) \in DOMAIN last.calls
        BY <3>1, TopIs
      <4>2. last.calls # <<>>
        BY <4>1
      <4>3. Inside(program', last'.at, last'.calls, last'.regs["rsp"])
        BY <4>1, <4>2 DEF LastInv
      <4>4. PICK i : last'.at = <<last.calls[Len(last.calls)].of, i>>
        BY <4>1, <4>3 DEF Inside
      <4>5. last.calls[Len(last.calls)].of # 0
        BY <4>1, CodeIs DEF LastInv, CallsInv
      <4> QED
        BY <4>4, <4>5 DEF Machine!Exit
    <3>3. (/\ LastInv /\ last.at # Machine!Exit
           /\ Between \/ (Midway(Machine!Ins) /\ Machine!Ins.op \notin {"call", "return"}))'
          => InBody'
      BY InBodyIs, PTL
    <3> QED
      BY <2>2, <3>1, <3>2, <3>3
  <2> QED
    BY <2>1, <2>2, QuietStep
<1>3. /\ FrameStep = "body" /\ FrameStep' = "body" /\ calls' = calls
      /\ regs'["rsp"] = regs["rsp"] /\ mem' \in [Machine!Words -> Int]
  BY <1>1, <1>2 DEF InBody, LastInv
<1>4. regs["rsp"] + 8 * (Frames!Current.arity.locals
                           + Frames!StackArguments(Frames!Current.arity.arguments)) = Top.rsp - 8
  <2>1. Frames!Current = FrameOf(program, Top)
    BY <1>1, CurrentIs DEF InBody
  <2>2. /\ Frames!Current.arity.locals = program[Top.of].locals
        /\ Frames!Current.arity.arguments = program[Top.of].arguments
    BY <2>1 DEF FrameOf
  <2>3. PICK l \in Nat, s \in Nat :
          /\ l = program[Top.of].locals
          /\ s = Machine!StackArguments(program[Top.of].arguments)
          /\ s = Frames!StackArguments(program[Top.of].arguments)
    BY TopIs, CodeIs DEF LastInv, Frames!StackArguments, Machine!StackArguments
  <2>4. regs["rsp"] = Top.rsp - 8 - 8 * s - 8 * l /\ Top.rsp \in Nat
    BY <1>1, <2>3, TopIs, StackAssumption DEF InBody, Body
  <2> QED
    BY <2>2, <2>3, <2>4
<1>5. \A a \in Machine!Words : mem'[a] # mem[a] => a < Top.rsp - 8
  BY <1>1, <1>2 DEF InBody
<1>6. UNCHANGED [c \in DOMAIN calls |->
                   [ret   |-> Machine!Address(calls[c].to),
                    base  |-> calls[c].rsp,
                    arity |-> [arguments |-> program[calls[c].of].arguments,
                               locals |-> program[calls[c].of].locals]]]
  BY <1>1, <1>3
<1> QED
  BY <1>3, <1>4, <1>5, <1>6 DEF Frames!RunBody

\* The subq of a call ...
LEMMA CallsBelow ==
  ASSUME LastInv, LastInv', Machine!WellBehaved, Step, last.at # Machine!Exit, Between,
         Machine!Ins.op = "call"
  PROVE  Frames!CallSubq
<1>1. InBody /\ program' = program
  BY InBodyIs, StepIs
<1>2. Midway(Machine!Ins)' /\ last' = last
  BY CallSubqStep
<1>3. Machine!Ins' = Machine!Ins
  BY <1>1, <1>2 DEF Machine!Ins
<1>4. /\ FrameStep' = "called" /\ calls' = last'.calls /\ mem' = last'.mem
      /\ regs'["rsp"] = last'.regs["rsp"] - Frames!CallAdjustment(Machine!Ins'.n)
  <2>1. (LastInv /\ Midway(Machine!Ins) /\ Machine!Ins.op \in {"call", "return"})' =>
          (/\ FrameStep = IF Machine!Ins.op = "call" THEN "called" ELSE "leave"
           /\ calls = last.calls /\ mem = last.mem /\ last.at # Machine!Exit
           /\ regs["rsp"] = IF Machine!Ins.op = "call"
                            THEN last.regs["rsp"] - Frames!CallAdjustment(Machine!Ins.n)
                            ELSE last.regs["rsp"] + Frames!ReturnAdjustment(program[Top.of]))'
    BY OnTheWayIs, PTL
  <2> QED
    BY <1>2, <1>3, <2>1
<1>5. PICK g \in DOMAIN program :
        /\ program[g].arguments = Machine!Ins.n
        /\ last.regs["rsp"] - 8 - 8 * Machine!StackArguments(Machine!Ins.n)
             - 8 * program[g].locals >= 0
  BY CallIs
<1> DEFINE arity == [arguments |-> program[g].arguments, locals |-> program[g].locals]
<1>6. arity \in UNION {{[arguments |-> p[f].arguments, locals |-> p[f].locals] :
                          f \in DOMAIN p} : p \in Programs}
  BY DEF LastInv
<1>7. regs["rsp"] - 8 \in Machine!Words
  <2>1. last.regs["rsp"] \in 0..StackTop /\ last.regs["rsp"] % 8 = 0
    BY RspIs
  <2>2. /\ Machine!StackArguments(Machine!Ins.n) \in Nat /\ program[g].locals \in Nat
        /\ program \in Programs
    BY <1>5, CodeIs DEF LastInv, Machine!StackArguments
  <2>3. last.regs["rsp"] \in 8..StackTop
    BY <1>5, <2>1, <2>2, StackAssumption
  <2> QED
    BY <1>1, <2>1, <2>3, WordIs DEF InBody
<1>8. /\ FrameStep = "body" /\ FrameStep' = "called" /\ calls' = calls /\ mem' = mem
      /\ regs'["rsp"] = regs["rsp"] - Frames!CallAdjustment(arity.arguments)
  BY <1>1, <1>2, <1>3, <1>4, <1>5 DEF InBody
<1>9. UNCHANGED [c \in DOMAIN calls |->
                   [ret   |-> Machine!Address(calls[c].to),
                    base  |-> calls[c].rsp,
                    arity |-> [arguments |-> program[calls[c].of].arguments,
                               locals |-> program[calls[c].of].locals]]]
  BY <1>1, <1>8
<1> HIDE DEF arity
<1> QED
  BY <1>6, <1>7, <1>8, <1>9 DEF Frames!CallSubq

\* ... and its jump.
LEMMA CallsInto ==
  ASSUME LastInv, LastInv', Machine!WellBehaved, Step, Midway(Machine!Ins),
         Machine!Ins.op = "call"
  PROVE  Frames!CallJmp
<1>1. PICK ins : ins = Machine!Ins
  OBVIOUS
<1>2. /\ last.at # Machine!Exit /\ mem = last.mem /\ calls = last.calls /\ output = last.output
      /\ ins.op = "call" /\ at = Append(last.at, 2)
      /\ regs = [last.regs EXCEPT !["rsp"] = @ - Frames!CallAdjustment(ins.n)]
  BY <1>1 DEF Midway
<1> DEFINE g == at'[1]
           b == last.regs["rsp"]
           x == [of |-> g, rsp |-> b, to |-> Machine!Position(last.mem[b - 8])]
           arity == [arguments |-> program[g].arguments, locals |-> program[g].locals]
<1>3. /\ Entering' /\ last' = last /\ g \in DOMAIN program /\ program[g].arguments = ins.n
      /\ calls' = Append(last.calls, x) /\ program' = program /\ regs' = regs
  BY <1>1, <1>2, CallJmpStep, StepIs
<1>4. FrameStep = "called" /\ regs["rsp"] = b - Frames!CallAdjustment(ins.n)
  BY <1>1, <1>2, OnTheWayIs
<1>5. FrameStep' = "enter" /\ mem' = last'.mem
  <2>1. (LastInv /\ Entering)' => (FrameStep = "enter" /\ mem = last.mem)'
    BY EnteringIs, PTL
  <2> QED
    BY <1>3, <2>1
<1>6. PICK i \in DOMAIN program[Top.of].code :
        /\ last.mem[b - 8] = Machine!Address(<<Top.of, i>>)
        /\ Machine!Position(last.mem[b - 8]) = <<Top.of, i>>
  BY <1>1, <1>2, CallIs
<1>7. /\ Frames!Body(Frames!Current) = b /\ b \in Nat /\ Top.of \in Nat /\ g \in Nat
      /\ program \in Programs
  <2>1. Frames!Body(Frames!Current) = b
    BY <1>2, CurrentIs, TopIs
  <2>2. b \in Nat
    BY <1>2, RspIs, StackAssumption
  <2>3. Top.of \in DOMAIN program /\ program \in Programs
    BY <1>2, TopIs DEF LastInv
  <2> QED
    BY <1>3, <2>1, <2>2, <2>3, CodeIs
<1>8. i \in Nat
  <2>1. i \in 1..20
    BY <1>2, <1>6, <1>7, TopIs, CodeIs
  <2> QED
    BY <2>1
<1>9. x \in Activations
  BY <1>6, <1>7, <1>8 DEF Activations
<1>10. FrameOf(program, x) = [ret |-> mem[b - 8], base |-> b, arity |-> arity]
  BY <1>2, <1>6 DEF FrameOf
<1>11. FramesOf(program, calls)' = Append(FramesOf(program, calls), FrameOf(program, x))
  <2>1. last.calls \in Seq(Activations)
    BY DEF LastInv, CallsInv
  <2> HIDE DEF x
  <2>2. FramesOf(program, calls)' = FramesOf(program, Append(last.calls, x))
    BY <1>3 DEF FramesOf
  <2> QED
    BY <1>2, <1>9, <2>1, <2>2, FramesAre
<1>12. arity \in UNION {{[arguments |-> p[f].arguments, locals |-> p[f].locals] :
                           f \in DOMAIN p} : p \in Programs}
  BY <1>3, <1>7
<1>13. arity.arguments = ins.n
  BY <1>3
<1> HIDE DEF g, x, arity, b
<1>14. /\ regs["rsp"] = Frames!Body(Frames!Current) - Frames!CallAdjustment(arity.arguments)
       /\ FramesOf(program, calls)' =
            Append(FramesOf(program, calls),
                   [ret |-> mem[Frames!Body(Frames!Current) - 8],
                    base |-> Frames!Body(Frames!Current), arity |-> arity])
  BY <1>4, <1>7, <1>10, <1>11, <1>13
<1>15. UNCHANGED <<regs["rsp"], mem>>
  BY <1>2, <1>3, <1>5
<1> QED
  BY <1>4, <1>5, <1>12, <1>14, <1>15 DEF Frames!CallJmp, FramesOf, FrameOf

\* The activation whose header is to run is that of the function it is in.
LEMMA EnteredIs ==
  ASSUME LastInv, Machine!WellBehaved, Entering
  PROVE  Frames!Current.arity.locals = program[at[1]].locals
<1>1. /\ program \in Programs /\ last.calls \in Seq(Activations) /\ at[1] \in DOMAIN program
      /\ at[1] \in Nat /\ at[1] >= 1
  <2>1. program \in Programs /\ last.calls \in Seq(Activations) /\ at[1] \in DOMAIN program
    BY DEF LastInv, CallsInv, Entering
  <2> QED
    BY <2>1, CodeIs
<1>2. CASE last.at = <<at[1], 1>> /\ calls = last.calls
  <2>1. last.at # Machine!Exit
    BY <1>1, <1>2 DEF Machine!Exit
  <2>2. Frames!Current = FrameOf(program, Top) /\ Top.of = at[1]
    BY <1>2, <2>1, CurrentIs, TopIs
  <2> QED
    BY <2>2 DEF FrameOf
<1>3. CASE /\ last.at # Machine!Exit /\ Machine!Ins.op = "call"
           /\ calls = Append(last.calls,
                        [of |-> at[1], rsp |-> last.regs["rsp"],
                         to |-> Machine!Position(last.mem[last.regs["rsp"] - 8])])
  <2> DEFINE x == [of |-> at[1], rsp |-> last.regs["rsp"],
                   to |-> Machine!Position(last.mem[last.regs["rsp"] - 8])]
  <2>1. PICK i \in DOMAIN program[Top.of].code :
          Machine!Position(last.mem[last.regs["rsp"] - 8]) = <<Top.of, i>>
    BY <1>3, CallIs
  <2>2. Top.of \in Nat /\ i \in 1..20 /\ last.regs["rsp"] \in Nat
    <3>1. Top.of \in DOMAIN program
      BY <1>3, TopIs
    <3>2. Top.of \in Nat /\ i \in 1..20
      BY <1>1, <2>1, <3>1, CodeIs
    <3>3. last.regs["rsp"] \in 0..StackTop
      BY <1>3, RspIs
    <3> QED
      BY <3>2, <3>3, StackAssumption
  <2>3. x \in Activations /\ x.of = at[1]
    BY <1>1, <2>1, <2>2 DEF Activations
  <2>4. calls = Append(last.calls, x)
    BY <1>3
  <2> HIDE DEF x
  <2>5. calls \in Seq(Activations) /\ Len(calls) > 0 /\ calls[Len(calls)] = x
    BY <1>1, <2>3, <2>4, AppendProperties
  <2>6. /\ FramesOf(program, calls)[Len(calls)] = FrameOf(program, x)
        /\ Len(FramesOf(program, calls)) = Len(calls)
    BY <2>5, FramesAre
  <2>7. Frames!Current = FramesOf(program, calls)[Len(FramesOf(program, calls))]
    BY DEF Frames!Current, FramesOf, FrameOf
  <2>8. Frames!Current = FrameOf(program, x)
    BY <2>6, <2>7
  <2> QED
    BY <2>3, <2>8 DEF FrameOf
<1> QED
  BY <1>2, <1>3 DEF Entering

LEMMA EntersBody ==
  ASSUME LastInv, LastInv', Machine!WellBehaved, Step, Entering
  PROVE  Frames!Header
<1>1. /\ regs' = [regs EXCEPT !["rsp"] = @ - Frames!HeaderAdjustment(program[at[1]])]
      /\ mem' = mem /\ calls' = calls /\ at' = <<at[1], 1, 1>> /\ at[1] \in DOMAIN program
      /\ program' = program /\ Between'
  BY HeaderStep, StepIs
<1>2. at[1] \in Nat /\ at[1] >= 1
  BY <1>1, CodeIs DEF LastInv
<1>3. last'.at = <<at[1], 1>> /\ last'.at # Machine!Exit
  BY <1>1, <1>2 DEF Between, Machine!Exit
<1>4. FrameStep = "enter" /\ FrameStep' = "body"
  <2>1. (/\ LastInv /\ last.at # Machine!Exit
         /\ Between \/ (Midway(Machine!Ins) /\ Machine!Ins.op \notin {"call", "return"}))'
        => InBody'
    BY InBodyIs, PTL
  <2>2. InBody'
    BY <1>1, <1>3, <2>1
  <2> QED
    BY <2>2, EnteringIs DEF InBody
<1>5. Frames!HeaderAdjustment(Frames!Current.arity) = Frames!HeaderAdjustment(program[at[1]])
  BY EnteredIs DEF Frames!HeaderAdjustment
<1>6. regs'["rsp"] = regs["rsp"] - Frames!HeaderAdjustment(Frames!Current.arity)
  <2>1. last.regs \in [Machine!Registers -> Int] /\ "rsp" \in Machine!Registers
    BY DEF LastInv, Machine!Registers
  <2>2. "rsp" \in DOMAIN regs
    BY <2>1 DEF Entering
  <2> QED
    BY <1>1, <1>5, <2>2
<1>7. UNCHANGED [c \in DOMAIN calls |->
                   [ret   |-> Machine!Address(calls[c].to),
                    base  |-> calls[c].rsp,
                    arity |-> [arguments |-> program[calls[c].of].arguments,
                               locals |-> program[calls[c].of].locals]]]
  BY <1>1
<1> QED
  BY <1>1, <1>4, <1>6, <1>7 DEF Frames!Header

\* The addq of a return ...
LEMMA ReturnsAbove ==
  ASSUME LastInv, LastInv', Machine!WellBehaved, Step, last.at # Machine!Exit, Between,
         Machine!Ins.op = "return"
  PROVE  Frames!ReturnAddq
<1>1. InBody /\ program' = program
  BY InBodyIs, StepIs
<1>2. Midway(Machine!Ins)' /\ last' = last
  BY ReturnAddqStep
<1>3. Machine!Ins' = Machine!Ins /\ Top' = Top
  BY <1>1, <1>2 DEF Machine!Ins, Top
<1>4. /\ FrameStep' = "leave" /\ calls' = last'.calls /\ mem' = last'.mem
      /\ regs'["rsp"] = last'.regs["rsp"] + Frames!ReturnAdjustment(program'[Top'.of])
  <2>1. (LastInv /\ Midway(Machine!Ins) /\ Machine!Ins.op \in {"call", "return"})' =>
          (/\ FrameStep = IF Machine!Ins.op = "call" THEN "called" ELSE "leave"
           /\ calls = last.calls /\ mem = last.mem /\ last.at # Machine!Exit
           /\ regs["rsp"] = IF Machine!Ins.op = "call"
                            THEN last.regs["rsp"] - Frames!CallAdjustment(Machine!Ins.n)
                            ELSE last.regs["rsp"] + Frames!ReturnAdjustment(program[Top.of]))'
    BY OnTheWayIs, PTL
  <2> QED
    BY <1>2, <1>3, <2>1
<1>5. Frames!ReturnAdjustment(Frames!Current.arity) = Frames!ReturnAdjustment(program[Top.of])
  BY <1>1, CurrentIs DEF InBody, FrameOf, Frames!ReturnAdjustment
<1>6. /\ FrameStep = "body" /\ calls' = calls /\ mem' = mem
      /\ regs'["rsp"] = regs["rsp"] + Frames!ReturnAdjustment(Frames!Current.arity)
  BY <1>1, <1>2, <1>3, <1>4, <1>5 DEF InBody
<1>7. UNCHANGED [c \in DOMAIN calls |->
                   [ret   |-> Machine!Address(calls[c].to),
                    base  |-> calls[c].rsp,
                    arity |-> [arguments |-> program[calls[c].of].arguments,
                               locals |-> program[calls[c].of].locals]]]
  BY <1>1, <1>6
<1> QED
  BY <1>4, <1>6, <1>7 DEF Frames!ReturnAddq

\* ... and its ret, the last one of the program or not.
LEMMA ReturnsOut ==
  ASSUME LastInv, LastInv', Machine!WellBehaved, Step, Midway(Machine!Ins),
         Machine!Ins.op = "return"
  PROVE  Frames!ReturnRetq
<1>1. /\ FrameStep = "leave" /\ calls = last.calls /\ mem = last.mem /\ last.at # Machine!Exit
      /\ regs["rsp"] = last.regs["rsp"] + Frames!ReturnAdjustment(program[Top.of])
  BY OnTheWayIs
<1>2. Between' /\ Machine!Return /\ program' = program
  <2>1. at # Append(last.at, 1)
    <3>1. PICK ins : ins = Machine!Ins /\ ins.op = "return"
      OBVIOUS
    <3>2. at = Append(last.at, 2)
      BY <3>1 DEF Midway
    <3> QED
      BY <1>1, <3>2, TopIs, TripleIs
  <2>2. ~Between
    BY <2>1, FirstIs
  <2>3. Between' /\ Machine!Next
    BY <2>2, ReturnStep
  <2> QED
    BY <2>3, StepIs DEF Machine!Next, Machine!Compute, Machine!Write, Machine!Jump,
                        Machine!Call, Machine!Runtime
<1>3. /\ regs' = [last.regs EXCEPT !["rsp"] = Top.rsp] /\ mem' = mem /\ last'.at = Top.to
      /\ calls' = SubSeq(last.calls, 1, Len(last.calls) - 1)
      /\ calls' = last'.calls
  BY <1>1, <1>2 DEF Machine!Return, Machine!Last, Machine!Front, Between, Top
<1>4. regs'["rsp"] = regs["rsp"] + 8
  <2>1. last.regs \in [Machine!Registers -> Int] /\ "rsp" \in Machine!Registers
    BY DEF LastInv, Machine!Registers
  <2>2. Top.rsp \in Int
    BY <1>1, TopIs, StackAssumption
  <2>3. regs'["rsp"] = Top.rsp /\ regs["rsp"] = Top.rsp - 8
    BY <1>1, <1>3, <2>1, LeavingIs
  <2> QED
    BY <2>2, <2>3
<1>5. /\ last.calls \in Seq(Activations) /\ Len(last.calls) > 0
      /\ Len(last.calls) = 1 <=> Top.to = Machine!Exit
  <2>1. PICK n \in Nat : n = Len(last.calls) /\ n \in DOMAIN last.calls /\ DOMAIN last.calls = 1..n
    BY <1>1, TopIs
  <2>2. /\ last.calls \in Seq(Activations)
        /\ n = 1 <=> last.calls[n].to = Machine!Exit
    BY <2>1 DEF LastInv, CallsInv
  <2>3. n > 0
    BY <2>1
  <2> QED
    BY <2>1, <2>2, <2>3 DEF Top
<1>6. FrameStep' = IF Len(FramesOf(program, calls)) = 1 THEN "done" ELSE "body"
  <2>1. Len(FramesOf(program, calls)) = Len(last.calls)
    BY <1>1, <1>5, FramesAre
  <2>2. CASE Top.to = Machine!Exit
    <3>1. at' = <<0, 0, 1>>
      BY <1>2, <1>3, <2>2 DEF Between, Machine!Exit
    <3> QED
      BY <1>5, <2>1, <2>2, <3>1 DEF FrameStep
  <2>3. CASE Top.to # Machine!Exit
    <3>1. (/\ LastInv /\ last.at # Machine!Exit
           /\ Between \/ (Midway(Machine!Ins) /\ Machine!Ins.op \notin {"call", "return"}))'
          => InBody'
      BY InBodyIs, PTL
    <3>2. InBody'
      BY <1>2, <1>3, <2>3, <3>1
    <3> QED
      BY <1>5, <2>1, <2>3, <3>2 DEF InBody
  <2> QED
    BY <2>2, <2>3
<1>7. FramesOf(program, calls)'
        = SubSeq(FramesOf(program, calls), 1, Len(FramesOf(program, calls)) - 1)
  <2>1. FramesOf(program, calls)'
          = FramesOf(program, SubSeq(last.calls, 1, Len(last.calls) - 1))
    BY <1>2, <1>3 DEF FramesOf
  <2> QED
    BY <1>1, <1>5, <2>1, FramesAre
<1> QED
  BY <1>1, <1>3, <1>4, <1>6, <1>7 DEF Frames!ReturnRetq, FramesOf, FrameOf

LEMMA FramesStep ==
  ASSUME Integral, IInv, IInv', Machine!WellBehaved, [Next]_vars
  PROVE  [Frames!Next]_Frames!vars
<1>1. CASE Step
  <2>1. LastInv /\ LastInv' /\ (Between \/ Entering \/ Midway(Machine!Ins))
    BY DEF IInv
  <2>2. CASE Entering
    BY <1>1, <2>1, <2>2, EntersBody DEF Frames!Next
  <2>3. CASE Between
    <3>1. last.at # Machine!Exit
      BY <1>1, <2>1, <2>3, FirstIs
    <3> QED
      BY <1>1, <2>1, <2>3, <3>1, BodyRuns, CallsBelow, ReturnsAbove DEF Frames!Next
  <2>4. CASE Midway(Machine!Ins)
    <3>1. last.at # Machine!Exit
      <4>1. PICK ins : ins = Machine!Ins
        OBVIOUS
      <4> QED
        BY <2>4, <4>1 DEF Midway
    <3> QED
      BY <1>1, <2>1, <2>4, <3>1, BodyRuns, CallsInto, ReturnsOut DEF Frames!Next
  <2> QED
    BY <2>1, <2>2, <2>3, <2>4
<1>2. CASE UNCHANGED vars
  <2>1. UNCHANGED <<program, regs, mem, at, calls>>
    BY <1>2 DEF vars
  <2>2. UNCHANGED FrameStep
    BY <2>1 DEF FrameStep
  <2>3. UNCHANGED [c \in DOMAIN calls |->
                     [ret   |-> Machine!Address(calls[c].to),
                      base  |-> calls[c].rsp,
                      arity |-> [arguments |-> program[calls[c].of].arguments,
                                 locals |-> program[calls[c].of].locals]]]
    BY <2>1
  <2> QED
    BY <2>1, <2>2, <2>3 DEF Frames!vars
<1> QED
  BY <1>1, <1>2 DEF Next

LEMMA FramesInit ==
  ASSUME Init
  PROVE  Frames!Init
<1> DEFINE x == [of |-> 1, to |-> Machine!Exit, rsp |-> StackTop]
           arity == [arguments |-> program[1].arguments, locals |-> program[1].locals]
<1>1. /\ program \in Programs /\ at = <<1, 0, 1>> /\ calls = << x >>
      /\ mem = [a \in Machine!Words |->
                  IF a = StackTop - 8 THEN Machine!Address(Machine!Exit) ELSE 0]
  BY DEF Init
<1>2. PICK r \in InitialRegs : regs = [r EXCEPT !["rsp"] = StackTop - 8]
  BY DEF Init
<1>3. regs["rsp"] = StackTop - 8
  BY <1>2, RegsAssumption DEF Machine!Registers
<1>4. /\ 1 \in DOMAIN program /\ program[1].arguments <= 6 /\ StackTop - 8 \in Machine!Words
  <2>1. 1 \in DOMAIN program /\ program[1].arguments <= 6 /\ 8 + 8 * program[1].locals <= StackTop
    BY <1>1, MainIs
  <2>2. program[1].locals \in Nat
    BY <1>1, <2>1, CodeIs
  <2>3. StackTop \in 8..StackTop
    BY <2>1, <2>2, StackAssumption
  <2> QED
    BY <2>1, <2>3, WordIs, StackAssumption
<1>5. mem \in [Machine!Words -> Int] /\ mem[StackTop - 8] = Machine!Address(Machine!Exit)
  <2>1. Machine!Address(Machine!Exit) \in Int
    BY DEF Machine!Address, Machine!Exit
  <2> QED
    BY <1>1, <1>4, <2>1
<1>6. FrameStep = "enter"
  BY <1>1 DEF FrameStep
<1>7. FramesOf(program, calls) = << [ret |-> mem[StackTop - 8], base |-> StackTop,
                                     arity |-> arity] >>
  <2>1. DOMAIN calls = {1} /\ calls[1] = x
    BY <1>1
  <2>2. FrameOf(program, x) = [ret |-> mem[StackTop - 8], base |-> StackTop, arity |-> arity]
    BY <1>5 DEF FrameOf
  <2>3. FramesOf(program, calls) = [c \in {1} |-> FrameOf(program, x)]
    BY <2>1 DEF FramesOf
  <2> HIDE DEF x, arity
  <2> QED
    BY <2>2, <2>3
<1>8. arity \in UNION {{[arguments |-> p[f].arguments, locals |-> p[f].locals] :
                          f \in DOMAIN p} : p \in Programs}
  BY <1>1, <1>4
<1>9. arity.arguments <= 6
  BY <1>4
<1> HIDE DEF arity
<1> QED
  BY <1>3, <1>5, <1>6, <1>7, <1>8, <1>9 DEF Frames!Init, FramesOf, FrameOf

-----------------------------------------------------------------------------
(***************************************************************************)
(* The theorems.                                                           *)
(***************************************************************************)
\* Whatever an L1 program does, if it keeps to what its meaning depends on,
\* each x86 instruction of its code leaves it between two of its
\* instructions, in the header of a function, or on the way through one.
THEOREM Invariant ==
  ASSUME Integral
  PROVE  Spec /\ []WellBehaved => []IInv
<1>1. Init => IInv
  BY InitIs
<1>2. IInv /\ WellBehaved /\ [Next]_vars => IInv'
  BY NextKeeps DEF WellBehaved
<1> QED
  BY <1>1, <1>2, PTL DEF Spec

\* The x86 code that src/L1/src/compiler.cpp writes does what the L1 program
\* says: after each L1 instruction registers, stack, and what was printed are
\* as it says, comparisons come out as written whichever operand is in a
\* register, and a return goes behind its call with the caller's stack pointer.
THEOREM CompiledRight ==
  ASSUME Integral
  PROVE  Spec /\ []WellBehaved => ImplementsL1
<1>1. Init => Machine!Init
  BY InitIs
<1>2. IInv /\ WellBehaved /\ [Next]_vars => [Machine!Next]_Machine!machine
  BY NextKeeps DEF WellBehaved
<1> QED
  BY <1>1, <1>2, Invariant, PTL DEF Spec, ImplementsL1, Machine!Spec

\* Control stays in the code of the file, at an x86 instruction that is
\* there, and the stack pointer at a word of the stack, also in the middle of
\* a call and of a return (src/L1/src/compiler.cpp).
THEOREM TypeCorrect ==
  ASSUME Integral
  PROVE  Spec /\ []WellBehaved => []TypeOK
<1>1. IInv /\ WellBehaved => TypeOK
  BY TypeIs DEF WellBehaved
<1> QED
  BY <1>1, Invariant, PTL

\* Its functions use the stack as module L1Frames says: whatever a function
\* has on the stack and writes to it, a call, a header and a return move the
\* stack pointer by what arguments and locals take, so that a return finds the
\* address its caller stored (src/L1/src/compiler.cpp).
THEOREM FramesKept ==
  ASSUME Integral
  PROVE  Spec /\ []WellBehaved => ImplementsFrames
<1>1. Init => Frames!Init
  BY FramesInit
<1>2. IInv /\ IInv' /\ WellBehaved /\ [Next]_vars => [Frames!Next]_Frames!vars
  BY FramesStep DEF WellBehaved
<1> QED
  BY <1>1, <1>2, Invariant, PTL DEF Spec, ImplementsFrames, Frames!Spec
=============================================================================
