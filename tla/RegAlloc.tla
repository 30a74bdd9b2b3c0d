------------------------------ MODULE RegAlloc ------------------------------
(***************************************************************************)
(* The L2 compiler on one function: the loop of main in                    *)
(* src/L2/src/liveness.cpp that alternates liveness analysis (Liveness),   *)
(* graph colouring (Interference) and spilling (L2) until every variable   *)
(* has a register, and then translates the function to L1.                 *)
(*                                                                         *)
(* The translated function is then run in step with the source function,   *)
(* on symbolic values: a value is named after the source instruction that  *)
(* produced it.  The run is not code of the compiler; it is what the       *)
(* compiler's output is for, and it makes "the register allocation is      *)
(* right" a property of states.                                            *)
(***************************************************************************)
EXTENDS L2

CONSTANTS
  Sources,          \* the functions to compile: [code, locals, variables]
  Precedes(_, _)    \* the order of the names, as in Interference

VARIABLES
  source,   \* the function as parsed
  f,        \* the function as rewritten so far
  pc,       \* "function", "liveness", "coloring", "spill", "run", "returned"
  todo      \* the variables still to spill in this round

\* The state of the two analyses.
VARIABLES GEN, KILL, successors, In, Out, i, change, phase
VARIABLES graph, adjacencies, coloring, stack, shifted, reg, step

\* The run: the next instruction of f, and the values the names and the stack
\* hold in the source function and in its translation.
VARIABLES at, names, regs, slots, frame

liveVars  == <<GEN, KILL, successors, In, Out, i, change, phase>>
graphVars == <<graph, adjacencies, coloring, stack, shifted, reg, step>>
runVars   == <<at, names, regs, slots, frame>>
vars == <<source, f, pc, todo, liveVars, graphVars, runVars>>

Live  == INSTANCE Liveness WITH Names <- {}, Flows <- {}
Graph == INSTANCE Interference WITH
           Registers <- x86_registers, ShiftRegister <- "rcx",
           StackPointer <- "rsp", Jobs <- {}

\* What the parser hands over: every instruction has the names of its class, and a
\* function ends with a return or a goto, so that control does not run out of it.
IsInstruction(ins) ==
  /\ DOMAIN ins = {"op", "arg", "to", "then", "n", "off", "line"}
  /\ ins.op \in DOMAIN Writes /\ ins.n \in Nat
  /\ Writes[ins.op] \cup Reads[ins.op] \cup Converted[ins.op] \subseteq DOMAIN ins.arg

IsCode(code) ==
  /\ code # <<>> /\ code \in Seq(ToSet(code))
  /\ \A ins \in ToSet(code) : IsInstruction(ins)
  /\ Last(code).op \in {"return", "goto"}
  /\ Last(code).arg = <<>> /\ Last(code).line # 0

\* The names a function mentions
Mentioned(code) == UNION {{ins.arg[k] : k \in DOMAIN ins.arg} : ins \in ToSet(code)}

ASSUME SourcesAssumption ==
  \A s \in Sources :
    /\ DOMAIN s = {"code", "locals", "variables"}
    /\ IsCode(s.code) /\ \A ins \in ToSet(s.code) : ins.line # 0
    /\ s.locals \in Nat
    /\ s.variables \subseteq Mentioned(s.code)

-----------------------------------------------------------------------------
(***************************************************************************)
(* The allocation loop                                                     *)
(***************************************************************************)
Init ==
  /\ source \in Sources
  /\ f = source
  /\ pc = "function"
  /\ todo = <<>>
  /\ Live!Init /\ Graph!Init
  /\ at = 0 /\ names = <<>> /\ regs = <<>> /\ slots = <<>> /\ frame = <<>>

StartLiveness ==
  /\ pc = "function"
  /\ LET n == Len(f.code)
     IN  Live!Begin([j \in 1..n |-> Gen(f.code[j])],
                    [j \in 1..n |-> Kill(f.code[j])],
                    [j \in 1..n |-> Successors(f.code, j)])
  /\ pc' = "liveness"
  /\ UNCHANGED <<source, f, todo, graphVars, runVars>>

LivenessStep ==
  /\ pc = "liveness"
  /\ Live!Solve
  /\ UNCHANGED <<source, f, pc, todo, graphVars, runVars>>

\* The sets of names generate_graph makes interfere: what is live into an
\* instruction, out of it, and out of it together with what it kills.  (The
\* y_to_x_type test never excludes an instruction: it reads the member of the
\* base class, which is false for all.)
Lines ==
  LET lines == 1..Len(f.code)
  IN  {In[j] : j \in lines} \cup {Out[j] : j \in lines}
      \cup {Out[j] \cup KILL[j] : j \in lines}

StartColoring ==
  /\ pc = "liveness"
  /\ phase = "done"
  /\ Graph!GenerateGraph(Lines, f.variables, ShiftAmounts(f.code))
  /\ pc' = "coloring"
  /\ UNCHANGED <<source, f, todo, liveVars, runVars>>

ColoringStep ==
  /\ pc = "coloring"
  /\ Graph!Analyse
  /\ UNCHANGED <<source, f, pc, todo, liveVars, runVars>>

\* The whole remaining stack is spilled, from its bottom.
StartSpilling ==
  /\ pc = "coloring"
  /\ step = "done"
  /\ stack # <<>>
  /\ todo' = stack
  /\ pc' = "spill"
  /\ UNCHANGED <<source, f, liveVars, graphVars, runVars>>

\* Mutated forms of SpillNext: the rewritten function is dropped; the variable
\* goes into the last slot the function already has.
SpillNextDropsFunction ==
  /\ pc = "spill"
  /\ todo # <<>>
  /\ todo' = Tail(todo)
  /\ UNCHANGED <<source, f, pc, liveVars, graphVars, runVars>>

SpillNextIntoLastSlot ==
  /\ pc = "spill"
  /\ todo # <<>>
  /\ f' = [code      |-> Spill(f.code, Head(todo), f.locals),
           locals    |-> f.locals + 1,
           variables |-> {}]
  /\ todo' = Tail(todo)
  /\ UNCHANGED <<source, pc, liveVars, graphVars, runVars>>

\* Analysis::spill: one more local, the variables of the function forgotten.
SpillNext ==
  /\ pc = "spill"
  /\ todo # <<>>
  /\ f' = [code      |-> Spill(f.code, Head(todo), f.locals + 1),
           locals    |-> f.locals + 1,
           variables |-> {}]
  /\ todo' = Tail(todo)
  /\ UNCHANGED <<source, pc, liveVars, graphVars, runVars>>

NextRound ==
  /\ pc = "spill"
  /\ todo = <<>>
  /\ pc' = "function"
  /\ UNCHANGED <<source, f, todo, liveVars, graphVars, runVars>>

-----------------------------------------------------------------------------
(***************************************************************************)
(* The run                                                                 *)
(***************************************************************************)
Entry(of, k)    == [by |-> 0, of |-> of, k |-> k]
Made(line, of)  == [by |-> line, of |-> of, k |-> 0]
Undefined       == Entry("undefined", 0)

RegisterNames == {x86_registers[c] : c \in DOMAIN x86_registers} \cup {"rsp"}

ValueOf(env, name) ==
  IF name \in DOMAIN env THEN env[name]
  ELSE IF name \in Literals THEN Entry(name, 1) ELSE Undefined

\* The stack above rsp: the locals, then the caller's part, which begins with
\* the stack arguments.
StackValue(mem, locals, off) ==
  IF off \in DOMAIN mem THEN mem[off]
  ELSE IF off < locals * 8 THEN Undefined
  ELSE Entry("stack-arg", off - locals * 8)

Write(env, name, value) ==
  [x \in DOMAIN env \cup {name} |-> IF x = name THEN value ELSE env[x]]

TranslateToL1 ==
  /\ pc = "coloring"
  /\ step = "done"
  /\ stack = <<>>
  /\ f' = [f EXCEPT !.code = Translate(f.code, coloring)]
  /\ pc' = "run"
  /\ at' = 1
  /\ names' = [x \in RegisterNames |-> Entry(x, 0)]
  /\ regs'  = [x \in RegisterNames |-> Entry(x, 0)]
  /\ slots' = <<>> /\ frame' = <<>>
  /\ UNCHANGED <<source, todo, liveVars, graphVars>>

Instruction == f.code[at]
SourceInstruction == source.code[Instruction.line]

\* What an instruction needs when it runs (the code's Reads leaves out the
\* shifts).
NeededArgs(ins) == IF ins.op = "shift" THEN {1, 2} ELSE Reads[ins.op]
NeededRegisters(ins) ==
  CASE ins.op = "return" -> {"rax"} \cup callee_save_registers
    [] ins.op \in {"call", "runtime"} -> FirstArgs(ins.n)
    [] OTHER -> {}

\* Where control goes: a jump to one of its labels, a call to the return
\* label that follows it, anything else to the next instruction.
Targets ==
  LET Label(k) == f.code[k].op = "label"
  IN  CASE Instruction.op \in {"goto", "cjump"} ->
             {k \in 1..Len(f.code) :
                Label(k) /\ f.code[k].to \subseteq Instruction.to}
        [] Instruction.op = "call" ->
             LET labels == {k \in at..Len(f.code) : Label(k)}
             IN  IF labels = {} THEN {at + 1}
                 ELSE {k \in labels : \A m \in labels : k <= m}
        [] OTHER -> {at + 1}

\* The effect of an instruction on the names of one of the two functions.
Effect(ins, line, env, mem, locals) ==
  CASE ins.op \in {"call", "runtime"} ->
         [x \in DOMAIN env |->
            IF x \in caller_save_registers THEN Made(line, x) ELSE env[x]]
    [] ins.op = "load" /\ ins.arg[2] = "rsp" ->
         Write(env, ins.arg[1], StackValue(mem, locals, ins.off))
    [] ins.op = "assign" ->
         Write(env, ins.arg[1], ValueOf(env, ins.arg[2]))
    [] ins.op \in {"load", "aop", "maop2", "shift", "cmp", "lea"} ->
         Write(env, ins.arg[1], Made(line, "result"))
    [] OTHER -> env

StackEffect(ins, env, mem) ==
  IF ins.op = "store" /\ ins.arg[1] = "rsp" /\ ins.off >= 0
  THEN Write(mem, ins.off, ValueOf(env, ins.arg[2]))
  ELSE mem

\* An instruction of spill code runs in the translation only.
RunSpillCode ==
  /\ pc = "run"
  /\ Instruction.line = 0
  /\ regs'  = Effect(Instruction, 0, regs, frame, f.locals)
  /\ frame' = StackEffect(Instruction, regs, frame)
  /\ at' = at + 1
  /\ UNCHANGED <<source, f, pc, todo, liveVars, graphVars, names, slots>>

RunInstruction ==
  /\ pc = "run"
  /\ Instruction.line # 0
  /\ Instruction.op # "return"
  /\ LET line == Instruction.line
     IN  /\ names' = Effect(SourceInstruction, line, names, slots,
                            source.locals)
         /\ slots' = StackEffect(SourceInstruction, names, slots)
         /\ regs'  = Effect(Instruction, line, regs, frame, f.locals)
         /\ frame' = StackEffect(Instruction, regs, frame)
  /\ at' \in Targets
  /\ UNCHANGED <<source, f, pc, todo, liveVars, graphVars>>

RunReturn ==
  /\ pc = "run"
  /\ Instruction.op = "return"
  /\ pc' = "returned"
  /\ UNCHANGED <<source, f, todo, liveVars, graphVars, runVars>>

Allocate ==
  \/ StartLiveness \/ LivenessStep
  \/ StartColoring \/ ColoringStep
  \/ StartSpilling \/ SpillNext \/ NextRound
  \/ TranslateToL1

Run == RunSpillCode \/ RunInstruction \/ RunReturn

Next == Allocate \/ Run

\* The compiler is a sequential program; nothing stops it between two steps.
Spec == Init /\ [][Next]_vars /\ WF_vars(Allocate)

-----------------------------------------------------------------------------
(***************************************************************************)
(* Properties                                                              *)
(***************************************************************************)
\* The type invariant: a round only ever adds locals, what is to be spilled is
\* mentioned by the function, and the run stays inside the function.
TypeOK ==
  /\ pc \in {"function", "liveness", "coloring", "spill", "run", "returned"}
  /\ f.locals >= source.locals
  /\ todo \in Seq(Mentioned(source.code) \cup Mentioned(f.code))
  /\ pc \in {"run", "returned"} => at \in 1..Len(f.code)

\* Every value the translated function uses is the value the source function
\* uses at that point: no register is given to two variables while both are
\* needed, no value is lost in a spill, a call or a frame that has grown, and
\* the caller gets back rax and its callee-save registers.
ReadsAgree ==
  pc = "run" /\ Instruction.line # 0 =>
    /\ \A k \in NeededArgs(SourceInstruction) :
         ValueOf(names, SourceInstruction.arg[k]) =
           ValueOf(regs, Instruction.arg[k])
    /\ \A r \in NeededRegisters(SourceInstruction) : names[r] = regs[r]

\* The state is well formed, and spill code stays in the part of the frame the
\* spiller has added, over all rounds: above the locals of the source function
\* and below the caller's frame, in whole slots.
SpillSlotsAreOwn ==
  /\ TypeOK
  /\ \A j \in 1..Len(f.code) : f.code[j].line = 0 =>
       /\ f.code[j].off \in source.locals * 8 .. (f.locals - 1) * 8
       /\ f.code[j].off % 8 = 0

\* No variable is left in the translation where translate_to_L1 converts names: whatever
\* an instruction reads, writes or shifts by has got into the graph or was coloured before,
\* in every round, although a function forgets its variables when one is spilled.
OnlyRegistersLeft ==
  pc \in {"run", "returned"} =>
    \A ins \in ToSet(f.code) : \A k \in Converted[ins.op] :
      ins.arg[k] \in RegisterNames \cup Literals

\* Not an invariant (CallAcross of MCRegAlloc): only variables of the source
\* function are spilled, never a name that spill
\* code uses once: such a name needs its register between two instructions, and
\* spilling it gives another name with the same need.
OnlyVariablesSpilled == ToSet(todo) \subseteq source.variables

\* The do-while loop of main ends for every function of the run: spilling
\* makes progress.
AllocationEnds == pc = "function" ~> pc = "run"
=============================================================================
