--------------------------------- MODULE L2 ---------------------------------
(***************************************************************************)
(* The instructions of L2 as the compiler's liveness analysis, spiller and *)
(* translator to L1 see them (src/L2/src/L2.h, liveness.cpp and            *)
(* interference.cpp).                                                      *)
(*                                                                         *)
(* An instruction is a record:                                             *)
(*   op    its class;                                                      *)
(*   arg   the names it mentions, in the order given at Writes and Reads;  *)
(*   to    a label: its own name; a goto or cjump: the labels it goes to;  *)
(*   then  a cjump: the first of them, which the parser keeps with the     *)
(*         white space behind it, so that it is the name of no label;      *)
(*   n     the number of arguments of a call;                              *)
(*   off   the byte offset of its memory reference;                        *)
(*   line  a history field no decision depends on: the line of the source  *)
(*         function it translates, 0 for spill code.                       *)
(* Operators (+=, <<=, <) and the values of numbers are left out.          *)
(***************************************************************************)
EXTENDS Integers, Sequences, FiniteSets, SequencesExt

CONSTANT Literals   \* the operands that are numbers or labels

-----------------------------------------------------------------------------
(***************************************************************************)
(* Registers                                                               *)
(***************************************************************************)
x86_registers ==
  <<"rdx", "rcx", "r8", "r9", "rax", "r10", "r11", "r12", "r13", "r14",
    "r15", "rbp", "rbx", "rdi", "rsi">>

caller_save_registers ==
  {"r10", "r11", "r8", "r9", "rax", "rcx", "rdi", "rdx", "rsi"}

callee_save_registers == {"r12", "r13", "r14", "r15", "rbp", "rbx"}

arg_registers == <<"rdi", "rsi", "rdx", "rcx", "r8", "r9">>

Least(a, b) == IF a < b THEN a ELSE b
FirstArgs(n) == {arg_registers[k] : k \in 1..Least(n, 6)}

-----------------------------------------------------------------------------
(***************************************************************************)
(* GEN, KILL and successors: the classes of liveness_analysis              *)
(***************************************************************************)

\* The positions in arg of the names an instruction class writes ...
Writes == [load |-> {1}, store |-> {}, assign |-> {1}, aop |-> {1},
           maop |-> {}, maop2 |-> {}, shift |-> {1}, cmp |-> {1},
           lea |-> {1}, cjump |-> {}, call |-> {}, runtime |-> {},
           label |-> {}, goto |-> {}, return |-> {}]

\* ... and of those that go into GEN.  A shift has none: its left side is not
\* considered and the parser never marks its right side as a register.
Reads == [load |-> {2}, store |-> {1, 2}, assign |-> {2}, aop |-> {1, 2},
          maop |-> {1, 2}, maop2 |-> {1, 2}, shift |-> {}, cmp |-> {2, 3},
          lea |-> {2, 3}, cjump |-> {1, 2}, call |-> {1}, runtime |-> {},
          label |-> {}, goto |-> {}, return |-> {}]

\* The position of the base of a memory reference that is compared to "rsp"
\* before it is taken into GEN.
BaseOf(op) == CASE op = "load" -> 2 [] op = "store" -> 1 [] OTHER -> 0

ImplicitGen(ins) ==
  CASE ins.op = "return"  -> {"rax"} \cup callee_save_registers
    [] ins.op = "runtime" -> FirstArgs(6)
    [] ins.op = "call"    -> FirstArgs(ins.n)
    [] OTHER              -> {}

Gen(ins) ==
  ImplicitGen(ins)
  \cup {ins.arg[k] : k \in {m \in Reads[ins.op] :
          /\ ins.arg[m] \notin Literals
          /\ ~(m = BaseOf(ins.op) /\ ins.arg[m] = "rsp")}}

\* Mutated form: a call kills nothing.
KillForgetsCalls(ins) == {ins.arg[k] : k \in Writes[ins.op]}

Kill(ins) ==
  {ins.arg[k] : k \in Writes[ins.op]}
  \cup IF ins.op \in {"call", "runtime"} THEN caller_save_registers ELSE {}

\* A jump finds its labels only from itself on, a cjump only its second; one
\* that finds none, like any other instruction, is followed by the next.
Successors(code, j) ==
  LET targets == {k \in j..Len(code) :
                    /\ code[k].op = "label"
                    /\ code[k].to \subseteq code[j].to \ code[j].then}
  IN  IF code[j].op \in {"goto", "cjump"} /\ targets # {}
      THEN targets ELSE {j + 1}

\* The shift amounts interference_analysis precolours: all but unsigned
\* numbers.
ShiftAmounts(code) ==
  {code[j].arg[2] : j \in {k \in 1..Len(code) : code[k].op = "shift"}}
  \ Literals

-----------------------------------------------------------------------------
(***************************************************************************)
(* Spilling                                                                *)
(***************************************************************************)
NeedsSpilled(ins, v) == \E k \in DOMAIN ins.arg : ins.arg[k] = v

ReplaceVar(ins, v, w) ==
  [ins EXCEPT !.arg =
     [k \in DOMAIN ins.arg |-> IF ins.arg[k] = v THEN w ELSE ins.arg[k]]]

\* get_var_name: "_a" and the variable, the letter advanced at every use.
\* The names of one spill are told apart up to its 25th use.
Letters == <<"b", "c", "d", "e", "f", "g", "h", "i", "j", "k", "l", "m", "n",
             "o", "p", "q", "r", "s", "t", "u", "v", "w", "x", "y", "z">>
SpillName(v, use) == "_" \o Letters[use] \o v

SpillLoad(w, slot) ==
  [op |-> "load", arg |-> <<w, "rsp">>, to |-> {}, then |-> {}, n |-> 0,
   off |-> (slot - 1) * 8, line |-> 0]
SpillStore(w, slot) ==
  [op |-> "store", arg |-> <<"rsp", w>>, to |-> {}, then |-> {}, n |-> 0,
   off |-> (slot - 1) * 8, line |-> 0]

\* Mutated form: the variable is not stored back.
SpillWithoutStore(code, v, slot) ==
  LET Use(j) == Cardinality({k \in 1..j : NeedsSpilled(code[k], v)})
      Around(j) ==
        LET w == SpillName(v, Use(j))
        IN  <<SpillLoad(w, slot), ReplaceVar(code[j], v, w)>>
  IN  FlattenSeq([j \in 1..Len(code) |->
                    IF NeedsSpilled(code[j], v)
                    THEN Around(j) ELSE <<code[j]>>])

\* Every instruction that mentions v gets a name of its own for it, loaded
\* from the slot before and stored to it after, whatever the instruction does
\* with the name.
Spill(code, v, slot) ==
  LET Use(j) == Cardinality({k \in 1..j : NeedsSpilled(code[k], v)})
      Around(j) ==
        LET w == SpillName(v, Use(j))
        IN  <<SpillLoad(w, slot), ReplaceVar(code[j], v, w),
              SpillStore(w, slot)>>
  IN  FlattenSeq([j \in 1..Len(code) |->
                    IF NeedsSpilled(code[j], v)
                    THEN Around(j) ELSE <<code[j]>>])

-----------------------------------------------------------------------------
(***************************************************************************)
(* Translation to L1                                                       *)
(***************************************************************************)
Convert(name, coloring) ==
  IF name \in DOMAIN coloring THEN x86_registers[coloring[name]] ELSE name

\* The names translate_to_L1 converts: not the bases of the two memory
\* arithmetics.
Converted == [load |-> {1, 2}, store |-> {1, 2}, assign |-> {1, 2},
              aop |-> {1, 2}, maop |-> {2}, maop2 |-> {1}, shift |-> {1, 2},
              cmp |-> {1, 2, 3}, lea |-> {1, 2, 3}, cjump |-> {1, 2},
              call |-> {1}, runtime |-> {}, label |-> {}, goto |-> {},
              return |-> {}]

\* The start of a lea is converted from its left side.
TranslateInstruction(ins, coloring) ==
  [ins EXCEPT !.arg =
     [k \in DOMAIN ins.arg |->
        IF k \notin Converted[ins.op] THEN ins.arg[k]
        ELSE IF ins.op = "lea" /\ k = 2 THEN Convert(ins.arg[1], coloring)
        ELSE Convert(ins.arg[k], coloring)]]

Translate(code, coloring) ==
  [j \in 1..Len(code) |-> TranslateInstruction(code[j], coloring)]
=============================================================================
