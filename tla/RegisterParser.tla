--------------------------- MODULE RegisterParser ---------------------------
(***************************************************************************)
(* How the parsers of src/L1 and src/L2 read a program.  The alternatives  *)
(* of the grammar are tried in order, and what an alternative has matched  *)
(* is pushed on global stacks at once.  Nothing is ever taken off a stack: *)
(* an instruction takes its operands from the ends of the stacks, or from  *)
(* variables that hold what was matched last.                              *)
(*                                                                         *)
(* A text is a sequence of tokens <<class, value>>: registers, names,      *)
(* labels, numbers and symbols; white space and comments are left out.     *)
(***************************************************************************)
EXTENDS Grammar

CONSTANTS
  Rules,         \* the alternatives
  Parsed(_, _),  \* the instruction an alternative makes of the stacks
  HasVariables,  \* whether a name is an operand, a variable
  LabelName(_),  \* what the program has for a label
  NameItems(_),  \* the items the name in a label leaves
  ThenLabel(_),  \* what the program has for the then label of a cjump
  ShiftRhs(_),   \* what the program has for the right side of a shift
  Sources        \* the texts, each with its instructions: <<tokens, instructions>>

VARIABLES
  source,
  at,            \* the position in the text
  start,         \* where the instruction starts
  part,          \* of the program
  alternative,
  element,       \* of the alternative
  stacks,
  instructions,
  done

vars == <<source, at, start, part, alternative, element, stacks, instructions, done>>

text == source[1]

Rule == Rules[alternative]
More == element <= Len(Rule.elements)
Element == Rule.elements[element]
Token == IF at <= Len(text) THEN text[at] ELSE <<"end", "end">>

\* The stacks, and what is kept of the last match only.
Stacks == {"parsed_registers", "w", "x", "s", "t", "u", "m", "n", "e", "mem_refs", "variables"}
Latest == {"load_lhs", "arithmetic_lhs", "arithmetic_rhs", "assignment_lhs", "assignment_rhs",
           "shift_rhs", "cmp_lhs", "cexp_lhs", "cexp", "aop", "sop", "cop", "then", "else",
           "parsed_register", "entry", "name", "arguments", "locals"}

-----------------------------------------------------------------------------
\* What a token can be.
Classes(token) ==
  CASE token = <<"register", "rsp">> -> {"x"}
    [] token = <<"register", "rcx">> -> {"sx", "w", "x"}
    [] token[1] = "register"         -> {"w", "x"}
    [] token[1] = "name"             -> IF HasVariables THEN {"sx", "w", "x"} ELSE {}
    [] OTHER                         -> {token[1]}

\* The rules of operands: w, x, s, t, u and sx, which the others are made of.
\* load_lhs, cmp_lhs and the sides of a comparison are derived from one of them,
\* so that its own action is not run, but the actions of its parts are.
Takes(e) ==
  CASE e \in {"w", "load_lhs", "assignment_lhs", "arithmetic_lhs", "cmp_lhs"} -> {"w"}
    [] e = "x" -> {"x"}
    [] e \in {"t", "arithmetic_rhs", "cexp_lhs", "cexp_rhs"} -> {"x", "number"}
    [] e \in {"s", "assignment_rhs"} -> {"x", "number", "label"}
    [] e = "u" -> {"w", "label"}
    [] e \in {"m", "n", "arguments", "locals", "e"} -> {"number"}
    [] e = "shift_rhs" -> {"number", "sx"}
    [] e \in {"label", "then", "else", "label_instruction", "function_name"} -> {"label"}
    [] OTHER -> {}

Operators(e) ==
  CASE e = "aop" -> {"+=", "-=", "*=", "&="}
    [] e = "sop" -> {"<<=", ">>="}
    [] e = "cop" -> {"<=", "<", "="}
    [] OTHER -> {}

RuntimeFunctions == {"print", "allocate", "array-error"}

Matches ==
  \/ /\ Takes(Element) \cap Classes(Token) # {}
     /\ Element = "e" => Token[2] \in {0, 2, 4, 8}
  \/ Token[1] = "symbol" /\ Token[2] \in Operators(Element)
  \/ Element = "runtime_name" /\ Token[1] = "name" /\ Token[2] \in RuntimeFunctions
  \/ Takes(Element) = {} /\ Token \in {<<"symbol", Element>>, <<"name", Element>>}
  \/ Element = "mem)" /\ Token = <<"symbol", ")">>

Push(stack, value, when) == IF when THEN Append(stack, value) ELSE stack

\* The rules derived from another one, whose action is not run for them.
Derived == {"load_lhs", "cmp_lhs", "function_name", "label_instruction"}
PlainNumbers == {"m", "n", "e", "arguments", "locals"}

RunsW(e, token) ==
  "w" \in Classes(token) /\ Takes(e) \cap {"w", "x"} # {} /\ e \notin Derived
RunsX(e, token) == "x" \in Classes(token) \cap Takes(e)

\* Mutated form: a name is recorded as a variable where it is an x only.
RecordedAsX(e, token) == token[1] = "name" /\ RunsX(e, token)

Recorded(e, token) ==
  token[1] = "name" /\ token[2] \notin RuntimeFunctions /\ Takes(e) \cap Classes(token) # {}

\* What the parts of an operand push: a w, an x, a variable, a label.
Parts(s, e, token) ==
  [s EXCEPT
    !.w = Push(@, token, RunsW(e, token)),
    !.x = Push(@, token, RunsX(e, token)),
    !.variables = Push(@, token, Recorded(e, token)),
    !.parsed_registers =
      IF token[1] = "label"
      THEN @ \o NameItems(token) \o (IF e \in Derived THEN <<>> ELSE <<LabelName(token)>>)
      ELSE Push(@, token, e = "runtime_name"),
    !.entry = IF token[1] = "label" /\ e \notin Derived /\ @ = <<>> THEN token ELSE @,
    !.parsed_register =
      \/ RunsW(e, token) \/ RunsX(e, token)
      \/ /\ @
         /\ token[1] = "number" => e \in PlainNumbers
         /\ token[1] = "label" => e \in Derived /\ NameItems(token) = <<>>
         /\ e = "runtime_name" => HasVariables]

Value(token) == IF token[1] = "label" THEN LabelName(token) ELSE token

\* ... and what the rule of the operand itself does.
Whole(s, e, token) ==
  LET item == <<Value(token), s.parsed_register>>
  IN  [s EXCEPT
    !.s = Push(@, item, e \in {"s", "assignment_rhs"}),
    !.t = Push(@, item, e \in {"t", "arithmetic_rhs"}),
    !.u = Push(@, Value(token), e = "u"),
    !.m = Push(@, token, e = "m"),
    !.n = Push(@, token, e = "n"),
    !.e = Push(@, token, e = "e"),
    !.mem_refs = IF e = "mem)" THEN Append(@, <<Back(s.x), Back(s.m)>>) ELSE @,
    !.load_lhs = IF e = "load_lhs" THEN Back(s.w) ELSE @,
    !.assignment_lhs = IF e = "assignment_lhs" THEN Back(s.w) ELSE @,
    !.arithmetic_lhs = IF e = "arithmetic_lhs" THEN Back(s.w) ELSE @,
    !.assignment_rhs = IF e = "assignment_rhs" THEN item ELSE @,
    !.arithmetic_rhs = IF e = "arithmetic_rhs" THEN item ELSE @,
    !.shift_rhs = IF e = "shift_rhs" THEN ShiftRhs(token) ELSE @,
    !.cmp_lhs = IF e = "cmp_lhs" THEN token ELSE @,
    !.cexp_lhs = IF e = "cexp_lhs" THEN item ELSE @,
    !.cexp = IF e = "cexp_rhs" THEN <<s.cexp_lhs, s.cop, item>> ELSE @,
    !.aop = IF e = "aop" THEN token ELSE @,
    !.sop = IF e = "sop" THEN token ELSE @,
    !.cop = IF e = "cop" THEN token ELSE @,
    !.then = IF e = "then" THEN ThenLabel(token) ELSE @,
    !.else = IF e = "else" THEN Value(token) ELSE @,
    !.name = IF e \in {"function_name", "label_instruction"} THEN token ELSE @,
    !.arguments = IF e = "arguments" THEN token[2] ELSE @,
    !.locals = IF e = "locals" THEN token[2] ELSE @]

-----------------------------------------------------------------------------
Init ==
  /\ source \in Sources
  /\ at = 1
  /\ start = 1
  /\ part = Rules[1].from
  /\ alternative = 1
  /\ element = 1
  /\ stacks = [x \in Stacks \cup Latest |-> IF x = "parsed_register" THEN TRUE ELSE <<>>]
  /\ instructions = <<>>
  /\ done = FALSE

Match ==
  /\ ~done /\ Rule.from = part /\ More /\ Matches
  /\ stacks' = Whole(Parts(stacks, Element, Token), Element, Token)
  /\ at' = at + 1
  /\ element' = element + 1
  /\ UNCHANGED <<source, start, part, alternative, instructions, done>>

\* An alternative whose elements have all been matched.
Accept ==
  /\ ~done /\ Rule.from = part /\ ~More
  /\ instructions' = Append(instructions, Parsed(Rule.op, stacks))
  /\ start' = at
  /\ part' = Rule.to
  /\ alternative' = 1 /\ element' = 1
  /\ UNCHANGED <<source, at, stacks, done>>

\* An alternative that fails; the stacks are as it leaves them.  When the last
\* one fails the program is at its end or has an error.
Backtrack ==
  /\ ~done
  /\ Rule.from # part \/ (More /\ ~Matches)
  /\ at' = start
  /\ element' = 1
  /\ IF alternative < Len(Rules)
     THEN alternative' = alternative + 1 /\ UNCHANGED done
     ELSE done' = TRUE /\ UNCHANGED alternative
  /\ UNCHANGED <<source, start, part, stacks, instructions>>

Next == Match \/ Accept \/ Backtrack

Spec == Init /\ [][Next]_vars /\ WF_vars(Next)

-----------------------------------------------------------------------------
(***************************************************************************)
(* Properties                                                              *)
(***************************************************************************)
\* The type invariant: a position in the text, an alternative and an element,
\* and stacks of tokens that only the rules above made.
TypeOK ==
  /\ start \in 1..at /\ at \in 1..(Len(text) + 1)
  /\ alternative \in DOMAIN Rules
  /\ element \in 1..(Len(Rule.elements) + 1)
  /\ \A k \in DOMAIN stacks.w : "w" \in Classes(stacks.w[k])
  /\ \A k \in DOMAIN stacks.x : "x" \in Classes(stacks.x[k])

\* The operands of an instruction that are variables, in the text since start.
NamesRead == {text[k] : k \in {j \in start..(at - 1) : text[j][1] = "name"}}
Keywords == {"mem", "call", "goto", "cjump", "return", "stack-arg"} \cup RuntimeFunctions

\* Every variable an instruction mentions is recorded in its function before the
\* instruction is: a variable that liveness does not see, the right side of a
\* shift for one (src/L2/src/liveness.cpp:299), gets a colour only because it is
\* recorded (src/L2/src/interference.cpp:380).
VariablesRecorded ==
  HasVariables /\ ~done /\ Rule.from = part /\ ~More =>
    \A name \in NamesRead :
      name[2] \notin Keywords => \E k \in DOMAIN stacks.variables : stacks.variables[k] = name
=============================================================================
