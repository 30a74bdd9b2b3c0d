------------------------------- MODULE Parser -------------------------------
(***************************************************************************)
(* How the parsers of src/L3, src/IR and src/LA read the functions of a    *)
(* program.  The alternatives of the grammar are tried in order; what an  *)
(* alternative has matched is pushed on global stacks at once, and stays   *)
(* there when the alternative fails and the next one starts over.  The     *)
(* alternative that succeeds takes its operands from fixed places of the   *)
(* stacks and clears them.                                                 *)
(*                                                                         *)
(* A text is a sequence of symbols: keywords, punctuation, digits, " " for *)
(* white space and comments, and pieces of names.  A keyword can be the    *)
(* beginning of a name.                                                    *)
(***************************************************************************)
EXTENDS Grammar

CONSTANTS
  Rules,         \* the alternatives
  Parsed(_, _),  \* the instructions an alternative makes of the stacks
  Operators(_),  \* the operators an element matches, in the order it tries them
  Callees,       \* what a callee can be, in the order it is tried
  VarPrefix,     \* what a variable starts with: "%", or "" for nothing
  VarName(_),    \* the name of a variable, from its text
  Kept,          \* the stack that is not cleared, or "none"
  LabelIsVar,    \* whether the name in a label is matched as a variable
  Letters,       \* the symbols names are made of
  Sources        \* the texts, each with its instructions: <<text, instructions>>

VARIABLES
  source,
  at,            \* the position in the text
  start,         \* where the instruction starts
  part,          \* of the program
  alternative,
  element,       \* of the alternative
  stacks,
  instructions,
  done

vars == <<source, at, start, part, alternative, element, stacks, instructions, done>>

text == source[1]

Rule == Rules[alternative]
More == element <= Len(Rule.elements)
Element == Rule.elements[element]

Digits == {"0", "1", "2", "3"}

\* What a match leaves: stacks, and the last operator, callee, name, type and array.
Stacks == {"vars", "ss", "ts", "labels", "args", "indices", "declarations"}
Latest == {"op", "callee", "name", "type", "length"}

clear_memory(s) == [x \in DOMAIN s |-> IF x \in Stacks \ {Kept} THEN <<>> ELSE s[x]]

-----------------------------------------------------------------------------
(***************************************************************************)
(* What is matched at a position of the text: the position after it, or 0  *)
(***************************************************************************)
Symbol(p) == IF p \in DOMAIN text THEN text[p] ELSE "end"

RunEnd(p, symbols) ==
  CHOOSE e \in p..(Len(text) + 1) :
    Symbol(e) \notin symbols /\ \A q \in p..(e - 1) : text[q] \in symbols

NameEnd(p) == IF Symbol(p) \in Letters THEN RunEnd(p, Letters \cup Digits \cup {"-"}) ELSE 0

NumberEnd(p) ==
  LET q == IF Symbol(p) \in {"-", "+"} THEN p + 1 ELSE p
  IN  IF Symbol(q) \in Digits THEN RunEnd(q, Digits) ELSE 0

KindEnd(kind, p) ==
  CASE kind = "VAR" /\ VarPrefix # "" -> IF Symbol(p) = VarPrefix THEN NameEnd(p + 1) ELSE 0
    [] kind \in {"LABEL", "ILABEL"} -> IF Symbol(p) = ":" THEN NameEnd(p + 1) ELSE 0
    [] kind = "NUMBER" -> NumberEnd(p)
    [] OTHER           -> NameEnd(p)

\* What an operand can be, in order.
Kinds(e) ==
  CASE e \in {"T", "ARG"} -> <<"VAR", "NUMBER">>
    [] e = "S"      -> <<"VAR", "NUMBER", "LABEL">>
    [] e = "CALLEE" -> Callees
    [] OTHER        -> <<e>>

Matching(e, p) == SelectSeq(Kinds(e), LAMBDA kind : KindEnd(kind, p) # 0)

OperandEnd(e, p) == IF Matching(e, p) = <<>> THEN 0 ELSE KindEnd(Matching(e, p)[1], p)

\* The first operator that matches is taken, a longer one is not looked for.
OperatorEnd(operators, p) ==
  LET found == SelectSeq(operators, LAMBDA o : IsPrefix(o, SubSeq(text, p, Len(text))))
  IN  IF found = <<>> THEN 0 ELSE p + Len(found[1])

Skip(p) == IF Symbol(p) = " " THEN p + 1 ELSE p
Here == Skip(at)

\* int64 with any number of dimensions, tuple or code; void is a result only.
TypeEnd(e, p) ==
  IF Symbol(p) = "int64" THEN RunEnd(p + 1, {"[]"})
  ELSE IF Symbol(p) \in {"tuple", "code"} \/ (Symbol(p) = "void" /\ e = "RESULT") THEN p + 1
  ELSE 0

TypeAt(p) ==
  LET n == IF Symbol(p) = "int64" THEN RunEnd(p + 1, {"[]"}) - p - 1 ELSE 0
  IN  <<IF n > 0 THEN "array" ELSE Symbol(p), n>>

\* Where a declaration starts, if there is one, and its variable.
DeclarationAt ==
  IF Element = "DECLARATION" THEN Here ELSE IF Symbol(Here) = "," THEN Skip(Here + 1) ELSE 0
DeclaredAt == Skip(TypeEnd(Element, DeclarationAt))

\* Where an argument after a comma, or an index in brackets, starts.
AfterComma == Skip(at + 1)
AnotherArgument == Symbol(at) = "," /\ OperandEnd("T", AfterComma) # 0
AnotherIndex ==
  /\ Symbol(Here) = "[" /\ OperandEnd("T", Here + 1) # 0
  /\ Symbol(OperandEnd("T", Here + 1)) = "]"

-----------------------------------------------------------------------------
(***************************************************************************)
(* The stacks after an operand: a variable or a label is pushed as such,   *)
(* and once more as the t or the s it is                                   *)
(***************************************************************************)
PushKind(s, kind, w) ==
  [s EXCEPT
    !.vars = IF kind = "VAR" THEN Append(@, VarName(w))
             ELSE IF kind \in {"LABEL", "ILABEL"} /\ LabelIsVar THEN Append(@, Tail(w)) ELSE @,
    !.labels = IF kind = "LABEL" THEN Append(@, w) ELSE @]

Push(e, kind, w) ==
  [PushKind(stacks, kind, w) EXCEPT
    !.ts = IF e \in {"T", "S"} /\ kind # "LABEL" THEN Append(@, VarName(w)) ELSE @,
    !.ss = IF e = "S" THEN Append(@, VarName(w)) ELSE @,
    !.callee = IF e = "CALLEE" THEN w ELSE @,
    !.name = IF e = "NAME" THEN w ELSE @]

PushOperand(e, p) == Push(e, Matching(e, p)[1], SubSeq(text, p, OperandEnd(e, p) - 1))

Init ==
  /\ source \in Sources
  /\ at = 1
  /\ start = 1
  /\ part = Rules[1].from
  /\ alternative = 1
  /\ element = 1
  /\ stacks = [x \in Stacks \cup Latest |-> <<>>]
  /\ instructions = <<>>
  /\ done = FALSE

-----------------------------------------------------------------------------
(***************************************************************************)
(* The elements of an alternative                                          *)
(***************************************************************************)
Go(e, s) ==
  /\ e # 0
  /\ at' = e
  /\ stacks' = s
  /\ element' = element + 1

Operand ==
  /\ Element \in {"VAR", "LABEL", "ILABEL", "T", "S", "CALLEE", "NAME"}
  /\ OperandEnd(Element, Here) # 0
  /\ Go(OperandEnd(Element, Here), PushOperand(Element, Here))

Operator ==
  /\ Element \in {"OP", "COP"}
  /\ LET e == OperatorEnd(Operators(Element), Here)
     IN  Go(e, [stacks EXCEPT !.op = SubSeq(text, Here, e - 1)])

Arrow ==
  /\ Element = "ARROW"
  /\ Symbol(Here) = "<" /\ Symbol(Here + 1) = "-"
  /\ Go(Here + 2, stacks)

Word ==
  /\ Element = Symbol(Here)
  /\ Go(Here + 1, stacks)

\* The arguments of a call: any number, with commas between them.
FirstArgument ==
  /\ Element = "ARG"
  /\ IF OperandEnd("T", Here) = 0 THEN Go(at, stacks)
     ELSE Go(OperandEnd("T", Here), PushOperand("T", Here))

MoreArguments ==
  /\ Element = "ARGS"
  /\ IF AnotherArgument
     THEN /\ at' = OperandEnd("T", AfterComma)
          /\ stacks' = PushOperand("T", AfterComma)
          /\ UNCHANGED element
     ELSE Go(at, [stacks EXCEPT !.args = @ \o stacks.ts])

\* The indices of an access: one at least, each in brackets.
Index ==
  /\ Element \in {"INDEX", "INDICES"}
  /\ AnotherIndex
  /\ at' = OperandEnd("T", Here + 1) + 1
  /\ stacks' = PushOperand("T", Here + 1)
  /\ element' = IF Element = "INDEX" THEN element + 1 ELSE element

IndicesEnd ==
  /\ Element = "INDICES"
  /\ ~AnotherIndex
  /\ Go(at, [stacks EXCEPT !.indices = @ \o stacks.ts])

Type ==
  /\ Element \in {"TYPE", "RESULT"}
  /\ Go(TypeEnd(Element, Here), [stacks EXCEPT !.type = TypeAt(Here)])

\* The parameters of a function: any number, with commas between them.
Declaration ==
  /\ Element \in {"DECLARATION", "DECLARATIONS"}
  /\ TypeEnd(Element, DeclarationAt) # 0
  /\ at' = KindEnd("VAR", DeclaredAt)
  /\ LET w == SubSeq(text, DeclaredAt, at' - 1)
     IN  stacks' = [PushKind(stacks, "VAR", w) EXCEPT
           !.declarations = Append(@, <<TypeAt(DeclarationAt), VarName(w)>>)]
  /\ element' = IF Element = "DECLARATION" THEN element + 1 ELSE element

DeclarationsEnd ==
  /\ Element \in {"DECLARATION", "DECLARATIONS"}
  /\ TypeEnd(Element, DeclarationAt) = 0
  /\ Go(at, stacks)

\* The array of a length, which src/IR keeps by itself.
KeepLength ==
  /\ Element = "ARRAY"
  /\ Go(at, [stacks EXCEPT !.length = Last(stacks.vars)])

MatchElement ==
  /\ ~done /\ Rule.from = part /\ More
  /\ Operand \/ Operator \/ Arrow \/ Word \/ FirstArgument \/ MoreArguments
     \/ Index \/ IndicesEnd \/ Type \/ Declaration \/ DeclarationsEnd \/ KeepLength
  /\ UNCHANGED <<source, start, part, alternative, instructions, done>>

Matches ==
  CASE Element \in {"VAR", "LABEL", "ILABEL", "T", "S", "CALLEE", "NAME"} ->
           OperandEnd(Element, Here) # 0
    [] Element \in {"OP", "COP"} -> OperatorEnd(Operators(Element), Here) # 0
    [] Element = "ARROW" -> Symbol(Here) = "<" /\ Symbol(Here + 1) = "-"
    [] Element = "INDEX" -> AnotherIndex
    [] Element \in {"TYPE", "RESULT"} -> TypeEnd(Element, Here) # 0
    [] Element \in {"ARG", "ARGS", "INDICES", "DECLARATION", "DECLARATIONS", "ARRAY"} -> TRUE
    [] OTHER             -> Symbol(Here) = Element

-----------------------------------------------------------------------------
\* An alternative whose elements have all been matched.
Accept ==
  /\ ~done /\ Rule.from = part /\ ~More
  /\ instructions' = instructions \o Parsed(Rule.op, stacks)
  /\ stacks' = clear_memory(stacks)
  /\ at' = Here /\ start' = Here
  /\ part' = Rule.to
  /\ alternative' = 1 /\ element' = 1
  /\ UNCHANGED <<source, done>>

\* Mutated form: when nothing matches, the alternatives are tried again.
BacktrackAgain ==
  /\ ~done
  /\ Rule.from # part \/ (More /\ ~Matches)
  /\ at' = start
  /\ element' = 1
  /\ alternative' = IF alternative < Len(Rules) THEN alternative + 1 ELSE 1
  /\ UNCHANGED <<source, start, part, stacks, instructions, done>>

\* An alternative that fails; the stacks are as it leaves them.
Backtrack ==
  /\ ~done
  /\ Rule.from # part \/ (More /\ ~Matches)
  /\ at' = start
  /\ element' = 1
  /\ IF alternative < Len(Rules)
     THEN alternative' = alternative + 1 /\ UNCHANGED done
     ELSE done' = TRUE /\ UNCHANGED alternative
  /\ UNCHANGED <<source, start, part, stacks, instructions>>

\* The parser ends, whatever follows the last instruction it found.
Next == MatchElement \/ Accept \/ Backtrack

Spec == Init /\ [][Next]_vars /\ WF_vars(Next)

-----------------------------------------------------------------------------
(***************************************************************************)
(* Properties                                                              *)
(***************************************************************************)
\* The type invariant: a position in the text, an alternative and an element.
TypeOK ==
  /\ start \in 1..at /\ at \in 1..(Len(text) + 1)
  /\ alternative \in DOMAIN Rules
  /\ element \in 1..(Len(Rule.elements) + 1)
  /\ \A s \in Stacks : \A k \in DOMAIN stacks[s] : stacks[s][k] # <<>>
=============================================================================
