------------------------------ MODULE LAParser ------------------------------
(***************************************************************************)
(* The instructions of src/LA/src/parser.cpp and src/IR/src/parser.cpp: a  *)
(* function of LA is a list of instructions, one of IR a list of blocks.   *)
(***************************************************************************)
EXTENDS Grammar

LAInstruction(op, elements) == [op |-> op, elements |-> elements, from |-> "code", to |-> "code"]

\* What LA and IR write alike, and both try first.
ArrayRules == <<
  LAInstruction("read",  <<"VAR", "ARROW", "VAR", "INDEX", "INDICES">>),
  LAInstruction("write", <<"VAR", "INDEX", "INDICES", "ARROW", "S">>) >>

AllocateRules == <<
  LAInstruction("newarray", <<"VAR", "ARROW", "new", "Array(", "ARG", "ARGS", ")">>),
  LAInstruction("newtuple", <<"VAR", "ARROW", "new", "Tuple(", "T", ")">>) >>

OperationRule  == LAInstruction("operation", <<"VAR", "ARROW", "T", "OP", "T">>)
AssignmentRule == LAInstruction("assign", <<"VAR", "ARROW", "S">>)
LabelRules == <<
  LAInstruction("label",     <<"LABEL">>),
  LAInstruction("declare",   <<"TYPE", "VAR">>) >>

CallRules == <<
  LAInstruction("call",      <<"call", "CALLEE", "(", "ARG", "ARGS", ")">>),
  LAInstruction("callassign", <<"VAR", "ARROW", "call", "CALLEE", "(", "ARG", "ARGS", ")">>) >>

PlainRules == <<OperationRule>> \o LabelRules \o <<AssignmentRule>> \o CallRules

Br  == <<"br", "LABEL">>
Cbr(condition) == <<"br", condition, "LABEL", "LABEL">>

\* The function around the instructions.
FunctionRule(elements, to) == <<
  [op |-> "function", elements |-> elements, from |-> "program", to |-> "declarations"],
  [op |-> "declarations", elements |-> <<"(", "DECLARATION", "DECLARATIONS", ")", "{">>,
   from |-> "declarations", to |-> to] >>
FunctionEnd(from) == << [op |-> "end", elements |-> <<"}">>, from |-> from, to |-> "program"] >>

LA_instruction_rule ==
  ArrayRules \o <<LAInstruction("length", <<"VAR", "ARROW", "length", "VAR", "T">>)>>
  \o AllocateRules \o PlainRules
  \o << LAInstruction("br",   Br),
        LAInstruction("cbr",  Cbr("VAR")),
        LAInstruction("retv", <<"return", "T">>),
        LAInstruction("return", <<"return">>) >>

LA_program_rule ==
  FunctionRule(<<"RESULT", "NAME">>, "code") \o LA_instruction_rule \o FunctionEnd("code")

\* A block of IR: its label, instructions, and what ends it.
End(op, elements) == [op |-> op, elements |-> elements, from |-> "code", to |-> "start"]

IR_basic_block_rule ==
  << [op |-> "entry", elements |-> <<"LABEL">>, from |-> "start", to |-> "code"] >>
  \o ArrayRules
  \o <<LAInstruction("length", <<"VAR", "ARROW", "length", "VAR", "ARRAY", "T">>)>>
  \o AllocateRules \o PlainRules
  \o << End("cbr",  Cbr("T")),
        End("br",   Br),
        End("retv", <<"return", "T">>),
        End("return", <<"return">>) >>

IR_program_rule ==
  FunctionRule(<<"define", "RESULT", "LABEL">>, "start") \o IR_basic_block_rule
  \o FunctionEnd("start")

\* "<" is tried before "<=".
LAOperators(e) ==
  << <<"<", "<">>, <<">", ">">>, <<"<">>, <<"<", "=">>, <<"=">>, <<">", "=">>, <<">">>,
     <<"+">>, <<"-">>, <<"*">>, <<"&">> >>

LA_callee_rule == <<"VAR", "NAME">>
IR_callee_rule == <<"VAR", "LABEL", "NAME">>

\* LA keeps the "%" of a variable, IR drops it.
LAVarName(w) == w
IRVarName(w) == IF w[1] = "%" THEN Tail(w) ELSE w

-----------------------------------------------------------------------------
AccessParsed(op, s) ==
  IF op = "write" THEN << Made(op, s.vars[1], <<Last(s.ss)>> \o s.indices, None) >>
  ELSE << Made(op, s.vars[1], <<s.vars[2]>> \o s.indices, None) >>

BranchParsed(op, s, condition) ==
  IF op = "br" THEN << Made(op, None, None, << Last(s.labels) >>) >>
  ELSE << Made(op, None, << condition >>, Two(s.labels)) >>

OthersParsed(op, s) ==
  CASE op = "newarray" -> << Made(op, s.vars[1], s.args, None) >>
    [] op = "newtuple" -> << Made(op, s.vars[1], << Last(s.ts) >>, None) >>
    [] op = "operation" -> << Made(op, s.vars[1], Two(s.ts), s.op) >>
    [] op \in {"label", "entry"} -> << Made(op, None, None, << Last(s.labels) >>) >>
    [] op = "declare"  -> << Made(op, s.vars[1], None, s.type) >>
    [] op = "assign"   -> << Made(op, s.vars[1], << Last(s.ss) >>, None) >>
    [] op = "call"     -> << Made(op, None, s.args, s.callee) >>
    [] op = "callassign" -> << Made(op, s.vars[1], s.args, s.callee) >>
    [] op = "retv"     -> << Made(op, None, << Last(s.ts) >>, None) >>
    [] op \in {"return", "end"} -> << Made(op, None, None, None) >>
    [] op = "declarations" -> << Made(op, None, s.declarations, None) >>

\* The array of a length is the last variable that was matched; in IR it is
\* kept by itself.
LAParsed(op, s) ==
  CASE op \in {"read", "write"} -> AccessParsed(op, s)
    [] op = "length"            -> << Made(op, s.vars[1], << Last(s.vars), Last(s.ts) >>, None) >>
    [] op \in {"br", "cbr"}     -> BranchParsed(op, s, s.vars[1])
    [] op = "function"          -> << Made(op, None, << s.name >>, s.type) >>
    [] OTHER                    -> OthersParsed(op, s)

IRParsed(op, s) ==
  CASE op \in {"read", "write"} -> AccessParsed(op, s)
    [] op = "length"            -> << Made(op, s.vars[1], << s.length, Last(s.ts) >>, None) >>
    [] op \in {"br", "cbr"}     -> BranchParsed(op, s, s.ts[1])
    [] op = "function"          -> << Made(op, None, << Last(s.labels) >>, s.type) >>
    [] OTHER                    -> OthersParsed(op, s)
=============================================================================
