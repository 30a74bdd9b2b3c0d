------------------------------ MODULE L3Parser ------------------------------
(***************************************************************************)
(* The instructions of src/L3/src/parser.cpp.                              *)
(***************************************************************************)
EXTENDS Grammar

Alternative(op, elements) == [op |-> op, elements |-> elements, from |-> "code", to |-> "code"]

\* The function around the instructions.
L3_function_rule == <<
  [op |-> "function", elements |-> <<"define", "LABEL">>, from |-> "program", to |-> "vars"],
  [op |-> "vars", elements |-> <<"(", "ARG", "ARGS", ")", "{">>, from |-> "vars", to |-> "code"] >>
FunctionEnd == << [op |-> "end", elements |-> <<"}">>, from |-> "code", to |-> "program"] >>

LoadRule  == Alternative("load", <<"VAR", "ARROW", "load", "VAR">>)
StoreRule == Alternative("store", <<"store", "VAR", "ARROW", "S">>)
AssignmentRule == Alternative("assign", <<"VAR", "ARROW", "S">>)
ReturnRule == Alternative("return", <<"return">>)

CallRules == <<
  Alternative("callassign", <<"VAR", "ARROW", "call", "CALLEE", "(", "ARG", "ARGS", ")">>),
  Alternative("call",   <<"call", "CALLEE", "(", "ARG", "ARGS", ")">>) >>

OperationRules == <<
  Alternative("compare", <<"VAR", "ARROW", "T", "COP", "T">>),
  Alternative("arithmetic", <<"VAR", "ARROW", "T", "OP", "T">>) >>

ControlRules == <<
  Alternative("br",     <<"br", "LABEL">>),
  Alternative("label",  <<"ILABEL">>),
  Alternative("retv",   <<"return", "T">>) >>

BranchRule == << Alternative("cbr", <<"br", "VAR", "LABEL", "LABEL">>) >>

\* Mutated form: a store is tried before a load.
RulesStoreFirst ==
  BranchRule \o <<StoreRule, LoadRule>> \o CallRules \o OperationRules \o <<AssignmentRule>>
  \o ControlRules \o <<ReturnRule>>
L3_instruction_rule ==
  BranchRule \o <<LoadRule, StoreRule>> \o CallRules \o OperationRules \o <<AssignmentRule>>
  \o ControlRules \o <<ReturnRule>>

L3_program_rule == L3_function_rule \o L3_instruction_rule \o FunctionEnd

\* "<" is tried before "<=", which it is the beginning of.
L3Operators(e) ==
  IF e = "COP" THEN << <<"<">>, <<"<", "=">>, <<"=">>, <<">", "=">>, <<">">> >>
  ELSE << <<"+">>, <<"-">>, <<"*">>, <<"&">>, <<"<", "<">>, <<">", ">">> >>

L3_callee_rule == <<"VAR", "LABEL">>

L3VarName(w) == w

arg_registers == <<"rdi", "rsi", "rdx", "rcx", "r8", "r9">>

\* Arguments are moved to registers, by assignments before the call; the
\* parameters of a function from registers, by its first assignments.
Arguments(args) ==
  [k \in DOMAIN args |-> Made("assign", << arg_registers[k] >>, << args[k] >>, None)]
Parameters(args) ==
  [k \in DOMAIN args |-> Made("assign", args[k], << << arg_registers[k] >> >>, None)]

L3Parsed(op, s) ==
  CASE op = "cbr"    -> << Made(op, None, << s.vars[1] >>, Two(s.labels)) >>
    [] op = "load"   -> << Made(op, s.vars[1], << s.vars[2] >>, None) >>
    [] op = "store"  -> << Made(op, s.vars[2], << Last(s.ss) >>, None) >>
    [] op = "callassign" -> Append(Arguments(s.args), Made(op, s.vars[1], s.args, s.callee))
    [] op = "call"   -> Append(Arguments(s.args), Made(op, None, s.args, s.callee))
    [] op \in {"compare", "arithmetic"} -> << Made(op, s.vars[1], Two(s.ts), s.op) >>
    [] op = "assign" -> << Made(op, s.vars[1], << Last(s.ss) >>, None) >>
    [] op = "br"     -> << Made(op, None, None, << Last(s.labels) >>) >>
    [] op = "label"  -> << Made(op, None, None, << Last(s.vars) >>) >>
    [] op = "retv"   -> << Made(op, None, << Last(s.ts) >>, None) >>
    [] op \in {"return", "end"} -> << Made(op, None, None, None) >>
    [] op = "function" -> << Made(op, None, None, << Last(s.labels) >>) >>
    [] op = "vars"   -> Parameters(s.args)

\* What an instruction takes from a stack is there: a store takes the second
\* variable, because the load that is tried before it leaves "store" there as
\* the first one.
L3OperandsThere(op, s) ==
  /\ op \in {"load", "store"} => Len(s.vars) >= 2
  /\ op \in {"compare", "arithmetic"} => Len(s.ts) >= 2
  /\ op = "cbr" => Len(s.labels) >= 2
=============================================================================
