------------------------------ MODULE L2Parser ------------------------------
(***************************************************************************)
(* The instructions of src/L2/src/parser.cpp.                              *)
(***************************************************************************)
EXTENDS Grammar

Alternative(op, elements) ==
  [op |-> op, elements |-> <<"(">> \o elements \o <<")">>, from |-> "code", to |-> "code"]

L2_memref_rule == <<"(", "mem", "x", "m", "mem)">>
L2_cmp_rule == <<"cexp_lhs", "cop", "cexp_rhs">>

ControlRules == <<
  Alternative("goto",   <<"goto", "label">>),
  Alternative("cjump",  <<"cjump">> \o L2_cmp_rule \o <<"then", "else">>),
  Alternative("return", <<"return">>) >>

CallRules == <<
  Alternative("runtime", <<"call", "runtime_name", "n">>),
  Alternative("call",    <<"call", "u", "n">>) >>

AssignmentRule == << Alternative("assign", <<"assignment_lhs", "<-", "assignment_rhs">>) >>

MemoryRules == <<
  Alternative("load",   <<"load_lhs", "<-">> \o L2_memref_rule),
  Alternative("store",  L2_memref_rule \o <<"<-", "s">>) >>

LabelRule == <<
  [op |-> "label", elements |-> <<"label_instruction">>, from |-> "code", to |-> "code"] >>

OperationRules == <<
  Alternative("aop",    <<"arithmetic_lhs", "aop", "arithmetic_rhs">>),
  Alternative("maop",   L2_memref_rule \o <<"aop", "t">>),
  Alternative("maop2",  <<"w", "aop">> \o L2_memref_rule),
  Alternative("shift",  <<"w", "sop", "shift_rhs">>),
  Alternative("cmp",    <<"cmp_lhs", "<-">> \o L2_cmp_rule) >>

OtherRules == <<
  Alternative("inc",    <<"w", "++">>),
  Alternative("dec",    <<"w", "--">>),
  Alternative("wawwe",  <<"w", "@", "w", "w", "e">>),
  Alternative("stackarg", <<"load_lhs", "<-", "(", "stack-arg", "m", ")">>) >>

\* Mutated form: a load is tried before an assignment.
InstructionsLoadFirst ==
  ControlRules \o CallRules \o MemoryRules \o AssignmentRule \o LabelRule
  \o OperationRules \o OtherRules

L2_instruction_rule ==
  ControlRules \o CallRules \o AssignmentRule \o MemoryRules \o LabelRule
  \o OperationRules \o OtherRules

\* The program and its functions around the instructions.
entry_point_rule == <<
  [op |-> "entry", elements |-> <<"(", "label">>, from |-> "program", to |-> "functions"],
  [op |-> "end", elements |-> <<")">>, from |-> "functions", to |-> "end"] >>

L2_function_rule == <<
  [op |-> "function", elements |-> <<"(", "function_name", "arguments", "locals">>,
   from |-> "functions", to |-> "code"],
  [op |-> "end", elements |-> <<")">>, from |-> "code", to |-> "functions"] >>

L2Rules == entry_point_rule \o L2_instruction_rule \o L2_function_rule

L2LabelName(token) == token
L2NameItems(token) == <<>>

\* The rule of the then label takes the white space behind it as well, and the
\* text of the rule is kept.  (The else label has the ")" behind it.)
L2_cjump_then_label_rule(token) == <<"label and space", token[2]>>

L2_shift_rhs_rule(token) ==
  IF token = <<"register", "rcx">> THEN <<"register", "%cl">> ELSE token

rsp == <<"register", "rsp">>
One == <<"number", 1>>

\* A stack argument is a load from rsp: the locals of the function lie below it.
stackarg(s) == <<"load", s.load_lhs, <<rsp, <<"number", s.locals * 8 + Back(s.m)[2]>> >> >>

Step(w, operator) == <<"aop", w, <<"symbol", operator>>, <<One, FALSE>> >>

L2Parsed(op, s) ==
  CASE op = "goto"   -> <<op, Back(s.parsed_registers)>>
    [] op = "cjump"  -> <<op, s.cexp, s.then, s.else>>
    [] op = "runtime" -> <<op, Back(s.parsed_registers), Back(s.n)>>
    [] op = "call"   -> <<op, Back(s.u), Back(s.n)>>
    [] op = "assign" -> <<op, s.assignment_lhs, s.assignment_rhs>>
    [] op = "load"   -> <<op, s.load_lhs, Back(s.mem_refs)>>
    [] op = "store"  -> <<op, Back(s.mem_refs), Back(s.s)>>
    [] op = "label"  -> <<op, L2LabelName(s.name)>>
    [] op = "aop"    -> <<op, s.arithmetic_lhs, s.aop, s.arithmetic_rhs>>
    [] op = "maop"   -> <<op, Back(s.mem_refs), s.aop, Back(s.t)>>
    [] op = "maop2"  -> <<op, Back(s.w), s.aop, Back(s.mem_refs)>>
    [] op = "shift"  -> <<op, Back(s.w), s.sop, s.shift_rhs>>
    [] op = "cmp"    -> <<op, s.cmp_lhs, s.cexp>>
    [] op = "inc"    -> Step(Back(s.w), "+=")
    [] op = "dec"    -> Step(Back(s.w), "-=")
    [] op = "wawwe"  -> <<op>> \o SubSeq(s.w, Len(s.w) - 2, Len(s.w)) \o <<Back(s.e)>>
    [] op = "stackarg" -> stackarg(s)
    [] op = "entry"  -> <<op, s.entry>>
    [] op = "function" -> <<op, s.name, s.arguments, s.locals>>
    [] op \in {"return", "end"} -> <<op>>
=============================================================================
