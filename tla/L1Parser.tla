------------------------------ MODULE L1Parser ------------------------------
(***************************************************************************)
(* The instructions of src/L1/src/parser.cpp.                              *)
(***************************************************************************)
EXTENDS Grammar

Alternative(op, elements) ==
  [op |-> op, elements |-> <<"(">> \o elements \o <<")">>, from |-> "code", to |-> "code"]

L1_memref_rule == <<"(", "mem", "x", "m", "mem)">>
L1_cmp_rule == <<"cexp_lhs", "cop", "cexp_rhs">>

AssignmentRule == Alternative("assign", <<"assignment_lhs", "<-", "assignment_rhs">>)
FunctionCallRule == Alternative("call", <<"call", "u", "n">>)
RuntimeCallRule == Alternative("runtime", <<"call", "runtime_name", "n">>)
LoadRule  == Alternative("load", <<"load_lhs", "<-">> \o L1_memref_rule)
StoreRule == Alternative("store", L1_memref_rule \o <<"<-", "s">>)

LabelRule ==
  [op |-> "label", elements |-> <<"label_instruction">>, from |-> "code", to |-> "code"]

OperationRules == <<
  Alternative("aop",    <<"arithmetic_lhs", "aop", "arithmetic_rhs">>),
  Alternative("maop",   L1_memref_rule \o <<"aop", "t">>),
  Alternative("maop2",  <<"w", "aop">> \o L1_memref_rule),
  Alternative("shift",  <<"w", "sop", "shift_rhs">>),
  Alternative("cmp",    <<"cmp_lhs", "<-">> \o L1_cmp_rule) >>

ControlRules == <<
  Alternative("cjump",  <<"cjump">> \o L1_cmp_rule \o <<"then", "else">>),
  Alternative("goto",   <<"goto", "label">>) >>

OtherRules == <<
  Alternative("inc",    <<"w", "++">>),
  Alternative("dec",    <<"w", "--">>),
  Alternative("wawwe",  <<"w", "@", "w", "w", "e">>),
  Alternative("return", <<"return">>) >>

L1_instruction_rule ==
  <<AssignmentRule, FunctionCallRule, RuntimeCallRule, LoadRule, StoreRule, LabelRule>>
  \o OperationRules \o ControlRules \o OtherRules

\* The program and its functions around the instructions.
entry_point_rule == <<
  [op |-> "entry", elements |-> <<"(", "label">>, from |-> "program", to |-> "functions"],
  [op |-> "end", elements |-> <<")">>, from |-> "functions", to |-> "end"] >>

L1_function_rule == <<
  [op |-> "function", elements |-> <<"(", "function_name", "arguments", "locals">>,
   from |-> "functions", to |-> "code"],
  [op |-> "end", elements |-> <<")">>, from |-> "code", to |-> "functions"] >>

L1Rules == entry_point_rule \o L1_instruction_rule \o L1_function_rule

\* Labels are written for the assembler: "_" for ":".  Their names are kept as
\* items of their own, before them.
Underscore(token) == <<"_", token[2]>>
L1LabelName(token) == Underscore(token)
L1NameItems(token) == << <<"name", token[2]>> >>

\* The labels of a cjump are the last items.
L1_cjump_then_label_rule(token) == L1LabelName(token)

L1_shift_rhs_rule(token) ==
  IF token = <<"register", "rcx">> THEN <<"register", "%cl">> ELSE <<"$", token[2]>>

runtime_name(item) == IF item = <<"name", "array-error">> THEN <<"name", "array_error">> ELSE item

One == <<"number", 1>>
Step(w, operator) == <<"aop", w, <<"symbol", operator>>, <<One, FALSE>> >>

L1Parsed(op, s) ==
  CASE op = "goto"   -> <<op, Back(s.parsed_registers)>>
    [] op = "cjump"  -> <<op, s.cexp, s.then, s.else>>
    [] op = "runtime" -> <<op, runtime_name(Back(s.parsed_registers)), Back(s.n)>>
    [] op = "call"   -> <<op, Back(s.u), Back(s.n)>>
    [] op = "assign" -> <<op, s.assignment_lhs, s.assignment_rhs>>
    [] op = "load"   -> <<op, s.load_lhs, Back(s.mem_refs)>>
    [] op = "store"  -> <<op, Back(s.mem_refs), Back(s.s)>>
    [] op = "label"  -> <<op, L1LabelName(s.name)>>
    [] op = "aop"    -> <<op, s.arithmetic_lhs, s.aop, s.arithmetic_rhs>>
    [] op = "maop"   -> <<op, Back(s.mem_refs), s.aop, Back(s.t)>>
    [] op = "maop2"  -> <<op, Back(s.w), s.aop, Back(s.mem_refs)>>
    [] op = "shift"  -> <<op, Back(s.w), s.sop, s.shift_rhs>>
    [] op = "cmp"    -> <<op, s.cmp_lhs, s.cexp>>
    [] op = "inc"    -> Step(Back(s.w), "+=")
    [] op = "dec"    -> Step(Back(s.w), "-=")
    [] op = "wawwe"  -> <<op>> \o SubSeq(s.w, Len(s.w) - 2, Len(s.w)) \o <<Back(s.e)>>
    [] op = "entry"  -> <<op, s.entry>>
    [] op = "function" -> <<op, s.name, s.arguments, s.locals>>
    [] op \in {"return", "end"} -> <<op>>
=============================================================================
