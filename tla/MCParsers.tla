------------------------------ MODULE MCParsers ------------------------------
(***************************************************************************)
(* The parsers of the five languages, each on its programs (modules        *)
(* MCLAParser, MCL3Parser, MCL2Parser, MCL1Parser).                        *)
(***************************************************************************)
EXTENDS Integers, Sequences, SequencesExt

VARIABLES
  language,
  source, at, start, part, alternative, element, stacks, instructions, done

vars ==
  <<language, source, at, start, part, alternative, element, stacks, instructions, done>>

L1Texts == INSTANCE MCL1Parser
L2Texts == INSTANCE MCL2Parser
L3Texts == INSTANCE MCL3Parser
LATexts == INSTANCE MCLAParser

L1 == INSTANCE RegisterParser WITH
  Rules <- L1Texts!L1Rules, Parsed <- L1Texts!L1Parsed, HasVariables <- FALSE,
  LabelName <- L1Texts!L1LabelName, NameItems <- L1Texts!L1NameItems,
  ThenLabel <- L1Texts!L1_cjump_then_label_rule,
  ShiftRhs <- L1Texts!L1_shift_rhs_rule, Sources <- L1Texts!MCSources

L2 == INSTANCE RegisterParser WITH
  Rules <- L2Texts!L2Rules, Parsed <- L2Texts!L2Parsed, HasVariables <- TRUE,
  LabelName <- L2Texts!L2LabelName, NameItems <- L2Texts!L2NameItems,
  ThenLabel <- L2Texts!L2_cjump_then_label_rule,
  ShiftRhs <- L2Texts!L2_shift_rhs_rule, Sources <- L2Texts!MCSources

L3 == INSTANCE Parser WITH
  Rules <- L3Texts!L3_program_rule, Parsed <- L3Texts!L3Parsed,
  Operators <- L3Texts!L3Operators, Callees <- L3Texts!L3_callee_rule,
  VarPrefix <- "", VarName <- L3Texts!L3VarName, Kept <- "none", LabelIsVar <- TRUE,
  Letters <- L3Texts!MCLetters, Sources <- L3Texts!MCSources

IR == INSTANCE Parser WITH
  Rules <- LATexts!IR_program_rule, Parsed <- LATexts!IRParsed,
  Operators <- LATexts!LAOperators, Callees <- LATexts!IR_callee_rule,
  VarPrefix <- "%", VarName <- LATexts!IRVarName, Kept <- "none", LabelIsVar <- FALSE,
  Letters <- LATexts!MCLetters, Sources <- LATexts!IRSources

LA == INSTANCE Parser WITH
  Rules <- LATexts!LA_program_rule, Parsed <- LATexts!LAParsed,
  Operators <- LATexts!LAOperators, Callees <- LATexts!LA_callee_rule,
  VarPrefix <- "%", VarName <- LATexts!LAVarName, Kept <- "labels", LabelIsVar <- FALSE,
  Letters <- LATexts!MCLetters, Sources <- LATexts!LASources

Init ==
  \/ language = "L1" /\ L1!Init
  \/ language = "L2" /\ L2!Init
  \/ language = "L3" /\ L3!Init
  \/ language = "IR" /\ IR!Init
  \/ language = "LA" /\ LA!Init

Next ==
  /\ \/ language = "L1" /\ L1!Next
     \/ language = "L2" /\ L2!Next
     \/ language = "L3" /\ L3!Next
     \/ language = "IR" /\ IR!Next
     \/ language = "LA" /\ LA!Next
  /\ UNCHANGED language

Spec == Init /\ [][Next]_vars /\ WF_vars(Next)

-----------------------------------------------------------------------------
(***************************************************************************)
(* Properties                                                              *)
(***************************************************************************)
\* What an instruction of L3 takes from a stack is there.
OperandsThere ==
  language = "L3" /\ ~done /\ ~L3!More => L3Texts!L3OperandsThere(L3!Rule.op, stacks)

\* The type invariant of the language's machine, and its stacks hold what is
\* taken from them.
TypeOK ==
  OperandsThere /\
  CASE language = "L1" -> L1!TypeOK
    [] language = "L2" -> L2!TypeOK
    [] language = "L3" -> L3!TypeOK
    [] language = "IR" -> IR!TypeOK
    [] language = "LA" -> LA!TypeOK

\* Instructions come out as they are written, in their order, whatever the
\* alternatives that failed and the instructions before left on the stacks, and
\* the parser does not end before the text does: at what it does not understand
\* the program would end, without an error in L3, IR and LA.
ParsedAsWritten ==
  /\ IsPrefix(instructions, source[2])
  /\ done => start = Len(source[1]) + 1 /\ instructions = source[2]

\* Every variable an instruction of L2 mentions is recorded in its function: one
\* that liveness does not see, the right side of a shift for one
\* (src/L2/src/liveness.cpp:299), gets a colour only because it is recorded
\* (src/L2/src/interference.cpp:380).
VariablesRecorded == language = "L2" => L2!VariablesRecorded

\* The parser comes to its end: every instruction takes part of the text (what
\* pegtl::analyze looks for, src/L3/src/parser.cpp:687).
Ends == <>done
=============================================================================
