--------------------------- MODULE MCInterference ---------------------------
(***************************************************************************)
(* Model checking of Interference: every interference graph over the       *)
(* variables and three registers, with every set of MCShiftable variables  *)
(* used as shift amounts, and every graph over the variables, one register *)
(* and rsp.                                                                *)
(***************************************************************************)
EXTENDS Interference

CONSTANTS MCVariables, MCShiftable

\* Every order of the names.
MCNoOrder(n, m) == FALSE

MCRegisters == <<"rdx", "rcx", "r8">>

\* The registers need no edges among themselves.
MCEdges(names) ==
  {e \in SUBSET names : Cardinality(e) = 2 /\ ~ e \subseteq RegisterSet}

MCJobs ==
  [lines : SUBSET MCEdges(MCVariables \cup RegisterSet), variables : {MCVariables},
   shifts : SUBSET MCShiftable]
  \cup
  [lines : SUBSET MCEdges(MCVariables \cup {"rcx", StackPointer}), variables : {MCVariables},
   shifts : SUBSET MCShiftable]
=============================================================================
