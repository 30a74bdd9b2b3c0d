----------------------------- MODULE MCLiveness -----------------------------
(***************************************************************************)
(* Model checking of Liveness over every flow graph of MCLength            *)
(* instructions: data-flow facts about different names never mix, so one   *)
(* name already exercises every pattern of GEN and KILL; every set of      *)
(* successors is tried, self loops and cycles included: generate_in_out    *)
(* promises its result for any, although the liveness_analysis of today    *)
(* hands it forward edges only.                                            *)
(***************************************************************************)
EXTENDS Liveness

CONSTANT MCLength   \* instructions of a function

MCFlows ==
  [GEN : [1..MCLength -> SUBSET Names],
   KILL : [1..MCLength -> SUBSET Names],
   successors : [1..MCLength -> (SUBSET (1..MCLength)) \ {{}}]]

=============================================================================
