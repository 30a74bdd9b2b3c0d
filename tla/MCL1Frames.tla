----------------------------- MODULE MCL1Frames -----------------------------
(***************************************************************************)
(* A stack of eight words and functions with up to one argument on it and  *)
(* up to one local.                                                        *)
(***************************************************************************)
EXTENDS L1Frames

MCAddresses == {8 * n : n \in 0..7}
MCArities == [arguments : {2, 7}, locals : {0, 1}]

\* The stack ends.
InStack == rsp >= 8
=============================================================================
