-------------------------------- MODULE MCLc --------------------------------
(***************************************************************************)
(* Two tests with the same output, as several of src/L2/tests have, and    *)
(* three languages.                                                        *)
(***************************************************************************)
EXTENDS Lc

MCPrints == [t \in Tests |-> "1"]
=============================================================================
