------------------------------ MODULE MCEth66 ------------------------------
(***************************************************************************)
(* Model-checking instance of Eth66: two peer connections and a block      *)
(* tree with a fork at height 2, genesis b0 <- b1 <- {b2, b2x}.            *)
(***************************************************************************)
EXTENDS Eth66

MCBlock == {"b0", "b1", "b2", "b2x"}

MCNumber == [b \in MCBlock |-> IF b = "b0" THEN 0 ELSE IF b = "b1" THEN 1 ELSE 2]

MCParent == [b \in MCBlock |-> IF b = "b0" THEN ZeroHash ELSE IF b = "b1" THEN "b0" ELSE "b1"]

\* The fork-free chain b0 <- b1 <- b2, for the liveness runs.
MCChain == {"b0", "b1", "b2"}

MCChainNumber == [b \in MCChain |-> MCNumber[b]]

MCChainParent == [b \in MCChain |-> MCParent[b]]

=============================================================================
