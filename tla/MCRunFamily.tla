------------------------------ MODULE MCRunFamily ------------------------------
(* Two jobs of distinct pairs, which no definition tells apart.               *)
EXTENDS RunFamily, TLC
MCPairOf == [k \in Keys |-> k]
Symmetry == Permutations(Keys)
================================================================================
