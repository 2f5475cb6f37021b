---------------------------- MODULE MCSpotEngine ----------------------------
(* Small instances of SpotEngine for TLC. *)
EXTENDS SpotEngine, TLC

MCTokens == 0..MaxTokens

\* A price no order of the gateway carries, and two it may.
MCPrices == {-2, 2, 3}

MCAmounts == {-1, 3}

\* genesis_allocations that give every account some of the token.
MCThreeEach == {[a \in Accounts |-> 3]}

Symmetry == Permutations(Accounts)
=============================================================================
