-------------------------------- MODULE Merkle --------------------------------
(***************************************************************************)
(* The binary Merkle tree of chain/src/merkle.rs.  Keccak256 is taken to   *)
(* be free of collisions: a hash is the tuple of what was hashed.  Keys    *)
(* and indexes count from 1 where the code counts from 0.                  *)
(***************************************************************************)
EXTENDS Integers, Sequences, SequencesExt

hash_pair(left, right) == <<"pair", left, right>>
hash_entry(key, value) == <<"entry", key, value>>
EmptyRoot == <<"empty">>

\* Pairs of neighbours are hashed; the last node of an odd level is its own
\* neighbour.
NextLevel(level) ==
    [i \in 1..(Len(level) + 1) \div 2 |->
        hash_pair(level[2 * i - 1],
                  IF 2 * i <= Len(level) THEN level[2 * i] ELSE level[2 * i - 1])]

\* Levels are added until there is a single node above the leaves.
Complete(levels) == Len(levels) > 1 /\ Len(Last(levels)) = 1
AddLevel(levels) ==
    IF Complete(levels) THEN levels ELSE Append(levels, NextLevel(Last(levels)))

from_leaves(leaves) ==
    LET build[n \in 0..Len(leaves)] == IF n = 0 THEN <<leaves>> ELSE AddLevel(build[n - 1])
    IN IF leaves = <<>> THEN <<leaves, <<EmptyRoot>>>> ELSE build[Len(leaves)]

from_entries(entries) ==
    from_leaves([i \in DOMAIN entries |-> hash_entry(entries[i][1], entries[i][2])])

root(levels) == Last(levels)[1]

\* The sibling of each node on the way to the root, and the side it is on.
Step(level, i) ==
    [direction |-> IF i % 2 = 0 THEN "Left" ELSE "Right",
     sibling |-> level[IF i % 2 = 0 THEN i - 1 ELSE IF i + 1 > Len(level) THEN i ELSE i + 1]]

NoProof == [none |-> TRUE]

prove(levels, leaf_index) ==
    LET index[l \in 1..Len(levels)] ==
            IF l = 1 THEN leaf_index ELSE (index[l - 1] + 1) \div 2
    IN IF leaf_index > Len(levels[1]) THEN NoProof
       ELSE [leaf_hash |-> levels[1][leaf_index],
             steps |-> [l \in 1..Len(levels) - 1 |-> Step(levels[l], index[l])]]

\* The parent of a node and the sibling in the step s.
Parent(current, s) ==
    IF s.direction = "Left" THEN hash_pair(s.sibling, current) ELSE hash_pair(current, s.sibling)

compute_root(proof) ==
    LET current[n \in 0..Len(proof.steps)] ==
            IF n = 0 THEN proof.leaf_hash ELSE Parent(current[n - 1], proof.steps[n])
    IN  current[Len(proof.steps)]

verify(proof, expected) == compute_root(proof) = expected
===============================================================================
