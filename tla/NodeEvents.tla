------------------------------ MODULE NodeEvents ------------------------------
(***************************************************************************)
(* What the readers of a node see of it: the committed blocks, each with   *)
(* the kinds of its events (primitives/src/events.rs) in order, "unparsed" *)
(* for one that the readers cannot parse.                                  *)
(***************************************************************************)
EXTENDS Integers, Sequences

CONSTANT MaxBlocks   \* bound: blocks of the node

ASSUME EventsAssumption == MaxBlocks \in Nat

VARIABLE committed

\* The event <<height, i>>.
Kind(e) == committed[e[1]][e[2]]

Events == UNION {{<<h, i>> : i \in DOMAIN committed[h]} : h \in DOMAIN committed}
===============================================================================
