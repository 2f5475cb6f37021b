------------------------------ MODULE Persister -------------------------------
(***************************************************************************)
(* The database of a node: persist_state writes a PersistedState as one    *)
(* batch of deletions and insertions, load_state reads it back             *)
(* (persistence/src/persister.rs).  Of the column families the model keeps *)
(*   orders  for the six whose old entries every batch deletes first,      *)
(*   evm     for the EVM families, whose old entries stay,                 *)
(*   nonces, funds   a counter and a balance of the deleted ones,          *)
(*   market, agrees  the funding values of a market, and the hash that the *)
(*                   application had: overwritten.                         *)
(* A PersistedState carries the orders twice: perp (what the perpetuals    *)
(* engine holds) and core (the older place, still read).                   *)
(***************************************************************************)
EXTENDS Naturals

CONSTANTS Keys, NoState

VARIABLE db

EmptyDb == [height |-> 0, orders |-> {}, market |-> "plain", evm |-> {}, nonces |-> 0,
            funds |-> 0, agrees |-> TRUE]

PersisterInit == db = EmptyDb

\* perp.* is preferred, core.* is used when it is empty.
Preferred(s) == IF s.perp # {} THEN s.perp ELSE s.core

\* Mutant: entries of the last state that are gone from this one stay.
Orders_NotCleared(s) == db.orders \cup Preferred(s)

\* The batch deletes every existing entry before it writes the new ones.
Orders(s) == Preferred(s)

\* Entries of the EVM families are only added or overwritten.
Evm(s) == db.evm \cup s.evm

\* commit_batch writes all of the batch or nothing.
persist_state(s) ==
    db' = [height |-> s.height, orders |-> Orders(s), market |-> s.market, evm |-> Evm(s),
           nonces |-> s.nonces, funds |-> s.funds, agrees |-> s.agrees]

\* The loaded orders are core's; height 0 means that nothing was stored.
load_state ==
    IF db.height = 0 THEN NoState
    ELSE [height |-> db.height, core |-> db.orders, perp |-> {}, market |-> db.market,
          evm |-> db.evm, nonces |-> db.nonces, funds |-> db.funds, agrees |-> db.agrees]
===============================================================================
