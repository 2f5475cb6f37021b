------------------------------ MODULE MCChainApp ------------------------------
(* ChainApp on three accounts, and AppHash on states that differ from one  *)
(* another in one place, of what is hashed and of what is not.             *)
EXTENDS ChainApp

CONSTANTS NoEngine, NoEvm, NoHash

H == INSTANCE AppHash

\* Maps of zero to three keys: trees with no, one, an even and an odd number
\* of leaves.
Maps(K, v) == {[k \in D |-> v] : D \in SUBSET K}

Position1 == [size |-> 1, entry_notional |-> 5, realized_pnl |-> 0, last_funding_index |-> 0]
Order1 == [owner |-> 1, side |-> "Buy", price |-> 3, original_size |-> 2,
           remaining_size |-> 2, reduce_only |-> FALSE]
Market1 == [mark_price |-> 3, index_price |-> 3, funding_rate |-> 0,
            open_interest_long |-> 1, open_interest_short |-> 1, last_trade |-> 3]
Keys == {<<1, 1>>, <<1, 2>>, <<2, 1>>}

Engine0 == [positions |-> [k \in Keys |-> Position1], orders |-> [k \in Keys |-> Order1],
            markets |-> [k \in {<<1>>, <<2>>} |-> Market1],
            leverage |-> [k \in Keys |-> 20], triggers |-> {}, margin_modes |-> {},
            insurance_fund |-> 0, next_order_id |-> 3]

Evm0 == [accounts |-> [k \in {<<1>>} |-> <<0, 0>>], storage |-> [k \in Keys |-> 1],
         code |-> {<<7>>}, block_hashes |-> {}]

State0 == [height |-> 1, timestamp |-> 1, app_hash |-> NoHash,
           balances |-> [k \in Keys |-> [total |-> 3, core_view |-> 2, evm_view |-> 1]],
           nonces |-> [k \in {<<1>>, <<2>>, <<3>>} |-> 1],
           perp_engine |-> Engine0, engine |-> Engine0, spot_engine |-> {},
           cloid_to_oid |-> [k \in Keys |-> <<1, 1>>], evm |-> Evm0,
           unified_state_tree |-> NoTree, nonce_tree |-> NoTree, block_hashes |-> <<>>]

Engines1 ==
    {[Engine0 EXCEPT !.positions = f] : f \in Maps(Keys, Position1)}
        \cup {[Engine0 EXCEPT !.positions[k][x] = 9] :
                k \in Keys, x \in DOMAIN Position1}
        \cup {[Engine0 EXCEPT !.orders = f] : f \in Maps(Keys, Order1)}
        \cup {[Engine0 EXCEPT !.orders[<<1, 2>>][x] = 9] :
                x \in {"owner", "price", "original_size", "remaining_size"}}
        \cup {[Engine0 EXCEPT !.orders[<<1, 2>>].side = "Sell"],
              [Engine0 EXCEPT !.orders[<<1, 2>>].reduce_only = TRUE]}
        \cup {[Engine0 EXCEPT !.markets[<<2>>][x] = 9] : x \in DOMAIN Market1}
        \cup {[Engine0 EXCEPT !.leverage[k] = 5] : k \in Keys}
        \cup {[Engine0 EXCEPT ![x] = 9] :
                x \in {"insurance_fund", "next_order_id"}}
        \cup {[Engine0 EXCEPT ![x] = {9}] : x \in {"triggers", "margin_modes"}}

Evms == {[Evm0 EXCEPT !.accounts = f] : f \in Maps({<<1>>, <<2>>}, <<1, 0>>)}
            \cup {[Evm0 EXCEPT !.accounts[<<1>>] = <<0, 7>>]}
            \cup {[Evm0 EXCEPT !.storage = f] : f \in Maps(Keys, 1)}
            \cup {[Evm0 EXCEPT !.storage[k] = v] : k \in Keys, v \in {0, 2}}
            \cup {[Evm0 EXCEPT !.code = {}], [Evm0 EXCEPT !.block_hashes = {9}]}

States ==
    {[State0 EXCEPT ![x] = 9] :
        x \in {"height", "timestamp", "app_hash"}}
        \cup {[State0 EXCEPT !.spot_engine = {9}],
              [State0 EXCEPT !.engine.insurance_fund = 9]}
        \cup {[State0 EXCEPT !.nonces = f] : f \in Maps({<<1>>, <<2>>, <<3>>}, 1)}
        \cup {[State0 EXCEPT !.balances[k][x] = 9] :
                k \in Keys, x \in {"total", "core_view", "evm_view"}}
        \cup {[State0 EXCEPT !.cloid_to_oid[k] = <<1, 2>>] : k \in Keys}
        \cup {[State0 EXCEPT !.perp_engine = e] : e \in Engines1}
        \cup {[State0 EXCEPT !.perp_engine = NoEngine, !.engine = e] : e \in Engines1}
        \cup {[State0 EXCEPT !.evm = v] : v \in Evms \cup {NoEvm}}

\* The hash of a block tells two states apart exactly when they differ in the
\* chain link, the balances, the nonces, the parts of positions, orders and
\* markets that compute_app_hash reads, leverage, scalars, client order ids or
\* the EVM: the trees lose nothing, whatever the number of their leaves.
ASSUME HashIsCommitment ==
    LET hashes == {H!compute_app_hash(s) : s \in States}
        committed == {H!Committed(s) : s \in States}
        both == {<<H!compute_app_hash(s), H!Committed(s)>> : s \in States}
    IN  Cardinality(both) = Cardinality(hashes) /\ Cardinality(both) = Cardinality(committed)

\* Spot orders and reservations, stored triggers, margin modes, and whether an
\* order only reduces are left out: validators that differ there agree on the
\* hash of the block.
ASSUME LeftOut ==
    \A s \in {[State0 EXCEPT !.spot_engine = {9}],
              [State0 EXCEPT !.perp_engine.triggers = {9}],
              [State0 EXCEPT !.perp_engine.margin_modes = {9}],
              [State0 EXCEPT !.perp_engine.orders[<<1, 1>>].reduce_only = TRUE]} :
        s # State0 /\ H!end_block(s).app_hash = H!end_block(State0).app_hash

\* A proof of a nonce that verifies names the nonce of the block, also when
\* the account list has changed since.
ASSUME NonceProofs ==
    \A f \in Maps({<<1>>, <<2>>, <<3>>}, 1) :
        LET s == H!end_block(H!begin_block([State0 EXCEPT !.nonces = f], 2, 2))
            later == [s EXCEPT !.nonces = [k \in {<<1>>, <<2>>, <<3>>} |-> 2]]
        IN  /\ \A a \in 1..3 : <<a>> \in DOMAIN f =>
                   H!verify_nonce_proof(s, a, 1, H!prove_nonce(s, a))
            /\ \A a \in 1..3, n \in 1..2 :
                   LET p == H!prove_nonce(later, a)
                   IN  p # NoProof /\ H!verify_nonce_proof(later, a, n, p) =>
                           <<a>> \in DOMAIN f /\ n = f[<<a>>]
================================================================================
