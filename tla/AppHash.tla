-------------------------------- MODULE AppHash --------------------------------
(***************************************************************************)
(* What a block's application hash commits to: compute_app_hash of         *)
(* chain/src/state.rs and the state root of evm/src/state.rs.              *)
(*                                                                         *)
(* The state is a record s of functions, with keys that are tuples of      *)
(* numbers (an address, then a market, token or order id).  Keccak256 is   *)
(* free of collisions (Merkle), and every field has a fixed width, so that *)
(* a sequence of fields is hashed as the tuple of them.                    *)
(***************************************************************************)
EXTENDS Merkle, FiniteSets

CONSTANTS NoEngine, NoEvm, NoTree, NoHash

\* sort_by_key on tuples of one length: by the first component that differs.
Less(k, l) ==
    \E i \in DOMAIN k : k[i] < l[i] /\ \A j \in 1..i - 1 : k[j] = l[j]

\* A map as the sorted sequence of its entries.
Entries(f) ==
    LET keys == SetToSortSeq(DOMAIN f, Less)
    IN  [i \in DOMAIN keys |-> <<keys[i], f[keys[i]]>>]

tree(f) == from_entries(Entries(f))

build_unified_state_tree(s) ==
    tree([k \in DOMAIN s.balances |->
            <<s.balances[k].total, s.balances[k].core_view, s.balances[k].evm_view>>])

build_nonce_tree(s) == tree(s.nonces)

-----------------------------------------------------------------------------
(* Roots of an engine *)

positions_root_from_engine(e) ==
    root(tree([k \in DOMAIN e.positions |->
        LET p == e.positions[k]
        IN  <<p.size, p.entry_notional, p.realized_pnl, p.last_funding_index>>]))

\* The kind, the time in force and the flags of an order are left out.
orders_root_from_engine(e) ==
    root(tree([k \in DOMAIN e.orders |->
        LET o == e.orders[k]
        IN  <<o.owner, IF o.side = "Buy" THEN 0 ELSE 1, o.price, o.original_size,
              o.remaining_size>>]))

markets_root_from_engine(e) ==
    root(tree([k \in DOMAIN e.markets |->
        LET x == e.markets[k]
        IN  <<x.mark_price, x.index_price, x.funding_rate, x.open_interest_long,
              x.open_interest_short>>]))

leverage_root_from_engine(e) == root(tree(e.leverage))

scalars_hash_from_engine(e) == <<"scalars", e.insurance_fund, e.next_order_id>>

engine_roots(e) ==
    <<positions_root_from_engine(e), orders_root_from_engine(e),
      markets_root_from_engine(e), leverage_root_from_engine(e),
      scalars_hash_from_engine(e)>>

\* The perpetuals engine when there is one, else the engine state of tests.
HashedEngine(s) == IF s.perp_engine # NoEngine THEN s.perp_engine ELSE s.engine

\* The name is hashed into the key.
compute_cloid_root(s) == root(tree(s.cloid_to_oid))

-----------------------------------------------------------------------------
(* The state root of the EVM.  Balances are in the unified sheet. *)

compute_accounts_root(evm) == <<"EVM_ACCOUNTS_ROOT_V1", Entries(evm.accounts)>>

\* A slot that holds zero counts as absent.
compute_storage_root(evm) ==
    LET set == {k \in DOMAIN evm.storage : evm.storage[k] # 0}
    IN  <<"EVM_STORAGE_ROOT_V1", Entries([k \in set |-> evm.storage[k]])>>

\* The hash of a code stands for the code.
compute_code_root(evm) == <<"EVM_CODE_ROOT_V1", SetToSortSeq(evm.code, Less)>>

compute_state_root(evm) ==
    <<"EVM_STATE_ROOT_V1", compute_accounts_root(evm), compute_storage_root(evm),
      compute_code_root(evm)>>

-----------------------------------------------------------------------------
(* The hash of a block, and proofs *)

compute_app_hash(s) ==
    <<s.height, s.timestamp, s.app_hash,
      root(build_unified_state_tree(s)), root(build_nonce_tree(s)),
      engine_roots(HashedEngine(s)), compute_cloid_root(s),
      IF s.evm # NoEvm THEN compute_state_root(s.evm) ELSE NoHash>>

begin_block(s, height, timestamp) == [s EXCEPT !.height = height, !.timestamp = timestamp]

end_block(s) ==
    [s EXCEPT !.unified_state_tree = build_unified_state_tree(s),
              !.nonce_tree = build_nonce_tree(s),
              !.app_hash = compute_app_hash(s),
              !.block_hashes = [h \in DOMAIN @ \cup {s.height} |->
                                  IF h = s.height THEN compute_app_hash(s) ELSE @[h]]]

\* As for balances: the index of the leaf is that of the live map, the proof
\* is from the cached tree.
prove_nonce(s, address) ==
    IF s.nonce_tree = NoTree \/ <<address>> \notin DOMAIN s.nonces THEN NoProof
    ELSE LET keys == SetToSortSeq(DOMAIN s.nonces, Less)
         IN  prove(s.nonce_tree, CHOOSE i \in DOMAIN keys : keys[i] = <<address>>)

get_nonce_root(s) ==
    root(IF s.nonce_tree # NoTree THEN s.nonce_tree ELSE build_nonce_tree(s))

verify_nonce_proof(s, address, nonce, proof) ==
    /\ proof.leaf_hash = hash_entry(<<address>>, nonce)
    /\ verify(proof, get_nonce_root(s))

-----------------------------------------------------------------------------
(* What the hash says, stated without trees *)

Pick(r, fields) == [f \in fields |-> r[f]]
PickEach(g, fields) == [k \in DOMAIN g |-> Pick(g[k], fields)]

Committed(s) ==
    LET e == HashedEngine(s)
    IN  [chain |-> <<s.height, s.timestamp, s.app_hash>>,
         balances |-> s.balances, nonces |-> s.nonces,
         positions |-> PickEach(e.positions,
             {"size", "entry_notional", "realized_pnl", "last_funding_index"}),
         orders |-> PickEach(e.orders,
             {"owner", "side", "price", "original_size", "remaining_size"}),
         markets |-> PickEach(e.markets,
             {"mark_price", "index_price", "funding_rate", "open_interest_long",
              "open_interest_short"}),
         leverage |-> e.leverage, scalars |-> <<e.insurance_fund, e.next_order_id>>,
         cloids |-> s.cloid_to_oid,
         evm |-> IF s.evm = NoEvm THEN NoHash
                 ELSE Pick([s.evm EXCEPT !.storage =
                              [k \in {l \in DOMAIN @ : @[l] # 0} |-> @[k]]],
                           {"accounts", "storage", "code"})]
================================================================================
