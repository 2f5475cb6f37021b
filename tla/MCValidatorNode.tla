--------------------------- MODULE MCValidatorNode ----------------------------
(* ValidatorNode on small sets, and StateCodec on states with one market,  *)
(* prices of one decimal, and rates of two.                                *)
EXTENDS ValidatorNode

CONSTANTS Panic, k1

\* Every chain of two blocks, and after some of them a third.
Order == [kind |-> "order", key |-> k1]
MCChains ==
    {<<b>> : b \in Blocks} \cup {<<b, c>> : b, c \in Blocks}
        \cup {<<b, c, Order>> : b \in {Order, [kind |-> "arm", key |-> k1],
                                       [kind |-> "funding", rate |-> "coarse"]},
                                c \in {Order, [kind |-> "mark"]}}

S == INSTANCE StateCodec WITH
        PRICE_DECIMALS <- 1, SIZE_DECIMALS <- 1, USDC_DECIMALS <- 1, RATE_DECIMALS <- 2,
        TOKEN_DECIMALS <- 2

Balance(total, core, evm) ==
    [total |-> S!Decimal(total, 1), core_view |-> S!Decimal(core, 1),
     evm_view |-> S!Decimal(evm, 1)]

Market0 == [mark_price |-> S!Decimal(30, 1), index_price |-> S!Decimal(31, 1),
            funding_rate |-> S!Decimal(0, 2), funding_accumulator |-> S!Decimal(0, 2),
            open_interest_long |-> S!Decimal(10, 1), open_interest_short |-> S!Decimal(10, 1),
            maker_fee_rate |-> S!Decimal(2, 2), taker_fee_rate |-> S!Decimal(5, 2)]

Engine0 == [positions |-> [k \in {<<1, 1>>} |-> 10], leverage |-> [k \in {<<1, 1>>} |-> 20],
            markets |-> [k \in {<<1>>} |-> Market0],
            orders |-> [k \in {<<1, 7>>, <<1, 8>>} |-> "order"], book |-> {<<1, 7>>, <<1, 8>>},
            next_order_id |-> 9, insurance_fund |-> 25]

Spot0 == [tokens |-> [k \in {<<0>>, <<1>>} |-> "token"],
          markets |-> [k \in {<<128>>} |->
                          [tick_size |-> S!Decimal(1, 1), lot_size |-> S!Decimal(1, 1),
                           maker_fee_rate |-> S!Decimal(-2, 2),
                           taker_fee_rate |-> S!Decimal(5, 2)]],
          reserved |-> <<>>, orders |-> <<>>, book |-> {},
          next_token_index |-> 0, next_market_id |-> 0, next_order_id |-> 0]

Evm0 == [accounts |-> [k \in {<<1>>} |-> 3], storage |-> <<>>, code |-> <<>>,
         block_hashes |-> <<>>]

Running0 == [height |-> 2, timestamp |-> 20, app_hash |-> "h2", perp |-> TRUE,
             balances |-> [k \in {<<1, 0>>, <<2, 0>>} |-> Balance(30, 20, 10)],
             engine |-> Engine0, spot |-> Spot0, evm |-> Evm0,
             nonces |-> [k \in {<<1>>} |-> 4], cloids |-> [k \in {<<1, "c">>} |-> <<1, 7>>],
             blocks |-> {[height |-> 1, app_hash |-> "h1"], [height |-> 2, app_hash |-> "h2"]}]

\* The database before holds the state of another block.
Before == S!persist_state(S!EmptyDb,
    S!extract_state([Running0 EXCEPT !.height = 1, !.app_hash = "h1", !.nonces = <<>>,
                                     !.engine.book = {}, !.cloids = [k \in {<<2, "d">>} |-> <<1, 3>>]]))

AfterRestart(r) == S!Restored(S!load_state(S!persist_state(Before, S!extract_state(r))),
                              [k \in DOMAIN r.engine.markets |-> Market0])

Running == {Running0} \cup
    {[Running0 EXCEPT !.balances[<<1, 0>>] = Balance(c + e, c, e)] : c \in {0, 5, 10}, e \in {0, 7}}
        \cup {[Running0 EXCEPT !.engine.positions = f, !.nonces = <<>>] :
                 f \in {<<>>, [k \in {<<2, 1>>} |-> -3]}}
        \cup {[Running0 EXCEPT !.engine.book = b, !.engine.orders = [k \in b |-> "order"]] :
                 b \in SUBSET {<<1, 7>>, <<1, 8>>}}
        \cup {[Running0 EXCEPT !.engine.markets[<<1>>].mark_price = S!Decimal(n, 1),
                               !.engine.insurance_fund = n] : n \in {0, 1, 10, 99, 100}}
        \cup {[Running0 EXCEPT !.cloids = <<>>]}
        \cup {[Running0 EXCEPT !.evm.storage = [k \in {<<1, 5>>} |-> 9]]}

\* Without spot orders, with every order of the perpetuals in its book, and
\* with funding rates at zero, a restart gives back every part, except that a
\* zero rate comes back with the decimals of a price; nothing of the state
\* before it stays.
ASSUME RestartKeeps ==
    \A r \in Running :
        AfterRestart(r) =
            [r EXCEPT !.engine.markets[<<1>>].funding_rate = S!Decimal(0, 1),
                      !.engine.markets[<<1>>].funding_accumulator = S!Decimal(0, 1)]

\* A funding rate with more places than a price has ends every restart in a
\* panic; one with fewer comes back with another raw value, which is what the
\* application hash holds.
ASSUME FundingRateOnRestart ==
    \A n \in -20..20, acc \in {0, 3} :
        LET back == AfterRestart(
                [Running0 EXCEPT !.engine.markets[<<1>>].funding_rate = S!Decimal(n, 2),
                                 !.engine.markets[<<1>>].funding_accumulator = S!Decimal(acc, 2)])
        IN  IF n % 10 # 0 \/ acc # 0 THEN back = Panic
            ELSE back # Panic /\ (n # 0 => back.engine.markets[<<1>>].funding_rate.raw # n)

\* A spot order comes back, outside every book and on market 127; the amount
\* it reserves and the counters of the spot engine do not.
ASSUME SpotOnRestart ==
    LET r == [Running0 EXCEPT
                !.spot.orders = [k \in {<<128, 5>>} |-> "order"], !.spot.book = {<<128, 5>>},
                !.spot.reserved = [k \in {<<1, 0>>} |-> S!Decimal(5, 1)],
                !.spot.next_order_id = 6, !.spot.next_market_id = 129]
        back == AfterRestart(r).spot
        synced == S!apply_snapshot(S!extract_state(r), r.engine.markets, Running0).spot
    IN  /\ DOMAIN back.orders = {<<127, 5>>} /\ back.book = {}
        /\ back.reserved = <<>> /\ back.next_order_id = 0 /\ back.next_market_id = 0
        /\ synced = r.spot

\* Every family that is written is kept from pruning, but for the index of
\* client order ids, which the application hash holds.
ASSUME WrittenIsCritical ==
    {cf \in S!Cleared \cup S!Merged : ~S!is_critical(cf)} = {"CloidIndex"}
===============================================================================
