--------------------------- MODULE MCBlockProducer --------------------------
(* Alice uses timestamp nonces and bob sequential ones, two of them equal. *)
EXTENDS BlockProducer

MCHashes == 1..5
MCSender == <<"alice", "alice", "bob", "bob", "bob">>
MCNonce == <<11, 12, 0, 1, 1>>

-----------------------------------------------------------------------------
(* What a node starts with, over geneses of up to two entries, some of them *)
(* malformed.                                                              *)

B == INSTANCE Bootstrap WITH Accounts <- {"alice", "user"}, Deployer <- "zero", UsdcDecimals <- 1,
                             TokenDecimals <- 2, PriceDecimals <- 0, MaxRaw <- 200000, MaxHistory <- 2

Texts == {B!Whole(n) : n \in {0, 3, 2500, 300000}}
           \cup {[number |-> TRUE, digits |-> 15, places |-> p] : p \in 1..3}
           \cup {[number |-> FALSE, digits |-> 0, places |-> 0]}
Entries == [address : {"alice", "unparsed"}, token : {0, 1, 256}, amount : Texts, view : {"core", "evm", "other"}]
Two == [address : {"user"}, token : {1}, amount : {B!Whole(3)}, view : {"core"}]
Token(sz) == [index |-> 7, symbol |-> "T", wei_decimals |-> 8, sz_decimals |-> sz, max_supply |-> B!Whole(21)]
Geneses == [readable : {TRUE}, tokens : {<<>>, <<Token(3)>>, <<Token(4), Token(3)>>},
            balances : {<<e, f>> : e \in Two, f \in Entries} \cup {<<e>> : e \in Entries}]

Single(g) == B!StartNode("Single", FALSE, g)
Chain(g) == B!init_from_genesis(B!Empty, g)
Credits(node) == {<<k, node.sheet[k]>> : k \in {j \in DOMAIN node.sheet : j[1] # "zero"}}

Exact(e) == B!from_str_exact(e.amount, B!Decimals(e.token)) # B!None

\* The single node and a validator credit the same balances when every entry
\* can be read and every amount fits its decimals; a number that does not fit
\* is nothing to the one and raw units to the other.
ASSUME GenesisAgrees ==
    \A g \in Geneses :
        B!Reads(g) =>
            /\ Single(g).ok /\ Chain(g).ok
            /\ (\A i \in DOMAIN g.balances : Exact(g.balances[i])) => Credits(Single(g)) = Credits(Chain(g))
ASSUME GenesisDisagrees ==
    \E g \in Geneses : B!Reads(g) /\ Credits(Single(g)) # Credits(Chain(g))

\* One entry that cannot be read costs a validator the whole genesis; the single
\* node reads some of these, and stops at an address with the earlier ones done.
ASSUME MalformedGenesis ==
    \A g \in Geneses :
        ~B!Reads(g) => /\ ~Chain(g).ok /\ Credits(Chain(g)) = {} /\ Chain(g).tokens = <<>>
                       /\ \/ Single(g).ok
                          \/ Len(g.balances) = 2 => Credits(Single(g)) # {}

\* Tokens get their indices by position: a refused one shifts those after it,
\* and a balance may name a token that is not there.
ASSUME TokensByPosition ==
    /\ \A g \in Geneses : Len(Chain(g).tokens) \in {0, 1} /\ Len(Single(g).tokens) = 1
    /\ \E g \in Geneses : \E k \in DOMAIN Chain(g).sheet : k[2] > Len(Chain(g).tokens)

\* The generated genesis gives the same balances on both, but other tokens, and
\* on a single node there is no second token for the balances in it.
ASSUME OwnGenesis ==
    LET g == B!create_genesis
    IN  /\ Credits(Single(g)) = Credits(Chain(g)) /\ Cardinality(Credits(Chain(g))) = 7
        /\ Single(g).tokens[1].symbol # Chain(g).tokens[1].symbol
        /\ Len(Single(g).tokens) = 1 /\ Len(Chain(g).tokens) = 2

\* Under CometBFT and after a restore the node itself starts nothing.
ASSUME NothingTwice ==
    \A mode \in {"Single", "HyperBft", "CometBft"}, restored \in BOOLEAN :
        B!StartNode(mode, restored, B!create_genesis) = B!Empty <=> restored \/ mode = "CometBft"

\* The gateway's funding task records a rate of zero for every mark price, and so
\* never a payment, whatever the positions are.
ASSUME ShownFundingIsZero ==
    \A p1 \in 1..4, p2 \in 1..4, size \in -2..2 :
        LET g == [mark |-> [m \in {0, 1} |-> 1], rate |-> [m \in {0, 1} |-> 0],
                  accumulator |-> [m \in {0, 1} |-> 0], next |-> [m \in {0, 1} |-> m],
                  last |-> [k \in {"a", "b"} \X {0, 1} |-> 0], size |-> [k \in {"a", "b"} \X {0, 1} |-> size],
                  history |-> [m \in {0, 1} |-> <<>>], payments |-> [a \in {"a", "b"} |-> <<>>]]
            step(s, t, price) == B!funding_processor(B!mock_price_feed(s, 0, price), t, 2, 1)
            end == step(step(step(g, 0, p1), 1, p2), 4, p1)
        IN  /\ \A m \in {0, 1} : end.accumulator[m] = 0 /\ \A i \in DOMAIN end.history[m] : end.history[m][i][2] = 0
            /\ \A a \in {"a", "b"} : end.payments[a] = <<>>
            /\ Len(end.history[0]) = 2 /\ end.next[0] = 6
=============================================================================
