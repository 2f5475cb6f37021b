------------------------------ MODULE Submission ------------------------------
(***************************************************************************)
(* How a client's request reaches the state: the gateway's /exchange       *)
(* endpoints (gateway/src/handlers.rs, tx_router.rs), the EVM's JSON-RPC   *)
(* (evm/src/rpc.rs), and the ABCI handlers of chain/src/cometbft/app.rs    *)
(* that admit and execute transactions, on several validators.             *)
(*                                                                         *)
(* A deployment runs either under CometBFT, where the gateway broadcasts   *)
(* and every validator executes the decided blocks, or as a single node,   *)
(* where the gateway executes.  A client sends a request as often as it    *)
(* likes, to any gateway: an answer that is lost and a retry look the same.*)
(*                                                                         *)
(* Nonces are timestamps inside the window of every clock; BlockProducer   *)
(* models the window and the sequential ones.  A request for orders has    *)
(* two of them, of which the second may be one that the chain cannot read; *)
(* Gateway tells which those are.                                          *)
(***************************************************************************)
EXTENDS Evm, Sequences, FiniteSets, FiniteSetsExt, SequencesExt, TLC

CONSTANTS
    Validators, Accounts,
    Stranger,            \* an address nobody has the key of
    Funds,               \* core balance of each account at genesis
    MaxNonce,            \* bound: nonces
    GasPrices,           \* bound: gas prices
    MaxBlockTxs,         \* bound: transactions of a block
    MaxBlocks,           \* bound: blocks
    MaxSubmissions,      \* bound: requests sent
    MaxQueries           \* bound: simulations

Addresses == Accounts \cup {Stranger, Contract, FEE_COLLECTOR}

ASSUME SubmissionAssumption ==
    /\ IsFiniteSet(Accounts) /\ (\E a, b \in Accounts : a # b)
    /\ Accounts \cap {Stranger, Contract, FEE_COLLECTOR} = {}
    /\ Precompile # Create /\ {Precompile, Create} \cap Addresses = {}
    /\ IsFiniteSet(Validators) /\ Validators # {}
    /\ Funds \in Nat /\ MaxNonce \in Nat /\ GasPrices \subseteq Nat /\ MaxBlockTxs \in Nat
    /\ MaxBlocks \in Nat /\ MaxSubmissions \in Nat /\ MaxQueries \in Nat

VARIABLES
    router,        \* TxRouter: "direct" or "cometbft"
    state,         \* per validator, the application and the EVM
    running,       \* the single node's raw transaction between its reads and its writes
    mempool,       \* CometBFT's
    chain,         \* the decided blocks
    apart,         \* history: per validator, whether it executed what the others did not
    submissions, queries

vars == <<router, state, running, mempool, chain, apart, submissions, queries>>

PerpKinds == {"order", "usdTransfer"}
SpotKinds == {"spotOrder", "spotCancel", "viewTransfer"}
Kinds == PerpKinds \cup SpotKinds
Orders == {"order", "spotOrder"}

\* Under CometBFT main.rs builds the chain an application of its own, which
\* shares the sheet and the engines with the gateway's but not the nonces; a
\* single node has the gateway's only.
Apps == {"chain", "gateway"}

None == [a \in Addresses |-> 0]

Genesis == [height |-> 0,
            core |-> [a \in Addresses |-> IF a \in Accounts THEN Funds ELSE 0],
            evm |-> None, accounts |-> {}, evm_nonces |-> None,
            perp_orders |-> None, spot_orders |-> None,
            last_nonce |-> [x \in Apps \X Addresses |-> 0],
            receipts |-> {},
            applied |-> <<>>]   \* history: the transactions that had effects

Init ==
    /\ router \in {"direct", "cometbft"}
    /\ state = [v \in Validators |-> Genesis]
    /\ running = {} /\ mempool = {} /\ chain = <<>>
    /\ apart = [v \in Validators |-> FALSE]
    /\ submissions = 0 /\ queries = 0

-----------------------------------------------------------------------------
(* Requests and transactions *)

Requests ==
    {r \in [kind : Kinds, nonce : 1..MaxNonce, signer : Accounts, unreadable : BOOLEAN] :
       r.unreadable => r.kind \in Orders}

\* The TransactionType of an ExchangeAction.
convert(kind) == IF kind = "spotCancel" THEN "cancel" ELSE kind

\* The transaction of a request, and of the JSON-RPC's raw bytes.
Tx(r) == [action |-> convert(r.kind), nonce |-> r.nonce, signer |-> r.signer, unreadable |-> r.unreadable]
EvmTxs == [action : {"evm"}, from : Accounts, to : Accounts \cup {Contract, Create, Precompile},
           value : {1}, price : GasPrices]

\* Transaction::sender: a spot cancel was signed as what it no longer is, and
\* gives an address that nobody owns.
sender(t) == IF t.action = "cancel" THEN Stranger ELSE t.signer

-----------------------------------------------------------------------------
(* Execution: chain/src/app.rs *)

\* The mutant takes a nonce that has been used.
validate_tx_Reused(s, app, t) == t.nonce >= s.last_nonce[<<app, sender(t)>>]

validate_tx(s, app, t) == t.nonce > s.last_nonce[<<app, sender(t)>>]

\* The orders of a transaction are its parts.
Parts(t) == IF t.action \in Orders THEN 2 ELSE 1

\* acquire_write_with_retry: how many parts may get their engine's lock before
\* one gives up; a transfer between accounts takes none that can.
Stops(t) == IF t.action \in {"usdTransfer", "evm"} THEN {Parts(t)} ELSE 0..Parts(t)

\* Where a transaction ends: an unreadable order fails it before its lock.
Reached(t, stop) == IF t.unreadable /\ stop = 2 THEN 1 ELSE stop

\* A transfer goes to another account, which with two of them is the other one.
Receiver(a) == CHOOSE b \in Accounts : b # a

\* n parts of an action.  An engine that refuses an order, for want of funds,
\* does not fail the transaction; a transfer does.
Effect(s, a, action, n) ==
    CASE action = "order" /\ s.core[a] > 0 -> [s EXCEPT !.perp_orders[a] = @ + n]
      [] action = "spotOrder" /\ s.core[a] > 0 -> [s EXCEPT !.spot_orders[a] = @ + n]
      [] action \in {"cancel", "spotCancel"} /\ n = 1 -> [s EXCEPT !.spot_orders[a] = 0]
      [] action = "usdTransfer" /\ s.core[a] > 0 ->
           [s EXCEPT !.core[a] = @ - 1, !.core[Receiver(a)] = @ + 1]
      [] action = "viewTransfer" /\ n = 1 /\ s.core[a] > 0 ->
           [s EXCEPT !.core[a] = @ - 1, !.evm[a] = @ + 1]
      [] OTHER -> s

Succeeds(s, a, t, stop) ==
    /\ Reached(t, stop) = Parts(t)
    /\ t.action \in {"usdTransfer", "viewTransfer"} => s.core[a] > 0

Noted(s, app, t, whole) ==
    [s EXCEPT !.applied = Append(@, [app |-> app, tx |-> t, whole |-> whole])]

\* HyperCoreApp::execute_tx: a transaction that fails half way keeps the effects
\* of the orders before, and its nonce.
execute_tx(s, app, t, stop) ==
    LET a == sender(t)
        n == Reached(t, stop)
        done == Effect(s, a, t.action, n)
    IN  IF ~validate_tx(s, app, t) THEN s
        ELSE IF Succeeds(s, a, t, stop)
        THEN [Noted(done, app, t, TRUE) EXCEPT !.last_nonce[<<app, a>>] = t.nonce]
        ELSE IF n > 0 /\ t.action \in Orders THEN Noted(done, app, t, FALSE)
        ELSE s

\* The receipt of a raw EVM transaction that answers.
Receipted(s, t, loaded, block) ==
    [s EXCEPT !.receipts = IF Answers(t, loaded)
                           THEN {r \in @ : r.tx # t} \cup {[tx |-> t, block |-> block]}
                           ELSE @]

execute_evm(s, t) ==
    Receipted(execute_tx_inner(s, t, TRUE), t, Prepared(s, t, TRUE).evm, s.height)

Execute(s, t, stop) == IF t.action = "evm" THEN execute_evm(s, t) ELSE execute_tx(s, "chain", t, stop)

-----------------------------------------------------------------------------
(* CometBFT: admission and blocks *)

\* check_tx: a raw EVM transaction only has to decode.
check_tx(s, t) == t.action # "evm" => validate_tx(s, "chain", t)

Submitted == submissions < MaxSubmissions /\ submissions' = submissions + 1

\* broadcast_tx_sync to the node of v, whose CheckTx decides.
broadcast_tx_sync(v, t) ==
    /\ router = "cometbft" /\ Submitted
    /\ mempool' = IF check_tx(state[v], t) THEN mempool \cup {t} ELSE mempool
    /\ UNCHANGED <<router, state, running, chain, apart, queries>>

BroadcastPerp(v, r) == r.kind \in PerpKinds /\ broadcast_tx_sync(v, Tx(r))

BroadcastSpot(v, r) == r.kind \in SpotKinds /\ broadcast_tx_sync(v, Tx(r))

\* eth_sendRawTransaction under CometBFT.
EvmBroadcast(v, t) == broadcast_tx_sync(v, t)

\* prepare_proposal sends on what CometBFT reaps, process_proposal checks
\* each transaction by itself; an honest or a faulty proposer may repeat one.
process_proposal(s, txs) == \A i \in DOMAIN txs : check_tx(s, txs[i])

Decide(v, txs) ==
    /\ router = "cometbft"
    /\ Len(chain) < MaxBlocks /\ state[v].height = Len(chain)
    /\ process_proposal(state[v], txs)
    /\ chain' = Append(chain, txs)
    /\ mempool' = mempool \ ToSet(txs)
    /\ UNCHANGED <<router, state, running, apart, submissions, queries>>

\* The transactions of a block, one after the other, each with its own luck
\* with the locks.
run_block(s, txs, stops) ==
    LET after[i \in 0..Len(txs)] == IF i = 0 THEN s ELSE Execute(after[i - 1], txs[i], stops[i])
    IN  after[Len(txs)]

Lucky(txs) == [i \in DOMAIN txs |-> Parts(txs[i])]

\* finalize_block: the block number of receipts is the block's height.
finalize_block(v, stops) ==
    /\ router = "cometbft" /\ state[v].height < Len(chain)
    /\ LET h == state[v].height + 1
           begun == [state[v] EXCEPT !.height = h]
       IN  /\ DOMAIN stops = DOMAIN chain[h] /\ \A i \in DOMAIN stops : stops[i] \in Stops(chain[h][i])
           /\ state' = [state EXCEPT ![v] = run_block(begun, chain[h], stops)]
           /\ apart' = [apart EXCEPT ![v] = @ \/ stops # Lucky(chain[h])]
    /\ UNCHANGED <<router, running, mempool, chain, submissions, queries>>

-----------------------------------------------------------------------------
(* The single node, and what every node answers *)

Node == CHOOSE v \in Validators : TRUE

\* execute_perp_action_via_app.
ExchangePerp(r, stop) ==
    /\ router = "direct" /\ r.kind \in PerpKinds /\ Submitted
    /\ stop \in Stops(Tx(r))
    /\ state' = [state EXCEPT ![Node] = execute_tx(@, "gateway", Tx(r), stop)]
    /\ UNCHANGED <<router, running, mempool, chain, apart, queries>>

\* process_spot_exchange_request: straight to the spot engine, nonce unseen.
ExchangeSpot(r) ==
    LET n == Reached(Tx(r), Parts(Tx(r)))
    IN  /\ router = "direct" /\ r.kind \in SpotKinds /\ Submitted
        /\ state' = [state EXCEPT ![Node] = Effect(@, r.signer, r.kind, n)]
        /\ UNCHANGED <<router, running, mempool, chain, apart, queries>>

\* handle_exchange_binary: the transaction itself, executed by this node in any
\* mode, against the gateway's nonces.
ExchangeBinary(v, r, stop) ==
    /\ router = "direct" => v = Node
    /\ r.kind # "spotCancel" /\ Submitted
    /\ stop \in Stops(Tx(r))
    /\ state' = [state EXCEPT ![v] = execute_tx(@, "gateway", Tx(r), stop)]
    /\ apart' = [apart EXCEPT ![v] = TRUE]
    /\ UNCHANGED <<router, running, mempool, chain, queries>>

\* eth_sendRawTransaction, execute_locally: revm has loaded the balances, of a
\* sheet that the other handlers go on changing.
EvmRun(t) ==
    /\ router = "direct" /\ running = {} /\ Submitted
    /\ LET ready == Prepared(state[Node], t, TRUE)
       IN  /\ running' = {[tx |-> t, loaded |-> ready.evm]}
           /\ state' = [state EXCEPT ![Node] = ready]
    /\ UNCHANGED <<router, mempool, chain, apart, queries>>

\* ... and writes them, with a receipt and a block of its own.
EvmWrite ==
    /\ \E x \in running :
         LET s == state[Node]
             written == Receipted(Committed(s, x.tx, x.loaded), x.tx, x.loaded, s.height)
         IN  state' = [state EXCEPT ![Node] =
                [written EXCEPT !.height = IF Answers(x.tx, x.loaded) THEN @ + 1 ELSE @]]
    /\ running' = {}
    /\ UNCHANGED <<router, mempool, chain, apart, submissions, queries>>

\* eth_call and eth_estimateGas.
Simulate(v, t) ==
    /\ queries < MaxQueries /\ queries' = queries + 1
    /\ running = {}
    /\ state' = [state EXCEPT ![v] = execute_tx_inner(@, t, FALSE)]
    /\ UNCHANGED <<router, running, mempool, chain, apart, submissions>>

Next ==
    \/ \E v \in Validators, r \in Requests : BroadcastPerp(v, r) \/ BroadcastSpot(v, r)
    \/ \E v \in Validators, t \in EvmTxs : EvmBroadcast(v, t) \/ Simulate(v, t)
    \/ \E v \in Validators, txs \in BoundedSeq(mempool, MaxBlockTxs) : Decide(v, txs)
    \/ \E v \in Validators, stops \in BoundedSeq(0..2, MaxBlockTxs) : finalize_block(v, stops)
    \/ \E v \in Validators, r \in Requests, stop \in 0..2 : ExchangeBinary(v, r, stop)
    \/ \E r \in Requests, stop \in 0..2 : ExchangePerp(r, stop)
    \/ \E r \in Requests : ExchangeSpot(r)
    \/ \E t \in EvmTxs : EvmRun(t)
    \/ EvmWrite

Spec == Init /\ [][Next]_vars

-----------------------------------------------------------------------------
(* Properties *)

\* Validators at the same height have the same state, whatever clients have
\* simulated meanwhile: executor.rs warns that a simulation which creates the
\* sender's account would make the app hashes differ.  A validator is left out
\* from where it has executed something on its own, or has missed a lock.
ReplicasAgree ==
    router = "cometbft" =>
      \A v, w \in {x \in Validators : ~apart[x]} :
        state[v].height = state[w].height => state[v] = state[w]

\* What app.rs promises of execute_tx, "all validators will produce identical
\* results": no validator is left out, and only what the node really keeps is
\* compared.  A contended lock breaks it, and so does a binary transaction.
ReplicasIdentical ==
    router = "cometbft" =>
      \A v, w \in Validators :
        state[v].height = state[w].height =>
          [state[v] EXCEPT !.applied = <<>>] = [state[w] EXCEPT !.applied = <<>>]

\* A signed request that has succeeded takes no further effect in the same
\* application, however often the client sends it, a block repeats it or two
\* gateways forward it.  One that failed half way may have had some effect
\* before, and the single node's spot path, which no nonce guards, is left out.
AppliedOnce ==
    \A v \in Validators : \A i, j \in DOMAIN state[v].applied :
      LET x == state[v].applied[i]
          y == state[v].applied[j]
      IN  i < j /\ x.app = y.app /\ x.tx = y.tx => ~x.whole

\* Accounts are interchangeable: with two of them a transfer goes to the other.
Symmetry == Permutations(Accounts)
================================================================================
