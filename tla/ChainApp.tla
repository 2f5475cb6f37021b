------------------------------- MODULE ChainApp -------------------------------
(***************************************************************************)
(* The application of chain/src/app.rs: how a transaction is executed over *)
(* the perpetuals and the spot engine, the index of client order ids of    *)
(* chain/src/state.rs, and the proofs of balances against the Merkle tree  *)
(* that the end of a block caches.                                         *)
(*                                                                         *)
(* The engines are seen through what they answer: an order is refused (a   *)
(* step that changes nothing), or accepted with some makers filled, and    *)
(* rests or not.  SpotEngine and PerpEngine model what happens inside, and *)
(* BlockProducer the nonces.                                               *)
(*                                                                         *)
(* A transaction holds several orders or cancels and goes through them one *)
(* by one; it may fail between two of them, at an order that cannot be     *)
(* read or at an engine lock that 100 tries do not get, and keeps what it  *)
(* has done so far.                                                        *)
(***************************************************************************)
EXTENDS Merkle, FiniteSets, FiniteSetsExt

CONSTANTS
    Accounts,      \* addresses, as numbers
    Cloids,        \* client order ids (an order without one never meets the index)
    NoTx, NoTree,
    Genesis,       \* the accounts with a balance at the start
    MaxOrders,     \* bound: accepted orders
    MaxTxs,        \* bound: transactions
    MaxTransfers,  \* bound: transfers are among the first so many of them
    MaxRestarts    \* bound: restarts

ASSUME ChainAssumption ==
    /\ Accounts \subseteq Nat /\ Genesis \subseteq Accounts /\ IsFiniteSet(Genesis)
    /\ MaxOrders \in Nat /\ MaxTxs \in Nat /\ MaxTransfers \in 0..MaxTxs /\ MaxRestarts \in Nat

VARIABLES
    book,            \* the resting orders of both engines
    triggers,        \* the stored trigger orders of the perpetuals engine
    next_order_id,   \* per engine
    cloid_to_oid, oid_to_cloid,
    balances,        \* the balance sheet: account -> its two views
    tree,            \* unified_state_tree
    tx,              \* the transaction being executed
    placed,          \* history: every order an engine has accepted
    confirmed,       \* history: the ones of transactions that succeeded
    txs, restarts

orderVars == <<book, triggers, next_order_id, placed>>
indexVars == <<cloid_to_oid, oid_to_cloid, confirmed>>
sheetVars == <<balances, tree>>
chainVars == <<orderVars, indexVars, sheetVars, tx, txs, restarts>>

\* Market ids below 128 are perpetuals, the others spot; one market of each.
Engines == {"perp", "spot"}

Oid(o) == <<o.market, o.id>>
Key(o) == <<o.owner, o.cloid>>

Without(f, S) == [x \in DOMAIN f \ S |-> f[x]]
With(f, x, v) == [y \in DOMAIN f \cup {x} |-> IF y = x THEN v ELSE f[y]]

AppInit ==
    /\ book = {} /\ triggers = {} /\ placed = {} /\ confirmed = {}
    /\ next_order_id = [e \in Engines |-> 0]
    /\ cloid_to_oid = <<>> /\ oid_to_cloid = <<>>
    /\ balances = [a \in Genesis |-> [core |-> 1, evm |-> 0]]
    /\ tree = NoTree
    /\ tx = NoTx /\ txs = 0 /\ restarts = 0

-----------------------------------------------------------------------------
(* The index of client order ids *)

\* The forward and the reverse map.
Index == [fwd |-> cloid_to_oid, rev |-> oid_to_cloid]

register_cloid(ix, o) ==
    [fwd |-> With(ix.fwd, Key(o), Oid(o)), rev |-> With(ix.rev, Oid(o), Key(o))]

\* The loop over the new orders: of two with one name the later one counts.
register_all(ix, os) ==
    LET after[i \in 0..Len(os)] == IF i = 0 THEN ix ELSE register_cloid(after[i - 1], os[i])
    IN  after[Len(os)]

\* Removals do not meet each other's entries, so the loop over the keys K, or
\* the orders S, is one operation.
remove_cloid(ix, K) ==
    [fwd |-> Without(ix.fwd, K),
     rev |-> Without(ix.rev, {ix.fwd[k] : k \in K \cap DOMAIN ix.fwd})]

\* Mutant: the entry of the account stays.
remove_cloid_by_order_OneMap(ix, S) == [ix EXCEPT !.rev = Without(@, S)]

remove_cloid_by_order(ix, S) ==
    [fwd |-> Without(ix.fwd, {ix.rev[oid] : oid \in S \cap DOMAIN ix.rev}),
     rev |-> Without(ix.rev, S)]

-----------------------------------------------------------------------------
(* execute_tx *)

BeginTx(sender, kind) ==
    /\ tx = NoTx
    /\ txs < MaxTxs
    /\ tx' = [sender |-> sender, kind |-> kind, register |-> <<>>, filled |-> {},
              remove |-> {}]
    /\ txs' = txs + 1
    /\ UNCHANGED <<orderVars, indexVars, sheetVars, restarts>>

\* An error leaves what the orders before it did, and registers nothing.
FailTx ==
    /\ tx # NoTx
    /\ tx' = NoTx
    /\ UNCHANGED <<orderVars, indexVars, sheetVars, txs, restarts>>

\* The end of execute_orders_sync: the new orders are registered, then the
\* filled makers are removed.
AfterOrders == remove_cloid_by_order(register_all(Index, tx.register), tx.filled)

\* The end of the cancels.  All keys are of one sender.
AfterCancels(ix) == remove_cloid(ix, {<<tx.sender, c>> : c \in tx.remove})

EndTx ==
    /\ tx # NoTx
    /\ LET ix == AfterCancels(AfterOrders)
       IN cloid_to_oid' = ix.fwd /\ oid_to_cloid' = ix.rev
    /\ confirmed' = confirmed \cup Range(tx.register)
    /\ tx' = NoTx
    /\ UNCHANGED <<orderVars, sheetVars, txs, restarts>>

\* One order that an engine accepts.  It fills the makers F, of which those in
\* noted are found to be gone from the book; G are other orders that go away.
\* named: the answer says that the order is open, and its name is registered.
Placed(e, cloid, F, G, rests, named, noted) ==
    LET o == [market |-> e, id |-> next_order_id[e], owner |-> tx.sender, cloid |-> cloid]
    IN /\ tx # NoTx /\ tx.kind = "order"
       /\ Cardinality(placed) < MaxOrders
       /\ next_order_id' = [next_order_id EXCEPT ![e] = @ + 1]
       /\ book' = (book \ (F \cup G)) \cup (IF rests THEN {o} ELSE {})
       /\ placed' = placed \cup {o}
       /\ tx' = [tx EXCEPT !.register = IF named THEN Append(@, o) ELSE @,
                           !.filled = @ \cup {Oid(p) : p \in noted}]
       /\ UNCHANGED <<triggers, indexVars, sheetVars, txs, restarts>>

SpotMakers == {o \in book : o.market = "spot"}

\* The look whether a maker is gone is a try_read, which may fail.  What is left
\* of an immediate-or-cancel order is registered although it does not rest.
SpotOrder(cloid, F, rests) ==
    \E noted \in {F, {}}, named \in BOOLEAN :
        (rests => named) /\ Placed("spot", cloid, F, {}, rests, named, noted)

\* The sender's own orders are taken out of the way without a fill, and others
\* may go in the sweep of triggers that a fill sets off.
PerpMakers == {o \in book : tx # NoTx /\ o.market = "perp" /\ o.owner # tx.sender}
Swept(F) == {o \in book \ F : tx # NoTx /\ o.market = "perp" /\ (F # {} \/ o.owner = tx.sender)}

PerpOrder(cloid, F, G, rests) == Placed("perp", cloid, F, G, rests, rests, F)

\* A stop or take-profit order is stored and answered as an order that rests.
PlaceTrigger(cloid) ==
    LET o == [market |-> "perp", id |-> next_order_id["perp"], owner |-> tx.sender,
              cloid |-> cloid]
    IN /\ tx # NoTx /\ tx.kind = "order"
       /\ Cardinality(placed) < MaxOrders
       /\ next_order_id' = [next_order_id EXCEPT !["perp"] = @ + 1]
       /\ triggers' = triggers \cup {o}
       /\ placed' = placed \cup {o}
       /\ tx' = [tx EXCEPT !.register = Append(@, o)]
       /\ UNCHANGED <<book, indexVars, sheetVars, txs, restarts>>

Dropped(S) == tx' = [tx EXCEPT !.remove = @ \cup {o.cloid : o \in S}]

\* Mutant: any order of the market and id is cancelled.
MayCancel_Any(o) == TRUE

\* cancel_order of both engines refuses another owner.
MayCancel(o) == o.owner = tx.sender

CancelOrder(o) ==
    /\ tx # NoTx /\ tx.kind = "cancel"
    /\ o \in book /\ MayCancel(o)
    /\ book' = book \ {o}
    /\ Dropped({o})
    /\ UNCHANGED <<triggers, next_order_id, placed, indexVars, sheetVars, txs, restarts>>

\* The index gives market and id; an order that is not there any more, or not
\* the sender's, is a failed cancel that leaves the entry.
CancelByCloid(cloid, e) ==
    /\ tx # NoTx /\ tx.kind = "cancel"
    /\ <<tx.sender, cloid>> \in DOMAIN cloid_to_oid
    /\ cloid_to_oid[<<tx.sender, cloid>>][1] = e
    /\ \E o \in book :
         /\ Oid(o) = cloid_to_oid[<<tx.sender, cloid>>] /\ MayCancel(o)
         /\ book' = book \ {o}
    /\ tx' = [tx EXCEPT !.remove = @ \cup {cloid}]
    /\ UNCHANGED <<triggers, next_order_id, placed, indexVars, sheetVars, txs, restarts>>

Own(e) == {o \in book : o.market = e /\ o.owner = tx.sender}

\* cancel_all takes the spot engine's lock, then the perpetuals engine's.
CancelAll(e) ==
    /\ tx # NoTx /\ tx.kind = "cancel"
    /\ book' = book \ Own(e)
    /\ Dropped(Own(e))
    /\ UNCHANGED <<triggers, next_order_id, placed, indexVars, sheetVars, txs, restarts>>

\* spot_cancel_all leaves the index as it is.
SpotCancelAll ==
    /\ tx # NoTx /\ tx.kind = "cancel"
    /\ book' = book \ Own("spot")
    /\ UNCHANGED <<triggers, next_order_id, placed, indexVars, sheetVars, tx, txs, restarts>>

\* cancel_trigger asks neither for the owner nor for the market.
CancelTrigger(o) ==
    /\ tx # NoTx /\ tx.kind = "cancel"
    /\ o \in triggers
    /\ triggers' = triggers \ {o}
    /\ UNCHANGED <<book, next_order_id, placed, indexVars, sheetVars, tx, txs, restarts>>

Held(a) == IF a \in DOMAIN balances THEN balances[a] ELSE [core |-> 0, evm |-> 0]

\* The transactions below take one lock once: they happen as a whole or fail.
Transfer(new) ==
    /\ tx = NoTx
    /\ txs < MaxTransfers
    /\ txs' = txs + 1
    /\ balances' = new
    /\ UNCHANGED <<orderVars, indexVars, tree, tx, restarts>>

\* usd_transfer of one unit; the receiver may be new to the sheet.
UsdTransfer(a, to) ==
    /\ a # to /\ Held(a).core >= 1
    /\ Transfer(With(With(balances, a, [Held(a) EXCEPT !.core = @ - 1]),
                     to, [Held(to) EXCEPT !.core = @ + 1]))

Withdraw(a) ==
    /\ Held(a).core >= 1
    /\ Transfer(With(balances, a, [Held(a) EXCEPT !.core = @ - 1]))

\* view_transfer, and the deposits and withdrawals of evm_action.
ViewTransfer(a, from, to) ==
    /\ Held(a)[from] >= 1
    /\ Transfer(With(balances, a, [Held(a) EXCEPT ![from] = @ - 1, ![to] = @ + 1]))

-----------------------------------------------------------------------------
(* Blocks and proofs *)

\* The members of S in ascending order.
Sorted(S) ==
    CHOOSE s \in [1..Cardinality(S) -> S] :
        Range(s) = S /\ \A i \in 2..Cardinality(S) : s[i - 1] < s[i]

build_unified_state_tree ==
    from_entries([i \in DOMAIN Sorted(DOMAIN balances) |->
        <<Sorted(DOMAIN balances)[i], balances[Sorted(DOMAIN balances)[i]]>>])

\* Funding, then liquidations, whose orders may take makers (G) and store no
\* fill, and the tree of the block.
EndBlock(G) ==
    /\ tx = NoTx
    /\ book' = book \ G
    /\ tree' = build_unified_state_tree
    /\ UNCHANGED <<triggers, next_order_id, placed, indexVars, balances, tx, txs, restarts>>

Position(s, x) == CHOOSE i \in DOMAIN s : s[i] = x

\* The index of the leaf is looked up in the sheet as it is now, the proof is
\* made from the cached tree.
prove_balance(a) ==
    IF tree = NoTree \/ a \notin DOMAIN balances THEN NoProof
    ELSE prove(tree, Position(Sorted(DOMAIN balances), a))

\* Mutant: only the path to the root is checked.
verify_balance_proof_RootOnly(a, balance, proof) == verify(proof, root(tree))

verify_balance_proof(a, balance, proof) ==
    proof.leaf_hash = hash_entry(a, balance) /\ verify(proof, root(tree))

\* A restart between two blocks: triggers are not stored, spot orders do not
\* come back and their ids start again, and the reverse map is made anew from
\* the forward one (of two entries for one order either may win).
Restart ==
    /\ tx = NoTx
    /\ restarts < MaxRestarts
    /\ restarts' = restarts + 1
    /\ book' = {o \in book : o.market = "perp"}
    /\ triggers' = {}
    /\ next_order_id' = [next_order_id EXCEPT !["spot"] = 0]
    /\ \E rev \in [Range(cloid_to_oid) -> DOMAIN cloid_to_oid] :
          /\ \A oid \in DOMAIN rev : cloid_to_oid[rev[oid]] = oid
          /\ oid_to_cloid' = rev
    /\ tree' = NoTree
    /\ UNCHANGED <<placed, cloid_to_oid, confirmed, balances, tx, txs>>

AppNext ==
    \/ \E a \in Genesis, kind \in {"order", "cancel"} : BeginTx(a, kind)
    \/ FailTx \/ EndTx
    \/ \E c \in Cloids, rests \in BOOLEAN :
          \/ \E F \in SUBSET SpotMakers : SpotOrder(c, F, rests)
          \/ \E F \in SUBSET PerpMakers :
                \E G \in SUBSET Swept(F) : PerpOrder(c, F, G, rests)
    \/ \E c \in Cloids : PlaceTrigger(c)
    \/ \E o \in book : CancelOrder(o)
    \/ \E c \in Cloids, e \in Engines : CancelByCloid(c, e)
    \/ \E e \in Engines : CancelAll(e)
    \/ SpotCancelAll
    \/ \E o \in triggers : CancelTrigger(o)
    \/ \E a \in Accounts :
          \/ \E to \in Accounts : UsdTransfer(a, to)
          \/ Withdraw(a)
          \/ ViewTransfer(a, "core", "evm") \/ ViewTransfer(a, "evm", "core")
    \/ \E G \in SUBSET {o \in book : o.market = "perp"} : EndBlock(G)
    \/ Restart

AppSpec == AppInit /\ [][AppNext]_chainVars

-----------------------------------------------------------------------------
(* Properties *)

\* An entry of the index leads to the order that its account gave that name,
\* and to no other order, its own or somebody else's: what cancel_by_cloid
\* cancels is what the account means.  It says so of the perpetuals engine
\* over restarts, and of the spot engine, whose ids start again, until then.
CloidEntriesTrue ==
    \A k \in DOMAIN cloid_to_oid :
        (restarts = 0 \/ cloid_to_oid[k][1] = "perp") =>
            /\ cloid_to_oid[k] \in DOMAIN oid_to_cloid
            /\ oid_to_cloid[cloid_to_oid[k]] = k
            /\ \A o \in book \cup triggers : Oid(o) = cloid_to_oid[k] => Key(o) = k

\* A resting order of a transaction that succeeded can be cancelled by its
\* name, provided that the account has used the name for no other order:
\* fills, cancels and failed transactions of others do not lose it.
StillFindable ==
    \A o \in book \cap confirmed :
        (/\ restarts = 0 \/ o.market = "perp"
         /\ \A p \in placed : Key(p) = Key(o) => p = o) =>
            Key(o) \in DOMAIN cloid_to_oid /\ cloid_to_oid[Key(o)] = Oid(o)

\* A proof that verifies shows the balance of the account in the last block:
\* the proof that prove_balance gives, also when the sheet has changed since
\* and it takes the leaf of another account, and one that puts another entry at
\* the end of a path of the tree.  And while the sheet has not changed, every
\* account has a proof that verifies.
ProofsSound ==
    tree # NoTree =>
        \A a \in DOMAIN balances :
            LET p == prove_balance(a)
                known(b) == hash_entry(a, b) \in Range(tree[1])
            IN /\ \A b \in Range(balances) :
                    /\ p # NoProof /\ verify_balance_proof(a, b, p) => known(b)
                    /\ \A i \in DOMAIN tree[1] :
                          verify_balance_proof(a, b,
                              [prove(tree, i) EXCEPT !.leaf_hash = hash_entry(a, b)]) => known(b)
               /\ tree = build_unified_state_tree =>
                    p # NoProof /\ verify_balance_proof(a, balances[a], p) /\ known(balances[a])
===============================================================================
