------------------------------- MODULE Mempool -------------------------------
(***************************************************************************)
(* The transaction pool of a node (chain/src/mempool.rs): the transactions *)
(* by hash, an index per account and nonce from which blocks are filled,   *)
(* and an index by arrival time from which the oldest are evicted.         *)
(*                                                                         *)
(* A transaction is its hash; Sender and Nonce are what it carries.  Two   *)
(* transactions of one account may carry the same nonce.                   *)
(*                                                                         *)
(* Every operation is one critical section of SharedMempool.  The time     *)
(* index is keyed by the clock; two arrivals never read the same value,    *)
(* since a signature is recovered between them.                            *)
(***************************************************************************)
EXTENDS Naturals, Sequences, FiniteSets, FiniteSetsExt, SequencesExt

CONSTANTS
    Senders,           \* the accounts that send them
    Hashes,            \* the transactions there are
    Sender, Nonce,     \* hash -> what recover_signer and tx.nonce give
    max_txs_per_account,
    max_total_txs

ASSUME MempoolAssumption ==
    /\ Sender \in [Hashes -> Senders]
    /\ Nonce \in [Hashes -> Nat]
    /\ max_txs_per_account \in Nat \ {0}
    /\ max_total_txs \in Nat \ {0}

VARIABLES
    txs,           \* the hashes that have an entry
    by_account,    \* account -> (nonce -> hash)
    by_time,       \* the hashes in the order of their arrival
    invalid        \* hashes that are not to be added again

poolVars == <<txs, by_account, by_time, invalid>>

NoNonces == [n \in {} |-> n]

MempoolInit ==
    /\ txs = {}
    /\ by_account = [a \in Senders |-> NoNonces]
    /\ by_time = <<>>
    /\ invalid = {}

-----------------------------------------------------------------------------

\* remove_internal takes the hash out of the time index as well.
WithoutTimes(gone) == SelectSeq(by_time, LAMBDA h : h \notin gone)

\* Mutant: the account index keeps the nonce of a removed transaction.
WithoutNonces_Kept(gone) == by_account

\* remove_internal drops the nonce of a removed transaction from its account's
\* index, whichever transaction is indexed there.
WithoutNonces(gone) ==
    [a \in Senders |->
       [n \in {m \in DOMAIN by_account[a] :
                 \A h \in gone : ~(Sender[h] = a /\ Nonce[h] = m)} |->
          by_account[a][n]]]

RemoveAll(gone) ==
    /\ txs' = txs \ gone
    /\ by_account' = WithoutNonces(gone)
    /\ by_time' = WithoutTimes(gone)

\* What the eviction loop of add removes: the oldest transactions, until there
\* is room for one more or the time index is empty.
Evicted ==
    {by_time[i] : i \in {j \in DOMAIN by_time : j + max_total_txs <= Cardinality(txs) + 1}}

AtAccountLimit(h) ==
    Cardinality(DOMAIN by_account[Sender[h]]) >= max_txs_per_account

\* The checks of add that come before the eviction.
RefusedAtOnce(h) == h \in txs \/ h \in invalid \/ AtAccountLimit(h)

\* The nonce check of add, made on the index the eviction has left.
NonceTooHigh(h, index) ==
    LET nonces == DOMAIN index[Sender[h]]
    IN  nonces # {} /\ Nonce[h] > Max(nonces) + 1

\* Mempool::add, with every error it returns.  An error found after the
\* eviction does not bring the evicted transactions back.
add(h) ==
    \/ /\ RefusedAtOnce(h)
       /\ UNCHANGED <<txs, by_account, by_time>>
    \/ /\ ~RefusedAtOnce(h)
       /\ NonceTooHigh(h, WithoutNonces(Evicted))
       /\ RemoveAll(Evicted)
    \/ /\ ~RefusedAtOnce(h)
       /\ ~NonceTooHigh(h, WithoutNonces(Evicted))
       /\ LET index == WithoutNonces(Evicted)
              s == Sender[h]
          IN  by_account' = [index EXCEPT ![s] =
                [n \in DOMAIN index[s] \cup {Nonce[h]} |->
                   IF n = Nonce[h] THEN h ELSE index[s][n]]]
       /\ by_time' = Append(WithoutTimes(Evicted), h)
       /\ txs' = (txs \ Evicted) \cup {h}

remove(h) == h \in txs /\ RemoveAll({h})

\* remove changes nothing when the hash is unknown.
RemoveIfKnown(h) == remove(h) \/ (h \notin txs /\ UNCHANGED <<txs, by_account, by_time>>)

mark_invalid(h) == RemoveIfKnown(h) /\ invalid' = invalid \cup {h}

clear_invalid_cache == invalid # {} /\ invalid' = {} /\ UNCHANGED <<txs, by_account, by_time>>

\* The transactions that came before the cutoff: a prefix of the time index.
prune_expired(n) ==
    /\ n \in DOMAIN by_time
    /\ RemoveAll({by_time[i] : i \in 1..n})
    /\ UNCHANGED invalid

-----------------------------------------------------------------------------

Indexed(h) ==
    /\ Nonce[h] \in DOMAIN by_account[Sender[h]]
    /\ by_account[Sender[h]][Nonce[h]] = h

\* Mutant: the batch is full one transaction too early.
Full_Early(n, limit) == n + 1 >= limit

Full(n, limit) == n >= limit

\* What get_pending may return: the accounts in any order, as a HashMap
\* iterates, each with its transactions in the order of their nonces, one
\* account after the other, until the batch is full.
get_pending(limit) ==
    {s \in UNION {[1..n -> {h \in Hashes : Indexed(h)}] : n \in 0..limit} :
        /\ \A i \in DOMAIN s : \A h \in Hashes :
             Indexed(h) /\ Sender[h] = Sender[s[i]] /\ Nonce[h] < Nonce[s[i]]
                 => \E j \in 1..(i - 1) : s[j] = h
        /\ \A i \in DOMAIN s : i > 1 /\ Sender[s[i - 1]] # Sender[s[i]] =>
             \A h \in Hashes : Indexed(h) /\ Sender[h] = Sender[s[i - 1]]
                 => \E j \in 1..(i - 1) : s[j] = h
        /\ IsInjective(s)
        /\ Full(Len(s), limit) \/ \A h \in Hashes : Indexed(h) => h \in Range(s)}

-----------------------------------------------------------------------------
(* The pool on its own, with every operation it offers *)

MempoolNext ==
    \/ \E h \in Hashes : add(h) /\ UNCHANGED invalid
    \/ \E h \in Hashes : remove(h) /\ UNCHANGED invalid
    \/ \E h \in Hashes : mark_invalid(h)
    \/ clear_invalid_cache
    \/ \E n \in 1..max_total_txs : prune_expired(n)

MempoolSpec == MempoolInit /\ [][MempoolNext]_poolVars

-----------------------------------------------------------------------------
(* Properties *)

\* Every variable keeps its type, and no transaction is in the time index twice.
MempoolTypeOK ==
    /\ txs \subseteq Hashes
    /\ DOMAIN by_account = Senders
    /\ \A a \in Senders :
         DOMAIN by_account[a] \subseteq Nat /\ by_account[a] \in [DOMAIN by_account[a] -> Hashes]
    /\ by_time \in Seq(Hashes) /\ IsInjective(by_time)
    /\ invalid \subseteq Hashes

\* Whatever is evicted, expired or replaced, the account index only ever names
\* transactions that are in the pool, under their own sender and nonce:
\* get_pending never meets a hash it cannot resolve.
NoDanglingIndex ==
    \A a \in Senders : \A n \in DOMAIN by_account[a] :
        LET h == by_account[a][n]
        IN  h \in txs /\ Sender[h] = a /\ Nonce[h] = n

=============================================================================
