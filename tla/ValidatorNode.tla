---------------------------- MODULE ValidatorNode -----------------------------
(***************************************************************************)
(* A validator under CometBFT: the ABCI handlers of                        *)
(* chain/src/cometbft/app.rs over the application, its database and the    *)
(* snapshots of persistence/src/snapshot.rs, with what node/src/main.rs    *)
(* does at a start, and a new node that syncs from the snapshots.          *)
(*                                                                         *)
(* A block places an order or cancels the one that is there, so that a     *)
(* block applied twice, or not at all, shows; it arms a trigger or moves   *)
(* the price, which turns the triggers into orders; it sets a funding      *)
(* rate; it creates or destroys a contract.  Triggers stand for all that   *)
(* the process alone knows and that later blocks depend on, such as the    *)
(* timestamps that were used as nonces and the amounts that spot orders    *)
(* reserve.                                                                *)
(*                                                                         *)
(* CometBFT itself is external: it keeps the decided blocks over a crash,  *)
(* tells the application the ones after the height of Info, may repeat the *)
(* last, and stops at an application whose hash is not that of the chain.  *)
(***************************************************************************)
EXTENDS Persister, Sequences, FiniteSets, SequencesExt

CONSTANTS
    snapshot_interval, MAX_SNAPSHOTS,
    Chunks,        \* chunks of a snapshot
    MaxHeight,     \* bound: blocks
    Chains,        \* bound: the chains of blocks that are decided
    MaxFailures,   \* bound: writes of the database that fail
    MaxCrashes     \* bound: crashes

ASSUME ValidatorAssumption ==
    /\ IsFiniteSet(Keys)
    /\ snapshot_interval \in Nat \ {0} /\ MAX_SNAPSHOTS \in Nat \ {0}
    /\ Chunks \in Nat \ {0}
    /\ MaxHeight \in Nat /\ MaxFailures \in Nat /\ MaxCrashes \in Nat

VARIABLES
    chain,         \* the decided blocks
    history,       \* the state of the chain after each of them
    app,           \* AppState of the running process
    stage,         \* what the process does: "down", "handshake", "idle", ...
    pending,       \* pending_persistence
    json, meta,    \* the snapshot files: height -> state, height -> metadata
    cache,         \* SnapshotManager.snapshots: height -> metadata
    restore,       \* SnapshotRestore of the new node, and what it restored
    failures, crashes,
    executed,      \* history: the states that executing blocks has left
    lost           \* history: whether a restart came when there was what it loses

appVars == <<app, stage, pending>>
snapVars == <<json, meta, cache>>
ghostVars == <<executed, lost>>
vars == <<db, chain, history, appVars, snapVars, restore, failures, crashes, ghostVars>>

Blocks ==
    [kind : {"order", "arm", "create", "destroy"}, key : Keys]
        \cup [kind : {"mark"}] \cup [kind : {"funding"}, rate : {"coarse", "fine"}]

\* The funding values of a market: as they are at the start; with digits that a
\* restart reads into another raw value, "moved", which is also what a copy of
\* an order does that differs from the one in the book; with more digits than a
\* restart can read.
MarketStates == {"plain", "coarse", "moved", "fine"}

\* A state as the database holds it, without its contracts, and one as it is
\* written and read back.
StoredStates == [height : Nat, orders : SUBSET Keys, market : MarketStates, nonces : Nat,
                 funds : Nat, agrees : BOOLEAN]
PersistedStates == [height : Nat, core : SUBSET Keys, perp : SUBSET Keys,
                    market : MarketStates, evm : SUBSET Keys, nonces : Nat, funds : Nat,
                    agrees : BOOLEAN]
AppStates == [height : Nat, perp : SUBSET Keys, shared : SUBSET Keys, triggers : SUBSET Keys,
              market : MarketStates, evm : SUBSET Keys, nonces : Nat, funds : Nat,
              agrees : BOOLEAN]

ASSUME NoStateAssumption ==
    NoState \notin StoredStates /\ NoState \notin PersistedStates /\ NoState \notin AppStates

Genesis == [height |-> 0, orders |-> {}, triggers |-> {}, market |-> "plain", evm |-> {},
            nonces |-> 0, funds |-> 1]

\* What a block does to the orders and the triggers, to the funding values and
\* to the contracts.
Ordered(S, T, b) ==
    CASE b.kind = "order" -> IF b.key \in S THEN S \ {b.key} ELSE S \cup {b.key}
      [] b.kind = "mark" -> S \cup T
      [] OTHER -> S
Armed(T, b) ==
    CASE b.kind = "arm" -> T \cup {b.key}
      [] b.kind = "mark" -> {}
      [] OTHER -> T
Funded(m, b) == IF b.kind = "funding" THEN b.rate ELSE m
Deployed(S, b) ==
    CASE b.kind = "create" -> S \cup {b.key}
      [] b.kind = "destroy" -> S \ {b.key}
      [] OTHER -> S

\* The state of the chain after one more block.
After(s, b) ==
    [height |-> s.height + 1, orders |-> Ordered(s.orders, s.triggers, b),
     triggers |-> Armed(s.triggers, b), market |-> Funded(s.market, b),
     evm |-> Deployed(s.evm, b), nonces |-> s.nonces + 1, funds |-> s.funds]

Current == IF history = <<>> THEN Genesis ELSE Last(history)

StateAt(h) == IF h = 0 THEN Genesis ELSE history[h]

NewApp == [height |-> 0, perp |-> {}, shared |-> {}, triggers |-> {}, market |-> "plain",
           evm |-> {}, nonces |-> 0, funds |-> 0, agrees |-> TRUE]
NoRestore == [current |-> NoState, received |-> <<>>, result |-> NoState]
NoFiles == <<>>

Init ==
    /\ PersisterInit
    /\ chain = <<>> /\ history = <<>>
    /\ app = NewApp /\ stage = "handshake" /\ pending = NoState
    /\ json = NoFiles /\ meta = NoFiles /\ cache = NoFiles
    /\ restore = NoRestore
    /\ failures = 0 /\ crashes = 0
    /\ executed = {} /\ lost = FALSE

-----------------------------------------------------------------------------
(* The ABCI handlers *)

\* External: consensus decides a block.
Decide(b) ==
    /\ Len(chain) < MaxHeight
    /\ chain' = Append(chain, b)
    /\ chain' \in Chains
    /\ history' = Append(history, After(Current, b))
    /\ UNCHANGED <<db, appVars, snapVars, restore, failures, crashes, ghostVars>>

\* Info: CometBFT learns the height and, when it is 0, sends InitChain, which
\* credits the balances of genesis.
InitChain ==
    /\ stage = "handshake"
    /\ app' = IF app.height = 0 THEN [app EXCEPT !.funds = @ + 1] ELSE app
    /\ stage' = "idle"
    /\ UNCHANGED <<db, chain, history, pending, snapVars, restore, failures, crashes, ghostVars>>

\* What the application hash is made of; triggers are not part of it.
Roots(orders, market, evm, nonces, funds) == <<orders, market, evm, nonces, funds>>

\* A hash is that of the chain when the hash before is, and what it is made of
\* now.
Agrees(agreed, a, s) ==
    agreed /\ Roots(a.perp, a.market, a.evm, a.nonces, a.funds)
                  = Roots(s.orders, s.market, s.evm, s.nonces, s.funds)

\* begin_block, every transaction, end_block and commit of the application.
Execute(b) ==
    LET a == [height |-> app.height + 1, perp |-> Ordered(app.perp, app.triggers, b),
              shared |-> app.shared, triggers |-> Armed(app.triggers, b),
              market |-> Funded(app.market, b), evm |-> Deployed(app.evm, b),
              nonces |-> app.nonces + 1, funds |-> app.funds, agrees |-> app.agrees]
    IN  [a EXCEPT !.agrees = Agrees(app.agrees, a, StateAt(a.height))]

\* With a perpetuals engine the shared engine's orders are left out.
extract_state(a) ==
    [height |-> a.height, core |-> {}, perp |-> a.perp, market |-> a.market, evm |-> a.evm,
     nonces |-> a.nonces, funds |-> a.funds, agrees |-> a.agrees]

\* The part of it that a later batch replaces.
Stored(a) ==
    [height |-> a.height, orders |-> a.perp, market |-> a.market, nonces |-> a.nonces,
     funds |-> a.funds, agrees |-> a.agrees]

\* Mutant: the next block is taken for one that is done.
AlreadyDone_OrNext(h) == app.height + 1 >= h

\* The guard against a second FinalizeBlock of the height.
AlreadyDone(h) == app.height = h

\* CometBFT sends no block to an application whose hash it does not accept.
finalize_block(h) ==
    /\ app.agrees
    /\ stage \in {"handshake", "idle"}
    /\ app.height > 0 \/ stage = "idle"
    /\ h \in 1..Len(chain)
    /\ h = app.height + 1 \/ (stage = "handshake" /\ h = app.height)
    /\ IF AlreadyDone(h)
       THEN UNCHANGED <<app, pending, executed>>
       ELSE /\ app' = Execute(chain[h])
            /\ pending' = extract_state(app')
            /\ executed' = executed \cup {Stored(app')}
    /\ stage' = "finalized"
    /\ UNCHANGED <<db, chain, history, snapVars, restore, failures, crashes, lost>>

should_create_snapshot(h) == h > 0 /\ h % snapshot_interval = 0

\* The pending state is taken and written; a failure is only logged.  Then a
\* snapshot may be due.
commit ==
    /\ stage = "finalized"
    /\ \/ pending = NoState /\ UNCHANGED <<db, failures>>
       \/ pending # NoState /\ persist_state(pending) /\ UNCHANGED failures
       \/ /\ pending # NoState /\ failures < MaxFailures
          /\ failures' = failures + 1
          /\ UNCHANGED db
    /\ pending' = NoState
    /\ stage' = IF should_create_snapshot(app.height) THEN "snapshot" ELSE "idle"
    /\ UNCHANGED <<app, chain, history, snapVars, restore, crashes, ghostVars>>

-----------------------------------------------------------------------------
(* SnapshotManager *)

With(f, h, v) == [x \in DOMAIN f \cup {h} |-> IF x = h THEN v ELSE f[x]]

\* The first half of create_snapshot: a checkpoint of the database is loaded and
\* written to the .json file.  It may be the state of an older height than the
\* one the snapshot is made for, when the last write failed; an empty database
\* ends it with an error.
WriteJson ==
    /\ stage = "snapshot"
    /\ IF load_state = NoState
       THEN stage' = "idle" /\ UNCHANGED json
       ELSE /\ json' = With(json, app.height, load_state)
            /\ stage' = "snapshot_meta"
    /\ UNCHANGED <<db, chain, history, app, pending, meta, cache, restore, failures,
                   crashes, ghostVars>>

Newest(S) == {h \in S : Cardinality({g \in S : g > h}) < MAX_SNAPSHOTS}
Only(f, S) == [h \in DOMAIN f \cap S |-> f[h]]
Metadata == [height |-> app.height, hash |-> json[app.height]]

\* The second half: the .meta file with the hash, and the index.
WriteMeta ==
    /\ stage = "snapshot_meta"
    /\ meta' = With(meta, app.height, Metadata)
    /\ cache' = With(cache, app.height, Metadata)
    /\ stage' = "cleanup"
    /\ UNCHANGED <<db, chain, history, app, pending, json, restore, failures, crashes, ghostVars>>

\* cleanup_old_snapshots removes the .json files before the .meta files.
CleanupJson ==
    /\ stage = "cleanup"
    /\ json' = Only(json, DOMAIN json \ (DOMAIN cache \ Newest(DOMAIN cache)))
    /\ stage' = "cleanup_meta"
    /\ UNCHANGED <<db, chain, history, app, pending, meta, cache, restore, failures,
                   crashes, ghostVars>>

CleanupMeta ==
    /\ stage = "cleanup_meta"
    /\ meta' = Only(meta, Newest(DOMAIN cache))
    /\ cache' = Only(cache, Newest(DOMAIN cache))
    /\ stage' = "idle"
    /\ UNCHANGED <<db, chain, history, app, pending, json, restore, failures, crashes, ghostVars>>

\* load_chunk reads the file of the height as it is now; without one the answer
\* is an empty chunk.
load_snapshot_chunk(h) ==
    IF h \in DOMAIN cache /\ h \in DOMAIN json THEN json[h] ELSE NoState

-----------------------------------------------------------------------------
(* SnapshotRestore on the new node *)

\* An offer of the format the node knows starts from no chunks.
offer_snapshot(m) ==
    /\ restore.result = NoState
    /\ restore' = [restore EXCEPT !.current = m, !.received = <<>>]
    /\ UNCHANGED <<db, chain, history, appVars, snapVars, failures, crashes, ghostVars>>

\* The chunks put together: chunks of two files give a mixture, an empty one
\* nothing that can be read.
Reassembled(received) ==
    IF \E i \in DOMAIN received : received[i] = NoState THEN NoState
    ELSE [received[0] EXCEPT !.core = received[Chunks - 1].core]

\* Mutant: the hash is not compared.
HashMatches_Unchecked(s, m) == TRUE

HashMatches(s, m) == s = m.hash

\* A funding value that has too many digits to be read as a price ends the
\* process in a panic.
Unreadable(s) == s # NoState /\ s.market = "fine"

Reread(market) == IF market = "coarse" THEN "moved" ELSE market

\* restore_state, restore_perp_engine_state, and of the chain's state the height
\* and the hash: the nonces, the client order ids and the contracts are those of
\* a new node.
Synced(s) ==
    [height |-> s.height, perp |-> Preferred(s), shared |-> s.core, triggers |-> {},
     market |-> Reread(s.market), evm |-> {}, nonces |-> 0, funds |-> s.funds,
     agrees |-> s.agrees]

\* The new node asks for a chunk of the snapshot it was offered and stores the
\* answer under its index; the last one finalizes the restore, which takes the
\* offer whether it succeeds or not.
apply_snapshot_chunk(i) ==
    /\ stage # "down"
    /\ restore.current # NoState
    /\ LET received == With(restore.received, i, load_snapshot_chunk(restore.current.height))
           complete == Cardinality(DOMAIN received) = Chunks
           s == Reassembled(received)
       IN restore' =
            IF ~complete THEN [restore EXCEPT !.received = received]
            ELSE [current |-> NoState, received |-> <<>>,
                  result |-> IF s # NoState /\ HashMatches(s, restore.current) /\ ~Unreadable(s)
                             THEN Synced(s) ELSE NoState]
    /\ UNCHANGED <<db, chain, history, appVars, snapVars, failures, crashes, ghostVars>>

-----------------------------------------------------------------------------
(* Crash and restart *)

Crash ==
    /\ stage # "down"
    /\ crashes < MaxCrashes
    /\ crashes' = crashes + 1
    /\ stage' = "down"
    /\ app' = NewApp /\ pending' = NoState
    /\ cache' = NoFiles
    /\ UNCHANGED <<db, chain, history, json, meta, restore, failures, ghostVars>>

\* Mutant: the nonces are left at zero, as on a node that syncs.
restore_state_NoNonces(s) ==
    [Synced(s) EXCEPT !.evm = s.evm]

\* restore_state, restore_perp_engine_state, the EVM state and
\* restore_chain_state.  The triggers are gone.
restore_state(s) ==
    [Synced(s) EXCEPT !.evm = s.evm, !.nonces = s.nonces]

\* Nothing is there that a restart loses or reads back as something else: no
\* trigger, no funding value, no entry of a contract that was destroyed.
Survives ==
    db.height = 0 \/ LET s == StateAt(db.height)
                     IN  s.triggers = {} /\ s.market = "plain" /\ s.evm = db.evm

Restart ==
    /\ stage = "down"
    /\ lost' = (lost \/ ~Survives)
    /\ IF Unreadable(load_state) THEN UNCHANGED <<app, cache, stage>>
       ELSE /\ app' = IF load_state = NoState THEN NewApp ELSE restore_state(load_state)
            /\ cache' = meta
            /\ stage' = "handshake"
    /\ UNCHANGED <<db, chain, history, pending, json, meta, restore, failures, crashes, executed>>

NodeStep ==
    \/ InitChain
    \/ finalize_block(app.height + 1) \/ commit
    \/ WriteJson \/ WriteMeta \/ CleanupJson \/ CleanupMeta
    \/ Restart

Next ==
    \/ \E b \in Blocks : Decide(b)
    \/ NodeStep
    \/ finalize_block(app.height)
    \/ \E h \in DOMAIN cache : offer_snapshot(cache[h])
    \/ \E i \in 0..Chunks - 1 : apply_snapshot_chunk(i)
    \/ Crash

Spec == Init /\ [][Next]_vars

\* CometBFT keeps calling a node that runs, and a node that died is started.
FairSpec == Spec /\ WF_vars(NodeStep)

-----------------------------------------------------------------------------
(* Properties *)

\* Every variable keeps its type, and neither the application nor the database
\* is ahead of the chain.
TypeOK ==
    /\ db \in [height : Nat, orders : SUBSET Keys, market : MarketStates, evm : SUBSET Keys,
               nonces : Nat, funds : Nat, agrees : BOOLEAN]
    /\ chain \in Seq(Blocks) /\ Len(history) = Len(chain)
    /\ app \in AppStates
    /\ stage \in {"down", "handshake", "idle", "finalized", "snapshot",
                 "snapshot_meta", "cleanup", "cleanup_meta"}
    /\ pending \in PersistedStates \cup {NoState}
    /\ app.height <= Len(chain) /\ db.height <= Len(chain)
    /\ failures \in 0..MaxFailures /\ crashes \in 0..MaxCrashes
    /\ executed \subseteq StoredStates /\ lost \in BOOLEAN

\* Whatever crashes, failed writes and repeated blocks happen, a node that runs
\* has applied every block up to its height exactly once, and has the state and
\* the hash of the chain, unless it was restarted at a height where there was
\* something that a restart loses.
SameAsChain ==
    stage \notin {"down", "handshake"} /\ ~lost =>
        /\ app.height <= Len(history)
        /\ LET s == StateAt(app.height)
           IN  /\ app.perp = s.orders /\ app.triggers = s.triggers /\ app.market = s.market
               /\ app.evm = s.evm /\ app.nonces = s.nonces /\ app.funds = s.funds
        /\ app.agrees

\* What a new node restores, if CometBFT accepts its hash, is the orders and
\* balances of one block, even when its chunks come from two snapshots that were
\* made for the same height (a snapshot is made from the database, which may be
\* behind the application) and from a node that has departed from the chain.
SyncedIsWhole ==
    restore.result # NoState /\ restore.result.agrees =>
        \E h \in 1..Len(history) :
            /\ restore.result.height = h
            /\ restore.result.perp = history[h].orders
            /\ restore.result.funds = history[h].funds

\* The database, read the way a restart reads it, implements StateStore: it
\* moves from the whole state after one block to the whole state after a later
\* one.
StoredState ==
    IF db.height = 0 THEN NoState
    ELSE [height |-> db.height, orders |-> db.orders, market |-> db.market,
          nonces |-> db.nonces, funds |-> db.funds, agrees |-> db.agrees]

Store == INSTANCE StateStore WITH store <- StoredState

StoreRefined == Store!Spec

\* A node catches up with every block of the chain and stays there, once the
\* crashes are over, unless a restart lost something; after that it may panic
\* at every start, or be stopped because of its hash.
CatchesUp ==
    \A h \in 1..MaxHeight : (Len(chain) >= h) ~> [](lost \/ app.height >= h)
===============================================================================
