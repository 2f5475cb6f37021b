------------------------------ MODULE NodeProofs ------------------------------
(***************************************************************************)
(* Proofs about a node: the validator with its database, and the readers   *)
(* of its blocks.                                                          *)
(*                                                                         *)
(* First the validator.  For any keys, any number of blocks, failed writes *)
(* and crashes: unless a restart loses something, it has applied every     *)
(* block up to its height once; its database implements StateStore; and a  *)
(* node restored from its snapshots has the orders and balances of one     *)
(* block.                                                                  *)
(***************************************************************************)
EXTENDS ValidatorNode, Feed, SumTheorems, SequenceTheorems, TLAPS

ChainRecords ==
    [height : Nat, orders : SUBSET Keys, triggers : SUBSET Keys, market : MarketStates,
     evm : SUBSET Keys, nonces : Nat, funds : Nat]
DbRecords ==
    [height : Nat, orders : SUBSET Keys, market : MarketStates, evm : SUBSET Keys,
     nonces : Nat, funds : Nat, agrees : BOOLEAN]
Running == stage \notin {"down", "handshake"}

Types ==
    /\ chain \in Seq(Blocks) /\ history \in Seq(ChainRecords) /\ Len(history) = Len(chain)
    /\ db \in DbRecords
    /\ app \in AppStates
    /\ stage \in {"down", "handshake", "idle", "finalized", "snapshot",
                  "snapshot_meta", "cleanup", "cleanup_meta"}

\* The history is what the blocks make of genesis.
HistoryFollows ==
    \A h \in 1..Len(history) :
        history[h].height = h /\ history[h] = After(StateAt(h - 1), chain[h])

\* Whether an application has the state s of the chain.
Same(a, s) ==
    /\ a.perp = s.orders /\ a.triggers = s.triggers /\ a.market = s.market
    /\ a.evm = s.evm /\ a.nonces = s.nonces /\ a.funds = s.funds
    /\ a.agrees

\* The application is at a height of the chain, and while nothing was lost it
\* has the state of the chain, except that at its first start it waits for
\* genesis.
AppSound ==
    /\ app.height <= Len(history)
    /\ Running /\ ~lost => Same(app, StateAt(app.height))
    /\ stage = "handshake" =>
          (app = NewApp \/ (app.height > 0 /\ (~lost => Same(app, StateAt(app.height)))))

\* The database is not ahead of a node that runs.  If its hash is that of the
\* chain, it has the state of its height, and while nothing was lost its hash is.
DbSound ==
    /\ db.height <= Len(history)
    /\ db.height > 0 /\ db.agrees => /\ db.orders = history[db.height].orders
                                     /\ db.market = history[db.height].market
                                     /\ db.nonces = history[db.height].nonces
                                     /\ db.funds = history[db.height].funds
    /\ db.height > 0 /\ ~lost => db.agrees
    /\ stage # "down" => db.height <= app.height

\* What is pending is the state of the block that was executed last.
PendingSound ==
    pending # NoState =>
        /\ stage = "finalized" /\ pending = extract_state(app) /\ db.height < app.height
        /\ Stored(app) \in executed
        /\ app.agrees => LET s == StateAt(app.height)
                         IN  /\ app.perp = s.orders /\ app.market = s.market
                             /\ app.nonces = s.nonces /\ app.funds = s.funds

VInv == Types /\ HistoryFollows /\ AppSound /\ DbSound /\ PendingSound

-----------------------------------------------------------------------------
(* The chain *)

\* A block makes a record of the chain from one.
LEMMA AfterTyped ==
    ASSUME NEW s \in ChainRecords, NEW b \in Blocks
    PROVE  After(s, b) \in ChainRecords
<1>1. Ordered(s.orders, s.triggers, b) \in SUBSET Keys /\ Armed(s.triggers, b) \in SUBSET Keys
  BY DEF ChainRecords, Blocks, Ordered, Armed
<1>2. Deployed(s.evm, b) \in SUBSET Keys
  BY DEF ChainRecords, Blocks, Deployed
<1>3. Funded(s.market, b) \in MarketStates
  BY DEF ChainRecords, Blocks, Funded, MarketStates
<1> QED BY <1>1, <1>2, <1>3 DEF ChainRecords, After

\* Genesis is a record of the chain.
LEMMA GenesisTyped == Genesis \in ChainRecords
BY DEF Genesis, ChainRecords, MarketStates

\* Every height up to the last has a record.
LEMMA StateAtTyped ==
    ASSUME Types, NEW h \in 0..Len(history)
    PROVE  StateAt(h) \in ChainRecords
BY GenesisTyped DEF Types, StateAt

\* The current state is the one of the last height.
LEMMA LastState ==
    ASSUME Types
    PROVE  Current = StateAt(Len(history)) /\ Current \in ChainRecords
BY GenesisTyped, StateAtTyped DEF Types, Current, StateAt, Last

\* A new block leaves the states before it as they are.
LEMMA HistoryGrows ==
    ASSUME Types, NEW b \in Blocks, Decide(b)
    PROVE  /\ history' \in Seq(ChainRecords) /\ chain' \in Seq(Blocks)
           /\ Len(history') = Len(history) + 1 /\ Len(chain') = Len(chain) + 1
           /\ \A h \in 1..Len(history) : history'[h] = history[h] /\ chain'[h] = chain[h]
           /\ \A h \in 0..Len(history) : StateAt(h)' = StateAt(h)
           /\ history'[Len(history) + 1] = After(Current, b) /\ chain'[Len(history) + 1] = b
<1>1. After(Current, b) \in ChainRecords
  BY LastState, AfterTyped
<1>2. /\ history' = Append(history, After(Current, b)) /\ chain' = Append(chain, b)
      /\ history \in Seq(ChainRecords) /\ chain \in Seq(Blocks) /\ Len(history) = Len(chain)
  BY DEF Decide, Types
<1>3. /\ history' \in Seq(ChainRecords) /\ chain' \in Seq(Blocks)
      /\ Len(history') = Len(history) + 1 /\ Len(chain') = Len(chain) + 1
      /\ \A h \in 1..Len(history) : history'[h] = history[h] /\ chain'[h] = chain[h]
      /\ history'[Len(history) + 1] = After(Current, b) /\ chain'[Len(history) + 1] = b
  BY <1>1, <1>2
<1>4. \A h \in 0..Len(history) : StateAt(h)' = StateAt(h)
  BY <1>3 DEF StateAt
<1> QED BY <1>3, <1>4

-----------------------------------------------------------------------------
(* Steps *)

\* A new process is typed.
LEMMA NewAppTyped == NewApp \in AppStates /\ NewApp.height = 0
BY DEF NewApp, AppStates, MarketStates

\* The invariant holds of an empty chain and database.
LEMMA InitSound == Init => VInv
<1> SUFFICES ASSUME Init PROVE VInv
  OBVIOUS
<1>1. history = <<>> /\ chain = <<>> /\ Len(history) = 0
  BY DEF Init
<1>2. db = EmptyDb /\ app = NewApp /\ stage = "handshake" /\ pending = NoState
  BY DEF Init, PersisterInit
<1>3. EmptyDb \in DbRecords /\ EmptyDb.height = 0
  BY DEF EmptyDb, DbRecords, MarketStates
<1>4. Types
  BY <1>1, <1>2, <1>3, NewAppTyped DEF Types
<1> QED BY <1>1, <1>2, <1>3, <1>4, NewAppTyped
           DEF VInv, HistoryFollows, AppSound, Running, DbSound, PendingSound

\* A decided block extends the history and leaves the node alone.
LEMMA DecideSound ==
    ASSUME VInv, NEW b \in Blocks, Decide(b)
    PROVE  VInv'
<1> PICK n : n = Len(history)
  OBVIOUS
<1>1. Types /\ HistoryFollows /\ AppSound /\ DbSound /\ PendingSound
  BY DEF VInv
<1>2. UNCHANGED <<db, app, stage, pending, executed, lost>>
  BY DEF Decide, appVars, ghostVars
<1>3. /\ history' \in Seq(ChainRecords) /\ chain' \in Seq(Blocks)
      /\ Len(history') = n + 1 /\ Len(chain') = Len(chain) + 1
      /\ \A h \in 1..n : history'[h] = history[h] /\ chain'[h] = chain[h]
      /\ \A h \in 0..n : StateAt(h)' = StateAt(h)
      /\ history'[n + 1] = After(Current, b) /\ chain'[n + 1] = b
      /\ n \in Nat
  BY <1>1, HistoryGrows DEF Types
<1>4. Types'
  BY <1>1, <1>2, <1>3 DEF Types
<1>5. HistoryFollows'
  <2>1. Current = StateAt(n) /\ Current.height = n
    BY <1>1, LastState DEF Types, HistoryFollows, StateAt, Genesis
  <2>2. ASSUME NEW h \in 1..n
        PROVE  history'[h].height = h /\ history'[h] = After(StateAt(h - 1)', chain'[h])
    <3>1. h - 1 \in 0..n
      BY <1>3
    <3>2. StateAt(h - 1)' = StateAt(h - 1) /\ history'[h] = history[h] /\ chain'[h] = chain[h]
      BY <1>3, <3>1
    <3> QED BY <1>1, <3>2 DEF HistoryFollows
  <2>3. history'[n + 1].height = n + 1
    BY <1>3, <2>1 DEF After
  <2>4. history'[n + 1] = After(StateAt(n)', chain'[n + 1])
    BY <1>3, <2>1
  <2>5. ASSUME NEW h \in 1..Len(history')
        PROVE  history'[h].height = h /\ history'[h] = After(StateAt(h - 1)', chain'[h])
    <3>1. CASE h \in 1..n
      BY <2>2, <3>1
    <3>2. CASE h = n + 1
      <4>1. h - 1 = n
        BY <1>3, <3>2
      <4> QED BY <2>3, <2>4, <3>2, <4>1
    <3> QED BY <1>3, <3>1, <3>2
  <2> QED BY <2>5 DEF HistoryFollows
<1>6. app.height \in 0..n /\ StateAt(app.height)' = StateAt(app.height)
  <2>1. app.height \in 0..n
    BY <1>1, <1>3 DEF AppSound, Types, AppStates
  <2>2. app.height # 0 => history'[app.height] = history[app.height]
    BY <1>3, <2>1
  <2> QED BY <1>2, <2>1, <2>2 DEF StateAt
<1>7. AppSound'
  BY <1>1, <1>2, <1>3, <1>6 DEF AppSound, Same, Running
<1>8. DbSound'
  <2>1. db.height \in Nat /\ db.height <= n
    BY <1>1 DEF Types, DbRecords, DbSound
  <2>2. db.height > 0 => history'[db.height] = history[db.height]
    BY <1>3, <2>1
  <2> QED BY <1>1, <1>2, <1>3, <2>1, <2>2 DEF DbSound
<1>9. PendingSound'
  BY <1>1, <1>2, <1>6 DEF PendingSound, extract_state, Stored
<1> QED BY <1>4, <1>5, <1>7, <1>8, <1>9 DEF VInv

\* Genesis is credited to an application that starts from nothing, and to no other.
LEMMA InitChainSound == ASSUME VInv, InitChain PROVE VInv'
<1>1. /\ UNCHANGED <<db, chain, history, pending, executed, lost>>
      /\ stage = "handshake" /\ stage' = "idle"
      /\ app' = IF app.height = 0 THEN [app EXCEPT !.funds = @ + 1] ELSE app
  BY DEF InitChain, ghostVars
<1>2. Types /\ AppSound /\ HistoryFollows /\ DbSound /\ PendingSound /\ pending = NoState
  BY <1>1 DEF VInv, PendingSound
<1>3. app' \in AppStates /\ app'.height = app.height
  BY <1>1, <1>2 DEF Types, AppStates
<1>4. ~lost => Same(app', StateAt(app.height))
  <2>1. CASE app.height = 0
    <3>1. app = NewApp
      BY <1>1, <1>2, <2>1 DEF AppSound
    <3>2. app' = [NewApp EXCEPT !.funds = @ + 1] /\ StateAt(app.height) = Genesis
      BY <1>1, <2>1, <3>1 DEF StateAt
    <3> QED BY <3>2 DEF NewApp, Genesis, Same
  <2>2. CASE app.height # 0
    BY <1>1, <1>2, <2>2, NewAppTyped DEF AppSound
  <2> QED BY <2>1, <2>2
<1>5. StateAt(app.height)' = StateAt(app.height)
  BY <1>1, <1>3 DEF StateAt
<1>6. Types' /\ AppSound'
  BY <1>1, <1>2, <1>3, <1>4, <1>5 DEF Types, AppSound, Running
<1>7. HistoryFollows' /\ DbSound' /\ PendingSound'
  BY <1>1, <1>2, <1>3 DEF HistoryFollows, StateAt, DbSound, PendingSound
<1> QED BY <1>6, <1>7 DEF VInv

\* Executing the next block of the chain gives the next state of the chain, and
\* in any case a hash that tells whether it does.
LEMMA FinalizeSound == ASSUME VInv, NEW h, finalize_block(h) PROVE VInv'
<1>1. UNCHANGED <<db, chain, history, lost>> /\ stage' = "finalized" /\ h \in 1..Len(chain)
      /\ stage \in {"handshake", "idle"} /\ (app.height > 0 \/ stage = "idle")
  BY DEF finalize_block
<1>2. Types /\ HistoryFollows /\ AppSound /\ DbSound /\ PendingSound /\ pending = NoState
  BY <1>1 DEF VInv, PendingSound
<1>3. ~lost => Same(app, StateAt(app.height))
  BY <1>1, <1>2, NewAppTyped DEF AppSound, Running
<1>4. \A g : StateAt(g)' = StateAt(g)
  BY <1>1 DEF StateAt
<1>5. HistoryFollows'
  BY <1>1, <1>2 DEF HistoryFollows, StateAt
<1>6. CASE AlreadyDone(h)
  <2>1. UNCHANGED <<app, pending, executed>>
    BY <1>6 DEF finalize_block
  <2>2. Types' /\ AppSound' /\ PendingSound' /\ DbSound'
    BY <1>1, <1>2, <1>3, <1>4, <2>1 DEF Types, AppSound, Running, PendingSound, DbSound
  <2> QED BY <1>5, <2>2 DEF VInv
<1>7. CASE ~AlreadyDone(h)
  <2> DEFINE b == chain[h]
             a == [height |-> app.height + 1, perp |-> Ordered(app.perp, app.triggers, b),
                   shared |-> app.shared, triggers |-> Armed(app.triggers, b),
                   market |-> Funded(app.market, b), evm |-> Deployed(app.evm, b),
                   nonces |-> app.nonces + 1, funds |-> app.funds, agrees |-> app.agrees]
             s == StateAt(app.height)
  <2>1. /\ app' = Execute(b) /\ pending' = extract_state(app')
        /\ executed' = executed \cup {Stored(app')}
        /\ h = app.height + 1 /\ h \in 1..Len(history) /\ b \in Blocks
    BY <1>1, <1>2, <1>7 DEF finalize_block, AlreadyDone, Types
  <2>2. StateAt(h) = After(s, b) /\ s \in ChainRecords
    BY <1>2, <2>1, StateAtTyped DEF HistoryFollows, Types, AppStates, StateAt
  <2>3. /\ Ordered(app.perp, app.triggers, b) \in SUBSET Keys
        /\ Armed(app.triggers, b) \in SUBSET Keys /\ Deployed(app.evm, b) \in SUBSET Keys
    BY <1>2, <2>1 DEF Types, AppStates, Ordered, Armed, Deployed, Blocks
  <2>4. Funded(app.market, b) \in MarketStates
    BY <1>2, <2>1 DEF Types, AppStates, Funded, Blocks, MarketStates
  <2>5. a = [height |-> h, perp |-> Ordered(app.perp, app.triggers, b), shared |-> app.shared,
             triggers |-> Armed(app.triggers, b), market |-> Funded(app.market, b),
             evm |-> Deployed(app.evm, b), nonces |-> app.nonces + 1, funds |-> app.funds,
             agrees |-> app.agrees]
    BY <1>2, <2>1 DEF Types
  <2>6. app' = [a EXCEPT !.agrees = Agrees(app.agrees, a, StateAt(a.height))]
    BY <2>1 DEF Execute
  <2> HIDE DEF a
  <2>7. app' = [height |-> h, perp |-> Ordered(app.perp, app.triggers, b), shared |-> app.shared,
                triggers |-> Armed(app.triggers, b), market |-> Funded(app.market, b),
                evm |-> Deployed(app.evm, b), nonces |-> app.nonces + 1, funds |-> app.funds,
                agrees |-> Agrees(app.agrees, a, StateAt(h))]
    BY <2>5, <2>6
  <2>8. Agrees(app.agrees, a, StateAt(h)) \in BOOLEAN
    BY DEF Agrees, Types, AppStates, VInv
  <2>9. app' \in AppStates
    <3>1. /\ h \in Nat /\ app.shared \in SUBSET Keys /\ app.nonces + 1 \in Nat
          /\ app.funds \in Nat
      BY <1>2, <2>1 DEF Types, AppStates
    <3> QED BY <2>3, <2>4, <2>7, <2>8, <3>1 DEF AppStates
  <2>10. Types'
    BY <1>1, <1>2, <2>9 DEF Types
  <2>11. app'.agrees => /\ app'.perp = StateAt(h).orders /\ app'.market = StateAt(h).market
                        /\ app'.nonces = StateAt(h).nonces /\ app'.funds = StateAt(h).funds
    BY <2>5, <2>7 DEF Agrees, Roots
  <2>12. ~lost => Same(app', StateAt(h))
    <3>1. SUFFICES ASSUME ~lost PROVE Same(app', StateAt(h))
      OBVIOUS
    <3>2. Same(app, s)
      BY <1>3, <3>1
    <3>3. /\ StateAt(h).orders = Ordered(s.orders, s.triggers, b)
          /\ StateAt(h).triggers = Armed(s.triggers, b) /\ StateAt(h).market = Funded(s.market, b)
          /\ StateAt(h).evm = Deployed(s.evm, b) /\ StateAt(h).nonces = s.nonces + 1
          /\ StateAt(h).funds = s.funds
      BY <2>2 DEF After
    <3>4. /\ a.perp = StateAt(h).orders /\ a.market = StateAt(h).market
          /\ a.evm = StateAt(h).evm /\ a.nonces = StateAt(h).nonces /\ a.funds = StateAt(h).funds
      BY <2>5, <3>2, <3>3 DEF Same
    <3>5. Agrees(app.agrees, a, StateAt(h))
      BY <3>2, <3>4 DEF Same, Agrees, Roots
    <3> QED BY <2>5, <2>7, <3>2, <3>3, <3>4, <3>5 DEF Same
  <2>13. app'.height = h /\ StateAt(app.height)' = StateAt(h)
    BY <1>1, <2>7 DEF StateAt
  <2>14. AppSound'
    BY <1>1, <2>1, <2>12, <2>13 DEF AppSound, Running
  <2>15. db.height < app'.height
    BY <1>1, <1>2, <2>1, <2>13 DEF DbSound, Types, AppStates, DbRecords
  <2>16. DbSound'
    BY <1>1, <1>2, <2>15, <2>1, <2>13 DEF DbSound, Types, DbRecords
  <2>17. PendingSound'
    BY <1>1, <2>1, <2>11, <2>13, <2>15 DEF PendingSound
  <2> QED BY <1>5, <2>10, <2>14, <2>16, <2>17 DEF VInv
<1> QED BY <1>6, <1>7

\* The batch replaces the entry of an older height by the one of the application.
LEMMA PersistWrites ==
    ASSUME VInv, pending # NoState, persist_state(pending)
    PROVE  /\ db' \in DbRecords /\ db'.height = app.height /\ db'.orders = app.perp
           /\ db'.market = app.market /\ db'.nonces = app.nonces /\ db'.funds = app.funds
           /\ db'.agrees = app.agrees
           /\ app.height \in 1..Len(history) /\ db.height < app.height
           /\ Stored(app) \in executed
<1>1. pending = extract_state(app) /\ db.height < app.height /\ Types /\ app.height <= Len(history)
      /\ Stored(app) \in executed
  BY DEF VInv, PendingSound, AppSound
<1>2. Preferred(extract_state(app)) = app.perp
  BY DEF Preferred, extract_state
<1>3. /\ extract_state(app).height = app.height /\ extract_state(app).evm = app.evm
      /\ extract_state(app).nonces = app.nonces /\ extract_state(app).funds = app.funds
      /\ extract_state(app).market = app.market /\ extract_state(app).agrees = app.agrees
  BY DEF extract_state
<1>4. db' = [height |-> app.height, orders |-> app.perp, market |-> app.market,
             evm |-> db.evm \cup app.evm, nonces |-> app.nonces, funds |-> app.funds,
             agrees |-> app.agrees]
  BY <1>1, <1>2, <1>3 DEF persist_state, Orders, Evm
<1>5. /\ app.height \in Nat /\ app.perp \in SUBSET Keys /\ app.evm \in SUBSET Keys
      /\ app.nonces \in Nat /\ app.funds \in Nat /\ app.market \in MarketStates
      /\ app.agrees \in BOOLEAN /\ db.height \in Nat /\ db.evm \in SUBSET Keys
  BY <1>1 DEF Types, AppStates, DbRecords
<1>6. app.height \in 1..Len(history)
  BY <1>1, <1>5 DEF Types
<1>7. db' \in DbRecords
  BY <1>4, <1>5 DEF DbRecords
<1> QED BY <1>1, <1>4, <1>6, <1>7

\* commit writes the pending state, or fails to, and drops it.
LEMMA CommitSound == ASSUME VInv, commit PROVE VInv'
<1>1. UNCHANGED <<app, chain, history, executed, lost>> /\ pending' = NoState
      /\ stage = "finalized" /\ stage' \in {"snapshot", "idle"}
  BY DEF commit, ghostVars
<1>2. Types /\ HistoryFollows /\ AppSound /\ DbSound /\ PendingSound
  BY DEF VInv
<1>3. HistoryFollows' /\ AppSound' /\ PendingSound'
  BY <1>1, <1>2 DEF HistoryFollows, AppSound, PendingSound, StateAt, Running
<1>4. CASE UNCHANGED db
  BY <1>1, <1>2, <1>3, <1>4 DEF VInv, Types, DbSound
<1>5. CASE pending # NoState /\ persist_state(pending)
  <2>1. db' \in DbRecords /\ db'.height = app.height /\ app.height \in 1..Len(history)
        /\ db'.agrees = app.agrees
        /\ (db'.agrees => /\ db'.orders = history[app.height].orders
                          /\ db'.market = history[app.height].market
                          /\ db'.nonces = history[app.height].nonces
                          /\ db'.funds = history[app.height].funds)
    BY <1>2, <1>5, PersistWrites DEF PendingSound, StateAt
  <2>2. ~lost => app.agrees
    BY <1>1, <1>2 DEF AppSound, Running, Same
  <2>3. DbSound'
    BY <1>1, <2>1, <2>2 DEF DbSound
  <2> QED BY <1>1, <1>2, <1>3, <2>1, <2>3 DEF VInv, Types
<1> QED BY <1>4, <1>5 DEF commit

\* Writing and deleting snapshot files leaves database and application alone.
LEMMA SnapshotSound ==
    ASSUME VInv, WriteJson \/ WriteMeta \/ CleanupJson \/ CleanupMeta
    PROVE  VInv'
<1>1. UNCHANGED <<db, chain, history, app, pending, executed, lost>> /\ Running
      /\ stage # "finalized" /\ stage' \in {"idle", "snapshot_meta", "cleanup", "cleanup_meta"}
  BY DEF WriteJson, WriteMeta, CleanupJson, CleanupMeta, Running, ghostVars
<1> QED BY <1>1 DEF VInv, Types, HistoryFollows, AppSound, Running, DbSound,
                    PendingSound, StateAt

\* Reading back gives what was written.
LEMMA LoadGives ==
    ASSUME VInv
    PROVE  /\ db.height = 0 => load_state = NoState
           /\ db.height # 0 =>
                /\ load_state # NoState
                /\ load_state = [height |-> db.height, core |-> db.orders, perp |-> {},
                                 market |-> db.market, evm |-> db.evm, nonces |-> db.nonces,
                                 funds |-> db.funds, agrees |-> db.agrees]
BY NoStateAssumption DEF VInv, Types, load_state, DbRecords, PersistedStates

\* What a restart gives the application of what was loaded.
LEMMA RestoreGives ==
    ASSUME NEW s, s.perp = {}
    PROVE  restore_state(s) =
               [height |-> s.height, perp |-> s.core, shared |-> s.core, triggers |-> {},
                market |-> Reread(s.market), evm |-> s.evm, nonces |-> s.nonces,
                funds |-> s.funds, agrees |-> s.agrees]
<1>1. Synced(s) =
          [height |-> s.height, perp |-> s.core, shared |-> s.core, triggers |-> {},
           market |-> Reread(s.market), evm |-> {}, nonces |-> 0, funds |-> s.funds,
           agrees |-> s.agrees]
  BY DEF Synced, Preferred
<1>2. [Synced(s) EXCEPT !.evm = s.evm] =
          [height |-> s.height, perp |-> s.core, shared |-> s.core, triggers |-> {},
           market |-> Reread(s.market), evm |-> s.evm, nonces |-> 0, funds |-> s.funds,
           agrees |-> s.agrees]
  BY <1>1
<1>3. PICK r : r = [height |-> s.height, perp |-> s.core, shared |-> s.core,
                    triggers |-> {}, market |-> Reread(s.market), evm |-> s.evm,
                    nonces |-> 0, funds |-> s.funds, agrees |-> s.agrees]
  OBVIOUS
<1>4. [r EXCEPT !.nonces = s.nonces] =
          [height |-> s.height, perp |-> s.core, shared |-> s.core, triggers |-> {},
           market |-> Reread(s.market), evm |-> s.evm, nonces |-> s.nonces,
           funds |-> s.funds, agrees |-> s.agrees]
  BY <1>3
<1>5. restore_state(s) = [r EXCEPT !.nonces = s.nonces]
  BY <1>2, <1>3, Zenon DEF restore_state
<1> QED BY <1>4, <1>5

\* What a restart reads is the state of the height in the database, unless there
\* is something that it loses.
LEMMA RestartSound == ASSUME VInv, Restart PROVE VInv'
<1>1. UNCHANGED <<db, chain, history, pending, executed>> /\ stage = "down"
      /\ lost' = (lost \/ ~Survives)
  BY DEF Restart
<1>2. Types /\ HistoryFollows /\ AppSound /\ DbSound /\ PendingSound /\ pending = NoState
  BY <1>1 DEF VInv, PendingSound
<1>3. HistoryFollows'
  BY <1>1, <1>2 DEF HistoryFollows, StateAt
<1>4. CASE Unreadable(load_state)
  <2>1. UNCHANGED <<app, stage>>
    BY <1>4 DEF Restart
  <2> QED BY <1>1, <1>2, <1>3, <2>1 DEF VInv, Types, AppSound, Running, DbSound, PendingSound
<1>5. CASE ~Unreadable(load_state)
  <2>1. stage' = "handshake"
        /\ app' = IF load_state = NoState THEN NewApp ELSE restore_state(load_state)
    BY <1>5 DEF Restart
  <2>2. CASE db.height = 0
    <3>1. app' = NewApp
      BY <2>1, <2>2, LoadGives
    <3> QED BY <1>1, <1>2, <1>3, <2>1, <2>2, <3>1, NewAppTyped
               DEF VInv, Types, AppSound, Running, DbSound, PendingSound
  <2>3. CASE db.height # 0
    <3>1. app' = [height |-> db.height, perp |-> db.orders, shared |-> db.orders,
                  triggers |-> {}, market |-> Reread(db.market), evm |-> db.evm,
                  nonces |-> db.nonces, funds |-> db.funds, agrees |-> db.agrees]
      BY <2>1, <2>3, LoadGives, RestoreGives
    <3>2. db.height \in 1..Len(history)
      BY <1>2, <2>3 DEF Types, DbSound, DbRecords
    <3>3. Reread(db.market) \in MarketStates
      BY <1>2 DEF Types, DbRecords, Reread, MarketStates
    <3>4. Types'
      BY <1>1, <1>2, <2>1, <3>1, <3>3 DEF Types, DbRecords, AppStates
    <3>5. ~lost' => Same(app', StateAt(db.height))
      <4>1. SUFFICES ASSUME ~lost' PROVE Same(app', StateAt(db.height))
        OBVIOUS
      <4>2. ~lost /\ db.agrees /\ StateAt(db.height) = history[db.height]
        <5>1. ~lost /\ Survives /\ db.height \in 1..Len(history)
          BY <1>1, <3>2, <4>1
        <5>2. db.height > 0 /\ db.height # 0
          BY <1>2, <5>1 DEF Types
        <5> QED BY <1>2, <5>1, <5>2 DEF DbSound, StateAt
      <4>3. /\ StateAt(db.height).triggers = {} /\ StateAt(db.height).market = "plain"
            /\ StateAt(db.height).evm = db.evm
        BY <1>1, <2>3, <4>1 DEF Survives
      <4>4. Reread(db.market) = "plain"
        BY <1>2, <3>2, <4>2, <4>3 DEF DbSound, Reread
      <4> QED BY <1>2, <3>1, <3>2, <4>2, <4>3, <4>4 DEF DbSound, Same
    <3>6. app'.height = db.height /\ StateAt(app.height)' = StateAt(db.height)
      BY <1>1, <3>1 DEF StateAt
    <3>7. AppSound'
      BY <1>1, <2>1, <3>2, <3>5, <3>6 DEF AppSound, Running
    <3>8. db.height <= app'.height /\ db.height \in Nat
      BY <1>2, <3>6 DEF Types, DbRecords
    <3>9. DbSound'
      BY <1>1, <1>2, <3>8 DEF DbSound
    <3>10. PendingSound'
      BY <1>1, <1>2 DEF PendingSound
    <3> QED BY <1>3, <3>4, <3>7, <3>9, <3>10 DEF VInv
  <2> QED BY <2>2, <2>3
<1> QED BY <1>4, <1>5

\* A crash loses the application and what is pending, not the database.
LEMMA CrashSound == ASSUME VInv, Crash PROVE VInv'
<1>1. /\ UNCHANGED <<db, chain, history, executed, lost>>
      /\ stage' = "down" /\ app' = NewApp /\ pending' = NoState
  BY DEF Crash, ghostVars
<1> QED BY <1>1, NewAppTyped DEF VInv, Types, HistoryFollows, AppSound, Running, DbSound,
                             PendingSound, StateAt

\* The new node and a stutter change nothing of the validator.
LEMMA OtherSound ==
    ASSUME VInv, UNCHANGED <<db, chain, history, app, stage, pending, executed, lost>>
    PROVE  VInv'
BY DEF VInv, Types, HistoryFollows, AppSound, Same, Running, DbSound, PendingSound,
       StateAt, extract_state, Stored

\* Every step keeps the invariant.
LEMMA StepSound == VInv /\ [Next]_vars => VInv'
<1> SUFFICES ASSUME VInv, [Next]_vars PROVE VInv'
  OBVIOUS
<1>1. ASSUME NEW b \in Blocks, Decide(b) PROVE VInv'
  BY <1>1, DecideSound
<1>2. CASE NodeStep
  BY <1>2, InitChainSound, FinalizeSound, CommitSound, SnapshotSound, RestartSound DEF NodeStep
<1>3. CASE finalize_block(app.height)
  BY <1>3, FinalizeSound
<1>4. ASSUME NEW h \in DOMAIN cache, offer_snapshot(cache[h]) PROVE VInv'
  BY <1>4, OtherSound DEF offer_snapshot, appVars, ghostVars
<1>5. ASSUME NEW i \in 0..Chunks - 1, apply_snapshot_chunk(i) PROVE VInv'
  BY <1>5, OtherSound DEF apply_snapshot_chunk, appVars, ghostVars
<1>6. CASE Crash
  BY <1>6, CrashSound
<1>7. CASE UNCHANGED vars
  BY <1>7, OtherSound DEF vars, appVars, ghostVars
<1> QED BY <1>1, <1>2, <1>3, <1>4, <1>5, <1>6, <1>7 DEF Next

\* A validator that runs and whose restarts lost nothing has applied every block
\* up to its height exactly once, through crashes, failed writes and repeated
\* calls of FinalizeBlock.
THEOREM AppliedExactlyOnce == Spec => []SameAsChain
<1>1. VInv => SameAsChain
  BY DEF VInv, AppSound, Same, Running, SameAsChain
<1> QED BY <1>1, InitSound, StepSound, PTL DEF Spec

-----------------------------------------------------------------------------
(* Snapshots *)

\* What a snapshot file and its hash hold is, if its application hash is that of
\* the chain H, of one state of H: a hash stands for the contents of the file.
Whole(H, s) ==
    /\ s.perp = {}
    /\ s.agrees => \E h \in 1..Len(H) :
                       s.height = h /\ s.core = H[h].orders /\ s.funds = H[h].funds

\* The same of what a new node made of it.
SyncedTo(H, a) ==
    a.agrees => \E h \in 1..Len(H) :
                    a.height = h /\ a.perp = H[h].orders /\ a.funds = H[h].funds

JsonWhole == \A h \in DOMAIN json : Whole(history, json[h])
HashesWhole ==
    /\ \A h \in DOMAIN meta : Whole(history, meta[h].hash)
    /\ \A h \in DOMAIN cache : Whole(history, cache[h].hash)

\* The file of the snapshot that is being made is there.
JsonThere == stage = "snapshot_meta" => app.height \in DOMAIN json

RestoreSound ==
    /\ restore = [current |-> restore.current, received |-> restore.received,
                  result |-> restore.result]
    /\ restore.current # NoState => Whole(history, restore.current.hash)
    /\ restore.result # NoState => SyncedTo(history, restore.result)

SInv == VInv /\ JsonWhole /\ HashesWhole /\ JsonThere /\ RestoreSound

\* A record of one block stays one when the chain grows.
LEMMA WholeStays ==
    ASSUME VInv, NEW b \in Blocks, Decide(b), NEW s
    PROVE  /\ Whole(history, s) => Whole(history', s)
           /\ SyncedTo(history, s) => SyncedTo(history', s)
<1>1. /\ Len(history) \in Nat /\ Len(history') = Len(history) + 1
      /\ \A h \in 1..Len(history) : history'[h] = history[h]
  BY HistoryGrows DEF VInv, Types
<1> QED BY <1>1 DEF Whole, SyncedTo

\* What load_state reads is the record of one block.
LEMMA LoadedWhole == ASSUME VInv, load_state # NoState PROVE Whole(history, load_state)
<1>1. db.height \in 1..Len(history)
  BY LoadGives DEF VInv, Types, DbSound, DbRecords
<1>2. load_state = [height |-> db.height, core |-> db.orders, perp |-> {},
                    market |-> db.market, evm |-> db.evm, nonces |-> db.nonces,
                    funds |-> db.funds, agrees |-> db.agrees]
  BY LoadGives
<1>3. db.agrees => db.orders = history[db.height].orders /\ db.funds = history[db.height].funds
  BY <1>1 DEF VInv, DbSound
<1> QED BY <1>1, <1>2, <1>3 DEF Whole

\* What the new node makes of a record of one block.
LEMMA SyncGives ==
    ASSUME NEW s, Whole(history, s)
    PROVE  SyncedTo(history, Synced(s))
<1>1. Synced(s).height = s.height /\ Synced(s).perp = s.core /\ Synced(s).funds = s.funds
      /\ Synced(s).agrees = s.agrees
  BY DEF Synced, Preferred, Whole
<1> QED BY <1>1 DEF Whole, SyncedTo

\* At first there is no snapshot.
LEMMA SnapshotInit == Init => SInv
BY InitSound DEF Init, SInv, JsonWhole, HashesWhole, JsonThere, RestoreSound, NoFiles, NoRestore

\* A step that leaves the files and the new node alone.
LEMMA FilesAlone ==
    ASSUME SInv, UNCHANGED <<history, json, meta, cache, restore>>, stage' # "snapshot_meta"
    PROVE  (JsonWhole /\ HashesWhole /\ JsonThere /\ RestoreSound)'
BY DEF SInv, JsonWhole, HashesWhole, JsonThere, RestoreSound

\* Every step keeps the snapshots whole.
LEMMA SnapshotStep == SInv /\ [Next]_vars => SInv'
<1> SUFFICES ASSUME SInv, [Next]_vars PROVE (JsonWhole /\ HashesWhole /\ JsonThere /\ RestoreSound)'
  BY StepSound DEF SInv
<1>1. VInv /\ JsonWhole /\ HashesWhole /\ JsonThere /\ RestoreSound
  BY DEF SInv
<1>2. ASSUME NEW b \in Blocks, Decide(b)
      PROVE  (JsonWhole /\ HashesWhole /\ JsonThere /\ RestoreSound)'
  <2>1. UNCHANGED <<app, stage, json, meta, cache, restore>>
    BY <1>2 DEF Decide, appVars, snapVars
  <2>2. \A s : Whole(history, s) => Whole(history', s)
    BY <1>1, <1>2, WholeStays
  <2>3. \A s : SyncedTo(history, s) => SyncedTo(history', s)
    BY <1>1, <1>2, WholeStays
  <2> QED BY <1>1, <2>1, <2>2, <2>3 DEF JsonWhole, HashesWhole, JsonThere, RestoreSound
<1>3. CASE InitChain \/ commit
  BY <1>3, FilesAlone DEF InitChain, commit, snapVars
<1>4. ASSUME NEW h, finalize_block(h)
      PROVE  (JsonWhole /\ HashesWhole /\ JsonThere /\ RestoreSound)'
  BY <1>4, FilesAlone DEF finalize_block, snapVars
<1>5. CASE WriteJson
  <2>1. UNCHANGED <<history, app, meta, cache, restore>>
    BY <1>5 DEF WriteJson
  <2>2. CASE load_state = NoState
    BY <1>5, <2>1, <2>2, FilesAlone DEF WriteJson
  <2>3. CASE load_state # NoState
    <3>1. json' = With(json, app.height, load_state)
      BY <1>5, <2>3 DEF WriteJson
    <3>2. DOMAIN json' = DOMAIN json \cup {app.height}
          /\ \A h \in DOMAIN json' : json'[h] = load_state \/ (h \in DOMAIN json /\ json'[h] = json[h])
      BY <3>1 DEF With
    <3> QED BY <1>1, <2>1, <2>3, <3>2, LoadedWhole
               DEF JsonWhole, HashesWhole, JsonThere, RestoreSound
  <2> QED BY <2>2, <2>3
<1>6. CASE WriteMeta
  <2>1. UNCHANGED <<history, json, restore>> /\ stage' = "cleanup"
        /\ meta' = With(meta, app.height, Metadata) /\ cache' = With(cache, app.height, Metadata)
    BY <1>6 DEF WriteMeta
  <2>2. Whole(history, Metadata.hash)
    BY <1>1, <1>6 DEF WriteMeta, JsonThere, JsonWhole, Metadata
  <2>3. /\ \A h \in DOMAIN meta' : meta'[h] = Metadata \/ (h \in DOMAIN meta /\ meta'[h] = meta[h])
        /\ \A h \in DOMAIN cache' : cache'[h] = Metadata \/ (h \in DOMAIN cache /\ cache'[h] = cache[h])
    BY <2>1 DEF With
  <2> QED BY <1>1, <2>1, <2>2, <2>3 DEF JsonWhole, HashesWhole, JsonThere, RestoreSound
<1>7. CASE CleanupJson \/ CleanupMeta
  <2>1. UNCHANGED <<history, restore>> /\ stage' \in {"cleanup_meta", "idle"}
    BY <1>7 DEF CleanupJson, CleanupMeta
  <2>2. /\ \A h \in DOMAIN json' : h \in DOMAIN json /\ json'[h] = json[h]
        /\ \A h \in DOMAIN meta' : h \in DOMAIN meta /\ meta'[h] = meta[h]
        /\ \A h \in DOMAIN cache' : h \in DOMAIN cache /\ cache'[h] = cache[h]
    BY <1>7 DEF CleanupJson, CleanupMeta, Only
  <2> QED BY <1>1, <2>1, <2>2 DEF JsonWhole, HashesWhole, JsonThere, RestoreSound
<1>8. CASE Restart
  <2>1. UNCHANGED <<history, json, meta, restore>> /\ cache' \in {cache, meta}
        /\ stage' \in {"down", "handshake"}
    BY <1>8 DEF Restart
  <2> QED BY <1>1, <2>1 DEF JsonWhole, HashesWhole, JsonThere, RestoreSound
<1>9. ASSUME NEW h \in DOMAIN cache, offer_snapshot(cache[h])
      PROVE  (JsonWhole /\ HashesWhole /\ JsonThere /\ RestoreSound)'
  <2>1. UNCHANGED <<history, app, stage, json, meta, cache>>
        /\ restore' = [restore EXCEPT !.current = cache[h], !.received = <<>>]
    BY <1>9 DEF offer_snapshot, appVars, snapVars
  <2>2. restore' = [current |-> cache[h], received |-> <<>>, result |-> restore.result]
    BY <1>1, <2>1 DEF RestoreSound
  <2> QED BY <1>1, <2>1, <2>2 DEF JsonWhole, HashesWhole, JsonThere, RestoreSound
<1>10. ASSUME NEW i \in 0..Chunks - 1, apply_snapshot_chunk(i)
       PROVE  (JsonWhole /\ HashesWhole /\ JsonThere /\ RestoreSound)'
  <2> DEFINE received == With(restore.received, i, load_snapshot_chunk(restore.current.height))
             complete == Cardinality(DOMAIN received) = Chunks
             s == Reassembled(received)
             accepted == s # NoState /\ HashMatches(s, restore.current) /\ ~Unreadable(s)
  <2>1. UNCHANGED <<history, app, stage, json, meta, cache>> /\ restore.current # NoState
        /\ restore' = IF ~complete THEN [restore EXCEPT !.received = received]
                      ELSE [current |-> NoState, received |-> <<>>,
                            result |-> IF accepted THEN Synced(s) ELSE NoState]
    BY <1>10 DEF apply_snapshot_chunk, appVars, snapVars
  <2>2. accepted => SyncedTo(history, Synced(s))
    BY <1>1, <2>1, SyncGives DEF HashMatches, RestoreSound
  <2> HIDE DEF received, complete, s, accepted
  <2>3. CASE ~complete
    <3>1. restore' = [current |-> restore.current, received |-> received, result |-> restore.result]
      BY <1>1, <2>1, <2>3 DEF RestoreSound
    <3> QED BY <1>1, <2>1, <3>1 DEF JsonWhole, HashesWhole, JsonThere, RestoreSound
  <2>4. CASE complete
    BY <1>1, <2>1, <2>2, <2>4 DEF JsonWhole, HashesWhole, JsonThere, RestoreSound
  <2> QED BY <2>3, <2>4
<1>11. CASE Crash
  <2>1. UNCHANGED <<history, json, meta, restore>> /\ cache' = <<>> /\ stage' = "down"
    BY <1>11 DEF Crash, NoFiles
  <2> QED BY <1>1, <2>1 DEF JsonWhole, HashesWhole, JsonThere, RestoreSound
<1>12. CASE UNCHANGED vars
  BY <1>1, <1>12 DEF vars, appVars, snapVars, JsonWhole, HashesWhole, JsonThere, RestoreSound
<1> QED BY <1>2, <1>3, <1>4, <1>5, <1>6, <1>7, <1>8, <1>9, <1>10, <1>11, <1>12 DEF Next, NodeStep

\* What a new node has restored from the validator's snapshots, if CometBFT
\* accepts its hash, are the orders and balances of one block, whichever files
\* were deleted or made again between two chunks, however far the database was
\* behind, and whatever the validator had lost.
THEOREM SyncedNodesAreWhole == Spec => []SyncedIsWhole
<1>1. SInv => SyncedIsWhole
  BY DEF SInv, RestoreSound, SyncedTo, SyncedIsWhole
<1> QED BY <1>1, SnapshotInit, SnapshotStep, PTL DEF Spec

-----------------------------------------------------------------------------
(* The database implements StateStore *)

\* The initial state is one of the abstract store.
LEMMA StoreInit == Init => Store!Init
BY DEF Init, PersisterInit, EmptyDb, Store!Init, StoredState

\* Only the execution of a block changes what was executed, and only a commit
\* whose write succeeds the database.
LEMMA StoreStep ==
    VInv /\ [Next]_vars => [Store!Next]_<<executed, StoredState>>
<1> SUFFICES ASSUME VInv, [Next]_vars
             PROVE  Store!Next \/ UNCHANGED <<executed, StoredState>>
  OBVIOUS
<1>1. ASSUME NEW h, finalize_block(h) PROVE Store!Execute
  <2>1. UNCHANGED db /\ executed \subseteq executed'
    BY <1>1 DEF finalize_block
  <2> QED BY <2>1 DEF Store!Execute, StoredState
<1>2. CASE commit
  <2>1. UNCHANGED executed
    BY <1>2 DEF commit, ghostVars
  <2>2. CASE UNCHANGED db
    BY <2>1, <2>2 DEF StoredState
  <2>3. CASE pending # NoState /\ persist_state(pending)
    <3>1. app.height \in 1..Len(history) /\ db.height < app.height /\ db.height \in Nat
          /\ Stored(app) \in executed
      BY <2>3, PersistWrites DEF VInv, Types, DbRecords
    <3>2. StoredState' = Stored(app)
      BY <2>3, <3>1, PersistWrites DEF StoredState, Stored
    <3>3. Store!Height(StoredState) = db.height
      BY NoStateAssumption DEF Store!Height, StoredState, StoredStates, VInv, Types, DbRecords
    <3>4. Stored(app).height = app.height
      BY DEF Stored
    <3> QED BY <2>1, <3>1, <3>2, <3>3, <3>4 DEF Store!Next, Store!Persist, VInv, Types, AppStates
  <2> QED BY <1>2, <2>2, <2>3 DEF commit
<1>3. CASE UNCHANGED <<db, executed>>
  BY <1>3 DEF StoredState
<1>4. (\E h : finalize_block(h)) \/ commit \/ UNCHANGED <<db, executed>>
  <2>1. \A b \in Blocks : Decide(b) => UNCHANGED <<db, executed>>
    BY DEF Decide, ghostVars
  <2>2. InitChain \/ WriteJson \/ WriteMeta \/ CleanupJson \/ CleanupMeta \/ Restart
           => UNCHANGED <<db, executed>>
    BY DEF InitChain, WriteJson, WriteMeta, CleanupJson, CleanupMeta, Restart, ghostVars
  <2>3. \A h \in DOMAIN cache : offer_snapshot(cache[h]) => UNCHANGED <<db, executed>>
    BY DEF offer_snapshot, ghostVars
  <2>4. \A i \in 0..Chunks - 1 : apply_snapshot_chunk(i) => UNCHANGED <<db, executed>>
    BY DEF apply_snapshot_chunk, ghostVars
  <2>5. Crash \/ UNCHANGED vars => UNCHANGED <<db, executed>>
    BY DEF Crash, vars, ghostVars
  <2> QED BY <2>1, <2>2, <2>3, <2>4, <2>5 DEF Next, NodeStep
<1> QED BY <1>1, <1>2, <1>3, <1>4 DEF Store!Next

\* The database of a validator implements StateStore: whatever crashes and
\* failed writes happen, it goes from the whole state after one block to the
\* whole state after a later one.
THEOREM DatabaseImplementsStore == Spec => StoreRefined
BY InitSound, StepSound, StoreInit, StoreStep, PTL DEF Spec, StoreRefined, Store!Spec
-----------------------------------------------------------------------------
(***************************************************************************)
(* The indexer, for any blocks, number of candle intervals, failed         *)
(* statements and restarts.                                                *)
(*                                                                         *)
(* CandlesTrue is not inductive: that a trade is not counted twice rests   *)
(* on the row of a block being written before its events, so that a        *)
(* process which resumes after the last row is behind nothing it has       *)
(* counted.  IndexInv says where the process is in the chain and that the  *)
(* candles count, once each, only what is behind it; and while nothing has *)
(* failed, all that is behind it.                                          *)
(***************************************************************************)

Working == indexer.at \in {"row", "events", "candles", "done"}

\* Whether the process has passed interval k of the event e.
Behind(e, k) ==
    \/ e[1] <= indexer.current_height
    \/ e[1] = Height /\ indexer.at = "done"
    \/ e[1] = Height /\ indexer.at \in {"events", "candles"} /\ e[2] < indexer.event
    \/ e[1] = Height /\ indexer.at = "candles" /\ e[2] = indexer.event /\ k < indexer.interval

IndexerType ==
    /\ committed \in Seq(Seq(STRING))
    /\ faults \in Nat
    /\ indexer \in [at : {"start", "run", "row", "events", "candles", "done"},
                    current_height : Nat, target : Nat, event : Nat, interval : Nat]

PlaceInv ==
    /\ Working => indexer.current_height < indexer.target /\ indexer.target <= Len(committed)
    /\ indexer.at = "row" => indexer.event = 1
    /\ indexer.at = "candles" => /\ indexer.event <= Len(committed[Height])
                                 /\ indexer.interval <= INTERVALS

\* The rows are those of the first so many blocks.
RowsInv(n) ==
    /\ n \in Nat /\ n <= Len(committed) /\ blocks = 1..n
    /\ indexer.at \in {"run", "row"} => n = indexer.current_height
    /\ indexer.at \in {"events", "candles", "done"} => n = Height
    /\ indexer.at = "start" /\ faults = 0 =>
          \A e \in Takers, k \in 1..INTERVALS : e[1] <= n => <<e, k>> \in DOMAIN candles
    /\ \A x \in DOMAIN candles : x[1][1] <= n

CandlesInv ==
    /\ DOMAIN candles \subseteq (Nat \X Nat) \X Nat
    /\ \A x \in DOMAIN candles :
          candles[x] = 1 /\ (indexer.at # "start" => Behind(x[1], x[2]))
    /\ indexer.at = "start" => indexer.current_height = 0
    /\ indexer.at # "start" /\ faults = 0 =>
          \A e \in Takers, k \in 1..INTERVALS : Behind(e, k) => <<e, k>> \in DOMAIN candles

IndexInv == IndexerType /\ PlaceInv /\ (\E n : RowsInv(n)) /\ CandlesInv

\* The process resumes after the last row.
LEMMA LatestHeight ==
    ASSUME NEW n \in Nat, blocks = 1..n
    PROVE  get_latest_height = n
  <1>1. CASE n = 0
    BY <1>1 DEF get_latest_height
  <1>2. CASE n # 0
    <2>1. n \in blocks /\ \A y \in blocks : n >= y
      BY <1>2
    <2>2. \A x \in blocks : (\A y \in blocks : x >= y) => x = n
      BY <2>1
    <2>3. Max(blocks) = n
      BY <2>1, <2>2 DEF Max
    <2>4. QED
      BY <1>2, <2>3 DEF get_latest_height
  <1>3. QED
    BY <1>1, <1>2

\* What is an event, and which ones count.
LEMMA EventsAre ==
    ASSUME committed \in Seq(Seq(STRING))
    PROVE  /\ Events \subseteq Nat \X Nat
           /\ \A e \in Events : e[1] \in 1..Len(committed) /\ e[2] \in 1..Len(committed[e[1]])
           /\ \A h \in 1..Len(committed) : \A i \in 1..Len(committed[h]) : <<h, i>> \in Events
  <1>1. DOMAIN committed = 1..Len(committed)
        /\ \A h \in DOMAIN committed : DOMAIN committed[h] = 1..Len(committed[h])
                                       /\ Len(committed[h]) \in Nat
    OBVIOUS
  <1>2. ASSUME NEW e \in Events
        PROVE  \E h \in DOMAIN committed : \E i \in DOMAIN committed[h] : e = <<h, i>>
    BY DEF Events
  <1>3. Len(committed) \in Nat
    OBVIOUS
  <1>4. \A e \in Events : /\ e \in Nat \X Nat /\ e[1] \in 1..Len(committed)
                          /\ e[2] \in 1..Len(committed[e[1]])
    BY <1>1, <1>2, <1>3
  <1>5. ASSUME NEW h \in 1..Len(committed), NEW i \in 1..Len(committed[h])
        PROVE  <<h, i>> \in Events
    BY <1>1 DEF Events
  <1>6. QED
    BY <1>4, <1>5

\* The invariant holds at the start.
LEMMA IndexInvInit == ReadersInit => IndexInv
  <1>1. SUFFICES ASSUME ReadersInit PROVE IndexInv
    OBVIOUS
  <1>2. /\ committed = <<>> /\ blocks = {} /\ candles = <<>> /\ faults = 0
        /\ indexer = [at |-> "start", current_height |-> 0, target |-> 0, event |-> 0,
                      interval |-> 0]
    BY <1>1 DEF ReadersInit, FeedInit, IndexerInit, Start
  <1>3. IndexerType /\ PlaceInv
    BY <1>2 DEF IndexerType, PlaceInv, Working
  <1>4. DOMAIN candles = {}
    BY <1>2
  <1>5. RowsInv(0)
    <2>1. \A e \in Takers : ~(e[1] <= 0)
      BY <1>3, EventsAre DEF IndexerType, Takers
    <2>2. QED
      BY <1>2, <1>4, <2>1 DEF RowsInv
  <1>6. CandlesInv
    BY <1>2, <1>4 DEF CandlesInv
  <1>7. QED
    BY <1>3, <1>5, <1>6 DEF IndexInv

\* A new block is not behind the process.
LEMMA CommitKeepsIndex ==
    ASSUME IndexInv, NEW block \in EventBlocks, committed' = Append(committed, block),
           UNCHANGED indexerVars
    PROVE  IndexInv'
  <1>1. /\ committed \in Seq(Seq(STRING)) /\ block \in Seq(STRING)
        /\ UNCHANGED <<blocks, tables, candles, indexer, faults>>
    BY ReadersAssumption DEF IndexInv, IndexerType, indexerVars, tableVars
  <1>2. /\ committed' \in Seq(Seq(STRING)) /\ Len(committed') = Len(committed) + 1
        /\ Len(committed) \in Nat
        /\ \A h \in 1..Len(committed) : committed'[h] = committed[h]
    BY <1>1
  <1>3. IndexerType'
    BY <1>1, <1>2 DEF IndexInv, IndexerType
  <1>4. Working => Height \in 1..Len(committed) /\ Height \in Nat
    BY <1>2 DEF IndexInv, IndexerType, PlaceInv, Height
  <1>5. PlaceInv'
    BY <1>1, <1>2, <1>4 DEF IndexInv, IndexerType, PlaceInv, Working, Height
  <1>6. PICK n : RowsInv(n)
    BY DEF IndexInv
  <1>8. n \in Nat /\ n <= Len(committed)
    BY <1>6 DEF RowsInv
  <1>12. ASSUME NEW e \in Takers', e[1] <= n PROVE e \in Takers
    <2>1. /\ e \in Nat \X Nat /\ e[1] \in 1..Len(committed') /\ e[2] \in 1..Len(committed'[e[1]])
          /\ Kind(e)' = "taker"
      BY <1>2, <1>12, EventsAre DEF Takers, Events
    <2>2. e[1] <= n
      BY <1>12
    <2>3. e[1] \in 1..Len(committed) /\ e = <<e[1], e[2]>>
      BY <1>2, <1>8, <2>1, <2>2
    <2>4. e \in Events
      BY <1>1, <1>2, <2>1, <2>3, EventsAre
    <2>5. QED
      BY <1>2, <2>1, <2>3, <2>4 DEF Takers, Kind
  <1>7. RowsInv(n)'
    BY <1>1, <1>2, <1>6, <1>12 DEF RowsInv, Height
  <1>9. ASSUME NEW e \in Takers', NEW k \in 1..INTERVALS, indexer.at # "start", Behind(e, k)
        PROVE  e \in Takers
    <2>1. e \in Nat \X Nat
      BY <1>2, EventsAre DEF Takers, Events
    <2>2. e[1] <= n
      BY <1>6, <1>8, <1>9, <2>1, SMTT(40) DEF Behind, RowsInv, Height, IndexInv, IndexerType
    <2>3. QED
      BY <1>12, <2>2
  <1>10. CandlesInv'
    BY <1>1, <1>9 DEF IndexInv, CandlesInv, Behind, Height
  <1>11. QED
    BY <1>3, <1>5, <1>7, <1>10 DEF IndexInv

\* What the lemmas on the indexer's steps have in common: the chain stays, and
\* the type and the place of the process are seen from its step.
LEMMA IndexFacts ==
    ASSUME IndexInv
    PROVE  /\ committed \in Seq(Seq(STRING)) /\ Len(committed) \in Nat /\ faults \in Nat
           /\ indexer.current_height \in Nat /\ indexer.target \in Nat
           /\ indexer.event \in Nat /\ indexer.interval \in Nat
           /\ Height \in Nat /\ Height = indexer.current_height + 1
           /\ Working => Height \in 1..Len(committed) /\ Len(committed[Height]) \in Nat
           /\ \A e \in Takers : e \in Nat \X Nat /\ e[1] \in 1..Len(committed)
                                /\ e[2] \in 1..Len(committed[e[1]])
  <1>1. /\ committed \in Seq(Seq(STRING)) /\ Len(committed) \in Nat /\ faults \in Nat
        /\ indexer.current_height \in Nat /\ indexer.target \in Nat
        /\ indexer.event \in Nat /\ indexer.interval \in Nat
    BY DEF IndexInv, IndexerType
  <1>2. Height \in Nat /\ Height = indexer.current_height + 1
    BY <1>1 DEF Height
  <1>3. Working => Height \in 1..Len(committed)
    BY <1>1, <1>2 DEF IndexInv, PlaceInv
  <1>4. \A h \in 1..Len(committed) : Len(committed[h]) \in Nat
    BY <1>1
  <1>5. \A e \in Takers : e \in Nat \X Nat /\ e[1] \in 1..Len(committed)
                          /\ e[2] \in 1..Len(committed[e[1]])
    BY <1>1, EventsAre DEF Takers
  <1>6. QED
    BY <1>1, <1>2, <1>3, <1>4, <1>5

\* The process starts, after the last row.
LEMMA NewKeepsIndex == ASSUME IndexInv, New PROVE IndexInv'
  <1>1. PICK n : RowsInv(n)
    BY DEF IndexInv
  <1>2. n \in Nat /\ n <= Len(committed) /\ blocks = 1..n /\ \A x \in DOMAIN candles : x[1][1] <= n
    BY <1>1 DEF RowsInv
  <1>3. /\ indexer.at = "start"
        /\ indexer' = [at |-> "run", current_height |-> n, target |-> 0, event |-> 0,
                       interval |-> 0]
        /\ UNCHANGED <<committed, blocks, tables, candles, faults>>
    BY <1>2, LatestHeight DEF New, Start, tableVars
  <1>4. IndexerType' /\ PlaceInv'
    BY <1>2, <1>3 DEF IndexInv, IndexerType, PlaceInv, Working
  <1>5. RowsInv(n)'
    BY <1>2, <1>3 DEF RowsInv
  <1>6. \A x \in DOMAIN candles : Behind(x[1], x[2])'
    BY <1>2, <1>3 DEF Behind
  <1>7. ASSUME faults = 0, NEW e \in Takers, NEW k \in 1..INTERVALS, Behind(e, k)'
        PROVE  <<e, k>> \in DOMAIN candles
    <2>1. e[1] <= n
      BY <1>3, <1>7 DEF Behind
    <2>2. QED
      BY <1>1, <1>3, <1>7, <2>1 DEF RowsInv
  <1>8. Takers' = Takers
    BY <1>3 DEF Takers, Events, Kind
  <1>9. CandlesInv'
    BY <1>3, <1>6, <1>7, <1>8 DEF IndexInv, CandlesInv
  <1>10. QED
    BY <1>4, <1>5, <1>9 DEF IndexInv

\* The candles stay, and the process passes nothing that they should count.
LEMMA CandlesKept ==
    ASSUME IndexInv, UNCHANGED <<candles, committed>>, indexer.at # "start", indexer'.at # "start",
           faults' = 0 => faults = 0,
           \A e \in Nat \X Nat, k \in Nat : Behind(e, k) => Behind(e, k)',
           faults' = 0 => \A e \in Takers, k \in 1..INTERVALS : Behind(e, k)' => Behind(e, k)
    PROVE  CandlesInv'
  <1>1. Takers' = Takers
    BY DEF Takers, Events, Kind
  <1>2. \A x \in DOMAIN candles : x[1] \in Nat \X Nat /\ x[2] \in Nat
    BY DEF IndexInv, CandlesInv
  <1>3. \A x \in DOMAIN candles : candles[x] = 1 /\ Behind(x[1], x[2])'
    BY <1>2 DEF IndexInv, CandlesInv
  <1>4. faults' = 0 => \A e \in Takers, k \in 1..INTERVALS : Behind(e, k)' => <<e, k>> \in DOMAIN candles
    BY DEF IndexInv, CandlesInv
  <1>5. DOMAIN candles \subseteq (Nat \X Nat) \X Nat
    BY DEF IndexInv, CandlesInv
  <1>6. QED
    BY <1>1, <1>3, <1>4, <1>5 DEF CandlesInv

\* The rows stay.
LEMMA RowsKept ==
    ASSUME IndexInv, UNCHANGED <<candles, committed, blocks>>, indexer.at # "start",
           indexer'.at # "start",
           \A n \in Nat : (indexer.at \in {"run", "row"} => n = indexer.current_height)
                          /\ (indexer.at \in {"events", "candles", "done"} => n = Height)
                     => (indexer'.at \in {"run", "row"} => n = indexer'.current_height)
                        /\ (indexer'.at \in {"events", "candles", "done"} => n = Height')
    PROVE  \E n : RowsInv(n)'
  <1>1. PICK n : RowsInv(n)
    BY DEF IndexInv
  <1>2. RowsInv(n)'
    BY <1>1 DEF RowsInv
  <1>3. QED
    BY <1>2

\* A round of blocks begins.
LEMMA RunKeepsIndex == ASSUME IndexInv, run PROVE IndexInv'
  <1>1. /\ indexer.at = "run" /\ Len(committed) > indexer.current_height
        /\ UNCHANGED <<committed, blocks, tables, candles, faults>>
        /\ indexer' = [[indexer EXCEPT !.at = "row", !.event = 1] EXCEPT !.target = Len(committed)]
    BY DEF run, Indexing, NextStage, tableVars
  <1>2. indexer \in [at : {"start", "run", "row", "events", "candles", "done"},
                     current_height : Nat, target : Nat, event : Nat, interval : Nat]
    BY DEF IndexInv, IndexerType
  <1>3. /\ indexer'.at = "row" /\ indexer'.current_height = indexer.current_height
        /\ indexer'.target = Len(committed) /\ indexer'.event = 1
    BY <1>1, <1>2
  <1>4. IndexerType' /\ PlaceInv'
    <2>1. Len(committed) \in Nat /\ faults \in Nat /\ committed \in Seq(Seq(STRING))
      BY IndexFacts
    <2>2. IndexerType'
      BY <1>1, <1>2, <2>1 DEF IndexerType
    <2>3. PlaceInv'
      BY <1>1, <1>3, <2>1 DEF PlaceInv, Working
    <2>4. QED
      BY <2>2, <2>3
  <1>5. \E n : RowsInv(n)'
    BY <1>1, <1>3, RowsKept
  <1>6. \A e, k : Behind(e, k)' <=> Behind(e, k)
    BY <1>1, <1>3 DEF Behind
  <1>7. CandlesInv'
    BY <1>1, <1>3, <1>6, CandlesKept
  <1>8. QED
    BY <1>4, <1>5, <1>7 DEF IndexInv

\* The row of the block is written.
LEMMA RowKeepsIndex == ASSUME IndexInv, insert_block PROVE IndexInv'
  <1>1. /\ indexer.at = "row" /\ blocks' = blocks \cup {Height}
        /\ UNCHANGED <<committed, tables, candles, faults>>
        /\ indexer' = [indexer EXCEPT !.at = "events"]
    BY DEF insert_block, NextStage
  <1>2. indexer \in [at : {"start", "run", "row", "events", "candles", "done"},
                     current_height : Nat, target : Nat, event : Nat, interval : Nat]
    BY DEF IndexInv, IndexerType
  <1>3. /\ indexer'.at = "events" /\ indexer'.current_height = indexer.current_height
        /\ indexer'.target = indexer.target /\ indexer'.event = indexer.event
        /\ indexer.event = 1
    BY <1>1, <1>2 DEF IndexInv, PlaceInv
  <1>4. IndexerType' /\ PlaceInv'
    BY <1>1, <1>2, <1>3 DEF IndexInv, IndexerType, PlaceInv, Working
  <1>5. PICK n : RowsInv(n)
    BY DEF IndexInv
  <1>6. n = indexer.current_height /\ blocks = 1..n /\ \A x \in DOMAIN candles : x[1][1] <= n
    BY <1>1, <1>5 DEF RowsInv
  <1>7. Height' = Height /\ Height = n + 1 /\ Height \in 1..Len(committed) /\ n \in Nat
        /\ Len(committed) \in Nat
    BY <1>1, <1>3, <1>6, IndexFacts DEF Height, Working
  <1>8. RowsInv(n + 1)'
    <2>1. blocks' = 1..(n + 1)
      BY <1>1, <1>6, <1>7
    <2>2. \A x \in DOMAIN candles : x[1][1] <= n + 1
      <3>1. \A x \in DOMAIN candles : x[1][1] \in Nat
        BY DEF IndexInv, CandlesInv
      <3>2. QED
        BY <1>6, <1>7, <3>1
    <2>3. QED
      BY <1>1, <1>3, <1>7, <2>1, <2>2 DEF RowsInv
  <1>9. \A e, k : Behind(e, k) => Behind(e, k)'
    BY <1>1, <1>3 DEF Behind
  <1>10. ASSUME NEW e \in Takers, NEW k, Behind(e, k)' PROVE Behind(e, k)
    <2>1. e[2] \in Nat \ {0}
      BY <1>7, IndexFacts
    <2>2. QED
      BY <1>1, <1>3, <1>7, <1>10, <2>1 DEF Behind
  <1>11. CandlesInv'
    BY <1>1, <1>3, <1>9, <1>10, CandlesKept
  <1>12. QED
    BY <1>4, <1>8, <1>11 DEF IndexInv

\* The process goes to the next event.
LEMMA SkipPlace ==
    ASSUME IndexInv, indexer.at \in {"events", "candles"}, Skip, UNCHANGED <<committed, blocks>>,
           faults' \in Nat
    PROVE  /\ IndexerType' /\ PlaceInv' /\ Height' = Height
           /\ indexer'.at = "events" /\ indexer'.current_height = indexer.current_height
           /\ indexer'.event = indexer.event + 1
           /\ \A e \in Nat \X Nat, k \in Nat : Behind(e, k) => Behind(e, k)'
           /\ \A e \in Nat \X Nat, k \in Nat :
                 Behind(e, k)' => Behind(e, k) \/ (e[1] = Height /\ e[2] = indexer.event)
  <1>1. indexer \in [at : {"start", "run", "row", "events", "candles", "done"},
                     current_height : Nat, target : Nat, event : Nat, interval : Nat]
    BY DEF IndexInv, IndexerType
  <1>2. /\ indexer'.at = "events" /\ indexer'.current_height = indexer.current_height
        /\ indexer'.target = indexer.target /\ indexer'.event = indexer.event + 1
        /\ indexer.event \in Nat
    BY <1>1 DEF Skip
  <1>3. IndexerType' /\ PlaceInv'
    <2>1. IndexerType'
      <3>1. PICK i : i = indexer.event + 1 /\ i \in Nat
        BY <1>1
      <3>2. indexer' = [indexer EXCEPT !.at = "events", !.event = i]
        BY <3>1 DEF Skip
      <3>3. indexer' \in [at : {"start", "run", "row", "events", "candles", "done"},
                          current_height : Nat, target : Nat, event : Nat, interval : Nat]
        BY <1>1, <3>1, <3>2
      <3>4. QED
        BY <3>3 DEF IndexInv, IndexerType
    <2>2. PlaceInv'
      BY <1>2 DEF IndexInv, PlaceInv, Working
    <2>3. QED
      BY <2>1, <2>2
  <1>4. Height' = Height
    BY <1>2 DEF Height
  <1>5. \A e \in Nat \X Nat, k \in Nat : Behind(e, k) => Behind(e, k)'
    BY <1>2, <1>4 DEF Behind
  <1>6. \A e \in Nat \X Nat, k \in Nat :
           Behind(e, k)' => Behind(e, k) \/ (e[1] = Height /\ e[2] = indexer.event)
    BY <1>2, <1>4 DEF Behind
  <1>7. QED
    BY <1>2, <1>3, <1>4, <1>5, <1>6

\* An event is written; a taker's fill goes on to the candles.
LEMMA ProcessKeepsIndex == ASSUME IndexInv, process_event PROVE IndexInv'
  <1>1. /\ indexer.at = "events" /\ indexer.event <= Len(committed[Height])
        /\ UNCHANGED <<committed, blocks, candles, faults>>
    BY DEF process_event, AtEvent
  <1>2. faults \in Nat
    BY IndexFacts
  <1>3. CASE Kind(Event) = "taker"
    <2>1. indexer' = [indexer EXCEPT !.at = "candles", !.interval = 1]
      BY <1>3 DEF process_event
    <2>2. indexer \in [at : {"start", "run", "row", "events", "candles", "done"},
                       current_height : Nat, target : Nat, event : Nat, interval : Nat]
      BY DEF IndexInv, IndexerType
    <2>3. /\ indexer'.at = "candles" /\ indexer'.current_height = indexer.current_height
          /\ indexer'.target = indexer.target /\ indexer'.event = indexer.event
          /\ indexer'.interval = 1
      BY <2>1, <2>2
    <2>4. Height' = Height
      BY <2>3 DEF Height
    <2>5. IndexerType' /\ PlaceInv'
      <3>1. IndexerType'
        BY <1>1, <2>1, <2>2 DEF IndexInv, IndexerType
      <3>2. PlaceInv'
        BY <1>1, <2>3, <2>4, IndexerAssumption DEF IndexInv, PlaceInv, Working
      <3>3. QED
        BY <3>1, <3>2
    <2>6. \E n : RowsInv(n)'
      BY <1>1, <2>3, <2>4, RowsKept
    <2>7. \A e, k : Behind(e, k) => Behind(e, k)'
      BY <1>1, <2>3, <2>4 DEF Behind
    <2>8. \A e : \A k \in 1..INTERVALS : Behind(e, k)' => Behind(e, k)
      BY <1>1, <2>3, <2>4, IndexerAssumption DEF Behind
    <2>9. CandlesInv'
      BY <1>1, <2>3, <2>7, <2>8, CandlesKept
    <2>10. QED
      BY <2>5, <2>6, <2>9 DEF IndexInv
  <1>4. CASE Kind(Event) # "taker"
    <2>1. Skip
      BY <1>4 DEF process_event
    <2>2. /\ IndexerType' /\ PlaceInv' /\ Height' = Height
          /\ indexer'.at = "events" /\ indexer'.current_height = indexer.current_height
          /\ \A e \in Nat \X Nat, k \in Nat : Behind(e, k) => Behind(e, k)'
          /\ \A e \in Nat \X Nat, k \in Nat :
                 Behind(e, k)' => Behind(e, k) \/ (e[1] = Height /\ e[2] = indexer.event)
      BY <1>1, <1>2, <2>1, SkipPlace
    <2>3. \E n : RowsInv(n)'
      BY <1>1, <2>2, RowsKept
    <2>4. ASSUME NEW e \in Takers, NEW k \in 1..INTERVALS, Behind(e, k)' PROVE Behind(e, k)
      <3>1. e \in Nat \X Nat /\ k \in Nat
        BY IndexFacts, IndexerAssumption
      <3>2. e # Event
        BY <1>4 DEF Takers
      <3>3. e = <<e[1], e[2]>>
        BY <3>1
      <3>4. QED
        BY <2>2, <2>4, <3>1, <3>2, <3>3 DEF Event
    <2>5. CandlesInv'
      BY <1>1, <2>2, <2>4, CandlesKept
    <2>6. QED
      BY <2>2, <2>3, <2>5 DEF IndexInv
  <1>5. QED
    BY <1>3, <1>4

\* An event is given up.
LEMMA EventFailsKeepsIndex == ASSUME IndexInv, EventFails PROVE IndexInv'
  <1>1. /\ indexer.at \in {"events", "candles"} /\ Skip /\ faults' = faults + 1
        /\ UNCHANGED <<committed, blocks, candles>>
    BY DEF EventFails, Fault, AtEvent, tableVars
  <1>2. faults \in Nat /\ faults' \in Nat /\ faults' # 0
    BY <1>1, IndexFacts
  <1>3. /\ IndexerType' /\ PlaceInv' /\ Height' = Height
        /\ indexer'.at = "events" /\ indexer'.current_height = indexer.current_height
        /\ \A e \in Nat \X Nat, k \in Nat : Behind(e, k) => Behind(e, k)'
    BY <1>1, <1>2, SkipPlace
  <1>4. \E n : RowsInv(n)'
    BY <1>1, <1>3, RowsKept
  <1>5. CandlesInv'
    BY <1>1, <1>2, <1>3, CandlesKept
  <1>6. QED
    BY <1>3, <1>4, <1>5 DEF IndexInv

\* A candle counts the fill.
LEMMA CandleKeepsIndex == ASSUME IndexInv, update_from_fill PROVE IndexInv'
  <1>1. PICK x : x = <<Event, indexer.interval>>
    OBVIOUS
  <1>2. /\ indexer.at = "candles" /\ UNCHANGED <<committed, blocks, faults>>
        /\ IF indexer.interval < INTERVALS
           THEN indexer' = [indexer EXCEPT !.interval = @ + 1] ELSE Skip
    BY DEF update_from_fill
  <1>3. /\ indexer.event \in Nat /\ indexer.interval \in Nat /\ faults \in Nat
        /\ Height \in Nat /\ Height \in 1..Len(committed) /\ Height = indexer.current_height + 1
        /\ indexer.current_height \in Nat
    BY <1>2, IndexFacts DEF Working
  <1>4. x \in (Nat \X Nat) \X Nat /\ x[1] = Event /\ x[2] = indexer.interval
        /\ x[1][1] = Height /\ x[1][2] = indexer.event
    BY <1>1, <1>3 DEF Event
  <1>5. ~Behind(x[1], x[2])
    BY <1>2, <1>3, <1>4 DEF Behind
  <1>6. x \notin DOMAIN candles
    BY <1>2, <1>5 DEF IndexInv, CandlesInv
  <1>7. DOMAIN candles' = DOMAIN candles \cup {x} /\ candles'[x] = 1
        /\ \A y \in DOMAIN candles : candles'[y] = candles[y]
    BY <1>1, <1>6 DEF update_from_fill, upsert_candle, Counted
  <1>8. indexer \in [at : {"start", "run", "row", "events", "candles", "done"},
                     current_height : Nat, target : Nat, event : Nat, interval : Nat]
    BY DEF IndexInv, IndexerType
  \* The process passes this candle and no other one.
  <1>9. /\ IndexerType' /\ PlaceInv' /\ Height' = Height
        /\ indexer'.at \in {"events", "candles"}
        /\ indexer'.current_height = indexer.current_height
        /\ \A e \in Nat \X Nat, k \in Nat : Behind(e, k) => Behind(e, k)'
        /\ Behind(x[1], x[2])'
        /\ \A e \in Nat \X Nat, k \in 1..INTERVALS :
              Behind(e, k)' => Behind(e, k) \/ <<e, k>> = x
    <2>1. CASE indexer.interval < INTERVALS
      <3>1. /\ indexer'.at = "candles" /\ indexer'.current_height = indexer.current_height
            /\ indexer'.target = indexer.target /\ indexer'.event = indexer.event
            /\ indexer'.interval = indexer.interval + 1
            /\ indexer' = [indexer EXCEPT !.interval = @ + 1]
        BY <1>2, <1>8, <2>1
      <3>2. Height' = Height
        BY <3>1 DEF Height
      <3>3. IndexerType'
        BY <1>2, <1>8, <3>1, SMTT(40) DEF IndexInv, IndexerType
      <3>4. PlaceInv'
        BY <1>2, <1>3, <2>1, <3>1, <3>2, IndexerAssumption DEF IndexInv, PlaceInv, Working
      <3>5. \A e \in Nat \X Nat, k \in Nat : Behind(e, k) => Behind(e, k)'
        BY <1>2, <1>3, <3>1, <3>2 DEF Behind
      <3>6. Behind(x[1], x[2])'
        BY <1>3, <1>4, <3>1, <3>2 DEF Behind
      <3>7. ASSUME NEW e \in Nat \X Nat, NEW k \in 1..INTERVALS, Behind(e, k)', ~Behind(e, k)
            PROVE  <<e, k>> = x
        <4>1. e[1] = Height /\ e[2] = indexer.event /\ k = indexer.interval
          BY <1>2, <1>3, <3>1, <3>2, <3>7, IndexerAssumption DEF Behind
        <4>2. e = Event
          BY <4>1 DEF Event
        <4>3. QED
          BY <1>1, <4>1, <4>2
      <3>8. QED
        BY <3>1, <3>2, <3>3, <3>4, <3>5, <3>6, <3>7
    <2>2. CASE ~(indexer.interval < INTERVALS)
      <3>1. Skip /\ faults' \in Nat /\ indexer.interval = INTERVALS
        BY <1>2, <1>3, <2>2, IndexerAssumption DEF IndexInv, PlaceInv
      <3>2. /\ IndexerType' /\ PlaceInv' /\ Height' = Height
            /\ indexer'.at = "events" /\ indexer'.current_height = indexer.current_height
            /\ indexer'.event = indexer.event + 1
            /\ \A e \in Nat \X Nat, k \in Nat : Behind(e, k) => Behind(e, k)'
            /\ \A e \in Nat \X Nat, k \in Nat :
                 Behind(e, k)' => Behind(e, k) \/ (e[1] = Height /\ e[2] = indexer.event)
        BY <1>2, <3>1, SkipPlace
      <3>3. Behind(x[1], x[2])'
        BY <1>3, <1>4, <3>2 DEF Behind
      <3>4. ASSUME NEW e \in Nat \X Nat, NEW k \in 1..INTERVALS, Behind(e, k)', ~Behind(e, k)
            PROVE  <<e, k>> = x
        <4>1. e[1] = Height /\ e[2] = indexer.event /\ k \in Nat /\ k <= indexer.interval
          BY <3>1, <3>2, <3>4, IndexerAssumption
        <4>2. k = indexer.interval
          BY <1>2, <1>3, <3>4, <4>1 DEF Behind
        <4>3. e = Event
          BY <4>1 DEF Event
        <4>4. QED
          BY <1>1, <4>2, <4>3
      <3>5. QED
        BY <3>2, <3>3, <3>4
    <2>3. QED
      BY <2>1, <2>2
  <1>10. PICK n : RowsInv(n)
    BY DEF IndexInv
  <1>11. RowsInv(n)'
    <2>1. n = Height /\ n \in Nat
      BY <1>2, <1>10, <1>3 DEF RowsInv
    <2>2. \A y \in DOMAIN candles' : y[1][1] <= n
      BY <1>4, <1>7, <1>10, <2>1 DEF RowsInv
    <2>3. QED
      BY <1>2, <1>9, <1>10, <2>1, <2>2 DEF RowsInv
  <1>12. CandlesInv'
    <2>1. Takers' = Takers
      BY <1>2 DEF Takers, Events, Kind
    <2>2. DOMAIN candles' \subseteq (Nat \X Nat) \X Nat
      BY <1>4, <1>7 DEF IndexInv, CandlesInv
    <2>3. \A y \in DOMAIN candles : y[1] \in Nat \X Nat /\ y[2] \in Nat
      BY DEF IndexInv, CandlesInv
    <2>4. \A y \in DOMAIN candles : candles[y] = 1 /\ Behind(y[1], y[2])'
      BY <1>2, <1>9, <2>3 DEF IndexInv, CandlesInv
    <2>5. \A y \in DOMAIN candles' : candles'[y] = 1 /\ Behind(y[1], y[2])'
      BY <1>7, <1>9, <2>4
    <2>6. ASSUME faults' = 0, NEW e \in Takers, NEW k \in 1..INTERVALS, Behind(e, k)'
          PROVE  <<e, k>> \in DOMAIN candles'
      <3>1. e \in Nat \X Nat
        BY IndexFacts
      <3>2. Behind(e, k) \/ <<e, k>> = x
        BY <1>9, <2>6, <3>1
      <3>3. Behind(e, k) => <<e, k>> \in DOMAIN candles
        BY <1>2, <2>6 DEF IndexInv, CandlesInv
      <3>4. QED
        BY <1>7, <3>2, <3>3
    <2>7. QED
      BY <1>9, <2>1, <2>2, <2>5, <2>6 DEF CandlesInv
  <1>13. QED
    BY <1>9, <1>11, <1>12 DEF IndexInv

\* All events of the block have been gone through.
LEMMA EventsDoneKeepsIndex == ASSUME IndexInv, EventsDone PROVE IndexInv'
  <1>1. /\ indexer.at = "events" /\ indexer.event > Len(committed[Height])
        /\ UNCHANGED <<committed, blocks, candles, faults>>
        /\ indexer' = [indexer EXCEPT !.at = "done"]
    BY DEF EventsDone, NextStage, tableVars
  <1>2. indexer \in [at : {"start", "run", "row", "events", "candles", "done"},
                     current_height : Nat, target : Nat, event : Nat, interval : Nat]
    BY DEF IndexInv, IndexerType
  <1>3. /\ indexer'.at = "done" /\ indexer'.current_height = indexer.current_height
        /\ indexer'.target = indexer.target
    BY <1>1, <1>2
  <1>4. Height' = Height
    BY <1>3 DEF Height
  <1>5. IndexerType'
    BY <1>1, <1>2 DEF IndexInv, IndexerType
  <1>6. PlaceInv'
    BY <1>1, <1>3, <1>4 DEF IndexInv, PlaceInv, Working
  <1>7. \E n : RowsInv(n)'
    BY <1>1, <1>3, <1>4, RowsKept
  <1>8. \A e, k : Behind(e, k) => Behind(e, k)'
    BY <1>1, <1>3, <1>4 DEF Behind
  <1>9. ASSUME NEW e \in Takers, NEW k, Behind(e, k)' PROVE Behind(e, k)
    <2>1. e[2] \in Nat /\ e[2] <= Len(committed[e[1]]) /\ indexer.event \in Nat
          /\ (e[1] = Height => Len(committed[e[1]]) \in Nat)
      BY <1>1, IndexFacts, SMTT(40) DEF Working
    <2>2. e[1] = Height => e[2] < indexer.event
      BY <1>1, <2>1
    <2>3. QED
      BY <1>1, <1>3, <1>4, <1>9, <2>2 DEF Behind
  <1>10. CandlesInv'
    BY <1>1, <1>3, <1>8, <1>9, CandlesKept
  <1>11. QED
    BY <1>5, <1>6, <1>7, <1>10 DEF IndexInv

\* The block is left behind.
LEMMA BlockDoneKeepsIndex == ASSUME IndexInv, BlockDone PROVE IndexInv'
  <1>1. /\ indexer.at = "done" /\ UNCHANGED <<committed, blocks, candles, faults>>
        /\ indexer' = IF Height < indexer.target
                      THEN [[indexer EXCEPT !.at = "row", !.event = 1] EXCEPT !.current_height = Height]
                      ELSE [indexer EXCEPT !.current_height = Height, !.at = "run"]
    BY DEF BlockDone, Indexing, NextStage, tableVars
  <1>2. indexer \in [at : {"start", "run", "row", "events", "candles", "done"},
                     current_height : Nat, target : Nat, event : Nat, interval : Nat]
    BY DEF IndexInv, IndexerType
  <1>3. Height \in Nat /\ Height = indexer.current_height + 1 /\ indexer.current_height \in Nat
    BY IndexFacts
  <1>4. /\ indexer'.at \in {"row", "run"} /\ indexer'.current_height = Height
        /\ indexer'.target = indexer.target
        /\ indexer'.at = "row" => Height < indexer.target /\ indexer'.event = 1
    BY <1>1, <1>2
  <1>5. IndexerType'
    <2>1. indexer' \in [at : {"start", "run", "row", "events", "candles", "done"},
                        current_height : Nat, target : Nat, event : Nat, interval : Nat]
      <3>1. CASE Height < indexer.target
        BY <1>1, <1>2, <1>3, <3>1
      <3>2. CASE ~(Height < indexer.target)
        BY <1>1, <1>2, <1>3, <3>2
      <3>3. QED
        BY <3>1, <3>2
    <2>2. QED
      BY <1>1, <2>1 DEF IndexInv, IndexerType
  <1>6. PlaceInv'
    BY <1>1, <1>4 DEF IndexInv, PlaceInv, Working
  <1>7. \E n : RowsInv(n)'
    BY <1>1, <1>4, RowsKept
  <1>8. \A e \in Nat \X Nat, k \in Nat : Behind(e, k) => Behind(e, k)'
    BY <1>1, <1>3, <1>4 DEF Behind
  <1>9. ASSUME NEW e \in Takers, NEW k, Behind(e, k)' PROVE Behind(e, k)
    <2>1. e[1] \in Nat
      BY IndexFacts
    <2>2. e[1] <= Height
      BY <1>4, <1>9 DEF Behind
    <2>3. e[1] <= indexer.current_height \/ e[1] = Height
      BY <1>3, <2>1, <2>2
    <2>4. QED
      BY <1>1, <2>3 DEF Behind
  <1>10. CandlesInv'
    BY <1>1, <1>4, <1>8, <1>9, CandlesKept
  <1>11. QED
    BY <1>5, <1>6, <1>7, <1>10 DEF IndexInv

\* The process dies.
LEMMA DieKeepsIndex == ASSUME IndexInv, Die PROVE IndexInv'
  <1>1. /\ indexer' = [at |-> "start", current_height |-> 0, target |-> 0, event |-> 0,
                       interval |-> 0]
        /\ faults' = faults + 1 /\ UNCHANGED <<committed, blocks, candles>>
    BY DEF Die, Fault, Start, tableVars
  <1>2. faults \in Nat /\ faults' \in Nat /\ faults' # 0
    BY <1>1, IndexFacts
  <1>3. IndexerType' /\ PlaceInv'
    BY <1>1, <1>2 DEF IndexInv, IndexerType, PlaceInv, Working
  <1>4. PICK n : RowsInv(n)
    BY DEF IndexInv
  <1>5. RowsInv(n)'
    BY <1>1, <1>2, <1>4 DEF RowsInv
  <1>6. CandlesInv'
    BY <1>1, <1>2 DEF IndexInv, CandlesInv
  <1>7. QED
    BY <1>3, <1>5, <1>6 DEF IndexInv

\* A row that fails ends the process where every event before it is done.
LEMMA RowFailsKeepsIndex == ASSUME IndexInv, RowFails PROVE IndexInv'
  <1>1. /\ indexer.at = "row"
        /\ indexer' = [at |-> "start", current_height |-> 0, target |-> 0, event |-> 0,
                       interval |-> 0]
        /\ UNCHANGED <<committed, blocks, candles, faults>>
    BY DEF RowFails, Start, tableVars
  <1>2. IndexerType' /\ PlaceInv'
    BY <1>1, IndexFacts DEF IndexInv, IndexerType, PlaceInv, Working
  <1>3. PICK n : RowsInv(n)
    BY DEF IndexInv
  <1>4. n = indexer.current_height
    BY <1>1, <1>3 DEF RowsInv
  <1>5. Takers' = Takers
    BY <1>1 DEF Takers, Events, Kind
  <1>6. ASSUME NEW e \in Takers, NEW k \in 1..INTERVALS, faults = 0, e[1] <= n
        PROVE  <<e, k>> \in DOMAIN candles
    BY <1>1, <1>4, <1>6 DEF IndexInv, CandlesInv, Behind
  <1>7. RowsInv(n)'
    BY <1>1, <1>3, <1>5, <1>6 DEF RowsInv
  <1>8. CandlesInv'
    BY <1>1 DEF IndexInv, CandlesInv
  <1>9. QED
    BY <1>2, <1>7, <1>8 DEF IndexInv

\* What leaves the chain and the indexer alone keeps the invariant.
LEMMA OthersKeepIndex ==
    ASSUME IndexInv, UNCHANGED <<committed, indexerVars>>
    PROVE  IndexInv'
  <1>1. UNCHANGED <<committed, blocks, candles, indexer, faults>>
    BY DEF indexerVars, tableVars
  <1>2. IndexerType' /\ PlaceInv'
    BY <1>1 DEF IndexInv, IndexerType, PlaceInv, Working, Height
  <1>3. \E n : RowsInv(n)'
    BY <1>1 DEF IndexInv, RowsInv, Height, Takers, Events, Kind
  <1>4. CandlesInv'
    BY <1>1 DEF IndexInv, CandlesInv, Takers, Events, Kind, Behind, Height
  <1>5. QED
    BY <1>2, <1>3, <1>4 DEF IndexInv

\* Every step keeps the invariant.
LEMMA IndexInvNext == IndexInv /\ [ReadersNext]_readerVars => IndexInv'
  <1>1. SUFFICES ASSUME IndexInv, [ReadersNext]_readerVars PROVE IndexInv'
    OBVIOUS
  <1>2. ASSUME NEW block \in EventBlocks, Commit(block) PROVE IndexInv'
    <2>1. committed' = Append(committed, block) /\ UNCHANGED indexerVars
      BY <1>2 DEF Commit, PostCommit
    <2>2. QED
      BY <1>1, <2>1, CommitKeepsIndex
  <1>3. CASE Feeding
    <2>1. committed' = committed /\ UNCHANGED indexerVars
      BY <1>3 DEF Feeding, BroadcasterStep, TakeBlock, broadcast_event, ClientStep, Subscribe,
                  Unsubscribe, Disconnect, Answer, SendTask, ForwarderRecv, ForwarderSend, nodeVars
    <2>2. QED
      BY <1>1, <2>1, OthersKeepIndex, SMTT(40)
  <1>4. CASE IndexingStep
    BY <1>1, <1>4, NewKeepsIndex, RunKeepsIndex, RowKeepsIndex, RowFailsKeepsIndex, ProcessKeepsIndex,
       CandleKeepsIndex, EventsDoneKeepsIndex, BlockDoneKeepsIndex, EventFailsKeepsIndex,
       DieKeepsIndex DEF IndexingStep, IndexerStep
  <1>5. CASE UNCHANGED readerVars
    BY <1>1, <1>5, OthersKeepIndex DEF readerVars, feedVars, nodeVars
  <1>6. QED
    BY <1>1, <1>2, <1>3, <1>4, <1>5 DEF ReadersNext

\* A candle counts no trade twice, wherever the indexer dies and whatever
\* statement fails, for any number of intervals and any blocks; and without a
\* failure it counts them all.
THEOREM CandlesAlwaysTrue == ReadersSpec => []CandlesTrue
  <1>1. IndexInv => CandlesTrue
    <2>1. SUFFICES ASSUME IndexInv, NEW e \in Takers, NEW k \in 1..INTERVALS
                   PROVE  /\ Counted(candles, e, k) <= 1
                          /\ faults = 0 /\ e[1] <= indexer.current_height =>
                                Counted(candles, e, k) = 1
      BY DEF CandlesTrue
    <2>2. \A x \in DOMAIN candles : candles[x] = 1
      BY <2>1 DEF IndexInv, CandlesInv
    <2>3. Counted(candles, e, k) = IF <<e, k>> \in DOMAIN candles THEN 1 ELSE 0
      BY <2>2 DEF Counted
    <2>4. e[1] \in Nat \ {0} /\ indexer.current_height \in Nat
      BY <2>1, IndexFacts
    <2>5. ASSUME faults = 0, e[1] <= indexer.current_height PROVE <<e, k>> \in DOMAIN candles
      <3>1. indexer.at # "start"
        BY <2>1, <2>4, <2>5 DEF IndexInv, CandlesInv
      <3>2. Behind(e, k)
        BY <2>5 DEF Behind
      <3>3. QED
        BY <2>1, <2>5, <3>1, <3>2 DEF IndexInv, CandlesInv
    <2>6. QED
      BY <2>3, <2>5
  <1>2. QED
    BY <1>1, IndexInvInit, IndexInvNext, PTL DEF ReadersSpec
-----------------------------------------------------------------------------
(***************************************************************************)
(* The feed to a WebSocket client, for any blocks, capacities and number   *)
(* of subscriptions.                                                       *)
(*                                                                         *)
(* StreamInv adds to NoGap where a forwarder is: while the connection is   *)
(* open, its next message is the one after those it has put in the stream. *)
(***************************************************************************)

Msgs == (Nat \X Nat) \cup {NoMsg}

Forwarders ==
    [channel : Channels, first : Nat, next : Nat, held : BOOLEAN, ended : BOOLEAN]

FeedType ==
    /\ committed \in Seq(Seq(STRING))
    /\ queue \in Seq(Nat)
    /\ at \in Msgs
    /\ sent \in [Channels -> Seq(Nat \X Nat)]
    /\ forwarders \in Seq(Forwarders)
    /\ outbox \in Seq(Msgs) /\ delivered \in Seq(Msgs)

\* The messages of forwarder i in the stream s, and that they are a run of the
\* first n messages of its channel.
Mine(s, i) == {p \in DOMAIN s : s[p] # NoMsg /\ s[p][1] = i}
Unbroken(s, i, first, n) ==
    \A p \in Mine(s, i) :
        s[p][2] = first + Cardinality({q \in Mine(s, i) : q < p}) /\ s[p][2] \in 1..n

StreamInv ==
    /\ \A p \in DOMAIN Stream : Stream[p] # NoMsg => Stream[p][1] \in DOMAIN forwarders
    /\ \A i \in DOMAIN forwarders :
          /\ forwarders[i].first # 0
          /\ Unbroken(Stream, i, forwarders[i].first, Len(sent[forwarders[i].channel]))
          /\ open => forwarders[i].next = forwarders[i].first + Cardinality(Mine(Stream, i))
          /\ forwarders[i].held => forwarders[i].next <= Len(sent[forwarders[i].channel])

\* A message more.
LEMMA MineGrows ==
    ASSUME NEW s \in Seq(Msgs), NEW m \in Msgs, NEW i
    PROVE  /\ IsFiniteSet(Mine(s, i)) /\ Mine(s, i) \subseteq 1..Len(s)
           /\ Mine(Append(s, m), i) =
                 Mine(s, i) \cup (IF m # NoMsg /\ m[1] = i THEN {Len(s) + 1} ELSE {})
  <1>1. Mine(s, i) \subseteq 1..Len(s) /\ Len(s) \in Nat
    BY DEF Mine
  <1>2. IsFiniteSet(Mine(s, i))
    <2>1. IsFiniteSet(1..Len(s))
      BY <1>1, FS_Interval
    <2>2. QED
      BY <1>1, <2>1, FS_Subset
  <1>3. /\ DOMAIN Append(s, m) = 1..(Len(s) + 1) /\ DOMAIN s = 1..Len(s)
        /\ Append(s, m)[Len(s) + 1] = m
        /\ \A p \in 1..Len(s) : Append(s, m)[p] = s[p]
    OBVIOUS
  <1>4. PICK t, N : t = Append(s, m) /\ N = Len(s)
    OBVIOUS
  <1>5. /\ DOMAIN t = DOMAIN s \cup {N + 1} /\ N + 1 \notin DOMAIN s /\ t[N + 1] = m
        /\ \A p \in DOMAIN s : t[p] = s[p]
    BY <1>1, <1>3, <1>4
  <1>6. Mine(t, i) = Mine(s, i) \cup (IF m # NoMsg /\ m[1] = i THEN {N + 1} ELSE {})
    BY <1>5 DEF Mine
  <1>7. QED
    BY <1>1, <1>2, <1>4, <1>6

\* The run goes on when the message is the next one, or another's.
LEMMA UnbrokenAppend ==
    ASSUME NEW s \in Seq(Msgs), NEW m \in Msgs, NEW i, NEW first \in Nat, NEW n \in Nat,
           Unbroken(s, i, first, n),
           m # NoMsg /\ m[1] = i => m[2] = first + Cardinality(Mine(s, i)) /\ m[2] \in 1..n
    PROVE  Unbroken(Append(s, m), i, first, n)
  <1>1. PICK A, B, t, N : A = Mine(s, i) /\ t = Append(s, m) /\ B = Mine(t, i) /\ N = Len(s)
    OBVIOUS
  <1>2. N \in Nat /\ A \subseteq 1..N /\ B = A \cup (IF m # NoMsg /\ m[1] = i THEN {N + 1} ELSE {})
    BY <1>1, MineGrows
  <1>3. t[N + 1] = m /\ \A p \in 1..N : t[p] = s[p]
    BY <1>1
  <1>4. ASSUME NEW p \in B PROVE t[p][2] = first + Cardinality({q \in B : q < p}) /\ t[p][2] \in 1..n
    <2>1. CASE p \in A
      <3>1. {q \in B : q < p} = {q \in A : q < p}
        BY <1>2, <2>1
      <3>2. t[p] = s[p]
        BY <1>2, <1>3, <2>1
      <3>3. s[p][2] = first + Cardinality({q \in A : q < p}) /\ s[p][2] \in 1..n
        BY <1>1, <2>1 DEF Unbroken
      <3>4. QED
        BY <3>1, <3>2, <3>3
    <2>2. CASE p \notin A
      <3>1. p = N + 1 /\ m # NoMsg /\ m[1] = i
        BY <1>2, <2>2
      <3>2. {q \in B : q < p} = A
        <4>1. B = A \cup {N + 1}
          BY <1>2, <3>1
        <4>2. \A q \in A : q < N + 1
          BY <1>2
        <4>3. ~(N + 1 < N + 1)
          BY <1>2
        <4>4. QED
          BY <3>1, <4>1, <4>2, <4>3
      <3>3. m[2] = first + Cardinality(A) /\ m[2] \in 1..n
        BY <1>1, <3>1
      <3>4. QED
        BY <1>3, <3>1, <3>2, <3>3
    <2>3. QED
      BY <2>1, <2>2
  <1>5. QED
    BY <1>1, <1>4 DEF Unbroken

\* A part of the stream from its beginning is a run as well.
LEMMA UnbrokenPrefix ==
    ASSUME NEW s \in Seq(Msgs), NEW t \in Seq(Msgs), NEW i, NEW first, NEW n,
           Unbroken(s \o t, i, first, n)
    PROVE  Unbroken(s, i, first, n)
  <1>1. PICK A, B, u, N : A = Mine(s, i) /\ u = s \o t /\ B = Mine(u, i) /\ N = Len(s)
    OBVIOUS
  <1>2. N \in Nat /\ DOMAIN s = 1..N /\ 1..N \subseteq DOMAIN u /\ DOMAIN u \subseteq Nat
        /\ \A p \in 1..N : u[p] = s[p]
    BY <1>1, ConcatProperties, LenProperties
  <1>3. A = {p \in B : p <= N}
    BY <1>1, <1>2 DEF Mine
  <1>4. B \subseteq Nat
    BY <1>1, <1>2 DEF Mine
  <1>5. ASSUME NEW p \in A PROVE s[p][2] = first + Cardinality({q \in A : q < p}) /\ s[p][2] \in 1..n
    <2>1. {q \in A : q < p} = {q \in B : q < p}
      <3>1. p \in Nat /\ p <= N
        BY <1>3, <1>4
      <3>2. \A q \in B : q < p => q <= N
        BY <1>2, <1>4, <3>1
      <3>3. QED
        BY <1>3, <3>2
    <2>2. p \in B /\ u[p] = s[p]
      BY <1>1, <1>2, <1>3 DEF Mine
    <2>3. u[p][2] = first + Cardinality({q \in B : q < p}) /\ u[p][2] \in 1..n
      BY <1>1, <2>2 DEF Unbroken
    <2>4. QED
      BY <2>1, <2>2, <2>3
  <1>6. QED
    BY <1>1, <1>5 DEF Unbroken

\* A run of the first messages of a channel stays one when it gets more.
LEMMA UnbrokenMore ==
    ASSUME NEW s, NEW i, NEW first, NEW n \in Nat, NEW m \in Nat, n <= m, Unbroken(s, i, first, n)
    PROVE  Unbroken(s, i, first, m)
  <1>1. 1..n \subseteq 1..m
    OBVIOUS
  <1>2. QED
    BY <1>1, Zenon DEF Unbroken

\* A message several times.
LEMMA Repeated ==
    ASSUME NEW S, NEW x \in S, NEW n \in Nat
    PROVE  /\ [j \in 1..n |-> x] \in Seq(S) /\ Len([j \in 1..n |-> x]) = n
           /\ \A j \in 1..n : [k \in 1..n |-> x][j] = x
  OBVIOUS

\* How many messages an event makes.
LEMMA SendsNat == ASSUME NEW kind, NEW c \in Channels PROVE Sends(kind)[c] \in Nat
  BY DEF Sends, Channels

\* What the channels have after an event is broadcast.
LEMMA BroadcastSends ==
    ASSUME FeedType, broadcast_event, NEW c \in Channels
    PROVE  /\ Sends(Kind(at))[c] \in Nat
           /\ sent' \in [Channels -> Seq(Nat \X Nat)]
           /\ Len(sent'[c]) = Len(sent[c]) + Sends(Kind(at))[c]
           /\ \A i \in 1..Len(sent[c]) : sent'[c][i] = sent[c][i]
           /\ \A i \in (Len(sent[c]) + 1)..(Len(sent[c]) + Sends(Kind(at))[c]) : sent'[c][i] = at
  <1>1. /\ at \in Nat \X Nat
        /\ sent' = [d \in Channels |-> sent[d] \o [j \in 1..Sends(Kind(at))[d] |-> at]]
    BY DEF FeedType, Msgs, broadcast_event
  <1>2. ASSUME NEW d \in Channels
        PROVE  /\ sent'[d] \in Seq(Nat \X Nat)
               /\ Len(sent'[d]) = Len(sent[d]) + Sends(Kind(at))[d]
               /\ \A i \in 1..Len(sent[d]) : sent'[d][i] = sent[d][i]
               /\ \A i \in (Len(sent[d]) + 1)..(Len(sent[d]) + Sends(Kind(at))[d]) : sent'[d][i] = at
    <2>1. PICK n, r, s, P : /\ n = Sends(Kind(at))[d] /\ r = [j \in 1..n |-> at] /\ s = sent[d]
                         /\ P = Nat \X Nat
      OBVIOUS
    <2>2. n \in Nat /\ s \in Seq(P) /\ at \in P
      BY <1>1, <2>1, SendsNat DEF FeedType
    <2>3. r \in Seq(P) /\ Len(r) = n /\ \A j \in 1..n : r[j] = at
      <3>1. PICK x : x = at
        OBVIOUS
      <3>2. r = [j \in 1..n |-> x] /\ x \in P
        BY <2>1, <2>2, <3>1
      <3>3. QED
        BY <2>2, <3>1, <3>2, Repeated
    <2>4. sent'[d] = s \o r
      BY <1>1, <2>1
    <2>5. /\ s \o r \in Seq(P) /\ Len(s \o r) = Len(s) + n /\ Len(s) \in Nat
          /\ \A i \in 1..Len(s) + n : (s \o r)[i] = IF i <= Len(s) THEN s[i] ELSE r[i - Len(s)]
      BY <2>2, <2>3, ConcatProperties
    <2>6. \A i \in 1..Len(s) : (s \o r)[i] = s[i]
      BY <2>2, <2>5
    <2>7. \A i \in (Len(s) + 1)..(Len(s) + n) : (s \o r)[i] = at
      <3>1. ASSUME NEW i \in (Len(s) + 1)..(Len(s) + n) PROVE (s \o r)[i] = at
        <4>1. i \in 1..Len(s) + n /\ ~(i <= Len(s)) /\ i - Len(s) \in 1..n
          BY <2>2, <2>5
        <4>2. QED
          BY <2>3, <2>5, <4>1
      <3>2. QED
        BY <3>1
    <2>8. QED
      BY <2>1, <2>4, <2>5, <2>6, <2>7
  <1>3. sent' \in [Channels -> Seq(Nat \X Nat)]
    <2>1. DOMAIN sent' = Channels /\ sent' = [d \in Channels |-> sent'[d]]
      BY <1>1
    <2>2. QED
      BY <1>2, <2>1
  <1>4. QED
    BY <1>2, <1>3, SendsNat

\* The types hold at the start, and every step keeps them.
LEMMA FeedTypeInit == ReadersInit => FeedType
  <1>1. ASSUME ReadersInit PROVE FeedType
    <2>1. /\ committed = <<>> /\ queue = <<>> /\ at = NoMsg /\ sent = [c \in Channels |-> <<>>]
          /\ forwarders = <<>> /\ outbox = <<>> /\ delivered = <<>>
      BY <1>1 DEF ReadersInit, FeedInit
    <2>2. sent \in [Channels -> Seq(Nat \X Nat)]
      BY <2>1
    <2>3. QED
      BY <2>1, <2>2 DEF FeedType, Msgs
  <1>2. QED
    BY <1>1

LEMMA FeedTypeNext == FeedType /\ [ReadersNext]_readerVars => FeedType'
  <1>1. SUFFICES ASSUME FeedType, [ReadersNext]_readerVars PROVE FeedType'
    OBVIOUS
  <1>2. ASSUME NEW block \in EventBlocks, Commit(block) PROVE FeedType'
    <2>1. /\ committed' = Append(committed, block)
          /\ queue' = queue \/ queue' = Append(queue, Len(committed) + 1)
          /\ UNCHANGED <<at, sent, forwarders, outbox, delivered>>
      BY <1>2 DEF Commit, PostCommit, Enqueue, wsVars
    <2>2. committed' \in Seq(Seq(STRING)) /\ Len(committed) + 1 \in Nat
      BY <1>1, <2>1, ReadersAssumption DEF FeedType
    <2>3. queue' \in Seq(Nat)
      <3>1. PICK h \in Nat : h = Len(committed) + 1
        BY <2>2
      <3>2. queue \in Seq(Nat)
        BY <1>1 DEF FeedType
      <3>3. Append(queue, h) \in Seq(Nat)
        BY <3>2
      <3>4. queue' = queue \/ queue' = Append(queue, h)
        BY <2>1, <3>1
      <3>5. QED
        BY <3>2, <3>3, <3>4
    <2>4. QED
      BY <1>1, <2>1, <2>2, <2>3 DEF FeedType
  <1>3. CASE TakeBlock
    <2>1. /\ queue # <<>> /\ at' = <<Head(queue), 1>> /\ queue' = Tail(queue)
          /\ UNCHANGED <<committed, sent, forwarders, outbox, delivered>>
      BY <1>3 DEF TakeBlock, wsVars
    <2>2. at' \in Msgs /\ queue' \in Seq(Nat)
      BY <1>1, <2>1 DEF FeedType, Msgs
    <2>3. QED
      BY <1>1, <2>1, <2>2 DEF FeedType
  <1>4. CASE broadcast_event
    <2>1. /\ UNCHANGED <<committed, queue, forwarders, outbox, delivered>>
          /\ at # NoMsg /\ at' \in {<<at[1], at[2] + 1>>, NoMsg}
      BY <1>4 DEF broadcast_event, wsVars, nodeVars
    <2>2. at' \in Msgs
      BY <1>1, <2>1 DEF FeedType, Msgs
    <2>3. sent' \in [Channels -> Seq(Nat \X Nat)]
      BY <1>1, <1>4, BroadcastSends DEF Channels
    <2>4. QED
      BY <1>1, <2>1, <2>2, <2>3 DEF FeedType
  <1>5. ASSUME NEW key, Subscribe(key) PROVE FeedType'
    <2>1. PICK n : n = Len(sent[Channel(key)]) + 1
      OBVIOUS
    <2>2. /\ UNCHANGED <<committed, queue, at, sent, outbox, delivered>>
          /\ forwarders' = Append(forwarders, [channel |-> Channel(key), first |-> n, next |-> n,
                                               held |-> FALSE, ended |-> FALSE])
      BY <1>5, <2>1 DEF Subscribe, nodeVars
    <2>3. Channel(key) \in Channels
      BY DEF Channel, Channels
    <2>4. n \in Nat
      BY <1>1, <2>1, <2>3 DEF FeedType
    <2>5. forwarders' \in Seq(Forwarders)
      BY <1>1, <2>2, <2>3, <2>4 DEF FeedType, Forwarders
    <2>6. QED
      BY <1>1, <2>2, <2>5 DEF FeedType
  <1>6. CASE Answer
    <2>1. /\ UNCHANGED <<committed, queue, at, sent, forwarders, delivered>>
          /\ outbox' = Append(outbox, NoMsg)
      BY <1>6 DEF Answer, nodeVars
    <2>2. QED
      BY <1>1, <2>1 DEF FeedType, Msgs
  <1>7. ASSUME NEW key, Unsubscribe(key) PROVE FeedType'
    BY <1>1, <1>7 DEF FeedType, Unsubscribe, nodeVars
  <1>8. ASSUME NEW i \in DOMAIN forwarders, ForwarderRecv(i) PROVE FeedType'
    <2>1. PICK f \in Forwarders : f = forwarders[i]
      BY <1>1 DEF FeedType
    <2>2. /\ UNCHANGED <<committed, queue, at, sent, outbox, delivered>>
          /\ forwarders' = [forwarders EXCEPT ![i] =
                               IF Lagged(f) THEN OnLag(f) ELSE [f EXCEPT !.held = TRUE]]
      BY <1>8, <2>1 DEF ForwarderRecv, nodeVars
    <2>3. OnLag(f) \in Forwarders /\ [f EXCEPT !.held = TRUE] \in Forwarders
      BY DEF OnLag, Forwarders
    <2>4. forwarders' \in Seq(Forwarders)
      BY <1>1, <1>8, <2>2, <2>3 DEF FeedType
    <2>5. QED
      BY <1>1, <2>2, <2>4 DEF FeedType
  <1>9. ASSUME NEW i \in DOMAIN forwarders, ForwarderSend(i) PROVE FeedType'
    <2>1. PICK f \in Forwarders : f = forwarders[i]
      BY <1>1 DEF FeedType
    <2>2. /\ UNCHANGED <<committed, queue, at, sent, delivered>>
          /\ outbox' = Append(outbox, <<i, f.next>>)
          /\ forwarders' = [forwarders EXCEPT ![i] = [f EXCEPT !.held = FALSE, !.next = f.next + 1]]
      BY <1>1, <1>9, <2>1 DEF ForwarderSend, nodeVars, FeedType, Forwarders
    <2>3. [f EXCEPT !.held = FALSE, !.next = f.next + 1] \in Forwarders /\ f.next \in Nat
      <3>1. PICK n \in Nat : n = f.next + 1 /\ f.next \in Nat
        BY DEF Forwarders
      <3>2. [f EXCEPT !.held = FALSE, !.next = n] \in Forwarders
        BY DEF Forwarders
      <3>3. QED
        BY <3>1, <3>2
    <2>4. forwarders' \in Seq(Forwarders)
      BY <1>1, <1>9, <2>2, <2>3 DEF FeedType
    <2>5. <<i, f.next>> \in Msgs
      BY <1>1, <2>3 DEF FeedType, Msgs
    <2>6. outbox' \in Seq(Msgs)
      BY <1>1, <2>2, <2>5 DEF FeedType
    <2>7. QED
      BY <1>1, <2>2, <2>4, <2>6 DEF FeedType
  <1>10. CASE SendTask
    <2>1. /\ UNCHANGED <<committed, queue, at, sent, forwarders>> /\ outbox # <<>>
          /\ outbox' = Tail(outbox) /\ delivered' = Append(delivered, Head(outbox))
      BY <1>10 DEF SendTask, nodeVars
    <2>2. outbox' \in Seq(Msgs) /\ delivered' \in Seq(Msgs)
      BY <1>1, <2>1, HeadTailProperties DEF FeedType
    <2>3. QED
      BY <1>1, <2>1, <2>2 DEF FeedType
  <1>11. CASE Disconnect
    <2>1. /\ UNCHANGED <<committed, queue, at, sent, forwarders, delivered>> /\ outbox' = <<>>
      BY <1>11 DEF Disconnect, nodeVars
    <2>2. QED
      BY <1>1, <2>1 DEF FeedType
  <1>12. CASE IndexingStep
    <2>1. UNCHANGED <<committed, queue, at, sent, forwarders, outbox, delivered>>
      BY <1>12 DEF IndexingStep, IndexerStep, New, run, insert_block, RowFails, process_event,
                   update_from_fill, EventsDone, BlockDone, EventFails, Die, wsVars
    <2>2. QED
      BY <1>1, <2>1 DEF FeedType
  <1>13. CASE UNCHANGED readerVars
    <2>1. UNCHANGED <<committed, queue, at, sent, forwarders, outbox, delivered>>
      BY <1>13 DEF readerVars, feedVars, nodeVars, wsVars
    <2>2. QED
      BY <1>1, <2>1 DEF FeedType
  <1>14. QED
    BY <1>1, <1>2, <1>3, <1>4, <1>5, <1>6, <1>7, <1>8, <1>9, <1>10, <1>11, <1>12, <1>13
       DEF ReadersNext, Feeding, BroadcasterStep, ClientStep

\* The stream is a sequence of messages; a message more in the outbox is one
\* more in the stream, and one that is sent leaves the stream as it is.
LEMMA StreamGrows ==
    ASSUME NEW s \in Seq(Msgs), NEW t \in Seq(Msgs)
    PROVE  /\ s \o t \in Seq(Msgs)
           /\ \A m \in Msgs : s \o Append(t, m) = Append(s \o t, m)
           /\ t # <<>> => Append(s, Head(t)) \o Tail(t) = s \o t
  <1>1. s \o t \in Seq(Msgs)
    BY ConcatProperties
  <1>2. ASSUME NEW m \in Msgs PROVE s \o Append(t, m) = Append(s \o t, m)
    <2>1. <<m>> \in Seq(Msgs) /\ Append(t, m) = t \o <<m>>
      BY AppendIsConcat
    <2>2. Append(s \o t, m) = (s \o t) \o <<m>>
      BY <1>1, AppendIsConcat
    <2>3. QED
      BY <2>1, <2>2, ConcatAssociative
  <1>3. ASSUME t # <<>> PROVE Append(s, Head(t)) \o Tail(t) = s \o t
    <2>1. PICK h, u : h = Head(t) /\ u = Tail(t) /\ h \in Msgs /\ u \in Seq(Msgs)
      BY <1>3, HeadTailProperties
    <2>2. <<h>> \in Seq(Msgs) /\ Append(s, h) = s \o <<h>>
      BY <2>1, AppendIsConcat
    <2>3. (s \o <<h>>) \o u = s \o (<<h>> \o u)
      BY <2>1, <2>2, ConcatAssociative
    <2>4. <<h>> \o u = t
      BY <1>3, <2>1
    <2>5. QED
      BY <2>1, <2>2, <2>3, <2>4
  <1>4. QED
    BY <1>1, <1>2, <1>3

\* What a forwarder is.
LEMMA ForwarderFacts ==
    ASSUME FeedType, NEW i \in DOMAIN forwarders
    PROVE  /\ i \in Nat /\ forwarders[i] \in Forwarders /\ forwarders[i].channel \in Channels
           /\ forwarders[i].first \in Nat /\ forwarders[i].next \in Nat
           /\ Len(sent[forwarders[i].channel]) \in Nat
  <1>1. i \in Nat /\ forwarders[i] \in Forwarders
    <2>1. PICK F, f : F = Forwarders /\ f = forwarders /\ f \in Seq(F)
      BY DEF FeedType
    <2>2. QED
      BY <2>1
  <1>2. /\ forwarders[i].channel \in Channels
        /\ forwarders[i].first \in Nat /\ forwarders[i].next \in Nat
    BY <1>1 DEF Forwarders
  <1>3. \A c \in Channels : Len(sent[c]) \in Nat
    BY DEF FeedType
  <1>4. QED
    BY <1>1, <1>2, <1>3

\* A message of somebody else.
LEMMA MineStays ==
    ASSUME NEW s \in Seq(Msgs), NEW m \in Msgs, NEW i, ~(m # NoMsg /\ m[1] = i)
    PROVE  Mine(Append(s, m), i) = Mine(s, i)
  <1>1. Mine(Append(s, m), i) =
           Mine(s, i) \cup (IF m # NoMsg /\ m[1] = i THEN {Len(s) + 1} ELSE {})
    BY MineGrows
  <1>2. (IF m # NoMsg /\ m[1] = i THEN {Len(s) + 1} ELSE {}) = {}
    OBVIOUS
  <1>3. QED
    BY <1>1, <1>2, Zenon

\* The stream stays, and a forwarder waits or takes a message.
LEMMA StreamKept ==
    ASSUME FeedType, FeedType', StreamInv, Stream' = Stream, open' => open,
           DOMAIN forwarders' = DOMAIN forwarders,
           \A i \in DOMAIN forwarders :
              /\ forwarders'[i].first = forwarders[i].first
              /\ forwarders'[i].channel = forwarders[i].channel
              /\ forwarders'[i].next = forwarders[i].next
              /\ forwarders'[i].held => \/ forwarders[i].held
                                        \/ forwarders[i].next <= Len(sent[forwarders[i].channel]),
           \A c \in Channels : Len(sent[c]) <= Len(sent'[c])
    PROVE  StreamInv'
  <1>1. \A p \in DOMAIN Stream' : Stream'[p] # NoMsg => Stream'[p][1] \in DOMAIN forwarders'
    BY DEF StreamInv
  <1>2. ASSUME NEW i \in DOMAIN forwarders'
        PROVE  /\ forwarders'[i].first # 0
               /\ Unbroken(Stream', i, forwarders'[i].first, Len(sent'[forwarders'[i].channel]))
               /\ open' => forwarders'[i].next = forwarders'[i].first + Cardinality(Mine(Stream', i))
               /\ forwarders'[i].held => forwarders'[i].next <= Len(sent'[forwarders'[i].channel])
    <2>1. PICK f, g, s : f = forwarders[i] /\ g = forwarders'[i] /\ s = Stream
      OBVIOUS
    <2>2. f \in Forwarders /\ f.channel \in Channels /\ f.next \in Nat
      BY <1>2, <2>1, ForwarderFacts
    <2>3. PICK m, n : m = Len(sent[f.channel]) /\ n = Len(sent'[f.channel])
      OBVIOUS
    <2>4. m \in Nat /\ n \in Nat /\ m <= n
      BY <2>2, <2>3, SMTT(40) DEF FeedType
    <2>5. /\ f.first # 0 /\ Unbroken(s, i, f.first, m) /\ (f.held => f.next <= m)
          /\ open => f.next = f.first + Cardinality(Mine(s, i))
      BY <1>2, <2>1, <2>3 DEF StreamInv
    <2>6. /\ g.first = f.first /\ g.channel = f.channel /\ g.next = f.next
          /\ g.held => f.held \/ f.next <= m
      BY <1>2, <2>1, <2>3
    <2>7. Unbroken(s, i, f.first, n)
      BY <2>4, <2>5, UnbrokenMore
    <2>8. g.held => g.next <= n
      BY <2>2, <2>4, <2>5, <2>6
    <2>9. QED
      BY <2>1, <2>3, <2>5, <2>6, <2>7, <2>8
  <1>3. QED
    BY <1>1, <1>2 DEF StreamInv

\* A new subscription has nothing in the stream.
LEMMA SubscribeKeepsStream ==
    ASSUME FeedType, FeedType', StreamInv, NEW key, Subscribe(key)
    PROVE  StreamInv'
  <1>1. PICK c, n, N, f : /\ c = Channel(key) /\ n = Len(sent[c]) + 1 /\ N = Len(forwarders)
                          /\ f = [channel |-> c, first |-> n, next |-> n, held |-> FALSE,
                                  ended |-> FALSE]
    OBVIOUS
  <1>2. /\ UNCHANGED <<sent, open, outbox, delivered>>
        /\ forwarders' = Append(forwarders, f)
    BY <1>1 DEF Subscribe
  <1>3. c \in Channels /\ N \in Nat
    BY <1>1 DEF Channel, Channels, FeedType
  <1>4. n \in Nat /\ n # 0
    BY <1>1, <1>3, SMTT(40) DEF FeedType
  <1>5. /\ DOMAIN forwarders = 1..N /\ DOMAIN forwarders' = 1..(N + 1) /\ forwarders'[N + 1] = f
        /\ \A i \in 1..N : forwarders'[i] = forwarders[i]
    BY <1>1, <1>2, <1>3 DEF FeedType
  <1>6. Stream' = Stream
    BY <1>2 DEF Stream
  <1>7. Mine(Stream, N + 1) = {}
    BY <1>3, <1>5 DEF Mine, StreamInv
  <1>8. \A p \in DOMAIN Stream' : Stream'[p] # NoMsg => Stream'[p][1] \in DOMAIN forwarders'
    BY <1>3, <1>5, <1>6 DEF StreamInv
  <1>9. ASSUME NEW i \in DOMAIN forwarders'
        PROVE  /\ forwarders'[i].first # 0
               /\ Unbroken(Stream', i, forwarders'[i].first, Len(sent'[forwarders'[i].channel]))
               /\ open' => forwarders'[i].next = forwarders'[i].first + Cardinality(Mine(Stream', i))
               /\ forwarders'[i].held => forwarders'[i].next <= Len(sent'[forwarders'[i].channel])
    <2>1. CASE i = N + 1
      <3>1. f.first = n /\ f.next = n /\ f.held = FALSE
        BY <1>1
      <3>2. Cardinality({}) = 0
        BY FS_EmptySet
      <3>3. \A a, b : Unbroken(Stream, N + 1, a, b)
        BY <1>7 DEF Unbroken
      <3>4. open' => n = n + Cardinality(Mine(Stream, N + 1))
        BY <1>4, <1>7, <3>2
      <3>5. QED
        BY <1>4, <1>5, <1>6, <2>1, <3>1, <3>3, <3>4
    <2>2. CASE i # N + 1
      <3>1. i \in 1..N
        BY <1>3, <1>5, <2>2
      <3>2. QED
        BY <1>2, <1>5, <1>6, <3>1 DEF StreamInv
    <2>3. QED
      BY <2>1, <2>2
  <1>10. QED
    BY <1>8, <1>9 DEF StreamInv

\* An answer in the stream is nobody's message.
LEMMA AnswerKeepsStream ==
    ASSUME FeedType, FeedType', StreamInv, Answer
    PROVE  StreamInv'
  <1>1. UNCHANGED <<sent, open, forwarders, delivered>> /\ outbox' = Append(outbox, NoMsg)
    BY DEF Answer
  <1>2. PICK s, m : s = Stream /\ m = NoMsg
    OBVIOUS
  <1>3. s \in Seq(Msgs) /\ m \in Msgs /\ Stream' = Append(s, m)
    <2>1. delivered \in Seq(Msgs) /\ outbox \in Seq(Msgs) /\ m \in Msgs
      BY <1>2 DEF FeedType, Msgs
    <2>2. QED
      BY <1>1, <1>2, <2>1, StreamGrows DEF Stream
  <1>4. \A i : Mine(Append(s, m), i) = Mine(s, i)
    BY <1>2, <1>3, MineStays
  <1>5. ASSUME NEW i \in DOMAIN forwarders
        PROVE  Unbroken(Append(s, m), i, forwarders[i].first, Len(sent[forwarders[i].channel]))
    <2>1. PICK a, n : a = forwarders[i].first /\ n = Len(sent[forwarders[i].channel])
      OBVIOUS
    <2>2. a \in Nat /\ n \in Nat
      BY <2>1, ForwarderFacts
    <2>3. Unbroken(s, i, a, n)
      BY <1>2, <2>1 DEF StreamInv
    <2>4. Unbroken(Append(s, m), i, a, n)
      BY <1>2, <1>3, <2>2, <2>3, UnbrokenAppend
    <2>5. QED
      BY <2>1, <2>4
  <1>6. \A p \in DOMAIN Append(s, m) :
           Append(s, m)[p] # NoMsg => Append(s, m)[p][1] \in DOMAIN forwarders
    BY <1>2, <1>3 DEF StreamInv
  <1>7. QED
    BY <1>1, <1>2, <1>3, <1>4, <1>5, <1>6 DEF StreamInv

\* A forwarder's next message.
LEMMA ForwardKeepsStream ==
    ASSUME FeedType, FeedType', StreamInv, NEW j \in DOMAIN forwarders, ForwarderSend(j)
    PROVE  StreamInv'
  <1>1. PICK f, s, m : f = forwarders[j] /\ s = Stream /\ m = <<j, f.next>>
    OBVIOUS
  <1>2. f \in Forwarders /\ f.next \in Nat /\ f.first \in Nat /\ f.channel \in Channels /\ j \in Nat
    BY <1>1, ForwarderFacts
  <1>3. /\ UNCHANGED <<sent, open, delivered>> /\ open /\ f.held
        /\ outbox' = Append(outbox, m)
        /\ forwarders' = [forwarders EXCEPT ![j] = [f EXCEPT !.held = FALSE, !.next = f.next + 1]]
    BY <1>1, <1>2 DEF ForwarderSend, Forwarders, FeedType
  <1>4. m \in Nat \X Nat /\ m \in Msgs /\ m # NoMsg /\ m[1] = j /\ m[2] = f.next
    BY <1>1, <1>2, FeedAssumption DEF Msgs
  <1>5. s \in Seq(Msgs) /\ Stream' = Append(s, m)
    <2>1. delivered \in Seq(Msgs) /\ outbox \in Seq(Msgs)
      BY DEF FeedType
    <2>2. QED
      BY <1>1, <1>3, <1>4, <2>1, StreamGrows, SMTT(40) DEF Stream
  <1>6. /\ DOMAIN forwarders' = DOMAIN forwarders
        /\ forwarders'[j] = [f EXCEPT !.held = FALSE, !.next = f.next + 1]
        /\ \A i \in DOMAIN forwarders : i # j => forwarders'[i] = forwarders[i]
    BY <1>3 DEF FeedType
  <1>7. /\ forwarders'[j].first = f.first /\ forwarders'[j].channel = f.channel
        /\ forwarders'[j].next = f.next + 1 /\ forwarders'[j].held = FALSE
    BY <1>2, <1>6 DEF Forwarders
  <1>8. f.next = f.first + Cardinality(Mine(s, j)) /\ f.next <= Len(sent[f.channel]) /\ f.first # 0
    BY <1>1, <1>3 DEF StreamInv
  <1>9. Len(sent[f.channel]) \in Nat
    BY <1>2 DEF FeedType
  <1>10. Cardinality(Mine(s, j)) \in Nat /\ IsFiniteSet(Mine(s, j))
         /\ Mine(s, j) \subseteq 1..Len(s) /\ Len(s) \in Nat
    BY <1>4, <1>5, MineGrows, FS_CardinalityType
  <1>11. f.next \in 1..Len(sent[f.channel])
    BY <1>2, <1>8, <1>9, <1>10
  <1>12. ASSUME NEW i \in DOMAIN forwarders
         PROVE  Unbroken(Append(s, m), i, forwarders[i].first, Len(sent[forwarders[i].channel]))
    <2>1. PICK a, n : a = forwarders[i].first /\ n = Len(sent[forwarders[i].channel])
      OBVIOUS
    <2>2. a \in Nat /\ n \in Nat
      BY <2>1, ForwarderFacts
    <2>3. Unbroken(s, i, a, n)
      BY <1>1, <2>1 DEF StreamInv
    <2>4. m[1] = i => m[2] = a + Cardinality(Mine(s, i)) /\ m[2] \in 1..n
      BY <1>1, <1>4, <1>8, <1>11, <2>1
    <2>5. Unbroken(Append(s, m), i, a, n)
      BY <1>4, <1>5, <2>2, <2>3, <2>4, UnbrokenAppend
    <2>6. QED
      BY <2>1, <2>5
  <1>13. ASSUME NEW i \in DOMAIN forwarders, i # j PROVE Mine(Append(s, m), i) = Mine(s, i)
    BY <1>4, <1>5, <1>13, MineStays
  <1>14. Cardinality(Mine(Append(s, m), j)) = Cardinality(Mine(s, j)) + 1
    <2>1. PICK A, x : A = Mine(s, j) /\ x = Len(s) + 1
      OBVIOUS
    <2>2. Mine(Append(s, m), j) = A \cup {x}
      BY <1>4, <1>5, <2>1, MineGrows
    <2>3. IsFiniteSet(A) /\ x \notin A
      BY <1>10, <2>1
    <2>4. Cardinality(A \cup {x}) = Cardinality(A) + 1
      BY <2>3, FS_AddElement
    <2>5. QED
      BY <2>1, <2>2, <2>4
  <1>15. \A p \in DOMAIN Append(s, m) :
           Append(s, m)[p] # NoMsg => Append(s, m)[p][1] \in DOMAIN forwarders
    BY <1>1, <1>4, <1>5 DEF StreamInv
  <1>16. ASSUME NEW i \in DOMAIN forwarders
         PROVE  /\ forwarders'[i].first # 0
                /\ Unbroken(Stream', i, forwarders'[i].first, Len(sent'[forwarders'[i].channel]))
                /\ open' => forwarders'[i].next = forwarders'[i].first + Cardinality(Mine(Stream', i))
                /\ forwarders'[i].held => forwarders'[i].next <= Len(sent'[forwarders'[i].channel])
    <2>1. CASE i = j
      <3>1. f.next + 1 = f.first + Cardinality(Mine(Append(s, m), j))
        BY <1>2, <1>8, <1>10, <1>14, SMTT(40)
      <3>2. Unbroken(Append(s, m), j, f.first, Len(sent[f.channel]))
        BY <1>1, <1>12
      <3>3. QED
        BY <1>3, <1>5, <1>7, <1>8, <2>1, <3>1, <3>2
    <2>2. CASE i # j
      <3>1. forwarders'[i] = forwarders[i]
        BY <1>6, <2>2
      <3>2. QED
        BY <1>1, <1>3, <1>5, <1>12, <1>13, <2>2, <3>1 DEF StreamInv
    <2>3. QED
      BY <2>1, <2>2
  <1>17. QED
    BY <1>5, <1>6, <1>15, <1>16 DEF StreamInv

\* The connection is closed, with what was not sent.
LEMMA DisconnectKeepsStream ==
    ASSUME FeedType, FeedType', StreamInv, Disconnect
    PROVE  StreamInv'
  <1>1. UNCHANGED <<sent, forwarders, delivered>> /\ outbox' = <<>> /\ open' = FALSE
    BY DEF Disconnect
  <1>2. PICK d, o : d = delivered /\ o = outbox /\ d \in Seq(Msgs) /\ o \in Seq(Msgs)
    BY DEF FeedType
  <1>3. Stream = d \o o /\ Stream' = d
    BY <1>1, <1>2, ConcatEmptySeq DEF Stream
  <1>4. ASSUME NEW i \in DOMAIN forwarders
        PROVE  Unbroken(d, i, forwarders[i].first, Len(sent[forwarders[i].channel]))
    <2>1. PICK a, n : a = forwarders[i].first /\ n = Len(sent[forwarders[i].channel])
      OBVIOUS
    <2>2. Unbroken(d \o o, i, a, n)
      BY <1>3, <2>1 DEF StreamInv
    <2>3. Unbroken(d, i, a, n)
      BY <1>2, <2>2, UnbrokenPrefix
    <2>4. QED
      BY <2>1, <2>3
  <1>5. \A p \in DOMAIN d : d[p] # NoMsg => d[p][1] \in DOMAIN forwarders
    <2>1. ASSUME NEW p \in DOMAIN d PROVE p \in DOMAIN (d \o o) /\ (d \o o)[p] = d[p]
      BY <1>2
    <2>2. QED
      BY <1>3, <2>1 DEF StreamInv
  <1>6. QED
    BY <1>1, <1>3, <1>4, <1>5 DEF StreamInv

\* Every step keeps the invariant.
LEMMA StreamInvNext ==
    FeedType /\ FeedType' /\ StreamInv /\ [ReadersNext]_readerVars => StreamInv'
  <1>1. SUFFICES ASSUME FeedType, FeedType', StreamInv, [ReadersNext]_readerVars PROVE StreamInv'
    OBVIOUS
  <1>2. \A c \in Channels : Len(sent[c]) <= Len(sent[c])
    BY <1>1 DEF FeedType
  <1>3. ASSUME UNCHANGED <<open, sent, forwarders, outbox, delivered>> PROVE StreamInv'
    <2>1. Stream' = Stream
      BY <1>3 DEF Stream
    <2>2. QED
      BY <1>1, <1>2, <1>3, <2>1, StreamKept
  <1>4. ASSUME NEW block, Commit(block) PROVE StreamInv'
    BY <1>3, <1>4 DEF Commit, PostCommit, wsVars
  <1>5. CASE TakeBlock
    BY <1>3, <1>5 DEF TakeBlock, wsVars
  <1>6. CASE broadcast_event
    <2>1. UNCHANGED <<open, forwarders, outbox, delivered>>
      BY <1>6 DEF broadcast_event, wsVars
    <2>2. Stream' = Stream
      BY <2>1 DEF Stream
    <2>3. ASSUME NEW c \in Channels PROVE Len(sent[c]) <= Len(sent'[c])
      <3>1. Len(sent'[c]) = Len(sent[c]) + Sends(Kind(at))[c] /\ Sends(Kind(at))[c] \in Nat
        BY <1>1, <1>6, BroadcastSends
      <3>2. Len(sent[c]) \in Nat
        BY <1>1 DEF FeedType
      <3>3. QED
        BY <3>1, <3>2
    <2>4. QED
      BY <1>1, <2>1, <2>2, <2>3, StreamKept
  <1>7. ASSUME NEW key, Subscribe(key) PROVE StreamInv'
    BY <1>1, <1>7, SubscribeKeepsStream
  <1>8. CASE Answer
    BY <1>1, <1>8, AnswerKeepsStream
  <1>9. ASSUME NEW key, Unsubscribe(key) PROVE StreamInv'
    BY <1>3, <1>9 DEF Unsubscribe
  <1>10. ASSUME NEW i \in DOMAIN forwarders, ForwarderRecv(i) PROVE StreamInv'
    <2>1. PICK f, g : f = forwarders[i]
                      /\ g = IF Lagged(f) THEN OnLag(f) ELSE [f EXCEPT !.held = TRUE]
      OBVIOUS
    <2>2. /\ UNCHANGED <<open, sent, outbox, delivered>> /\ f.next <= Len(sent[f.channel])
          /\ forwarders' = [forwarders EXCEPT ![i] = g]
      BY <1>10, <2>1 DEF ForwarderRecv
    <2>3. f \in Forwarders
      BY <1>1, <2>1, ForwarderFacts
    <2>4. g.first = f.first /\ g.channel = f.channel /\ g.next = f.next
      BY <2>1, <2>3 DEF OnLag, Forwarders
    <2>5. /\ DOMAIN forwarders' = DOMAIN forwarders /\ forwarders'[i] = g
          /\ \A j \in DOMAIN forwarders : j # i => forwarders'[j] = forwarders[j]
      BY <1>1, <2>2 DEF FeedType
    <2>6. Stream' = Stream
      BY <2>2 DEF Stream
    <2>7. ASSUME NEW j \in DOMAIN forwarders
          PROVE  /\ forwarders'[j].first = forwarders[j].first
                 /\ forwarders'[j].channel = forwarders[j].channel
                 /\ forwarders'[j].next = forwarders[j].next
                 /\ forwarders'[j].held => \/ forwarders[j].held
                                           \/ forwarders[j].next <= Len(sent[forwarders[j].channel])
      <3>1. CASE j = i
        BY <2>1, <2>2, <2>4, <2>5, <3>1
      <3>2. CASE j # i
        BY <2>5, <3>2
      <3>3. QED
        BY <3>1, <3>2
    <2>8. \A c \in Channels : Len(sent[c]) <= Len(sent'[c])
      BY <1>2, <2>2
    <2>9. QED
      BY <1>1, <2>2, <2>5, <2>6, <2>7, <2>8, StreamKept
  <1>11. ASSUME NEW i \in DOMAIN forwarders, ForwarderSend(i) PROVE StreamInv'
    BY <1>1, <1>11, ForwardKeepsStream
  <1>12. CASE SendTask
    <2>1. /\ UNCHANGED <<open, sent, forwarders>> /\ outbox # <<>>
          /\ outbox' = Tail(outbox) /\ delivered' = Append(delivered, Head(outbox))
      BY <1>12 DEF SendTask
    <2>2. Stream' = Stream
      <3>1. delivered \in Seq(Msgs) /\ outbox \in Seq(Msgs)
        BY <1>1 DEF FeedType
      <3>2. QED
        BY <2>1, <3>1, StreamGrows DEF Stream
    <2>3. QED
      BY <1>1, <1>2, <2>1, <2>2, StreamKept
  <1>13. CASE Disconnect
    BY <1>1, <1>13, DisconnectKeepsStream
  <1>14. CASE IndexingStep
    BY <1>3, <1>14 DEF IndexingStep, wsVars
  <1>15. CASE UNCHANGED readerVars
    BY <1>3, <1>15 DEF readerVars, feedVars, wsVars
  <1>16. QED
    BY <1>1, <1>4, <1>5, <1>6, <1>7, <1>8, <1>9, <1>10, <1>11, <1>12, <1>13, <1>14, <1>15
       DEF ReadersNext, Feeding, BroadcasterStep, ClientStep

\* What a client gets from a subscription is an unbroken run of its channel,
\* whatever the capacities, however slow the client is and however many
\* subscriptions share its connection.
THEOREM ClientsNeverSkip == ReadersSpec => []NoGap
  <1>1. ReadersInit => FeedType /\ StreamInv
    <2>1. SUFFICES ASSUME ReadersInit PROVE StreamInv
      BY FeedTypeInit
    <2>2. forwarders = <<>> /\ delivered = <<>> /\ outbox = <<>>
      BY <2>1 DEF ReadersInit, FeedInit
    <2>3. DOMAIN forwarders = {} /\ DOMAIN Stream = {}
      BY <2>2 DEF Stream
    <2>4. QED
      BY <2>3 DEF StreamInv
  <1>2. FeedType /\ StreamInv /\ [ReadersNext]_readerVars => (FeedType /\ StreamInv)'
    BY FeedTypeNext, StreamInvNext
  <1>3. FeedType /\ StreamInv => NoGap
    <2>1. SUFFICES ASSUME FeedType, StreamInv, NEW i \in DOMAIN forwarders, NEW p \in From(i)
                   PROVE  /\ Stream[p][2] = forwarders[i].first + Cardinality({q \in From(i) : q < p})
                          /\ Stream[p][2] \in DOMAIN sent[forwarders[i].channel]
      BY DEF NoGap
    <2>2. From(i) = Mine(Stream, i)
      BY DEF From, Mine
    <2>3. Unbroken(Stream, i, forwarders[i].first, Len(sent[forwarders[i].channel]))
      BY <2>1 DEF StreamInv
    <2>4. DOMAIN sent[forwarders[i].channel] = 1..Len(sent[forwarders[i].channel])
      <3>1. forwarders[i].channel \in Channels
        BY <2>1, ForwarderFacts
      <3>2. \A c \in Channels : DOMAIN sent[c] = 1..Len(sent[c])
        BY <2>1 DEF FeedType
      <3>3. QED
        BY <3>1, <3>2
    <2>5. QED
      BY <2>2, <2>3, <2>4, Zenon DEF Unbroken
  <1>4. QED
    BY <1>1, <1>2, <1>3, PTL DEF ReadersSpec

(***************************************************************************)
(* FeedFollowsChain needs where the broadcaster is: what is in the event   *)
(* channel and what is left of the block at hand is still to come, and     *)
(* everything that was sent comes before it.                               *)
(***************************************************************************)

Before(d, e) == d[1] < e[1] \/ (d[1] = e[1] /\ d[2] < e[2])

ToCome(e) == e[1] \in Range(queue) \/ (at # NoMsg /\ e[1] = at[1] /\ at[2] <= e[2])

QueueInv ==
    /\ dropped \subseteq 1..Len(committed)
    /\ \A j \in DOMAIN queue :
          queue[j] \in 1..Len(committed) /\ committed[queue[j]] # <<>> /\ queue[j] \notin dropped
    /\ \A j, k \in DOMAIN queue : j < k => queue[j] < queue[k]
    /\ at # NoMsg => /\ at \in Events /\ at[1] \notin dropped
                     /\ \A j \in DOMAIN queue : at[1] < queue[j]

SentInv ==
    \A c \in Channels :
        /\ \A i \in DOMAIN sent[c] :
              /\ sent[c][i] \in Events
              /\ at # NoMsg => Before(sent[c][i], at)
              /\ \A j \in DOMAIN queue : sent[c][i][1] < queue[j]
        /\ \A i, j \in DOMAIN sent[c] : i < j => NotAfter(sent[c][i], sent[c][j])
        /\ \A e \in Events :
              Cardinality(Copies(c, e)) =
                  IF e[1] \in dropped \/ ToCome(e) THEN 0 ELSE Sends(Kind(e))[c]

\* The events of a new block.
LEMMA EventsGrow ==
    ASSUME committed \in Seq(Seq(STRING)), NEW block \in Seq(STRING),
           committed' = Append(committed, block)
    PROVE  /\ Events \subseteq Events' /\ Len(committed') = Len(committed) + 1
           /\ Len(committed) \in Nat
           /\ \A h \in 1..Len(committed) : committed'[h] = committed[h]
           /\ \A e \in Events : Kind(e)' = Kind(e) /\ e[1] \in 1..Len(committed)
           /\ \A e \in Events' : e \in Events \/ (e[1] = Len(committed) + 1 /\ block # <<>>)
  <1>1. /\ committed' \in Seq(Seq(STRING)) /\ Len(committed') = Len(committed) + 1
        /\ Len(committed) \in Nat /\ committed'[Len(committed) + 1] = block
        /\ \A h \in 1..Len(committed) : committed'[h] = committed[h]
    OBVIOUS
  <1>2. /\ Events \subseteq Nat \X Nat
        /\ \A e \in Events : e[1] \in 1..Len(committed) /\ e[2] \in 1..Len(committed[e[1]])
        /\ \A h \in 1..Len(committed) : \A i \in 1..Len(committed[h]) : <<h, i>> \in Events
    BY EventsAre
  <1>3. /\ Events' \subseteq Nat \X Nat
        /\ \A e \in Events' : e[1] \in 1..Len(committed') /\ e[2] \in 1..Len(committed'[e[1]])
        /\ \A h \in 1..Len(committed') : \A i \in 1..Len(committed'[h]) : <<h, i>> \in Events'
    <2>1. committed' \in Seq(Seq(STRING))
      BY <1>1
    <2>2. DOMAIN committed' = 1..Len(committed')
          /\ \A h \in DOMAIN committed' : DOMAIN committed'[h] = 1..Len(committed'[h])
                                          /\ Len(committed'[h]) \in Nat
      BY <2>1
    <2>3. Events' = UNION {{<<h, i>> : i \in DOMAIN committed'[h]} : h \in DOMAIN committed'}
      BY DEF Events
    <2>4. ASSUME NEW e \in Events'
          PROVE  \E h \in DOMAIN committed' : \E i \in DOMAIN committed'[h] : e = <<h, i>>
      BY <2>3
    <2>5. Len(committed') \in Nat
      BY <1>1
    <2>6. \A e \in Events' : /\ e \in Nat \X Nat /\ e[1] \in 1..Len(committed')
                             /\ e[2] \in 1..Len(committed'[e[1]])
      BY <2>2, <2>4, <2>5
    <2>7. ASSUME NEW h \in 1..Len(committed'), NEW i \in 1..Len(committed'[h])
          PROVE  <<h, i>> \in Events'
      BY <2>2, <2>3
    <2>8. QED
      BY <2>6, <2>7
  <1>4. ASSUME NEW e \in Events PROVE e \in Events' /\ Kind(e)' = Kind(e) /\ e[1] \in 1..Len(committed)
    <2>1. e = <<e[1], e[2]>> /\ e[1] \in 1..Len(committed) /\ e[2] \in 1..Len(committed[e[1]])
      BY <1>2
    <2>2. e[1] \in 1..Len(committed') /\ e[2] \in 1..Len(committed'[e[1]])
          /\ committed'[e[1]] = committed[e[1]]
      BY <1>1, <2>1
    <2>3. <<e[1], e[2]>> \in Events'
      BY <1>3, <2>2
    <2>4. QED
      BY <2>1, <2>2, <2>3 DEF Kind
  <1>5. ASSUME NEW e \in Events', e \notin Events
        PROVE  e[1] = Len(committed) + 1 /\ block # <<>>
    <2>1. /\ e = <<e[1], e[2]>> /\ e[1] \in 1..Len(committed') /\ e[2] \in 1..Len(committed'[e[1]])
      BY <1>3
    <2>2. e[1] \notin 1..Len(committed)
      BY <1>1, <1>2, <1>5, <2>1
    <2>3. e[1] = Len(committed) + 1
      BY <1>1, <2>1, <2>2
    <2>4. Len(block) # 0
      BY <1>1, <2>1, <2>3
    <2>5. QED
      BY <2>3, <2>4
  <1>6. QED
    BY <1>1, <1>4, <1>5

\* A block is committed: its events are in the event channel, or it is dropped.
LEMMA CommitFollows ==
    ASSUME FeedType, QueueInv, SentInv, NEW block \in EventBlocks, Commit(block)
    PROVE  QueueInv' /\ SentInv'
  <1>1. PICK h : h = Len(committed) + 1
    OBVIOUS
  <1>2. /\ committed' = Append(committed, block) /\ UNCHANGED <<at, sent>>
        /\ queue' = (IF block = <<>> THEN queue ELSE Enqueue(queue, h))
        /\ dropped' = IF block # <<>> /\ Len(queue) >= EventCap THEN dropped \cup {h} ELSE dropped
    BY <1>1 DEF Commit, PostCommit
  <1>3. committed \in Seq(Seq(STRING)) /\ block \in Seq(STRING) /\ queue \in Seq(Nat)
    BY ReadersAssumption DEF FeedType
  <1>4. /\ Events \subseteq Events' /\ Len(committed') = h /\ Len(committed) \in Nat
        /\ h \in Nat /\ h \notin 1..Len(committed)
        /\ \A e \in Events : Kind(e)' = Kind(e) /\ e[1] \in 1..Len(committed)
        /\ \A e \in Events' : e \in Events \/ (e[1] = h /\ block # <<>>)
        /\ \A k \in 1..Len(committed) : committed'[k] = committed[k]
        /\ 1..Len(committed) \subseteq 1..h /\ h \in 1..h
    <2>1. /\ Events \subseteq Events' /\ Len(committed') = Len(committed) + 1
          /\ Len(committed) \in Nat
          /\ \A k \in 1..Len(committed) : committed'[k] = committed[k]
          /\ \A e \in Events : Kind(e)' = Kind(e) /\ e[1] \in 1..Len(committed)
          /\ \A e \in Events' : e \in Events \/ (e[1] = Len(committed) + 1 /\ block # <<>>)
      BY <1>2, <1>3, EventsGrow
    <2>2. h \in Nat /\ h \notin 1..Len(committed) /\ 1..Len(committed) \subseteq 1..h /\ h \in 1..h
      BY <1>1, <2>1
    <2>3. QED
      BY <1>1, <2>1, <2>2
  <1>5. committed'[h] = block
    BY <1>1, <1>2, <1>3
  \* The new block is waiting, dropped, or has no events.
  <1>6. \/ block = <<>> /\ queue' = queue /\ dropped' = dropped
        \/ block # <<>> /\ queue' = Append(queue, h) /\ dropped' = dropped
        \/ block # <<>> /\ queue' = queue /\ dropped' = dropped \cup {h}
    <2>1. Len(queue) \in Nat /\ EventCap \in Nat
      BY <1>3, FeedAssumption
    <2>2. QED
      BY <1>2, <2>1 DEF Enqueue
  <1>7. /\ \A j \in DOMAIN queue' : queue'[j] \in Range(queue) \/ queue'[j] = h
        /\ Range(queue) \subseteq Range(queue') /\ Range(queue') \subseteq Range(queue) \cup {h}
        /\ \A j \in DOMAIN queue : j \in DOMAIN queue' /\ queue'[j] = queue[j]
        /\ \A j \in DOMAIN queue' : j \notin DOMAIN queue =>
              queue'[j] = h /\ block # <<>> /\ dropped' = dropped /\ \A k \in DOMAIN queue' : k <= j
    <2>1. CASE queue' = queue
      BY <2>1 DEF Range
    <2>2. CASE queue' = Append(queue, h) /\ block # <<>> /\ dropped' = dropped
      <3>1. /\ DOMAIN queue = 1..Len(queue) /\ DOMAIN queue' = 1..(Len(queue) + 1)
            /\ Len(queue) \in Nat /\ queue'[Len(queue) + 1] = h
            /\ \A j \in 1..Len(queue) : queue'[j] = queue[j]
        BY <1>3, <1>4, <2>2
      <3>2. \A j \in DOMAIN queue' : j \in DOMAIN queue \/ j = Len(queue) + 1
        BY <3>1
      <3>3. \A j \in DOMAIN queue : j \in DOMAIN queue' /\ queue'[j] = queue[j]
        BY <3>1
      <3>4. \A k \in DOMAIN queue' : k <= Len(queue) + 1
        BY <3>1
      <3>5. Range(queue') = Range(queue) \cup {h}
        BY <3>1, <3>2, <3>3 DEF Range
      <3>6. QED
        BY <2>2, <3>1, <3>2, <3>3, <3>4, <3>5 DEF Range
    <2>3. QED
      BY <1>6, <2>1, <2>2
  <1>8. QueueInv'
    <2>1. dropped' \subseteq 1..Len(committed')
      BY <1>4, <1>6 DEF QueueInv
    <2>2. ASSUME NEW j \in DOMAIN queue'
          PROVE  queue'[j] \in 1..Len(committed') /\ committed'[queue'[j]] # <<>> /\ queue'[j] \notin dropped'
      <3>1. CASE j \in DOMAIN queue
        <4>1. queue'[j] = queue[j] /\ queue[j] \in 1..Len(committed)
              /\ committed[queue[j]] # <<>> /\ queue[j] \notin dropped
          BY <1>7, <3>1 DEF QueueInv
        <4>2. queue[j] # h
          BY <1>4, <4>1
        <4>3. QED
          BY <1>4, <1>6, <4>1, <4>2
      <3>2. CASE j \notin DOMAIN queue
        <4>1. queue'[j] = h /\ block # <<>> /\ dropped' = dropped
          BY <1>7, <3>2
        <4>2. h \notin dropped
          BY <1>4 DEF QueueInv
        <4>3. QED
          BY <1>4, <1>5, <4>1, <4>2
      <3>3. QED
        BY <3>1, <3>2
    <2>3. \A j \in DOMAIN queue : queue[j] < h
      BY <1>1, <1>4 DEF QueueInv
    <2>4. ASSUME NEW j \in DOMAIN queue', NEW k \in DOMAIN queue', j < k PROVE queue'[j] < queue'[k]
      <3>1. DOMAIN queue' \subseteq Nat
        BY <1>3, <1>4, <1>6
      <3>2. j \in DOMAIN queue
        <4>1. SUFFICES ASSUME j \notin DOMAIN queue PROVE FALSE
          OBVIOUS
        <4>2. k <= j
          BY <1>7, <4>1
        <4>3. QED
          BY <2>4, <3>1, <4>2
      <3>3. CASE k \in DOMAIN queue
        BY <1>7, <2>4, <3>2, <3>3 DEF QueueInv
      <3>4. CASE k \notin DOMAIN queue
        BY <1>7, <2>3, <3>2, <3>4
      <3>5. QED
        BY <3>3, <3>4
    <2>5. ASSUME at # NoMsg
          PROVE  at \in Events' /\ at[1] \notin dropped' /\ \A j \in DOMAIN queue' : at[1] < queue'[j]
      <3>1. at \in Events /\ at[1] \notin dropped /\ \A j \in DOMAIN queue : at[1] < queue[j]
        BY <2>5 DEF QueueInv
      <3>2. at[1] \in 1..Len(committed) /\ at[1] < h /\ at[1] # h
        BY <1>1, <1>4, <3>1
      <3>3. QED
        BY <1>4, <1>6, <1>7, <3>1, <3>2
    <2>6. QED
      BY <1>2, <2>1, <2>2, <2>4, <2>5 DEF QueueInv
  <1>9. SentInv'
    <2>0. UNCHANGED <<at, sent>> /\ \A c, e : Copies(c, e)' = Copies(c, e)
      BY <1>2 DEF Copies
    <2>1. SUFFICES ASSUME NEW c \in Channels
                   PROVE  /\ \A i \in DOMAIN sent[c] :
                                /\ sent[c][i] \in Events'
                                /\ at # NoMsg => Before(sent[c][i], at)
                                /\ \A j \in DOMAIN queue' : sent[c][i][1] < queue'[j]
                          /\ \A i, j \in DOMAIN sent[c] : i < j => NotAfter(sent[c][i], sent[c][j])
                          /\ \A e \in Events' :
                                Cardinality(Copies(c, e)) =
                                  IF e[1] \in dropped' \/ ToCome(e)' THEN 0 ELSE Sends(Kind(e)')[c]
      BY <2>0 DEF SentInv
    <2>2. ASSUME NEW i \in DOMAIN sent[c]
          PROVE  /\ sent[c][i] \in Events' /\ (at # NoMsg => Before(sent[c][i], at))
                 /\ \A j \in DOMAIN queue' : sent[c][i][1] < queue'[j]
      <3>1. sent[c][i] \in Events /\ (at # NoMsg => Before(sent[c][i], at))
            /\ \A j \in DOMAIN queue : sent[c][i][1] < queue[j]
        BY DEF SentInv
      <3>2. sent[c][i][1] < h
        BY <1>1, <1>4, <3>1
      <3>3. QED
        BY <1>4, <1>7, <3>1, <3>2
    <2>3. \A i, j \in DOMAIN sent[c] : i < j => NotAfter(sent[c][i], sent[c][j])
      BY DEF SentInv
    <2>4. ASSUME NEW e \in Events'
          PROVE  Cardinality(Copies(c, e)) =
                   IF e[1] \in dropped' \/ ToCome(e)' THEN 0 ELSE Sends(Kind(e)')[c]
      <3>1. CASE e \in Events
        <4>1. e[1] # h /\ Kind(e)' = Kind(e)
          BY <1>4, <3>1
        <4>2. (e[1] \in dropped' <=> e[1] \in dropped) /\ (e[1] \in Range(queue') <=> e[1] \in Range(queue))
          BY <1>6, <1>7, <4>1
        <4>3. ToCome(e)' <=> ToCome(e)
          BY <1>2, <4>2 DEF ToCome
        <4>4. QED
          BY <3>1, <4>1, <4>2, <4>3 DEF SentInv
      <3>2. CASE e \notin Events
        <4>1. e[1] = h /\ block # <<>>
          BY <1>4, <3>2
        <4>2. Copies(c, e) = {}
          BY <3>2 DEF Copies, SentInv
        <4>3. Cardinality(Copies(c, e)) = 0
          BY <4>2, FS_EmptySet
        <4>4. e[1] \in dropped' \/ ToCome(e)'
          <5>1. CASE dropped' = dropped \cup {h}
            BY <4>1, <5>1
          <5>2. CASE queue' = Append(queue, h)
            <6>1. Len(queue) + 1 \in DOMAIN queue' /\ queue'[Len(queue) + 1] = h
              BY <1>3, <1>4, <5>2
            <6>2. h \in Range(queue')
              BY <6>1 DEF Range
            <6>3. QED
              BY <4>1, <6>2 DEF ToCome
          <5>3. QED
            BY <1>6, <4>1, <5>1, <5>2
        <4>5. QED
          BY <4>3, <4>4
      <3>3. QED
        BY <3>1, <3>2
    <2>5. QED
      BY <2>2, <2>3, <2>4
  <1>10. QED
    BY <1>8, <1>9

\* The broadcaster takes the oldest block that waits.
LEMMA TakeFollows ==
    ASSUME FeedType, QueueInv, SentInv, TakeBlock
    PROVE  QueueInv' /\ SentInv'
  <1>1. PICK h, N : h = Head(queue) /\ N = Len(queue)
    OBVIOUS
  <1>2. /\ at = NoMsg /\ queue # <<>> /\ at' = <<h, 1>> /\ queue' = Tail(queue)
        /\ UNCHANGED <<committed, dropped, sent>>
    BY <1>1 DEF TakeBlock
  <1>3. committed \in Seq(Seq(STRING)) /\ queue \in Seq(Nat)
    BY DEF FeedType
  <1>4. /\ N \in Nat \ {0} /\ DOMAIN queue = 1..N /\ h = queue[1] /\ 1 \in DOMAIN queue
        /\ DOMAIN queue' = 1..(N - 1) /\ \A j \in 1..(N - 1) : queue'[j] = queue[j + 1]
    BY <1>1, <1>2, <1>3
  <1>5. /\ h \in 1..Len(committed) /\ committed[h] # <<>> /\ h \notin dropped /\ h \in Nat
        /\ \A j \in DOMAIN queue : j # 1 => h < queue[j]
    <2>1. h \in 1..Len(committed) /\ committed[h] # <<>> /\ h \notin dropped
      BY <1>4 DEF QueueInv
    <2>2. Len(committed) \in Nat
      BY <1>3
    <2>3. h \in Nat
      BY <2>1, <2>2
    <2>4. \A j \in DOMAIN queue : j # 1 => 1 < j
      BY <1>4
    <2>5. \A j \in DOMAIN queue : j # 1 => h < queue[j]
      BY <1>4, <2>4 DEF QueueInv
    <2>6. QED
      BY <2>1, <2>3, <2>5
  <1>6. \A j \in DOMAIN queue' : j + 1 \in DOMAIN queue /\ queue'[j] = queue[j + 1] /\ j + 1 # 1
    BY <1>4
  <1>7. \A j \in DOMAIN queue : j = 1 \/ (j - 1 \in DOMAIN queue' /\ queue'[j - 1] = queue[j])
    BY <1>4
  <1>8. Range(queue) = Range(queue') \cup {h}
    BY <1>4, <1>6, <1>7 DEF Range
  <1>9. at' # NoMsg /\ at' \in Nat \X Nat /\ at'[1] = h /\ at'[2] = 1
    BY <1>2, <1>5, FeedAssumption
  <1>10. Events' = Events
    BY <1>2 DEF Events
  <1>11. at' \in Events
    <2>1. Len(committed[h]) \in Nat /\ Len(committed[h]) # 0
      BY <1>3, <1>5
    <2>2. 1 \in 1..Len(committed[h])
      BY <2>1
    <2>3. QED
      BY <1>2, <1>3, <1>5, <2>2, EventsAre
  <1>12. QueueInv'
    <2>1. \A j \in DOMAIN queue' :
            queue'[j] \in 1..Len(committed) /\ committed[queue'[j]] # <<>> /\ queue'[j] \notin dropped
      BY <1>6 DEF QueueInv
    <2>2. ASSUME NEW j \in DOMAIN queue', NEW k \in DOMAIN queue', j < k PROVE queue'[j] < queue'[k]
      <3>1. j + 1 < k + 1
        BY <1>4, <2>2
      <3>2. QED
        BY <1>6, <3>1 DEF QueueInv
    <2>3. \A j \in DOMAIN queue' : h < queue'[j]
      BY <1>5, <1>6
    <2>4. QED
      BY <1>2, <1>5, <1>9, <1>10, <1>11, <2>1, <2>2, <2>3 DEF QueueInv
  <1>13. SentInv'
    <2>1. \A c, e : Copies(c, e)' = Copies(c, e) /\ Kind(e)' = Kind(e)
      BY <1>2 DEF Copies, Kind
    <2>2. SUFFICES ASSUME NEW c \in Channels
                   PROVE  /\ \A i \in DOMAIN sent[c] :
                                /\ sent[c][i] \in Events
                                /\ Before(sent[c][i], at')
                                /\ \A j \in DOMAIN queue' : sent[c][i][1] < queue'[j]
                          /\ \A i, j \in DOMAIN sent[c] : i < j => NotAfter(sent[c][i], sent[c][j])
                          /\ \A e \in Events :
                                Cardinality(Copies(c, e)) =
                                  IF e[1] \in dropped \/ ToCome(e)' THEN 0 ELSE Sends(Kind(e))[c]
      BY <1>2, <1>10, <2>1 DEF SentInv
    <2>3. ASSUME NEW i \in DOMAIN sent[c]
          PROVE  /\ sent[c][i] \in Events /\ Before(sent[c][i], at')
                 /\ \A j \in DOMAIN queue' : sent[c][i][1] < queue'[j]
      <3>1. sent[c][i] \in Events /\ \A j \in DOMAIN queue : sent[c][i][1] < queue[j]
        BY DEF SentInv
      <3>2. sent[c][i][1] < h
        BY <1>4, <3>1
      <3>3. QED
        BY <1>6, <1>9, <3>1, <3>2 DEF Before
    <2>4. \A i, j \in DOMAIN sent[c] : i < j => NotAfter(sent[c][i], sent[c][j])
      BY DEF SentInv
    <2>5. ASSUME NEW e \in Events PROVE ToCome(e)' <=> ToCome(e)
      <3>1. e[2] \in Nat /\ 1 <= e[2]
        <4>1. e \in Nat \X Nat /\ e[2] \in 1..Len(committed[e[1]])
          BY <1>3, EventsAre
        <4>2. QED
          BY <4>1
      <3>2. ToCome(e) <=> e[1] \in Range(queue)
        BY <1>2 DEF ToCome
      <3>3. ToCome(e)' <=> (e[1] \in Range(queue') \/ e[1] = h)
        BY <1>9, <3>1 DEF ToCome
      <3>4. QED
        BY <1>8, <3>2, <3>3
    <2>6. \A e \in Events :
             Cardinality(Copies(c, e)) = IF e[1] \in dropped \/ ToCome(e)' THEN 0 ELSE Sends(Kind(e))[c]
      BY <2>5 DEF SentInv
    <2>7. QED
      BY <2>3, <2>4, <2>6
  <1>14. QED
    BY <1>12, <1>13

\* The broadcaster sends an event.
LEMMA BroadcastFollows ==
    ASSUME FeedType, QueueInv, SentInv, broadcast_event
    PROVE  QueueInv' /\ SentInv'
  <1>1. PICK x : x = at
    OBVIOUS
  <1>2. /\ x # NoMsg /\ UNCHANGED <<committed, queue, dropped>>
        /\ at' = IF x[2] < Len(committed[x[1]]) THEN <<x[1], x[2] + 1>> ELSE NoMsg
    BY <1>1 DEF broadcast_event, nodeVars
  <1>3. committed \in Seq(Seq(STRING)) /\ queue \in Seq(Nat)
    BY DEF FeedType
  <1>4. x \in Events /\ x[1] \notin dropped /\ \A j \in DOMAIN queue : x[1] < queue[j]
    BY <1>1, <1>2 DEF QueueInv
  <1>5. /\ Events \subseteq Nat \X Nat
        /\ \A e \in Events : e[1] \in 1..Len(committed) /\ e[2] \in 1..Len(committed[e[1]])
        /\ \A k \in 1..Len(committed) : \A i \in 1..Len(committed[k]) : <<k, i>> \in Events
    BY <1>3, EventsAre
  <1>6. Events' = Events /\ \A e : Kind(e)' = Kind(e)
    BY <1>2 DEF Events, Kind
  <1>7. x[1] \in Nat /\ x[2] \in Nat /\ x = <<x[1], x[2]>> /\ x[1] \in 1..Len(committed)
        /\ x[2] \in 1..Len(committed[x[1]]) /\ Len(committed[x[1]]) \in Nat
    BY <1>3, <1>4, <1>5
  <1>8. x[1] \notin Range(queue)
    <2>1. SUFFICES ASSUME NEW j \in DOMAIN queue, queue[j] = x[1] PROVE FALSE
      BY DEF Range
    <2>2. x[1] < queue[j]
      BY <1>4
    <2>3. QED
      BY <1>7, <2>1, <2>2
  \* The next event, if there is one, is the one after this.
  <1>9. at' # NoMsg => /\ at' \in Events /\ at'[1] = x[1] /\ at'[2] = x[2] + 1
    <2>1. SUFFICES ASSUME at' # NoMsg
                   PROVE  at' \in Events /\ at'[1] = x[1] /\ at'[2] = x[2] + 1
      OBVIOUS
    <2>2. x[2] < Len(committed[x[1]]) /\ at' = <<x[1], x[2] + 1>>
      BY <1>2, <2>1
    <2>3. x[2] + 1 \in 1..Len(committed[x[1]])
      BY <1>7, <2>2
    <2>4. QED
      BY <1>5, <1>7, <2>2, <2>3
  <1>10. at' = NoMsg => x[2] = Len(committed[x[1]])
    <2>1. SUFFICES ASSUME at' = NoMsg PROVE ~(x[2] < Len(committed[x[1]]))
      BY <1>7
    <2>2. <<x[1], x[2] + 1>> # NoMsg
      BY <1>7, FeedAssumption
    <2>3. QED
      BY <1>2, <2>1, <2>2
  <1>11. QueueInv'
    <2>1. at' # NoMsg => at'[1] \notin dropped /\ \A j \in DOMAIN queue : at'[1] < queue[j]
      BY <1>4, <1>9
    <2>2. QED
      BY <1>2, <1>6, <1>9, <2>1 DEF QueueInv
  \* What is still to come is what was, without this event.
  <1>12. ASSUME NEW e \in Events PROVE ToCome(e)' <=> (ToCome(e) /\ e # x)
    <2>1. e[1] \in Nat /\ e[2] \in Nat /\ e = <<e[1], e[2]>>
          /\ e[2] \in 1..Len(committed[e[1]])
      BY <1>5
    <2>2. ToCome(e) <=> e[1] \in Range(queue) \/ (e[1] = x[1] /\ x[2] <= e[2])
      BY <1>1, <1>2 DEF ToCome
    <2>3. ToCome(e)' <=> e[1] \in Range(queue) \/ (at' # NoMsg /\ e[1] = at'[1] /\ at'[2] <= e[2])
      BY <1>2 DEF ToCome
    <2>4. e = x <=> e[1] = x[1] /\ e[2] = x[2]
      BY <1>7, <2>1
    <2>5. CASE at' # NoMsg
      <3>1. e[1] = x[1] => (x[2] + 1 <= e[2] <=> (x[2] <= e[2] /\ e[2] # x[2]))
        BY <1>7, <2>1
      <3>2. QED
        BY <1>8, <1>9, <2>2, <2>3, <2>4, <2>5, <3>1
    <2>6. CASE at' = NoMsg
      <3>1. e[1] = x[1] /\ x[2] <= e[2] => e[2] = x[2]
        BY <1>7, <1>10, <2>1, <2>6
      <3>2. QED
        BY <1>8, <2>2, <2>3, <2>4, <2>6, <3>1
    <2>7. QED
      BY <2>5, <2>6
  <1>13. ToCome(x)
    BY <1>1, <1>2, <1>7 DEF ToCome
  <1>14. ASSUME NEW c \in Channels
         PROVE  /\ \A i \in DOMAIN sent'[c] :
                      /\ sent'[c][i] \in Events
                      /\ at' # NoMsg => Before(sent'[c][i], at')
                      /\ \A j \in DOMAIN queue : sent'[c][i][1] < queue[j]
                /\ \A i, j \in DOMAIN sent'[c] : i < j => NotAfter(sent'[c][i], sent'[c][j])
                /\ \A e \in Events :
                      Cardinality(Copies(c, e)') =
                        IF e[1] \in dropped \/ ToCome(e)' THEN 0 ELSE Sends(Kind(e))[c]
    <2>1. PICK L, n, s, t : L = Len(sent[c]) /\ n = Sends(Kind(x))[c] /\ s = sent[c] /\ t = sent'[c]
      OBVIOUS
    <2>2. /\ n \in Nat /\ t \in Seq(Nat \X Nat) /\ Len(t) = L + n
          /\ \A i \in 1..L : t[i] = s[i]
          /\ \A i \in (L + 1)..(L + n) : t[i] = x
      BY <1>1, <2>1, BroadcastSends
    <2>3. s \in Seq(Nat \X Nat)
      BY <2>1 DEF FeedType
    <2>4. L \in Nat /\ DOMAIN s = 1..L /\ DOMAIN t = 1..(L + n)
      <3>1. PICK P : P = Nat \X Nat
        OBVIOUS
      <3>2. s \in Seq(P) /\ t \in Seq(P) /\ L = Len(s) /\ Len(t) = L + n
        BY <2>1, <2>2, <2>3, <3>1
      <3>3. QED
        BY <3>2, LenProperties
    <2>5. \A i \in DOMAIN t : i \in DOMAIN s \/ i \in (L + 1)..(L + n)
      BY <2>2, <2>4
    <2>6. \A i \in DOMAIN s : /\ s[i] \in Events /\ Before(s[i], x)
                              /\ \A j \in DOMAIN queue : s[i][1] < queue[j]
      BY <1>1, <1>2, <2>1 DEF SentInv
    <2>7. ASSUME NEW i \in DOMAIN t
          PROVE  /\ t[i] \in Events /\ (at' # NoMsg => Before(t[i], at'))
                 /\ \A j \in DOMAIN queue : t[i][1] < queue[j]
      <3>1. CASE i \in DOMAIN s
        <4>1. t[i] = s[i] /\ s[i] \in Events /\ Before(s[i], x)
              /\ \A j \in DOMAIN queue : s[i][1] < queue[j]
          BY <2>2, <2>4, <2>6, <3>1
        <4>2. s[i][1] \in Nat /\ s[i][2] \in Nat
          BY <1>5, <4>1
        <4>3. at' # NoMsg => Before(s[i], at')
          BY <1>7, <1>9, <4>1, <4>2 DEF Before
        <4>4. QED
          BY <4>1, <4>3
      <3>2. CASE i \in (L + 1)..(L + n)
        <4>1. t[i] = x
          BY <2>2, <3>2
        <4>2. at' # NoMsg => Before(x, at')
          BY <1>7, <1>9 DEF Before
        <4>3. QED
          BY <1>4, <4>1, <4>2
      <3>3. QED
        BY <2>5, <3>1, <3>2
    <2>8. ASSUME NEW i \in DOMAIN t, NEW j \in DOMAIN t, i < j PROVE NotAfter(t[i], t[j])
      <3>1. CASE i \in DOMAIN s /\ j \in DOMAIN s
        <4>1. NotAfter(s[i], s[j])
          BY <2>1, <2>8, <3>1 DEF SentInv
        <4>2. t[i] = s[i] /\ t[j] = s[j]
          BY <2>2, <2>4, <3>1
        <4>3. QED
          BY <4>1, <4>2
      <3>2. CASE i \in DOMAIN s /\ j \in (L + 1)..(L + n)
        <4>1. t[i] = s[i] /\ t[j] = x /\ Before(s[i], x) /\ s[i] \in Events
          BY <2>2, <2>4, <2>6, <3>2
        <4>2. s[i][2] \in Nat
          BY <1>5, <4>1
        <4>3. QED
          BY <1>7, <4>1, <4>2 DEF Before, NotAfter
      <3>3. CASE i \in (L + 1)..(L + n)
        <4>1. j \in (L + 1)..(L + n)
          BY <2>2, <2>4, <2>8, <3>3
        <4>2. t[i] = x /\ t[j] = x
          BY <2>2, <3>3, <4>1
        <4>3. QED
          BY <1>7, <4>2 DEF NotAfter
      <3>4. QED
        BY <2>5, <3>1, <3>2, <3>3
    <2>9. ASSUME NEW e \in Events
          PROVE  Cardinality(Copies(c, e)') =
                   IF e[1] \in dropped \/ ToCome(e)' THEN 0 ELSE Sends(Kind(e))[c]
      <3>1. Copies(c, e) = {i \in DOMAIN s : s[i] = e} /\ Copies(c, e)' = {i \in DOMAIN t : t[i] = e}
        BY <2>1 DEF Copies
      <3>2. CASE e = x
        <4>1. \A i \in DOMAIN s : s[i] # x
          <5>1. SUFFICES ASSUME NEW i \in DOMAIN s, s[i] = x PROVE FALSE
            OBVIOUS
          <5>2. Before(x, x)
            BY <2>6, <5>1
          <5>3. QED
            BY <1>7, <5>2 DEF Before
        <4>2. {i \in DOMAIN t : t[i] = e} = (L + 1)..(L + n)
          <5>1. \A i \in (L + 1)..(L + n) : i \in DOMAIN t
            BY <2>2, <2>4
          <5>2. \A i \in DOMAIN s : t[i] = s[i]
            BY <2>2, <2>4
          <5>3. QED
            BY <2>2, <2>5, <3>2, <4>1, <5>1, <5>2
        <4>3. Cardinality((L + 1)..(L + n)) = n
          <5>1. PICK a \in Int, b \in Int : a = L + 1 /\ b = L + n
            BY <2>2, <2>4
          <5>2. Cardinality(a..b) = IF a > b THEN 0 ELSE b - a + 1
            BY FS_Interval
          <5>3. QED
            BY <2>2, <2>4, <5>1, <5>2
        <4>4. ~(e[1] \in dropped \/ ToCome(e)')
          BY <1>4, <1>12, <3>2
        <4>5. QED
          BY <2>1, <3>1, <3>2, <4>2, <4>3, <4>4
      <3>3. CASE e # x
        <4>1. {i \in DOMAIN t : t[i] = e} = {i \in DOMAIN s : s[i] = e}
          <5>1. \A i \in DOMAIN s : i \in DOMAIN t /\ t[i] = s[i]
            BY <2>2, <2>4
          <5>2. QED
            BY <2>2, <2>5, <3>3, <5>1
        <4>2. Cardinality(Copies(c, e)) = IF e[1] \in dropped \/ ToCome(e) THEN 0 ELSE Sends(Kind(e))[c]
          BY DEF SentInv
        <4>3. ToCome(e)' <=> ToCome(e)
          BY <1>12, <3>3
        <4>4. QED
          BY <3>1, <4>1, <4>2, <4>3
      <3>4. QED
        BY <3>2, <3>3
    <2>10. QED
      BY <2>1, <2>7, <2>8, <2>9
  <1>15. SentInv'
    BY <1>2, <1>6, <1>14 DEF SentInv
  <1>16. QED
    BY <1>11, <1>15

\* What leaves the chain, the event channel and the broadcaster alone.
LEMMA OthersFollow ==
    ASSUME QueueInv, SentInv, UNCHANGED <<committed, queue, dropped, at, sent>>
    PROVE  QueueInv' /\ SentInv'
  <1>1. Events' = Events /\ \A e : Kind(e)' = Kind(e)
    BY DEF Events, Kind
  <1>2. QueueInv'
    BY <1>1 DEF QueueInv
  <1>3. \A c, e : Copies(c, e)' = Copies(c, e)
    BY DEF Copies
  <1>4. \A e : ToCome(e)' <=> ToCome(e)
    BY DEF ToCome
  <1>5. SentInv'
    BY <1>1, <1>3, <1>4 DEF SentInv
  <1>6. QED
    BY <1>2, <1>5

LEMMA FollowNext ==
    FeedType /\ QueueInv /\ SentInv /\ [ReadersNext]_readerVars => QueueInv' /\ SentInv'
  <1>1. SUFFICES ASSUME FeedType, QueueInv, SentInv, [ReadersNext]_readerVars
                 PROVE  QueueInv' /\ SentInv'
    OBVIOUS
  <1>2. ASSUME NEW block \in EventBlocks, Commit(block) PROVE QueueInv' /\ SentInv'
    BY <1>1, <1>2, CommitFollows
  <1>3. CASE Feeding
    <2>1. CASE TakeBlock
      BY <1>1, <2>1, TakeFollows
    <2>2. CASE broadcast_event
      BY <1>1, <2>2, BroadcastFollows
    <2>3. CASE ~TakeBlock /\ ~broadcast_event
      <3>1. UNCHANGED <<committed, queue, dropped, at, sent>>
        BY <1>3, <2>3 DEF Feeding, BroadcasterStep, ClientStep, Subscribe, Unsubscribe, Disconnect,
                          Answer, SendTask, ForwarderRecv, ForwarderSend, nodeVars
      <3>2. QED
        BY <1>1, <3>1, OthersFollow, SMTT(40)
    <2>4. QED
      BY <2>1, <2>2, <2>3
  <1>4. CASE IndexingStep
    <2>1. UNCHANGED <<committed, queue, dropped, at, sent>>
      BY <1>4 DEF IndexingStep, IndexerStep, New, run, insert_block, RowFails, process_event,
                  update_from_fill, EventsDone, BlockDone, EventFails, Die
    <2>2. QED
      BY <1>1, <2>1, OthersFollow
  <1>5. CASE UNCHANGED readerVars
    <2>1. UNCHANGED <<committed, queue, dropped, at, sent>>
      BY <1>5 DEF readerVars, feedVars, nodeVars
    <2>2. QED
      BY <1>1, <2>1, OthersFollow
  <1>6. QED
    BY <1>1, <1>2, <1>3, <1>4, <1>5 DEF ReadersNext

\* The channels carry the events of the chain in their order, each as often
\* as broadcast_event sends it, without a block or with the whole of it.
THEOREM FeedAlwaysFollowsChain == ReadersSpec => []FeedFollowsChain
  <1>1. ReadersInit => QueueInv /\ SentInv
    <2>1. SUFFICES ASSUME ReadersInit PROVE QueueInv /\ SentInv
      OBVIOUS
    <2>2. /\ committed = <<>> /\ queue = <<>> /\ dropped = {} /\ at = NoMsg
          /\ sent = [c \in Channels |-> <<>>]
      BY <2>1 DEF ReadersInit, FeedInit
    <2>3. DOMAIN committed = {} /\ DOMAIN queue = {} /\ \A c \in Channels : DOMAIN sent[c] = {}
      BY <2>2
    <2>4. Events = {}
      BY <2>3 DEF Events
    <2>5. QueueInv
      BY <2>2, <2>3 DEF QueueInv
    <2>6. SentInv
      BY <2>3, <2>4 DEF SentInv
    <2>7. QED
      BY <2>5, <2>6
  <1>2. FeedType /\ SentInv => FeedFollowsChain
    <2>1. SUFFICES ASSUME FeedType, SentInv, NEW c \in Channels
                   PROVE  /\ \A i \in DOMAIN sent[c] : sent[c][i] \in Events
                          /\ \A i, j \in DOMAIN sent[c] : i < j => NotAfter(sent[c][i], sent[c][j])
                          /\ \A e \in Events :
                                Through(e[1]) =>
                                    Cardinality(Copies(c, e)) =
                                        IF e[1] \in dropped THEN 0 ELSE Sends(Kind(e))[c]
      BY DEF FeedFollowsChain
    <2>2. ASSUME NEW e \in Events, Through(e[1]) PROVE ~ToCome(e)
      BY <2>2 DEF Through, ToCome
    <2>3. QED
      BY <2>1, <2>2 DEF SentInv
  <1>3. QED
    BY <1>1, <1>2, FeedTypeInit, FeedTypeNext, FollowNext, PTL DEF ReadersSpec
================================================================================
