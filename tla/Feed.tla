--------------------------------- MODULE Feed ---------------------------------
(***************************************************************************)
(* The two readers of a node's blocks side by side: the feed to a          *)
(* WebSocket client and the indexer.                                       *)
(***************************************************************************)
EXTENDS WsFeed, Indexer

\* The events a block may have.
CONSTANT EventBlocks

ASSUME ReadersAssumption == EventBlocks \subseteq Seq(STRING)

readerVars == <<feedVars, indexerVars>>

ReadersInit == FeedInit /\ IndexerInit

Commit(block) ==
    /\ Len(committed) < MaxBlocks
    /\ PostCommit(block)
    /\ UNCHANGED indexerVars

Feeding ==
    /\ \/ BroadcasterStep \/ ClientStep
       \/ Answer \/ SendTask
       \/ \E i \in DOMAIN forwarders : ForwarderRecv(i) \/ ForwarderSend(i)
    /\ UNCHANGED indexerVars

IndexingStep ==
    /\ IndexerStep \/ EventFails \/ Die
    /\ UNCHANGED <<queue, dropped, at, sent, wsVars>>

ReadersNext == (\E block \in EventBlocks : Commit(block)) \/ Feeding \/ IndexingStep

ReadersSpec == ReadersInit /\ [][ReadersNext]_readerVars
===============================================================================
