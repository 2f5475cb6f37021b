-------------------------------- MODULE Indexer -------------------------------
(***************************************************************************)
(* The indexer of indexer/src/ingest.rs: it follows the blocks of a node   *)
(* and writes them to an SQL database, first the row of a block, then its  *)
(* events one by one, each statement on its own.  A taker's fill also adds *)
(* to the candle of every interval (indexer/src/candles.rs).  Any          *)
(* statement may fail, the row of a block however often it is tried, and   *)
(* the process may die anywhere and be started again.                      *)
(***************************************************************************)
EXTENDS NodeEvents, FiniteSetsExt

CONSTANTS
    INTERVALS,    \* number of candle intervals
    MaxFaults     \* bound: events that failed, and crashes

ASSUME IndexerAssumption == INTERVALS \in Nat \ {0} /\ MaxFaults \in Nat

VARIABLES
    blocks,       \* table: the heights that have a row
    tables,       \* the events <<height, i>> that the other tables show
    candles,      \* how often an event is counted: <<event, interval>> -> Nat
    indexer,      \* where the process is
    faults

tableVars == <<blocks, tables, candles>>
indexerVars == <<tableVars, indexer, faults>>

Counted(c, e, k) == IF <<e, k>> \in DOMAIN c THEN c[<<e, k>>] ELSE 0

Start == [at |-> "start", current_height |-> 0, target |-> 0, event |-> 0, interval |-> 0]

IndexerInit ==
    /\ blocks = {} /\ tables = {} /\ candles = <<>>
    /\ indexer = Start
    /\ faults = 0

get_latest_height == IF blocks = {} THEN 0 ELSE Max(blocks)

\* Indexer::new: the process resumes after the last block that has a row.
New ==
    /\ indexer.at = "start"
    /\ indexer' = [Start EXCEPT !.at = "run", !.current_height = get_latest_height]
    /\ UNCHANGED <<committed, tableVars, faults>>

\* Mutant: the row of a block is written after its events.
NextStage_RowLast(stage) ==
    CASE stage = "run" -> "events"
      [] stage = "events" -> "row"
      [] stage = "row" -> "done"

\* The order in which index_block writes.
NextStage(stage) ==
    CASE stage = "run" -> "row"
      [] stage = "row" -> "events"
      [] stage = "events" -> "done"

Indexing == [indexer EXCEPT !.at = NextStage("run"), !.event = 1]
Height == indexer.current_height + 1

\* The height of the node is read once for a round of blocks.
run ==
    /\ indexer.at = "run"
    /\ Len(committed) > indexer.current_height
    /\ indexer' = [Indexing EXCEPT !.target = Len(committed)]
    /\ UNCHANGED <<committed, tableVars, faults>>

insert_block ==
    /\ indexer.at = "row"
    /\ blocks' = blocks \cup {Height}
    /\ indexer' = [indexer EXCEPT !.at = NextStage("row")]
    /\ UNCHANGED <<committed, tables, candles, faults>>

Event == <<Height, indexer.event>>
AtEvent == indexer.at = "events" /\ indexer.event <= Len(committed[Height])
Skip == indexer' = [indexer EXCEPT !.at = "events", !.event = indexer.event + 1]

\* insert_block fails: run ends, and with it the process.
RowFails ==
    /\ indexer.at = "row"
    /\ indexer' = Start
    /\ UNCHANGED <<committed, tableVars, faults>>

\* An event that does not parse is passed over.  For one that does, one
\* statement; a conflict with a row that is there changes nothing.
process_event ==
    /\ AtEvent
    /\ tables' = IF Kind(Event) = "unparsed" THEN tables ELSE tables \cup {Event}
    /\ IF Kind(Event) = "taker"
       THEN indexer' = [indexer EXCEPT !.at = "candles", !.interval = 1]
       ELSE Skip
    /\ UNCHANGED <<committed, blocks, candles, faults>>

\* upsert_candle adds to the candle that the fill falls in.
upsert_candle ==
    LET k == <<Event, indexer.interval>>
    IN [x \in DOMAIN candles \cup {k} |->
           IF x = k THEN Counted(candles, Event, indexer.interval) + 1 ELSE candles[x]]

update_from_fill ==
    /\ indexer.at = "candles"
    /\ candles' = upsert_candle
    /\ IF indexer.interval < INTERVALS
       THEN indexer' = [indexer EXCEPT !.interval = @ + 1]
       ELSE Skip
    /\ UNCHANGED <<committed, blocks, tables, faults>>

Fault == faults < MaxFaults /\ faults' = faults + 1

\* A failed statement is logged and the event given up, with the candles of
\* the intervals that are left.
EventFails ==
    /\ Fault
    /\ AtEvent \/ indexer.at = "candles"
    /\ Skip
    /\ UNCHANGED <<committed, tableVars>>

EventsDone ==
    /\ indexer.at = "events" /\ indexer.event > Len(committed[Height])
    /\ indexer' = [indexer EXCEPT !.at = NextStage("events")]
    /\ UNCHANGED <<committed, tableVars, faults>>

\* The end of index_block, and the next block of the round.
BlockDone ==
    /\ indexer.at = "done"
    /\ indexer' = IF Height < indexer.target
                  THEN [Indexing EXCEPT !.current_height = Height]
                  ELSE [indexer EXCEPT !.current_height = Height, !.at = "run"]
    /\ UNCHANGED <<committed, tableVars, faults>>

\* The process dies.
Die ==
    /\ Fault
    /\ indexer.at # "start"
    /\ indexer' = Start
    /\ UNCHANGED <<committed, tableVars>>

IndexerStep ==
    \/ New \/ run \/ insert_block \/ RowFails \/ process_event \/ update_from_fill
    \/ EventsDone \/ BlockDone

-----------------------------------------------------------------------------

Takers == {e \in Events : Kind(e) = "taker"}

\* A candle counts a trade at most once, whatever fails and however often the
\* process starts again, although nothing marks a fill as counted; and as long
\* as no event has failed and the process has not died at one, it counts every
\* trade of the blocks that the indexer has left behind.
CandlesTrue ==
    \A e \in Takers, k \in 1..INTERVALS :
        /\ Counted(candles, e, k) <= 1
        /\ faults = 0 /\ e[1] <= indexer.current_height => Counted(candles, e, k) = 1
===============================================================================
