-------------------------------- MODULE WsFeed --------------------------------
(***************************************************************************)
(* From a committed block to a WebSocket client: the post-commit handler   *)
(* and the broadcaster task of node/src/main.rs,                           *)
(* gateway/src/event_broadcaster.rs, and the channels and the connection   *)
(* of gateway/src/websocket.rs.                                            *)
(*                                                                         *)
(* Three kinds of buffers, each with its own way of being full: the event  *)
(* channel, whose try_send gives up; the broadcast channels, which         *)
(* overwrite what a slow receiver has not read; and the client's channel,  *)
(* whose senders wait.                                                     *)
(***************************************************************************)
EXTENDS NodeEvents, FiniteSets, SequencesExt

CONSTANTS
    EventCap, ChannelCap, ClientCap,   \* 100, 1000 and 100 in the code
    NoMsg,
    MaxForwarders                      \* bound: accepted subscriptions

ASSUME FeedAssumption ==
    /\ EventCap \in Nat \ {0} /\ ChannelCap \in Nat \ {0} /\ ClientCap \in Nat \ {0}
    /\ MaxForwarders \in Nat /\ NoMsg \notin Nat \X Nat

VARIABLES
    queue,         \* the event channel: heights of blocks
    at,            \* the event <<height, i>> the broadcaster is at
    sent,          \* per broadcast channel: every event sent on it
    open, reader,  \* the connection; whether its reader has an answer to send
    subscriptions,
    forwarders,    \* the tasks that forward a channel to the client
    outbox,        \* the client's channel: <<forwarder, index>> or an answer
    delivered,     \* what the client was sent
    dropped        \* history: the blocks that did not fit the event channel

nodeVars == <<committed, queue, dropped>>
wsVars == <<open, reader, subscriptions, forwarders, outbox, delivered>>
feedVars == <<nodeVars, at, sent, wsVars>>

\* userOrders, userFills and userPositions of a user are one channel, as are
\* the books and the candles of a coin.
Channels == {"user", "trade"}
SubscriptionKeys == {"trades", "userFills", "userOrders"}
Channel(key) == IF key = "trades" THEN "trade" ELSE "user"

\* How many messages broadcast_event sends on each channel; an event that does
\* not parse is passed over.
Sends(kind) ==
    CASE kind = "taker" -> [user |-> 1, trade |-> 1]
      [] kind = "liquidation" -> [user |-> 2, trade |-> 0]
      [] kind \in {"maker", "placed", "canceled", "position"} -> [user |-> 1, trade |-> 0]
      [] OTHER -> [user |-> 0, trade |-> 0]

FeedInit ==
    /\ committed = <<>> /\ queue = <<>> /\ dropped = {}
    /\ at = NoMsg
    /\ sent = [c \in Channels |-> <<>>]
    /\ open = TRUE /\ reader = "idle"
    /\ subscriptions = {} /\ forwarders = <<>>
    /\ outbox = <<>> /\ delivered = <<>>

-----------------------------------------------------------------------------
(* The node *)

\* Mutant: a full channel loses its oldest entry.
Enqueue_DropOldest(q, h) == IF Len(q) < EventCap THEN Append(q, h) ELSE Append(Tail(q), h)

\* try_send.
Enqueue(q, h) == IF Len(q) < EventCap THEN Append(q, h) ELSE q

\* A block is committed, and the handler after it sends its events, if any.
PostCommit(block) ==
    LET h == Len(committed) + 1
    IN /\ committed' = Append(committed, block)
       /\ queue' = IF block = <<>> THEN queue ELSE Enqueue(queue, h)
       /\ dropped' = IF block # <<>> /\ Len(queue) >= EventCap THEN dropped \cup {h} ELSE dropped
       /\ UNCHANGED <<at, sent, wsVars>>

\* The broadcaster takes the next block.
TakeBlock ==
    /\ at = NoMsg /\ queue # <<>>
    /\ at' = <<Head(queue), 1>>
    /\ queue' = Tail(queue)
    /\ UNCHANGED <<committed, dropped, sent, wsVars>>

\* The messages of an event go out on their channels, whether anyone listens
\* or not.
broadcast_event ==
    /\ at # NoMsg
    /\ sent' = [c \in Channels |-> sent[c] \o [j \in 1..Sends(Kind(at))[c] |-> at]]
    /\ at' = IF at[2] < Len(committed[at[1]]) THEN <<at[1], at[2] + 1>> ELSE NoMsg
    /\ UNCHANGED <<nodeVars, wsVars>>

-----------------------------------------------------------------------------
(* The connection *)

HasRoom == Len(outbox) < ClientCap

\* A subscription that is known already is ignored.  A new one gets a task of
\* its own, which starts with the next message of the channel, and an answer.
Subscribe(key) ==
    /\ open /\ reader = "idle"
    /\ key \notin subscriptions
    /\ Len(forwarders) < MaxForwarders
    /\ LET next == Len(sent[Channel(key)]) + 1
       IN forwarders' = Append(forwarders, [channel |-> Channel(key), first |-> next,
                                            next |-> next, held |-> FALSE, ended |-> FALSE])
    /\ subscriptions' = subscriptions \cup {key}
    /\ reader' = "answer"
    /\ UNCHANGED <<nodeVars, at, sent, open, outbox, delivered>>

Answer ==
    /\ reader = "answer"
    /\ HasRoom
    /\ outbox' = Append(outbox, NoMsg)
    /\ reader' = "idle"
    /\ UNCHANGED <<nodeVars, at, sent, open, subscriptions, forwarders, delivered>>

\* The task of the subscription goes on.
Unsubscribe(key) ==
    /\ open /\ reader = "idle"
    /\ key \in subscriptions
    /\ subscriptions' = subscriptions \ {key}
    /\ UNCHANGED <<nodeVars, at, sent, open, reader, forwarders, outbox, delivered>>

\* More messages were sent than the channel keeps.
Lagged(f) == Len(sent[f.channel]) - f.next + 1 > ChannelCap

Oldest(f) == Len(sent[f.channel]) - ChannelCap + 1

\* Mutant: a receiver that lagged goes on with the oldest message there is.
OnLag_Resume(f) == [f EXCEPT !.next = Oldest(f)]

\* recv gives an error to a receiver that lagged, and the loop ends.
OnLag(f) == [f EXCEPT !.ended = TRUE]

ForwarderRecv(i) ==
    LET f == forwarders[i]
    IN /\ open /\ ~f.ended /\ ~f.held
       /\ f.next <= Len(sent[f.channel])
       /\ forwarders' = [forwarders EXCEPT ![i] =
                            IF Lagged(f) THEN OnLag(f) ELSE [f EXCEPT !.held = TRUE]]
       /\ UNCHANGED <<nodeVars, at, sent, open, reader, subscriptions, outbox, delivered>>

ForwarderSend(i) ==
    /\ open /\ forwarders[i].held
    /\ HasRoom
    /\ outbox' = Append(outbox, <<i, forwarders[i].next>>)
    /\ forwarders' = [forwarders EXCEPT ![i].held = FALSE, ![i].next = @ + 1]
    /\ UNCHANGED <<nodeVars, at, sent, open, reader, subscriptions, delivered>>

\* The send task writes to the socket.
SendTask ==
    /\ open /\ outbox # <<>>
    /\ outbox' = Tail(outbox)
    /\ delivered' = Append(delivered, Head(outbox))
    /\ UNCHANGED <<nodeVars, at, sent, open, reader, subscriptions, forwarders>>

\* The reader ends and aborts the send task; the sends of the others fail.
Disconnect ==
    /\ open /\ reader = "idle"
    /\ open' = FALSE
    /\ outbox' = <<>>
    /\ UNCHANGED <<nodeVars, at, sent, reader, subscriptions, forwarders, delivered>>

BroadcasterStep == TakeBlock \/ broadcast_event

ClientStep ==
    \/ \E key \in SubscriptionKeys : Subscribe(key) \/ Unsubscribe(key)
    \/ Disconnect

-----------------------------------------------------------------------------

\* What the client gets, and where forwarder i's messages are in it.
Stream == delivered \o outbox
From(i) == {p \in DOMAIN Stream : Stream[p] # NoMsg /\ Stream[p][1] = i}

\* What a client gets from a subscription is an unbroken run of what its
\* channel was sent, from the moment of the subscription on: a client that is
\* too slow is cut off, which it is not told, but does not get later messages
\* with some missing before them.
NoGap ==
    \A i \in DOMAIN forwarders :
        \A p \in From(i) :
            /\ Stream[p][2] = forwarders[i].first + Cardinality({q \in From(i) : q < p})
            /\ Stream[p][2] \in DOMAIN sent[forwarders[i].channel]

\* Whether all events of a block have been through the broadcaster.
Through(h) == h \notin Range(queue) /\ (at # NoMsg => at[1] # h)

\* Whether event d comes no later than event e, and where e is in a channel.
NotAfter(d, e) == d[1] < e[1] \/ (d[1] = e[1] /\ d[2] <= e[2])
Copies(c, e) == {i \in DOMAIN sent[c] : sent[c][i] = e}

\* The feed follows the chain: blocks in their order, the events of a block in
\* theirs and all of them that parse, except for blocks that were committed
\* while the event channel was full, and then the whole block.
FeedFollowsChain ==
    \A c \in Channels :
        /\ \A i \in DOMAIN sent[c] : sent[c][i] \in Events
        /\ \A i, j \in DOMAIN sent[c] : i < j => NotAfter(sent[c][i], sent[c][j])
        /\ \A e \in Events :
              Through(e[1]) =>
                  Cardinality(Copies(c, e)) = IF e[1] \in dropped THEN 0 ELSE Sends(Kind(e))[c]
===============================================================================
