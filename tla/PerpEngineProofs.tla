-------------------------- MODULE PerpEngineProofs --------------------------
(* Proofs about the perp engine: its types, the agreement of the book with *)
(* the orders map, the sweep of the trigger orders, the size of the fills  *)
(* and the sum of the positions.                                           *)
EXTENDS PerpEngine, SumTheorems, SequenceTheorems, TLAPS

USE DEF Sides, Directions

-----------------------------------------------------------------------------
(* The inductive invariant *)

IdsGivenOut ==
    /\ \A i \in DOMAIN book : i < next_order_id
    /\ pc # "idle" => taker.id < next_order_id
    /\ last_trade < next_order_id

\* The order being placed is new to the book until it rests there.
TakerInBook ==
    /\ pc = "match" => taker.id \notin DOMAIN book
    /\ pc = "fill" /\ taker.id \in DOMAIN book => Rests

\* Fills are pending only for a taker whose remaining size has shrunk.
FillsShrinkTaker ==
    pc # "idle" =>
        /\ taker.remaining <= taker.size
        /\ fills # <<>> => Traded

\* TriggersSwept at every point where the mark price has not moved since the
\* last sweep.
SweptOrTrading ==
    (pc = "fill" => ~Traded) /\ mark_price # 0 =>
        \A i \in DOMAIN triggers :
            Met(triggers[i].request.trigger, mark_price) => i > last_trade

PerpInv ==
    /\ PerpTypeOK
    /\ IdsGivenOut
    /\ TakerInBook
    /\ FillsShrinkTaker
    /\ BookIsListed
    /\ SweptOrTrading

-----------------------------------------------------------------------------
(* Operators *)

\* Prices of any sign have a smoothed mark price.
LEMMA SmoothedInt ==
    ASSUME NEW mark \in Int, NEW price \in Int
    PROVE  smoothed(mark, price) \in Int
  BY DEF smoothed, Truncated

\* Removing ids from a map of orders or of trigger orders.
LEMMA Removing ==
    ASSUME NEW map, NEW ids
    PROVE  /\ DOMAIN RemoveFrom(map, ids) = DOMAIN map \ ids
           /\ \A i \in DOMAIN map \ ids : RemoveFrom(map, ids)[i] = map[i]
           /\ IsOrderMap(map) => IsOrderMap(RemoveFrom(map, ids))
           /\ IsTriggerMap(map) => IsTriggerMap(RemoveFrom(map, ids))
  BY DEF RemoveFrom, Restrict, IsOrderMap, IsTriggerMap

\* The empty map is a map of orders and of trigger orders.
LEMMA EmptyMaps == IsOrderMap(EmptyMap) /\ IsTriggerMap(EmptyMap) /\ DOMAIN EmptyMap = {}
  BY DEF EmptyMap, IsOrderMap, IsTriggerMap

\* A fill takes at most what either side has left.
LEMMA FillSize ==
    ASSUME NEW x \in Nat, NEW y \in Nat, x > 0, y > 0
    PROVE  /\ fill_size(x, y) \in Nat /\ fill_size(x, y) > 0
           /\ fill_size(x, y) <= x /\ fill_size(x, y) <= y
  BY DEF fill_size

\* Consume keeps an order map, its prices and positive sizes, and no order
\* grows.
LEMMA Consuming ==
    ASSUME NEW b, IsOrderMap(b), \A j \in DOMAIN b : b[j].remaining > 0,
           NEW i \in DOMAIN b, NEW size \in Nat, size > 0, size <= b[i].remaining
    PROVE  LET c == Consume(b, i, size)
           IN  /\ IsOrderMap(c)
               /\ DOMAIN c \subseteq DOMAIN b
               /\ \A j \in DOMAIN c :
                    /\ c[j].remaining > 0 /\ c[j].remaining <= b[j].remaining
                    /\ c[j].owner = b[j].owner /\ c[j].side = b[j].side
                    /\ c[j].price = b[j].price /\ c[j].size = b[j].size
  <1>1. CASE b[i].remaining = size
    <2>1. PICK c : c = RemoveFrom(b, {i})
      OBVIOUS
    <2>2. /\ IsOrderMap(c) /\ DOMAIN c = DOMAIN b \ {i}
          /\ \A j \in DOMAIN c : c[j] = b[j]
      <3>1. /\ DOMAIN RemoveFrom(b, {i}) = DOMAIN b \ {i}
            /\ \A j \in DOMAIN b \ {i} : RemoveFrom(b, {i})[j] = b[j]
            /\ IsOrderMap(RemoveFrom(b, {i}))
        BY Removing, Zenon
      <3>2. QED
        BY <2>1, <3>1, Zenon
    <2>3. \A j \in DOMAIN b : b[j].remaining \in Nat
      BY DEF IsOrderMap, Order
    <2>4. Consume(b, i, size) = c
      BY <1>1, <2>1 DEF Consume
    <2>5. \A j \in DOMAIN c :
            /\ c[j].remaining > 0 /\ c[j].remaining <= b[j].remaining
            /\ c[j].owner = b[j].owner /\ c[j].side = b[j].side
            /\ c[j].price = b[j].price /\ c[j].size = b[j].size
      BY <2>2, <2>3
    <2>6. QED
      BY <2>2, <2>4, <2>5, Zenon
  <1>2. CASE b[i].remaining # size
    <2>1. PICK c : c = [b EXCEPT ![i].remaining = @ - size]
      OBVIOUS
    <2>2. DOMAIN c = DOMAIN b
      BY <2>1
    <2>3. b[i] \in Order /\ b[i].remaining \in Nat
      BY DEF IsOrderMap, Order
    <2>4. \A j \in DOMAIN b : j # i => c[j] = b[j]
      BY <2>1
    <2>5. c[i] = [b[i] EXCEPT !.remaining = @ - size]
      BY <2>1
    <2>6. b[i].remaining - size \in Nat /\ b[i].remaining - size > 0
      BY <1>2, <2>3
    <2>7. /\ c[i] \in Order /\ c[i].remaining > 0 /\ c[i].remaining <= b[i].remaining
          /\ c[i].owner = b[i].owner /\ c[i].side = b[i].side
          /\ c[i].price = b[i].price /\ c[i].size = b[i].size
      BY <2>3, <2>5, <2>6 DEF Order
    <2>8. \A j \in DOMAIN b : b[j] \in Order /\ b[j].remaining \in Nat
      BY DEF IsOrderMap, Order
    <2>9. IsOrderMap(c)
      <3>1. c = [j \in DOMAIN b |-> c[j]]
        BY <2>1
      <3>2. \A j \in DOMAIN b : c[j] \in Order
        BY <2>4, <2>7, <2>8
      <3>3. QED
        BY <2>2, <3>1, <3>2 DEF IsOrderMap
    <2>10. Consume(b, i, size) = c
      BY <1>2, <2>1 DEF Consume
    <2>11. \A j \in DOMAIN c :
            /\ c[j].remaining > 0 /\ c[j].remaining <= b[j].remaining
            /\ c[j].owner = b[j].owner /\ c[j].side = b[j].side
            /\ c[j].price = b[j].price /\ c[j].size = b[j].size
      <3>1. TAKE j \in DOMAIN c
      <3>2. CASE j = i
        BY <2>7, <3>2
      <3>3. CASE j # i
        BY <2>2, <2>4, <2>8, <3>3
      <3>4. QED
        BY <3>2, <3>3
    <2>12. QED
      BY <2>2, <2>9, <2>10, <2>11, Zenon
  <1>3. QED
    BY <1>1, <1>2

-----------------------------------------------------------------------------
(* place_order up to the matching *)

\* Accept keeps the invariant, whether the order is stored or goes on to match.
LEMMA AcceptKeeps ==
    ASSUME PerpInv, pc = "idle", NEW a \in Accounts, NEW r \in Request,
           next_order_id <= MaxOrders, Accept(a, r),
           frames' \in Seq(Range(frames')), \A t \in Range(frames') : IsTriggerMap(t)
    PROVE  PerpInv'
  <1>1. /\ next_order_id \in OrderIds /\ next_order_id \in Nat
        /\ next_order_id' = next_order_id + 1
        /\ next_order_id' \in 1..(MaxOrders + 1)
    BY BoundsAssumption, SMTT(40) DEF PerpInv, PerpTypeOK, Accept, OrderIds
  <1>3. /\ accounts' \subseteq Accounts
        /\ UNCHANGED <<marketVars, bookVars, historyVars>>
    BY DEF PerpInv, PerpTypeOK, Accept
  <1>4. CASE r.trigger # NoTrigger
    <2>1. /\ triggers' = [i \in DOMAIN triggers \cup {next_order_id} |->
                            IF i = next_order_id THEN [owner |-> a, request |-> r]
                                                 ELSE triggers[i]]
          /\ UNCHANGED <<pc, taker, fills>>
      BY <1>4 DEF Accept
    <2>2. IsTriggerMap(triggers')
      BY <1>1, <2>1 DEF PerpInv, PerpTypeOK, IsTriggerMap, TriggerOrder
    <2>3. PerpTypeOK'
      BY <1>1, <1>3, <2>1, <2>2
      DEF PerpInv, PerpTypeOK, marketVars, bookVars, historyVars, IsOrderMap
    <2>4. IdsGivenOut' /\ TakerInBook' /\ FillsShrinkTaker' /\ BookIsListed'
      BY <1>1, <1>3, <2>1
      DEF PerpInv, PerpTypeOK, IdsGivenOut, TakerInBook, FillsShrinkTaker,
          BookIsListed, marketVars, bookVars, historyVars, IsOrderMap, OrderIds
    <2>5. SweptOrTrading'
      BY <1>1, <1>3, <2>1
      DEF PerpInv, PerpTypeOK, IdsGivenOut, SweptOrTrading, marketVars, historyVars
    <2>6. QED
      BY <2>3, <2>4, <2>5 DEF PerpInv
  <1>5. CASE r.trigger = NoTrigger
    <2>1. /\ taker' = [id |-> next_order_id, owner |-> a, side |-> r.side,
                       price |-> r.price, size |-> r.size, remaining |-> r.size,
                       tif |-> r.tif]
          /\ pc' = "match" /\ fills' = <<>> /\ triggers' = triggers
      BY <1>5 DEF Accept
    <2>2. taker' \in TakerOrder
      BY <1>1, <2>1 DEF TakerOrder, Request
    <2>3. fills' \in Seq(PerpFill) /\ DOMAIN fills' = {}
      BY <2>1
    <2>4. PerpTypeOK'
      BY <1>1, <1>3, <2>1, <2>2, <2>3
      DEF PerpInv, PerpTypeOK, marketVars, bookVars, historyVars, IsOrderMap, IsTriggerMap
    <2>5. IdsGivenOut'
      BY <1>1, <1>3, <2>1, <2>3
      DEF PerpInv, PerpTypeOK, IdsGivenOut, bookVars, historyVars, IsOrderMap,
          OrderIds
    <2>6. TakerInBook' /\ FillsShrinkTaker'
      BY <1>1, <1>3, <2>1
      DEF PerpInv, PerpTypeOK, IdsGivenOut, TakerInBook, FillsShrinkTaker, bookVars, Request
    <2>7. BookIsListed'
      BY <1>3, <2>1 DEF PerpInv, BookIsListed, bookVars
    <2>8. SweptOrTrading'
      BY <1>3, <2>1 DEF PerpInv, SweptOrTrading, marketVars, historyVars
    <2>9. QED
      BY <2>4, <2>5, <2>6, <2>7, <2>8 DEF PerpInv
  <1>6. QED
    BY <1>4, <1>5

\* A refused order changes nothing but the set of accounts.
LEMMA RefuseKeeps ==
    ASSUME PerpInv, NEW a \in Accounts, NEW r \in Request, Refuse(a, r),
           frames' \in Seq(Range(frames')), \A t \in Range(frames') : IsTriggerMap(t)
    PROVE  PerpInv'
  <1>1. /\ accounts' = accounts \cup {a}
        /\ UNCHANGED <<marketVars, bookVars, triggers, next_order_id, pc, taker,
                       fills, historyVars>>
    BY DEF Refuse
  <1>2. PerpTypeOK'
    BY <1>1 DEF PerpInv, PerpTypeOK, marketVars, bookVars, historyVars, IsOrderMap,
                IsTriggerMap
  <1>3. /\ IdsGivenOut' /\ TakerInBook' /\ FillsShrinkTaker'
        /\ BookIsListed' /\ SweptOrTrading'
    BY <1>1 DEF PerpInv, IdsGivenOut, TakerInBook, FillsShrinkTaker,
                BookIsListed, SweptOrTrading, Rests, Traded, marketVars, bookVars,
                historyVars
  <1>4. QED
    BY <1>2, <1>3 DEF PerpInv
-----------------------------------------------------------------------------
(* The matching loop *)

\* A turn of the loop in which no order of the book grows, and in which the
\* taker shrinks when there are fills, keeps the invariant.
LEMMA ShrinkingKeeps ==
    ASSUME PerpInv, pc = "match",
           UNCHANGED <<accounts, marketVars, orders, triggers, next_order_id, pc,
                       frames, historyVars>>,
           IsOrderMap(book'), DOMAIN book' \subseteq DOMAIN book,
           \A j \in DOMAIN book' :
              /\ book'[j].remaining > 0 /\ book'[j].remaining <= book[j].remaining
              /\ book'[j].owner = book[j].owner /\ book'[j].side = book[j].side
              /\ book'[j].price = book[j].price /\ book'[j].size = book[j].size,
           fills' \in Seq(PerpFill),
           taker' \in TakerOrder, taker'.id = taker.id, taker'.price = taker.price,
           taker'.remaining <= taker'.size,
           fills' # <<>> => taker'.remaining < taker'.size
    PROVE  PerpInv'
  <1>1. PerpTypeOK'
    BY DEF PerpInv, PerpTypeOK, marketVars, historyVars, IsOrderMap, IsTriggerMap
  <1>2. IdsGivenOut' /\ TakerInBook' /\ FillsShrinkTaker'
    BY DEF PerpInv, IdsGivenOut, TakerInBook, FillsShrinkTaker, Traded,
           historyVars
  <1>3. \A j \in DOMAIN book : book[j].remaining \in Nat
    BY DEF PerpInv, PerpTypeOK, IsOrderMap, Order
  <1>4. \A j \in DOMAIN book' : book'[j].remaining \in Nat
    BY DEF IsOrderMap, Order
  <1>5. \A j \in DOMAIN orders : orders[j].remaining \in Nat
    BY DEF PerpInv, PerpTypeOK, IsOrderMap, Order
  <1>6. BookIsListed'
    BY <1>3, <1>4, <1>5 DEF PerpInv, BookIsListed
  <1>7. SweptOrTrading'
    BY DEF PerpInv, SweptOrTrading, marketVars, historyVars
  <1>8. QED
    BY <1>1, <1>2, <1>6, <1>7 DEF PerpInv

\* One turn of the loop keeps the invariant: a removed or reduced maker stays
\* listed, and a fill leaves the taker smaller.
LEMMA MatchMakerKeeps ==
    ASSUME PerpInv, NEW i \in OrderIds, MatchMaker(i)
    PROVE  PerpInv'
  <1>1. /\ pc = "match" /\ taker \in TakerOrder
        /\ IsOrderMap(book) /\ \A j \in DOMAIN book : book[j].remaining > 0
        /\ fills \in Seq(PerpFill)
    BY DEF PerpInv, PerpTypeOK, MatchMaker
  <1>2. i \in DOMAIN book /\ taker.remaining > 0
    BY DEF MatchMaker, Matchable, IsBest, Resting
  <1>3. UNCHANGED <<accounts, marketVars, orders, triggers, next_order_id, pc,
                    frames, historyVars>>
    BY DEF MatchMaker
  <1>4. /\ taker.remaining \in Nat /\ taker.size \in Nat /\ taker.remaining <= taker.size
        /\ fills # <<>> => taker.remaining < taker.size
    BY <1>1 DEF PerpInv, FillsShrinkTaker, Traded, TakerOrder
  <1>5. CASE book[i].owner = taker.owner
    <2>1. book' = RemoveFrom(book, {i}) /\ UNCHANGED <<taker, fills>>
      BY <1>5 DEF MatchMaker
    <2>2. /\ IsOrderMap(book') /\ DOMAIN book' = DOMAIN book \ {i}
          /\ \A j \in DOMAIN book' : book'[j] = book[j]
      <3>1. /\ DOMAIN RemoveFrom(book, {i}) = DOMAIN book \ {i}
            /\ \A j \in DOMAIN book \ {i} : RemoveFrom(book, {i})[j] = book[j]
            /\ IsOrderMap(RemoveFrom(book, {i}))
        BY <1>1, Removing, Zenon
      <3>2. QED
        BY <2>1, <3>1, Zenon
    <2>3. \A j \in DOMAIN book : book[j].remaining \in Nat
      BY <1>1 DEF IsOrderMap, Order
    <2>4. QED
      <3>1. \A j \in DOMAIN book' :
              /\ book'[j].remaining > 0 /\ book'[j].remaining <= book[j].remaining
              /\ book'[j].owner = book[j].owner /\ book'[j].side = book[j].side
              /\ book'[j].price = book[j].price /\ book'[j].size = book[j].size
        BY <1>1, <2>2, <2>3
      <3>2. DOMAIN book' \subseteq DOMAIN book
        BY <2>2
      <3>3. QED
        BY <1>1, <1>3, <1>4, <2>1, <2>2, <3>1, <3>2, ShrinkingKeeps
  <1>6. CASE book[i].owner # taker.owner
    <2>1. PICK size : size = fill_size(taker.remaining, book[i].remaining)
      OBVIOUS
    <2>2. /\ fills' = Append(fills, [maker |-> book[i].owner, maker_id |-> i,
                                     price |-> book[i].price, size |-> size])
          /\ taker' = [taker EXCEPT !.remaining = @ - size]
          /\ book' = Consume(book, i, size)
      BY <1>6, <2>1 DEF MatchMaker
    <2>3. /\ book[i].owner \in Accounts /\ book[i].remaining \in Nat
          /\ book[i].remaining > 0 /\ book[i].price \in Int
      BY <1>1, <1>2 DEF PerpInv, IsOrderMap, Order
    <2>4. /\ size \in Nat /\ size > 0
          /\ size <= taker.remaining /\ size <= book[i].remaining
      BY <1>2, <1>4, <2>1, <2>3, FillSize
    <2>5. taker.remaining - size \in Nat
      BY <1>4, <2>4
    <2>6. /\ taker' \in TakerOrder
          /\ taker'.id = taker.id /\ taker'.price = taker.price
          /\ taker'.remaining = taker.remaining - size /\ taker'.size = taker.size
      BY <1>1, <2>2, <2>5 DEF TakerOrder
    <2>7. taker'.remaining < taker'.size /\ taker'.remaining <= taker'.size
      BY <1>4, <2>4, <2>6
    <2>8. [maker |-> book[i].owner, maker_id |-> i, price |-> book[i].price,
           size |-> size] \in PerpFill
      BY <2>3, <2>4 DEF PerpFill
    <2>9. fills' \in Seq(PerpFill)
      BY <1>1, <1>4, <2>2, <2>3, <2>8
    <2>10. /\ IsOrderMap(book') /\ DOMAIN book' \subseteq DOMAIN book
           /\ \A j \in DOMAIN book' :
                /\ book'[j].remaining > 0 /\ book'[j].remaining <= book[j].remaining
                /\ book'[j].owner = book[j].owner /\ book'[j].side = book[j].side
                /\ book'[j].price = book[j].price /\ book'[j].size = book[j].size
      <3>1. LET c == Consume(book, i, size)
            IN  /\ IsOrderMap(c)
                /\ DOMAIN c \subseteq DOMAIN book
                /\ \A j \in DOMAIN c :
                     /\ c[j].remaining > 0 /\ c[j].remaining <= book[j].remaining
                     /\ c[j].owner = book[j].owner /\ c[j].side = book[j].side
                     /\ c[j].price = book[j].price /\ c[j].size = book[j].size
        BY <1>1, <1>2, <2>4, Consuming, Zenon
      <3>2. QED
        BY <2>2, <3>1, Zenon
    <2>11. QED
      BY <1>1, <1>3, <2>6, <2>7, <2>9, <2>10, ShrinkingKeeps
  <1>7. QED
    BY <1>5, <1>6

\* The taker, put into a map of orders.
LEMMA TakerEnters ==
    ASSUME NEW map, IsOrderMap(map), taker \in TakerOrder
    PROVE  /\ IsOrderMap(WithTaker(map))
           /\ DOMAIN WithTaker(map) = DOMAIN map \cup {taker.id}
           /\ WithTaker(map)[taker.id] = RestingOrder(taker)
           /\ \A j \in DOMAIN map \ {taker.id} : WithTaker(map)[j] = map[j]
  <1>1. RestingOrder(taker) \in Order /\ taker.id \in OrderIds
    BY DEF RestingOrder, Order, TakerOrder
  <1>2. QED
    BY <1>1 DEF WithTaker, IsOrderMap

\* Synchronising the makers keeps every order of the book in the orders map.
LEMMA Synced ==
    ASSUME PerpInv, pc = "match"
    PROVE  /\ IsOrderMap(SyncedOrders)
           /\ \A j \in DOMAIN book :
                /\ j \in DOMAIN SyncedOrders
                /\ SyncedOrders[j].owner = book[j].owner
                /\ SyncedOrders[j].side = book[j].side
                /\ SyncedOrders[j].price = book[j].price
                /\ SyncedOrders[j].size = book[j].size
                /\ book[j].remaining <= SyncedOrders[j].remaining
  <1>1. PICK S : S = SyncedOrders
    OBVIOUS
  <1>2. IsOrderMap(orders) /\ IsOrderMap(book)
    BY DEF PerpInv, PerpTypeOK
  <1>3. DOMAIN S = DOMAIN orders \ (Makers \ DOMAIN book)
    BY <1>1 DEF SyncedOrders
  <1>4. \A j \in DOMAIN S :
          /\ j \notin Makers => S[j] = orders[j]
          /\ j \in Makers => /\ j \in DOMAIN book
                             /\ S[j] = [orders[j] EXCEPT !.remaining = book[j].remaining]
    BY <1>1, <1>3 DEF SyncedOrders
  <1>5. \A j \in DOMAIN orders : orders[j] \in Order /\ orders[j].remaining \in Nat
    BY <1>2 DEF IsOrderMap, Order
  <1>6. \A j \in DOMAIN book : book[j].remaining \in Nat
    BY <1>2 DEF IsOrderMap, Order
  <1>7. ASSUME NEW j \in DOMAIN S
        PROVE  /\ S[j] \in Order
               /\ S[j].owner = orders[j].owner /\ S[j].side = orders[j].side
               /\ S[j].price = orders[j].price /\ S[j].size = orders[j].size
               /\ S[j].remaining \in {orders[j].remaining, book[j].remaining}
    <2>1. orders[j] \in Order
      BY <1>3, <1>5
    <2>2. CASE j \in Makers
      <3>1. /\ book[j].remaining \in Nat
            /\ S[j] = [orders[j] EXCEPT !.remaining = book[j].remaining]
        BY <1>4, <1>6, <2>2
      <3>2. QED
        BY <2>1, <3>1 DEF Order
    <2>3. CASE j \notin Makers
      BY <1>4, <2>1, <2>3
    <2>4. QED
      BY <2>2, <2>3
  <1>8. IsOrderMap(S)
    <2>1. S = [j \in DOMAIN S |-> S[j]]
      BY <1>1 DEF SyncedOrders
    <2>2. \A j \in DOMAIN S : S[j] \in Order
      BY <1>7
    <2>3. DOMAIN S \subseteq OrderIds
      BY <1>2, <1>3 DEF IsOrderMap
    <2>4. QED
      BY <2>1, <2>2, <2>3 DEF IsOrderMap
  <1>9. ASSUME NEW j \in DOMAIN book
        PROVE  /\ j \in DOMAIN S
               /\ S[j].owner = book[j].owner /\ S[j].side = book[j].side
               /\ S[j].price = book[j].price /\ S[j].size = book[j].size
               /\ book[j].remaining <= S[j].remaining
    <2>1. /\ j \in DOMAIN orders
          /\ orders[j].owner = book[j].owner /\ orders[j].side = book[j].side
          /\ orders[j].price = book[j].price /\ orders[j].size = book[j].size
          /\ book[j].remaining <= orders[j].remaining
      BY DEF PerpInv, BookIsListed
    <2>2. j \in DOMAIN S
      BY <1>3, <2>1
    <2>3. book[j].remaining \in Nat
      BY <1>6
    <2>4. QED
      BY <1>7, <2>1, <2>2, <2>3
  <1>10. QED
    BY <1>1, <1>8, <1>9, Zenon
\* The end of the matching keeps the invariant, also when the call fails there
\* and its fills are lost.
LEMMA EndMatchingKeeps ==
    ASSUME PerpInv, EndMatching
    PROVE  PerpInv'
  <1>1. /\ pc = "match" /\ taker \in TakerOrder /\ IsOrderMap(book)
        /\ UNCHANGED <<accounts, marketVars, triggers, next_order_id, frames, historyVars>>
    BY DEF PerpInv, PerpTypeOK, EndMatching
  <1>2. CASE handle_unfilled_fails
    <2>1. /\ pc' = "idle" /\ taker' = NoTaker /\ fills' = <<>> /\ UNCHANGED bookVars
      BY <1>2 DEF EndMatching
    <2>2. fills' \in Seq(PerpFill) /\ DOMAIN fills' = {}
      BY <2>1
    <2>3. PerpTypeOK'
      BY <1>1, <2>1, <2>2
      DEF PerpInv, PerpTypeOK, marketVars, bookVars, historyVars, IsOrderMap, IsTriggerMap
    <2>4. IdsGivenOut' /\ TakerInBook' /\ FillsShrinkTaker' /\ BookIsListed'
      BY <1>1, <2>1, <2>2
      DEF PerpInv, IdsGivenOut, TakerInBook, FillsShrinkTaker, BookIsListed,
          bookVars, historyVars
    <2>5. SweptOrTrading'
      BY <1>1, <2>1 DEF PerpInv, SweptOrTrading, marketVars, historyVars
    <2>6. QED
      BY <2>3, <2>4, <2>5 DEF PerpInv
  <1>3. CASE ~handle_unfilled_fails
    <2>1. /\ pc' = "fill" /\ orders' = SyncedOrders /\ UNCHANGED <<taker, fills>>
          /\ book' = IF Rests THEN WithTaker(book) ELSE book
      BY <1>3 DEF EndMatching
    <2>2. /\ IsOrderMap(orders')
          /\ \A j \in DOMAIN book :
                /\ j \in DOMAIN orders'
                /\ orders'[j].owner = book[j].owner
                /\ orders'[j].side = book[j].side
                /\ orders'[j].price = book[j].price
                /\ orders'[j].size = book[j].size
                /\ book[j].remaining <= orders'[j].remaining
      BY <1>1, <2>1, Synced, Zenon
    <2>3. /\ IsOrderMap(WithTaker(book))
          /\ DOMAIN WithTaker(book) = DOMAIN book \cup {taker.id}
          /\ WithTaker(book)[taker.id] = RestingOrder(taker)
          /\ \A j \in DOMAIN book \ {taker.id} : WithTaker(book)[j] = book[j]
      BY <1>1, TakerEnters, Zenon
    <2>4. /\ RestingOrder(taker).price = taker.price
          /\ RestingOrder(taker).remaining = taker.remaining
      BY DEF RestingOrder
    <2>5. /\ IsOrderMap(book')
          /\ DOMAIN book' \subseteq DOMAIN book \cup {taker.id}
          /\ taker.id \in DOMAIN book' => Rests
          /\ \A j \in DOMAIN book' :
               \/ j \in DOMAIN book /\ j # taker.id /\ book'[j] = book[j]
               \/ /\ j = taker.id /\ Rests /\ book'[j].price = taker.price
                  /\ book'[j].remaining = taker.remaining
      <3>1. taker.id \notin DOMAIN book
        BY <1>1 DEF PerpInv, TakerInBook
      <3>2. CASE Rests
        BY <2>1, <2>3, <2>4, <3>1, <3>2
      <3>3. CASE ~Rests
        BY <1>1, <2>1, <3>1, <3>3
      <3>4. QED
        BY <3>2, <3>3
    <2>6. \A j \in DOMAIN book' : book'[j].remaining > 0
      BY <2>5 DEF PerpInv, PerpTypeOK, Rests
    <2>7. PerpTypeOK'
      BY <1>1, <2>1, <2>2, <2>5, <2>6
      DEF PerpInv, PerpTypeOK, marketVars, historyVars, IsOrderMap, IsTriggerMap
    <2>8. IdsGivenOut'
      BY <1>1, <2>1, <2>5 DEF PerpInv, IdsGivenOut, historyVars
    <2>9. TakerInBook' /\ FillsShrinkTaker'
      BY <1>1, <2>1, <2>5 DEF PerpInv, TakerInBook, FillsShrinkTaker, Rests, Traded
    <2>10. BookIsListed'
      BY <2>1, <2>2, <2>5 DEF BookIsListed
    <2>11. SweptOrTrading'
      BY <1>1, <2>1 DEF PerpInv, SweptOrTrading, marketVars, historyVars
    <2>12. QED
      BY <2>7, <2>8, <2>9, <2>10, <2>11 DEF PerpInv
  <1>4. QED
    BY <1>2, <1>3

-----------------------------------------------------------------------------
(* The fills *)

\* A fill keeps the invariant: the trigger orders that the new mark price meets
\* wait for the sweep at the end of the call.
LEMMA ApplyFillKeeps ==
    ASSUME PerpInv, apply_fill
    PROVE  PerpInv'
  <1>1. /\ pc = "fill" /\ fills # <<>> /\ taker \in TakerOrder
        /\ fills \in Seq(PerpFill) /\ fills' = Tail(fills)
        /\ last_trade' = taker.id
        /\ UNCHANGED <<accounts, bookVars, next_order_id, pc, taker, frames, liquidations>>
    BY DEF PerpInv, PerpTypeOK, apply_fill
  <1>2. PICK f : f = Head(fills)
    OBVIOUS
  <1>3. f \in PerpFill /\ fills' \in Seq(PerpFill)
    BY <1>1, <1>2, SMTT(40) DEF PerpInv
  <1>4. PICK gone : triggers' = RemoveFrom(triggers, gone)
    BY DEF apply_fill
  <1>5. IsTriggerMap(triggers')
    BY <1>4, Removing, Zenon DEF PerpInv, PerpTypeOK
  <1>6. mark_price' \in Int
    <2>1. mark_price' = smoothed(mark_price, f.price)
      BY <1>2 DEF apply_fill
    <2>2. f.price \in Int /\ mark_price \in Int
      BY <1>3 DEF PerpFill, PerpInv, PerpTypeOK
    <2>3. QED
      BY <1>3, <2>1, <2>2, SmoothedInt
  <1>7. /\ f.maker \in Accounts /\ f.maker_id \in OrderIds /\ f.size \in Nat
        /\ taker.owner \in Accounts /\ taker.id \in OrderIds /\ taker.id \in Nat
    BY <1>1, <1>3 DEF PerpFill, TakerOrder, OrderIds
  <1>8. PICK signed : signed = Signed(taker.side, f.size)
    OBVIOUS
  <1>9. signed \in Int
    BY <1>7, <1>8 DEF Signed
  <1>10. positions \in [Accounts -> Int]
    BY DEF PerpInv, PerpTypeOK
  <1>11. PICK ma, ta : /\ ma = positions[f.maker] - signed
                       /\ ta = positions[taker.owner] + signed
    OBVIOUS
  <1>12. ma \in Int /\ ta \in Int
    BY <1>7, <1>9, <1>10, <1>11
  <1>13. positions' \in [Accounts -> Int]
    <2>1. positions' = [positions EXCEPT ![f.maker] = ma, ![taker.owner] = ta]
      BY <1>2, <1>8, <1>11 DEF apply_fill
    <2>2. QED
      BY <1>10, <1>12, <2>1
  <1>14. open_interest_long' \in Int /\ open_interest_short' \in Int
    <2>1. /\ open_interest_long' = open_interest_long
                + long_delta(positions[f.maker], ma)
                + long_delta(positions[taker.owner], ta)
          /\ open_interest_short' = open_interest_short
                + short_delta(positions[f.maker], ma)
                + short_delta(positions[taker.owner], ta)
      BY <1>2, <1>8, <1>11 DEF apply_fill
    <2>2. \A x, y \in Int : long_delta(x, y) \in Int /\ short_delta(x, y) \in Int
      BY DEF long_delta, short_delta, Long, Short
    <2>3. positions[f.maker] \in Int /\ positions[taker.owner] \in Int
      BY <1>7, <1>10
    <2>4. QED
      <3>1. open_interest_long \in Int /\ open_interest_short \in Int
        BY DEF PerpInv, PerpTypeOK
      <3>2. /\ long_delta(positions[f.maker], ma) \in Int
            /\ long_delta(positions[taker.owner], ta) \in Int
            /\ short_delta(positions[f.maker], ma) \in Int
            /\ short_delta(positions[taker.owner], ta) \in Int
        BY <1>12, <2>2, <2>3
      <3>3. QED
        BY <2>1, <3>1, <3>2
  <1>15. executed' \in [OrderIds -> Nat]
    <2>1. executed' = [executed EXCEPT ![f.maker_id] = @ + f.size, ![taker.id] = @ + f.size]
      BY <1>2 DEF apply_fill
    <2>2. QED
      <3>1. executed \in [OrderIds -> Nat]
        BY DEF PerpInv, PerpTypeOK
      <3>2. \A x \in Nat : x + f.size \in Nat
        BY <1>7
      <3>3. QED
        BY <1>7, <2>1, <3>1, <3>2
  <1>16. PerpTypeOK'
    BY <1>1, <1>3, <1>5, <1>6, <1>7, <1>13, <1>14, <1>15
    DEF PerpInv, PerpTypeOK, bookVars, IsOrderMap
  <1>17. IdsGivenOut' /\ BookIsListed'
    BY <1>1, <1>3 DEF PerpInv, IdsGivenOut, BookIsListed, bookVars
  <1>18. TakerInBook' /\ FillsShrinkTaker' /\ SweptOrTrading'
    BY <1>1 DEF PerpInv, TakerInBook, FillsShrinkTaker, SweptOrTrading, Rests, Traded,
                bookVars
  <1>19. QED
    BY <1>16, <1>17, <1>18 DEF PerpInv

-----------------------------------------------------------------------------
(* The stack of check_triggers calls *)

AreFrames(fs) == fs \in Seq(Range(fs)) /\ \A t \in Range(fs) : IsTriggerMap(t)

\* A call may begin.
LEMMA FramesPush ==
    ASSUME NEW fs, AreFrames(fs), NEW t, IsTriggerMap(t)
    PROVE  AreFrames(<<t>> \o fs)
  <1>1. PICK T : T = {t} \cup Range(fs)
    OBVIOUS
  <1>2. \A x \in T : IsTriggerMap(x)
    BY <1>1 DEF AreFrames
  <1>3. <<t>> \in Seq(T) /\ fs \in Seq(T)
    BY <1>1 DEF AreFrames
  <1>4. PICK gs : gs = <<t>> \o fs
    OBVIOUS
  <1>5. gs \in Seq(T)
    BY <1>3, <1>4
  <1>6. gs \in Seq(Range(gs)) /\ Range(gs) \subseteq T
    BY <1>5 DEF Range
  <1>7. QED
    BY <1>2, <1>4, <1>6 DEF AreFrames

\* A call may return, and the orders it has taken are trigger orders.
LEMMA FramesTail ==
    ASSUME NEW fs, AreFrames(fs), fs # <<>>
    PROVE  AreFrames(Tail(fs)) /\ IsTriggerMap(Head(fs))
  <1>1. fs \in Seq(Range(fs))
    BY DEF AreFrames
  <1>2. Head(fs) \in Range(fs) /\ Tail(fs) \in Seq(Range(fs))
    <2>1. PICK T : T = Range(fs)
      OBVIOUS
    <2>2. Head(fs) \in T /\ Tail(fs) \in Seq(T)
      BY <1>1, <2>1, HeadTailProperties
    <2>3. QED
      BY <2>1, <2>2
  <1>3. PICK gs : gs = Tail(fs)
    OBVIOUS
  <1>4. gs \in Seq(Range(gs)) /\ Range(gs) \subseteq Range(fs)
    <2>1. PICK T : T = Range(fs)
      OBVIOUS
    <2>2. gs \in Seq(T)
      BY <1>2, <1>3, <2>1
    <2>3. gs \in Seq(Range(gs)) /\ Range(gs) \subseteq T
      BY <2>2 DEF Range
    <2>4. QED
      BY <2>1, <2>3
  <1>5. QED
    BY <1>2, <1>3, <1>4 DEF AreFrames

\* The end of place_order keeps the invariant: a remainder enters both maps,
\* and after a trade the trigger orders that the mark price meets are taken.
LEMMA FinishOrderKeeps ==
    ASSUME PerpInv, FinishOrder
    PROVE  PerpInv'
  <1>1. /\ pc = "fill" /\ fills = <<>> /\ taker \in TakerOrder
        /\ IsOrderMap(book) /\ IsOrderMap(orders) /\ IsTriggerMap(triggers)
        /\ AreFrames(frames)
        /\ pc' = "idle" /\ taker' = NoTaker
        /\ UNCHANGED <<accounts, marketVars, next_order_id, fills, historyVars>>
    BY DEF PerpInv, PerpTypeOK, FinishOrder, AreFrames
  <1>2. /\ IsTriggerMap(triggers') /\ AreFrames(frames')
        /\ Traded /\ mark_price # 0 =>
              \A i \in DOMAIN triggers' : ~Met(triggers'[i].request.trigger, mark_price)
        /\ ~Traded => triggers' = triggers
    <2>1. CASE Traded /\ mark_price # 0
      <3>1. /\ frames' = <<Restrict(triggers, Fired(mark_price))>> \o frames
            /\ triggers' = RemoveFrom(triggers, Fired(mark_price))
        BY <1>1, <2>1 DEF FinishOrder
      <3>2. /\ DOMAIN triggers' = DOMAIN triggers \ Fired(mark_price)
            /\ \A i \in DOMAIN triggers \ Fired(mark_price) : triggers'[i] = triggers[i]
            /\ IsTriggerMap(triggers')
        BY <1>1, <3>1, Removing, Zenon
      <3>3. \A i \in DOMAIN triggers' : ~Met(triggers'[i].request.trigger, mark_price)
        BY <3>2 DEF Fired
      <3>4. Fired(mark_price) \subseteq DOMAIN triggers
        BY DEF Fired
      <3>5. IsTriggerMap(Restrict(triggers, Fired(mark_price)))
        BY <1>1, <3>4 DEF Restrict, IsTriggerMap
      <3>6. AreFrames(frames')
        BY <1>1, <3>1, <3>5, FramesPush, Zenon
      <3>7. QED
        BY <2>1, <3>2, <3>3, <3>6
    <2>2. CASE ~(Traded /\ mark_price # 0)
      BY <1>1, <2>2 DEF FinishOrder
    <2>3. QED
      BY <2>1, <2>2
  <1>3. SweptOrTrading'
    <2>1. CASE Traded
      BY <1>1, <1>2, <2>1 DEF SweptOrTrading, marketVars
    <2>2. CASE ~Traded
      BY <1>1, <1>2, <2>2 DEF PerpInv, SweptOrTrading, marketVars, historyVars
    <2>3. QED
      BY <2>1, <2>2
  <1>4. /\ IsOrderMap(orders') /\ IsOrderMap(book') /\ BookIsListed'
        /\ \A j \in DOMAIN book' : book'[j].remaining > 0 /\ j < next_order_id
    <2>1. CASE Rests
      <3>1. orders' = WithTaker(orders) /\ book' = WithTaker(book)
        BY <2>1 DEF FinishOrder
      <3>2. /\ IsOrderMap(book')
            /\ DOMAIN book' = DOMAIN book \cup {taker.id}
            /\ book'[taker.id] = RestingOrder(taker)
            /\ \A j \in DOMAIN book \ {taker.id} : book'[j] = book[j]
        BY <1>1, <3>1, TakerEnters, Zenon
      <3>3. /\ IsOrderMap(orders')
            /\ DOMAIN orders' = DOMAIN orders \cup {taker.id}
            /\ orders'[taker.id] = RestingOrder(taker)
            /\ \A j \in DOMAIN orders \ {taker.id} : orders'[j] = orders[j]
        BY <1>1, <3>1, TakerEnters, Zenon
      <3>4. /\ RestingOrder(taker).price = taker.price
            /\ RestingOrder(taker).remaining = taker.remaining
            /\ taker.remaining \in Nat
        BY <1>1 DEF RestingOrder, TakerOrder
      <3>5. /\ taker.id < next_order_id /\ taker.remaining > 0
        BY <1>1, <2>1 DEF PerpInv, IdsGivenOut, Rests
      <3>6. \A j \in DOMAIN book : book[j].remaining > 0 /\ j < next_order_id
        BY DEF PerpInv, PerpTypeOK, IdsGivenOut
      <3>7. \A j \in DOMAIN book' : book'[j].remaining > 0 /\ j < next_order_id
        BY <3>2, <3>4, <3>5, <3>6
      <3>8. \A j \in DOMAIN book' : j # taker.id =>
              /\ j \in DOMAIN orders'
              /\ orders'[j].owner = book'[j].owner /\ orders'[j].side = book'[j].side
              /\ orders'[j].price = book'[j].price /\ orders'[j].size = book'[j].size
              /\ book'[j].remaining <= orders'[j].remaining
        BY <1>1, <3>2, <3>3 DEF PerpInv, BookIsListed
      <3>9. book'[taker.id].remaining <= orders'[taker.id].remaining
        BY <3>2, <3>3, <3>4
      <3>10. BookIsListed'
        BY <3>2, <3>3, <3>8, <3>9 DEF BookIsListed
      <3>11. QED
        BY <3>2, <3>3, <3>7, <3>10
    <2>2. CASE ~Rests
      <3>1. orders' = orders /\ book' = book /\ taker.id \notin DOMAIN book
        BY <1>1, <2>2 DEF PerpInv, TakerInBook, FinishOrder
      <3>2. BookIsListed'
        BY <1>1, <3>1 DEF PerpInv, BookIsListed
      <3>3. QED
        BY <1>1, <3>1, <3>2 DEF PerpInv, PerpTypeOK, IdsGivenOut
    <2>3. QED
      BY <2>1, <2>2
  <1>5. PerpTypeOK'
    BY <1>1, <1>2, <1>4
    DEF PerpInv, PerpTypeOK, AreFrames, marketVars, historyVars
  <1>6. IdsGivenOut' /\ TakerInBook' /\ FillsShrinkTaker'
    BY <1>1, <1>4
    DEF PerpInv, IdsGivenOut, TakerInBook, FillsShrinkTaker, historyVars
  <1>7. QED
    BY <1>3, <1>4, <1>5, <1>6 DEF PerpInv

\* Placing a triggered order, or dropping one that is refused.
LEMMA PlaceTriggeredKeeps ==
    ASSUME PerpInv, NEW i \in OrderIds, place_triggered(i)
    PROVE  PerpInv'
  <1>1. /\ pc = "idle" /\ frames # <<>> /\ i \in DOMAIN Head(frames) /\ frames' = Pop(i)
        /\ AreFrames(frames)
    BY DEF PerpInv, PerpTypeOK, AreFrames, place_triggered
  <1>2. AreFrames(Tail(frames)) /\ IsTriggerMap(Head(frames))
    BY <1>1, FramesTail
  <1>3. IsTriggerMap(RemoveFrom(Head(frames), {i}))
    BY <1>2, Removing, Zenon
  <1>4. AreFrames(frames')
    BY <1>1, <1>2, <1>3, FramesPush, Zenon DEF Pop
  <1>5. PICK t : t = Head(frames)[i]
    OBVIOUS
  <1>6. t.owner \in Accounts /\ t.request \in Request
    BY <1>1, <1>2, <1>5 DEF IsTriggerMap, TriggerOrder
  <1>7. PICK r : r = [t.request EXCEPT !.trigger = NoTrigger]
    OBVIOUS
  <1>8. r \in Request
    BY <1>6, <1>7 DEF Request
  <1>9. \/ next_order_id <= MaxOrders /\ Accept(t.owner, r)
        \/ Refuse(t.owner, r)
    BY <1>5, <1>7 DEF place_triggered
  <1>10. QED
    BY <1>1, <1>4, <1>6, <1>8, <1>9, AcceptKeeps, RefuseKeeps DEF AreFrames
-----------------------------------------------------------------------------
(* The operations of the other callers *)

\* place_order and refuse_order, as they arrive from outside.
LEMMA PlaceOrderKeeps ==
    ASSUME PerpInv, NEW a \in Accounts, NEW r \in Requests,
           place_order(a, r) \/ refuse_order(a, r)
    PROVE  PerpInv'
  <1>1. r \in Request
    BY RequestsAssumption
  <1>2. frames' \in Seq(Range(frames')) /\ \A t \in Range(frames') : IsTriggerMap(t)
    BY DEF PerpInv, PerpTypeOK, place_order, refuse_order
  <1>3. CASE place_order(a, r)
    <2>1. pc = "idle" /\ Accept(a, r) /\ IdsLeft(r)
      BY <1>3 DEF place_order, Free
    <2>2. Cardinality(DOMAIN triggers) \in Nat
      <3>1. IsFiniteSet(OrderIds)
        BY BoundsAssumption, FS_Interval DEF OrderIds
      <3>2. DOMAIN triggers \subseteq OrderIds
        BY DEF PerpInv, PerpTypeOK, IsTriggerMap
      <3>3. IsFiniteSet(DOMAIN triggers)
        BY <3>1, <3>2, FS_Subset
      <3>4. QED
        BY <3>3, FS_CardinalityType
    <2>3. next_order_id <= MaxOrders
      BY <2>1, <2>2, BoundsAssumption DEF IdsLeft, PerpInv, PerpTypeOK
    <2>4. QED
      BY <1>1, <1>2, <2>1, <2>3, AcceptKeeps
  <1>4. CASE refuse_order(a, r)
    BY <1>1, <1>2, <1>4, RefuseKeeps DEF refuse_order
  <1>5. QED
    BY <1>3, <1>4

\* Whatever an operation does to positions, accounts and orders while the
\* engine is idle, it keeps the invariant if it only removes trigger orders,
\* keeps the mark price and leaves a listed book.
LEMMA OutsideKeeps ==
    ASSUME PerpInv, pc = "idle",
           UNCHANGED <<mark_price, open_interest_long, open_interest_short, next_order_id,
                       pc, taker, fills, executed, last_trade>>,
           accounts' \subseteq Accounts, positions' \in [Accounts -> Int],
           liquidations' \in Nat, AreFrames(frames'),
           IsTriggerMap(triggers'), DOMAIN triggers' \subseteq DOMAIN triggers,
           \A i \in DOMAIN triggers' : triggers'[i] = triggers[i],
           IsOrderMap(orders'), IsOrderMap(book'), DOMAIN book' \subseteq DOMAIN book,
           \A j \in DOMAIN book' : book'[j] = book[j],
           \A j \in DOMAIN book' :
              /\ j \in DOMAIN orders'
              /\ orders'[j].owner = book[j].owner /\ orders'[j].side = book[j].side
              /\ orders'[j].price = book[j].price /\ orders'[j].size = book[j].size
              /\ book[j].remaining <= orders'[j].remaining
    PROVE  PerpInv'
  <1>1. PerpTypeOK'
    BY DEF PerpInv, PerpTypeOK, AreFrames
  <1>2. IdsGivenOut' /\ TakerInBook' /\ FillsShrinkTaker'
    BY DEF PerpInv, IdsGivenOut, TakerInBook, FillsShrinkTaker
  <1>3. BookIsListed'
    BY DEF BookIsListed
  <1>4. SweptOrTrading'
    BY DEF PerpInv, SweptOrTrading
  <1>5. QED
    BY <1>1, <1>2, <1>3, <1>4 DEF PerpInv

\* What an idle engine that keeps both maps of orders satisfies of OutsideKeeps.
LEMMA IdleBook ==
    ASSUME PerpInv, pc = "idle"
    PROVE  /\ IsOrderMap(orders) /\ IsOrderMap(book)
           /\ IsTriggerMap(triggers) /\ AreFrames(frames)
           /\ accounts \subseteq Accounts /\ positions \in [Accounts -> Int]
           /\ liquidations \in Nat
           /\ \A j \in DOMAIN book :
                /\ j \in DOMAIN orders
                /\ orders[j].owner = book[j].owner /\ orders[j].side = book[j].side
                /\ orders[j].price = book[j].price /\ orders[j].size = book[j].size
                /\ book[j].remaining <= orders[j].remaining
  BY DEF PerpInv, PerpTypeOK, BookIsListed, AreFrames

\* A cancellation takes orders out of both maps.
LEMMA CancelKeeps ==
    ASSUME PerpInv, NEW ids, Cancel(ids)
    PROVE  PerpInv'
  <1>1. /\ pc = "idle"
        /\ orders' = RemoveFrom(orders, ids) /\ book' = RemoveFrom(book, ids)
        /\ UNCHANGED <<accounts, marketVars, triggers, next_order_id, pc, taker,
                       fills, frames, historyVars>>
    BY DEF Cancel, Free
  <1>2. IsOrderMap(orders) /\ IsOrderMap(book)
    BY <1>1, IdleBook
  <1>3. /\ DOMAIN orders' = DOMAIN orders \ ids
        /\ \A i \in DOMAIN orders \ ids : orders'[i] = orders[i]
        /\ IsOrderMap(orders')
    BY <1>1, <1>2, Removing, Zenon
  <1>4. /\ DOMAIN book' = DOMAIN book \ ids
        /\ \A i \in DOMAIN book \ ids : book'[i] = book[i]
        /\ IsOrderMap(book')
    BY <1>1, <1>2, Removing, Zenon
  <1>5. /\ DOMAIN book' \subseteq DOMAIN book
        /\ \A j \in DOMAIN book' : book'[j] = book[j]
        /\ \A j \in DOMAIN book' : j \in DOMAIN orders' /\ orders'[j] = orders[j]
    BY <1>1, <1>3, <1>4, IdleBook
  <1>6. QED
    BY <1>1, <1>3, <1>4, <1>5, IdleBook, OutsideKeeps DEF marketVars, historyVars

\* Removing trigger orders while the engine is free.
LEMMA TriggersRemoved ==
    ASSUME NEW ids, triggers' = RemoveFrom(triggers, ids), IsTriggerMap(triggers)
    PROVE  /\ IsTriggerMap(triggers') /\ DOMAIN triggers' \subseteq DOMAIN triggers
           /\ \A i \in DOMAIN triggers' : triggers'[i] = triggers[i]
  <1>1. /\ DOMAIN triggers' = DOMAIN triggers \ ids
        /\ \A i \in DOMAIN triggers \ ids : triggers'[i] = triggers[i]
        /\ IsTriggerMap(triggers')
    BY Removing, Zenon
  <1>2. QED
    BY <1>1, Zenon

\* Cancelling a trigger order keeps the invariant.
LEMMA CancelTriggerKeeps ==
    ASSUME PerpInv, NEW i, cancel_trigger(i)
    PROVE  PerpInv'
  <1>1. /\ pc = "idle" /\ triggers' = RemoveFrom(triggers, {i})
        /\ UNCHANGED <<accounts, marketVars, bookVars, next_order_id, pc, taker,
                       fills, frames, historyVars>>
    BY DEF cancel_trigger, Free
  <1>2. /\ IsTriggerMap(triggers') /\ DOMAIN triggers' \subseteq DOMAIN triggers
        /\ \A x \in DOMAIN triggers' : triggers'[x] = triggers[x]
    BY <1>1, IdleBook, TriggersRemoved
  <1>3. QED
    BY <1>1, <1>2, IdleBook, OutsideKeeps DEF marketVars, bookVars, historyVars

\* A liquidation changes positions and removes trigger orders only.
LEMMA LiquidateKeeps ==
    ASSUME PerpInv, NEW a \in Accounts, NEW adl \in [Accounts -> 0..MaxOrderSize],
           liquidate(a, adl)
    PROVE  PerpInv'
  <1>1. /\ pc = "idle"
        /\ positions' = [x \in Accounts |->
                           Closed(positions[x],
                             adl[x] + (IF x = a THEN liquidation_size(positions[a]) ELSE 0))]
        /\ triggers' = RemoveFrom(triggers, {i \in DOMAIN triggers : triggers[i].owner = a})
        /\ liquidations' = liquidations + 1
        /\ UNCHANGED <<accounts, open_interest_long, open_interest_short, mark_price,
                       bookVars, next_order_id, pc, taker, fills, frames, executed,
                       last_trade>>
    BY DEF liquidate, Free
  <1>2. positions \in [Accounts -> Int] /\ MaxOrderSize \in Nat
    BY <1>1, IdleBook, MarketAssumption
  <1>3. liquidation_size(positions[a]) \in Int
    <2>1. Abs(positions[a]) \in Int
      BY <1>2 DEF Abs, Long, Short
    <2>2. Abs(positions[a]) * PartialNum \in Int
      BY <2>1, RatioAssumption
    <2>3. QED
      BY <2>2, RatioAssumption DEF liquidation_size
  <1>4. \A size, amount \in Int : Closed(size, amount) \in Int
    BY DEF Closed
  <1>5. positions' \in [Accounts -> Int]
    <2>1. PICK size : size = liquidation_size(positions[a])
      OBVIOUS
    <2>2. \A x \in Accounts : adl[x] \in Int /\ positions[x] \in Int
      BY <1>2
    <2>3. \A x \in Accounts : adl[x] + (IF x = a THEN size ELSE 0) \in Int
      BY <1>3, <2>1, <2>2
    <2>4. \A x \in Accounts :
            Closed(positions[x], adl[x] + (IF x = a THEN size ELSE 0)) \in Int
      BY <1>4, <2>2, <2>3
    <2>5. QED
      BY <1>1, <2>1, <2>4
  <1>6. /\ IsTriggerMap(triggers') /\ DOMAIN triggers' \subseteq DOMAIN triggers
        /\ \A x \in DOMAIN triggers' : triggers'[x] = triggers[x]
    BY <1>1, IdleBook, TriggersRemoved
  <1>7. QED
    BY <1>1, <1>5, <1>6, IdleBook, OutsideKeeps DEF bookVars

\* After a restart the orders map is the book, and no trigger order is left.
LEMMA RestartKeeps ==
    ASSUME PerpInv, Restart
    PROVE  PerpInv'
  <1>1. /\ pc = "idle" /\ orders' = book /\ accounts' = {} /\ triggers' = EmptyMap
        /\ UNCHANGED <<marketVars, book, next_order_id, pc, taker, fills, frames,
                       historyVars>>
    BY DEF Restart, Free
  <1>2. \A j \in DOMAIN book : book[j].remaining \in Nat
    BY DEF PerpInv, PerpTypeOK, IsOrderMap, Order
  <1>3. QED
    BY <1>1, <1>2, IdleBook, EmptyMaps, OutsideKeeps DEF marketVars, historyVars

\* A check_triggers call that has placed all its orders returns.
LEMMA ReturnKeeps ==
    ASSUME PerpInv, check_triggers_returns
    PROVE  PerpInv'
  <1>1. /\ pc = "idle" /\ frames # <<>> /\ frames' = Tail(frames)
        /\ UNCHANGED <<accounts, marketVars, bookVars, triggers, next_order_id, pc,
                       taker, fills, historyVars>>
    BY DEF check_triggers_returns
  <1>2. AreFrames(frames')
    BY <1>1, IdleBook, FramesTail
  <1>3. QED
    BY <1>1, <1>2, IdleBook, OutsideKeeps DEF marketVars, bookVars, historyVars

-----------------------------------------------------------------------------
(* The invariant and what follows from it *)

\* The invariant holds of an empty market.
LEMMA InitPerpInv == Init => PerpInv
  <1>1. SUFFICES ASSUME Init PROVE PerpInv
    OBVIOUS
  <1>2. frames = <<>> /\ fills = <<>>
    BY <1>1 DEF Init
  <1>3. frames \in Seq(Range(frames)) /\ Range(frames) = {}
    BY <1>2 DEF Range
  <1>4. fills \in Seq(PerpFill) /\ DOMAIN fills = {}
    BY <1>2
  <1>5. 1 \in 1..(MaxOrders + 1)
    BY BoundsAssumption
  <1>6. PerpTypeOK
    BY <1>1, <1>3, <1>4, <1>5, EmptyMaps, MarketAssumption DEF Init, PerpTypeOK
  <1>7. /\ IdsGivenOut /\ TakerInBook /\ FillsShrinkTaker
        /\ BookIsListed /\ SweptOrTrading
    BY <1>1, <1>4, EmptyMaps
    DEF Init, IdsGivenOut, TakerInBook, FillsShrinkTaker, BookIsListed,
        SweptOrTrading
  <1>8. QED
    BY <1>6, <1>7 DEF PerpInv

\* Every step of the engine and of its callers keeps the invariant.
LEMMA NextKeepsPerpInv == PerpInv /\ [Next]_vars => PerpInv'
  <1>1. SUFFICES ASSUME PerpInv, [Next]_vars PROVE PerpInv'
    OBVIOUS
  <1>2. CASE \E a \in Accounts, r \in Requests : place_order(a, r) \/ refuse_order(a, r)
    BY <1>1, <1>2, PlaceOrderKeeps
  <1>3. CASE \E i \in OrderIds : MatchMaker(i) \/ place_triggered(i)
    BY <1>1, <1>3, MatchMakerKeeps, PlaceTriggeredKeeps
  <1>4. CASE EndMatching
    BY <1>1, <1>4, EndMatchingKeeps
  <1>5. CASE apply_fill
    BY <1>1, <1>5, ApplyFillKeeps
  <1>6. CASE FinishOrder
    BY <1>1, <1>6, FinishOrderKeeps
  <1>7. CASE check_triggers_returns
    BY <1>1, <1>7, ReturnKeeps
  <1>8. CASE \E a \in Accounts, i \in OrderIds : cancel_order(a, i)
    BY <1>1, <1>8, CancelKeeps DEF cancel_order
  <1>9. CASE \E a \in Accounts : cancel_all_orders(a)
    BY <1>1, <1>9, CancelKeeps DEF cancel_all_orders
  <1>10. CASE \E i \in OrderIds : cancel_trigger(i)
    BY <1>1, <1>10, CancelTriggerKeeps
  <1>11. CASE \E a \in Accounts, adl \in [Accounts -> 0..MaxOrderSize] : liquidate(a, adl)
    BY <1>1, <1>11, LiquidateKeeps
  <1>12. CASE Restart
    BY <1>1, <1>12, RestartKeeps
  <1>13. CASE UNCHANGED vars
    BY <1>1, <1>13 DEF vars, marketVars, bookVars, historyVars, PerpInv, PerpTypeOK,
       IdsGivenOut, TakerInBook, FillsShrinkTaker, BookIsListed,
       SweptOrTrading, Rests, Traded, IsOrderMap, IsTriggerMap
  <1>14. QED
    BY <1>1, <1>2, <1>3, <1>4, <1>5, <1>6, <1>7, <1>8, <1>9, <1>10, <1>11, <1>12, <1>13
    DEF Next, EngineStep

\* The types of the perp engine hold for any accounts, bounds and requests, of
\* prices of any sign: through any cascade no order of size zero stays in the
\* book.
THEOREM PerpTypesHold == Spec => []PerpTypeOK
  <1>1. PerpInv => PerpTypeOK
    BY DEF PerpInv
  <1>2. QED
    BY InitPerpInv, NextKeepsPerpInv, <1>1, PTL DEF Spec

\* Every order that can be matched is in the orders map, whatever failed
\* post-only and fill-or-kill orders, self-trades, cascades and restarts came
\* before (place_order of engine/src/lib.rs and handle_unfilled).
THEOREM MatchableOrdersListed == Spec => []BookIsListed
  <1>1. PerpInv => BookIsListed
    BY DEF PerpInv
  <1>2. QED
    BY InitPerpInv, NextKeepsPerpInv, <1>1, PTL DEF Spec

\* check_triggers overlooks no trigger order, whatever the sign of the prices:
\* one whose price the mark has reached was stored after the last trade, unless
\* the mark price is zero.
THEOREM NoTriggerOverlooked == Spec => []TriggersSwept
  <1>1. PerpInv => TriggersSwept
    BY DEF PerpInv, SweptOrTrading, TriggersSwept
  <1>2. QED
    BY InitPerpInv, NextKeepsPerpInv, <1>1, PTL DEF Spec

-----------------------------------------------------------------------------
(* No order is filled beyond its size *)

\* What the pending fills take from the maker i, and from the taker.
Due(fs, i) == SeqSum(fs, [f \in PerpFill |-> IF f.maker_id = i THEN f.size ELSE 0])
DueTaker(fs) == SeqSum(fs, [f \in PerpFill |-> f.size])

\* A pending fill is a trade with somebody else's order, and none is pending
\* between two calls.
FillsOfOthers ==
    /\ pc = "idle" => fills = <<>>
    /\ \A n \in DOMAIN fills : fills[n].maker # taker.owner /\ fills[n].maker_id # taker.id

\* An id that has not been given out has traded nothing, and the order being
\* placed is not listed yet.
NewIds ==
    /\ \A i \in DOMAIN orders : i < next_order_id
    /\ pc # "idle" => taker.id \notin DOMAIN orders
    /\ \A n \in DOMAIN fills : fills[n].maker_id < next_order_id
    /\ \A i \in OrderIds : i >= next_order_id => executed[i] = 0

MakersCovered ==
    \A i \in DOMAIN book :
        i # taker.id => executed[i] + Due(fills, i) + book[i].remaining <= book[i].size

TakerCovered ==
    pc # "idle" =>
        /\ executed[taker.id] + DueTaker(fills) + taker.remaining <= taker.size
        /\ taker.id \in DOMAIN book => book[taker.id] = RestingOrder(taker)

\* The orders map learns of the fills when the matching ends, and not at all
\* when the call fails there.
OrdersCovered ==
    \A i \in DOMAIN orders :
        executed[i] + (IF pc = "match" THEN 0 ELSE Due(fills, i)) + orders[i].remaining
            <= orders[i].size

FillInv ==
    /\ PerpInv
    /\ FillsOfOthers /\ NewIds
    /\ MakersCovered /\ TakerCovered /\ OrdersCovered

\* The pending amounts of a maker, as the list of fills grows and shrinks.
LEMMA DueOfMaker ==
    ASSUME NEW fs \in Seq(PerpFill), NEW i
    PROVE  /\ Due(fs, i) \in Nat
           /\ fs = <<>> => Due(fs, i) = 0
           /\ \A f \in PerpFill : Due(Append(fs, f), i)
                                    = Due(fs, i) + (IF f.maker_id = i THEN f.size ELSE 0)
           /\ fs # <<>> => Due(fs, i) = (IF Head(fs).maker_id = i THEN Head(fs).size ELSE 0)
                                          + Due(Tail(fs), i)
  <1>1. PICK w : w = [f \in PerpFill |-> IF f.maker_id = i THEN f.size ELSE 0]
    OBVIOUS
  <1>2. w \in [PerpFill -> Nat]
    BY <1>1 DEF PerpFill
  <1>3. \A q : Due(q, i) = SeqSum(q, w)
    BY <1>1 DEF Due
  <1>4. \A f \in PerpFill : w[f] = IF f.maker_id = i THEN f.size ELSE 0
    BY <1>1
  <1>5. fs # <<>> => Head(fs) \in PerpFill
    OBVIOUS
  <1>6. /\ SeqSum(fs, w) \in Nat
        /\ fs = <<>> => SeqSum(fs, w) = 0
        /\ \A x \in PerpFill : SeqSum(Append(fs, x), w) = SeqSum(fs, w) + w[x]
        /\ fs # <<>> => SeqSum(fs, w) = w[Head(fs)] + SeqSum(Tail(fs), w)
    BY <1>2, SeqSumOperations
  <1>7. QED
    BY <1>3, <1>4, <1>5, <1>6

\* The same for the taker, which is a party of every fill.
LEMMA DueOfTaker ==
    ASSUME NEW fs \in Seq(PerpFill)
    PROVE  /\ DueTaker(fs) \in Nat
           /\ fs = <<>> => DueTaker(fs) = 0
           /\ \A f \in PerpFill : DueTaker(Append(fs, f)) = DueTaker(fs) + f.size
           /\ fs # <<>> => DueTaker(fs) = Head(fs).size + DueTaker(Tail(fs))
  <1>1. PICK w : w = [f \in PerpFill |-> f.size]
    OBVIOUS
  <1>2. w \in [PerpFill -> Nat]
    BY <1>1 DEF PerpFill
  <1>3. \A q : DueTaker(q) = SeqSum(q, w)
    BY <1>1 DEF DueTaker
  <1>4. \A f \in PerpFill : w[f] = f.size
    BY <1>1
  <1>5. fs # <<>> => Head(fs) \in PerpFill
    OBVIOUS
  <1>6. /\ SeqSum(fs, w) \in Nat
        /\ fs = <<>> => SeqSum(fs, w) = 0
        /\ \A x \in PerpFill : SeqSum(Append(fs, x), w) = SeqSum(fs, w) + w[x]
        /\ fs # <<>> => SeqSum(fs, w) = w[Head(fs)] + SeqSum(Tail(fs), w)
    BY <1>2, SeqSumOperations
  <1>7. QED
    BY <1>3, <1>4, <1>5, <1>6

\* An order that is the maker of no fill has nothing pending.
LEMMA NothingDue ==
    ASSUME NEW fs \in Seq(PerpFill), NEW i, \A n \in DOMAIN fs : fs[n].maker_id # i
    PROVE  Due(fs, i) = 0
  <1> DEFINE N == 1..Len(fs)
  <1>1. PICK w : w = [f \in PerpFill |-> IF f.maker_id = i THEN f.size ELSE 0]
    OBVIOUS
  <1>2. PICK v : v = [n \in N |-> w[fs[n]]]
    OBVIOUS
  <1>3. Due(fs, i) = SumFunction(v)
    BY <1>1, <1>2 DEF Due, SeqSum
  <1>4. v \in [N -> Int] /\ \A n \in N : v[n] = 0
    BY <1>1, <1>2
  <1>5. IsFiniteSet(N)
    BY FS_Interval
  <1> HIDE DEF N
  <1>6. QED
    BY <1>3, <1>4, <1>5, SumZero

\* What the steps of the engine rely on: the types of the variables that the
\* accounts of the fills are kept in.
LEMMA FillTypes ==
    ASSUME PerpInv
    PROVE  /\ fills \in Seq(PerpFill) /\ executed \in [OrderIds -> Nat]
           /\ next_order_id \in Nat
           /\ IsOrderMap(book) /\ IsOrderMap(orders)
           /\ \A i \in DOMAIN book : /\ i \in OrderIds /\ i \in Nat /\ i < next_order_id
                                     /\ executed[i] \in Nat
                                     /\ book[i].remaining \in Nat /\ book[i].size \in Nat
           /\ \A i \in DOMAIN orders : /\ i \in OrderIds /\ i \in Nat
                                       /\ executed[i] \in Nat
                                       /\ orders[i].remaining \in Nat
                                       /\ orders[i].size \in Nat
           /\ pc = "idle" => taker.id = 0
           /\ pc # "idle" => /\ taker \in TakerOrder /\ taker.id \in OrderIds
                             /\ taker.id \in Nat /\ taker.id < next_order_id
                             /\ executed[taker.id] \in Nat
                             /\ taker.remaining \in Nat /\ taker.size \in Nat
  <1>1. PerpTypeOK /\ IdsGivenOut
    BY DEF PerpInv
  <1>2. /\ fills \in Seq(PerpFill) /\ executed \in [OrderIds -> Nat]
        /\ next_order_id \in Nat /\ IsOrderMap(book) /\ IsOrderMap(orders)
    BY <1>1 DEF PerpTypeOK
  <1>3. OrderIds \subseteq Nat
    BY DEF OrderIds
  <1>4. \A i \in DOMAIN book : i \in OrderIds /\ book[i] \in Order
    BY <1>2 DEF IsOrderMap
  <1>5. \A i \in DOMAIN orders : i \in OrderIds /\ orders[i] \in Order
    BY <1>2 DEF IsOrderMap
  <1>6. \A o \in Order : o.remaining \in Nat /\ o.size \in Nat
    BY DEF Order
  <1>7. pc = "idle" => taker.id = 0
    BY <1>1 DEF PerpTypeOK, NoTaker
  <1>8. pc # "idle" => taker \in TakerOrder /\ taker.id < next_order_id
    BY <1>1 DEF PerpTypeOK, IdsGivenOut
  <1>9. \A t \in TakerOrder : t.id \in OrderIds /\ t.remaining \in Nat /\ t.size \in Nat
    BY DEF TakerOrder
  <1>10. \A i \in DOMAIN book : i < next_order_id
    BY <1>1 DEF IdsGivenOut
  <1>11. QED
    BY <1>2, <1>3, <1>4, <1>5, <1>6, <1>7, <1>8, <1>9, <1>10

\* Steps that touch neither the orders nor the fills, though they may give out
\* an id.
LEMMA FillInvFrame ==
    ASSUME FillInv, PerpInv', UNCHANGED <<bookVars, pc, taker, fills, executed>>,
           next_order_id <= next_order_id'
    PROVE  FillInv'
  <1>1. next_order_id \in Nat
    BY FillTypes DEF FillInv
  <1>2. next_order_id' \in Nat
    BY DEF PerpInv, PerpTypeOK
  <1>3. NewIds'
    <2>1. \A i \in DOMAIN orders : i \in Nat
      BY FillTypes DEF FillInv
    <2>2. \A i \in OrderIds : i \in Nat
      BY DEF OrderIds
    <2>3. \A n \in DOMAIN fills : fills[n].maker_id \in Nat
      <3>1. \A n \in DOMAIN fills : fills[n] \in PerpFill
        BY FillTypes DEF FillInv
      <3>2. QED
        BY <2>2, <3>1 DEF PerpFill
    <2>4. QED
      BY <1>1, <1>2, <2>1, <2>2, <2>3 DEF FillInv, NewIds, bookVars
  <1>4. FillsOfOthers' /\ MakersCovered' /\ TakerCovered' /\ OrdersCovered'
    BY DEF FillInv, FillsOfOthers, MakersCovered, TakerCovered, OrdersCovered, bookVars
  <1>5. QED
    BY <1>3, <1>4 DEF FillInv

\* An order that is accepted has a new id: nothing of it has traded.
LEMMA AcceptFillInv ==
    ASSUME FillInv, PerpInv', pc = "idle", NEW a \in Accounts, NEW r \in Request,
           next_order_id <= MaxOrders, Accept(a, r)
    PROVE  FillInv'
  <1>1. PerpInv /\ NewIds /\ MakersCovered /\ OrdersCovered
    BY DEF FillInv
  <1>2. /\ next_order_id' = next_order_id + 1
        /\ UNCHANGED <<bookVars, historyVars>>
    BY DEF Accept
  <1>3. /\ next_order_id \in Nat /\ next_order_id \in OrderIds /\ executed[next_order_id] = 0
        /\ next_order_id >= 1 /\ executed' = executed
    BY <1>1, <1>2, SMTT(40) DEF PerpInv, PerpTypeOK, OrderIds, NewIds, historyVars
  <1>4. CASE r.trigger # NoTrigger
    <2>1. UNCHANGED <<pc, taker, fills>> /\ next_order_id <= next_order_id'
      BY <1>2, <1>3, <1>4 DEF Accept
    <2>2. QED
      BY <1>2, <1>3, <2>1, FillInvFrame
  <1>5. CASE r.trigger = NoTrigger
    <2>1. /\ taker'.id = next_order_id /\ taker'.remaining = r.size /\ taker'.size = r.size
          /\ pc' = "match" /\ fills' = <<>>
      BY <1>5 DEF Accept
    <2>2. fills = <<>> /\ DOMAIN fills = {}
      BY DEF FillInv, FillsOfOthers
    <2>3. book' = book /\ orders' = orders
      BY <1>2 DEF bookVars
    <2>4. \A i \in DOMAIN orders : i \in Nat /\ i < next_order_id /\ i # next_order_id
      BY <1>1, FillTypes DEF NewIds
    <2>5. \A i \in DOMAIN book : i \in Nat /\ i < next_order_id /\ i # next_order_id
                                 /\ i # taker.id
      <3>1. taker.id = 0
        BY <1>1, FillTypes
      <3>2. \A i \in DOMAIN book : i \in OrderIds /\ i < next_order_id
        BY <1>1, FillTypes
      <3>3. \A i \in OrderIds : i \in Nat /\ i # 0
        BY DEF OrderIds
      <3>4. \A i \in DOMAIN book : i # taker.id
        BY <3>1, <3>2, <3>3
      <3>5. \A i \in DOMAIN book : i \in Nat /\ i # next_order_id
        <4>1. \A x, y \in Nat : x < y => x # y
          OBVIOUS
        <4>2. QED
          BY <1>3, <3>2, <3>3, <4>1, Zenon
      <3>6. QED
        BY <3>2, <3>4, <3>5
    <2>6. FillsOfOthers'
      BY <2>1, <2>2 DEF FillsOfOthers
    <2>7. NewIds'
      <3>1. \A i \in OrderIds : i \in Nat
        BY DEF OrderIds
      <3>2. QED
        BY <1>1, <1>2, <1>3, <2>1, <2>2, <2>3, <2>4, <3>1 DEF NewIds
    <2>8. MakersCovered'
      BY <1>1, <1>3, <2>1, <2>2, <2>3, <2>5 DEF MakersCovered
    <2>9. TakerCovered'
      <3>1. DueTaker(fills') = 0
        BY <2>1, <2>2, DueOfTaker, FillTypes, <1>1
      <3>2. r.size \in Nat
        BY DEF Request
      <3>3. QED
        BY <1>3, <2>1, <2>3, <2>5, <3>1, <3>2 DEF TakerCovered
    <2>10. OrdersCovered'
      <3>1. \A i \in DOMAIN orders : Due(fills, i) = 0
        BY <1>1, <2>2, DueOfMaker, FillTypes
      <3>2. QED
        BY <1>1, <1>3, <2>1, <2>3, <3>1 DEF OrdersCovered
    <2>11. QED
      BY <2>6, <2>7, <2>8, <2>9, <2>10 DEF FillInv
  <1>6. QED
    BY <1>4, <1>5

\* Consume takes the size of the fill from the maker, and from it alone.
LEMMA ConsumedExactly ==
    ASSUME NEW b, IsOrderMap(b), NEW i \in DOMAIN b, NEW size \in Nat
    PROVE  /\ DOMAIN Consume(b, i, size) \subseteq DOMAIN b
           /\ \A j \in DOMAIN Consume(b, i, size) :
                /\ j # i => Consume(b, i, size)[j] = b[j]
                /\ j = i => /\ Consume(b, i, size)[j].remaining = b[i].remaining - size
                            /\ Consume(b, i, size)[j].size = b[i].size
  <1>1. CASE b[i].remaining = size
    <2>1. Consume(b, i, size) = RemoveFrom(b, {i})
      BY <1>1 DEF Consume
    <2>2. /\ DOMAIN RemoveFrom(b, {i}) = DOMAIN b \ {i}
          /\ \A j \in DOMAIN b \ {i} : RemoveFrom(b, {i})[j] = b[j]
      BY Removing, Zenon
    <2>3. QED
      BY <2>1, <2>2
  <1>2. CASE b[i].remaining # size
    <2>1. Consume(b, i, size) = [b EXCEPT ![i].remaining = @ - size]
      BY <1>2 DEF Consume
    <2>2. b[i] \in Order /\ b \in [DOMAIN b -> Order]
      BY DEF IsOrderMap
    <2>3. PICK o : o = [b[i] EXCEPT !.remaining = @ - size]
      OBVIOUS
    <2>4. o.remaining = b[i].remaining - size /\ o.size = b[i].size
      BY <2>2, <2>3 DEF Order
    <2>5. Consume(b, i, size) = [b EXCEPT ![i] = o]
      BY <2>1, <2>3
    <2>6. QED
      BY <2>2, <2>4, <2>5
  <1>3. QED
    BY <1>1, <1>2

\* One turn of the matching loop: what a fill takes from the maker and from the
\* taker becomes pending.
LEMMA MatchMakerFillInv ==
    ASSUME FillInv, PerpInv', NEW i \in OrderIds, MatchMaker(i)
    PROVE  FillInv'
  <1>1. /\ PerpInv /\ FillsOfOthers /\ NewIds
        /\ MakersCovered /\ TakerCovered /\ OrdersCovered
    BY DEF FillInv
  <1>2. /\ pc = "match" /\ pc' = "match" /\ i \in DOMAIN book
        /\ UNCHANGED <<orders, next_order_id, executed>>
    BY DEF MatchMaker, Matchable, IsBest, Resting, historyVars
  <1>3. taker.id \notin DOMAIN book /\ taker \in TakerOrder
    BY <1>1, <1>2, FillTypes DEF PerpInv, TakerInBook
  <1>4. OrdersCovered'
    BY <1>1, <1>2 DEF OrdersCovered
  <1>5. CASE book[i].owner = taker.owner
    <2>1. book' = RemoveFrom(book, {i}) /\ UNCHANGED <<taker, fills>>
      BY <1>5 DEF MatchMaker
    <2>2. /\ DOMAIN book' \subseteq DOMAIN book
          /\ \A j \in DOMAIN book' : book'[j] = book[j]
      <3>1. /\ DOMAIN RemoveFrom(book, {i}) = DOMAIN book \ {i}
            /\ \A j \in DOMAIN book \ {i} : RemoveFrom(book, {i})[j] = book[j]
        BY Removing, Zenon
      <3>2. QED
        BY <2>1, <3>1
    <2>3. FillsOfOthers' /\ NewIds'
      BY <1>1, <1>2, <2>1 DEF FillsOfOthers, NewIds
    <2>4. MakersCovered'
      BY <1>1, <1>2, <2>1, <2>2 DEF MakersCovered
    <2>5. TakerCovered'
      BY <1>1, <1>2, <1>3, <2>1, <2>2 DEF TakerCovered
    <2>6. QED
      BY <1>4, <2>3, <2>4, <2>5 DEF FillInv
  <1>6. CASE book[i].owner # taker.owner
    <2>1. PICK size : size = fill_size(taker.remaining, book[i].remaining)
      OBVIOUS
    <2>2. PICK f : f = [maker |-> book[i].owner, maker_id |-> i,
                        price |-> book[i].price, size |-> size]
      OBVIOUS
    <2>3. /\ fills' = Append(fills, f)
          /\ taker' = [taker EXCEPT !.remaining = @ - size]
          /\ book' = Consume(book, i, size)
      BY <1>6, <2>1, <2>2 DEF MatchMaker
    <2>4. /\ taker.remaining \in Nat /\ taker.remaining > 0
          /\ book[i].remaining \in Nat /\ book[i].remaining > 0
          /\ book[i].owner \in Accounts /\ book[i].price \in Int
      <3>1. IsOrderMap(book) /\ book[i].remaining > 0 /\ taker.remaining > 0
        BY <1>1, <1>2 DEF PerpInv, PerpTypeOK, MatchMaker, Matchable
      <3>2. QED
        BY <1>2, <1>3, <3>1 DEF IsOrderMap, Order, TakerOrder
    <2>5. /\ size \in Nat /\ size > 0
          /\ size <= taker.remaining /\ size <= book[i].remaining
      BY <2>1, <2>4, FillSize
    <2>6. f \in PerpFill /\ f.maker_id = i /\ f.maker = book[i].owner /\ f.size = size
      BY <2>2, <2>4, <2>5 DEF PerpFill
    <2>7. /\ taker'.id = taker.id /\ taker'.owner = taker.owner
          /\ taker'.remaining = taker.remaining - size /\ taker'.size = taker.size
      BY <1>3, <2>3 DEF TakerOrder
    <2>8. fills \in Seq(PerpFill)
      BY <1>1, FillTypes
    <2>9. \A n \in DOMAIN fills' : \/ n \in DOMAIN fills /\ fills'[n] = fills[n]
                                   \/ fills'[n] = f
      BY <2>3, <2>6, <2>8
    <2>10. i # taker.id /\ i < next_order_id
      BY <1>1, <1>2, <1>3, FillTypes
    <2>11. FillsOfOthers' /\ NewIds'
      BY <1>1, <1>2, <1>6, <2>6, <2>7, <2>9, <2>10 DEF FillsOfOthers, NewIds
    <2>12. /\ DOMAIN book' \subseteq DOMAIN book
           /\ \A j \in DOMAIN book' :
                /\ j # i => book'[j] = book[j]
                /\ j = i => /\ book'[j].remaining = book[i].remaining - size
                            /\ book'[j].size = book[i].size
      <3>1. IsOrderMap(book)
        BY <1>1, FillTypes
      <3>2. QED
        BY <1>2, <2>3, <2>5, <3>1, ConsumedExactly
    <2>13. \A j : /\ Due(fills, j) \in Nat
                  /\ Due(fills', j) = Due(fills, j) + (IF i = j THEN size ELSE 0)
      BY <2>3, <2>6, <2>8, DueOfMaker
    <2>14. MakersCovered'
      <3> SUFFICES ASSUME NEW j \in DOMAIN book', j # taker'.id
                   PROVE  executed'[j] + Due(fills', j) + book'[j].remaining <= book'[j].size
        BY DEF MakersCovered
      <3>1. /\ j \in DOMAIN book /\ j # taker.id
            /\ executed[j] + Due(fills, j) + book[j].remaining <= book[j].size
        BY <1>1, <2>7, <2>12 DEF MakersCovered
      <3>2. /\ executed[j] \in Nat /\ book[j].remaining \in Nat /\ book[j].size \in Nat
            /\ Due(fills, j) \in Nat
        BY <1>1, <2>13, <3>1, FillTypes
      <3>3. CASE j = i
        <4>1. /\ Due(fills', j) = Due(fills, j) + size
              /\ book'[j].remaining = book[j].remaining - size /\ book'[j].size = book[j].size
          BY <2>12, <2>13, <3>3
        <4>2. QED
          BY <1>2, <2>5, <3>1, <3>2, <4>1
      <3>4. CASE j # i
        <4>1. Due(fills', j) = Due(fills, j) + 0 /\ book'[j] = book[j]
          BY <2>12, <2>13, <3>4
        <4>2. QED
          BY <1>2, <3>1, <3>2, <4>1
      <3>5. QED
        BY <3>3, <3>4
    <2>15. TakerCovered'
      <3>1. DueTaker(fills') = DueTaker(fills) + size /\ DueTaker(fills) \in Nat
        BY <2>3, <2>6, <2>8, DueOfTaker
      <3>2. executed[taker.id] \in Nat /\ taker.size \in Nat
        BY <1>1, <1>2, FillTypes
      <3>3. executed[taker.id] + DueTaker(fills) + taker.remaining <= taker.size
        BY <1>1, <1>2 DEF TakerCovered
      <3>4. executed[taker.id] + (DueTaker(fills) + size) + (taker.remaining - size)
              <= taker.size
        BY <2>4, <2>5, <3>1, <3>2, <3>3
      <3>5. taker'.id \notin DOMAIN book'
        BY <1>3, <2>7, <2>12
      <3>6. QED
        BY <1>2, <2>7, <3>1, <3>4, <3>5 DEF TakerCovered
    <2>16. QED
      BY <1>4, <2>11, <2>14, <2>15 DEF FillInv
  <1>7. QED
    BY <1>5, <1>6

\* The end of the matching: the orders map takes over what the book has left of
\* the makers.  When the call fails, its fills are lost and nobody is charged.
LEMMA EndMatchingFillInv ==
    ASSUME FillInv, PerpInv', EndMatching
    PROVE  FillInv'
  <1>1. /\ PerpInv /\ FillsOfOthers /\ NewIds
        /\ MakersCovered /\ TakerCovered /\ OrdersCovered
    BY DEF FillInv
  <1>2. pc = "match" /\ UNCHANGED <<next_order_id, executed>>
    BY DEF EndMatching, historyVars
  <1>3. taker.id \notin DOMAIN book /\ taker \in TakerOrder /\ fills \in Seq(PerpFill)
    BY <1>1, <1>2, FillTypes DEF PerpInv, TakerInBook
  <1>4. \A j : Due(fills, j) \in Nat
    BY <1>3, DueOfMaker
  <1>5. CASE handle_unfilled_fails
    <2>1. /\ pc' = "idle" /\ taker' = NoTaker /\ fills' = <<>> /\ UNCHANGED <<book, orders>>
      BY <1>5 DEF EndMatching, bookVars
    <2>2. fills' \in Seq(PerpFill) /\ DOMAIN fills' = {}
      BY <2>1
    <2>3. \A j : Due(fills', j) = 0
      BY <2>1, <2>2, DueOfMaker
    <2>4. FillsOfOthers' /\ NewIds' /\ TakerCovered'
      BY <1>1, <1>2, <2>1, <2>2 DEF FillsOfOthers, NewIds, TakerCovered
    <2>5. MakersCovered'
      <3> SUFFICES ASSUME NEW j \in DOMAIN book
                   PROVE  executed[j] + 0 + book[j].remaining <= book[j].size
        BY <1>2, <2>1, <2>3 DEF MakersCovered
      <3>1. executed[j] + Due(fills, j) + book[j].remaining <= book[j].size
        BY <1>1, <1>3 DEF MakersCovered
      <3>2. executed[j] \in Nat /\ book[j].remaining \in Nat /\ book[j].size \in Nat
        BY <1>1, FillTypes
      <3>3. QED
        BY <1>4, <3>1, <3>2
    <2>6. OrdersCovered'
      BY <1>1, <1>2, <2>1, <2>3 DEF OrdersCovered
    <2>7. QED
      BY <2>4, <2>5, <2>6 DEF FillInv
  <1>6. CASE ~handle_unfilled_fails
    <2>1. /\ pc' = "fill" /\ orders' = SyncedOrders /\ UNCHANGED <<taker, fills>>
          /\ book' = IF Rests THEN WithTaker(book) ELSE book
      BY <1>6 DEF EndMatching
    <2>2. /\ taker.id \in DOMAIN book' => book'[taker.id] = RestingOrder(taker)
          /\ \A j \in DOMAIN book' : j # taker.id => j \in DOMAIN book /\ book'[j] = book[j]
      <3>1. /\ DOMAIN WithTaker(book) = DOMAIN book \cup {taker.id}
            /\ WithTaker(book)[taker.id] = RestingOrder(taker)
            /\ \A j \in DOMAIN book \ {taker.id} : WithTaker(book)[j] = book[j]
        BY <1>1, <1>3, FillTypes, TakerEnters, Zenon
      <3>2. QED
        BY <1>3, <2>1, <3>1
    <2>3. /\ DOMAIN orders' = DOMAIN orders \ (Makers \ DOMAIN book)
          /\ \A j \in DOMAIN orders' :
               orders'[j] = IF j \in Makers
                            THEN [orders[j] EXCEPT !.remaining = book[j].remaining]
                            ELSE orders[j]
      BY <2>1 DEF SyncedOrders
    <2>4. FillsOfOthers' /\ NewIds'
      BY <1>1, <1>2, <2>1, <2>3 DEF FillsOfOthers, NewIds
    <2>5. MakersCovered'
      BY <1>1, <1>2, <2>1, <2>2 DEF MakersCovered
    <2>6. TakerCovered'
      BY <1>1, <1>2, <2>1, <2>2 DEF TakerCovered
    <2>7. OrdersCovered'
      <3> SUFFICES ASSUME NEW j \in DOMAIN orders'
                   PROVE  executed[j] + Due(fills, j) + orders'[j].remaining
                            <= orders'[j].size
        BY <1>2, <2>1 DEF OrdersCovered
      <3>1. j \in DOMAIN orders /\ orders[j] \in Order
        BY <1>1, <2>3, FillTypes DEF IsOrderMap
      <3>2. CASE j \in Makers
        <4>1. j \in DOMAIN book /\ j # taker.id
          BY <1>3, <2>3, <3>2
        <4>2. orders[j].size = book[j].size
          BY <1>1, <1>2, <4>1 DEF PerpInv, BookIsListed
        <4>3. orders'[j].remaining = book[j].remaining /\ orders'[j].size = orders[j].size
          BY <2>3, <3>1, <3>2 DEF Order
        <4>4. executed[j] + Due(fills, j) + book[j].remaining <= book[j].size
          BY <1>1, <4>1 DEF MakersCovered
        <4>5. QED
          BY <4>2, <4>3, <4>4
      <3>3. CASE j \notin Makers
        <4>1. Due(fills, j) = 0
          <5>1. \A n \in DOMAIN fills : fills[n].maker_id # j
            BY <3>3 DEF Makers
          <5>2. QED
            BY <1>3, <5>1, NothingDue
        <4>2. orders'[j] = orders[j]
          BY <2>3, <3>3
        <4>3. executed[j] + 0 + orders[j].remaining <= orders[j].size
          BY <1>1, <1>2, <3>1 DEF OrdersCovered
        <4>4. QED
          BY <4>1, <4>2, <4>3
      <3>4. QED
        BY <3>2, <3>3
    <2>8. QED
      BY <2>4, <2>5, <2>6, <2>7 DEF FillInv
  <1>7. QED
    BY <1>5, <1>6

\* A fill that is applied moves its size from the pending to the executed.
LEMMA ApplyFillInv ==
    ASSUME FillInv, PerpInv', apply_fill
    PROVE  FillInv'
  <1>1. /\ PerpInv /\ FillsOfOthers /\ NewIds
        /\ MakersCovered /\ TakerCovered /\ OrdersCovered
    BY DEF FillInv
  <1>2. /\ pc = "fill" /\ pc' = "fill" /\ fills # <<>> /\ fills' = Tail(fills)
        /\ UNCHANGED <<book, orders, next_order_id, taker>>
    BY DEF apply_fill, bookVars
  <1>3. PICK f : f = Head(fills)
    OBVIOUS
  <1>4. /\ fills \in Seq(PerpFill) /\ f \in PerpFill /\ executed \in [OrderIds -> Nat]
        /\ taker.id \in OrderIds
    BY <1>1, <1>2, <1>3, FillTypes
  <1>5. f.size \in Nat /\ f.maker_id \in OrderIds
    BY <1>4 DEF PerpFill
  <1>6. /\ fills' \in Seq(PerpFill) /\ f = fills[1] /\ 1 \in DOMAIN fills
        /\ \A n \in DOMAIN fills' : n + 1 \in DOMAIN fills /\ fills'[n] = fills[n + 1]
    BY <1>2, <1>3, <1>4
  <1>7. f.maker_id # taker.id /\ f.maker_id < next_order_id
    BY <1>1, <1>6 DEF FillsOfOthers, NewIds
  <1>8. executed' = [executed EXCEPT ![f.maker_id] = @ + f.size, ![taker.id] = @ + f.size]
    BY <1>3 DEF apply_fill
  <1>9. /\ executed'[taker.id] = executed[taker.id] + f.size
        /\ \A j \in OrderIds : j # taker.id =>
             executed'[j] = executed[j] + (IF j = f.maker_id THEN f.size ELSE 0)
    <2>1. \A j \in OrderIds : executed[j] \in Nat
      BY <1>4
    <2>2. QED
      BY <1>4, <1>5, <1>7, <1>8, <2>1
  <1>10. \A j : /\ Due(fills', j) \in Nat /\ Due(fills, j) \in Nat
                /\ Due(fills, j) = (IF f.maker_id = j THEN f.size ELSE 0) + Due(fills', j)
    <2> TAKE j
    <2>1. Due(fills, j) \in Nat /\ Due(fills', j) \in Nat
      BY <1>4, <1>6, DueOfMaker
    <2>2. Due(fills, j) = (IF Head(fills).maker_id = j THEN Head(fills).size ELSE 0)
                            + Due(Tail(fills), j)
      BY <1>2, <1>4, DueOfMaker
    <2>3. QED
      BY <1>2, <1>3, <2>1, <2>2
  <1>11. \A j \in OrderIds :
           j # taker.id => executed'[j] + Due(fills', j) = executed[j] + Due(fills, j)
    <2> SUFFICES ASSUME NEW j \in OrderIds, j # taker.id
                 PROVE  executed'[j] + Due(fills', j) = executed[j] + Due(fills, j)
      OBVIOUS
    <2>1. executed[j] \in Nat
      BY <1>4
    <2>2. Due(fills', j) \in Nat /\ Due(fills, j) \in Nat
      BY <1>10
    <2>3. CASE j = f.maker_id
      <3>1. executed'[j] = executed[j] + f.size /\ Due(fills, j) = f.size + Due(fills', j)
        BY <1>9, <1>10, <2>3
      <3>2. QED
        BY <1>5, <2>1, <2>2, <3>1
    <2>4. CASE j # f.maker_id
      <3>1. executed'[j] = executed[j] + 0 /\ Due(fills, j) = 0 + Due(fills', j)
        BY <1>9, <1>10, <2>4
      <3>2. QED
        BY <2>1, <2>2, <3>1
    <2>5. QED
      BY <2>3, <2>4
  <1>12. FillsOfOthers'
    BY <1>1, <1>2, <1>6 DEF FillsOfOthers
  <1>13. NewIds'
    <2>1. /\ \A n \in DOMAIN fills' : fills'[n].maker_id < next_order_id'
          /\ \A j \in DOMAIN orders' : j < next_order_id'
          /\ taker'.id \notin DOMAIN orders'
      BY <1>1, <1>2, <1>6 DEF NewIds
    <2>2. ASSUME NEW j \in OrderIds, j >= next_order_id PROVE executed'[j] = 0
      <3>1. taker.id < next_order_id /\ taker.id \in Nat /\ next_order_id \in Nat
        BY <1>1, <1>2, FillTypes
      <3>2. j \in Nat /\ f.maker_id \in Nat
        BY <1>5 DEF OrderIds
      <3>3. j # taker.id /\ j # f.maker_id
        BY <1>7, <2>2, <3>1, <3>2
      <3>4. executed[j] = 0
        BY <1>1, <2>2 DEF NewIds
      <3>5. QED
        BY <1>9, <3>3, <3>4
    <2>3. QED
      BY <1>2, <2>1, <2>2 DEF NewIds
  <1>14. MakersCovered'
    <2>1. \A j \in DOMAIN book : j \in OrderIds
      BY <1>1, FillTypes
    <2>2. QED
      BY <1>1, <1>2, <1>11, <2>1 DEF MakersCovered
  <1>15. TakerCovered'
    <2>1. /\ DueTaker(fills) = f.size + DueTaker(fills')
          /\ DueTaker(fills') \in Nat
      BY <1>2, <1>3, <1>4, <1>6, DueOfTaker
    <2>2. executed[taker.id] \in Nat /\ taker.remaining \in Nat /\ taker.size \in Nat
      BY <1>1, <1>2, FillTypes
    <2>3. executed[taker.id] + DueTaker(fills) + taker.remaining <= taker.size
      BY <1>1, <1>2 DEF TakerCovered
    <2>4. executed'[taker.id] + DueTaker(fills') + taker.remaining <= taker.size
      BY <1>5, <1>9, <2>1, <2>2, <2>3
    <2>5. QED
      BY <1>1, <1>2, <2>4 DEF TakerCovered
  <1>16. OrdersCovered'
    <2>1. \A j \in DOMAIN orders : j \in OrderIds /\ j # taker.id
      BY <1>1, <1>2, FillTypes DEF NewIds
    <2>2. QED
      BY <1>1, <1>2, <1>11, <2>1 DEF OrdersCovered
  <1>17. QED
    BY <1>12, <1>13, <1>14, <1>15, <1>16 DEF FillInv

\* The remainder of the order enters both maps once all its fills are applied.
LEMMA FinishOrderFillInv ==
    ASSUME FillInv, PerpInv', FinishOrder
    PROVE  FillInv'
  <1>1. /\ PerpInv /\ FillsOfOthers /\ NewIds
        /\ MakersCovered /\ TakerCovered /\ OrdersCovered
    BY DEF FillInv
  <1>2. /\ pc = "fill" /\ pc' = "idle" /\ fills = <<>> /\ fills' = <<>> /\ taker' = NoTaker
        /\ UNCHANGED <<next_order_id, executed>>
        /\ orders' = IF Rests THEN WithTaker(orders) ELSE orders
        /\ book' = IF Rests THEN WithTaker(book) ELSE book
    BY DEF FinishOrder, historyVars
  <1>3. /\ fills \in Seq(PerpFill) /\ DOMAIN fills' = {} /\ taker \in TakerOrder
        /\ taker.id < next_order_id
    BY <1>1, <1>2, FillTypes
  <1>4. \A j : Due(fills, j) = 0
    BY <1>2, <1>3, DueOfMaker
  <1>5. /\ \A j \in DOMAIN book' :
             \/ j # taker.id /\ j \in DOMAIN book /\ book'[j] = book[j]
             \/ j = taker.id /\ book'[j] = RestingOrder(taker)
        /\ \A j \in DOMAIN orders' :
             \/ j \in DOMAIN orders /\ orders'[j] = orders[j]
             \/ j = taker.id /\ orders'[j] = RestingOrder(taker)
    <2>1. ASSUME NEW map, IsOrderMap(map)
          PROVE  /\ DOMAIN WithTaker(map) = DOMAIN map \cup {taker.id}
                 /\ WithTaker(map)[taker.id] = RestingOrder(taker)
                 /\ \A j \in DOMAIN map \ {taker.id} : WithTaker(map)[j] = map[j]
      BY <1>3, <2>1, TakerEnters, Zenon
    <2>2. IsOrderMap(book) /\ IsOrderMap(orders)
      BY <1>1, FillTypes
    <2>3. taker.id \in DOMAIN book => book[taker.id] = RestingOrder(taker)
      BY <1>1, <1>2 DEF TakerCovered
    <2>4. CASE Rests
      BY <1>2, <2>1, <2>2, <2>4
    <2>5. CASE ~Rests
      BY <1>2, <2>3, <2>5
    <2>6. QED
      BY <2>4, <2>5
  <1>6. executed[taker.id] + 0 + RestingOrder(taker).remaining <= RestingOrder(taker).size
    <2>1. DueTaker(fills) = 0
      BY <1>2, <1>3, DueOfTaker
    <2>2. executed[taker.id] + DueTaker(fills) + taker.remaining <= taker.size
      BY <1>1, <1>2 DEF TakerCovered
    <2>3. QED
      BY <2>1, <2>2 DEF RestingOrder
  <1>7. FillsOfOthers' /\ TakerCovered'
    BY <1>2, <1>3 DEF FillsOfOthers, TakerCovered
  <1>8. NewIds'
    BY <1>1, <1>2, <1>3, <1>5 DEF NewIds
  <1>9. MakersCovered'
    <2>1. \A j \in DOMAIN book : j # taker.id =>
            executed[j] + 0 + book[j].remaining <= book[j].size
      BY <1>1, <1>4 DEF MakersCovered
    <2>2. \A j \in DOMAIN book' : executed[j] + 0 + book'[j].remaining <= book'[j].size
      BY <1>5, <1>6, <2>1
    <2>3. QED
      BY <1>2, <1>4, <2>2 DEF MakersCovered
  <1>10. OrdersCovered'
    <2>1. \A j \in DOMAIN orders : executed[j] + 0 + orders[j].remaining <= orders[j].size
      BY <1>1, <1>2, <1>4 DEF OrdersCovered
    <2>2. \A j \in DOMAIN orders' :
            executed[j] + 0 + orders'[j].remaining <= orders'[j].size
      BY <1>5, <1>6, <2>1
    <2>3. QED
      BY <1>2, <1>4, <2>2 DEF OrdersCovered
  <1>11. QED
    BY <1>7, <1>8, <1>9, <1>10 DEF FillInv

\* Cancellations and restarts: between two calls every order of either map that
\* stays is one of the book or of the orders map before.
LEMMA IdleFillInv ==
    ASSUME FillInv, PerpInv', pc = "idle",
           UNCHANGED <<pc, taker, fills, executed, next_order_id>>,
           \A j \in DOMAIN book' : j \in DOMAIN book /\ book'[j] = book[j],
           \A j \in DOMAIN orders' :
             \/ j \in DOMAIN orders /\ orders'[j] = orders[j]
             \/ j \in DOMAIN book /\ orders'[j] = book[j]
    PROVE  FillInv'
  <1>1. /\ PerpInv /\ FillsOfOthers /\ NewIds
        /\ MakersCovered /\ TakerCovered /\ OrdersCovered
    BY DEF FillInv
  <1>2. \A j \in DOMAIN book : j # taker.id /\ j < next_order_id
    <2>1. taker.id = 0 /\ \A j \in DOMAIN book : j \in OrderIds /\ j < next_order_id
      BY <1>1, FillTypes
    <2>2. \A j \in OrderIds : j # 0
      BY DEF OrderIds
    <2>3. QED
      BY <2>1, <2>2
  <1>3. FillsOfOthers' /\ TakerCovered'
    BY <1>1 DEF FillsOfOthers, TakerCovered
  <1>4. NewIds'
    BY <1>1, <1>2 DEF NewIds
  <1>5. MakersCovered'
    BY <1>1 DEF MakersCovered
  <1>6. OrdersCovered'
    BY <1>1, <1>2 DEF OrdersCovered, MakersCovered
  <1>7. QED
    BY <1>3, <1>4, <1>5, <1>6 DEF FillInv

\* It holds at the start and is kept by every step.
LEMMA FillInductive ==
    /\ Init => FillInv
    /\ FillInv /\ [Next]_vars => FillInv'
  <1>1. ASSUME Init PROVE FillInv
    <2>1. PerpInv
      BY <1>1, InitPerpInv
    <2>2. fills = <<>> /\ DOMAIN fills = {} /\ pc = "idle"
      BY <1>1 DEF Init
    <2>3. DOMAIN book = {} /\ DOMAIN orders = {}
      BY <1>1, EmptyMaps DEF Init
    <2>4. \A i \in OrderIds : executed[i] = 0
      BY <1>1 DEF Init
    <2>5. QED
      BY <2>1, <2>2, <2>3, <2>4
      DEF FillInv, FillsOfOthers, NewIds, MakersCovered, TakerCovered, OrdersCovered
  <1>2. ASSUME FillInv, [Next]_vars PROVE FillInv'
    <2>1. PerpInv /\ PerpInv' /\ next_order_id \in Nat
      <3>1. PerpInv
        BY <1>2 DEF FillInv
      <3>2. QED
        BY <1>2, <3>1, NextKeepsPerpInv, FillTypes
    <2>2. CASE \E a \in Accounts, r \in Requests : place_order(a, r)
      <3>1. PICK a \in Accounts, r \in Requests : place_order(a, r)
        BY <2>2
      <3>2. pc = "idle" /\ Accept(a, r) /\ r \in Request /\ IdsLeft(r)
        BY <3>1, RequestsAssumption DEF place_order, Free
      <3>3. next_order_id <= MaxOrders
        <4>1. next_order_id' = next_order_id + 1 /\ next_order_id' \in 1..(MaxOrders + 1)
          BY <2>1, <3>2 DEF Accept, PerpInv, PerpTypeOK
        <4>2. QED
          BY <2>1, <4>1, BoundsAssumption
      <3>4. QED
        BY <1>2, <2>1, <3>2, <3>3, AcceptFillInv
    <2>3. CASE \E a \in Accounts, r \in Requests : refuse_order(a, r)
      <3>1. UNCHANGED <<bookVars, pc, taker, fills, executed, next_order_id>>
        BY <2>3 DEF refuse_order, Refuse, historyVars
      <3>2. QED
        BY <1>2, <2>1, <3>1, FillInvFrame
    <2>4. CASE \E i \in OrderIds : MatchMaker(i)
      BY <1>2, <2>1, <2>4, MatchMakerFillInv
    <2>5. CASE \E i \in OrderIds : place_triggered(i)
      <3>1. PICK i \in OrderIds : place_triggered(i)
        BY <2>5
      <3>2. PICK t, r : /\ t = Head(frames)[i]
                        /\ r = [t.request EXCEPT !.trigger = NoTrigger]
        OBVIOUS
      <3>3. /\ pc = "idle" /\ frames # <<>> /\ i \in DOMAIN Head(frames)
            /\ \/ next_order_id <= MaxOrders /\ Accept(t.owner, r)
               \/ Refuse(t.owner, r)
        BY <3>1, <3>2 DEF place_triggered
      <3>4. IsTriggerMap(Head(frames))
        BY <2>1, <3>3, FramesTail DEF PerpInv, PerpTypeOK, AreFrames
      <3>5. t.owner \in Accounts /\ t.request \in Request
        BY <3>2, <3>3, <3>4 DEF IsTriggerMap, TriggerOrder
      <3>6. r \in Request
        BY <3>2, <3>5 DEF Request
      <3>7. CASE next_order_id <= MaxOrders /\ Accept(t.owner, r)
        BY <1>2, <2>1, <3>3, <3>5, <3>6, <3>7, AcceptFillInv
      <3>8. CASE Refuse(t.owner, r)
        <4>1. UNCHANGED <<bookVars, pc, taker, fills, executed, next_order_id>>
          BY <3>8 DEF Refuse, historyVars
        <4>2. QED
          BY <1>2, <2>1, <4>1, FillInvFrame
      <3>9. QED
        BY <3>3, <3>7, <3>8
    <2>6. CASE EndMatching
      BY <1>2, <2>1, <2>6, EndMatchingFillInv
    <2>7. CASE apply_fill
      BY <1>2, <2>1, <2>7, ApplyFillInv
    <2>8. CASE FinishOrder
      BY <1>2, <2>1, <2>8, FinishOrderFillInv
    <2>9. CASE \E ids : Cancel(ids)
      <3>1. PICK ids : Cancel(ids)
        BY <2>9
      <3>2. /\ pc = "idle" /\ UNCHANGED <<pc, taker, fills, executed, next_order_id>>
            /\ orders' = RemoveFrom(orders, ids) /\ book' = RemoveFrom(book, ids)
        BY <3>1 DEF Cancel, Free, historyVars
      <3>3. /\ \A j \in DOMAIN book' : j \in DOMAIN book /\ book'[j] = book[j]
            /\ \A j \in DOMAIN orders' : j \in DOMAIN orders /\ orders'[j] = orders[j]
        BY <3>2 DEF RemoveFrom, Restrict
      <3>4. QED
        BY <1>2, <2>1, <3>2, <3>3, IdleFillInv
    <2>10. CASE Restart
      <3>1. /\ pc = "idle" /\ UNCHANGED <<pc, taker, fills, executed, next_order_id>>
            /\ orders' = book /\ book' = book
        BY <2>10 DEF Restart, Free, historyVars
      <3>2. QED
        BY <1>2, <2>1, <3>1, IdleFillInv
    <2>11. CASE \/ check_triggers_returns
                \/ \E i \in OrderIds : cancel_trigger(i)
                \/ \E a \in Accounts, adl \in [Accounts -> 0..MaxOrderSize] : liquidate(a, adl)
                \/ UNCHANGED vars
      <3>1. UNCHANGED <<bookVars, pc, taker, fills, executed, next_order_id>>
        BY <2>11 DEF check_triggers_returns, cancel_trigger, liquidate, vars, historyVars
      <3>2. QED
        BY <1>2, <2>1, <3>1, FillInvFrame
    <2>12. QED
      BY <1>2, <2>2, <2>3, <2>4, <2>5, <2>6, <2>7, <2>8, <2>9, <2>10, <2>11
      DEF Next, EngineStep, cancel_order, cancel_all_orders
  <1>3. QED
    BY <1>1, <1>2

\* No order is filled beyond its size: whatever fills were lost by a failed
\* post-only or fill-or-kill order, whatever cascades, cancellations and
\* restarts came before, an order's applied fills and what the book or the
\* orders map still shows of it fit into its size (match_order of matching.rs,
\* place_order and apply_fill of engine/src/lib.rs).
THEOREM OrdersNeverOverfilled == Spec => []NoOverfill
  <1>1. FillInv => NoOverfill
    <2> SUFFICES ASSUME FillInv PROVE NoOverfill
      OBVIOUS
    <2>1. PerpInv /\ MakersCovered /\ TakerCovered /\ OrdersCovered
      BY DEF FillInv
    <2>2. fills \in Seq(PerpFill) /\ \A j : Due(fills, j) \in Nat
      BY <2>1, FillTypes, DueOfMaker
    <2>3. \A x, d, y, z \in Nat : x + d + y <= z => x + y <= z
      OBVIOUS
    <2>4. ASSUME NEW i \in DOMAIN book
          PROVE  executed[i] + book[i].remaining <= book[i].size
      <3>1. executed[i] \in Nat /\ book[i].remaining \in Nat /\ book[i].size \in Nat
        BY <2>1, FillTypes
      <3>2. CASE i # taker.id
        BY <2>1, <2>2, <2>3, <3>1, <3>2 DEF MakersCovered
      <3>3. CASE i = taker.id
        <4>1. pc # "idle"
          <5>1. i \in OrderIds
            BY <2>1, FillTypes
          <5>2. i # 0
            BY <5>1 DEF OrderIds
          <5>3. QED
            BY <2>1, <3>3, <5>2, FillTypes
        <4>2. /\ executed[i] + DueTaker(fills) + taker.remaining <= taker.size
              /\ book[i].remaining = taker.remaining /\ book[i].size = taker.size
          BY <2>1, <3>3, <4>1 DEF TakerCovered, RestingOrder
        <4>3. DueTaker(fills) \in Nat
          BY <2>2, DueOfTaker
        <4>4. QED
          BY <2>3, <3>1, <4>2, <4>3
      <3>4. QED
        BY <3>2, <3>3
    <2>5. ASSUME pc = "idle", NEW i \in DOMAIN orders
          PROVE  executed[i] + orders[i].remaining <= orders[i].size
      <3>1. executed[i] \in Nat /\ orders[i].remaining \in Nat /\ orders[i].size \in Nat
        BY <2>1, FillTypes
      <3>2. executed[i] + Due(fills, i) + orders[i].remaining <= orders[i].size
        BY <2>1, <2>5 DEF OrdersCovered
      <3>3. QED
        BY <2>2, <2>3, <3>1, <3>2
    <2>6. QED
      BY <2>4, <2>5 DEF NoOverfill
  <1>2. QED
    BY FillInductive, <1>1, PTL DEF Spec

-----------------------------------------------------------------------------
(* Longs and shorts balance *)

\* The sums of the long and of the short sizes.
LEMMA LongsAndShorts ==
    /\ SumOver(Long) = SumFunction([a \in Accounts |-> Long(positions[a])])
    /\ SumOver(Short) = SumFunction([a \in Accounts |-> Short(positions[a])])
  BY DEF SumOver

\* A position is its long size less its short size.
LEMMA LongLessShort ==
    \A x \in Int : Long(x) \in Int /\ Short(x) \in Int /\ Long(x) - Short(x) = x
  BY DEF Long, Short

\* A fill moves its size from one party to the other: both sums change by the
\* deltas that the open interest is changed by, and by the same amount.
LEMMA ApplyFillBalances ==
    ASSUME FillInv, apply_fill,
           SumOver(Long) = SumOver(Short),
           open_interest_long = SumOver(Long), open_interest_short = SumOver(Short)
    PROVE  /\ SumOver(Long)' = SumOver(Short)'
           /\ open_interest_long' = SumOver(Long)'
           /\ open_interest_short' = SumOver(Short)'
  <1>1. PerpInv /\ FillsOfOthers
    BY DEF FillInv
  <1>2. /\ pc = "fill" /\ fills # <<>> /\ taker \in TakerOrder /\ fills \in Seq(PerpFill)
        /\ positions \in [Accounts -> Int]
        /\ open_interest_long \in Int /\ open_interest_short \in Int
    BY <1>1 DEF PerpInv, PerpTypeOK, apply_fill
  <1>3. PICK f : f = Head(fills)
    OBVIOUS
  <1>4. f \in PerpFill /\ f = fills[1] /\ 1 \in DOMAIN fills
    BY <1>2, <1>3
  <1>5. PICK m, t : m = f.maker /\ t = taker.owner
    OBVIOUS
  <1>6. m \in Accounts /\ t \in Accounts /\ m # t /\ f.size \in Nat
    BY <1>1, <1>2, <1>4, <1>5 DEF PerpFill, TakerOrder, FillsOfOthers
  <1>7. PICK signed, ma, ta : /\ signed = Signed(taker.side, f.size)
                              /\ ma = positions[m] - signed /\ ta = positions[t] + signed
    OBVIOUS
  <1>8. signed \in Int /\ positions[m] \in Int /\ positions[t] \in Int
    BY <1>2, <1>6, <1>7 DEF Signed
  <1>9. ma \in Int /\ ta \in Int /\ ma + ta = positions[m] + positions[t]
    BY <1>7, <1>8
  <1>10. /\ positions' = [positions EXCEPT ![m] = ma, ![t] = ta]
         /\ open_interest_long' = open_interest_long
              + long_delta(positions[m], ma) + long_delta(positions[t], ta)
         /\ open_interest_short' = open_interest_short
              + short_delta(positions[m], ma) + short_delta(positions[t], ta)
    BY <1>3, <1>5, <1>7 DEF apply_fill
  <1>11. /\ positions' \in [Accounts -> Int] /\ positions'[m] = ma /\ positions'[t] = ta
         /\ \A x \in Accounts \ {m, t} : positions'[x] = positions[x]
    BY <1>2, <1>6, <1>9, <1>10
  <1> DEFINE L == [a \in Accounts |-> Long(positions[a])]
             S == [a \in Accounts |-> Short(positions[a])]
             L2 == [a \in Accounts |-> Long(positions'[a])]
             S2 == [a \in Accounts |-> Short(positions'[a])]
  <1>12. /\ L \in [Accounts -> Int] /\ S \in [Accounts -> Int]
         /\ L2 \in [Accounts -> Int] /\ S2 \in [Accounts -> Int]
    BY <1>2, <1>11, LongLessShort
  <1>13. /\ L[m] = Long(positions[m]) /\ L[t] = Long(positions[t])
         /\ S[m] = Short(positions[m]) /\ S[t] = Short(positions[t])
         /\ L2[m] = Long(ma) /\ L2[t] = Long(ta)
         /\ S2[m] = Short(ma) /\ S2[t] = Short(ta)
         /\ \A x \in Accounts \ {m, t} : L2[x] = L[x] /\ S2[x] = S[x]
    BY <1>6, <1>11
  <1>14. /\ SumOver(Long) = SumFunction(L) /\ SumOver(Short) = SumFunction(S)
         /\ SumOver(Long)' = SumFunction(L2) /\ SumOver(Short)' = SumFunction(S2)
    BY LongsAndShorts DEF SumOver
  <1> HIDE DEF L, S, L2, S2
  <1>15. /\ SumFunction(L2) = SumFunction(L) - L[m] + L2[m] - L[t] + L2[t]
         /\ SumFunction(S2) = SumFunction(S) - S[m] + S2[m] - S[t] + S2[t]
    BY <1>6, <1>12, <1>13, SumChangeTwo, AccountsAssumption
  <1>16. SumFunction(L) \in Int /\ SumFunction(S) \in Int
    BY <1>12, SumType, AccountsAssumption
  <1>17. /\ L[m] \in Int /\ L2[m] \in Int /\ L[t] \in Int /\ L2[t] \in Int
         /\ S[m] \in Int /\ S2[m] \in Int /\ S[t] \in Int /\ S2[t] \in Int
    BY <1>6, <1>12
  <1>18. /\ L[m] - S[m] = positions[m] /\ L2[m] - S2[m] = ma
         /\ L[t] - S[t] = positions[t] /\ L2[t] - S2[t] = ta
    BY <1>8, <1>9, <1>13, LongLessShort
  <1>19. /\ open_interest_long' = open_interest_long + (L2[m] - L[m]) + (L2[t] - L[t])
         /\ open_interest_short' = open_interest_short + (S2[m] - S[m]) + (S2[t] - S[t])
    BY <1>10, <1>13 DEF long_delta, short_delta
  <1>20. PICK sl, ss, sl2, ss2 :
           /\ sl = SumFunction(L) /\ ss = SumFunction(S)
           /\ sl2 = SumFunction(L2) /\ ss2 = SumFunction(S2)
    OBVIOUS
  <1>21. /\ sl \in Int /\ sl = ss /\ open_interest_long = sl /\ open_interest_short = sl
         /\ sl2 = sl - L[m] + L2[m] - L[t] + L2[t]
         /\ ss2 = sl - S[m] + S2[m] - S[t] + S2[t]
    <2>1. sl = ss /\ open_interest_long = sl /\ open_interest_short = ss
      BY <1>14, <1>20, Zenon
    <2>2. QED
      BY <1>15, <1>16, <1>20, <2>1
  <1>22. sl2 = ss2
    <2>1. PICK a, b, c, d : a = L[m] /\ b = L[t] /\ c = L2[m] /\ d = L2[t]
      OBVIOUS
    <2>2. PICK e, g, h, n : e = S[m] /\ g = S[t] /\ h = S2[m] /\ n = S2[t]
      OBVIOUS
    <2>3. /\ a \in Int /\ b \in Int /\ c \in Int /\ d \in Int
          /\ e \in Int /\ g \in Int /\ h \in Int /\ n \in Int
      BY <1>17, <2>1, <2>2
    <2>4. (a - e) + (b - g) = (c - h) + (d - n)
      BY <1>9, <1>18, <2>1, <2>2
    <2>5. sl \in Int /\ sl2 = sl - a + c - b + d /\ ss2 = sl - e + h - g + n
      BY <1>21, <2>1, <2>2
    <2>6. QED
      BY <2>3, <2>4, <2>5
  <1>23. open_interest_long' = sl2 /\ open_interest_short' = ss2
    BY <1>17, <1>19, <1>21
  <1>24. QED
    BY <1>14, <1>20, <1>22, <1>23, Zenon

\* Until the first liquidation longs and shorts have the same size, which is the
\* market's open interest, for any accounts, orders and cascades (apply_fill and
\* oi_delta of engine/src/lib.rs, invariant I4 of docs/SECURITY.md).
THEOREM PositionsStayConsistent == Spec => []PositionConsistency
  <1>1. Init => FillInv /\ PositionConsistency
    <2> SUFFICES ASSUME Init PROVE FillInv /\ PositionConsistency
      OBVIOUS
    <2> DEFINE L == [a \in Accounts |-> Long(positions[a])]
               S == [a \in Accounts |-> Short(positions[a])]
    <2>1. /\ L \in [Accounts -> Int] /\ S \in [Accounts -> Int]
          /\ \A a \in Accounts : L[a] = 0 /\ S[a] = 0
      BY DEF Init, Long, Short
    <2>2. SumOver(Long) = SumFunction(L) /\ SumOver(Short) = SumFunction(S)
      BY LongsAndShorts
    <2> HIDE DEF L, S
    <2>3. SumFunction(L) = 0 /\ SumFunction(S) = 0
      BY <2>1, SumZero, AccountsAssumption
    <2>4. open_interest_long = 0 /\ open_interest_short = 0
      BY DEF Init
    <2>5. QED
      BY <2>2, <2>3, <2>4, FillInductive DEF PositionConsistency
  <1>2. FillInv /\ PositionConsistency /\ [Next]_vars => FillInv' /\ PositionConsistency'
    <2> SUFFICES ASSUME FillInv, PositionConsistency, [Next]_vars
                 PROVE  PositionConsistency'
      BY FillInductive
    <2>1. CASE apply_fill
      <3>1. liquidations' = liquidations
        BY <2>1 DEF apply_fill
      <3>2. QED
        BY <2>1, <3>1, ApplyFillBalances DEF PositionConsistency
    <2>2. CASE \E a \in Accounts, adl \in [Accounts -> 0..MaxOrderSize] : liquidate(a, adl)
      <3>1. liquidations' = liquidations + 1
        BY <2>2 DEF liquidate
      <3>2. liquidations \in Nat
        BY DEF FillInv, PerpInv, PerpTypeOK
      <3>3. liquidations' # 0
        BY <3>1, <3>2
      <3>4. QED
        BY <3>3 DEF PositionConsistency
    <2>3. CASE UNCHANGED <<positions, open_interest_long, open_interest_short, liquidations>>
      <3>1. SumOver(Long)' = SumOver(Long) /\ SumOver(Short)' = SumOver(Short)
        BY <2>3 DEF SumOver
      <3>2. QED
        BY <2>3, <3>1 DEF PositionConsistency
    <2>4. QED
      <3>1. \/ apply_fill
            \/ \E a \in Accounts, adl \in [Accounts -> 0..MaxOrderSize] : liquidate(a, adl)
            \/ UNCHANGED marketVars /\ UNCHANGED historyVars
        BY DEF Next, EngineStep, place_order, Accept, refuse_order, Refuse, MatchMaker,
               place_triggered, EndMatching, FinishOrder, check_triggers_returns,
               cancel_order, cancel_all_orders, Cancel, cancel_trigger, Restart, vars
      <3>2. QED
        BY <2>1, <2>2, <2>3, <3>1, SMTT(40) DEF marketVars, historyVars
  <1>3. QED
    BY <1>1, <1>2, PTL DEF Spec

-----------------------------------------------------------------------------
(* Cascades of triggered orders end *)

\* The trigger orders that the calls of check_triggers in fs have taken.
Taken(fs) == UNION {DOMAIN fs[n] : n \in DOMAIN fs}

\* No trigger order has been taken twice, and none that has been taken is in T.
Apart(fs, T) ==
    \A n \in DOMAIN fs :
        /\ DOMAIN fs[n] \cap T = {}
        /\ \A k \in DOMAIN fs : k # n => DOMAIN fs[n] \cap DOMAIN fs[k] = {}

CascadeInv == PerpInv /\ Apart(frames, DOMAIN triggers)

\* A frame on top of the others.
LEMMA PushShape ==
    ASSUME NEW fs, AreFrames(fs), NEW t
    PROVE  /\ DOMAIN (<<t>> \o fs) = 1..(Len(fs) + 1)
           /\ (<<t>> \o fs)[1] = t
           /\ \A n \in 1..Len(fs) : (<<t>> \o fs)[n + 1] = fs[n]
           /\ DOMAIN fs = 1..Len(fs) /\ Len(fs) \in Nat
  <1>1. PICK T : T = {t} \cup Range(fs)
    OBVIOUS
  <1>2. <<t>> \in Seq(T) /\ fs \in Seq(T)
    BY <1>1 DEF AreFrames
  <1>3. QED
    BY <1>2

\* The top frame and the others.
LEMMA TailShape ==
    ASSUME NEW fs, AreFrames(fs), fs # <<>>
    PROVE  /\ DOMAIN fs = 1..Len(fs) /\ Len(fs) \in Nat \ {0}
           /\ Head(fs) = fs[1]
           /\ DOMAIN Tail(fs) = 1..(Len(fs) - 1) /\ Len(Tail(fs)) = Len(fs) - 1
           /\ \A n \in 1..(Len(fs) - 1) : Tail(fs)[n] = fs[n + 1]
  <1>1. PICK T : T = Range(fs)
    OBVIOUS
  <1>2. fs \in Seq(T)
    BY <1>1 DEF AreFrames
  <1>3. QED
    BY <1>2

\* What a new call takes is added to what was taken, and is no longer stored.
LEMMA PushTaken ==
    ASSUME NEW fs, AreFrames(fs), NEW t
    PROVE  /\ Taken(<<t>> \o fs) = DOMAIN t \cup Taken(fs)
           /\ \A T : Apart(fs, T) /\ DOMAIN t \subseteq T
                        => Apart(<<t>> \o fs, T \ DOMAIN t)
           /\ \A T : Apart(fs, T) /\ DOMAIN t \cap T = {} /\ DOMAIN t \cap Taken(fs) = {}
                        => Apart(<<t>> \o fs, T)
  <1>1. PICK gs : gs = <<t>> \o fs
    OBVIOUS
  <1>2. /\ DOMAIN gs = 1..(Len(fs) + 1) /\ gs[1] = t
        /\ \A n \in 1..Len(fs) : gs[n + 1] = fs[n]
        /\ DOMAIN fs = 1..Len(fs) /\ Len(fs) \in Nat
    BY <1>1, PushShape
  <1>3. \A n \in DOMAIN gs : n = 1 \/ (n - 1 \in DOMAIN fs /\ gs[n] = fs[n - 1])
    BY <1>2
  <1>4. 1 \in DOMAIN gs /\ \A n \in DOMAIN fs : n + 1 \in DOMAIN gs /\ gs[n + 1] = fs[n]
    BY <1>2
  <1>5. Taken(gs) = DOMAIN t \cup Taken(fs)
    <2>1. ASSUME NEW x \in Taken(gs) PROVE x \in DOMAIN t \cup Taken(fs)
      <3>1. PICK n \in DOMAIN gs : x \in DOMAIN gs[n]
        BY <2>1 DEF Taken
      <3>2. QED
        BY <1>2, <1>3, <3>1 DEF Taken
    <2>2. ASSUME NEW x \in Taken(fs) PROVE x \in Taken(gs)
      <3>1. PICK n \in DOMAIN fs : x \in DOMAIN fs[n]
        BY <2>2 DEF Taken
      <3>2. QED
        BY <1>4, <3>1 DEF Taken
    <2>3. ASSUME NEW x \in DOMAIN t PROVE x \in Taken(gs)
      BY <1>2, <1>4, <2>3 DEF Taken
    <2>4. QED
      BY <2>1, <2>2, <2>3
  <1>6. \A n \in DOMAIN fs : DOMAIN fs[n] \subseteq Taken(fs)
    BY DEF Taken
  <1>7. ASSUME NEW T, Apart(fs, T), DOMAIN t \cap T = {}, DOMAIN t \cap Taken(fs) = {}
        PROVE  Apart(gs, T)
    <2>1. ASSUME NEW n \in DOMAIN gs PROVE DOMAIN gs[n] \cap T = {}
      BY <1>2, <1>3, <1>7 DEF Apart
    <2>2. ASSUME NEW n \in DOMAIN gs, NEW k \in DOMAIN gs, k # n
          PROVE  DOMAIN gs[n] \cap DOMAIN gs[k] = {}
      <3>1. CASE n = 1
        BY <1>2, <1>3, <1>6, <1>7, <2>2, <3>1
      <3>2. CASE k = 1
        BY <1>2, <1>3, <1>6, <1>7, <2>2, <3>2
      <3>3. CASE n # 1 /\ k # 1
        <4>1. /\ n - 1 \in DOMAIN fs /\ k - 1 \in DOMAIN fs /\ k - 1 # n - 1
              /\ gs[n] = fs[n - 1] /\ gs[k] = fs[k - 1]
          BY <1>2, <1>3, <2>2, <3>3
        <4>2. QED
          BY <1>7, <4>1 DEF Apart
      <3>4. QED
        BY <3>1, <3>2, <3>3
    <2>3. QED
      BY <2>1, <2>2 DEF Apart
  <1>8. ASSUME NEW T, Apart(fs, T), DOMAIN t \subseteq T
        PROVE  Apart(gs, T \ DOMAIN t)
    <2>1. DOMAIN t \cap Taken(fs) = {}
      BY <1>8 DEF Apart, Taken
    <2>2. Apart(fs, T \ DOMAIN t)
      BY <1>8 DEF Apart
    <2>3. QED
      BY <1>7, <2>1, <2>2
  <1>9. QED
    BY <1>1, <1>5, <1>7, <1>8

\* What the top frame has taken is in no other frame.
LEMMA PopTaken ==
    ASSUME NEW fs, AreFrames(fs), fs # <<>>
    PROVE  /\ Taken(fs) = DOMAIN Head(fs) \cup Taken(Tail(fs))
           /\ \A T : Apart(fs, T) =>
                /\ Apart(Tail(fs), T)
                /\ DOMAIN Head(fs) \cap T = {}
                /\ DOMAIN Head(fs) \cap Taken(Tail(fs)) = {}
  <1>1. PICK gs : gs = Tail(fs)
    OBVIOUS
  <1>2. /\ DOMAIN fs = 1..Len(fs) /\ Len(fs) \in Nat \ {0} /\ Head(fs) = fs[1]
        /\ DOMAIN gs = 1..(Len(fs) - 1)
        /\ \A n \in 1..(Len(fs) - 1) : gs[n] = fs[n + 1]
    BY <1>1, TailShape
  <1>3. 1 \in DOMAIN fs /\ \A n \in DOMAIN gs : /\ n + 1 \in DOMAIN fs /\ n + 1 # 1
                                                /\ gs[n] = fs[n + 1]
    BY <1>2
  <1>4. \A n \in DOMAIN fs : n = 1 \/ (n - 1 \in DOMAIN gs /\ gs[n - 1] = fs[n])
    BY <1>2
  <1>5. Taken(fs) = DOMAIN Head(fs) \cup Taken(gs)
    <2>1. ASSUME NEW x \in Taken(fs) PROVE x \in DOMAIN Head(fs) \cup Taken(gs)
      <3>1. PICK n \in DOMAIN fs : x \in DOMAIN fs[n]
        BY <2>1 DEF Taken
      <3>2. QED
        BY <1>2, <1>4, <3>1 DEF Taken
    <2>2. ASSUME NEW x \in Taken(gs) PROVE x \in Taken(fs)
      <3>1. PICK n \in DOMAIN gs : x \in DOMAIN gs[n]
        BY <2>2 DEF Taken
      <3>2. QED
        BY <1>3, <3>1 DEF Taken
    <2>3. ASSUME NEW x \in DOMAIN Head(fs) PROVE x \in Taken(fs)
      BY <1>2, <1>3, <2>3 DEF Taken
    <2>4. QED
      BY <2>1, <2>2, <2>3
  <1>6. ASSUME NEW T, Apart(fs, T)
        PROVE  /\ Apart(gs, T)
               /\ DOMAIN Head(fs) \cap T = {}
               /\ DOMAIN Head(fs) \cap Taken(gs) = {}
    <2>1. \A n \in DOMAIN gs : /\ DOMAIN gs[n] \cap T = {}
                               /\ DOMAIN gs[n] \cap DOMAIN Head(fs) = {}
      BY <1>2, <1>3, <1>6 DEF Apart
    <2>2. ASSUME NEW n \in DOMAIN gs, NEW k \in DOMAIN gs, k # n
          PROVE  DOMAIN gs[n] \cap DOMAIN gs[k] = {}
      <3>1. n + 1 # k + 1
        BY <1>2, <2>2
      <3>2. QED
        BY <1>3, <1>6, <2>2, <3>1 DEF Apart
    <2>3. DOMAIN Head(fs) \cap T = {}
      BY <1>2, <1>3, <1>6 DEF Apart
    <2>4. DOMAIN Head(fs) \cap Taken(gs) = {}
      BY <2>1 DEF Taken
    <2>5. QED
      BY <2>1, <2>2, <2>3, <2>4 DEF Apart
  <1>7. QED
    BY <1>1, <1>5, <1>6

\* Taken and stored trigger orders stay apart when fewer are stored.
LEMMA ApartFewer ==
    ASSUME NEW fs, NEW T, NEW U, Apart(fs, T), U \subseteq T
    PROVE  Apart(fs, U)
  BY DEF Apart

\* check_triggers places an order it has taken without its trigger: no trigger
\* order is stored, and the order is out of every list.
LEMMA PlaceTriggeredUses ==
    ASSUME CascadeInv, NEW i \in OrderIds, place_triggered(i)
    PROVE  /\ UNCHANGED triggers
           /\ Apart(frames', DOMAIN triggers')
           /\ PendingIds' = PendingIds \ {i} /\ i \in PendingIds
  <1>1. /\ frames # <<>> /\ i \in DOMAIN Head(frames) /\ frames' = Pop(i)
        /\ AreFrames(frames) /\ Apart(frames, DOMAIN triggers)
    BY DEF CascadeInv, PerpInv, PerpTypeOK, AreFrames, place_triggered
  <1>2. AreFrames(Tail(frames)) /\ IsTriggerMap(Head(frames))
    BY <1>1, FramesTail
  <1>3. PICK t : t = Head(frames)[i]
    OBVIOUS
  <1>4. t.request \in Request
    BY <1>1, <1>2, <1>3 DEF IsTriggerMap, TriggerOrder
  <1>5. PICK r : r = [t.request EXCEPT !.trigger = NoTrigger]
    OBVIOUS
  <1>6. r.trigger = NoTrigger
    BY <1>4, <1>5 DEF Request
  <1>7. Accept(t.owner, r) \/ Refuse(t.owner, r)
    BY <1>3, <1>5 DEF place_triggered
  <1>8. UNCHANGED triggers
    BY <1>6, <1>7 DEF Accept, Refuse
  <1>9. PICK h : h = RemoveFrom(Head(frames), {i})
    OBVIOUS
  <1>10. DOMAIN h = DOMAIN Head(frames) \ {i} /\ frames' = <<h>> \o Tail(frames)
    BY <1>1, <1>9, Removing DEF Pop
  <1>11. /\ Taken(frames) = DOMAIN Head(frames) \cup Taken(Tail(frames))
         /\ Apart(Tail(frames), DOMAIN triggers)
         /\ DOMAIN Head(frames) \cap DOMAIN triggers = {}
         /\ DOMAIN Head(frames) \cap Taken(Tail(frames)) = {}
    BY <1>1, PopTaken
  <1>12. Taken(frames') = DOMAIN h \cup Taken(Tail(frames))
    BY <1>2, <1>10, PushTaken
  <1>13. Apart(frames', DOMAIN triggers)
    <2>1. DOMAIN h \cap DOMAIN triggers = {} /\ DOMAIN h \cap Taken(Tail(frames)) = {}
      BY <1>10, <1>11
    <2>2. QED
      BY <1>2, <1>10, <1>11, <2>1, PushTaken
  <1>14. /\ PendingIds = DOMAIN triggers \cup Taken(frames)
         /\ PendingIds' = DOMAIN triggers' \cup Taken(frames')
    BY DEF PendingIds, Taken
  <1>15. PendingIds' = PendingIds \ {i} /\ i \in PendingIds
    BY <1>1, <1>8, <1>10, <1>11, <1>12, <1>14
  <1>16. QED
    BY <1>8, <1>13, <1>15

\* The sweep at the end of an order moves trigger orders from the stored ones
\* to the taken ones.
LEMMA FinishOrderMoves ==
    ASSUME CascadeInv, FinishOrder
    PROVE  Apart(frames', DOMAIN triggers') /\ PendingIds' = PendingIds
  <1>1. /\ AreFrames(frames) /\ Apart(frames, DOMAIN triggers)
        /\ PendingIds = DOMAIN triggers \cup Taken(frames)
        /\ PendingIds' = DOMAIN triggers' \cup Taken(frames')
    BY DEF CascadeInv, PerpInv, PerpTypeOK, AreFrames, PendingIds, Taken
  <1>2. CASE UNCHANGED <<frames, triggers>>
    BY <1>1, <1>2
  <1>3. CASE /\ frames' = <<Restrict(triggers, Fired(mark_price))>> \o frames
             /\ triggers' = RemoveFrom(triggers, Fired(mark_price))
    <2>1. PICK t : t = Restrict(triggers, Fired(mark_price))
      OBVIOUS
    <2>2. DOMAIN t = Fired(mark_price) /\ DOMAIN t \subseteq DOMAIN triggers
      BY <2>1 DEF Restrict, Fired
    <2>3. DOMAIN triggers' = DOMAIN triggers \ DOMAIN t
      BY <1>3, <2>2, Removing
    <2>4. /\ Taken(frames') = DOMAIN t \cup Taken(frames)
          /\ Apart(frames', DOMAIN triggers \ DOMAIN t)
      BY <1>1, <1>3, <2>1, <2>2, PushTaken
    <2>5. QED
      BY <1>1, <2>2, <2>3, <2>4
  <1>4. QED
    BY <1>2, <1>3 DEF FinishOrder

\* Every step keeps taken and stored trigger orders apart.  New ones are stored
\* only while no call of check_triggers is under way.
LEMMA ApartStep ==
    ASSUME CascadeInv, [Next]_vars
    PROVE  Apart(frames', DOMAIN triggers')
  <1>1. AreFrames(frames) /\ Apart(frames, DOMAIN triggers)
    BY DEF CascadeInv, PerpInv, PerpTypeOK, AreFrames
  <1>2. CASE frames = <<>> /\ frames' = <<>>
    BY <1>2 DEF Apart
  <1>3. CASE UNCHANGED <<frames, triggers>>
    BY <1>1, <1>3
  <1>4. CASE \E a \in Accounts, r \in Requests : place_order(a, r) \/ refuse_order(a, r)
    BY <1>2, <1>4 DEF place_order, refuse_order, Free
  <1>5. ASSUME NEW i \in OrderIds, MatchMaker(i) PROVE Apart(frames', DOMAIN triggers')
    BY <1>3, <1>5 DEF MatchMaker
  <1>6. ASSUME NEW i \in OrderIds, place_triggered(i) PROVE Apart(frames', DOMAIN triggers')
    BY <1>6, PlaceTriggeredUses
  <1>7. CASE EndMatching
    BY <1>3, <1>7 DEF EndMatching
  <1>8. CASE apply_fill
    <2>1. PICK ids : triggers' = RemoveFrom(triggers, ids) /\ UNCHANGED frames
      BY <1>8 DEF apply_fill
    <2>2. DOMAIN RemoveFrom(triggers, ids) = DOMAIN triggers \ ids
      BY Removing
    <2>3. DOMAIN triggers' \subseteq DOMAIN triggers
      BY <2>1, <2>2
    <2>4. QED
      BY <1>1, <2>1, <2>3, ApartFewer, SMTT(40)
  <1>9. CASE FinishOrder
    BY <1>9, FinishOrderMoves
  <1>10. CASE check_triggers_returns
    BY <1>1, <1>10, PopTaken DEF check_triggers_returns
  <1>11. ASSUME NEW ids, Cancel(ids) PROVE Apart(frames', DOMAIN triggers')
    BY <1>2, <1>11 DEF Cancel, Free
  <1>12. CASE \E i \in OrderIds : cancel_trigger(i)
    BY <1>2, <1>12 DEF cancel_trigger, Free
  <1>13. CASE \E a \in Accounts, adl \in [Accounts -> 0..MaxOrderSize] : liquidate(a, adl)
    BY <1>2, <1>13 DEF liquidate, Free
  <1>14. CASE Restart
    BY <1>2, <1>14 DEF Restart, Free
  <1>15. CASE UNCHANGED vars
    BY <1>3, <1>15 DEF vars
  <1>16. QED
    BY <1>4, <1>5, <1>6, <1>7, <1>8, <1>9, <1>10, <1>11, <1>12, <1>13, <1>14, <1>15
    DEF Next, EngineStep, cancel_order, cancel_all_orders

\* A turn of the matching loop takes an order out of the book or a part off
\* the taker.
LEMMA MatchingShrinks ==
    ASSUME PerpInv, NEW i \in OrderIds, MatchMaker(i)
    PROVE  Phase' = Phase /\ Left' < Left
  <1>1. /\ pc = "match" /\ pc' = "match" /\ taker \in TakerOrder
        /\ IsOrderMap(book) /\ i \in DOMAIN book /\ taker.remaining > 0
        /\ taker.remaining \in Nat
        /\ book[i].remaining \in Nat /\ book[i].remaining > 0
    BY DEF PerpInv, PerpTypeOK, MatchMaker, Matchable, IsBest, Resting, TakerOrder,
           IsOrderMap, Order
  <1>2. IsFiniteSet(DOMAIN book)
    <2>1. IsFiniteSet(OrderIds)
      BY BoundsAssumption, FS_Interval DEF OrderIds
    <2>2. DOMAIN book \in SUBSET OrderIds
      BY <1>1 DEF IsOrderMap
    <2>3. QED
      BY <2>1, <2>2, FS_Subset
  <1>3. /\ Cardinality(DOMAIN book) \in Nat
        /\ Cardinality(DOMAIN book \ {i}) = Cardinality(DOMAIN book) - 1
    BY <1>1, <1>2, FS_CardinalityType, FS_RemoveElement
  <1>4. /\ Left = Cardinality(DOMAIN book) + taker.remaining
        /\ Left' = Cardinality(DOMAIN book') + taker'.remaining
        /\ Phase = 2 /\ Phase' = 2
    BY <1>1 DEF Left, Phase
  <1>5. CASE book[i].owner = taker.owner
    <2>1. UNCHANGED taker /\ book' = RemoveFrom(book, {i})
      BY <1>5 DEF MatchMaker
    <2>2. DOMAIN book' = DOMAIN book \ {i}
      BY <2>1, Removing, Zenon
    <2>3. QED
      BY <1>1, <1>3, <1>4, <2>1, <2>2
  <1>6. CASE book[i].owner # taker.owner
    <2>1. PICK size : size = fill_size(taker.remaining, book[i].remaining)
      OBVIOUS
    <2>2. size \in Nat /\ size > 0 /\ size <= taker.remaining
      BY <1>1, <2>1, FillSize
    <2>3. /\ taker' = [taker EXCEPT !.remaining = @ - size]
          /\ book' = Consume(book, i, size)
      BY <1>6, <2>1 DEF MatchMaker
    <2>4. taker'.remaining = taker.remaining - size
      BY <1>1, <2>3 DEF TakerOrder
    <2>5. DOMAIN book' = DOMAIN book \ {i} \/ DOMAIN book' = DOMAIN book
      BY <2>3, Removing DEF Consume
    <2>6. Cardinality(DOMAIN book') \in Nat /\ Cardinality(DOMAIN book') <= Cardinality(DOMAIN book)
      BY <1>1, <1>2, <1>3, <2>5, FS_CardinalityType, FS_RemoveElement
    <2>7. QED
      BY <1>1, <1>3, <1>4, <2>2, <2>4, <2>6
  <1>7. QED
    BY <1>5, <1>6

\* Each step of a call gets closer to its end.
Closer ==
    \/ PendingIds' \subseteq PendingIds /\ PendingIds' # PendingIds
    \/ PendingIds' = PendingIds /\ Phase' < Phase
    \/ PendingIds' = PendingIds /\ Phase' = Phase /\ Left' < Left

\* Every step of the thread that holds the engine's lock is such a step.
LEMMA EngineStepCloser ==
    ASSUME CascadeInv, EngineStep
    PROVE  Closer
  <1>1. /\ AreFrames(frames) /\ PerpInv /\ fills \in Seq(PerpFill)
        /\ PendingIds = DOMAIN triggers \cup Taken(frames)
        /\ PendingIds' = DOMAIN triggers' \cup Taken(frames')
    BY DEF CascadeInv, PerpInv, PerpTypeOK, AreFrames, PendingIds, Taken
  <1>2. ASSUME NEW i \in OrderIds, MatchMaker(i) PROVE Closer
    <2>1. PendingIds' = PendingIds
      BY <1>1, <1>2 DEF MatchMaker
    <2>2. QED
      BY <1>1, <1>2, <2>1, MatchingShrinks DEF Closer
  <1>3. ASSUME NEW i \in OrderIds, place_triggered(i) PROVE Closer
    BY <1>3, PlaceTriggeredUses DEF Closer
  <1>4. CASE EndMatching
    <2>1. PendingIds' = PendingIds
      BY <1>1, <1>4 DEF EndMatching
    <2>2. pc = "match" /\ pc' \in {"idle", "fill"}
      BY <1>4 DEF EndMatching
    <2>3. Phase = 2 /\ Phase' \in {0, 1}
      BY <2>2 DEF Phase
    <2>4. QED
      BY <2>1, <2>3 DEF Closer
  <1>5. CASE apply_fill
    <2>1. PICK ids : triggers' = RemoveFrom(triggers, ids) /\ UNCHANGED frames
      BY <1>5 DEF apply_fill
    <2>2. PendingIds' \subseteq PendingIds
      BY <1>1, <2>1, Removing
    <2>3. pc = "fill" /\ pc' = "fill" /\ fills # <<>> /\ fills' = Tail(fills)
      BY <1>5 DEF apply_fill
    <2>4. Len(fills') < Len(fills)
      BY <1>1, <2>3
    <2>5. Phase' = Phase /\ Left' < Left
      BY <2>3, <2>4 DEF Phase, Left
    <2>6. QED
      BY <2>2, <2>5, SMTT(40) DEF Closer
  <1>6. CASE FinishOrder
    <2>1. PendingIds' = PendingIds
      BY <1>6, FinishOrderMoves
    <2>2. pc = "fill" /\ pc' = "idle"
      BY <1>6 DEF FinishOrder
    <2>3. Phase = 1 /\ Phase' = 0
      BY <2>2 DEF Phase
    <2>4. QED
      BY <2>1, <2>3 DEF Closer
  <1>7. CASE check_triggers_returns
    <2>1. /\ pc = "idle" /\ pc' = "idle" /\ frames # <<>> /\ DOMAIN Head(frames) = {}
          /\ frames' = Tail(frames) /\ UNCHANGED triggers
      BY <1>7 DEF check_triggers_returns
    <2>2. Taken(frames') = Taken(frames)
      <3>1. Taken(frames) = DOMAIN Head(frames) \cup Taken(Tail(frames))
        BY <1>1, <2>1, PopTaken, Zenon
      <3>2. QED
        BY <2>1, <3>1
    <2>3. Len(frames') = Len(frames) - 1 /\ Len(frames) \in Nat
      BY <1>1, <2>1, TailShape
    <2>4. Phase' = Phase /\ Left' < Left
      BY <2>1, <2>3 DEF Phase, Left
    <2>5. QED
      BY <1>1, <2>1, <2>2, <2>4 DEF Closer
  <1>8. QED
    BY <1>2, <1>3, <1>4, <1>5, <1>6, <1>7 DEF EngineStep

\* Every call of place_order returns, whatever trigger orders its fills set
\* off (place_order and check_triggers of engine/src/lib.rs call each other):
\* each step makes a well-founded measure smaller.
THEOREM EveryCascadeEnds == Spec => CascadeEnds
  <1>1. Init => CascadeInv
    <2>1. ASSUME Init PROVE Apart(frames, DOMAIN triggers)
      BY <2>1 DEF Init, Apart
    <2>2. QED
      BY <2>1, InitPerpInv DEF CascadeInv
  <1>2. CascadeInv /\ [Next]_vars => CascadeInv'
    BY ApartStep, NextKeepsPerpInv DEF CascadeInv
  <1>3. CascadeInv => [EngineStep => Closer]_vars
    BY EngineStepCloser
  <1>4. QED
    BY <1>1, <1>2, <1>3, PTL DEF Spec, CascadeEnds, Closer
=============================================================================
