-------------------------- MODULE SimulationWorker --------------------------
(***************************************************************************)
(* The browser's local simulator, vidhi_context/src/engine/                *)
(* simulation.worker.js: a Web Worker that receives START_SIMULATION and   *)
(* STOP_SIMULATION, loads a data set, compiles the contestant's code and   *)
(* then runs batches of ticks, giving the event loop a turn after each.    *)
(* Within a tick five bots and the contestant act on one order book.       *)
(*                                                                         *)
(* The worker is single-threaded: messages are handled only while no batch *)
(* runs (pc = "loop") or while START waits for its data set.  Prices are   *)
(* whole ticks.  What only feeds a number (EMAs, inventory skew, random    *)
(* streams, cash, latency and chart histories) is the choice of the price, *)
(* side or volume it decides.                                              *)
(***************************************************************************)
EXTENDS Integers, Sequences, FiniteSets, FiniteSetsExt, SequencesExt, TLC

CONSTANTS
    Grid,          \* prices, in ticks, that occur
    BasePrice,     \* BASE_PRICE
    BotConfigs,    \* sets of bots with a positive scale, one per bot_config
    FairValues,    \* values of the price signal
    HalfSpreads,   \* half of the market maker's spread, at least one tick
    Skews,         \* shifts of its quotes by its inventory
    MRBand,        \* the mean reversion threshold (5 ticks in the code)
    MRCap,         \* capacity of each mean reversion ring (8)
    NoiseCap,      \* capacity of the noise trader's ring (6)
    NoiseOffsets,  \* distances of a noise order from the best price (-2..2)
    NoiseVolumes,  \* volumes of noise orders
    SniperCap,     \* largest order of the sniper (100)
    LimitPrices,   \* prices of the contestant's limit orders
    OrderVolumes,  \* volumes the contestant asks for
    PositionLimit, \* POSITION_LIMIT
    QueueCap,      \* resting contestant orders before the oldest goes (200)
    MaxPerTick,    \* bound on the orders of one on_tick call
    TickBatch,     \* TICK_BATCH
    MaxTicks,      \* MAX_TICKS
    MaxStops       \* bound on STOP_SIMULATION messages

ASSUME WorkerAssumption ==
    \* The grid is the range of prices that occur: the signal, a tick around
    \* it, the base price and every quote lie within.
    /\ Grid \subseteq Int /\ {Min(Grid), Max(Grid)} \subseteq Grid
    /\ Grid = Min(Grid)..Max(Grid)
    /\ FairValues \subseteq Int /\ Skews \subseteq Int /\ HalfSpreads \subseteq Nat \ {0}
    /\ \A v \in FairValues \cup {BasePrice} : {v - 1, v + 1} \subseteq Grid
    /\ \A v \in FairValues, h \in HalfSpreads, k \in Skews : {v - h - k, v + h - k} \subseteq Grid
    /\ BasePrice \in Int /\ LimitPrices \subseteq Grid
    /\ \A c \in BotConfigs : c \subseteq {"MM", "MOM", "MR", "NOISE", "SNIPER"}
    /\ PositionLimit \in Nat \ {0}
    /\ OrderVolumes \subseteq Nat /\ NoiseVolumes \subseteq Nat /\ NoiseOffsets \subseteq Int
    /\ {MRBand, SniperCap, MaxPerTick, MaxStops} \subseteq Nat
    /\ {MRCap, NoiseCap, QueueCap, TickBatch, MaxTicks} \subseteq Nat \ {0}

VARIABLES
    pc,        \* where the worker is; "loop" = in the event loop, timer armed or not
    stops,     \* STOP_SIMULATION messages handled so far
    posted,    \* type of the message posted to the page last
    isRunning,
    enabled,   \* bots with a positive scale
    lob,       \* the order book; its nextOrderId is 0 while lob is null
    mm,        \* the market maker's quotes: [buy, sell] of [id, price]
    mrRing,    \* the mean reversion bot's rings, per side
    noiseRing, \* the noise trader's ring, for both sides
    snap,      \* the snapshot the bots see in this tick
    signal,    \* fairValue of this tick
    queue,     \* contestantOrdersQueue
    fills,     \* newFills, as the contestant's net volume in this tick
    position,
    tick,      \* tickCount
    inBatch,   \* ticks left in this batch
    sent       \* orders the contestant has sent in this tick

vars == <<pc, stops, posted, isRunning, enabled, lob, mm, mrRing, noiseRing,
          snap, signal, queue, fills, position, tick, inBatch, sent>>

Sides == {"buy", "sell"}
Opposite == [buy |-> "sell", sell |-> "buy"]

------------------------------ (* The book *) ------------------------------
\* p is a better price than q for resting orders of this side.
Ahead(side, p, q) == IF side = "buy" THEN p > q ELSE p < q

EmptySide == [buy |-> BasePrice - 1, sell |-> BasePrice + 1]

NewBook ==
    [book |-> [s \in Sides |-> <<>>],
     best |-> [buy |-> Min(Grid) - 1, sell |-> Max(Grid) + 1],
     nextOrderId |-> 1]

Top(b, side) == CHOOSE p \in DOMAIN b.book[side] :
                    \A q \in DOMAIN b.book[side] \ {p} : Ahead(side, p, q)

\* _rebuildBest: both sides, an empty side falling back to the base price.
RebuildBest(b) ==
    [book |-> b.book, nextOrderId |-> b.nextOrderId,
     best |-> [s \in Sides |-> IF DOMAIN b.book[s] = {} THEN EmptySide[s] ELSE Top(b, s)]]

Without(f, keys) == [k \in DOMAIN f \ keys |-> f[k]]

\* The book with other levels on one side.
WithLevels(b, side, levels) ==
    [book |-> [b.book EXCEPT ![side] = levels], best |-> b.best, nextOrderId |-> b.nextOrderId]

\* addOrder: never matches, only rests; the caller knows the id it gets.
AddOrder(b, side, price, volume, who) ==
    LET levels == b.book[side]
        old == IF price \in DOMAIN levels THEN levels[price]
               ELSE [volume |-> 0, orders |-> <<>>]
        new == [volume |-> old.volume + volume,
                orders |-> Append(old.orders, [id |-> b.nextOrderId,
                                               who |-> who,
                                               volume |-> volume])]
        top == IF Ahead(side, price, b.best[side]) THEN price ELSE b.best[side]
    IN  [book |-> [b.book EXCEPT ![side] =
                     [p \in DOMAIN levels \cup {price} |->
                         IF p = price THEN new ELSE levels[p]]],
         best |-> [b.best EXCEPT ![side] = top],
         nextOrderId |-> b.nextOrderId + 1]

IdsAt(b, side, price) ==
    IF price \in DOMAIN b.book[side]
    THEN {b.book[side][price].orders[i].id :
            i \in DOMAIN b.book[side][price].orders}
    ELSE {}

\* Deliberate error: the volume of a level that stays is not reduced.
CancelOrder_keepsVolume(b, side, price, id) ==
    IF id \notin IdsAt(b, side, price) THEN b
    ELSE LET level == b.book[side][price]
             others == SelectSeq(level.orders, LAMBDA o : o.id # id)
         IN  IF others = <<>>
             THEN RebuildBest([b EXCEPT !.book[side] = Without(@, {price})])
             ELSE [b EXCEPT !.book[side][price].orders = others]

\* cancelOrder: by side, price and id; anything else is a no-op.
CancelOrder(b, side, price, id) ==
    IF id \notin IdsAt(b, side, price) THEN b
    ELSE LET levels == b.book[side]
             level == levels[price]
             idx == CHOOSE i \in DOMAIN level.orders : level.orders[i].id = id
             left == level.volume - level.orders[idx].volume
             without == WithLevels(b, side, Without(levels, {price}))
         IN  IF left <= 0
             THEN IF price = b.best[side] THEN RebuildBest(without) ELSE without
             ELSE WithLevels(b, side, [levels EXCEPT ![price] =
                     [volume |-> left, orders |-> RemoveAt(level.orders, idx)]])

\* Volume of the orders before the i-th of a level, and of all.
VolumeBefore(orders, i) ==
    SumFunctionOnSet([j \in DOMAIN orders |-> orders[j].volume], 1..(i - 1))

Volume(orders) == VolumeBefore(orders, Len(orders) + 1)

\* What the i-th order of a level gives to an order that reaches the level
\* with `remaining` still to fill.
FillOf(orders, i, remaining) ==
    Min({orders[i].volume, Max({0, remaining - VolumeBefore(orders, i)})})

\* The orders of a level, each less what it gives.
Cut(orders, remaining) ==
    [i \in DOMAIN orders |->
        [id |-> orders[i].id, who |-> orders[i].who,
         volume |-> orders[i].volume - FillOf(orders, i, remaining)]]

\* The first order that is not reached or not used up.
FirstLeft(orders, remaining) ==
    Min({i \in DOMAIN orders : \/ remaining - VolumeBefore(orders, i) <= 0
                               \/ FillOf(orders, i, remaining) < orders[i].volume}
        \cup {Len(orders) + 1})

\* A level after such an order: touched orders shrink and go at zero.
LevelAfter(level, remaining) ==
    LET orders == level.orders
        taken == SumFunction([i \in DOMAIN orders |-> FillOf(orders, i, remaining)])
    IN  [volume |-> level.volume - taken,
         orders |-> SubSeq(Cut(orders, remaining), FirstLeft(orders, remaining), Len(orders))]

\* Volume at prices a market order visits before p.
DepthBefore(levels, side, p) ==
    SumFunctionOnSet([q \in DOMAIN levels |-> levels[q].volume],
                     {q \in DOMAIN levels : Ahead(side, q, p)})

\* marketOrder(taker, volume): walks the other side from its best price, FIFO
\* within a level, and deletes the levels it empties.
MarketOrder(b, taker, volume) ==
    LET side == Opposite[taker]
        levels == b.book[side]
        remaining == [p \in DOMAIN levels |-> volume - DepthBefore(levels, side, p)]
        after == [p \in DOMAIN levels |->
                    IF remaining[p] > 0 THEN LevelAfter(levels[p], remaining[p])
                    ELSE levels[p]]
        gone == {p \in DOMAIN levels : remaining[p] > 0 /\ after[p].volume <= 0}
        rest == WithLevels(b, side, Without(after, gone))
    IN  IF gone = {} THEN rest ELSE RebuildBest(rest)

\* The part of that market order's volume that `who` takes the other side of.
FilledBy(b, taker, volume, who) ==
    LET side == Opposite[taker]
        levels == b.book[side]
        remaining == [p \in DOMAIN levels |-> Max({0, volume - DepthBefore(levels, side, p)})]
        at(p) == SumFunction([i \in DOMAIN levels[p].orders |->
                    IF levels[p].orders[i].who \in who
                    THEN FillOf(levels[p].orders, i, remaining[p]) ELSE 0])
    IN  SumFunction([p \in DOMAIN levels |-> at(p)])

\* bestBid / bestAsk: an empty side shows the base price, a side with orders
\* the tracked best.
BestOf(b, side) == IF DOMAIN b.book[side] = {} THEN EmptySide[side] ELSE b.best[side]

\* depth(side, 5)[0]: the volume at the real top level, 0 without one.
TopDepth(b, side) ==
    IF DOMAIN b.book[side] = {} THEN 0 ELSE b.book[side][Top(b, side)].volume

Snapshot(b) ==
    [best |-> [s \in Sides |-> BestOf(b, s)], depth |-> [s \in Sides |-> TopDepth(b, s)]]

----------------------- (* Messages and the batches *) -----------------------
MMQuote(b, q) ==   \* MarketMaker.compute: cancel the old quotes, place new ones
    LET none == CancelOrder(CancelOrder(b, "buy", mm.buy.price, mm.buy.id),
                            "sell", mm.sell.price, mm.sell.id)
    IN  AddOrder(AddOrder(none, "buy", q.bid, 1, "MM"), "sell", q.ask, 1, "MM")

\* Quotes lie around the fair value, at least two ticks apart; the inventory
\* skew moves both.
Quotes(fv) == {[bid |-> fv - h - k, ask |-> fv + h - k] : h \in HalfSpreads, k \in Skews}

QuoteIds(b, q) == [buy  |-> [id |-> b.nextOrderId, price |-> q.bid],
                   sell |-> [id |-> b.nextOrderId + 1, price |-> q.ask]]

NoQuotes == [s \in Sides |-> [id |-> 0, price |-> BasePrice]]

Null == [book |-> NewBook.book, best |-> NewBook.best, nextOrderId |-> 0]   \* lob = null

\* buildFinalReport reads the book: without one it throws.
CanReport == lob # Null

\* getPriceSignal: the next price of the data set, or a clamped random step.
PriceSignal == FairValues

\* compile: the translated code is accepted by the Function constructor or not.
Compile == BOOLEAN

Init ==   \* a fresh worker has just received START_SIMULATION
    /\ pc = "idb" /\ stops = 0 /\ posted = "none" /\ isRunning = FALSE
    /\ enabled = {} /\ lob = Null /\ mm = NoQuotes
    /\ mrRing = [s \in Sides |-> <<>>] /\ noiseRing = <<>>
    /\ snap = Snapshot(NewBook) /\ signal = BasePrice
    /\ queue = <<>> /\ fills = 0 /\ position = 0
    /\ tick = 0 /\ inBatch = 0 /\ sent = 0

\* getDataset resolves to a CSV or to undefined, or rejects, as do all later
\* calls once the data base could not be opened.
GetDataset == {"csv", "undefined", "rejected"}

\* loadDataset: first IndexedDB; without a stored CSV, the backend is asked.
LoadFromIDB ==
    /\ pc = "idb"
    /\ \E outcome \in GetDataset : pc' = IF outcome = "csv" THEN "init" ELSE "fetch"
    /\ UNCHANGED <<stops, posted, isRunning, enabled, lob, mm, mrRing, noiseRing, snap,
                   signal, queue, fills, position, tick, inBatch, sent>>

\* The backend answers or fails; either way the START handler goes on.
LoadFromBackend ==
    /\ pc = "fetch"
    /\ pc' = "init"
    /\ UNCHANGED <<stops, posted, isRunning, enabled, lob, mm, mrRing, noiseRing, snap,
                   signal, queue, fills, position, tick, inBatch, sent>>

\* initSimulation after the await: book, bots, the market maker's first quotes,
\* then the compilation of the contestant's code.
InitSimulation ==
    /\ pc = "init"
    /\ enabled' \in BotConfigs
    /\ \E q \in UNION {Quotes(fv) : fv \in PriceSignal}, ok \in Compile :
        /\ lob' = (IF "MM" \in enabled' THEN MMQuote(NewBook, q) ELSE NewBook)
        /\ mm' = (IF "MM" \in enabled' THEN QuoteIds(NewBook, q) ELSE NoQuotes)
        /\ mrRing' = [s \in Sides |-> <<>>]
        /\ noiseRing' = <<>>
        /\ queue' = <<>> /\ position' = 0 /\ tick' = 0
        /\ posted' = IF ok THEN "COMPILE_OK" ELSE "COMPILE_ERROR"
        /\ isRunning' = (IF ok THEN TRUE ELSE isRunning)
        /\ inBatch' = (IF ok THEN TickBatch ELSE 0)
        /\ pc' = IF ok THEN "tick" ELSE "loop"
    /\ UNCHANGED <<stops, snap, signal, fills, sent>>

\* Deliberate error: the simulation ends without its report.
RunBatch_silent ==
    /\ pc = "loop" /\ isRunning
    /\ IF tick >= MaxTicks
       THEN isRunning' = FALSE /\ UNCHANGED <<pc, inBatch>>
       ELSE pc' = "tick" /\ inBatch' = TickBatch /\ UNCHANGED isRunning
    /\ UNCHANGED <<stops, posted, enabled, lob, mm, mrRing, noiseRing, snap, signal,
                   queue, fills, position, tick, sent>>

\* Deliberate error: the end is reported, but isRunning stays set.
RunBatch_goesOn ==
    /\ pc = "loop" /\ isRunning
    /\ IF tick >= MaxTicks
       THEN posted' = "SIMULATION_COMPLETE" /\ UNCHANGED <<pc, inBatch>>
       ELSE pc' = "tick" /\ inBatch' = TickBatch /\ UNCHANGED posted
    /\ UNCHANGED <<stops, isRunning, enabled, lob, mm, mrRing, noiseRing, snap, signal,
                   queue, fills, position, tick, sent>>

\* The timer: runBatch ends the simulation or starts the next batch.
RunBatch ==
    /\ pc = "loop" /\ isRunning
    /\ IF tick >= MaxTicks
       THEN /\ posted' = "SIMULATION_COMPLETE"
            /\ isRunning' = FALSE
            /\ UNCHANGED <<pc, inBatch>>
       ELSE /\ pc' = "tick" /\ inBatch' = TickBatch
            /\ UNCHANGED <<posted, isRunning>>
    /\ UNCHANGED <<stops, enabled, lob, mm, mrRing, noiseRing, snap, signal, queue,
                   fills, position, tick, sent>>

\* STOP_SIMULATION.  While START still waits for its data there is no book and
\* buildFinalReport throws: nothing is posted and START goes on afterwards.
StopSimulation ==
    /\ pc \in {"idb", "fetch", "loop"} /\ stops < MaxStops
    /\ stops' = stops + 1
    /\ isRunning' = FALSE
    /\ posted' = IF CanReport THEN "SIMULATION_STOPPED" ELSE posted
    /\ UNCHANGED <<pc, enabled, lob, mm, mrRing, noiseRing, snap, signal, queue, fills,
                   position, tick, inBatch, sent>>

------------------------------ (* One tick *) ------------------------------
BeginTick ==   \* steps 1 and 2: the signal and the snapshot all bots share
    /\ pc = "tick"
    /\ signal' \in PriceSignal
    /\ snap' = Snapshot(lob)
    /\ pc' = "mm"
    /\ UNCHANGED <<stops, posted, isRunning, enabled, lob, mm, mrRing, noiseRing, queue,
                   fills, position, tick, inBatch, sent>>

MarketMaker ==
    /\ pc = "mm"
    /\ IF "MM" \in enabled
       THEN \E q \in Quotes(signal) : lob' = MMQuote(lob, q) /\ mm' = QuoteIds(lob, q)
       ELSE UNCHANGED <<lob, mm>>
    /\ pc' = "mom"
    /\ UNCHANGED <<stops, posted, isRunning, enabled, mrRing, noiseRing, snap, signal,
                   queue, fills, position, tick, inBatch, sent>>

\* MomentumBot: a market order when the mid price has left its EMA, else none.
MomentumBot ==
    /\ pc = "mom"
    /\ \/ "MOM" \in enabled /\ \E side \in Sides : lob' = MarketOrder(lob, side, 1)
       \/ lob' = lob
    /\ pc' = "mr"
    /\ UNCHANGED <<stops, posted, isRunning, enabled, mm, mrRing, noiseRing, snap,
                   signal, queue, fills, position, tick, inBatch, sent>>

\* OrderRing.push: a full ring gives up its oldest entry.
RingPush(ring, entry, cap) ==
    IF Len(ring) = cap THEN Append(Tail(ring), entry) ELSE Append(ring, entry)

\* Deliberate error: the evicted order stays in the book.
Evicted_stays(b, ring, cap, side) == b

Evicted(b, ring, cap, side) ==
    IF Len(ring) = cap THEN CancelOrder(b, side, Head(ring).price, Head(ring).id) ELSE b

\* Twice the mid price less twice the fair value.
Deviation == snap.best.buy + snap.best.sell - 2 * signal

MRSide == IF Deviation > 2 * MRBand THEN {"sell"}
          ELSE IF Deviation < -2 * MRBand THEN {"buy"} ELSE {}

\* Deliberate error: the mid price is not halved.
MRPrice_sum(side) == snap.best.buy + snap.best.sell + (IF side = "sell" THEN -1 ELSE 1)

\* mid - TICK_SIZE or mid + TICK_SIZE, rounded to a tick by _priceKey.
MRPrice(side) ==
    (snap.best.buy + snap.best.sell + (IF side = "sell" THEN -1 ELSE 3)) \div 2

MeanReversionBot ==
    /\ pc = "mr"
    /\ IF "MR" \notin enabled \/ MRSide = {} THEN UNCHANGED <<lob, mrRing>>
       ELSE \E side \in MRSide :
              /\ lob' = Evicted(AddOrder(lob, side, MRPrice(side), 1, "MR"),
                                mrRing[side], MRCap, side)
              /\ mrRing' = [mrRing EXCEPT ![side] =
                    RingPush(@, [id |-> lob.nextOrderId, price |-> MRPrice(side)], MRCap)]
    /\ pc' = "noise"
    /\ UNCHANGED <<stops, posted, isRunning, enabled, mm, noiseRing, snap, signal, queue,
                   fills, position, tick, inBatch, sent>>

\* NoiseTrader: one ring for both sides; what it evicts is cancelled on the
\* side of the new order.
NoiseTrader ==
    /\ pc = "noise"
    /\ \/ UNCHANGED <<lob, noiseRing>>
       \/ "NOISE" \in enabled /\ \E side \in Sides, off \in NoiseOffsets, vol \in NoiseVolumes :
            LET price == snap.best[side] + off IN
            /\ price \in Grid
            /\ lob' = Evicted(AddOrder(lob, side, price, vol, "NOISE"),
                              noiseRing, NoiseCap, side)
            /\ noiseRing' = RingPush(noiseRing,
                              [id |-> lob.nextOrderId, price |-> price], NoiseCap)
    /\ pc' = "sniper"
    /\ UNCHANGED <<stops, posted, isRunning, enabled, mm, mrRing, snap, signal, queue,
                   fills, position, tick, inBatch, sent>>

\* SniperBot: takes the top depth of the snapshot when it is off the fair value.
SnipeOn(b, side) ==
    IF /\ snap.depth[side] > 0
       /\ Ahead(side, snap.best[side], signal + (IF side = "buy" THEN 1 ELSE -1))
    THEN MarketOrder(b, Opposite[side], Min({snap.depth[side], SniperCap})) ELSE b

SniperBot ==
    /\ pc = "sniper"
    /\ lob' = IF "SNIPER" \in enabled THEN SnipeOn(SnipeOn(lob, "sell"), "buy") ELSE lob
    /\ pc' = "contestant"
    /\ UNCHANGED <<stops, posted, isRunning, enabled, mm, mrRing, noiseRing, snap, signal,
                   queue, fills, position, tick, inBatch, sent>>

Capped(v) == Min({v, PositionLimit})   \* orders.market_buy etc. cap the volume

\* Step 5, one order of on_tick.  The limit test reads the position of the
\* start of the tick: step 6 updates it only after the last order.
AtLimit_exclusive(side) ==   \* deliberate error: > for >=
    \/ side = "buy" /\ position > PositionLimit
    \/ side = "sell" /\ position < -PositionLimit

AtLimit(side) == \/ side = "buy" /\ position >= PositionLimit
                 \/ side = "sell" /\ position <= -PositionLimit

ContestantMarket ==
    /\ pc = "contestant" /\ sent < MaxPerTick
    /\ \E side \in Sides, v \in OrderVolumes :
        /\ ~AtLimit(side)
        /\ lob' = MarketOrder(lob, side, Capped(v))
        /\ fills' = fills + (IF side = "buy" THEN 1 ELSE -1) *
                       FilledBy(lob, side, Capped(v), {"MM", "MR", "NOISE"})
    /\ sent' = sent + 1
    /\ UNCHANGED <<pc, stops, posted, isRunning, enabled, mm, mrRing, noiseRing, snap,
                   signal, queue, position, tick, inBatch>>

ContestantLimit ==
    /\ pc = "contestant" /\ sent < MaxPerTick
    /\ \E side \in Sides, price \in LimitPrices, v \in OrderVolumes :
        /\ lob' = AddOrder(lob, side, price, Capped(v), "CONTESTANT")
        /\ queue' = Append(queue, [side |-> side, price |-> price, id |-> lob.nextOrderId])
    /\ sent' = sent + 1
    /\ UNCHANGED <<pc, stops, posted, isRunning, enabled, mm, mrRing, noiseRing, snap,
                   signal, fills, position, tick, inBatch>>

\* orders.cancel(id): both sides are searched for the contestant's own order;
\* contestantOrdersQueue keeps its entry.
ContestantCancel ==
    /\ pc = "contestant" /\ sent < MaxPerTick
    /\ \E side \in Sides : \E price \in DOMAIN lob.book[side] :
         \E i \in DOMAIN lob.book[side][price].orders :
            LET o == lob.book[side][price].orders[i] IN
            /\ o.who = "CONTESTANT"
            /\ lob' = CancelOrder(lob, side, price, o.id)
    /\ sent' = sent + 1
    /\ UNCHANGED <<pc, stops, posted, isRunning, enabled, mm, mrRing, noiseRing, snap,
                   signal, queue, fills, position, tick, inBatch>>

\* The orders contestantOrdersQueue gives up, oldest first.
Overflow == SubSeq(queue, 1, Len(queue) - QueueCap)

\* The flood guard: the book after they are cancelled one by one.
Thinned(b, over) ==
    LET after[k \in 0..Len(over)] ==
          IF k = 0 THEN b
          ELSE CancelOrder(after[k - 1], over[k].side, over[k].price, over[k].id)
    IN  after[Len(over)]

\* After the last order: the flood guard, step 6 and the end of the tick, and
\* with the batch over TICK_UPDATE and the next timer.
FinishTick ==
    /\ pc = "contestant"
    /\ lob' = Thinned(lob, Overflow)
    /\ queue' = SubSeq(queue, Len(Overflow) + 1, Len(queue))
    /\ position' = position + fills
    /\ fills' = 0 /\ sent' = 0
    /\ tick' = tick + 1
    /\ inBatch' = inBatch - 1
    /\ IF inBatch' > 0 /\ tick' < MaxTicks
       THEN pc' = "tick" /\ UNCHANGED posted
       ELSE pc' = "loop" /\ posted' = "TICK_UPDATE"
    /\ UNCHANGED <<stops, isRunning, enabled, mm, mrRing, noiseRing, snap, signal>>

WorkerStep ==
    \/ LoadFromIDB \/ LoadFromBackend \/ InitSimulation \/ RunBatch
    \/ BeginTick \/ MarketMaker \/ MomentumBot \/ MeanReversionBot
    \/ NoiseTrader \/ SniperBot \/ ContestantMarket \/ ContestantLimit
    \/ ContestantCancel \/ FinishTick

\* The worker rests when nothing is scheduled.
Rest == pc = "loop" /\ ~isRunning /\ UNCHANGED vars

Next == WorkerStep \/ StopSimulation \/ Rest

\* The call of on_tick has not returned: the contestant's loops run without any
\* limit, and with them the event loop stands still.
OnTickRuns == pc = "contestant" /\ sent = 0

\* The event loop and the network go on; nobody has to press stop, and on_tick
\* need not return.
Spec == Init /\ [][Next]_vars /\ WF_vars(WorkerStep /\ ~OnTickRuns)

------------------------------ (* Properties *) ------------------------------
\* The orders of `who` that rest on a side, and how many they are.
RestingIds(who, side) ==
    UNION {{o.id : o \in {x \in ToSet(lob.book[side][p].orders) : x.who = who}} :
           p \in DOMAIN lob.book[side]}

RestingOf(who, side) == Cardinality(RestingIds(who, side))

PCs == {"idb", "fetch", "init", "loop", "tick", "mm", "mom", "mr", "noise",
        "sniper", "contestant"}

\* Values of the right kind; a batch runs only while isRunning.
TypeOK ==
    /\ pc \in PCs /\ enabled \in BotConfigs \cup {{}} /\ isRunning \in BOOLEAN /\ stops \in 0..MaxStops
    /\ position \in Int /\ fills \in Int /\ tick \in 0..MaxTicks
    /\ \A s \in Sides : DOMAIN lob.book[s] \subseteq Grid
    /\ pc \notin {"idb", "fetch", "init", "loop"} => isRunning

\* The book's summaries agree with its orders through every add, cancel and
\* match (addOrder, cancelOrder, marketOrder): a level's volume is the sum of
\* its orders, no level is empty, ids rise along a level (time priority) and no
\* id rests twice.
LevelsConsistent ==
    /\ \A s \in Sides : \A p \in DOMAIN lob.book[s] :
         LET l == lob.book[s][p] IN
         /\ l.orders # <<>>
         /\ l.volume = Volume(l.orders)
         /\ \A i, j \in DOMAIN l.orders : i < j => l.orders[i].id < l.orders[j].id
    /\ \A s, t \in Sides : \A p \in DOMAIN lob.book[s], q \in DOMAIN lob.book[t] :
         (<<s, p>> # <<t, q>>) => IdsAt(lob, s, p) \cap IdsAt(lob, t, q) = {}

\* Orders that nobody matches do not pile up: the market maker keeps one quote
\* per side, the mean reversion bot at most a ring of orders per side, and
\* between ticks the contestant at most QueueCap ("caps resting orders",
\* "Auto-cancel oldest orders if contestant floods the book").
RestingCapped ==
    /\ \A s \in Sides : RestingOf("MM", s) <= 1
    /\ \A s \in Sides : RestingOf("MR", s) <= MRCap
    /\ pc \in {"tick", "loop"} =>
         RestingOf("CONTESTANT", "buy") + RestingOf("CONTESTANT", "sell") <= QueueCap

\* How far POSITION_LIMIT holds: the test is made against the position of the
\* start of the tick, so one tick may overshoot the limit by all its orders,
\* but once it is reached no tick pushes the position further, not even by
\* market orders that meet the contestant's own limit orders.
LimitHolds ==
    [][/\ position >= PositionLimit => position' <= position
       /\ position <= -PositionLimit => position' >= position]_vars

\* The worker keeps to the protocol the page relies on: compilation is answered
\* before any tick, ticks come only from a running simulation, completion and
\* stop are reported once each per run, and a STOP that meets a loading worker
\* is not answered.
Protocol == INSTANCE WorkerProtocol
    WITH phase <- IF pc \in {"idb", "fetch", "init"} THEN "loading"
                  ELSE IF isRunning THEN "running" ELSE "rest",
         last <- posted

KeepsProtocol == Protocol!Spec

\* Every start ends with a compile error or a report, whenever STOP is pressed,
\* provided the calls of on_tick return; after one that does not, neither a
\* report nor a STOP is ever handled.
EveryStartEnds ==
    []<>~OnTickRuns =>
        <>[](/\ pc = "loop" /\ ~isRunning
             /\ posted \in {"COMPILE_ERROR", "SIMULATION_COMPLETE", "SIMULATION_STOPPED"})

\* "Track best bid/ask incrementally (O(1)) instead of Math.max spread": the
\* tracked best of a side with orders is its best price.
BestIsTop ==
    \A s \in Sides : DOMAIN lob.book[s] # {} => BestOf(lob, s) = Top(lob, s)
=============================================================================
