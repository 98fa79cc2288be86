---------------------------- MODULE PersistentLOB ----------------------------
(***************************************************************************)
(* The pool-allocated limit order book of game-master/persistent_lob.hpp:  *)
(* a slab of order nodes with a free stack, per side a sorted array of     *)
(* price levels that head singly linked FIFO queues of nodes, and an open- *)
(* addressing map from order id to node.  The book is used by one thread;  *)
(* a market order is stepped one iteration of its loop at a time.          *)
(***************************************************************************)
EXTENDS Integers, Sequences, SequencesExt, FiniteSetsExt

CONSTANTS PoolSize,      \* ORDER_POOL_SIZE
          MaxLevels,     \* MAX_PRICE_LEVELS
          MapSize,       \* MAP_SIZE
          HashMul,       \* 2654435761 in the code
          Prices, Volumes, Participants,
          MaxOrders      \* bound on the ids handed out

ASSUME LOBAssumption ==
    /\ PoolSize \in Nat \ {0} /\ MaxLevels \in Nat \ {0}
    /\ MapSize \in Nat /\ MapSize > PoolSize    \* "must be ... > ORDER_POOL_SIZE"
    /\ HashMul \in Nat /\ MaxOrders \in Nat
    /\ Prices \subseteq Nat \ {0} /\ Volumes \subseteq Nat /\ Participants \subseteq Int

VARIABLES pool, free_stack,      \* OrderPool: nodes and the used part of free_stack
          sides,                 \* bids and asks: sequences of levels
          order_map,
          next_order_id,
          taker,                 \* market_order's arguments and remaining
          due                    \* history: per id, placed - filled - cancelled

lobVars == <<pool, free_stack, sides, order_map, next_order_id, taker, due>>

Sides   == {"bids", "asks"}
Nodes   == 1 .. PoolSize
NULL    == 0                     \* NULL_IDX and NULL_ORDER_ID
EMPTY   == -1                    \* map key of a slot never used
DELETED == 0                     \* map key of a tombstone
Ids     == 1 .. MaxOrders
MapSlots == 0 .. MapSize - 1

\* The fields of a free node and of an unused slot are dead: every field is
\* written before it is read again, so they keep one canonical value.
FreeNode == [order_id |-> 0, volume |-> 0, participant |-> 0, next |-> NULL]
Vacant(key) == [key |-> key, val |-> NULL, price_fp |-> 0, side |-> "bids"]

Idle == [side |-> "bids", remaining |-> 0, participant |-> 0]

\* OrderPool::init, LOBSide::init and the 0xFF fill of the map.
EmptyBook ==
    /\ pool = [i \in Nodes |-> FreeNode]
    /\ free_stack = [i \in Nodes |-> i]
    /\ sides = [s \in Sides |-> <<>>]
    /\ order_map = [s \in MapSlots |-> Vacant(EMPTY)]
    /\ next_order_id = 1
    /\ taker = Idle
    /\ due = [i \in Ids |-> 0]

-----------------------------------------------------------------------------
(* LOBSide *)

\* Bids descend, asks ascend.
Better(side, p, q) == IF side = "bids" THEN p > q ELSE p < q

\* Binary search between two indices: the level with price p, or 0.
find(side, p) ==
    LET lv == sides[side]
        search[w \in (1 .. Len(lv) + 1) \X (0 .. Len(lv))] ==
            LET mid == (w[1] + w[2]) \div 2
            IN  IF w[1] > w[2] THEN 0
                ELSE IF lv[mid].price_fp = p THEN mid
                ELSE IF Better(side, lv[mid].price_fp, p) THEN search[<<mid + 1, w[2]>>]
                ELSE search[<<w[1], mid - 1>>]
    IN  search[<<1, Len(lv)>>]

InsertPos(side, p) ==
    Min({i \in 1 .. Len(sides[side]) : Better(side, p, sides[side][i].price_fp)}
          \cup {Len(sides[side]) + 1})

NewLevel(p) == [price_fp |-> p, total_volume |-> 0, head |-> NULL, tail |-> NULL, count |-> 0]

\* The level array after get_or_create, <<>> when the level table is full.
get_or_create(side, p) ==
    IF find(side, p) # 0 THEN sides[side]
    ELSE IF Len(sides[side]) >= MaxLevels THEN <<>>
    ELSE InsertAt(sides[side], InsertPos(side, p), NewLevel(p))

\* The nodes of the queue that starts at node h, oldest first, up to the first
\* NULL.
Queue(nodes, h) ==
    LET nth[k \in Nodes] == IF k = 1 THEN h
                            ELSE IF nth[k - 1] = NULL THEN NULL
                            ELSE nodes[nth[k - 1]].next
        end == Min({k \in Nodes : nth[k] = NULL} \cup {PoolSize + 1})
    IN  [k \in 1 .. end - 1 |-> nth[k]]

-----------------------------------------------------------------------------
(* The order map: linear probing from a multiplicative hash. *)

Probe(id, i) == (id * HashMul + i) % MapSize

\* The first probe whose slot has one of these keys, or MapSize.
FirstProbe(id, keys) ==
    Min({i \in MapSlots : order_map[Probe(id, i)].key \in keys} \cup {MapSize})

map_insert(id, entry) ==
    LET i == FirstProbe(id, {EMPTY, DELETED})
    IN  IF i = MapSize THEN order_map
        ELSE [order_map EXCEPT ![Probe(id, i)] = entry]

\* The slot that holds id, or MapSize: a search ends at an unused slot.
map_find(id) ==
    LET i == FirstProbe(id, {id, EMPTY})
    IN  IF i = MapSize \/ order_map[Probe(id, i)].key # id THEN MapSize ELSE Probe(id, i)

\* Seeded fault: the erased slot looks unused, which cuts probe chains.
Erased_empty == EMPTY
Erased == DELETED

map_erase(id) ==
    IF map_find(id) = MapSize THEN order_map
    ELSE [order_map EXCEPT ![map_find(id)] = Vacant(Erased)]

-----------------------------------------------------------------------------
(* OrderPool *)

CanAlloc == free_stack # <<>>
Alloc    == free_stack[Len(free_stack)]

Release(i) == Append(free_stack, i)

-----------------------------------------------------------------------------
(* add_limit.  The level is made before the node is allocated, so an       *)
(* exhausted pool leaves an empty level behind.                            *)

AppendOrder(lv, idx, v) ==
    [lv EXCEPT !.head = IF lv.tail = NULL THEN idx ELSE @,
               !.tail = idx,
               !.total_volume = @ + v,
               !.count = @ + 1]

add_limit(side, p, v, who) ==
    /\ taker = Idle
    /\ next_order_id \in Ids
    /\ LET lvs == get_or_create(side, p)
           k   == CHOOSE j \in DOMAIN lvs : lvs[j].price_fp = p
           idx == Alloc
           id  == next_order_id
       IN  \/ /\ lvs = <<>>                    \* level table full
              /\ UNCHANGED lobVars
           \/ /\ lvs # <<>> /\ ~CanAlloc       \* pool exhausted
              /\ sides' = [sides EXCEPT ![side] = lvs]
              /\ UNCHANGED <<pool, free_stack, order_map, next_order_id, taker, due>>
           \/ /\ lvs # <<>> /\ CanAlloc
              /\ free_stack' = Front(free_stack)
              /\ pool' = [i \in Nodes |->
                    IF i = idx
                    THEN [order_id |-> id, volume |-> v, participant |-> who, next |-> NULL]
                    ELSE IF i = lvs[k].tail THEN [pool[i] EXCEPT !.next = idx]
                    ELSE pool[i]]
              /\ sides' = [sides EXCEPT ![side] = [lvs EXCEPT ![k] = AppendOrder(@, idx, v)]]
              /\ order_map' = map_insert(id, [key |-> id, val |-> idx, price_fp |-> p,
                                              side |-> side])
              /\ next_order_id' = id + 1
              /\ due' = [due EXCEPT ![id] = v]
              /\ UNCHANGED taker

-----------------------------------------------------------------------------
(* cancel *)

TailAfter(lv, cur, prev) == IF lv.tail = cur THEN prev ELSE lv.tail

DropLevel(lvs, k, lv) == IF lv.count = 0 THEN RemoveAt(lvs, k) ELSE [lvs EXCEPT ![k] = lv]

cancel(id) ==
    /\ taker = Idle
    /\ id # NULL
    /\ map_find(id) # MapSize
    /\ LET e    == order_map[map_find(id)]
           cur  == e.val
           v    == pool[cur].volume
           lvs  == sides[e.side]
           k    == find(e.side, e.price_fp)
           q    == Queue(pool, lvs[k].head)
           pos  == CHOOSE j \in DOMAIN q : q[j] = cur
           prev == IF pos = 1 THEN NULL ELSE q[pos - 1]
           nxt  == pool[cur].next
           lv   == [lvs[k] EXCEPT !.head = IF prev = NULL THEN nxt ELSE @,
                                  !.tail = TailAfter(lvs[k], cur, prev),
                                  !.total_volume = @ - v,
                                  !.count = @ - 1]
       IN  /\ k # 0 /\ cur \in ToSet(q)
           /\ pool' = [i \in Nodes |-> IF i = cur THEN FreeNode
                                       ELSE IF i = prev THEN [pool[i] EXCEPT !.next = nxt]
                                       ELSE pool[i]]
           /\ sides' = [sides EXCEPT ![e.side] = DropLevel(lvs, k, lv)]
           /\ free_stack' = Release(cur)
           /\ order_map' = map_erase(id)
           /\ due' = [due EXCEPT ![id] = @ - v]
    /\ UNCHANGED <<next_order_id, taker>>

-----------------------------------------------------------------------------
(* market_order *)

\* side is the side it takes from: asks for a buy, bids for a sell.
market_order(side, v, who) ==
    /\ taker = Idle
    /\ v > 0
    /\ taker' = [side |-> side, remaining |-> v, participant |-> who]
    /\ UNCHANGED <<pool, free_stack, sides, order_map, next_order_id, due>>

Opposite == taker.side
Matching == taker.remaining > 0 /\ sides[Opposite] # <<>>

\* Seeded fault: the far end of the level array is taken for the best price.
BestLevel_last == Len(sides[Opposite])
BestLevel == 1

\* Seeded fault: continue without the erase.
EraseBest_not == sides[Opposite]
EraseBest == RemoveAt(sides[Opposite], BestLevel)

\* A level whose queue is empty is erased, and the loop goes on.
MatchEmptyLevel ==
    /\ Matching
    /\ sides[Opposite][BestLevel].head = NULL
    /\ sides' = [sides EXCEPT ![Opposite] = EraseBest]
    /\ UNCHANGED <<pool, free_stack, order_map, next_order_id, taker, due>>

FillVol(maker) == Min({taker.remaining, maker.volume})
Left(maker, v) == maker.volume - v

MatchMaker ==
    /\ Matching
    /\ sides[Opposite][BestLevel].head # NULL
    /\ LET lv    == sides[Opposite][BestLevel]
           idx   == lv.head
           maker == pool[idx]
           v     == FillVol(maker)
           left  == Left(maker, v)
           lv1   == [lv EXCEPT !.total_volume = @ - v]
           lv2   == [lv1 EXCEPT !.head = maker.next,
                                !.tail = IF @ = idx THEN NULL ELSE @,
                                !.count = @ - 1]
       IN  /\ taker' = [taker EXCEPT !.remaining = @ - v]
           /\ pool' = [pool EXCEPT ![idx] = IF left = 0 THEN FreeNode
                                            ELSE [@ EXCEPT !.volume = left]]
           /\ due' = [due EXCEPT ![maker.order_id] = @ - v]
           /\ IF left = 0
              THEN /\ sides' = [sides EXCEPT ![Opposite] = DropLevel(@, BestLevel, lv2)]
                   /\ order_map' = map_erase(maker.order_id)
                   /\ free_stack' = Release(idx)
              ELSE /\ sides' = [sides EXCEPT ![Opposite][BestLevel] = lv1]
                   /\ UNCHANGED <<order_map, free_stack>>
    /\ UNCHANGED next_order_id

MatchDone ==
    /\ taker # Idle
    /\ ~Matching
    /\ taker' = Idle
    /\ UNCHANGED <<pool, free_stack, sides, order_map, next_order_id, due>>

-----------------------------------------------------------------------------
BookStep ==
    \/ \E side \in Sides, p \in Prices, v \in Volumes, who \in Participants :
          add_limit(side, p, v, who)
    \/ \E id \in Ids : cancel(id)
    \/ \E side \in Sides, v \in Volumes, who \in Participants : market_order(side, v, who)
    \/ MatchEmptyLevel \/ MatchMaker \/ MatchDone

BookSpec ==
    EmptyBook /\ [][BookStep]_lobVars /\ WF_lobVars(MatchEmptyLevel \/ MatchMaker \/ MatchDone)

-----------------------------------------------------------------------------
QueueOf(side, k) == Queue(pool, sides[side][k].head)

\* Every resting order with the place it is found in.
Held == UNION {UNION {{[id |-> pool[i].order_id, idx |-> i, side |-> s,
                        price_fp |-> sides[s][k].price_fp] : i \in ToSet(QueueOf(s, k))} :
                      k \in DOMAIN sides[s]} : s \in Sides}

SumVolume(q) == SumFunctionOnSet([i \in Nodes |-> pool[i].volume], ToSet(q))

BookTyped ==
    /\ pool \in [Nodes -> [order_id : {0} \cup Ids, volume : Nat, participant : Int,
                           next : {NULL} \cup Nodes]]
    /\ \A i \in DOMAIN free_stack : free_stack[i] \in Nodes
    /\ \A s \in Sides : Len(sides[s]) <= MaxLevels
    /\ next_order_id \in 1 .. MaxOrders + 1
    /\ taker.remaining \in Nat

(* Every node is either on the free stack, once, or in exactly one queue of  *)
(* one level, once: cancel and market_order neither leak nor free twice.     *)
PoolPartition ==
    /\ \A x, y \in DOMAIN free_stack : free_stack[x] = free_stack[y] => x = y
    /\ \A s, t \in Sides : \A k \in DOMAIN sides[s], l \in DOMAIN sides[t] :
          \A x \in DOMAIN QueueOf(s, k), y \in DOMAIN QueueOf(t, l) :
             QueueOf(s, k)[x] = QueueOf(t, l)[y] => <<s, k, x>> = <<t, l, y>>
    /\ \A i \in Nodes :
          i \in ToSet(free_stack) <=>
             ~\E s \in Sides : \E k \in DOMAIN sides[s] : i \in ToSet(QueueOf(s, k))

(* The level arrays stay strictly sorted, best price first, which is what    *)
(* find and market_order rely on.                                            *)
LevelsSorted ==
    \A s \in Sides : \A k \in 1 .. Len(sides[s]) - 1 :
        Better(s, sides[s][k].price_fp, sides[s][k + 1].price_fp)

(* A level's total_volume, count and tail agree with the queue it heads.     *)
LevelSummary ==
    \A s \in Sides : \A k \in DOMAIN sides[s] :
        LET lv == sides[s][k]
            q  == QueueOf(s, k)
        IN  /\ lv.total_volume = SumVolume(q)
            /\ lv.count = Len(q)
            /\ lv.tail = IF q = <<>> THEN NULL ELSE Last(q)

(* The map finds an id exactly while its order rests, through any pattern of *)
(* collisions and tombstones, and leads cancel to the right queue.           *)
MapFindsResting ==
    LET held == Held
    IN  /\ \A h \in held :
              /\ map_find(h.id) # MapSize
              /\ order_map[map_find(h.id)] = [key |-> h.id, val |-> h.idx,
                                              price_fp |-> h.price_fp, side |-> h.side]
              /\ sides[h.side][find(h.side, h.price_fp)].price_fp = h.price_fp
        /\ \A id \in Ids \ {h.id : h \in held} : map_find(id) = MapSize

(* No share is created or lost: what was placed under an id is what was      *)
(* reported filled, was cancelled, or still rests.                           *)
VolumeConserved ==
    LET held == Held
    IN  /\ \A h \in held : due[h.id] = pool[h.idx].volume
        /\ \A id \in Ids \ {h.id : h \in held} : due[id] = 0

(* Through every mix of adds, cancels and matches, with the pool exhausted   *)
(* and the level table full, pool, queues, levels and map agree and no       *)
(* volume is lost.                                                           *)
BookConsistent ==
    /\ BookTyped /\ PoolPartition /\ LevelsSorted /\ LevelSummary
    /\ MapFindsResting /\ VolumeConserved

\* The abstract book that the levels and queues stand for.
AbstractBook ==
    LET held == Held
    IN  [id \in {h.id : h \in held} |->
            LET h == CHOOSE h \in held : h.id = id
            IN  [side |-> h.side, price_fp |-> h.price_fp,
                 volume |-> pool[h.idx].volume, participant |-> pool[h.idx].participant]]

Abstract == INSTANCE OrderBook WITH book <- AbstractBook

(* The book implements price-time priority: every trade is with the oldest   *)
(* order at the best price, and orders change in no other way.               *)
PriceTimePriority == Abstract!Spec

(* A market order always comes to an end: its loop makes progress even       *)
(* through empty levels.                                                     *)
MarketOrderEnds == [](taker # Idle => <>(taker = Idle))
=============================================================================
