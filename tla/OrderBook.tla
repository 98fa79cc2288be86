------------------------------ MODULE OrderBook ------------------------------
(***************************************************************************)
(* What a limit order book promises, without the data structures of        *)
(* game-master/persistent_lob.hpp: resting orders keyed by their id, market *)
(* orders that trade against the best price first and, at one price,       *)
(* against the oldest order first, and limit orders that only rest.        *)
(***************************************************************************)
EXTENDS Integers, Functions

CONSTANTS Prices, Volumes, Participants

VARIABLES book,            \* id -> [side, price_fp, volume, participant]
          next_order_id,
          taker            \* the market order being matched (side: what it takes), or Idle

bookVars == <<book, next_order_id, taker>>

Sides == {"bids", "asks"}

Idle == [side |-> "bids", remaining |-> 0, participant |-> 0]

Init == /\ book = [i \in {} |-> 0]
        /\ next_order_id = 1
        /\ taker = Idle

Resting(side) == {i \in DOMAIN book : book[i].side = side}

Better(side, p, q) == IF side = "bids" THEN p > q ELSE p < q

\* Price-time priority.
First(i, side) ==
    /\ i \in Resting(side)
    /\ \A j \in Resting(side) \ {i} :
          \/ Better(side, book[i].price_fp, book[j].price_fp)
          \/ book[i].price_fp = book[j].price_fp /\ i < j

With(i, order) == [j \in DOMAIN book \cup {i} |-> IF j = i THEN order ELSE book[j]]
Without(i)     == Restrict(book, DOMAIN book \ {i})

Add(side, p, v, who) ==
    /\ taker = Idle /\ UNCHANGED taker
    /\ next_order_id' = next_order_id + 1
    /\ book' = With(next_order_id,
                    [side |-> side, price_fp |-> p, volume |-> v, participant |-> who])

Cancel(i) ==
    /\ taker = Idle
    /\ UNCHANGED <<next_order_id, taker>>
    /\ i \in DOMAIN book
    /\ book' = Without(i)

Market(side, v, who) ==
    /\ taker = Idle
    /\ v > 0
    /\ taker' = [side |-> side, remaining |-> v, participant |-> who]
    /\ UNCHANGED <<book, next_order_id>>

Fill(i) ==
    /\ taker.remaining > 0
    /\ First(i, taker.side)
    /\ LET v == IF taker.remaining < book[i].volume THEN taker.remaining ELSE book[i].volume
       IN  /\ taker' = [taker EXCEPT !.remaining = @ - v]
           /\ book' = IF v = book[i].volume
                      THEN Without(i)
                      ELSE [book EXCEPT ![i].volume = @ - v]
    /\ UNCHANGED next_order_id

Finish ==
    /\ taker # Idle
    /\ taker.remaining = 0 \/ Resting(taker.side) = {}
    /\ taker' = Idle
    /\ UNCHANGED <<book, next_order_id>>

Next ==
    \/ \E side \in Sides, p \in Prices, v \in Volumes, who \in Participants :
          Add(side, p, v, who)
    \/ \E i \in DOMAIN book : Cancel(i) \/ Fill(i)
    \/ \E side \in Sides, v \in Volumes, who \in Participants : Market(side, v, who)
    \/ Finish

Spec == Init /\ [][Next]_bookVars
=============================================================================
