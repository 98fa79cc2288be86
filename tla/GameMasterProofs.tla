-------------------------- MODULE GameMasterProofs --------------------------
(***************************************************************************)
(* Proofs about two components of the Game Master.                         *)
(*                                                                         *)
(* TelemetryRing, for every ring size, margin, window and length of the    *)
(* run: the ring part rests on the slots of two indices being different    *)
(* when the indices are less than RingSize apart; the histogram part on    *)
(* where in its window a tick lies.                                        *)
(*                                                                         *)
(* PersistentLOB, for every size of the pool, of the level table and of    *)
(* the map: the data structures stay consistent, and the book implements   *)
(* the price-time priority of OrderBook.  The proof follows who rests      *)
(* where (Rests): every step adds a node to one queue, takes a node out of *)
(* one queue, or leaves the queues as they are.                            *)
(***************************************************************************)
EXTENDS TelemetryRing, PersistentLOB, SequenceTheorems, FiniteSetTheorems,
        WellFoundedInduction, TLAPS

-----------------------------------------------------------------------------
(* Arithmetic *)

\* Division with remainder, for the index arithmetic of ring and windows.
LEMMA DivMod ==
    ASSUME NEW n \in Nat, NEW W \in Nat \ {0}
    PROVE  /\ n \div W \in Nat /\ n % W \in 0 .. W - 1
           /\ n = W * (n \div W) + (n % W)
BY SMT

\* Multiples of W are at least W apart.
LEMMA Gap ==
    ASSUME NEW W \in Nat \ {0}, NEW a \in Int, NEW b \in Int, a < b
    PROVE  W * b >= W * a + W
<1>1. b - a >= 1
    BY SMT
<1>2. W * (b - a) >= W
    BY <1>1, SMT
<1> QED
    BY <1>2, SMT

\* Two ring indices less than a ring apart use different slots.
LEMMA SlotsDiffer ==
    ASSUME NEW W \in Nat \ {0}, NEW i \in Nat, NEW j \in Nat, i < j, j - i < W
    PROVE  i % W # j % W
<1> DEFINE a == i \div W
           b == j \div W
<1>1. /\ i = W * a + (i % W) /\ j = W * b + (j % W)
      /\ a \in Nat /\ b \in Nat /\ i % W \in 0 .. W - 1 /\ j % W \in 0 .. W - 1
    BY DivMod
<1> HIDE DEF a, b
<1> SUFFICES ASSUME i % W = j % W PROVE FALSE
    OBVIOUS
<1>2. W * b - W * a = j - i
    BY <1>1, SMT
<1>3. CASE a < b
    BY <1>1, <1>2, <1>3, Gap, SMT
<1>4. CASE b < a
    BY <1>1, <1>2, <1>4, Gap, SMT
<1>5. CASE a = b
    BY <1>1, <1>2, <1>5, SMT
<1> QED
    BY <1>1, <1>3, <1>4, <1>5, SMT

\* A tick of the window that starts at the multiple s of W.
LEMMA InWindow ==
    ASSUME NEW W \in Nat \ {0}, NEW s \in Nat, NEW n \in Nat,
           s % W = 0, s <= n, n < s + W
    PROVE  s = W * (n \div W) /\ n % W = n - s
<1> DEFINE a == s \div W
           b == n \div W
<1>1. s = W * a + (s % W) /\ a \in Nat
    BY DivMod
<1>2. n = W * b + (n % W) /\ b \in Nat /\ n % W \in 0 .. W - 1
    BY DivMod
<1>3. SUFFICES a = b
    BY <1>1, <1>2, SMT
<1> HIDE DEF a, b
<1>4. CASE a < b
    BY <1>1, <1>2, <1>4, Gap, SMT
<1>5. CASE b < a
    BY <1>1, <1>2, <1>5, Gap, SMT
<1> QED
    BY <1>1, <1>2, <1>4, <1>5, SMT

\* The next window starts at a multiple of W too.
LEMMA NextWindow ==
    ASSUME NEW W \in Nat \ {0}, NEW s \in Nat, s % W = 0
    PROVE  (s + W) % W = 0
<1> DEFINE a == s \div W
           b == (s + W) \div W
           r == (s + W) % W
<1>1. s = W * a + (s % W) /\ a \in Nat
    BY DivMod
<1>2. s + W = W * b + r /\ b \in Nat /\ r \in 0 .. W - 1
  <2>1. s + W \in Nat
    BY SMT
  <2> QED
    BY <2>1, DivMod
<1> SUFFICES r = 0
    OBVIOUS
<1> HIDE DEF a, b, r
<1>3. W * (a + 1) = W * a + W
    BY <1>1, SMT
<1>4. CASE a + 1 < b
    BY <1>1, <1>2, <1>3, <1>4, Gap, SMT
<1>5. CASE b < a + 1
    BY <1>1, <1>2, <1>3, <1>5, Gap, SMT
<1>6. CASE a + 1 = b
    BY <1>1, <1>2, <1>3, <1>6, SMT
<1> QED
    BY <1>1, <1>2, <1>4, <1>5, <1>6, SMT

-----------------------------------------------------------------------------
(* The inductive invariant *)

\* Where the three heads are.
HeadsInv ==
    /\ read_head <= rh /\ rh <= write_head
    /\ telPc = "event" => wh <= write_head
    /\ write_head - read_head <= RingSize - Margin
    /\ gmPc = "store" => write_head < MaxTicks /\ write_head - read_head < RingSize - Margin
    /\ gmPc \in {"join", "done"} => write_head = MaxTicks

\* What is visible of the event being stored.
StoreInv ==
    gmPc = "store" => \A w \in Words \ unsent : events[Slot(write_head)][w] = write_head

\* The watchdog leaves only an empty ring that will never be written again.
DrainInv ==
    /\ gmPc \in {"space", "store"} => running_
    /\ telPc \in {"drain", "exited"} => ~running_
    /\ telPc = "exited" => rh = write_head
    /\ gmPc = "done" => telPc = "exited" /\ report = hdr[Other(current)]

\* The window being recorded starts at a multiple of Window.
WindowInv ==
    /\ (last_swap_tick + 1) % Window = 0
    /\ last_swap_tick < rh /\ rh < last_swap_tick + 1 + Window

\* A packet is out for exactly the windows that have been read.
RowsInv ==
    \A t \in Ticks : (\E r \in rows : r.tick_id = t) <=> (t < rh /\ t % Window = Window - 1)

IndInv == /\ TypeOK /\ HeadsInv /\ StoreInv /\ UnreadIntact /\ DrainInv
          /\ WindowInv /\ BuffersHoldWindows /\ RowsAreConsistent /\ RowsInv

-----------------------------------------------------------------------------
USE RingAssumption

\* A slot index is a slot.
LEMMA SlotType == \A i \in Nat : Slot(i) \in Slots
BY DivMod, RingAssumption, SMT DEF Slot, Slots

\* The invariant holds initially: nothing is published, read or recorded.
LEMMA InitInd == Init => IndInv
<1> SUFFICES ASSUME Init PROVE IndInv
    OBVIOUS
<1> USE DEF Init
<1>1. TypeOK
    BY SMT DEF TypeOK, HdrType, EmptyHdr, NoReport, Zeroed, Buffers, Words, Slots, Ticks
<1>2. HeadsInv /\ StoreInv /\ UnreadIntact /\ DrainInv
    BY SMT DEF HeadsInv, StoreInv, UnreadIntact, DrainInv, Ticks
<1>3. WindowInv
  <2>1. 0 % Window = 0
    BY DivMod, SMT
  <2> QED
    BY <2>1, SMT DEF WindowInv
<1>4. BuffersHoldWindows
    BY SMT DEF BuffersHoldWindows, WholeWindow, EmptyHdr, Buffers, Other
<1>5. RowsAreConsistent /\ RowsInv
    BY SMT DEF RowsAreConsistent, RowsInv, Ticks
<1> QED
    BY <1>1, <1>2, <1>3, <1>4, <1>5 DEF IndInv

\* The producer's and the consumer's histogram state, for steps that leave it.
LEMMA HistogramFrame ==
    ASSUME IndInv,
           UNCHANGED <<rh, hdr, current, last_swap_tick, rows>>
    PROVE  WindowInv' /\ BuffersHoldWindows' /\ RowsAreConsistent' /\ RowsInv'
BY DEF IndInv, WindowInv, BuffersHoldWindows, RowsAreConsistent, RowsInv, WholeWindow

\* wait_for_space: the next slot may be stored to.
LEMMA SpaceInd == IndInv /\ wait_for_space => IndInv'
<1> SUFFICES ASSUME IndInv, wait_for_space PROVE IndInv'
    OBVIOUS
<1> USE DEF wait_for_space, gmVars, telVars
<1>1. TypeOK'
    BY DEF IndInv, TypeOK
<1>2. HeadsInv'
    BY SMT DEF IndInv, TypeOK, HeadsInv, HasSpace
<1>3. StoreInv' /\ UnreadIntact' /\ DrainInv'
    BY DEF IndInv, StoreInv, UnreadIntact, DrainInv, Slot, Other
<1> QED
    BY <1>1, <1>2, <1>3, HistogramFrame DEF IndInv

\* A store goes to a slot that holds no unread event.
LEMMA StoreInd == ASSUME NEW w \in Words, IndInv, StoreWord(w) PROVE IndInv'
<1> USE DEF StoreWord, gmVars, telVars
<1>0. write_head \in Ticks /\ write_head \in Nat /\ Slot(write_head) \in Slots
    BY SlotType, SMT DEF IndInv, TypeOK, HeadsInv, Ticks
<1>1. TypeOK'
  <2>1. events' \in [Slots -> [Words -> Ticks \cup {Zeroed}]]
    BY <1>0 DEF IndInv, TypeOK
  <2> QED
    BY <2>1 DEF IndInv, TypeOK
<1>2. HeadsInv' /\ DrainInv'
    BY DEF IndInv, HeadsInv, DrainInv, Other
<1>3. StoreInv'
    BY <1>0 DEF IndInv, TypeOK, StoreInv
<1>4. UnreadIntact'
  <2> SUFFICES ASSUME NEW i \in Ticks, rh <= i, i < write_head, NEW v \in Words
               PROVE  events'[Slot(i)][v] = i
    BY DEF UnreadIntact
  <2>1. i \in Nat /\ write_head - i < RingSize
    BY SMT DEF IndInv, TypeOK, HeadsInv, Ticks
  <2>2. Slot(i) # Slot(write_head)
    BY <1>0, <2>1, SlotsDiffer DEF Slot
  <2>3. Slot(i) \in Slots /\ events[Slot(i)][v] = i
    BY <2>1, SlotType DEF IndInv, UnreadIntact
  <2> QED
    BY <1>0, <2>2, <2>3 DEF IndInv, TypeOK
<1> QED
    BY <1>1, <1>2, <1>3, <1>4, HistogramFrame DEF IndInv

\* The event becomes readable with all its words.
LEMMA PublishInd == IndInv /\ Publish => IndInv'
<1> SUFFICES ASSUME IndInv, Publish PROVE IndInv'
    OBVIOUS
<1> USE DEF Publish, gmVars, telVars
<1>1. TypeOK'
  <2>1. write_head' \in 0 .. MaxTicks
    BY SMT DEF IndInv, TypeOK, HeadsInv
  <2> QED
    BY <2>1 DEF IndInv, TypeOK
<1>2. HeadsInv'
    BY SMT DEF IndInv, TypeOK, HeadsInv
<1>3. StoreInv'
    BY DEF StoreInv
<1>4. DrainInv'
    BY DEF IndInv, DrainInv, Other
<1>5. UnreadIntact'
  <2> SUFFICES ASSUME NEW i \in Ticks, rh <= i, i < write_head + 1, NEW w \in Words
               PROVE  events[Slot(i)][w] = i
    BY DEF UnreadIntact
  <2>1. i < write_head \/ i = write_head
    BY SMT DEF IndInv, TypeOK, Ticks
  <2> QED
    BY <2>1 DEF IndInv, StoreInv, UnreadIntact, Fenced
<1> QED
    BY <1>1, <1>2, <1>3, <1>4, <1>5, HistogramFrame DEF IndInv

\* stop(): from here on nothing more is published.
LEMMA StopInd == IndInv /\ stop => IndInv'
<1> SUFFICES ASSUME IndInv, stop PROVE IndInv'
    OBVIOUS
<1> USE DEF stop, gmVars, telVars
<1>1. TypeOK'
    BY DEF IndInv, TypeOK
<1>2. HeadsInv' /\ StoreInv' /\ UnreadIntact'
    BY DEF IndInv, HeadsInv, StoreInv, UnreadIntact, Slot
<1>3. DrainInv'
    BY DEF IndInv, DrainInv, Other
<1> QED
    BY <1>1, <1>2, <1>3, HistogramFrame DEF IndInv

\* percentiles() after join.
LEMMA PercentilesInd == IndInv /\ Percentiles => IndInv'
<1> SUFFICES ASSUME IndInv, Percentiles PROVE IndInv'
    OBVIOUS
<1> USE DEF Percentiles, gmVars, telVars
<1>1. TypeOK'
    BY DEF IndInv, TypeOK, Other, Buffers
<1>2. HeadsInv' /\ StoreInv' /\ UnreadIntact'
    BY DEF IndInv, HeadsInv, StoreInv, UnreadIntact, Slot
<1>3. DrainInv'
    BY DEF IndInv, DrainInv, Other
<1> QED
    BY <1>1, <1>2, <1>3, HistogramFrame DEF IndInv

\* The consumer's control steps.
LEMMA ControlInd == IndInv /\ (LoadRunning \/ LoadWriteHead \/ Snapshot \/ advance_read_head) => IndInv'
<1> SUFFICES ASSUME IndInv, LoadRunning \/ LoadWriteHead \/ Snapshot \/ advance_read_head
             PROVE IndInv'
    OBVIOUS
<1> USE DEF LoadRunning, LoadWriteHead, Snapshot, advance_read_head, gmVars
<1>1. TypeOK'
    BY DEF IndInv, TypeOK, Released
<1>2. HeadsInv'
    BY SMT DEF IndInv, TypeOK, HeadsInv, Released
<1>3. StoreInv' /\ UnreadIntact'
    BY DEF IndInv, StoreInv, UnreadIntact, Slot
<1>4. DrainInv'
  <2>1. CASE LoadRunning
    BY <2>1 DEF IndInv, DrainInv, Other
  <2>2. CASE LoadWriteHead
    <3>1. Undrained \/ rh = write_head
        BY SMT DEF IndInv, TypeOK, HeadsInv, Undrained
    <3> QED
        BY <2>2, <3>1 DEF IndInv, DrainInv, Other
  <2>3. CASE Snapshot \/ advance_read_head
    BY <2>3 DEF IndInv, DrainInv, Other
  <2> QED
    BY <2>1, <2>2, <2>3
<1> QED
    BY <1>1, <1>2, <1>3, <1>4, HistogramFrame DEF IndInv

\* One event moves from the ring into the recording buffer; at the end of a
\* window the buffers change places.
LEMMA ReadInd == IndInv /\ ReadEvent => IndInv'
<1> SUFFICES ASSUME IndInv, ReadEvent PROVE IndInv'
    OBVIOUS
<1> DEFINE ev == events[Slot(rh)]
           s == last_swap_tick + 1
<1> USE DEF ReadEvent, gmVars
<1>0. /\ rh \in Ticks /\ rh \in Nat /\ rh < write_head /\ rh' = rh + 1
      /\ rh + 1 \in 0 .. MaxTicks /\ last_swap_tick \in Int /\ current \in Buffers
    BY SMT DEF IndInv, TypeOK, HeadsInv, Ticks
<1>1. ev.tick_id = rh /\ ev.tick_ns = rh /\ ev.pnl_fp = rh /\ ev.position = rh
    BY <1>0, SlotType, SMT DEF IndInv, TypeOK, UnreadIntact, Words
<1>2. s \in Nat /\ s % Window = 0 /\ s <= rh /\ rh < s + Window
    BY <1>0, SMT DEF IndInv, TypeOK, WindowInv, Ticks
<1>3. rh % Window = rh - s
    BY <1>0, <1>2, InWindow
<1>4. EndsWindow(ev.tick_id) <=> rh = s + Window - 1
    BY <1>0, <1>1, <1>2, <1>3, SMT DEF EndsWindow
<1>5. /\ Recorded(ev) = [ticks |-> s .. rh, total_count |-> rh - s + 1]
      /\ Recorded(ev) \in HdrType
  <2>1. hdr[current].ticks = s .. rh - 1 /\ hdr[current].total_count = rh - s
    BY <1>0, <1>2, SMT DEF IndInv, BuffersHoldWindows, WholeWindow
  <2>2. (s .. rh - 1) \cup {rh} = s .. rh
    BY <1>0, <1>2, SMT
  <2>3. Recorded(ev) = [ticks |-> s .. rh, total_count |-> rh - s + 1]
    BY <1>1, <2>1, <2>2 DEF Recorded
  <2>4. s .. rh \in SUBSET Ticks /\ rh - s + 1 \in -1 .. MaxTicks
    BY <1>0, <1>2, SMT DEF Ticks
  <2> QED
    BY <2>3, <2>4 DEF HdrType
<1>6. HeadsInv' /\ StoreInv' /\ UnreadIntact' /\ DrainInv'
  <2>1. HeadsInv'
    BY <1>0, SMT DEF IndInv, TypeOK, HeadsInv
  <2>2. UnreadIntact'
    BY <1>0, SMT DEF IndInv, UnreadIntact, Slot, Ticks
  <2>3. StoreInv'
    BY DEF IndInv, StoreInv, Slot
  <2>4. DrainInv'
    BY DEF IndInv, DrainInv
  <2> QED
    BY <2>1, <2>2, <2>3, <2>4
<1> HIDE DEF ev
<1>7. CASE EndsWindow(ev.tick_id)
  <2> DEFINE row == [tick_id |-> rh, pnl_fp |-> rh, position |-> rh, hdr |-> Recorded(ev)]
  <2>1. /\ hdr' = [b \in Buffers |-> IF b = current THEN Recorded(ev) ELSE EmptyHdr]
        /\ current' = Other(current) /\ last_swap_tick' = rh
        /\ rows' = rows \cup {row}
    BY <1>1, <1>7 DEF ev
  <2>2. rh = s + Window - 1
    BY <1>4, <1>7
  <2>3. current' \in Buffers /\ current' # current /\ Other(current') = current
    BY <1>0, <2>1 DEF Other, Buffers
  <2>4. hdr'[current'] = EmptyHdr /\ hdr'[Other(current')] = Recorded(ev)
    BY <1>0, <2>1, <2>3
  <2>5. TypeOK'
    <3>1. EmptyHdr \in HdrType
        BY SMT DEF EmptyHdr, HdrType
    <3>2. hdr' \in [Buffers -> HdrType]
        BY <1>5, <2>1, <3>1
    <3>3. row \in [tick_id : Ticks, pnl_fp : Ticks, position : Ticks, hdr : HdrType]
        BY <1>0, <1>5
    <3> QED
        BY <1>0, <2>1, <2>3, <3>2, <3>3 DEF IndInv, TypeOK
  <2>6. WindowInv'
    <3>1. rh + 1 = s + Window /\ (rh + 1) % Window = 0
        BY <1>2, <2>2, NextWindow, SMT
    <3> QED
        BY <1>0, <2>1, <3>1, SMT DEF WindowInv
  <2>7. BuffersHoldWindows'
    <3>1. WholeWindow(EmptyHdr, rh + 1, rh)
        BY <1>0, SMT DEF WholeWindow, EmptyHdr
    <3>2. WholeWindow(Recorded(ev), rh - Window + 1, rh)
        BY <1>0, <1>2, <1>5, <2>2, SMT DEF WholeWindow
    <3>3. rh # -1 /\ (rh + 1) - 1 = rh
        BY <1>0, SMT
    <3> QED
        BY <1>0, <2>1, <2>4, <3>1, <3>2, <3>3 DEF BuffersHoldWindows, WholeWindow
  <2>8. RowsAreConsistent'
    <3>1. WholeWindow(row.hdr, row.tick_id - Window + 1, row.tick_id)
        BY <1>0, <1>2, <1>5, <2>2, SMT DEF WholeWindow
    <3> QED
        BY <2>1, <3>1 DEF IndInv, RowsAreConsistent, WholeWindow
  <2>9. RowsInv'
    <3>1. rh % Window = Window - 1
        BY <1>0, <1>2, <1>3, <2>2, SMT
    <3> SUFFICES ASSUME NEW t \in Ticks
                 PROVE  (\E r \in rows' : r.tick_id = t)
                          <=> (t < rh + 1 /\ t % Window = Window - 1)
        BY <1>0 DEF RowsInv
    <3>2. t < rh + 1 <=> t < rh \/ t = rh
        BY <1>0, SMT DEF Ticks
    <3>3. (\E r \in rows' : r.tick_id = t) <=> (\E r \in rows : r.tick_id = t) \/ t = rh
      <4>1. rows' = rows \cup {row} /\ row.tick_id = rh
        BY <2>1
      <4> HIDE DEF row
      <4> QED
        BY <4>1, Zenon
    <3> QED
        BY <3>1, <3>2, <3>3 DEF IndInv, RowsInv
  <2> QED
    BY <1>6, <2>5, <2>6, <2>7, <2>8, <2>9 DEF IndInv
<1>8. CASE ~EndsWindow(ev.tick_id)
  <2>1. /\ hdr' = [hdr EXCEPT ![current] = Recorded(ev)]
        /\ UNCHANGED <<current, last_swap_tick, rows>>
    BY <1>8 DEF ev
  <2>2. rh < s + Window - 1
    BY <1>0, <1>2, <1>4, <1>8, SMT
  <2>3. TypeOK'
    BY <1>0, <1>5, <2>1 DEF IndInv, TypeOK
  <2>4. WindowInv'
    BY <1>0, <1>2, <2>1, <2>2, SMT DEF WindowInv
  <2>5. BuffersHoldWindows'
    <3>1. hdr'[current] = Recorded(ev) /\ hdr'[Other(current)] = hdr[Other(current)]
        BY <1>0, <2>1 DEF IndInv, TypeOK, Other, Buffers
    <3>2. WholeWindow(Recorded(ev), last_swap_tick + 1, (rh + 1) - 1)
        BY <1>0, <1>2, <1>5, SMT DEF WholeWindow
    <3> QED
        BY <1>0, <2>1, <3>1, <3>2 DEF IndInv, BuffersHoldWindows, WholeWindow
  <2>6. RowsAreConsistent'
    BY <2>1 DEF IndInv, RowsAreConsistent, WholeWindow
  <2>7. RowsInv'
    <3>1. rh % Window # Window - 1
        BY <1>0, <1>2, <1>3, <2>2, SMT
    <3> SUFFICES ASSUME NEW t \in Ticks
                 PROVE  (\E r \in rows : r.tick_id = t)
                          <=> (t < rh + 1 /\ t % Window = Window - 1)
        BY <1>0, <2>1 DEF RowsInv
    <3>2. t < rh + 1 <=> t < rh \/ t = rh
        BY <1>0, SMT DEF Ticks
    <3> QED
        BY <3>1, <3>2 DEF IndInv, RowsInv
  <2> QED
    BY <1>6, <2>3, <2>4, <2>5, <2>6, <2>7 DEF IndInv
<1> QED
    BY <1>7, <1>8

\* The invariant is inductive.
LEMMA Inductive == IndInv /\ [Next]_vars => IndInv'
<1> SUFFICES ASSUME IndInv, [Next]_vars PROVE IndInv'
    OBVIOUS
<1>1. CASE Gm
    BY <1>1, SpaceInd, StoreInd, PublishInd, StopInd, PercentilesInd DEF Gm
<1>2. CASE Tel
    BY <1>2, ControlInd, ReadInd DEF Tel
<1>3. CASE UNCHANGED vars
  <2>1. TypeOK' /\ HeadsInv' /\ StoreInv' /\ UnreadIntact' /\ DrainInv'
    BY <1>3 DEF vars, gmVars, telVars, IndInv, TypeOK, HeadsInv, StoreInv, UnreadIntact,
                DrainInv, Slot, Other
  <2> QED
    BY <1>3, <2>1, HistogramFrame DEF vars, telVars, IndInv
<1> QED
    BY <1>1, <1>2, <1>3 DEF Next, Ended

\* IndInv holds in every reachable state.
THEOREM Invariance == Spec => []IndInv
<1>1. Init => IndInv
    BY InitInd
<1>2. IndInv /\ [Next]_vars => IndInv'
    BY Inductive
<1> QED
    BY <1>1, <1>2, PTL DEF Spec

\* TelemetryRing is type correct for every instance.
THEOREM TypeCorrect == Spec => []TypeOK
<1>1. IndInv => TypeOK
    BY DEF IndInv
<1> QED
    BY <1>1, Invariance, PTL

\* wait_for_space and the fence protect every unread event, for every ring
\* size, margin and schedule.
THEOREM RingIsSafe == Spec => []UnreadIntact
<1>1. IndInv => UnreadIntact
    BY DEF IndInv
<1> QED
    BY <1>1, Invariance, PTL

\* The two buffers always hold whole windows, and so does every packet.
THEOREM WindowsAreWhole == Spec => [](BuffersHoldWindows /\ RowsAreConsistent)
<1>1. IndInv => BuffersHoldWindows /\ RowsAreConsistent
    BY DEF IndInv
<1> QED
    BY <1>1, Invariance, PTL

\* The final p50 and p99 are those of the last complete window of the run.
THEOREM ReportIsExact == Spec => []ReportIsLastWindow
<1>1. IndInv => ReportIsLastWindow
  <2> SUFFICES ASSUME IndInv, gmPc = "done" PROVE
        /\ rh = MaxTicks
        /\ {r.tick_id : r \in rows} = {t \in Ticks : t % Window = Window - 1}
        /\ LET n == MaxTicks \div Window
           IN  IF n = 0 THEN report = EmptyHdr
               ELSE WholeWindow(report, (n - 1) * Window, n * Window - 1)
    BY DEF ReportIsLastWindow
  <2> DEFINE n == MaxTicks \div Window
             s == last_swap_tick + 1
  <2>1. rh = MaxTicks /\ report = hdr[Other(current)] /\ last_swap_tick \in Int
    BY SMT DEF IndInv, TypeOK, DrainInv, HeadsInv, Ticks
  <2>2. {r.tick_id : r \in rows} = {t \in Ticks : t % Window = Window - 1}
    <3>1. \A r \in rows : r.tick_id \in Ticks
        BY DEF IndInv, TypeOK
    <3>2. \A t \in Ticks : t < rh
        BY <2>1, SMT DEF Ticks
    <3> QED
        BY <3>1, <3>2 DEF IndInv, RowsInv
  <2>3. s \in Nat /\ s = Window * n /\ n \in Nat
    <3>1. s \in Nat /\ s % Window = 0 /\ s <= MaxTicks /\ MaxTicks < s + Window
        BY <2>1, SMT DEF IndInv, TypeOK, WindowInv, Ticks
    <3> QED
        BY <3>1, InWindow, DivMod
  <2> HIDE DEF n
  <2>4. CASE n = 0
    <3>1. last_swap_tick = -1
        BY <2>1, <2>3, <2>4, SMT
    <3> QED
        BY <2>1, <2>2, <2>4, <3>1 DEF IndInv, BuffersHoldWindows, n
  <2>5. CASE n # 0
    <3>1. Window * n >= Window * 0 + Window
        BY <2>3, <2>5, Gap, SMT
    <3>2. last_swap_tick # -1
        BY <2>1, <2>3, <3>1, SMT
    <3>3. last_swap_tick = n * Window - 1 /\ last_swap_tick - Window + 1 = (n - 1) * Window
        BY <2>1, <2>3, SMT
    <3> QED
        BY <2>1, <2>2, <2>5, <3>2, <3>3 DEF IndInv, BuffersHoldWindows, n
  <2> QED
    BY <2>4, <2>5
<1> QED
    BY <1>1, Invariance, PTL

(***************************************************************************)
(* Sums over finite sets.  The library defines them by taking elements in  *)
(* an unspecified order; what follows shows that the order does not        *)
(* matter.  Inductions are by least counterexample.                        *)
(***************************************************************************)
LEMMA LeastNumber ==
    ASSUME NEW T \in SUBSET Nat, T # {}
    PROVE  \E x \in T : \A y \in T : x <= y
<1> DEFINE R == OpToRel(<, Nat)
<1>1. \A x, y \in Nat : y < x => <<y, x>> \in R
  BY DEF OpToRel
<1>2. IsWellFoundedOn(R, Nat)
  BY NatLessThanWellFounded
<1> HIDE DEF R
<1>3. PICK x \in T : \A y \in T : ~(<<y, x>> \in R)
  BY <1>2, WFMin
<1>4. ASSUME NEW y \in T PROVE x <= y
  <2>1. x \in Nat /\ y \in Nat /\ ~(<<y, x>> \in R)
    BY <1>3
  <2>2. ~(y < x)
    BY <1>1, <2>1
  <2> QED BY <2>1, <2>2
<1> QED BY <1>4

\* Of sets of numbers' sizes one is the smallest.
LEMMA SmallestSet ==
    ASSUME NEW C, C # {}, \A s \in C : IsFiniteSet(s)
    PROVE  \E s \in C : \A t \in C : Cardinality(s) <= Cardinality(t)
<1> DEFINE T == {Cardinality(s) : s \in C}
<1>1. T \in SUBSET Nat /\ T # {}
  BY FS_CardinalityType
<1> HIDE DEF T
<1>2. PICK x \in T : \A y \in T : x <= y
  BY <1>1, LeastNumber
<1> QED BY <1>2 DEF T

Chosen(s) == CHOOSE x \in s : TRUE

\* it is the recursion of SumFunctionOnSet over the subsets of S.
Sums(f, S, it) ==
    it = [s \in SUBSET S |-> IF s = {} THEN 0 ELSE f[Chosen(s)] + it[s \ {Chosen(s)}]]

LEMMA SumIsChosen ==
    ASSUME NEW f, NEW S
    PROVE  SumFunctionOnSet(f, S) = (CHOOSE it : Sums(f, S, it))[S]
BY DEF SumFunctionOnSet, FoldFunctionOnSet, MapThenFoldSet, Sums, Chosen

LEMMA SmallerBy ==
    ASSUME NEW s, IsFiniteSet(s), NEW x \in s
    PROVE  /\ IsFiniteSet(s \ {x})
           /\ Cardinality(s) \in Nat /\ Cardinality(s \ {x}) \in Nat
           /\ Cardinality(s \ {x}) < Cardinality(s)
<1>1. IsFiniteSet(s \ {x}) /\ Cardinality(s \ {x}) = Cardinality(s) - 1
  BY FS_RemoveElement
<1>2. Cardinality(s) \in Nat /\ Cardinality(s \ {x}) \in Nat
  BY <1>1, FS_CardinalityType
<1> QED BY <1>1, <1>2

LEMMA Smaller ==
    ASSUME NEW s, IsFiniteSet(s), s # {}
    PROVE  /\ Chosen(s) \in s /\ IsFiniteSet(s \ {Chosen(s)})
           /\ Cardinality(s) \in Nat /\ Cardinality(s \ {Chosen(s)}) \in Nat
           /\ Cardinality(s \ {Chosen(s)}) < Cardinality(s)
<1>1. Chosen(s) \in s
  BY DEF Chosen
<1> QED BY <1>1, SmallerBy

LEMMA SumsAgree ==
    ASSUME NEW f, NEW S, NEW T, NEW a, NEW b, Sums(f, S, a), Sums(f, T, b),
           NEW z \in SUBSET S, z \in SUBSET T, IsFiniteSet(z)
    PROVE  a[z] = b[z]
<1> DEFINE C == {s \in SUBSET z : a[s] # b[s]}
<1> SUFFICES ASSUME C # {} PROVE FALSE
  OBVIOUS
<1>1. \A s \in C : IsFiniteSet(s)
  BY FS_Subset
<1>2. PICK s \in C : \A t \in C : Cardinality(s) <= Cardinality(t)
  <2> HIDE DEF C
  <2> QED BY <1>1, SmallestSet
<1>3. s \in SUBSET S /\ s \in SUBSET T /\ IsFiniteSet(s)
  BY <1>1, <1>2
<1>4. /\ a[s] = IF s = {} THEN 0 ELSE f[Chosen(s)] + a[s \ {Chosen(s)}]
      /\ b[s] = IF s = {} THEN 0 ELSE f[Chosen(s)] + b[s \ {Chosen(s)}]
  BY <1>3 DEF Sums
<1>5. s # {}
  BY <1>2, <1>4
<1>6. s \ {Chosen(s)} \notin C
  BY <1>2, <1>3, <1>5, Smaller
<1>7. a[s \ {Chosen(s)}] = b[s \ {Chosen(s)}]
  BY <1>2, <1>6
<1> QED BY <1>2, <1>4, <1>7

\* The recursion defines a function, and a sum is the value at its set.
LEMMA SumsExist ==
    ASSUME NEW f, NEW Z, IsFiniteSet(Z)
    PROVE  \E it : Sums(f, Z, it)
<1> DEFINE C == {s \in SUBSET Z : ~\E it : Sums(f, s, it)}
<1> SUFFICES ASSUME C # {} PROVE FALSE
  OBVIOUS
<1>1. \A s \in C : IsFiniteSet(s)
  BY FS_Subset
<1>2. PICK S \in C : \A t \in C : Cardinality(S) <= Cardinality(t)
  <2> HIDE DEF C
  <2> QED BY <1>1, SmallestSet
<1>3. IsFiniteSet(S) /\ S \subseteq Z
  BY <1>1, <1>2
<1> DEFINE fn(s) == CHOOSE it : Sums(f, s, it)
<1>4. ASSUME NEW s \in SUBSET S, s # S PROVE Sums(f, s, fn(s))
  <2>1. IsFiniteSet(s) /\ Cardinality(s) < Cardinality(S)
    BY <1>3, <1>4, FS_Subset, FS_CardinalityType
  <2>2. s \notin C
    BY <1>2, <1>3, <2>1, FS_CardinalityType
  <2> QED BY <1>3, <2>2
<1> DEFINE low(s) == fn(s)[s]
<1>5. ASSUME NEW s \in SUBSET S, s # S
      PROVE  low(s) = IF s = {} THEN 0 ELSE f[Chosen(s)] + low(s \ {Chosen(s)})
  <2>1. Sums(f, s, fn(s))
    BY <1>4, <1>5
  <2>2. low(s) = IF s = {} THEN 0 ELSE f[Chosen(s)] + fn(s)[s \ {Chosen(s)}]
    <3> DEFINE it == fn(s)
    <3>1. Sums(f, s, it)
      BY <2>1
    <3> HIDE DEF it, fn
    <3>2. it[s] = IF s = {} THEN 0 ELSE f[Chosen(s)] + it[s \ {Chosen(s)}]
      BY <3>1 DEF Sums
    <3> QED BY <3>2 DEF it
  <2>3. CASE s = {}
    BY <2>2, <2>3
  <2>4. CASE s # {}
    <3>0. IsFiniteSet(s)
      BY <1>3, FS_Subset
    <3>1. Chosen(s) \in s
      BY <2>4 DEF Chosen
    <3> DEFINE t == s \ {Chosen(s)}
    <3>2. t \in SUBSET s /\ t \in SUBSET S /\ t # S /\ IsFiniteSet(t)
      BY <3>0, <3>1, FS_Subset
    <3>3. Sums(f, t, fn(t))
      BY <1>4, <3>2
    <3> HIDE DEF fn, t
    <3>4. fn(s)[t] = fn(t)[t]
      BY <2>1, <3>2, <3>3, SumsAgree
    <3> QED BY <2>2, <2>4, <3>4 DEF t
  <2> QED BY <2>3, <2>4
<1> HIDE DEF low, fn, C
<1> DEFINE val(s) == IF s = S /\ S # {} THEN f[Chosen(S)] + low(S \ {Chosen(S)})
                     ELSE IF s = {} THEN 0 ELSE low(s)
<1> DEFINE g == [s \in SUBSET S |-> val(s)]
<1>6. ASSUME NEW s \in SUBSET S
      PROVE  g[s] = IF s = {} THEN 0 ELSE f[Chosen(s)] + g[s \ {Chosen(s)}]
  <2>1. CASE s = {}
    BY <2>1
  <2>2. CASE s # {}
    <3> DEFINE t == s \ {Chosen(s)}
    <3>1. Chosen(s) \in s
      BY <2>2 DEF Chosen
    <3>2. t \in SUBSET S /\ t # S
      BY <3>1
    <3>3. g[t] = low(t)
      <4>1. t = {} => low(t) = 0
        BY <1>5, <3>2
      <4> QED BY <3>2, <4>1
    <3>4. CASE s = S
      BY <2>2, <3>3, <3>4
    <3>5. CASE s # S
      <4>1. low(s) = f[Chosen(s)] + low(t)
        BY <1>5, <2>2, <3>5
      <4>2. g[s] = low(s)
        BY <2>2, <3>5
      <4> QED BY <2>2, <3>3, <4>1, <4>2
    <3> QED BY <3>4, <3>5
  <2> QED BY <2>1, <2>2
<1>7. Sums(f, S, g)
  <2>1. g = [s \in SUBSET S |-> g[s]]
    OBVIOUS
  <2> HIDE DEF g
  <2> QED BY <1>6, <2>1 DEF Sums
<1> QED BY <1>2, <1>7 DEF C

LEMMA SumStep ==
    ASSUME NEW f, NEW S, IsFiniteSet(S)
    PROVE  SumFunctionOnSet(f, S) =
             IF S = {} THEN 0 ELSE f[Chosen(S)] + SumFunctionOnSet(f, S \ {Chosen(S)})
<1> DEFINE fn(s) == CHOOSE it : Sums(f, s, it)
<1>1. Sums(f, S, fn(S))
  BY SumsExist
<1>2. SumFunctionOnSet(f, S) = fn(S)[S]
  BY SumIsChosen
<1>3. fn(S)[S] = IF S = {} THEN 0 ELSE f[Chosen(S)] + fn(S)[S \ {Chosen(S)}]
  <2> DEFINE it == fn(S)
  <2>1. Sums(f, S, it)
    BY <1>1
  <2> HIDE DEF it, fn
  <2>2. it[S] = IF S = {} THEN 0 ELSE f[Chosen(S)] + it[S \ {Chosen(S)}]
    BY <2>1 DEF Sums
  <2> QED BY <2>2 DEF it
<1>4. CASE S # {}
  <2> DEFINE T == S \ {Chosen(S)}
  <2>1. IsFiniteSet(T) /\ T \in SUBSET S /\ T \in SUBSET T
    BY FS_Subset
  <2>2. Sums(f, T, fn(T))
    BY <2>1, SumsExist
  <2>3. SumFunctionOnSet(f, T) = fn(T)[T]
    BY SumIsChosen
  <2> HIDE DEF fn, T
  <2>4. fn(S)[T] = fn(T)[T]
    BY <1>1, <2>1, <2>2, SumsAgree
  <2> QED BY <1>2, <1>3, <1>4, <2>3, <2>4 DEF T
<1> QED BY <1>2, <1>3, <1>4

LEMMA SumEmpty == ASSUME NEW f PROVE SumFunctionOnSet(f, {}) = 0
BY SumStep, FS_EmptySet

LEMMA SumIsNat ==
    ASSUME NEW f, NEW Z, IsFiniteSet(Z), \A x \in Z : f[x] \in Nat
    PROVE  SumFunctionOnSet(f, Z) \in Nat
<1> DEFINE C == {s \in SUBSET Z : SumFunctionOnSet(f, s) \notin Nat}
<1> SUFFICES ASSUME C # {} PROVE FALSE
  OBVIOUS
<1>1. \A s \in C : IsFiniteSet(s)
  BY FS_Subset
<1>2. PICK s \in C : \A t \in C : Cardinality(s) <= Cardinality(t)
  <2> HIDE DEF C
  <2> QED BY <1>1, SmallestSet
<1>3. s \subseteq Z /\ IsFiniteSet(s) /\ SumFunctionOnSet(f, s) \notin Nat
  BY <1>1, <1>2
<1>4. s # {}
  BY <1>3, SumEmpty
<1> DEFINE t == s \ {Chosen(s)}
<1>5. t \notin C /\ Chosen(s) \in s
  BY <1>2, <1>3, <1>4, Smaller
<1>6. SumFunctionOnSet(f, t) \in Nat /\ f[Chosen(s)] \in Nat
  BY <1>3, <1>5
<1>7. SumFunctionOnSet(f, s) = f[Chosen(s)] + SumFunctionOnSet(f, t)
  BY <1>3, <1>4, SumStep
<1> HIDE DEF t
<1> QED BY <1>3, <1>6, <1>7

\* Any element may be taken out first.
LEMMA SumRemove ==
    ASSUME NEW f, NEW Z, IsFiniteSet(Z), \A x \in Z : f[x] \in Nat, NEW e \in Z
    PROVE  SumFunctionOnSet(f, Z) = f[e] + SumFunctionOnSet(f, Z \ {e})
<1> DEFINE Bad(s) == \E x \in s : SumFunctionOnSet(f, s) # f[x] + SumFunctionOnSet(f, s \ {x})
<1> DEFINE C == {s \in SUBSET Z : Bad(s)}
<1> SUFFICES ASSUME C # {} PROVE FALSE
  OBVIOUS
<1>1. \A s \in C : IsFiniteSet(s)
  BY FS_Subset
<1>2. PICK s \in C : \A t \in C : Cardinality(s) <= Cardinality(t)
  <2> HIDE DEF C
  <2> QED BY <1>1, SmallestSet
<1>3. s \subseteq Z /\ IsFiniteSet(s) /\ Bad(s)
  BY <1>1, <1>2
<1>4. PICK x \in s : SumFunctionOnSet(f, s) # f[x] + SumFunctionOnSet(f, s \ {x})
  BY <1>3
<1> DEFINE c == Chosen(s)
<1>5. c \in s /\ x \in Z /\ c \in Z /\ f[x] \in Nat /\ f[c] \in Nat
  BY <1>3, <1>4 DEF Chosen
<1>6. SumFunctionOnSet(f, s) = f[c] + SumFunctionOnSet(f, s \ {c})
  BY <1>3, <1>4, SumStep
<1>7. c # x
  BY <1>4, <1>6
<1>8. ASSUME NEW y \in s, NEW z \in s, y # z
      PROVE  SumFunctionOnSet(f, s \ {y}) = f[z] + SumFunctionOnSet(f, s \ {y, z})
  <2>1. /\ Cardinality(s \ {y}) < Cardinality(s) /\ IsFiniteSet(s \ {y})
        /\ Cardinality(s \ {y}) \in Nat /\ Cardinality(s) \in Nat
    BY <1>3, SmallerBy
  <2>2. s \ {y} \in SUBSET Z /\ s \ {y} \notin C
    <3>1. s \ {y} \in SUBSET Z
      BY <1>3
    <3> HIDE DEF C
    <3>2. s \ {y} \notin C
      BY <1>2, <2>1
    <3> QED BY <3>1, <3>2
  <2>3. ~Bad(s \ {y}) /\ z \in s \ {y}
    BY <1>8, <2>2
  <2>4. (s \ {y}) \ {z} = s \ {y, z}
    OBVIOUS
  <2> QED BY <2>3, <2>4
<1> DEFINE rest == SumFunctionOnSet(f, s \ {c, x})
<1>9. /\ SumFunctionOnSet(f, s \ {c}) = f[x] + rest
      /\ SumFunctionOnSet(f, s \ {x}) = f[c] + rest
  <2>1. s \ {c, x} = s \ {x, c}
    OBVIOUS
  <2> HIDE DEF c
  <2> QED BY <1>4, <1>5, <1>7, <1>8, <2>1
<1>10. rest \in Nat
  <2>1. IsFiniteSet(s \ {c, x}) /\ s \ {c, x} \subseteq Z
    BY <1>3, FS_Subset
  <2> QED BY <2>1, SumIsNat
<1> HIDE DEF c, rest
<1> QED BY <1>4, <1>5, <1>6, <1>9, <1>10

LEMMA SumSame ==
    ASSUME NEW f, NEW g, NEW Z, IsFiniteSet(Z), \A x \in Z : f[x] = g[x]
    PROVE  SumFunctionOnSet(f, Z) = SumFunctionOnSet(g, Z)
<1> DEFINE C == {s \in SUBSET Z : SumFunctionOnSet(f, s) # SumFunctionOnSet(g, s)}
<1> SUFFICES ASSUME C # {} PROVE FALSE
  OBVIOUS
<1>1. \A s \in C : IsFiniteSet(s)
  BY FS_Subset
<1>2. PICK s \in C : \A t \in C : Cardinality(s) <= Cardinality(t)
  <2> HIDE DEF C
  <2> QED BY <1>1, SmallestSet
<1>3. s \subseteq Z /\ IsFiniteSet(s)
  BY <1>1, <1>2
<1>4. s # {}
  BY <1>2, SumEmpty
<1> DEFINE t == s \ {Chosen(s)}
<1>5. t \notin C /\ Chosen(s) \in s
  BY <1>2, <1>3, <1>4, Smaller
<1>6. SumFunctionOnSet(f, t) = SumFunctionOnSet(g, t) /\ f[Chosen(s)] = g[Chosen(s)]
  BY <1>3, <1>5
<1>7. /\ SumFunctionOnSet(f, s) = f[Chosen(s)] + SumFunctionOnSet(f, t)
      /\ SumFunctionOnSet(g, s) = g[Chosen(s)] + SumFunctionOnSet(g, t)
  BY <1>3, <1>4, SumStep
<1> QED BY <1>2, <1>6, <1>7

\* Induction along 0..m, for a set of numbers.
LEMMA Climb ==
    ASSUME NEW m \in Nat, NEW S, 0 \in S, \A k \in 1..m : k - 1 \in S => k \in S
    PROVE  \A k \in 0..m : k \in S
<1> DEFINE C == {k \in 0..m : k \notin S}
<1> SUFFICES ASSUME C # {} PROVE FALSE
  OBVIOUS
<1>1. C \in SUBSET Nat
  OBVIOUS
<1>2. PICK k \in C : \A i \in C : k <= i
  <2> HIDE DEF C
  <2> QED BY <1>1, LeastNumber
<1>3. k \in 1..m /\ k - 1 \in 0..m
  BY <1>2
<1>4. k - 1 \notin C
  BY <1>2, <1>3
<1> QED BY <1>2, <1>3, <1>4

\* The numbers of an interval stand for at most as many values.
LEMMA ImageCount ==
    ASSUME NEW m \in Nat, NEW f, NEW T, \A x \in T : \E k \in 1..m : f[k] = x
    PROVE  IsFiniteSet(T) /\ Cardinality(T) <= m
<1> DEFINE K(x) == CHOOSE k \in 1..m : f[k] = x
           g == [x \in T |-> K(x)]
<1>1. \A x \in T : K(x) \in 1..m /\ f[K(x)] = x
  OBVIOUS
<1> HIDE DEF K
<1>2. g \in [T -> 1..m]
  BY <1>1
<1>3. \A x, y \in T : g[x] = g[y] => x = y
  BY <1>1
<1>4. g \in Injection(T, 1..m)
  <2> HIDE DEF g
  <2> QED BY <1>2, <1>3 DEF Injection, IsInjective
<1>5. IsFiniteSet(1..m) /\ Cardinality(1..m) = m
  <2>1. IsFiniteSet(1..m) /\ Cardinality(1..m) = IF 1 > m THEN 0 ELSE m - 1 + 1
    BY FS_Interval
  <2> QED BY <2>1
<1> HIDE DEF g
<1> QED BY <1>4, <1>5, FS_Injection

-----------------------------------------------------------------------------
(* Sequences *)

LEMMA Removed ==
    ASSUME NEW S, NEW s \in Seq(S), NEW i \in 1..Len(s)
    PROVE  LET t == RemoveAt(s, i) IN
           /\ t \in Seq(S) /\ Len(t) = Len(s) - 1
           /\ \A k \in 1..Len(t) : t[k] = IF k < i THEN s[k] ELSE s[k + 1]
<1> DEFINE a == SubSeq(s, 1, i - 1)
           b == SubSeq(s, i + 1, Len(s))
<1>1. Len(s) \in Nat /\ i \in Nat
  OBVIOUS
<1>2. a \in Seq(S) /\ Len(a) = i - 1 /\ \A k \in 1..(i - 1) : a[k] = s[k]
  <2>1. 1 \in 1..(Len(s) + 1) /\ i - 1 \in (1 - 1)..Len(s)
    BY <1>1
  <2> QED BY <1>1, <2>1, SubSeqProperties
<1>3. /\ b \in Seq(S) /\ Len(b) = Len(s) - i
      /\ \A k \in 1..(Len(s) - i) : b[k] = s[i + k]
  <2>1. i + 1 \in 1..(Len(s) + 1) /\ Len(s) \in ((i + 1) - 1)..Len(s)
    BY <1>1
  <2>2. b \in Seq(S) /\ Len(b) = IF i + 1 <= Len(s) THEN Len(s) - (i + 1) + 1 ELSE 0
    BY <1>1, <2>1, SubSeqProperties
  <2>3. Len(b) = Len(s) - i
    BY <1>1, <2>2
  <2>4. ASSUME NEW k \in 1..(Len(s) - i) PROVE b[k] = s[i + k]
    <3>1. b[k] = s[(i + 1) + k - 1]
      BY <1>1
    <3>2. (i + 1) + k - 1 = i + k
      BY <1>1
    <3> QED BY <3>1, <3>2
  <2> QED BY <2>2, <2>3, <2>4
<1>4. RemoveAt(s, i) = a \o b
  BY DEF RemoveAt
<1> HIDE DEF a, b
<1>5. /\ a \o b \in Seq(S) /\ Len(a \o b) = Len(s) - 1
  <2>1. a \o b \in Seq(S) /\ Len(a \o b) = Len(a) + Len(b)
    BY <1>2, <1>3, ConcatProperties
  <2> QED BY <1>1, <1>2, <1>3, <2>1
<1>6. ASSUME NEW k \in 1..(Len(s) - 1)
      PROVE  (a \o b)[k] = IF k < i THEN s[k] ELSE s[k + 1]
  <2>1. (a \o b)[k] = IF k <= Len(a) THEN a[k] ELSE b[k - Len(a)]
    BY <1>1, <1>2, <1>3
  <2>2. CASE k < i
    BY <1>1, <1>2, <2>1, <2>2
  <2>3. CASE ~(k < i)
    <3>1. k - Len(a) \in 1..(Len(s) - i) /\ i + (k - Len(a)) = k + 1 /\ ~(k <= Len(a))
      BY <1>1, <1>2, <2>3
    <3> QED BY <1>3, <2>1, <2>3, <3>1
  <2> QED BY <2>2, <2>3
<1> QED BY <1>4, <1>5, <1>6

LEMMA Inserted ==
    ASSUME NEW S, NEW s \in Seq(S), NEW i \in 1..(Len(s) + 1), NEW e \in S
    PROVE  LET t == InsertAt(s, i, e) IN
           /\ t \in Seq(S) /\ Len(t) = Len(s) + 1
           /\ \A k \in 1..Len(t) : t[k] = IF k < i THEN s[k]
                                          ELSE IF k = i THEN e ELSE s[k - 1]
<1> DEFINE a == SubSeq(s, 1, i - 1)
           b == SubSeq(s, i, Len(s))
           m == a \o <<e>>
<1>1. Len(s) \in Nat /\ i \in Nat /\ i >= 1 /\ i <= Len(s) + 1
  OBVIOUS
<1>2. a \in Seq(S) /\ Len(a) = i - 1 /\ \A k \in 1..(i - 1) : a[k] = s[k]
  BY <1>1, SubSeqProperties
<1>3. /\ b \in Seq(S) /\ Len(b) = Len(s) - i + 1
      /\ \A k \in 1..(Len(s) - i + 1) : b[k] = s[i + k - 1]
  BY <1>1, SubSeqProperties
<1>4. InsertAt(s, i, e) = m \o b
  BY DEF InsertAt
<1> HIDE DEF a, b
<1>5. <<e>> \in Seq(S) /\ Len(<<e>>) = 1 /\ <<e>>[1] = e
  OBVIOUS
<1>6. m \in Seq(S) /\ Len(m) = i /\ \A k \in 1..i : m[k] = IF k < i THEN s[k] ELSE e
  <2>1. /\ m \in Seq(S) /\ Len(m) = Len(a) + 1
        /\ \A k \in 1..Len(a) + 1 : m[k] = IF k <= Len(a) THEN a[k] ELSE <<e>>[k - Len(a)]
    BY <1>2, <1>5, ConcatProperties
  <2> HIDE DEF m
  <2>2. ASSUME NEW k \in 1..i PROVE m[k] = IF k < i THEN s[k] ELSE e
    <3>1. CASE k < i
      BY <1>1, <1>2, <2>1, <3>1
    <3>2. CASE k = i
      <4>1. k - Len(a) = 1 /\ ~(k <= Len(a)) /\ k \in 1..Len(a) + 1
        BY <1>1, <1>2, <3>2
      <4> QED BY <1>5, <2>1, <3>2, <4>1
    <3> QED BY <1>1, <3>1, <3>2
  <2> QED BY <1>1, <1>2, <2>1, <2>2
<1> HIDE DEF m
<1>7. /\ m \o b \in Seq(S) /\ Len(m \o b) = Len(s) + 1
      /\ \A k \in 1..Len(m) + Len(b) : (m \o b)[k] = IF k <= Len(m) THEN m[k] ELSE b[k - Len(m)]
  <2>1. m \o b \in Seq(S) /\ Len(m \o b) = Len(m) + Len(b)
    BY <1>3, <1>6, ConcatProperties
  <2> QED BY <1>1, <1>3, <1>6, <2>1, ConcatProperties
<1>8. ASSUME NEW k \in 1..(Len(s) + 1)
      PROVE  (m \o b)[k] = IF k < i THEN s[k] ELSE IF k = i THEN e ELSE s[k - 1]
  <2>1. k \in 1..Len(m) + Len(b)
    BY <1>1, <1>3, <1>6
  <2>2. CASE k <= i
    BY <1>1, <1>6, <1>7, <2>1, <2>2
  <2>3. CASE ~(k <= i)
    <3>1. k \in Nat /\ k > i
      BY <2>3, <1>1
    <3>2. k - i \in 1..(Len(s) - i + 1) /\ i + (k - i) - 1 = k - 1
      BY <1>1, <3>1
    <3> QED BY <1>1, <1>3, <1>6, <1>7, <2>1, <3>1, <3>2
  <2> QED BY <2>2, <2>3
<1> QED BY <1>4, <1>7, <1>8

\* The smallest number of a set.
LEMMA MinIs ==
    ASSUME NEW T \in SUBSET Nat, T # {}
    PROVE  Min(T) \in T /\ \A y \in T : Min(T) <= y
<1>1. \E x \in T : \A y \in T : x <= y
  BY LeastNumber
<1> QED BY <1>1 DEF Min

\* A number that is in the set and below all of it.
LEMMA MinEq ==
    ASSUME NEW T \in SUBSET Nat, NEW m \in T, \A y \in T : m <= y
    PROVE  Min(T) = m
<1>1. Min(T) \in T /\ Min(T) <= m
  BY MinIs
<1>2. m <= Min(T) /\ Min(T) \in Nat /\ m \in Nat
  BY <1>1
<1> QED BY <1>1, <1>2

LEMMA ToSetIs ==
    ASSUME NEW S, NEW s \in Seq(S)
    PROVE  /\ ToSet(s) = {s[k] : k \in 1..Len(s)} /\ ToSet(s) \subseteq S
           /\ IsFiniteSet(ToSet(s))
<1>1. DOMAIN s = 1..Len(s) /\ Len(s) \in Nat /\ \A k \in 1..Len(s) : s[k] \in S
  OBVIOUS
<1>2. ToSet(s) = {s[k] : k \in 1..Len(s)}
  BY <1>1 DEF ToSet
<1>3. \A x \in ToSet(s) : \E k \in 1..Len(s) : s[k] = x
  BY <1>2
<1>4. IsFiniteSet(ToSet(s))
  BY <1>1, <1>3, ImageCount
<1> QED BY <1>1, <1>2, <1>4

-----------------------------------------------------------------------------
(* The queues of the order book *)

Node  == [order_id : {0} \cup Ids, volume : Nat, participant : Int, next : {NULL} \cup Nodes]

Level == [price_fp : Nat, total_volume : Int, head : {NULL} \cup Nodes,
          tail : {NULL} \cup Nodes, count : Int]

Once(q) == \A x, y \in 1..Len(q) : q[x] = q[y] => x = y

\* The next fields of the nodes pl, followed from h, pass through q and end.
Linked(pl, h, q) ==
    /\ q \in Seq(Nodes) /\ Once(q)
    /\ Len(q) = 0 => h = NULL
    /\ Len(q) > 0 => h = q[1] /\ pl[q[Len(q)]].next = NULL
    /\ \A x \in 1..(Len(q) - 1) : pl[q[x]].next = q[x + 1]

\* f is the recursion of Queue.
NthOf(pl, h, f) ==
    f = [k \in Nodes |-> IF k = 1 THEN h
                         ELSE IF f[k - 1] = NULL THEN NULL
                         ELSE pl[f[k - 1]].next]

Cut(f) == [k \in 1..(Min({k \in Nodes : f[k] = NULL} \cup {PoolSize + 1}) - 1) |-> f[k]]

LEMMA QueueIsChosen ==
    ASSUME NEW pl, NEW h
    PROVE  Queue(pl, h) = Cut(CHOOSE f : NthOf(pl, h, f))
BY DEF Queue, NthOf, Cut

LEMMA NthUnique ==
    ASSUME NEW pl, NEW h, NEW f, NEW g, NthOf(pl, h, f), NthOf(pl, h, g)
    PROVE  f = g
<1> DEFINE S == {0} \cup {k \in Nodes : f[k] = g[k]}
<1>1. PoolSize \in Nat
  BY LOBAssumption
<1>2. 0 \in S
  OBVIOUS
<1>3. ASSUME NEW k \in 1..PoolSize, k - 1 \in S PROVE k \in S
  <2>1. k \in Nodes /\ (k = 1 \/ f[k - 1] = g[k - 1])
    BY <1>1, <1>3 DEF Nodes
  <2>2. /\ f[k] = IF k = 1 THEN h ELSE IF f[k - 1] = NULL THEN NULL ELSE pl[f[k - 1]].next
        /\ g[k] = IF k = 1 THEN h ELSE IF g[k - 1] = NULL THEN NULL ELSE pl[g[k - 1]].next
    BY <2>1 DEF NthOf
  <2> QED BY <2>1, <2>2
<1>4. \A k \in 0..PoolSize : k \in S
  <2> HIDE DEF S
  <2> QED BY <1>1, <1>2, <1>3, Climb
<1>5. \A k \in Nodes : f[k] = g[k]
  BY <1>1, <1>4 DEF Nodes
<1>6. f = [k \in Nodes |-> f[k]] /\ g = [k \in Nodes |-> g[k]]
  BY DEF NthOf
<1> QED BY <1>5, <1>6

\* A chain has no more nodes than the pool.
LEMMA ChainFits ==
    ASSUME NEW q \in Seq(Nodes), Once(q)
    PROVE  Len(q) <= PoolSize
<1> DEFINE n == Len(q)
           f == [k \in 1..n |-> q[k]]
<1>1. n \in Nat /\ PoolSize \in Nat /\ \A k \in 1..n : q[k] \in 1..PoolSize
  BY LOBAssumption DEF Nodes
<1>2. f \in [1..n -> 1..PoolSize]
  BY <1>1
<1>3. \A x, y \in 1..n : f[x] = f[y] => x = y
  BY DEF Once
<1>4. f \in Injection(1..n, 1..PoolSize)
  <2> HIDE DEF f
  <2> QED BY <1>2, <1>3 DEF Injection, IsInjective
<1> HIDE DEF f
<1>5. ASSUME NEW m \in Nat PROVE IsFiniteSet(1..m) /\ Cardinality(1..m) = m
  <2>1. IsFiniteSet(1..m) /\ Cardinality(1..m) = IF 1 > m THEN 0 ELSE m - 1 + 1
    BY FS_Interval
  <2> QED BY <2>1
<1>6. Cardinality(1..n) <= Cardinality(1..PoolSize)
  BY <1>1, <1>4, <1>5, FS_Injection
<1> QED BY <1>1, <1>5, <1>6

LEMMA QueueIs ==
    ASSUME NEW pl, NEW h, NEW q, Linked(pl, h, q)
    PROVE  Queue(pl, h) = q
<1> DEFINE g == [k \in Nodes |-> IF k <= Len(q) THEN q[k] ELSE NULL]
<1>1. /\ PoolSize \in Nat /\ Len(q) \in Nat /\ Len(q) <= PoolSize /\ PoolSize > 0
      /\ q \in Seq(Nodes)
      /\ \A k \in 1..Len(q) : q[k] \in Nodes /\ q[k] # NULL
  BY LOBAssumption, ChainFits DEF Linked, Nodes, NULL
<1>2. ASSUME NEW k \in Nodes
      PROVE  g[k] = IF k = 1 THEN h ELSE IF g[k - 1] = NULL THEN NULL ELSE pl[g[k - 1]].next
  <2>0. k \in Nat /\ k >= 1 /\ k <= PoolSize
    BY <1>1 DEF Nodes
  <2>1. CASE k = 1
    <3>1. CASE Len(q) = 0
      BY <1>1, <2>1, <3>1 DEF Linked
    <3>2. CASE Len(q) > 0
      BY <1>1, <2>1, <3>2 DEF Linked
    <3> QED BY <1>1, <3>1, <3>2
  <2>2. CASE k # 1
    <3>1. k - 1 \in Nodes
      BY <1>1, <2>0, <2>2 DEF Nodes
    <3>2. CASE k - 1 > Len(q)
      BY <1>1, <2>0, <2>2, <3>1, <3>2
    <3>3. CASE k - 1 = Len(q)
      <4>1. g[k - 1] = q[Len(q)] /\ Len(q) > 0 /\ g[k] = NULL /\ g[k - 1] # NULL
        BY <1>1, <2>0, <2>2, <3>1, <3>3
      <4> HIDE DEF g
      <4> QED BY <2>2, <4>1 DEF Linked
    <3>4. CASE k - 1 < Len(q)
      <4>1. /\ g[k - 1] = q[k - 1] /\ k - 1 \in 1..(Len(q) - 1) /\ (k - 1) + 1 = k
            /\ g[k] = q[k] /\ g[k - 1] # NULL
        BY <1>1, <2>0, <2>2, <3>1, <3>4
      <4> HIDE DEF g
      <4> QED BY <2>2, <4>1 DEF Linked
    <3> QED BY <1>1, <2>0, <3>2, <3>3, <3>4
  <2> QED BY <2>1, <2>2
<1>3. NthOf(pl, h, g)
  <2>1. g = [k \in Nodes |-> g[k]]
    OBVIOUS
  <2> HIDE DEF g
  <2> QED BY <1>2, <2>1 DEF NthOf
<1>4. (CHOOSE f : NthOf(pl, h, f)) = g
  <2> HIDE DEF g
  <2>1. NthOf(pl, h, CHOOSE f : NthOf(pl, h, f))
    BY <1>3
  <2> QED BY <1>3, <2>1, NthUnique
<1>5. Queue(pl, h) = Cut(g)
  BY <1>4, QueueIsChosen
<1> DEFINE T == {k \in Nodes : g[k] = NULL} \cup {PoolSize + 1}
<1>6. T \in SUBSET Nat /\ Len(q) + 1 \in T /\ \A y \in T : Len(q) + 1 <= y
  <2>1. T \in SUBSET Nat
    BY <1>1 DEF Nodes
  <2>2. Len(q) + 1 \in T
    <3>1. CASE Len(q) = PoolSize
      BY <3>1
    <3>2. CASE Len(q) < PoolSize
      <4>1. Len(q) + 1 \in Nodes /\ ~(Len(q) + 1 <= Len(q))
        BY <1>1, <3>2 DEF Nodes
      <4> QED BY <4>1
    <3> QED BY <1>1, <3>1, <3>2
  <2>3. ASSUME NEW y \in T PROVE Len(q) + 1 <= y
    <3>1. CASE y = PoolSize + 1
      BY <1>1, <3>1
    <3>2. CASE y \in Nodes /\ g[y] = NULL
      BY <1>1, <3>2 DEF Nodes
    <3> QED BY <3>1, <3>2
  <2> QED BY <2>1, <2>2, <2>3
<1>7. Min(T) = Len(q) + 1
  <2> HIDE DEF T
  <2> QED BY <1>6, MinEq
<1>8. Cut(g) = [k \in 1..Len(q) |-> g[k]]
  <2>1. Cut(g) = [k \in 1..(Min(T) - 1) |-> g[k]]
    BY DEF Cut
  <2>2. Min(T) - 1 = Len(q)
    BY <1>1, <1>7
  <2> HIDE DEF T
  <2> QED BY <2>1, <2>2
<1>9. \A k \in 1..Len(q) : g[k] = q[k]
  BY <1>1 DEF Nodes
<1>10. q = [k \in 1..Len(q) |-> q[k]]
  BY <1>1
<1> HIDE DEF g
<1> QED BY <1>5, <1>8, <1>9, <1>10

-----------------------------------------------------------------------------
(* The binary search of a level array *)

Sorted(s, lvs) ==
    \A j, k \in 1..Len(lvs) : j < k => Better(s, lvs[j].price_fp, lvs[k].price_fp)

Windows(lvs) == (1 .. Len(lvs) + 1) \X (0 .. Len(lvs))

\* f is the recursion of find.
SearchOf(s, lvs, p, f) ==
    f = [w \in Windows(lvs) |->
            IF w[1] > w[2] THEN 0
            ELSE IF lvs[(w[1] + w[2]) \div 2].price_fp = p THEN (w[1] + w[2]) \div 2
            ELSE IF Better(s, lvs[(w[1] + w[2]) \div 2].price_fp, p)
                 THEN f[<<(w[1] + w[2]) \div 2 + 1, w[2]>>]
            ELSE f[<<w[1], (w[1] + w[2]) \div 2 - 1>>]]

LEMMA FindIsChosen ==
    ASSUME NEW s, NEW p
    PROVE  find(s, p) = (CHOOSE f : SearchOf(s, sides[s], p, f))[<<1, Len(sides[s])>>]
BY DEF find, SearchOf, Windows

LEMMA SearchStep ==
    ASSUME NEW s, NEW lvs, NEW p, NEW f, SearchOf(s, lvs, p, f), Len(lvs) \in Nat,
           NEW a \in 1 .. Len(lvs) + 1, NEW b \in 0 .. Len(lvs), NEW m, m = (a + b) \div 2
    PROVE  f[<<a, b>>] = IF a > b THEN 0
                         ELSE IF lvs[m].price_fp = p THEN m
                         ELSE IF Better(s, lvs[m].price_fp, p) THEN f[<<m + 1, b>>]
                         ELSE f[<<a, m - 1>>]
<1> DEFINE w == <<a, b>>
<1>1. w \in Windows(lvs) /\ w[1] = a /\ w[2] = b
  BY DEF Windows
<1> HIDE DEF w
<1>2. f[w] = IF w[1] > w[2] THEN 0
            ELSE IF lvs[(w[1] + w[2]) \div 2].price_fp = p THEN (w[1] + w[2]) \div 2
            ELSE IF Better(s, lvs[(w[1] + w[2]) \div 2].price_fp, p)
                 THEN f[<<(w[1] + w[2]) \div 2 + 1, w[2]>>]
            ELSE f[<<w[1], (w[1] + w[2]) \div 2 - 1>>]
  BY <1>1 DEF SearchOf
<1> QED BY <1>1, <1>2 DEF w

LEMMA Halves ==
    ASSUME NEW a \in Nat, NEW b \in Nat, a >= 1, a <= b
    PROVE  LET m == (a + b) \div 2 IN m \in Nat /\ a <= m /\ m <= b
BY SMT

LEMMA SearchUnique ==
    ASSUME NEW s, NEW lvs, NEW p, NEW f, NEW g, Len(lvs) \in Nat,
           SearchOf(s, lvs, p, f), SearchOf(s, lvs, p, g)
    PROVE  f = g
<1> DEFINE n == Len(lvs)
           S == {k \in Nat : \A a \in 1 .. n + 1, b \in 0 .. n :
                                b - a < k => f[<<a, b>>] = g[<<a, b>>]}
<1>0. n \in Nat
  OBVIOUS
<1>1. 0 \in S
  <2>1. ASSUME NEW a \in 1 .. n + 1, NEW b \in 0 .. n, b - a < 0
        PROVE  f[<<a, b>>] = g[<<a, b>>]
    <3> DEFINE m == (a + b) \div 2
    <3>1. a > b
      BY <2>1
    <3>2. f[<<a, b>>] = IF a > b THEN 0
                         ELSE IF lvs[m].price_fp = p THEN m
                         ELSE IF Better(s, lvs[m].price_fp, p) THEN f[<<m + 1, b>>]
                         ELSE f[<<a, m - 1>>]
      BY SearchStep
    <3>3. g[<<a, b>>] = IF a > b THEN 0
                         ELSE IF lvs[m].price_fp = p THEN m
                         ELSE IF Better(s, lvs[m].price_fp, p) THEN g[<<m + 1, b>>]
                         ELSE g[<<a, m - 1>>]
      BY SearchStep
    <3> HIDE DEF m
    <3> QED BY <3>1, <3>2, <3>3
  <2> QED BY <2>1
<1>2. ASSUME NEW k \in 1..n, k - 1 \in S PROVE k \in S
  <2>1. ASSUME NEW a \in 1 .. n + 1, NEW b \in 0 .. n, b - a < k
        PROVE  f[<<a, b>>] = g[<<a, b>>]
    <3> DEFINE m == (a + b) \div 2
    <3>3. f[<<a, b>>] = IF a > b THEN 0
                         ELSE IF lvs[m].price_fp = p THEN m
                         ELSE IF Better(s, lvs[m].price_fp, p) THEN f[<<m + 1, b>>]
                         ELSE f[<<a, m - 1>>]
      BY SearchStep
    <3>4. g[<<a, b>>] = IF a > b THEN 0
                         ELSE IF lvs[m].price_fp = p THEN m
                         ELSE IF Better(s, lvs[m].price_fp, p) THEN g[<<m + 1, b>>]
                         ELSE g[<<a, m - 1>>]
      BY SearchStep
    <3>1. CASE a > b
      <4> HIDE DEF m
      <4> QED BY <3>1, <3>3, <3>4
    <3>2. CASE a <= b
      <4>1. m \in Nat /\ a <= m /\ m <= b
        BY <3>2, Halves
      <4>2. m + 1 \in 1 .. n + 1 /\ m - 1 \in 0 .. n /\ b - (m + 1) < k - 1 /\ (m - 1) - a < k - 1
        <5> HIDE DEF m
        <5> QED BY <2>1, <4>1
      <4>3. f[<<m + 1, b>>] = g[<<m + 1, b>>] /\ f[<<a, m - 1>>] = g[<<a, m - 1>>]
        <5> HIDE DEF m
        <5> QED BY <1>2, <4>2
      <4> HIDE DEF m
      <4> QED BY <3>2, <3>3, <3>4, <4>3
    <3> QED BY <3>1, <3>2
  <2> QED BY <2>1
<1>3. n \in S
  <2> HIDE DEF S
  <2>1. \A k \in 0..n : k \in S
    BY <1>0, <1>1, <1>2, Climb
  <2> QED BY <1>0, <2>1
<1>4. ASSUME NEW a \in 1 .. n + 1, NEW b \in 0 .. n PROVE b - a < n
  OBVIOUS
<1>5. \A a \in 1 .. n + 1, b \in 0 .. n : f[<<a, b>>] = g[<<a, b>>]
  BY <1>3, <1>4
<1>6. ASSUME NEW w \in Windows(lvs) PROVE f[w] = g[w]
  <2>1. w = <<w[1], w[2]>> /\ w[1] \in 1 .. n + 1 /\ w[2] \in 0 .. n
    BY DEF Windows
  <2> QED BY <1>5, <2>1
<1>7. f = [w \in Windows(lvs) |-> f[w]] /\ g = [w \in Windows(lvs) |-> g[w]]
  BY DEF SearchOf
<1> QED BY <1>6, <1>7

\* The place of price p between two positions, or 0.
Place(lvs, p, a, b) ==
    IF \E k \in a..b : lvs[k].price_fp = p THEN CHOOSE k \in a..b : lvs[k].price_fp = p ELSE 0

LEMMA PricesDiffer ==
    ASSUME NEW s, NEW lvs \in Seq(Level), Sorted(s, lvs),
           NEW j \in 1..Len(lvs), NEW k \in 1..Len(lvs)
    PROVE  /\ lvs[j].price_fp \in Nat /\ lvs[k].price_fp \in Nat
           /\ lvs[j].price_fp = lvs[k].price_fp => j = k
           /\ Better(s, lvs[j].price_fp, lvs[k].price_fp) => j < k
<1>1. lvs[j] \in Level /\ lvs[k] \in Level
  OBVIOUS
<1>2. lvs[j].price_fp \in Nat /\ lvs[k].price_fp \in Nat
  BY <1>1 DEF Level
<1>3. j \in Nat /\ k \in Nat
  OBVIOUS
<1>4. CASE j < k
  <2>1. Better(s, lvs[j].price_fp, lvs[k].price_fp)
    BY <1>4 DEF Sorted
  <2> QED BY <1>2, <1>3, <1>4, <2>1 DEF Better
<1>5. CASE k < j
  <2>1. Better(s, lvs[k].price_fp, lvs[j].price_fp)
    BY <1>5 DEF Sorted
  <2> QED BY <1>2, <1>3, <1>5, <2>1 DEF Better
<1>6. CASE k = j
  BY <1>2, <1>6 DEF Better
<1> QED BY <1>3, <1>4, <1>5, <1>6

LEMMA PlaceStep ==
    ASSUME NEW s, NEW lvs \in Seq(Level), Sorted(s, lvs), NEW p \in Nat,
           NEW a \in 1 .. Len(lvs) + 1, NEW b \in 0 .. Len(lvs), NEW m, m = (a + b) \div 2
    PROVE  Place(lvs, p, a, b) =
               IF a > b THEN 0
               ELSE IF lvs[m].price_fp = p THEN m
               ELSE IF Better(s, lvs[m].price_fp, p) THEN Place(lvs, p, m + 1, b)
               ELSE Place(lvs, p, a, m - 1)
<1>0. Len(lvs) \in Nat
  OBVIOUS
<1>1. CASE a > b
  BY <1>0, <1>1 DEF Place
<1>2. CASE a <= b
  <2>1. m \in Nat /\ a <= m /\ m <= b /\ m \in 1..Len(lvs) /\ m \in a..b
    <3>1. m \in Nat /\ a <= m /\ m <= b
      BY <1>0, <1>2, Halves
    <3> QED BY <1>0, <3>1
  <2>2. \A k \in a..b : k \in 1..Len(lvs)
    BY <1>0
  <2>3. lvs[m].price_fp \in Nat
    BY <2>1, PricesDiffer
  <2>4. CASE lvs[m].price_fp = p
    <3>1. \A k \in a..b : lvs[k].price_fp = p => k = m
      BY <2>1, <2>2, <2>4, PricesDiffer
    <3> QED BY <1>2, <2>1, <2>4, <3>1 DEF Place
  <2>5. CASE lvs[m].price_fp # p /\ Better(s, lvs[m].price_fp, p)
    <3>1. ASSUME NEW k \in a..b, lvs[k].price_fp = p PROVE k \in (m + 1)..b
      <4>1. k \in 1..Len(lvs) /\ m < k
        BY <2>1, <2>2, <2>5, <3>1, PricesDiffer
      <4> QED BY <1>0, <2>1, <4>1
    <3>2. \A k \in (m + 1)..b : k \in a..b
      BY <1>0, <2>1
    <3>3. \A k : (k \in a..b /\ lvs[k].price_fp = p) <=> (k \in (m + 1)..b /\ lvs[k].price_fp = p)
      BY <3>1, <3>2
    <3>4. Place(lvs, p, a, b) = Place(lvs, p, m + 1, b)
      BY <3>3 DEF Place
    <3> QED BY <1>0, <1>2, <2>5, <3>4
  <2>6. CASE lvs[m].price_fp # p /\ ~Better(s, lvs[m].price_fp, p)
    <3>0. Better(s, p, lvs[m].price_fp)
      BY <2>3, <2>6 DEF Better
    <3>1. ASSUME NEW k \in a..b, lvs[k].price_fp = p PROVE k \in a..(m - 1)
      <4>1. k \in 1..Len(lvs) /\ k < m
        BY <2>1, <2>2, <3>0, <3>1, PricesDiffer
      <4> QED BY <1>0, <2>1, <4>1
    <3>2. \A k \in a..(m - 1) : k \in a..b
      BY <1>0, <2>1
    <3>3. \A k : (k \in a..b /\ lvs[k].price_fp = p) <=> (k \in a..(m - 1) /\ lvs[k].price_fp = p)
      BY <3>1, <3>2
    <3>4. Place(lvs, p, a, b) = Place(lvs, p, a, m - 1)
      BY <3>3 DEF Place
    <3> QED BY <1>0, <1>2, <2>6, <3>4
  <2> QED BY <2>4, <2>5, <2>6
<1> QED BY <1>0, <1>1, <1>2

\* The binary search finds the level of a price, when there is one.
LEMMA FindIs ==
    ASSUME NEW s, NEW p \in Nat, sides[s] \in Seq(Level), Sorted(s, sides[s])
    PROVE  /\ find(s, p) \in 0 .. Len(sides[s])
           /\ find(s, p) # 0 => sides[s][find(s, p)].price_fp = p
           /\ find(s, p) = 0 => \A k \in 1 .. Len(sides[s]) : sides[s][k].price_fp # p
<1> DEFINE lvs == sides[s]
           n == Len(lvs)
           g == [w \in Windows(lvs) |-> Place(lvs, p, w[1], w[2])]
<1>0. lvs \in Seq(Level) /\ Sorted(s, lvs) /\ n \in Nat
  OBVIOUS
<1> HIDE DEF lvs
<1>1. \A a \in 1 .. n + 1, b \in 0 .. n : <<a, b>> \in Windows(lvs) /\ g[<<a, b>>] = Place(lvs, p, a, b)
  BY DEF Windows
<1>2. ASSUME NEW w \in Windows(lvs)
      PROVE  g[w] = IF w[1] > w[2] THEN 0
            ELSE IF lvs[(w[1] + w[2]) \div 2].price_fp = p THEN (w[1] + w[2]) \div 2
            ELSE IF Better(s, lvs[(w[1] + w[2]) \div 2].price_fp, p)
                 THEN g[<<(w[1] + w[2]) \div 2 + 1, w[2]>>]
            ELSE g[<<w[1], (w[1] + w[2]) \div 2 - 1>>]
  <2> DEFINE a == w[1]
             b == w[2]
             m == (a + b) \div 2
  <2>1. a \in 1 .. n + 1 /\ b \in 0 .. n
    BY DEF Windows
  <2>2. g[w] = Place(lvs, p, a, b)
    OBVIOUS
  <2>3. Place(lvs, p, a, b) =
               IF a > b THEN 0
               ELSE IF lvs[m].price_fp = p THEN m
               ELSE IF Better(s, lvs[m].price_fp, p) THEN Place(lvs, p, m + 1, b)
               ELSE Place(lvs, p, a, m - 1)
    BY <1>0, <2>1, PlaceStep
  <2>4. a <= b => m + 1 \in 1 .. n + 1 /\ m - 1 \in 0 .. n
    <3>1. a <= b => m \in Nat /\ a <= m /\ m <= b
      BY <1>0, <2>1, Halves
    <3> HIDE DEF a, b, m
    <3> QED BY <1>0, <2>1, <3>1
  <2>5. a <= b => /\ g[<<m + 1, b>>] = Place(lvs, p, m + 1, b)
                  /\ g[<<a, m - 1>>] = Place(lvs, p, a, m - 1)
    <3> HIDE DEF a, b, m, g
    <3> QED BY <1>1, <2>1, <2>4
  <2>6. a > b \/ a <= b
    BY <1>0, <2>1
  <2>7. g[w] = IF a > b THEN 0
               ELSE IF lvs[m].price_fp = p THEN m
               ELSE IF Better(s, lvs[m].price_fp, p) THEN g[<<m + 1, b>>]
               ELSE g[<<a, m - 1>>]
    <3> HIDE DEF a, b, m, g
    <3> QED BY <2>2, <2>3, <2>5, <2>6
  <2> QED BY <2>7
<1>3. SearchOf(s, lvs, p, g)
  <2>1. g = [w \in Windows(lvs) |-> g[w]]
    OBVIOUS
  <2> HIDE DEF g
  <2> QED BY <1>2, <2>1 DEF SearchOf
<1> HIDE DEF g, n
<1>4. PICK f : SearchOf(s, lvs, p, f) /\ find(s, p) = f[<<1, n>>]
  <2>1. SearchOf(s, lvs, p, CHOOSE f : SearchOf(s, lvs, p, f))
    BY <1>3
  <2> QED BY <2>1, FindIsChosen DEF lvs, n
<1>5. find(s, p) = f[<<1, n>>]
  BY <1>4
<1>6. f[<<1, n>>] = g[<<1, n>>]
  <2>0. Len(lvs) \in Nat
    BY <1>0 DEF n
  <2>1. f = g
    BY <1>3, <1>4, <2>0, SearchUnique
  <2> QED BY <2>1
<1>7. find(s, p) = Place(lvs, p, 1, n)
  <2>1. 1 \in 1 .. n + 1 /\ n \in 0 .. n
    BY <1>0
  <2> QED BY <1>1, <1>5, <1>6, <2>1
<1>8. /\ find(s, p) \in 0 .. n
      /\ find(s, p) # 0 => lvs[find(s, p)].price_fp = p
      /\ find(s, p) = 0 => \A k \in 1 .. n : lvs[k].price_fp # p
  <2>1. CASE \E k \in 1..n : lvs[k].price_fp = p
    <3>1. find(s, p) \in 1..n /\ lvs[find(s, p)].price_fp = p
      BY <1>7, <2>1 DEF Place
    <3> QED BY <1>0, <3>1
  <2>2. CASE ~\E k \in 1..n : lvs[k].price_fp = p
    BY <1>0, <1>7, <2>2 DEF Place
  <2> QED BY <2>1, <2>2
<1> QED BY <1>8 DEF lvs, n

-----------------------------------------------------------------------------
(* The level arrays *)

LEMMA BetterOrder ==
    ASSUME NEW s, NEW a \in Nat, NEW b \in Nat, NEW c \in Nat
    PROVE  /\ Better(s, a, b) /\ Better(s, b, c) => Better(s, a, c)
           /\ Better(s, a, b) \/ Better(s, b, a) \/ a = b
           /\ ~Better(s, a, a) /\ (Better(s, a, b) => ~Better(s, b, a))
BY DEF Better

LEMMA NewLevelType == \A p \in Nat : NewLevel(p) \in Level /\ NewLevel(p).price_fp = p
BY DEF NewLevel, Level, NULL

LEMMA InsertPosIs ==
    ASSUME NEW s, NEW p \in Nat, sides[s] \in Seq(Level), Sorted(s, sides[s]),
           \A k \in 1 .. Len(sides[s]) : sides[s][k].price_fp # p
    PROVE  /\ InsertPos(s, p) \in 1 .. Len(sides[s]) + 1
           /\ \A k \in 1 .. Len(sides[s]) :
                 /\ k < InsertPos(s, p) => Better(s, sides[s][k].price_fp, p)
                 /\ k >= InsertPos(s, p) => Better(s, p, sides[s][k].price_fp)
<1> DEFINE lvs == sides[s]
           n == Len(lvs)
           T == {i \in 1 .. n : Better(s, p, lvs[i].price_fp)} \cup {n + 1}
           m == InsertPos(s, p)
<1>1. n \in Nat /\ lvs \in Seq(Level)
  OBVIOUS
<1>2. T \in SUBSET Nat /\ T # {}
  BY <1>1
<1>3. m = Min(T)
  BY DEF InsertPos
<1>4. m \in T /\ \A y \in T : m <= y
  <2> HIDE DEF T, m
  <2> QED BY <1>2, <1>3, MinIs
<1> HIDE DEF m
<1>5. m \in 1 .. n + 1
  BY <1>1, <1>4
<1>6. ASSUME NEW k \in 1 .. n
      PROVE  /\ k < m => Better(s, lvs[k].price_fp, p)
             /\ k >= m => Better(s, p, lvs[k].price_fp)
  <2>1. lvs[k].price_fp \in Nat /\ lvs[k].price_fp # p
    BY PricesDiffer
  <2>2. CASE k < m
    <3>1. k \notin T
      BY <1>4, <1>5, <2>2
    <3>2. ~Better(s, p, lvs[k].price_fp)
      BY <3>1
    <3>3. Better(s, lvs[k].price_fp, p)
      BY <2>1, <3>2, BetterOrder
    <3>4. ~(k >= m)
      BY <1>1, <1>5, <2>2
    <3> QED BY <3>3, <3>4
  <2>3. CASE k >= m
    <3>1. m \in 1 .. n /\ Better(s, p, lvs[m].price_fp)
      BY <1>1, <1>4, <1>5, <2>3
    <3>2. CASE k = m
      BY <1>1, <1>5, <3>1, <3>2
    <3>3. CASE k # m
      <4>1. m < k /\ lvs[m].price_fp \in Nat
        BY <1>1, <1>5, <2>3, <3>1, <3>3, PricesDiffer
      <4>2. Better(s, lvs[m].price_fp, lvs[k].price_fp)
        BY <3>1, <4>1 DEF Sorted
      <4>3. Better(s, p, lvs[k].price_fp)
        <5> DEFINE b == lvs[m].price_fp
                   c == lvs[k].price_fp
        <5>1. b \in Nat /\ c \in Nat /\ Better(s, p, b) /\ Better(s, b, c)
          BY <2>1, <3>1, <4>1, <4>2
        <5> HIDE DEF b, c
        <5>2. Better(s, p, c)
          BY <5>1, BetterOrder
        <5> QED BY <5>2 DEF c
      <4>4. ~(k < m)
        BY <1>1, <1>5, <4>1
      <4> QED BY <4>3, <4>4
    <3> QED BY <3>2, <3>3
  <2> QED BY <1>1, <1>5, <2>2, <2>3
<1> QED BY <1>5, <1>6 DEF m

LEMMA InsertLevel ==
    ASSUME NEW s, NEW p \in Nat, sides[s] \in Seq(Level), Sorted(s, sides[s]),
           \A k \in 1 .. Len(sides[s]) : sides[s][k].price_fp # p
    PROVE  LET lvs == InsertAt(sides[s], InsertPos(s, p), NewLevel(p)) IN
           /\ lvs \in Seq(Level) /\ Len(lvs) = Len(sides[s]) + 1 /\ Sorted(s, lvs)
           /\ ToSet(lvs) = ToSet(sides[s]) \cup {NewLevel(p)}
<1> DEFINE old == sides[s]
           n == Len(old)
           e == NewLevel(p)
           m == InsertPos(s, p)
           new == InsertAt(old, m, e)
<1>1. old \in Seq(Level) /\ n \in Nat /\ Sorted(s, old) /\ \A k \in 1..n : old[k].price_fp \in Nat
  BY PricesDiffer
<1>2. e \in Level /\ e.price_fp = p
  BY NewLevelType
<1>3. /\ m \in 1 .. n + 1
      /\ \A k \in 1 .. n : /\ k < m => Better(s, old[k].price_fp, p)
                           /\ k >= m => Better(s, p, old[k].price_fp)
  BY InsertPosIs
<1> HIDE DEF m, old, e
<1>4. /\ new \in Seq(Level) /\ Len(new) = n + 1
      /\ \A k \in 1..(n + 1) : new[k] = IF k < m THEN old[k] ELSE IF k = m THEN e ELSE old[k - 1]
  <2>1. m \in 1 .. Len(old) + 1
    BY <1>3
  <2>2. /\ new \in Seq(Level) /\ Len(new) = Len(old) + 1
        /\ \A k \in 1..Len(new) : new[k] = IF k < m THEN old[k] ELSE IF k = m THEN e ELSE old[k - 1]
    BY <1>1, <1>2, <2>1, Inserted
  <2> HIDE DEF new
  <2> QED BY <2>2
<1> HIDE DEF new, n
<1>5. Sorted(s, new)
  <2> SUFFICES ASSUME NEW j \in 1..(n + 1), NEW k \in 1..(n + 1), j < k
               PROVE  Better(s, new[j].price_fp, new[k].price_fp)
    BY <1>4 DEF Sorted
  <2>0. j \in Nat /\ k \in Nat /\ m \in Nat
    BY <1>1, <1>3
  <2>1. CASE k < m
    <3>1. j \in 1..n /\ k \in 1..n /\ j < m /\ new[j] = old[j] /\ new[k] = old[k]
      BY <1>1, <1>3, <1>4, <2>0, <2>1
    <3> QED BY <1>1, <3>1 DEF Sorted, n
  <2>2. CASE k = m
    <3>1. j \in 1..n /\ j < m /\ new[j] = old[j] /\ new[k] = e
      BY <1>1, <1>3, <1>4, <2>0, <2>2
    <3> QED BY <1>2, <1>3, <3>1
  <2>3. CASE k > m
    <3>1. k - 1 \in 1..n /\ k - 1 >= m /\ new[k] = old[k - 1]
      BY <1>1, <1>3, <1>4, <2>0, <2>3
    <3>2. CASE j < m
      <4>1. j \in 1..n /\ j < k - 1 /\ new[j] = old[j]
        BY <1>1, <1>3, <1>4, <2>0, <2>3, <3>2
      <4> QED BY <1>1, <3>1, <4>1 DEF Sorted, n
    <3>3. CASE j = m
      <4>1. new[j] = e
        BY <1>4, <2>0, <3>3
      <4> QED BY <1>2, <1>3, <3>1, <4>1
    <3>4. CASE j > m
      <4>1. j - 1 \in 1..n /\ j - 1 < k - 1 /\ new[j] = old[j - 1]
        BY <1>1, <1>3, <1>4, <2>0, <3>4
      <4> QED BY <1>1, <3>1, <4>1 DEF Sorted, n
    <3> QED BY <2>0, <3>2, <3>3, <3>4
  <2> QED BY <2>0, <2>1, <2>2, <2>3
<1>6. ToSet(new) = ToSet(old) \cup {e}
  <2>1. /\ ToSet(new) = {new[k] : k \in 1..(n + 1)}
        /\ ToSet(old) = {old[k] : k \in 1..n}
    BY <1>1, <1>4, ToSetIs DEF n
  <2>2. ASSUME NEW k \in 1..(n + 1) PROVE new[k] \in ToSet(old) \cup {e}
    <3>1. k < m => k \in 1..n
      BY <1>1, <1>3
    <3>2. k > m => k - 1 \in 1..n
      BY <1>1, <1>3
    <3>3. k < m \/ k = m \/ k > m
      BY <1>1, <1>3
    <3> QED BY <1>3, <1>4, <2>1, <3>1, <3>2, <3>3
  <2>3. ASSUME NEW k \in 1..n PROVE \E j \in 1..(n + 1) : new[j] = old[k]
    <3>1. CASE k < m
      <4>1. k \in 1..(n + 1) /\ new[k] = old[k]
        BY <1>1, <1>4, <3>1
      <4> QED BY <4>1
    <3>2. CASE ~(k < m)
      <4>1. k + 1 \in 1..(n + 1) /\ ~(k + 1 < m) /\ k + 1 # m /\ (k + 1) - 1 = k
        BY <1>1, <1>3, <3>2
      <4>2. new[k + 1] = old[k]
        BY <1>4, <4>1
      <4> QED BY <4>1, <4>2
    <3> QED BY <3>1, <3>2
  <2>4. new[m] = e /\ m \in 1..(n + 1)
    BY <1>1, <1>3, <1>4
  <2>5. ToSet(new) \subseteq ToSet(old) \cup {e}
    BY <2>1, <2>2
  <2>6. ToSet(old) \subseteq ToSet(new)
    BY <2>1, <2>3
  <2>7. e \in ToSet(new)
    BY <2>1, <2>4
  <2> QED BY <2>5, <2>6, <2>7
<1> QED BY <1>4, <1>5, <1>6 DEF new, old, n, e, m

\* get_or_create makes room in place for the price and changes nothing else.
LEMMA GetOrCreate ==
    ASSUME NEW s, NEW p \in Nat, sides[s] \in Seq(Level), Sorted(s, sides[s]),
           Len(sides[s]) <= MaxLevels, get_or_create(s, p) # <<>>
    PROVE  LET lvs == get_or_create(s, p) IN
           /\ lvs \in Seq(Level) /\ Len(lvs) <= MaxLevels /\ Sorted(s, lvs)
           /\ \E k \in 1..Len(lvs) : lvs[k].price_fp = p
           /\ \/ lvs = sides[s]
              \/ ToSet(lvs) = ToSet(sides[s]) \cup {NewLevel(p)}
<1>0. Len(sides[s]) \in Nat /\ MaxLevels \in Nat
  BY LOBAssumption
<1>1. CASE find(s, p) # 0
  <2>1. find(s, p) \in 1..Len(sides[s]) /\ sides[s][find(s, p)].price_fp = p
    BY <1>0, <1>1, FindIs
  <2>2. get_or_create(s, p) = sides[s]
    BY <1>1 DEF get_or_create
  <2> QED BY <2>1, <2>2
<1>2. CASE find(s, p) = 0
  <2> DEFINE lvs == InsertAt(sides[s], InsertPos(s, p), NewLevel(p))
  <2>1. \A k \in 1 .. Len(sides[s]) : sides[s][k].price_fp # p
    BY <1>2, FindIs
  <2>2. get_or_create(s, p) = lvs /\ ~(Len(sides[s]) >= MaxLevels)
    BY <1>2 DEF get_or_create
  <2>3. /\ lvs \in Seq(Level) /\ Len(lvs) = Len(sides[s]) + 1 /\ Sorted(s, lvs)
        /\ ToSet(lvs) = ToSet(sides[s]) \cup {NewLevel(p)}
    BY <2>1, InsertLevel
  <2> HIDE DEF lvs
  <2>4. \E k \in 1..Len(lvs) : lvs[k].price_fp = p
    <3>0. lvs \in Seq(Level)
      BY <2>3
    <3>1. ToSet(lvs) = {lvs[k] : k \in 1..Len(lvs)}
      BY <3>0, ToSetIs
    <3>2. NewLevel(p) \in ToSet(lvs) /\ NewLevel(p).price_fp = p
      BY <2>3, NewLevelType
    <3> QED BY <3>1, <3>2
  <2> QED BY <1>0, <2>2, <2>3, <2>4
<1> QED BY <1>1, <1>2

\* A level, or the level array of a side, replaced.
WithLevel(lvs, k, lv) == [lvs EXCEPT ![k] = lv]
WithSide(sd, s, lvs)  == [sd EXCEPT ![s] = lvs]

LEMMA ReplaceLevel ==
    ASSUME NEW s, NEW lvs \in Seq(Level), Sorted(s, lvs), NEW k \in 1..Len(lvs),
           NEW lv \in Level, lv.price_fp = lvs[k].price_fp
    PROVE  LET new == WithLevel(lvs, k, lv) IN
           /\ new \in Seq(Level) /\ Len(new) = Len(lvs) /\ Sorted(s, new)
           /\ ToSet(new) = (ToSet(lvs) \ {lvs[k]}) \cup {lv}
<1> DEFINE new == [lvs EXCEPT ![k] = lv]
           n == Len(lvs)
<1>1. /\ new \in Seq(Level) /\ Len(new) = n /\ n \in Nat
      /\ \A j \in 1..n : new[j] = IF j = k THEN lv ELSE lvs[j]
  BY ExceptSeq
<1> HIDE DEF new
<1>2. \A j \in 1..n : new[j].price_fp = lvs[j].price_fp
  BY <1>1
<1>3. Sorted(s, new)
  BY <1>1, <1>2 DEF Sorted
<1>4. ToSet(new) = {new[j] : j \in 1..n} /\ ToSet(lvs) = {lvs[j] : j \in 1..n}
  BY <1>1, ToSetIs
<1>5. \A j \in 1..n : lvs[j] = lvs[k] => j = k
  BY PricesDiffer
<1>6. ToSet(new) = (ToSet(lvs) \ {lvs[k]}) \cup {lv}
  <2>1. \A j \in 1..n : new[j] \in (ToSet(lvs) \ {lvs[k]}) \cup {lv}
    BY <1>1, <1>4, <1>5
  <2>2. \A j \in 1..n : j # k => lvs[j] \in ToSet(new)
    BY <1>1, <1>4
  <2>3. lv \in ToSet(new)
    BY <1>1, <1>4
  <2> QED BY <1>4, <2>1, <2>2, <2>3
<1> QED BY <1>1, <1>3, <1>6 DEF new, WithLevel

LEMMA RemoveLevel ==
    ASSUME NEW s, NEW lvs \in Seq(Level), Sorted(s, lvs), NEW k \in 1..Len(lvs)
    PROVE  LET new == RemoveAt(lvs, k) IN
           /\ new \in Seq(Level) /\ Len(new) = Len(lvs) - 1 /\ Sorted(s, new)
           /\ ToSet(new) = ToSet(lvs) \ {lvs[k]}
<1> DEFINE new == RemoveAt(lvs, k)
           n == Len(lvs)
<1>1. /\ new \in Seq(Level) /\ Len(new) = n - 1 /\ n \in Nat /\ k \in Nat
      /\ \A j \in 1..(n - 1) : new[j] = IF j < k THEN lvs[j] ELSE lvs[j + 1]
  BY Removed
<1> HIDE DEF new
<1>2. Sorted(s, new)
  <2> SUFFICES ASSUME NEW i \in 1..(n - 1), NEW j \in 1..(n - 1), i < j
               PROVE  Better(s, new[i].price_fp, new[j].price_fp)
    BY <1>1 DEF Sorted
  <2> DEFINE a == IF i < k THEN i ELSE i + 1
             b == IF j < k THEN j ELSE j + 1
  <2>1. new[i] = lvs[a] /\ new[j] = lvs[b]
    BY <1>1
  <2>2. a \in 1..n /\ b \in 1..n /\ a < b
    BY <1>1
  <2> HIDE DEF a, b
  <2> QED BY <2>1, <2>2 DEF Sorted
<1>3. ToSet(new) = {new[j] : j \in 1..(n - 1)} /\ ToSet(lvs) = {lvs[j] : j \in 1..n}
  BY <1>1, ToSetIs
<1>4. \A j \in 1..n : lvs[j] = lvs[k] => j = k
  BY PricesDiffer
<1>5. ASSUME NEW j \in 1..(n - 1) PROVE new[j] \in ToSet(lvs) \ {lvs[k]}
  <2> DEFINE a == IF j < k THEN j ELSE j + 1
  <2>1. new[j] = lvs[a] /\ a \in 1..n /\ a # k
    BY <1>1
  <2> HIDE DEF a
  <2> QED BY <1>3, <1>4, <2>1
<1>6. ASSUME NEW j \in 1..n, j # k PROVE lvs[j] \in ToSet(new)
  <2>1. CASE j < k
    <3>1. j \in 1..(n - 1) /\ new[j] = lvs[j]
      BY <1>1, <2>1
    <3> QED BY <1>3, <3>1
  <2>2. CASE j > k
    <3>1. j - 1 \in 1..(n - 1) /\ ~(j - 1 < k) /\ (j - 1) + 1 = j
      BY <1>1, <2>2
    <3>2. new[j - 1] = lvs[j]
      BY <1>1, <3>1
    <3> QED BY <1>3, <3>1, <3>2
  <2> QED BY <1>1, <1>6, <2>1, <2>2
<1>7. ToSet(new) = ToSet(lvs) \ {lvs[k]}
  <2>1. ToSet(new) \subseteq ToSet(lvs) \ {lvs[k]}
    BY <1>3, <1>5
  <2>2. ToSet(lvs) \ {lvs[k]} \subseteq ToSet(new)
    BY <1>3, <1>6
  <2> QED BY <2>1, <2>2
<1> QED BY <1>1, <1>2, <1>7 DEF new

-----------------------------------------------------------------------------
(* One level and its queue *)

VolumeIn(pl, T) == SumFunctionOnSet([i \in Nodes |-> pl[i].volume], T)

\* lv heads the queue q: summary fields, tail and age order are right.
Good(pl, lv, q) ==
    /\ lv \in Level
    /\ Linked(pl, lv.head, q)
    /\ lv.count = Len(q)
    /\ lv.tail = IF Len(q) = 0 THEN NULL ELSE q[Len(q)]
    /\ lv.total_volume = VolumeIn(pl, ToSet(q))
    /\ \A x, y \in 1..Len(q) : x < y => pl[q[x]].order_id < pl[q[y]].order_id

\* What Good says about a queue, and what follows for positions.
LEMMA GoodFacts ==
    ASSUME NEW pl, NEW lv, NEW q, Good(pl, lv, q)
    PROVE  /\ q \in Seq(Nodes) /\ Len(q) \in Nat /\ q = Queue(pl, lv.head)
           /\ ToSet(q) = {q[k] : k \in 1..Len(q)} /\ ToSet(q) \subseteq Nodes
           /\ IsFiniteSet(ToSet(q)) /\ NULL \notin ToSet(q) /\ NULL \notin Nodes
           /\ \A x, y \in 1..Len(q) : q[x] = q[y] => x = y
           /\ lv.head = NULL <=> q = <<>>
           /\ lv.count = 0 <=> q = <<>>
<1>1. q \in Seq(Nodes) /\ Linked(pl, lv.head, q)
  BY DEF Good, Linked
<1>2. q = Queue(pl, lv.head)
  BY <1>1, QueueIs
<1>3. ToSet(q) = {q[k] : k \in 1..Len(q)} /\ ToSet(q) \subseteq Nodes /\ IsFiniteSet(ToSet(q))
  BY <1>1, ToSetIs
<1>4. NULL \notin Nodes
  BY LOBAssumption DEF NULL, Nodes
<1>5. Len(q) \in Nat /\ (Len(q) = 0 <=> q = <<>>) /\ (Len(q) > 0 => q[1] \in Nodes)
  BY <1>1
<1>6. lv.head = NULL <=> q = <<>>
  <2>1. CASE Len(q) = 0
    BY <1>1, <1>5, <2>1 DEF Linked
  <2>2. CASE Len(q) > 0
    BY <1>1, <1>4, <1>5, <2>2 DEF Linked
  <2> QED BY <1>5, <2>1, <2>2
<1>7. lv.count = 0 <=> q = <<>>
  BY <1>5 DEF Good
<1>8. \A x, y \in 1..Len(q) : q[x] = q[y] => x = y
  BY <1>1 DEF Linked, Once
<1> QED BY <1>1, <1>2, <1>3, <1>4, <1>5, <1>6, <1>7, <1>8

\* A level only depends on the nodes of its queue.
LEMMA GoodFrame ==
    ASSUME NEW pl, NEW new, NEW lv, NEW q, Good(pl, lv, q), \A i \in ToSet(q) : new[i] = pl[i]
    PROVE  Good(new, lv, q)
<1>1. /\ q \in Seq(Nodes) /\ Len(q) \in Nat /\ ToSet(q) = {q[k] : k \in 1..Len(q)}
      /\ ToSet(q) \subseteq Nodes /\ IsFiniteSet(ToSet(q))
  BY GoodFacts
<1>2. \A k \in 1..Len(q) : new[q[k]] = pl[q[k]]
  BY <1>1
<1>3. Linked(new, lv.head, q)
  <2>1. Linked(pl, lv.head, q)
    BY DEF Good
  <2>2. Len(q) > 0 => new[q[Len(q)]] = pl[q[Len(q)]]
    BY <1>1, <1>2
  <2>3. \A x \in 1..(Len(q) - 1) : new[q[x]] = pl[q[x]]
    BY <1>1, <1>2
  <2> QED BY <2>1, <2>2, <2>3 DEF Linked
<1>4. VolumeIn(new, ToSet(q)) = VolumeIn(pl, ToSet(q))
  <2> DEFINE f == [i \in Nodes |-> pl[i].volume]
             g == [i \in Nodes |-> new[i].volume]
  <2>1. \A i \in ToSet(q) : g[i] = f[i]
    BY <1>1
  <2> HIDE DEF f, g
  <2>2. SumFunctionOnSet(g, ToSet(q)) = SumFunctionOnSet(f, ToSet(q))
    BY <1>1, <2>1, SumSame
  <2> QED BY <2>2 DEF VolumeIn, f, g
<1>5. \A x, y \in 1..Len(q) : x < y => new[q[x]].order_id < new[q[y]].order_id
  BY <1>2 DEF Good
<1> QED BY <1>3, <1>4, <1>5 DEF Good

LEMMA GoodNew == ASSUME NEW pl, NEW p \in Nat PROVE Good(pl, NewLevel(p), <<>>)
<1>1. <<>> \in Seq(Nodes) /\ Len(<<>>) = 0 /\ ToSet(<<>>) = {}
  BY DEF ToSet
<1>2. VolumeIn(pl, ToSet(<<>>)) = 0
  BY <1>1, SumEmpty DEF VolumeIn
<1>3. 1..Len(<<>>) = {} /\ 1..(Len(<<>>) - 1) = {}
  BY <1>1
<1>4. NewLevel(p) \in Level
  BY NewLevelType
<1> QED BY <1>1, <1>2, <1>3, <1>4 DEF Good, Linked, Once, NewLevel, NULL

\* Volumes of some nodes.
LEMMA VolumeFacts ==
    ASSUME NEW pl \in [Nodes -> Node], NEW T \in SUBSET Nodes, IsFiniteSet(T), NEW i \in T
    PROVE  /\ VolumeIn(pl, T) \in Nat /\ VolumeIn(pl, T \ {i}) \in Nat /\ pl[i].volume \in Nat
           /\ VolumeIn(pl, T) = pl[i].volume + VolumeIn(pl, T \ {i})
<1> DEFINE f == [j \in Nodes |-> pl[j].volume]
<1>1. \A j \in Nodes : f[j] \in Nat /\ f[j] = pl[j].volume
  BY DEF Node
<1> HIDE DEF f
<1>2. IsFiniteSet(T \ {i})
  BY FS_Subset
<1>3. \A j \in T : f[j] \in Nat
  BY <1>1
<1>4. SumFunctionOnSet(f, T) \in Nat
  BY <1>3, SumIsNat
<1>5. SumFunctionOnSet(f, T \ {i}) \in Nat
  BY <1>2, <1>3, SumIsNat
<1>6. SumFunctionOnSet(f, T) = f[i] + SumFunctionOnSet(f, T \ {i})
  BY <1>3, SumRemove
<1>7. i \in Nodes
  OBVIOUS
<1> QED BY <1>1, <1>4, <1>5, <1>6, <1>7 DEF VolumeIn, f

LEMMA VolumeFrame ==
    ASSUME NEW pl, NEW new, NEW T \in SUBSET Nodes, IsFiniteSet(T),
           \A i \in T : new[i].volume = pl[i].volume
    PROVE  VolumeIn(new, T) = VolumeIn(pl, T)
<1> DEFINE f == [i \in Nodes |-> pl[i].volume]
           g == [i \in Nodes |-> new[i].volume]
<1>1. \A i \in T : g[i] = f[i]
  OBVIOUS
<1> HIDE DEF f, g
<1>2. SumFunctionOnSet(g, T) = SumFunctionOnSet(f, T)
  BY <1>1, SumSame
<1> QED BY <1>2 DEF VolumeIn, f, g

\* The pool after add_limit has linked node idx behind tail.
Put(pl, tail, idx, node) ==
    [i \in Nodes |-> IF i = idx THEN node
                     ELSE IF i = tail THEN [pl[i] EXCEPT !.next = idx] ELSE pl[i]]

LEMMA GoodAppend ==
    ASSUME NEW pl \in [Nodes -> Node], NEW lv, NEW q, Good(pl, lv, q),
           NEW idx \in Nodes \ ToSet(q), NEW node \in Node, node.next = NULL,
           \A i \in ToSet(q) : pl[i].order_id < node.order_id
    PROVE  Good(Put(pl, lv.tail, idx, node), AppendOrder(lv, idx, node.volume), Append(q, idx))
<1> DEFINE n == Len(q)
           q2 == Append(q, idx)
           new == Put(pl, lv.tail, idx, node)
           lv2 == AppendOrder(lv, idx, node.volume)
<1>1. /\ q \in Seq(Nodes) /\ n \in Nat /\ ToSet(q) = {q[k] : k \in 1..n}
      /\ ToSet(q) \subseteq Nodes /\ IsFiniteSet(ToSet(q)) /\ NULL \notin ToSet(q)
      /\ \A x, y \in 1..n : q[x] = q[y] => x = y /\ NULL \notin Nodes
  BY GoodFacts
<1>2. /\ q2 \in Seq(Nodes) /\ Len(q2) = n + 1 /\ q2[n + 1] = idx
      /\ \A k \in 1..n : q2[k] = q[k] /\ q[k] \in Nodes /\ q[k] # idx
  BY <1>1
<1>3. /\ lv \in Level /\ lv.count = n /\ lv.tail = (IF n = 0 THEN NULL ELSE q[n])
      /\ lv.total_volume = VolumeIn(pl, ToSet(q)) /\ Linked(pl, lv.head, q)
  BY DEF Good
<1>4. /\ lv2 \in Level /\ lv2.count = n + 1 /\ lv2.tail = idx
      /\ lv2.head = (IF n = 0 THEN idx ELSE lv.head)
      /\ lv2.total_volume = lv.total_volume + node.volume
  <2>1. lv.tail = NULL <=> n = 0
    <3>1. n # 0 => q[n] # NULL
      BY <1>1
    <3> QED BY <1>3, <3>1
  <2>2. node.volume \in Nat
    BY DEF Node
  <2>3. /\ lv2.count = lv.count + 1 /\ lv2.tail = idx
        /\ lv2.head = (IF lv.tail = NULL THEN idx ELSE lv.head)
        /\ lv2.total_volume = lv.total_volume + node.volume
        /\ lv2 \in Level
    <3> DEFINE h == IF lv.tail = NULL THEN idx ELSE lv.head
               w == lv.total_volume + node.volume
               c == lv.count + 1
    <3>1. h \in {NULL} \cup Nodes /\ idx \in {NULL} \cup Nodes /\ w \in Int /\ c \in Int
      BY <1>3, <2>2 DEF Level
    <3>2. lv2 = [lv EXCEPT !.head = h, !.tail = idx, !.total_volume = w, !.count = c]
      BY DEF AppendOrder
    <3> HIDE DEF h, w, c, lv2
    <3>3. lv2 \in Level /\ lv2.head = h /\ lv2.tail = idx /\ lv2.total_volume = w /\ lv2.count = c
      <4>1. lv \in Level
        BY <1>3
      <4> QED BY <3>1, <3>2, <4>1 DEF Level
    <3> QED BY <3>3 DEF h, w, c
  <2> HIDE DEF lv2
  <2> QED BY <1>3, <2>1, <2>3
<1>5. /\ new[idx] = node
      /\ \A i \in Nodes \ {idx} : new[i].volume = pl[i].volume /\ new[i].order_id = pl[i].order_id
      /\ \A i \in Nodes \ {idx, lv.tail} : new[i] = pl[i]
      /\ lv.tail \in Nodes /\ lv.tail # idx => new[lv.tail].next = idx
  <2>1. \A i \in Nodes : pl[i] \in Node
    OBVIOUS
  <2>2. \A i \in Nodes : new[i] = IF i = idx THEN node
                     ELSE IF i = lv.tail THEN [pl[i] EXCEPT !.next = idx] ELSE pl[i]
    BY DEF Put
  <2> HIDE DEF new
  <2> QED BY <2>1, <2>2 DEF Node
<1> HIDE DEF q2, new, lv2
<1>6. Linked(new, lv2.head, q2)
  <2>1. Once(q2)
    <3> SUFFICES ASSUME NEW x \in 1..(n + 1), NEW y \in 1..(n + 1), q2[x] = q2[y] PROVE x = y
      BY <1>2 DEF Once
    <3>1. (x \in 1..n \/ x = n + 1) /\ (y \in 1..n \/ y = n + 1)
      BY <1>1
    <3> QED BY <1>1, <1>2, <3>1
  <2>2. new[q2[n + 1]].next = NULL
    BY <1>2, <1>5
  <2>3. lv2.head = q2[1]
    <3>1. CASE n = 0
      BY <1>2, <1>4, <3>1
    <3>2. CASE n > 0
      BY <1>1, <1>2, <1>3, <1>4, <3>2 DEF Linked
    <3> QED BY <1>1, <3>1, <3>2
  <2>4. ASSUME NEW x \in 1..n PROVE new[q2[x]].next = q2[x + 1]
    <3>1. CASE x = n
      <4>1. lv.tail = q[n] /\ q[n] \in Nodes /\ q[n] # idx /\ q2[x] = q[n] /\ q2[x + 1] = idx
        BY <1>1, <1>2, <1>3, <3>1
      <4> QED BY <1>5, <4>1
    <3>2. CASE x < n
      <4>1. x \in 1..(n - 1) /\ x + 1 \in 1..n /\ n \in 1..n /\ n # 0 /\ x # n
        BY <1>1, <3>2
      <4>2. q[x] \in Nodes /\ q[x] # idx /\ q[x] # lv.tail
        BY <1>1, <1>2, <1>3, <4>1
      <4>3. new[q[x]] = pl[q[x]] /\ pl[q[x]].next = q[x + 1]
        BY <1>3, <1>5, <4>1, <4>2 DEF Linked
      <4> QED BY <1>2, <4>1, <4>3
    <3> QED BY <1>1, <3>1, <3>2
  <2>5. Len(q2) > 0 /\ Len(q2) # 0 /\ Len(q2) - 1 = n
    BY <1>1, <1>2
  <2> QED BY <1>2, <2>1, <2>2, <2>3, <2>4, <2>5 DEF Linked
<1>7. ToSet(q2) = ToSet(q) \cup {idx}
  <2>1. ToSet(q2) = {q2[k] : k \in 1..(n + 1)}
    BY <1>2, ToSetIs
  <2>2. \A k \in 1..(n + 1) : k \in 1..n \/ k = n + 1
    BY <1>1
  <2>3. n + 1 \in 1..(n + 1) /\ \A k \in 1..n : k \in 1..(n + 1)
    BY <1>1
  <2> QED BY <1>1, <1>2, <2>1, <2>2, <2>3
<1>8. new \in [Nodes -> Node]
  <2>1. \A i \in Nodes : i = lv.tail => [pl[i] EXCEPT !.next = idx] \in Node
    BY DEF Node
  <2> QED BY <2>1 DEF new, Put
<1>9. lv2.total_volume = VolumeIn(new, ToSet(q2))
  <2> DEFINE T == ToSet(q2)
  <2>1. T \in SUBSET Nodes /\ IsFiniteSet(T) /\ idx \in T /\ T \ {idx} = ToSet(q)
    <3>1. IsFiniteSet(T)
      BY <1>2, ToSetIs
    <3> HIDE DEF T
    <3>2. T = ToSet(q) \cup {idx} /\ idx \notin ToSet(q) /\ idx \in Nodes
      BY <1>7 DEF T
    <3> QED BY <1>1, <3>1, <3>2
  <2> HIDE DEF T
  <2>2. VolumeIn(new, T) = new[idx].volume + VolumeIn(new, T \ {idx})
    BY <1>8, <2>1, VolumeFacts
  <2>3. VolumeIn(new, ToSet(q)) = VolumeIn(pl, ToSet(q))
    <3>1. \A i \in ToSet(q) : new[i].volume = pl[i].volume
      BY <1>1, <1>5
    <3> QED BY <1>1, <3>1, VolumeFrame
  <2>4. VolumeIn(new, T \ {idx}) \in Nat /\ new[idx].volume \in Nat
    BY <1>8, <2>1, VolumeFacts
  <2>5. VolumeIn(new, T) = node.volume + VolumeIn(pl, ToSet(q))
    BY <1>5, <2>1, <2>2, <2>3
  <2>6. lv2.total_volume = VolumeIn(pl, ToSet(q)) + node.volume
    BY <1>3, <1>4
  <2>7. VolumeIn(pl, ToSet(q)) \in Nat /\ node.volume \in Nat
    BY <1>5, <2>1, <2>3, <2>4
  <2> QED BY <2>5, <2>6, <2>7 DEF T
<1>10. ASSUME NEW x \in 1..(n + 1), NEW y \in 1..(n + 1), x < y
       PROVE  new[q2[x]].order_id < new[q2[y]].order_id
  <2>1. x \in 1..n
    BY <1>1, <1>10
  <2>2. new[q2[x]].order_id = pl[q[x]].order_id /\ q[x] \in ToSet(q)
    BY <1>1, <1>2, <1>5, <2>1
  <2>3. CASE y = n + 1
    BY <1>2, <1>5, <2>2, <2>3
  <2>4. CASE y \in 1..n
    <3>1. new[q2[y]].order_id = pl[q[y]].order_id
      BY <1>2, <1>5, <2>4
    <3> QED BY <1>10, <2>1, <2>2, <2>4, <3>1 DEF Good
  <2> QED BY <1>1, <2>3, <2>4
<1>11. lv2.tail = (IF Len(q2) = 0 THEN NULL ELSE q2[Len(q2)]) /\ lv2.count = Len(q2)
  BY <1>1, <1>2, <1>4
<1>12. Good(new, lv2, q2)
  BY <1>2, <1>4, <1>6, <1>9, <1>10, <1>11 DEF Good
<1> QED BY <1>12 DEF new, lv2, q2

\* The pool after node cur between prev and nxt was unlinked and released.
Unlink(pl, cur, prev, nxt) ==
    [i \in Nodes |-> IF i = cur THEN FreeNode
                     ELSE IF i = prev THEN [pl[i] EXCEPT !.next = nxt] ELSE pl[i]]

Shorter(lv, cur, prev, nxt, v) ==
    [lv EXCEPT !.head = IF prev = NULL THEN nxt ELSE @,
               !.tail = TailAfter(lv, cur, prev),
               !.total_volume = @ - v,
               !.count = @ - 1]

\* The node before place pos of a queue.
Before(q, pos) == IF pos = 1 THEN NULL ELSE q[pos - 1]

LEMMA FreeNodeType == FreeNode \in Node /\ FreeNode.next = NULL /\ FreeNode.volume = 0
BY DEF FreeNode, Node, NULL

LEMMA GoodUnlink ==
    ASSUME NEW pl \in [Nodes -> Node], NEW lv, NEW q, Good(pl, lv, q), NEW pos \in 1..Len(q),
           NEW cur, cur = q[pos], NEW prev, prev = Before(q, pos)
    PROVE  LET new == Unlink(pl, cur, prev, pl[cur].next)
               lv2 == Shorter(lv, cur, prev, pl[cur].next, pl[cur].volume)
               q2  == RemoveAt(q, pos)
           IN  /\ Good(new, lv2, q2) /\ new \in [Nodes -> Node]
               /\ ToSet(q2) = ToSet(q) \ {cur} /\ lv2.price_fp = lv.price_fp
<1> USE DEF Before
<1> DEFINE n == Len(q)
           q2 == RemoveAt(q, pos)
           nxt == pl[cur].next
           v == pl[cur].volume
           new == Unlink(pl, cur, prev, nxt)
           lv2 == Shorter(lv, cur, prev, nxt, v)
<1>1. /\ q \in Seq(Nodes) /\ n \in Nat /\ ToSet(q) = {q[k] : k \in 1..n}
      /\ ToSet(q) \subseteq Nodes /\ IsFiniteSet(ToSet(q)) /\ NULL \notin Nodes
      /\ \A x, y \in 1..n : q[x] = q[y] => x = y
      /\ \A x \in 1..n : q[x] \in Nodes /\ q[x] # NULL
  BY GoodFacts
<1>2. /\ q2 \in Seq(Nodes) /\ Len(q2) = n - 1 /\ pos \in Nat /\ pos >= 1 /\ pos <= n
      /\ \A k \in 1..(n - 1) : q2[k] = IF k < pos THEN q[k] ELSE q[k + 1]
  <2>1. q \in Seq(Nodes) /\ pos \in 1..Len(q) /\ n \in Nat
    BY <1>1
  <2>2. /\ q2 \in Seq(Nodes) /\ Len(q2) = n - 1
        /\ \A k \in 1..Len(q2) : q2[k] = IF k < pos THEN q[k] ELSE q[k + 1]
    BY <2>1, Removed
  <2> HIDE DEF q2
  <2> QED BY <2>1, <2>2
<1>3. /\ lv \in Level /\ lv.count = n /\ lv.tail = q[n]
      /\ lv.total_volume = VolumeIn(pl, ToSet(q)) /\ Linked(pl, lv.head, q)
      /\ lv.head = q[1] /\ pl[q[n]].next = NULL
      /\ \A x \in 1..(n - 1) : pl[q[x]].next = q[x + 1]
  <2>1. Len(q) > 0 /\ Len(q) # 0
    BY <1>1, <1>2
  <2>2. /\ lv \in Level /\ lv.count = Len(q) /\ Linked(pl, lv.head, q)
        /\ lv.tail = (IF Len(q) = 0 THEN NULL ELSE q[Len(q)])
        /\ lv.total_volume = VolumeIn(pl, ToSet(q))
    BY Zenon DEF Good
  <2>3. /\ Len(q) > 0 => lv.head = q[1] /\ pl[q[Len(q)]].next = NULL
        /\ \A x \in 1..(Len(q) - 1) : pl[q[x]].next = q[x + 1]
    BY <2>2, Zenon DEF Linked
  <2> QED BY <2>1, <2>2, <2>3, Zenon
<1>4. nxt = IF pos = n THEN NULL ELSE q[pos + 1]
  <2>1. pos # n => pos \in 1..(n - 1)
    BY <1>1, <1>2
  <2> QED BY <1>3, <2>1
<1>5. cur \in Nodes /\ nxt \in {NULL} \cup Nodes /\ v \in Nat /\ prev \in {NULL} \cup Nodes
  <2>1. cur \in Nodes /\ pl[cur] \in Node
    BY <1>1
  <2>2. pos # 1 => pos - 1 \in 1..n
    BY <1>1, <1>2
  <2> QED BY <1>1, <2>1, <2>2 DEF Node
<1>6. /\ new[cur] = FreeNode /\ new \in [Nodes -> Node]
      /\ \A i \in Nodes \ {cur} : new[i].volume = pl[i].volume /\ new[i].order_id = pl[i].order_id
      /\ \A i \in Nodes \ {cur, prev} : new[i] = pl[i]
      /\ prev \in Nodes \ {cur} => new[prev].next = nxt
  <2>1. \A i \in Nodes : pl[i] \in Node /\ FreeNode \in Node
    BY FreeNodeType
  <2>2. \A i \in Nodes : new[i] = IF i = cur THEN FreeNode
                     ELSE IF i = prev THEN [pl[i] EXCEPT !.next = nxt] ELSE pl[i]
    BY DEF Unlink
  <2>3. ASSUME NEW i \in Nodes PROVE [pl[i] EXCEPT !.next = nxt] \in Node
    <3> DEFINE m == pl[i]
    <3>1. m \in Node /\ nxt \in {NULL} \cup Nodes
      BY <1>5, <2>1
    <3> HIDE DEF nxt, m
    <3>2. [m EXCEPT !.next = nxt] \in Node
      BY <3>1 DEF Node
    <3> QED BY <3>2 DEF m
  <2>4. new \in [Nodes -> Node]
    BY <2>1, <2>3 DEF Unlink
  <2> HIDE DEF new, nxt
  <2> QED BY <1>5, <2>1, <2>2, <2>4 DEF Node
<1>7. /\ lv2 \in Level /\ lv2.count = n - 1 /\ lv2.price_fp = lv.price_fp
      /\ lv2.head = (IF pos = 1 THEN nxt ELSE lv.head)
      /\ lv2.tail = (IF pos = n THEN prev ELSE lv.tail)
      /\ lv2.total_volume = lv.total_volume - v
  <2> DEFINE h == IF prev = NULL THEN nxt ELSE lv.head
             t == TailAfter(lv, cur, prev)
             w == lv.total_volume - v
             c == lv.count - 1
  <2>1. lv2 = [lv EXCEPT !.head = h, !.tail = t, !.total_volume = w, !.count = c]
    BY DEF Shorter
  <2>2. h = (IF pos = 1 THEN nxt ELSE lv.head)
    <3>1. pos # 1 => pos - 1 \in 1..n
      BY <1>1, <1>2
    <3> QED BY <1>1, <3>1
  <2>3. t = (IF pos = n THEN prev ELSE lv.tail)
    <3>1. n \in 1..n /\ pos \in 1..n
      BY <1>1, <1>2
    <3>2. q[n] = cur <=> pos = n
      BY <1>1, <3>1
    <3> QED BY <1>3, <3>2 DEF TailAfter
  <2>4. h \in {NULL} \cup Nodes /\ t \in {NULL} \cup Nodes /\ w \in Int /\ c \in Int
    BY <1>3, <1>5, <2>2, <2>3 DEF Level
  <2> HIDE DEF h, t, w, c, lv2
  <2>5. /\ lv2 \in Level /\ lv2.price_fp = lv.price_fp /\ lv2.head = h /\ lv2.tail = t
        /\ lv2.total_volume = w /\ lv2.count = c
    <3>1. lv \in Level
      BY <1>3
    <3> QED BY <2>1, <2>4, <3>1 DEF Level
  <2> QED BY <1>3, <2>2, <2>3, <2>5 DEF w, c
<1> HIDE DEF q2, new, lv2, nxt, v
<1>8. ASSUME NEW k \in 1..(n - 1)
      PROVE  /\ q2[k] \in ToSet(q) /\ q2[k] # cur /\ q2[k] \in Nodes
             /\ k # pos - 1 => new[q2[k]] = pl[q2[k]]
             /\ k = pos - 1 => q2[k] = prev /\ new[q2[k]].next = nxt
             /\ k < pos => k \in 1..n /\ q2[k] = q[k]
             /\ ~(k < pos) => k + 1 \in 1..n /\ q2[k] = q[k + 1]
  <2>1. /\ k < pos => k \in 1..n /\ q2[k] = q[k]
        /\ ~(k < pos) => k + 1 \in 1..n /\ q2[k] = q[k + 1] /\ k + 1 > pos /\ k >= pos
    BY <1>1, <1>2
  <2>2. q2[k] \in ToSet(q) /\ q2[k] \in Nodes
    BY <1>1, <2>1
  <2>3. q2[k] # cur
    BY <1>1, <1>2, <2>1
  <2>4. k = pos - 1 => k < pos /\ pos # 1 /\ q2[k] = prev
    <3>1. k = pos - 1 => k < pos /\ pos # 1
      BY <1>1, <1>2
    <3> QED BY <2>1, <3>1
  <2>5. k # pos - 1 => q2[k] # prev
    <3>1. CASE pos = 1
      BY <1>1, <2>2, <3>1
    <3>2. CASE pos # 1
      <4>1. pos - 1 \in 1..n /\ prev = q[pos - 1]
        BY <1>1, <1>2, <3>2
      <4>2. k # pos - 1 => (k < pos => k # pos - 1) /\ (~(k < pos) => k + 1 # pos - 1)
        BY <1>1, <1>2
      <4> QED BY <1>1, <2>1, <4>1, <4>2
    <3> QED BY <3>1, <3>2
  <2> QED BY <1>6, <2>1, <2>2, <2>3, <2>4, <2>5
<1>9. Linked(new, lv2.head, q2)
  <2>1. Once(q2)
    <3> SUFFICES ASSUME NEW x \in 1..(n - 1), NEW y \in 1..(n - 1), q2[x] = q2[y] PROVE x = y
      BY <1>2 DEF Once
    <3> DEFINE a == IF x < pos THEN x ELSE x + 1
               b == IF y < pos THEN y ELSE y + 1
    <3>1. q2[x] = q[a] /\ q2[y] = q[b]
      BY <1>2
    <3>2. a \in 1..n /\ b \in 1..n /\ (a = b => x = y)
      BY <1>1, <1>2
    <3> HIDE DEF a, b
    <3> QED BY <1>1, <3>1, <3>2
  <2>2. Len(q2) = 0 => lv2.head = NULL
    <3>1. ASSUME Len(q2) = 0 PROVE pos = 1 /\ pos = n
      <4>1. n - 1 = 0 /\ n \in Nat /\ pos \in Nat /\ pos >= 1 /\ pos <= n
        BY <1>1, <1>2, <3>1
      <4> HIDE DEF n
      <4> QED BY <4>1
    <3> QED BY <1>4, <1>7, <3>1
  <2>3. ASSUME Len(q2) > 0 PROVE lv2.head = q2[1] /\ new[q2[n - 1]].next = NULL
    <3>1. 1 \in 1..(n - 1) /\ n - 1 \in 1..(n - 1) /\ n > 1
      BY <1>1, <1>2, <2>3
    <3>2. lv2.head = q2[1]
      <4>1. CASE pos = 1
        <5>1. pos # n /\ ~(1 < pos)
          BY <1>1, <3>1, <4>1
        <5> QED BY <1>4, <1>7, <1>8, <3>1, <4>1, <5>1
      <4>2. CASE pos # 1
        <5>1. 1 < pos
          BY <1>2, <4>2
        <5> QED BY <1>3, <1>7, <1>8, <3>1, <4>2, <5>1
      <4> QED BY <4>1, <4>2
    <3>3. new[q2[n - 1]].next = NULL
      <4>1. CASE pos = n
        BY <1>4, <1>8, <3>1, <4>1
      <4>2. CASE pos # n
        <5>1. ~(n - 1 < pos) /\ n - 1 # pos - 1 /\ (n - 1) + 1 = n
          BY <1>1, <1>2, <4>2
        <5>2. q2[n - 1] = q[n] /\ new[q2[n - 1]] = pl[q2[n - 1]]
          BY <1>8, <3>1, <5>1
        <5> QED BY <1>3, <5>2
      <4> QED BY <4>1, <4>2
    <3> QED BY <3>2, <3>3
  <2>4. ASSUME NEW x \in 1..(n - 2) PROVE new[q2[x]].next = q2[x + 1]
    <3>1. x \in 1..(n - 1) /\ x + 1 \in 1..(n - 1) /\ x \in Nat
      BY <1>1
    <3>2. CASE x = pos - 1
      <4>1. x + 1 = pos /\ pos # n /\ ~(x + 1 < pos)
        BY <1>1, <1>2, <3>1, <3>2
      <4>2. q2[x + 1] = q[pos + 1]
        BY <1>8, <3>1, <4>1
      <4>3. new[q2[x]].next = nxt
        BY <1>8, <3>1, <3>2
      <4> QED BY <1>4, <4>1, <4>2, <4>3
    <3>3. CASE x < pos - 1
      <4>1. x < pos /\ x + 1 < pos /\ x # pos - 1
        BY <1>2, <3>1, <3>3
      <4>2. q2[x] = q[x] /\ q2[x + 1] = q[x + 1] /\ new[q2[x]] = pl[q2[x]]
        BY <1>8, <3>1, <4>1
      <4> QED BY <1>3, <3>1, <4>2
    <3>4. CASE x > pos - 1
      <4>1. ~(x < pos) /\ ~(x + 1 < pos) /\ x # pos - 1
        BY <1>2, <3>1, <3>4
      <4>2. q2[x] = q[x + 1] /\ q2[x + 1] = q[(x + 1) + 1] /\ new[q2[x]] = pl[q2[x]]
        BY <1>8, <3>1, <4>1
      <4> QED BY <1>3, <3>1, <4>2
    <3> QED BY <1>2, <3>1, <3>2, <3>3, <3>4
  <2>5. Len(q2) - 1 = n - 2
    BY <1>1, <1>2
  <2> QED BY <1>2, <2>1, <2>2, <2>3, <2>4, <2>5 DEF Linked
<1>10. ToSet(q2) = ToSet(q) \ {cur}
  <2>1. ToSet(q2) = {q2[k] : k \in 1..(n - 1)}
    BY <1>2, ToSetIs
  <2>2. ToSet(q2) \subseteq ToSet(q) \ {cur}
    BY <1>8, <2>1
  <2>3. ASSUME NEW k \in 1..n, q[k] # cur PROVE q[k] \in ToSet(q2)
    <3>1. k # pos
      BY <2>3
    <3>2. CASE k < pos
      <4>1. k \in 1..(n - 1)
        BY <1>1, <1>2, <3>2
      <4> QED BY <1>8, <2>1, <3>2, <4>1
    <3>3. CASE k > pos
      <4>1. k - 1 \in 1..(n - 1) /\ ~(k - 1 < pos) /\ (k - 1) + 1 = k
        BY <1>1, <1>2, <3>3
      <4>2. q2[k - 1] = q[k]
        BY <1>8, <4>1
      <4> QED BY <2>1, <4>1, <4>2
    <3> QED BY <1>1, <1>2, <3>1, <3>2, <3>3
  <2>4. ToSet(q) \ {cur} \subseteq ToSet(q2)
    BY <1>1, <2>3
  <2> QED BY <2>2, <2>4
<1>11. lv2.total_volume = VolumeIn(new, ToSet(q2))
  <2> DEFINE T == ToSet(q)
             u == VolumeIn(pl, T \ {cur})
  <2>1. T \in SUBSET Nodes /\ IsFiniteSet(T) /\ cur \in T
    BY <1>1, <1>2
  <2>2. VolumeIn(pl, T) = v + u /\ u \in Nat
    <3> HIDE DEF T
    <3> QED BY <2>1, VolumeFacts DEF v
  <2>3. VolumeIn(new, T \ {cur}) = u
    <3>1. IsFiniteSet(T \ {cur}) /\ T \ {cur} \in SUBSET Nodes
      BY <2>1, FS_Subset
    <3>2. \A i \in T \ {cur} : new[i].volume = pl[i].volume
      BY <1>6, <2>1
    <3> HIDE DEF T
    <3> QED BY <3>1, <3>2, VolumeFrame
  <2>4. lv2.total_volume = VolumeIn(pl, T) - v
    BY <1>3, <1>7
  <2> HIDE DEF u
  <2> QED BY <1>5, <1>10, <2>2, <2>3, <2>4
<1>12. ASSUME NEW x \in 1..(n - 1), NEW y \in 1..(n - 1), x < y
       PROVE  new[q2[x]].order_id < new[q2[y]].order_id
  <2> DEFINE a == IF x < pos THEN x ELSE x + 1
             b == IF y < pos THEN y ELSE y + 1
  <2>1. q2[x] = q[a] /\ q2[y] = q[b]
    BY <1>2
  <2>2. a \in 1..n /\ b \in 1..n /\ a < b
    BY <1>1, <1>2, <1>12
  <2> HIDE DEF a, b
  <2>3. pl[q[a]].order_id < pl[q[b]].order_id
    BY <2>2 DEF Good
  <2>4. q2[x] \in Nodes \ {cur} /\ q2[y] \in Nodes \ {cur}
    BY <1>8
  <2> QED BY <1>6, <2>1, <2>3, <2>4
<1>13. lv2.tail = (IF Len(q2) = 0 THEN NULL ELSE q2[Len(q2)])
  <2>1. CASE n = 1
    <3>1. pos = 1 /\ pos = n /\ Len(q2) = 0
      BY <1>1, <1>2, <2>1
    <3> QED BY <1>7, <3>1
  <2>2. CASE n # 1
    <3>1. n - 1 \in 1..(n - 1) /\ Len(q2) # 0
      BY <1>1, <1>2, <2>2
    <3>2. CASE pos = n
      BY <1>2, <1>7, <1>8, <3>1, <3>2
    <3>3. CASE pos # n
      <4>1. ~(n - 1 < pos) /\ (n - 1) + 1 = n
        BY <1>1, <1>2, <3>3
      <4>2. q2[n - 1] = q[n]
        BY <1>8, <3>1, <4>1
      <4> QED BY <1>2, <1>3, <1>7, <3>1, <3>3, <4>2
    <3> QED BY <3>2, <3>3
  <2> QED BY <2>1, <2>2
<1>14. Good(new, lv2, q2)
  BY <1>2, <1>7, <1>9, <1>11, <1>12, <1>13 DEF Good
<1> QED BY <1>6, <1>7, <1>10, <1>14 DEF new, lv2, q2, nxt, v

\* The pool and the level after a partial fill.
Filled(pl, i, left) == [pl EXCEPT ![i] = [@ EXCEPT !.volume = left]]
Lighter(lv, v) == [lv EXCEPT !.total_volume = @ - v]

LEMMA GoodFill ==
    ASSUME NEW pl \in [Nodes -> Node], NEW lv, NEW q, Good(pl, lv, q), q # <<>>, NEW v \in Nat,
           NEW left \in Nat, left = pl[q[1]].volume - v
    PROVE  LET new == Filled(pl, q[1], left)
               lv2 == Lighter(lv, v)
           IN  Good(new, lv2, q) /\ new \in [Nodes -> Node] /\ lv2.price_fp = lv.price_fp
<1> DEFINE i == q[1]
           nd == [pl[i] EXCEPT !.volume = left]
           new == [pl EXCEPT ![i] = nd]
           lv2 == [lv EXCEPT !.total_volume = lv.total_volume - v]
           n == Len(q)
<1>1. /\ q \in Seq(Nodes) /\ n \in Nat /\ ToSet(q) = {q[k] : k \in 1..n}
      /\ ToSet(q) \subseteq Nodes /\ IsFiniteSet(ToSet(q))
      /\ \A x \in 1..n : q[x] \in Nodes
  BY GoodFacts
<1>2. i \in Nodes /\ i \in ToSet(q)
  <2>1. 1 \in 1..n
    BY <1>1
  <2> QED BY <1>1, <2>1
<1>3. /\ nd \in Node /\ nd.volume = left /\ nd.next = pl[i].next
      /\ nd.order_id = pl[i].order_id
  <2>1. pl[i] \in Node
    BY <1>2
  <2> QED BY <2>1 DEF Node
<1> HIDE DEF nd, i
<1>4. new \in [Nodes -> Node]
  BY <1>2, <1>3
<1>5. \A j \in Nodes : /\ new[j].next = pl[j].next /\ new[j].order_id = pl[j].order_id
                       /\ new[j].volume = IF j = i THEN left ELSE pl[j].volume
  BY <1>2, <1>3
<1>6. /\ lv \in Level /\ lv.total_volume = VolumeIn(pl, ToSet(q)) /\ lv.count = n
      /\ Linked(pl, lv.head, q) /\ lv.tail = IF n = 0 THEN NULL ELSE q[n]
  BY DEF Good
<1>7. /\ lv2 \in Level /\ lv2.price_fp = lv.price_fp /\ lv2.head = lv.head
      /\ lv2.tail = lv.tail /\ lv2.count = lv.count
      /\ lv2.total_volume = lv.total_volume - v
  <2>1. lv \in Level /\ lv.total_volume - v \in Int
    BY <1>6 DEF Level
  <2> QED BY <2>1 DEF Level
<1> HIDE DEF new, lv2
<1>8. Linked(new, lv2.head, q)
  <2>1. \A x \in 1..(n - 1) : q[x] \in Nodes
    BY <1>1
  <2>2. n > 0 => q[n] \in Nodes
    BY <1>1
  <2> QED BY <1>5, <1>6, <1>7, <2>1, <2>2 DEF Linked
<1>9. lv2.total_volume = VolumeIn(new, ToSet(q))
  <2> DEFINE T == ToSet(q)
             u == VolumeIn(pl, T \ {i})
  <2>1. T \in SUBSET Nodes /\ IsFiniteSet(T) /\ i \in T
    BY <1>1, <1>2
  <2> HIDE DEF T
  <2>2. VolumeIn(pl, T) = pl[i].volume + u /\ u \in Nat /\ pl[i].volume \in Nat
    BY <2>1, VolumeFacts
  <2>3. VolumeIn(new, T) = new[i].volume + VolumeIn(new, T \ {i})
    BY <1>4, <2>1, VolumeFacts
  <2>4. VolumeIn(new, T \ {i}) = u
    <3>1. IsFiniteSet(T \ {i}) /\ T \ {i} \in SUBSET Nodes
      BY <2>1, FS_Subset
    <3>2. \A j \in T \ {i} : new[j].volume = pl[j].volume
      BY <1>5, <2>1
    <3> QED BY <3>1, <3>2, VolumeFrame
  <2>5. new[i].volume = left /\ left = pl[i].volume - v
    BY <1>2, <1>5 DEF i
  <2>6. lv2.total_volume = VolumeIn(pl, T) - v
    BY <1>6, <1>7 DEF T
  <2> HIDE DEF u
  <2>7. lv2.total_volume = VolumeIn(new, T)
    BY <2>2, <2>3, <2>4, <2>5, <2>6
  <2> QED BY <2>7 DEF T
<1>10. \A x, y \in 1..n : x < y => new[q[x]].order_id < new[q[y]].order_id
  BY <1>1, <1>5 DEF Good
<1>11. Good(new, lv2, q)
  BY <1>6, <1>7, <1>8, <1>9, <1>10 DEF Good
<1> QED BY <1>4, <1>7, <1>11 DEF new, lv2, nd, i, Filled, Lighter

-----------------------------------------------------------------------------
(***************************************************************************)
(* The inductive invariant of the order book.  The operators take the      *)
(* state as arguments, so that they speak of the state before and after a  *)
(* step alike.                                                             *)
(***************************************************************************)

\* Node i rests on side s in the queue of the level with price p.
Rests(pl, sd, s, p, i) ==
    \E lv \in ToSet(sd[s]) : lv.price_fp = p /\ i \in ToSet(Queue(pl, lv.head))

ShapeInv(pl, sd) ==
    /\ pl \in [Nodes -> Node] /\ sd \in [Sides -> Seq(Level)]
    /\ \A s \in Sides : Len(sd[s]) <= MaxLevels /\ Sorted(s, sd[s])
    /\ \A s \in Sides : \A lv \in ToSet(sd[s]) : Good(pl, lv, Queue(pl, lv.head))

\* The nodes that are not on the free stack.
Busy(fs) == Nodes \ ToSet(fs)

PlaceInv(pl, sd, fs) ==
    /\ fs \in Seq(Nodes) /\ Once(fs)
    /\ \A i \in Nodes : \A s, t \in Sides : \A p, r \in Nat :
          Rests(pl, sd, s, p, i) /\ Rests(pl, sd, t, r, i) => s = t /\ p = r
    /\ \A i \in Nodes : i \in Busy(fs) <=> \E s \in Sides : \E p \in Nat : Rests(pl, sd, s, p, i)

OrderInv(pl, fs, nid) ==
    /\ nid \in 1 .. MaxOrders + 1
    /\ \A i \in Busy(fs) : pl[i].order_id \in 1 .. nid - 1
    /\ \A i, j \in Busy(fs) : pl[i].order_id = pl[j].order_id => i = j

Entry == [key : {EMPTY, DELETED} \cup Ids, val : {NULL} \cup Nodes, price_fp : Nat, side : Sides]

\* Probing from id reaches the slot of id before an unused slot.
Chain(om, id) ==
    \E t \in MapSlots : /\ om[Probe(id, t)].key = id
                        /\ \A u \in 0 .. t - 1 : om[Probe(id, u)].key \notin {id, EMPTY}

\* Every used slot describes an order that rests.
SlotsTrue(pl, sd, fs, om) ==
    \A x \in MapSlots : om[x].key \in Ids =>
        /\ om[x].val \in Busy(fs) /\ pl[om[x].val].order_id = om[x].key
        /\ Rests(pl, sd, om[x].side, om[x].price_fp, om[x].val)

MapInv(pl, fs, om) ==
    /\ om \in [MapSlots -> Entry]
    /\ \A x, y \in MapSlots : om[x].key \in Ids /\ om[x].key = om[y].key => x = y
    /\ \A i \in Busy(fs) : Chain(om, pl[i].order_id)

DueInv(pl, fs, du) ==
    /\ du \in [Ids -> Nat]
    /\ \A i \in Busy(fs) : du[pl[i].order_id] = pl[i].volume
    /\ \A id \in Ids : du[id] # 0 => \E i \in Busy(fs) : pl[i].order_id = id

Taker == [side : Sides, remaining : Nat, participant : Int]

BookInv ==
    /\ ShapeInv(pool, sides)
    /\ PlaceInv(pool, sides, free_stack)
    /\ OrderInv(pool, free_stack, next_order_id)
    /\ SlotsTrue(pool, sides, free_stack, order_map)
    /\ MapInv(pool, free_stack, order_map)
    /\ DueInv(pool, free_stack, due)
    /\ taker \in Taker

-----------------------------------------------------------------------------
(* Who rests where, when one level changes *)

LEMMA SamePrice ==
    ASSUME NEW s, NEW lvs \in Seq(Level), Sorted(s, lvs), NEW a \in ToSet(lvs), NEW b \in ToSet(lvs),
           a.price_fp = b.price_fp
    PROVE  a = b
<1>1. ToSet(lvs) = {lvs[k] : k \in 1..Len(lvs)}
  BY ToSetIs
<1>2. PICK j \in 1..Len(lvs) : a = lvs[j]
  BY <1>1
<1>3. PICK k \in 1..Len(lvs) : b = lvs[k]
  BY <1>1
<1> QED BY <1>2, <1>3, PricesDiffer

\* The facts of ShapeInv about one level.
LEMMA ShapeFacts ==
    ASSUME NEW pl, NEW sd, ShapeInv(pl, sd), NEW s \in Sides
    PROVE  /\ pl \in [Nodes -> Node] /\ sd[s] \in Seq(Level) /\ Sorted(s, sd[s])
           /\ Len(sd[s]) <= MaxLevels
           /\ ToSet(sd[s]) = {sd[s][k] : k \in 1..Len(sd[s])}
           /\ \A lv \in ToSet(sd[s]) : lv \in Level /\ lv.price_fp \in Nat
                                       /\ Good(pl, lv, Queue(pl, lv.head))
<1>1. sd[s] \in Seq(Level) /\ pl \in [Nodes -> Node] /\ Sorted(s, sd[s]) /\ Len(sd[s]) <= MaxLevels
  BY DEF ShapeInv
<1>2. ToSet(sd[s]) = {sd[s][k] : k \in 1..Len(sd[s])} /\ ToSet(sd[s]) \subseteq Level
  BY <1>1, ToSetIs
<1>3. \A lv \in ToSet(sd[s]) : lv \in Level /\ lv.price_fp \in Nat
  BY <1>2 DEF Level
<1>4. \A lv \in ToSet(sd[s]) : Good(pl, lv, Queue(pl, lv.head))
  BY DEF ShapeInv
<1> QED BY <1>1, <1>2, <1>3, <1>4

\* The queue of the level with price p is who rests there.
LEMMA RestsAt ==
    ASSUME NEW pl, NEW sd, ShapeInv(pl, sd), NEW s \in Sides, NEW lv \in ToSet(sd[s]), NEW i
    PROVE  Rests(pl, sd, s, lv.price_fp, i) <=> i \in ToSet(Queue(pl, lv.head))
<1>1. \A m \in ToSet(sd[s]) : m.price_fp = lv.price_fp => m = lv
  BY ShapeFacts, SamePrice
<1> QED BY <1>1 DEF Rests

\* The ways in which a step changes who rests where.
Gains(pl, sd, new, sd2, s, p, idx) ==
    \A t \in Sides : \A r \in Nat : \A i \in Nodes :
        Rests(new, sd2, t, r, i) <=> (Rests(pl, sd, t, r, i) \/ (t = s /\ r = p /\ i = idx))

Loses(pl, sd, new, sd2, cur) ==
    \A t \in Sides : \A r \in Nat : \A i \in Nodes :
        Rests(new, sd2, t, r, i) <=> (Rests(pl, sd, t, r, i) /\ i # cur)

Keeps(pl, sd, new, sd2) ==
    \A t \in Sides : \A r \in Nat : \A i \in Nodes :
        Rests(new, sd2, t, r, i) <=> Rests(pl, sd, t, r, i)

\* Outside of the level lv of side s the queues have the same nodes.
Others(pl, new, sd, s, lv) ==
    \A t \in Sides : \A m \in ToSet(sd[t]) :
        (t # s \/ m # lv) => \A i \in ToSet(Queue(pl, m.head)) : new[i] = pl[i]

\* The level arrays sd2 after a change to side s.
SideStep(sd, sd2, s) ==
    /\ sd2 \in [Sides -> Seq(Level)] /\ \A t \in Sides : t # s => sd2[t] = sd[t]
    /\ Len(sd2[s]) <= MaxLevels /\ Sorted(s, sd2[s])

\* Only who rests on side s at price p has changed: now it is T.
Moved(pl, sd, new, sd2, s, p, T) ==
    \A t \in Sides : \A r \in Nat : \A i :
        Rests(new, sd2, t, r, i) <=> IF t = s /\ r = p THEN i \in T ELSE Rests(pl, sd, t, r, i)

\* lv2 takes the place of lv, or lv goes when no order is left.
Exchanged(sd, sd2, s, lv, lv2, q2) ==
    \/ ToSet(sd2[s]) = (ToSet(sd[s]) \ {lv}) \cup {lv2}
    \/ q2 = <<>> /\ ToSet(sd2[s]) = ToSet(sd[s]) \ {lv}

LEMMA SwapLevel ==
    ASSUME NEW pl, NEW sd, NEW new, NEW sd2, NEW s \in Sides,
           new \in [Nodes -> Node], SideStep(sd, sd2, s), ShapeInv(pl, sd), NEW lv \in ToSet(sd[s]),
           NEW lv2, NEW q2, Good(new, lv2, q2), lv2.price_fp = lv.price_fp,
           Others(pl, new, sd, s, lv), Exchanged(sd, sd2, s, lv, lv2, q2)
    PROVE  ShapeInv(new, sd2) /\ Moved(pl, sd, new, sd2, s, lv.price_fp, ToSet(q2))
<1>0. /\ sd2 \in [Sides -> Seq(Level)] /\ \A t \in Sides : t # s => sd2[t] = sd[t]
      /\ Len(sd2[s]) <= MaxLevels /\ Sorted(s, sd2[s])
  BY DEF SideStep
<1>1. ASSUME NEW t \in Sides, NEW m \in ToSet(sd[t]), t # s \/ m # lv
      PROVE  /\ Good(new, m, Queue(new, m.head))
             /\ Queue(new, m.head) = Queue(pl, m.head)
  <2> DEFINE q == Queue(pl, m.head)
  <2>1. Good(pl, m, q)
    BY ShapeFacts
  <2>2. \A i \in ToSet(q) : new[i] = pl[i]
    BY <1>1 DEF Others
  <2> HIDE DEF q
  <2>3. Good(new, m, q)
    BY <2>1, <2>2, GoodFrame
  <2>4. q = Queue(new, m.head)
    BY <2>3, GoodFacts
  <2> QED BY <2>3, <2>4 DEF q
<1>2. q2 = Queue(new, lv2.head)
  BY GoodFacts
<1>3. \A t \in Sides : t # s => ToSet(sd2[t]) = ToSet(sd[t])
  BY <1>0
<1>4. ASSUME NEW t \in Sides, NEW m \in ToSet(sd2[t])
      PROVE  (m \in ToSet(sd[t]) /\ (t # s \/ m # lv)) \/ (t = s /\ m = lv2)
  BY <1>3 DEF Exchanged
<1>5. ShapeInv(new, sd2)
  <2>1. ASSUME NEW t \in Sides PROVE Len(sd2[t]) <= MaxLevels /\ Sorted(t, sd2[t])
    <3>1. CASE t = s
      BY <1>0, <3>1
    <3>2. CASE t # s
      <4>1. sd2[t] = sd[t]
        BY <1>0, <3>2
      <4> QED BY <4>1, ShapeFacts
    <3> QED BY <3>1, <3>2
  <2>2. ASSUME NEW t \in Sides, NEW m \in ToSet(sd2[t]) PROVE Good(new, m, Queue(new, m.head))
    <3>1. CASE t = s /\ m = lv2
      BY <1>2, <3>1
    <3>2. CASE m \in ToSet(sd[t]) /\ (t # s \/ m # lv)
      BY <1>1, <3>2
    <3> QED BY <1>4, <3>1, <3>2
  <2> QED BY <1>0, <2>1, <2>2 DEF ShapeInv
<1>6. ASSUME NEW t \in Sides, NEW r \in Nat, NEW i, t # s \/ r # lv.price_fp
      PROVE  Rests(new, sd2, t, r, i) <=> Rests(pl, sd, t, r, i)
  <2>1. ASSUME NEW m \in ToSet(sd2[t]), m.price_fp = r, i \in ToSet(Queue(new, m.head))
        PROVE  Rests(pl, sd, t, r, i)
    <3>1. m \in ToSet(sd[t]) /\ (t # s \/ m # lv)
      BY <1>4, <1>6, <2>1
    <3>2. Queue(new, m.head) = Queue(pl, m.head)
      BY <1>1, <3>1
    <3> QED BY <2>1, <3>1, <3>2 DEF Rests
  <2>2. ASSUME NEW m \in ToSet(sd[t]), m.price_fp = r, i \in ToSet(Queue(pl, m.head))
        PROVE  Rests(new, sd2, t, r, i)
    <3>1. t # s \/ m # lv
      BY <1>6, <2>2
    <3>2. Queue(new, m.head) = Queue(pl, m.head)
      BY <1>1, <3>1
    <3>3. m \in ToSet(sd2[t])
      BY <1>3, <3>1 DEF Exchanged
    <3> QED BY <2>2, <3>2, <3>3 DEF Rests
  <2> QED BY <2>1, <2>2 DEF Rests
<1>7. ASSUME NEW i PROVE Rests(new, sd2, s, lv.price_fp, i) <=> i \in ToSet(q2)
  <2>1. CASE ToSet(sd2[s]) = (ToSet(sd[s]) \ {lv}) \cup {lv2}
    <3>1. lv2 \in ToSet(sd2[s])
      BY <2>1
    <3>2. Rests(new, sd2, s, lv2.price_fp, i) <=> i \in ToSet(Queue(new, lv2.head))
      BY <1>5, <3>1, RestsAt
    <3> QED BY <1>2, <3>2
  <2>2. CASE q2 = <<>> /\ ToSet(sd2[s]) = ToSet(sd[s]) \ {lv}
    <3>1. ToSet(q2) = {}
      BY <2>2 DEF ToSet
    <3>2. \A m \in ToSet(sd2[s]) : m.price_fp # lv.price_fp
      <4>1. \A m \in ToSet(sd[s]) : m.price_fp = lv.price_fp => m = lv
        BY ShapeFacts, SamePrice
      <4> QED BY <2>2, <4>1
    <3> QED BY <3>1, <3>2 DEF Rests
  <2> QED BY <2>1, <2>2 DEF Exchanged
<1>8. lv.price_fp \in Nat
  BY ShapeFacts
<1>9. ASSUME NEW t \in Sides, NEW r \in Nat, NEW i
      PROVE  Rests(new, sd2, t, r, i) <=>
                    IF t = s /\ r = lv.price_fp THEN i \in ToSet(q2) ELSE Rests(pl, sd, t, r, i)
  <2>1. CASE t = s /\ r = lv.price_fp
    BY <1>7, <2>1
  <2>2. CASE t # s \/ r # lv.price_fp
    BY <1>6, <2>2
  <2> QED BY <2>1, <2>2
<1> QED BY <1>5, <1>9 DEF Moved

\* A new, empty level changes no queue.
LEMMA AddLevel ==
    ASSUME NEW pl, NEW sd, NEW sd2, NEW s \in Sides, NEW p \in Nat,
           ShapeInv(pl, sd), SideStep(sd, sd2, s),
           ToSet(sd2[s]) = ToSet(sd[s]) \cup {NewLevel(p)}
    PROVE  ShapeInv(pl, sd2) /\ Keeps(pl, sd, pl, sd2)
<1>0. /\ sd2 \in [Sides -> Seq(Level)] /\ \A t \in Sides : t # s => sd2[t] = sd[t]
      /\ Len(sd2[s]) <= MaxLevels /\ Sorted(s, sd2[s])
  BY DEF SideStep
<1> DEFINE e == NewLevel(p)
<1>1. Good(pl, e, <<>>)
  BY GoodNew
<1> HIDE DEF e
<1>2. Queue(pl, e.head) = <<>>
  BY <1>1, GoodFacts
<1>3. ToSet(Queue(pl, e.head)) = {}
  BY <1>2 DEF ToSet
<1>4. \A t \in Sides : t # s => ToSet(sd2[t]) = ToSet(sd[t])
  BY <1>0
<1>5. ASSUME NEW t \in Sides
      PROVE  /\ Len(sd2[t]) <= MaxLevels /\ Sorted(t, sd2[t])
             /\ \A m \in ToSet(sd2[t]) : Good(pl, m, Queue(pl, m.head))
  <2>1. CASE t # s
    <3>1. sd2[t] = sd[t]
      BY <1>0, <2>1
    <3> QED BY <3>1, ShapeFacts
  <2>2. CASE t = s
    <3>1. \A m \in ToSet(sd[s]) : Good(pl, m, Queue(pl, m.head))
      BY ShapeFacts
    <3>2. \A m \in ToSet(sd2[s]) : m \in ToSet(sd[s]) \/ m = e
      BY DEF e
    <3> QED BY <1>0, <1>1, <1>2, <2>2, <3>1, <3>2
  <2> QED BY <2>1, <2>2
<1>6. ShapeInv(pl, sd2)
  <2>1. pl \in [Nodes -> Node]
    BY DEF ShapeInv
  <2> QED BY <1>0, <1>5, <2>1 DEF ShapeInv
<1>7. ASSUME NEW t \in Sides, NEW r \in Nat, NEW i \in Nodes
      PROVE  Rests(pl, sd2, t, r, i) <=> Rests(pl, sd, t, r, i)
  <2>1. \A m \in ToSet(sd[t]) : m \in ToSet(sd2[t])
    BY <1>4
  <2>2. \A m \in ToSet(sd2[t]) : m \in ToSet(sd[t]) \/ m = e
    BY <1>4 DEF e
  <2> QED BY <1>3, <2>1, <2>2 DEF Rests
<1> QED BY <1>6, <1>7 DEF Keeps

\* A node is in one queue only, and a free node in none.
LEMMA Apart ==
    ASSUME NEW pl, NEW sd, NEW fs, ShapeInv(pl, sd), PlaceInv(pl, sd, fs),
           NEW t \in Sides, NEW m \in ToSet(sd[t]), NEW i \in ToSet(Queue(pl, m.head))
    PROVE  /\ i \in Nodes /\ i \in Busy(fs) /\ Rests(pl, sd, t, m.price_fp, i)
           /\ \A s \in Sides : \A lv \in ToSet(sd[s]) :
                 (t # s \/ m # lv) => i \notin ToSet(Queue(pl, lv.head))
<1>1. Good(pl, m, Queue(pl, m.head)) /\ m.price_fp \in Nat
  BY ShapeFacts
<1>2. i \in Nodes
  <2>1. ToSet(Queue(pl, m.head)) \subseteq Nodes
    BY <1>1, GoodFacts
  <2> QED BY <2>1
<1>3. Rests(pl, sd, t, m.price_fp, i)
  BY DEF Rests
<1>4. i \in Busy(fs)
  BY <1>1, <1>2, <1>3 DEF PlaceInv
<1>5. ASSUME NEW s \in Sides, NEW lv \in ToSet(sd[s]), i \in ToSet(Queue(pl, lv.head))
      PROVE  t = s /\ m = lv
  <2>1. Rests(pl, sd, s, lv.price_fp, i) /\ lv.price_fp \in Nat
    BY <1>5, ShapeFacts DEF Rests
  <2>2. t = s /\ m.price_fp = lv.price_fp
    BY <1>1, <1>2, <1>3, <2>1 DEF PlaceInv
  <2>3. sd[s] \in Seq(Level) /\ Sorted(s, sd[s])
    BY ShapeFacts
  <2> QED BY <2>2, <2>3, SamePrice
<1> QED BY <1>2, <1>3, <1>4, <1>5

LEMMA AppendStep ==
    ASSUME NEW pl, NEW sd, NEW fs, ShapeInv(pl, sd), PlaceInv(pl, sd, fs),
           NEW s \in Sides, NEW lv \in ToSet(sd[s]), NEW idx \in Nodes \ Busy(fs),
           NEW node \in Node, node.next = NULL, \A i \in Busy(fs) : pl[i].order_id < node.order_id,
           NEW sd2, SideStep(sd, sd2, s),
           ToSet(sd2[s]) = (ToSet(sd[s]) \ {lv}) \cup {AppendOrder(lv, idx, node.volume)}
    PROVE  /\ ShapeInv(Put(pl, lv.tail, idx, node), sd2)
           /\ Gains(pl, sd, Put(pl, lv.tail, idx, node), sd2, s, lv.price_fp, idx)
<1> DEFINE q == Queue(pl, lv.head)
           new == Put(pl, lv.tail, idx, node)
           lv2 == AppendOrder(lv, idx, node.volume)
           q2 == Append(q, idx)
<1>1. pl \in [Nodes -> Node] /\ Good(pl, lv, q) /\ lv \in Level
  BY ShapeFacts
<1> HIDE DEF q
<1>2. idx \notin ToSet(q) /\ \A i \in ToSet(q) : pl[i].order_id < node.order_id
  BY Apart DEF q
<1>3. Good(new, lv2, q2)
  BY <1>1, <1>2, GoodAppend
<1>4. lv2.price_fp = lv.price_fp
  BY <1>1 DEF AppendOrder, Level
<1>5. new \in [Nodes -> Node]
  <2>1. \A i \in Nodes : [pl[i] EXCEPT !.next = idx] \in Node
    BY <1>1 DEF Node
  <2> QED BY <1>1, <2>1 DEF Put
<1>6. q \in Seq(Nodes) /\ ToSet(q) \subseteq Nodes /\ NULL \notin Nodes /\ Len(q) \in Nat
      /\ ToSet(q) = {q[k] : k \in 1..Len(q)}
  BY <1>1, GoodFacts
<1>7. lv.tail = NULL \/ lv.tail \in ToSet(q)
  BY <1>1, <1>6 DEF Good
<1>8. Others(pl, new, sd, s, lv)
  <2> SUFFICES ASSUME NEW t \in Sides, NEW m \in ToSet(sd[t]), t # s \/ m # lv,
                      NEW i \in ToSet(Queue(pl, m.head))
               PROVE  new[i] = pl[i]
    BY DEF Others
  <2>1. i \in Nodes /\ i \in Busy(fs) /\ i \notin ToSet(q)
    BY Apart DEF q
  <2>2. i # idx /\ i # lv.tail
    BY <1>6, <1>7, <2>1
  <2> QED BY <2>1, <2>2 DEF Put
<1>9. ToSet(q2) = ToSet(q) \cup {idx}
  <2>1. q2 \in Seq(Nodes) /\ Len(q2) = Len(q) + 1 /\ q2[Len(q) + 1] = idx
        /\ \A k \in 1..Len(q) : q2[k] = q[k]
    BY <1>6
  <2> HIDE DEF q2
  <2>2. ToSet(q2) = {q2[k] : k \in 1..(Len(q) + 1)}
    BY <2>1, ToSetIs
  <2>3. \A k \in 1..(Len(q) + 1) : k \in 1..Len(q) \/ k = Len(q) + 1
    BY <1>6
  <2>4. Len(q) + 1 \in 1..(Len(q) + 1) /\ \A k \in 1..Len(q) : k \in 1..(Len(q) + 1)
    BY <1>6
  <2> QED BY <1>6, <2>1, <2>2, <2>3, <2>4
<1> HIDE DEF new, lv2, q2
<1>10. ShapeInv(new, sd2) /\ Moved(pl, sd, new, sd2, s, lv.price_fp, ToSet(q2))
  <2>1. Exchanged(sd, sd2, s, lv, lv2, q2)
    BY DEF lv2, Exchanged
  <2> QED BY <1>3, <1>4, <1>5, <1>8, <2>1, SwapLevel
<1>11. \A i : Rests(pl, sd, s, lv.price_fp, i) <=> i \in ToSet(q)
  BY RestsAt DEF q
<1>12. Gains(pl, sd, new, sd2, s, lv.price_fp, idx)
  <2> SUFFICES ASSUME NEW t \in Sides, NEW r \in Nat, NEW i \in Nodes
               PROVE  Rests(new, sd2, t, r, i) <=>
                        (Rests(pl, sd, t, r, i) \/ (t = s /\ r = lv.price_fp /\ i = idx))
    BY DEF Gains
  <2>1. CASE t = s /\ r = lv.price_fp
    BY <1>9, <1>10, <1>11, <2>1 DEF Moved
  <2>2. CASE ~(t = s /\ r = lv.price_fp)
    BY <1>10, <2>2 DEF Moved
  <2> QED BY <2>1, <2>2
<1> QED BY <1>10, <1>12 DEF new

\* Unlinking the node at place pos of the queue q of lv gives new and lv2.
Unlinks(pl, lv, q, pos, cur, prev, new, lv2) ==
    /\ q = Queue(pl, lv.head) /\ pos \in 1..Len(q) /\ cur = q[pos] /\ prev = Before(q, pos)
    /\ new = Unlink(pl, cur, prev, pl[cur].next)
    /\ lv2 = Shorter(lv, cur, prev, pl[cur].next, pl[cur].volume)

LEMMA UnlinkGood ==
    ASSUME NEW pl \in [Nodes -> Node], NEW lv, NEW q, Good(pl, lv, q), NEW pos, NEW cur, NEW prev,
           NEW new, NEW lv2, Unlinks(pl, lv, q, pos, cur, prev, new, lv2)
    PROVE  /\ Good(new, lv2, RemoveAt(q, pos)) /\ new \in [Nodes -> Node]
           /\ ToSet(RemoveAt(q, pos)) = ToSet(q) \ {cur} /\ lv2.price_fp = lv.price_fp
<1>1. /\ pos \in 1..Len(q) /\ cur = q[pos] /\ prev = Before(q, pos)
      /\ new = Unlink(pl, cur, prev, pl[cur].next)
      /\ lv2 = Shorter(lv, cur, prev, pl[cur].next, pl[cur].volume)
  BY DEF Unlinks
<1> QED BY <1>1, GoodUnlink

\* Levels L with lv2 for lv, or without it when its count is 0.
LeftOf(L, lv, lv2) == (L \ {lv}) \cup (IF lv2.count = 0 THEN {} ELSE {lv2})

LEMMA UnlinkStep ==
    ASSUME NEW pl, NEW sd, NEW fs, ShapeInv(pl, sd), PlaceInv(pl, sd, fs),
           NEW s \in Sides, NEW lv \in ToSet(sd[s]), NEW q, NEW pos, NEW cur,
           NEW prev, NEW new, NEW lv2, Unlinks(pl, lv, q, pos, cur, prev, new, lv2), NEW sd2, SideStep(sd, sd2, s),
           ToSet(sd2[s]) = LeftOf(ToSet(sd[s]), lv, lv2)
    PROVE  ShapeInv(new, sd2) /\ Loses(pl, sd, new, sd2, cur)
<1> DEFINE q2 == RemoveAt(q, pos)
<1>0. /\ q = Queue(pl, lv.head) /\ pos \in 1..Len(q) /\ cur = q[pos] /\ prev = Before(q, pos)
      /\ new = Unlink(pl, cur, prev, pl[cur].next)
  BY DEF Unlinks
<1>1. pl \in [Nodes -> Node] /\ Good(pl, lv, q) /\ lv \in Level
  BY <1>0, ShapeFacts
<1>2. /\ Good(new, lv2, q2) /\ new \in [Nodes -> Node]
      /\ ToSet(q2) = ToSet(q) \ {cur} /\ lv2.price_fp = lv.price_fp
  BY <1>1, UnlinkGood
<1> HIDE DEF q2
<1>3. q \in Seq(Nodes) /\ ToSet(q) \subseteq Nodes /\ NULL \notin Nodes /\ Len(q) \in Nat
      /\ ToSet(q) = {q[k] : k \in 1..Len(q)}
  BY <1>1, GoodFacts
<1>4. cur \in ToSet(q) /\ (prev = NULL \/ prev \in ToSet(q))
  <2>1. pos # 1 => pos - 1 \in 1..Len(q)
    BY <1>0, <1>3
  <2> QED BY <1>0, <1>3, <2>1 DEF Before
<1>5. Others(pl, new, sd, s, lv)
  <2> SUFFICES ASSUME NEW t \in Sides, NEW m \in ToSet(sd[t]), t # s \/ m # lv,
                      NEW i \in ToSet(Queue(pl, m.head))
               PROVE  new[i] = pl[i]
    BY DEF Others
  <2>1. i \in Nodes /\ i \notin ToSet(q)
    BY <1>0, Apart
  <2>2. i # cur /\ i # prev
    BY <1>3, <1>4, <2>1
  <2> QED BY <1>0, <2>1, <2>2 DEF Unlink
<1>6. lv2.count = 0 <=> q2 = <<>>
  BY <1>2, GoodFacts
<1>7. ShapeInv(new, sd2) /\ Moved(pl, sd, new, sd2, s, lv.price_fp, ToSet(q2))
  <2>1. Exchanged(sd, sd2, s, lv, lv2, q2)
    <3>1. CASE lv2.count = 0
      <4>1. ToSet(sd2[s]) = ToSet(sd[s]) \ {lv}
        BY <3>1 DEF LeftOf
      <4> QED BY <1>6, <3>1, <4>1 DEF Exchanged
    <3>2. CASE lv2.count # 0
      BY <3>2 DEF Exchanged, LeftOf
    <3> QED BY <3>1, <3>2
  <2> QED BY <1>2, <1>5, <2>1, SwapLevel
<1>8. \A i : Rests(pl, sd, s, lv.price_fp, i) <=> i \in ToSet(q)
  BY <1>0, RestsAt
<1>9. Loses(pl, sd, new, sd2, cur)
  <2> SUFFICES ASSUME NEW t \in Sides, NEW r \in Nat, NEW i \in Nodes
               PROVE  Rests(new, sd2, t, r, i) <=> (Rests(pl, sd, t, r, i) /\ i # cur)
    BY DEF Loses
  <2>1. CASE t = s /\ r = lv.price_fp
    BY <1>2, <1>7, <1>8, <2>1 DEF Moved
  <2>2. CASE ~(t = s /\ r = lv.price_fp)
    <3>1. Rests(pl, sd, s, lv.price_fp, cur) /\ lv.price_fp \in Nat /\ cur \in Nodes
      BY <1>3, <1>4, <1>8, ShapeFacts
    <3>2. ~Rests(pl, sd, t, r, cur)
      BY <2>2, <3>1 DEF PlaceInv
    <3> QED BY <1>7, <2>2, <3>2 DEF Moved
  <2> QED BY <2>1, <2>2
<1> QED BY <1>7, <1>9

\* A partial fill of v of the first order of lv gives new and lv2.
Fills(pl, lv, v, left, new, lv2) ==
    /\ lv.head # NULL /\ left = pl[lv.head].volume - v
    /\ new = Filled(pl, lv.head, left) /\ lv2 = Lighter(lv, v)

LEMMA FillStep ==
    ASSUME NEW pl, NEW sd, NEW fs, ShapeInv(pl, sd), PlaceInv(pl, sd, fs),
           NEW s \in Sides, NEW lv \in ToSet(sd[s]), NEW v \in Nat,
           NEW left \in Nat, NEW new, NEW lv2, Fills(pl, lv, v, left, new, lv2), NEW sd2, SideStep(sd, sd2, s),
           ToSet(sd2[s]) = (ToSet(sd[s]) \ {lv}) \cup {lv2}
    PROVE  ShapeInv(new, sd2) /\ Keeps(pl, sd, new, sd2)
<1> USE DEF Fills
<1> DEFINE q == Queue(pl, lv.head)
<1>1. pl \in [Nodes -> Node] /\ Good(pl, lv, q) /\ lv \in Level
  BY ShapeFacts
<1>2. /\ q \in Seq(Nodes) /\ ToSet(q) \subseteq Nodes /\ Len(q) \in Nat /\ q # <<>>
      /\ ToSet(q) = {q[k] : k \in 1..Len(q)}
  BY <1>1, GoodFacts
<1>3. lv.head = q[1] /\ q[1] \in ToSet(q)
  <2>1. Len(q) > 0 /\ 1 \in 1..Len(q)
    BY <1>2
  <2>2. Linked(pl, lv.head, q)
    BY <1>1 DEF Good
  <2> HIDE DEF q
  <2> QED BY <1>2, <2>1, <2>2 DEF Linked
<1>4. Good(new, lv2, q) /\ new \in [Nodes -> Node] /\ lv2.price_fp = lv.price_fp
  <2> HIDE DEF q
  <2>1. left = pl[q[1]].volume - v /\ new = Filled(pl, q[1], left)
    BY <1>3
  <2> QED BY <1>1, <1>2, <2>1, GoodFill
<1>5. Others(pl, new, sd, s, lv)
  <2> SUFFICES ASSUME NEW t \in Sides, NEW m \in ToSet(sd[t]), t # s \/ m # lv,
                      NEW i \in ToSet(Queue(pl, m.head))
               PROVE  new[i] = pl[i]
    BY DEF Others
  <2>1. i \in Nodes /\ i \notin ToSet(q)
    BY Apart
  <2>2. i # lv.head
    BY <1>3, <2>1
  <2> QED BY <1>1, <2>1, <2>2 DEF Filled
<1>6. \A i : Rests(pl, sd, s, lv.price_fp, i) <=> i \in ToSet(q)
  BY RestsAt
<1> HIDE DEF q
<1>7. ShapeInv(new, sd2) /\ Moved(pl, sd, new, sd2, s, lv.price_fp, ToSet(q))
  <2>1. Exchanged(sd, sd2, s, lv, lv2, q)
    BY DEF Exchanged
  <2> QED BY <1>4, <1>5, <2>1, SwapLevel
<1>8. Keeps(pl, sd, new, sd2)
  BY <1>6, <1>7 DEF Keeps, Moved
<1> QED BY <1>7, <1>8

-----------------------------------------------------------------------------
(* The free stack, the places and the ids *)

LEMMA FrontStack ==
    ASSUME NEW fs \in Seq(Nodes), Once(fs), fs # <<>>
    PROVE  /\ Front(fs) \in Seq(Nodes) /\ Once(Front(fs))
           /\ fs[Len(fs)] \in Nodes \ Busy(fs)
           /\ Busy(Front(fs)) = Busy(fs) \cup {fs[Len(fs)]}
<1> DEFINE n == Len(fs)
           f == Front(fs)
           T == {fs[k] : k \in 1..n}
<1>1. n \in Nat /\ n > 0 /\ \A k \in 1..n : fs[k] \in Nodes
  OBVIOUS
<1>2. f \in Seq(Nodes) /\ Len(f) = n - 1 /\ \A k \in 1..(n - 1) : f[k] = fs[k]
  <2> DEFINE m == n - 1
  <2>0. m \in Nat
    BY <1>1
  <2>1. f = SubSeq(fs, 1, m)
    BY DEF Front
  <2>2. \A k \in 1..m : fs[k] \in Nodes
    BY <1>1
  <2> HIDE DEF m, f
  <2>3. /\ SubSeq(fs, 1, m) \in Seq(Nodes) /\ Len(SubSeq(fs, 1, m)) = m
        /\ \A k \in 1..m : SubSeq(fs, 1, m)[k] = fs[k]
    BY <2>0, <2>2, SubSeqProperties
  <2> QED BY <2>1, <2>3 DEF m
<1> HIDE DEF f
<1>3. ToSet(fs) = T /\ ToSet(f) = {f[k] : k \in 1..(n - 1)}
  BY <1>2, ToSetIs
<1>4. ToSet(f) = T \ {fs[n]}
  <2>1. \A k \in 1..n : k = n \/ k \in 1..(n - 1)
    BY <1>1
  <2>2. \A k \in 1..(n - 1) : k \in 1..n /\ fs[k] # fs[n]
    <3> SUFFICES ASSUME NEW k \in 1..(n - 1) PROVE k \in 1..n /\ fs[k] # fs[n]
      OBVIOUS
    <3>1. k \in 1..n /\ n \in 1..n /\ k # n
      BY <1>1
    <3> QED BY <3>1 DEF Once
  <2>3. ToSet(f) \subseteq T \ {fs[n]}
    BY <1>2, <1>3, <2>2
  <2>4. T \ {fs[n]} \subseteq ToSet(f)
    BY <1>2, <1>3, <2>1
  <2> QED BY <2>3, <2>4
<1>5. fs[n] \in T /\ fs[n] \in Nodes
  BY <1>1
<1>6. Once(f)
  <2> SUFFICES ASSUME NEW x \in 1..(n - 1), NEW y \in 1..(n - 1), f[x] = f[y] PROVE x = y
    BY <1>2 DEF Once
  <2>1. x \in 1..n /\ y \in 1..n
    BY <1>1
  <2> QED BY <1>2, <2>1 DEF Once
<1>7. Busy(f) = Busy(fs) \cup {fs[n]} /\ fs[n] \in Nodes \ Busy(fs)
  <2> HIDE DEF T
  <2> QED BY <1>3, <1>4, <1>5 DEF Busy
<1> QED BY <1>2, <1>6, <1>7 DEF f

LEMMA AppendStack ==
    ASSUME NEW fs \in Seq(Nodes), Once(fs), NEW i \in Busy(fs)
    PROVE  /\ Append(fs, i) \in Seq(Nodes) /\ Once(Append(fs, i))
           /\ Busy(Append(fs, i)) = Busy(fs) \ {i}
<1> DEFINE n == Len(fs)
           f == Append(fs, i)
<1>0. i \in Nodes /\ i \notin ToSet(fs)
  BY DEF Busy
<1>1. /\ n \in Nat /\ f \in Seq(Nodes) /\ Len(f) = n + 1 /\ f[n + 1] = i
      /\ \A k \in 1..n : f[k] = fs[k]
  BY <1>0
<1> HIDE DEF f
<1>2. ToSet(fs) = {fs[k] : k \in 1..n} /\ ToSet(f) = {f[k] : k \in 1..(n + 1)}
  BY <1>1, ToSetIs
<1>3. \A k \in 1..(n + 1) : k \in 1..n \/ k = n + 1
  BY <1>1
<1>4. n + 1 \in 1..(n + 1) /\ \A k \in 1..n : k \in 1..(n + 1)
  BY <1>1
<1>5. ToSet(f) = ToSet(fs) \cup {i}
  BY <1>1, <1>2, <1>3, <1>4
<1>6. Once(f)
  <2> SUFFICES ASSUME NEW x \in 1..(n + 1), NEW y \in 1..(n + 1), f[x] = f[y] PROVE x = y
    BY <1>1 DEF Once
  <2>1. (x \in 1..n \/ x = n + 1) /\ (y \in 1..n \/ y = n + 1)
    BY <1>3
  <2>2. \A k \in 1..n : fs[k] # i
    BY <1>0, <1>2
  <2> QED BY <1>1, <2>1, <2>2 DEF Once
<1> QED BY <1>1, <1>5, <1>6 DEF Busy, f

LEMMA PlaceGain ==
    ASSUME NEW pl, NEW sd, NEW fs, NEW new, NEW sd2, NEW fs2, NEW s \in Sides, NEW p \in Nat,
           NEW idx \in Nodes \ Busy(fs), PlaceInv(pl, sd, fs), Gains(pl, sd, new, sd2, s, p, idx),
           fs2 \in Seq(Nodes), Once(fs2), Busy(fs2) = Busy(fs) \cup {idx}
    PROVE  PlaceInv(new, sd2, fs2)
<1>1. \A t \in Sides : \A r \in Nat : ~Rests(pl, sd, t, r, idx)
  BY DEF PlaceInv
<1>2. ASSUME NEW i \in Nodes, NEW t \in Sides, NEW t2 \in Sides, NEW r \in Nat, NEW r2 \in Nat,
             Rests(new, sd2, t, r, i), Rests(new, sd2, t2, r2, i)
      PROVE  t = t2 /\ r = r2
  <2>1. CASE i = idx
    BY <1>1, <1>2, <2>1 DEF Gains
  <2>2. CASE i # idx
    <3>1. Rests(pl, sd, t, r, i) /\ Rests(pl, sd, t2, r2, i)
      BY <1>2, <2>2 DEF Gains
    <3> QED BY <3>1 DEF PlaceInv
  <2> QED BY <2>1, <2>2
<1>3. ASSUME NEW i \in Nodes
      PROVE  i \in Busy(fs2) <=> \E t \in Sides : \E r \in Nat : Rests(new, sd2, t, r, i)
  <2>1. CASE i = idx
    <3>1. Rests(new, sd2, s, p, i)
      BY <2>1 DEF Gains
    <3> QED BY <2>1, <3>1
  <2>2. CASE i # idx
    <3>1. \A t \in Sides : \A r \in Nat : Rests(new, sd2, t, r, i) <=> Rests(pl, sd, t, r, i)
      BY <2>2 DEF Gains
    <3>2. i \in Busy(fs) <=> \E t \in Sides : \E r \in Nat : Rests(pl, sd, t, r, i)
      BY DEF PlaceInv
    <3> QED BY <2>2, <3>1, <3>2
  <2> QED BY <2>1, <2>2
<1> QED BY <1>2, <1>3 DEF PlaceInv

LEMMA PlaceLose ==
    ASSUME NEW pl, NEW sd, NEW fs, NEW new, NEW sd2, NEW fs2, NEW cur,
           PlaceInv(pl, sd, fs), Loses(pl, sd, new, sd2, cur),
           fs2 \in Seq(Nodes), Once(fs2), Busy(fs2) = Busy(fs) \ {cur}
    PROVE  PlaceInv(new, sd2, fs2)
<1>1. ASSUME NEW i \in Nodes, NEW t \in Sides, NEW t2 \in Sides, NEW r \in Nat, NEW r2 \in Nat,
             Rests(new, sd2, t, r, i), Rests(new, sd2, t2, r2, i)
      PROVE  t = t2 /\ r = r2
  <2>1. Rests(pl, sd, t, r, i) /\ Rests(pl, sd, t2, r2, i)
    BY <1>1 DEF Loses
  <2> QED BY <2>1 DEF PlaceInv
<1>2. ASSUME NEW i \in Nodes
      PROVE  i \in Busy(fs2) <=> \E t \in Sides : \E r \in Nat : Rests(new, sd2, t, r, i)
  <2>1. \A t \in Sides : \A r \in Nat : Rests(new, sd2, t, r, i) <=> (Rests(pl, sd, t, r, i) /\ i # cur)
    BY DEF Loses
  <2>2. i \in Busy(fs) <=> \E t \in Sides : \E r \in Nat : Rests(pl, sd, t, r, i)
    BY DEF PlaceInv
  <2> QED BY <2>1, <2>2
<1> QED BY <1>1, <1>2 DEF PlaceInv

LEMMA PlaceKeep ==
    ASSUME NEW pl, NEW sd, NEW fs, NEW new, NEW sd2,
           PlaceInv(pl, sd, fs), Keeps(pl, sd, new, sd2)
    PROVE  PlaceInv(new, sd2, fs)
<1>1. ASSUME NEW i \in Nodes, NEW t \in Sides, NEW t2 \in Sides, NEW r \in Nat, NEW r2 \in Nat,
             Rests(new, sd2, t, r, i), Rests(new, sd2, t2, r2, i)
      PROVE  t = t2 /\ r = r2
  <2>1. Rests(pl, sd, t, r, i) /\ Rests(pl, sd, t2, r2, i)
    BY <1>1 DEF Keeps
  <2> QED BY <2>1 DEF PlaceInv
<1>2. ASSUME NEW i \in Nodes
      PROVE  i \in Busy(fs) <=> \E t \in Sides : \E r \in Nat : Rests(new, sd2, t, r, i)
  <2>1. \A t \in Sides : \A r \in Nat : Rests(new, sd2, t, r, i) <=> Rests(pl, sd, t, r, i)
    BY DEF Keeps
  <2>2. i \in Busy(fs) <=> \E t \in Sides : \E r \in Nat : Rests(pl, sd, t, r, i)
    BY DEF PlaceInv
  <2> QED BY <2>1, <2>2
<1> QED BY <1>1, <1>2 DEF PlaceInv

\* Facts about the ids of the orders that rest.
LEMMA IdFacts ==
    ASSUME NEW pl, NEW fs, NEW nid, OrderInv(pl, fs, nid)
    PROVE  /\ nid \in Nat /\ MaxOrders \in Nat /\ nid >= 1 /\ nid <= MaxOrders + 1
           /\ \A i \in Busy(fs) : /\ pl[i].order_id \in Ids /\ pl[i].order_id \in Nat
                                  /\ pl[i].order_id < nid /\ pl[i].order_id # 0
<1>1. MaxOrders \in Nat /\ nid \in 1 .. MaxOrders + 1
  BY LOBAssumption DEF OrderInv
<1>2. \A i \in Busy(fs) : pl[i].order_id \in 1 .. nid - 1
  BY DEF OrderInv
<1> QED BY <1>1, <1>2 DEF Ids

\* The ids of the nodes of B stay; and the volumes.
SameIds(pl, new, B)  == \A i \in B : new[i].order_id = pl[i].order_id
SameSize(pl, new, B) == \A i \in B : new[i].volume = pl[i].volume

LEMMA OrderGain ==
    ASSUME NEW pl, NEW fs, NEW nid, NEW new, NEW fs2, NEW idx, OrderInv(pl, fs, nid), nid \in Ids,
           SameIds(pl, new, Busy(fs)), new[idx].order_id = nid, Busy(fs2) = Busy(fs) \cup {idx}
    PROVE  OrderInv(new, fs2, nid + 1)
<1>1. /\ nid \in Nat /\ MaxOrders \in Nat /\ nid >= 1 /\ nid <= MaxOrders
      /\ \A i \in Busy(fs) : pl[i].order_id \in Nat /\ pl[i].order_id < nid /\ pl[i].order_id # 0
  BY IdFacts DEF Ids
<1>2. nid + 1 \in 1 .. MaxOrders + 1
  BY <1>1
<1>3. \A i \in Busy(fs2) : new[i].order_id \in 1 .. (nid + 1) - 1
  <2>1. \A i \in Busy(fs) : new[i].order_id \in 1 .. (nid + 1) - 1
    BY <1>1 DEF SameIds
  <2>2. nid \in 1 .. (nid + 1) - 1
    BY <1>1
  <2> QED BY <2>1, <2>2
<1>4. ASSUME NEW i \in Busy(fs2), NEW j \in Busy(fs2), new[i].order_id = new[j].order_id PROVE i = j
  <2>1. \A k \in Busy(fs) : new[k].order_id # nid
    BY <1>1 DEF SameIds
  <2>2. CASE i = idx \/ j = idx
    BY <1>4, <2>1, <2>2
  <2>3. CASE i \in Busy(fs) /\ j \in Busy(fs)
    BY <1>4, <2>3 DEF SameIds, OrderInv
  <2> QED BY <2>2, <2>3
<1> QED BY <1>2, <1>3, <1>4 DEF OrderInv

LEMMA OrderLose ==
    ASSUME NEW pl, NEW fs, NEW nid, NEW new, NEW fs2, OrderInv(pl, fs, nid),
           Busy(fs2) \subseteq Busy(fs), SameIds(pl, new, Busy(fs2))
    PROVE  OrderInv(new, fs2, nid)
BY DEF OrderInv, SameIds

WithDue(du, id, v)  == [du EXCEPT ![id] = v]
DueLessBy(du, id, v) == [du EXCEPT ![id] = @ - v]

LEMMA DueGain ==
    ASSUME NEW pl, NEW fs, NEW nid, NEW new, NEW fs2, NEW idx, OrderInv(pl, fs, nid), nid \in Ids,
           NEW du, DueInv(pl, fs, du),
           SameIds(pl, new, Busy(fs)), SameSize(pl, new, Busy(fs)),
           new[idx].order_id = nid, new[idx].volume \in Nat, Busy(fs2) = Busy(fs) \cup {idx}
    PROVE  DueInv(new, fs2, WithDue(du, nid, new[idx].volume))
<1> DEFINE du2 == [du EXCEPT ![nid] = new[idx].volume]
<1>1. \A i \in Busy(fs) : pl[i].order_id \in Ids /\ pl[i].order_id # nid
  BY IdFacts
<1>2. du \in [Ids -> Nat]
  BY DEF DueInv
<1>3. du2 \in [Ids -> Nat] /\ du2[nid] = new[idx].volume /\ \A id \in Ids : id # nid => du2[id] = du[id]
  BY <1>2
<1> HIDE DEF du2
<1>4. \A i \in Busy(fs2) : du2[new[i].order_id] = new[i].volume
  <2>1. ASSUME NEW i \in Busy(fs) PROVE du2[new[i].order_id] = new[i].volume
    <3>1. new[i].order_id = pl[i].order_id /\ new[i].volume = pl[i].volume
      BY DEF SameIds, SameSize
    <3>2. du[pl[i].order_id] = pl[i].volume
      BY DEF DueInv
    <3> QED BY <1>1, <1>3, <3>1, <3>2
  <2> QED BY <1>3, <2>1
<1>5. ASSUME NEW id \in Ids, du2[id] # 0 PROVE \E i \in Busy(fs2) : new[i].order_id = id
  <2>1. CASE id = nid
    BY <2>1
  <2>2. CASE id # nid
    <3>1. PICK i \in Busy(fs) : pl[i].order_id = id
      BY <1>3, <1>5, <2>2 DEF DueInv
    <3> QED BY <3>1 DEF SameIds
  <2> QED BY <2>1, <2>2
<1>6. DueInv(new, fs2, du2)
  BY <1>3, <1>4, <1>5 DEF DueInv
<1> QED BY <1>6 DEF du2, WithDue

\* v of the order in node cur is gone; if all of it, the node is freed.
LEMMA DueLess ==
    ASSUME NEW pl, NEW fs, NEW nid, NEW new, NEW fs2, NEW cur \in Busy(fs), OrderInv(pl, fs, nid),
           NEW du, DueInv(pl, fs, du), NEW v \in Nat, v <= pl[cur].volume, pl[cur].volume \in Nat,
           SameIds(pl, new, Busy(fs2)), SameSize(pl, new, Busy(fs2) \ {cur}),
           \/ Busy(fs2) = Busy(fs) \ {cur} /\ v = pl[cur].volume
           \/ Busy(fs2) = Busy(fs) /\ new[cur].volume = pl[cur].volume - v
    PROVE  DueInv(new, fs2, DueLessBy(du, pl[cur].order_id, v))
<1> DEFINE id == pl[cur].order_id
           du2 == [du EXCEPT ![id] = du[id] - v]
<1>1. /\ \A i \in Busy(fs) : pl[i].order_id \in Ids
      /\ \A i \in Busy(fs) : i # cur => pl[i].order_id # id
  BY IdFacts DEF OrderInv
<1>2. du \in [Ids -> Nat] /\ du[id] = pl[cur].volume /\ id \in Ids
  BY <1>1 DEF DueInv
<1> HIDE DEF id
<1>3. /\ du2 \in [Ids -> Nat] /\ du2[id] = pl[cur].volume - v
      /\ \A x \in Ids : x # id => du2[x] = du[x]
  <2>1. du[id] - v \in Nat
    BY <1>2
  <2> QED BY <1>2, <2>1
<1> HIDE DEF du2
<1>4. ASSUME NEW i \in Busy(fs2) PROVE du2[new[i].order_id] = new[i].volume
  <2>1. CASE i = cur
    <3>1. new[cur].order_id = id /\ new[cur].volume = pl[cur].volume - v
      BY <2>1 DEF SameIds, id
    <3> QED BY <1>3, <2>1, <3>1
  <2>2. CASE i # cur
    <3>1. new[i].order_id = pl[i].order_id /\ new[i].volume = pl[i].volume /\ i \in Busy(fs)
      BY <2>2 DEF SameIds, SameSize
    <3>2. du[pl[i].order_id] = pl[i].volume
      BY <3>1 DEF DueInv
    <3> QED BY <1>1, <1>3, <2>2, <3>1, <3>2
  <2> QED BY <2>1, <2>2
<1>5. ASSUME NEW x \in Ids, du2[x] # 0 PROVE \E i \in Busy(fs2) : new[i].order_id = x
  <2>1. CASE x = id
    <3>1. cur \in Busy(fs2)
      BY <1>3, <1>5, <2>1
    <3>2. new[cur].order_id = id
      BY <3>1 DEF SameIds, id
    <3> QED BY <2>1, <3>1, <3>2
  <2>2. CASE x # id
    <3>1. PICK i \in Busy(fs) : pl[i].order_id = x
      BY <1>3, <1>5, <2>2 DEF DueInv
    <3>2. i # cur /\ i \in Busy(fs2)
      BY <2>2, <3>1 DEF id
    <3> QED BY <3>1, <3>2 DEF SameIds
  <2> QED BY <2>1, <2>2
<1>6. DueInv(new, fs2, du2)
  BY <1>3, <1>4, <1>5 DEF DueInv
<1> QED BY <1>6 DEF du2, DueLessBy, id

-----------------------------------------------------------------------------
(* The order map *)

LEMMA ProbeFacts ==
    ASSUME NEW id \in Nat
    PROVE  /\ \A t \in Nat : Probe(id, t) \in MapSlots
           /\ \A t, u \in MapSlots : Probe(id, t) = Probe(id, u) => t = u
<1> DEFINE b == id * HashMul
<1>1. MapSize \in Nat \ {0} /\ HashMul \in Nat /\ b \in Nat
  BY LOBAssumption
<1> HIDE DEF b
<1>2. \A t \in Nat : Probe(id, t) \in MapSlots
  <2> SUFFICES ASSUME NEW t \in Nat PROVE Probe(id, t) \in MapSlots
    OBVIOUS
  <2>1. b + t \in Nat
    BY <1>1
  <2>2. (b + t) % MapSize \in 0 .. MapSize - 1
    BY <1>1, <2>1, DivMod
  <2> QED BY <2>2 DEF Probe, MapSlots, b
<1>3. ASSUME NEW t \in MapSlots, NEW u \in MapSlots, t < u PROVE Probe(id, t) # Probe(id, u)
  <2>1. b + t \in Nat /\ b + u \in Nat /\ b + t < b + u /\ (b + u) - (b + t) < MapSize
    BY <1>1, <1>3 DEF MapSlots
  <2>2. (b + t) % MapSize # (b + u) % MapSize
    <3> DEFINE i == b + t
               j == b + u
    <3>1. i \in Nat /\ j \in Nat /\ i < j /\ j - i < MapSize
      BY <2>1
    <3> HIDE DEF i, j
    <3>2. i % MapSize # j % MapSize
      BY <1>1, <3>1, SlotsDiffer
    <3> QED BY <3>2 DEF i, j
  <2> QED BY <2>2 DEF Probe, b
<1>4. \A t, u \in MapSlots : t \in Nat /\ u \in Nat /\ (t < u \/ u < t \/ t = u)
  BY <1>1 DEF MapSlots
<1> QED BY <1>2, <1>3, <1>4

LEMMA SlotNumbers == MapSize \in Nat /\ MapSize \notin MapSlots /\ \A t \in MapSlots : t \in Nat /\ t < MapSize
BY LOBAssumption DEF MapSlots

LEMMA FirstProbeIs ==
    ASSUME NEW id, NEW keys
    PROVE  /\ FirstProbe(id, keys) \in MapSlots \cup {MapSize}
           /\ FirstProbe(id, keys) \in MapSlots =>
                 order_map[Probe(id, FirstProbe(id, keys))].key \in keys
           /\ \A u \in MapSlots :
                 order_map[Probe(id, u)].key \in keys => FirstProbe(id, keys) <= u
<1> DEFINE T == {i \in MapSlots : order_map[Probe(id, i)].key \in keys} \cup {MapSize}
<1>1. T \in SUBSET Nat /\ T # {}
  BY SlotNumbers
<1>2. FirstProbe(id, keys) = Min(T)
  BY DEF FirstProbe
<1>3. Min(T) \in T /\ \A y \in T : Min(T) <= y
  <2> HIDE DEF T
  <2> QED BY <1>1, MinIs
<1> QED BY <1>2, <1>3, SlotNumbers

LEMMA FindSlot ==
    ASSUME NEW id \in Ids, Chain(order_map, id)
    PROVE  map_find(id) \in MapSlots /\ order_map[map_find(id)].key = id /\ map_find(id) # MapSize
<1> DEFINE f == FirstProbe(id, {id, EMPTY})
<1>0. id \in Nat
  BY DEF Ids
<1>1. PICK t \in MapSlots : /\ order_map[Probe(id, t)].key = id
                            /\ \A u \in 0 .. t - 1 : order_map[Probe(id, u)].key \notin {id, EMPTY}
  BY DEF Chain
<1>2. /\ f \in MapSlots \cup {MapSize}
      /\ f \in MapSlots => order_map[Probe(id, f)].key \in {id, EMPTY}
      /\ f <= t
  BY <1>1, FirstProbeIs
<1> HIDE DEF f
<1>3. f = t
  <2>1. f \in Nat /\ t \in Nat /\ f \in MapSlots
    BY <1>2, SlotNumbers
  <2>2. ~(f \in 0 .. t - 1)
    BY <1>1, <1>2, <2>1
  <2> QED BY <1>2, <2>1, <2>2
<1>4. map_find(id) = Probe(id, t)
  BY <1>1, <1>3, SlotNumbers DEF map_find, f
<1>5. Probe(id, t) \in MapSlots
  BY <1>0, SlotNumbers, ProbeFacts
<1> QED BY <1>1, <1>4, <1>5, SlotNumbers

LEMMA NoSlot ==
    ASSUME NEW id \in Ids, \A x \in MapSlots : order_map[x].key # id
    PROVE  map_find(id) = MapSize
<1> DEFINE f == FirstProbe(id, {id, EMPTY})
<1>1. f \in MapSlots \cup {MapSize}
  BY FirstProbeIs
<1> HIDE DEF f
<1>2. CASE f \in MapSlots
  <2>1. Probe(id, f) \in MapSlots
    BY <1>2, SlotNumbers, ProbeFacts DEF Ids
  <2> QED BY <1>2, <2>1 DEF map_find, f
<1> QED BY <1>1, <1>2 DEF map_find, f

LEMMA KeyFacts ==
    ASSUME NEW id \in Ids
    PROVE  id \in Nat /\ id # 0 /\ id # EMPTY /\ id # DELETED /\ EMPTY # DELETED /\ EMPTY \notin Ids
           /\ DELETED \notin Ids
BY DEF Ids, EMPTY, DELETED

LEMMA VacantType == /\ Vacant(DELETED) \in Entry /\ Vacant(DELETED).key = DELETED
                    /\ Vacant(EMPTY) \in Entry /\ Vacant(EMPTY).key = EMPTY
BY DEF Vacant, Entry, Sides, NULL

\* The slot of an order that rests leads to it.
LEMMA EntryOf ==
    ASSUME NEW pl, NEW sd, NEW fs, NEW nid, OrderInv(pl, fs, nid), MapInv(pl, fs, order_map),
           SlotsTrue(pl, sd, fs, order_map), NEW i \in Busy(fs)
    PROVE  LET x == map_find(pl[i].order_id) IN
           /\ x \in MapSlots /\ x # MapSize /\ order_map[x] \in Entry
           /\ order_map[x].key = pl[i].order_id /\ order_map[x].val = i
           /\ order_map[x].side \in Sides /\ order_map[x].price_fp \in Nat
           /\ Rests(pl, sd, order_map[x].side, order_map[x].price_fp, i)
<1> DEFINE id == pl[i].order_id
           x == map_find(id)
<1>1. id \in Ids
  BY IdFacts
<1>2. Chain(order_map, id)
  BY DEF MapInv
<1> HIDE DEF id
<1>3. x \in MapSlots /\ order_map[x].key = id /\ x # MapSize
  BY <1>1, <1>2, FindSlot
<1> HIDE DEF x
<1>4. /\ order_map[x].val \in Busy(fs) /\ pl[order_map[x].val].order_id = id
      /\ Rests(pl, sd, order_map[x].side, order_map[x].price_fp, order_map[x].val)
  BY <1>1, <1>3 DEF SlotsTrue
<1>5. order_map[x].val = i
  BY <1>4 DEF OrderInv, id
<1>6. order_map[x] \in Entry
  BY <1>3 DEF MapInv
<1>7. order_map[x].side \in Sides /\ order_map[x].price_fp \in Nat
  BY <1>6 DEF Entry
<1> QED BY <1>3, <1>4, <1>5, <1>6, <1>7 DEF x, id

LEMMA MapKeep ==
    ASSUME NEW pl, NEW sd, NEW fs, NEW om, NEW new, NEW sd2, MapInv(pl, fs, om),
           SlotsTrue(pl, sd, fs, om), SameIds(pl, new, Busy(fs)), Keeps(pl, sd, new, sd2)
    PROVE  MapInv(new, fs, om) /\ SlotsTrue(new, sd2, fs, om)
<1>1. MapInv(new, fs, om)
  BY DEF MapInv, SameIds
<1>2. ASSUME NEW x \in MapSlots, om[x].key \in Ids
      PROVE  /\ om[x].val \in Busy(fs) /\ new[om[x].val].order_id = om[x].key
             /\ Rests(new, sd2, om[x].side, om[x].price_fp, om[x].val)
  <2>1. /\ om[x].val \in Busy(fs) /\ pl[om[x].val].order_id = om[x].key
        /\ Rests(pl, sd, om[x].side, om[x].price_fp, om[x].val)
    BY <1>2 DEF SlotsTrue
  <2>2. om[x].val \in Nodes /\ om[x].side \in Sides /\ om[x].price_fp \in Nat
    <3>1. om[x] \in Entry
      BY DEF MapInv
    <3> QED BY <2>1, <3>1 DEF Entry, Busy
  <2> QED BY <2>1, <2>2 DEF SameIds, Keeps
<1> QED BY <1>1, <1>2 DEF SlotsTrue

LEMMA MapLose ==
    ASSUME NEW pl, NEW sd, NEW fs, NEW nid, NEW new, NEW sd2, NEW fs2, NEW cur \in Busy(fs),
           OrderInv(pl, fs, nid), MapInv(pl, fs, order_map), SlotsTrue(pl, sd, fs, order_map),
           SameIds(pl, new, Busy(fs2)), Busy(fs2) = Busy(fs) \ {cur}, Loses(pl, sd, new, sd2, cur)
    PROVE  /\ MapInv(new, fs2, map_erase(pl[cur].order_id))
           /\ SlotsTrue(new, sd2, fs2, map_erase(pl[cur].order_id))
<1> DEFINE id == pl[cur].order_id
           x == map_find(id)
           om == map_erase(id)
           gone == Vacant(DELETED)
<1>1. id \in Ids /\ \A i \in Busy(fs2) : pl[i].order_id \in Ids /\ pl[i].order_id # id
  BY IdFacts DEF OrderInv
<1>2. x \in MapSlots /\ x # MapSize /\ order_map[x].key = id
  BY EntryOf
<1>3. om = [order_map EXCEPT ![x] = gone]
  BY <1>2 DEF map_erase, Erased
<1>4. order_map \in [MapSlots -> Entry]
  BY DEF MapInv
<1>5. gone \in Entry /\ gone.key = DELETED
  BY VacantType
<1> HIDE DEF id, x, om, gone
<1>6. /\ om \in [MapSlots -> Entry] /\ om[x] = gone
      /\ \A y \in MapSlots : y # x => om[y] = order_map[y]
  BY <1>2, <1>3, <1>4, <1>5
<1>7. \A y \in MapSlots : om[y].key \in Ids => y # x /\ om[y] = order_map[y] /\ om[y].key # id
  <2>1. \A y \in MapSlots : order_map[y].key = id => y = x
    BY <1>1, <1>2 DEF MapInv
  <2>2. DELETED \notin Ids
    BY <1>1, KeyFacts
  <2> QED BY <1>5, <1>6, <2>1, <2>2
<1>8. ASSUME NEW i \in Busy(fs2) PROVE Chain(om, new[i].order_id)
  <2> DEFINE d == pl[i].order_id
  <2>1. new[i].order_id = d /\ d \in Ids /\ d # id /\ Chain(order_map, d)
    BY <1>1 DEF SameIds, MapInv
  <2> HIDE DEF d
  <2>2. PICK t \in MapSlots : /\ order_map[Probe(d, t)].key = d
                              /\ \A u \in 0 .. t - 1 : order_map[Probe(d, u)].key \notin {d, EMPTY}
    BY <2>1 DEF Chain
  <2>3. d \in Nat /\ d # DELETED /\ EMPTY # DELETED
    BY <2>1, KeyFacts
  <2>4. Probe(d, t) \in MapSlots /\ om[Probe(d, t)].key = d
    <3>1. Probe(d, t) \in MapSlots
      BY <2>3, SlotNumbers, ProbeFacts
    <3>2. Probe(d, t) # x
      BY <1>2, <2>1, <2>2
    <3> QED BY <1>6, <2>2, <3>1, <3>2
  <2>5. ASSUME NEW u \in 0 .. t - 1 PROVE om[Probe(d, u)].key \notin {d, EMPTY}
    <3>1. Probe(d, u) \in MapSlots
      <4>1. u \in Nat
        BY SlotNumbers
      <4> QED BY <2>3, <4>1, ProbeFacts
    <3> QED BY <1>5, <1>6, <2>2, <2>3, <3>1
  <2> QED BY <2>1, <2>4, <2>5 DEF Chain
<1>9. MapInv(new, fs2, om)
  <2>1. \A y, z \in MapSlots : om[y].key \in Ids /\ om[y].key = om[z].key => y = z
    BY <1>7 DEF MapInv
  <2> QED BY <1>6, <1>8, <2>1 DEF MapInv
<1>10. ASSUME NEW y \in MapSlots, om[y].key \in Ids
       PROVE  /\ om[y].val \in Busy(fs2) /\ new[om[y].val].order_id = om[y].key
              /\ Rests(new, sd2, om[y].side, om[y].price_fp, om[y].val)
  <2>1. om[y] = order_map[y] /\ om[y].key # id
    BY <1>7, <1>10
  <2>2. /\ om[y].val \in Busy(fs) /\ pl[om[y].val].order_id = om[y].key
        /\ Rests(pl, sd, om[y].side, om[y].price_fp, om[y].val)
    BY <1>10, <2>1 DEF SlotsTrue
  <2>3. om[y].val # cur /\ om[y].val \in Busy(fs2)
    BY <2>1, <2>2 DEF id
  <2>4. om[y].val \in Nodes /\ om[y].side \in Sides /\ om[y].price_fp \in Nat
    <3>1. om[y] \in Entry
      BY <1>6
    <3> QED BY <2>2, <3>1 DEF Entry, Busy
  <2> QED BY <2>2, <2>3, <2>4 DEF SameIds, Loses
<1>11. SlotsTrue(new, sd2, fs2, om)
  BY <1>10 DEF SlotsTrue
<1> QED BY <1>9, <1>11 DEF om, id

\* There is a slot to insert into: the map is larger than the pool.
LEMMA RoomInMap ==
    ASSUME NEW pl, NEW sd, NEW fs, MapInv(pl, fs, order_map),
           SlotsTrue(pl, sd, fs, order_map), NEW id \in Ids
    PROVE  \E t \in MapSlots : order_map[Probe(id, t)].key \in {EMPTY, DELETED}
<1> SUFFICES ASSUME \A t \in MapSlots : order_map[Probe(id, t)].key \notin {EMPTY, DELETED}
             PROVE  FALSE
  OBVIOUS
<1> DEFINE g == [t \in MapSlots |-> order_map[Probe(id, t)].val]
<1>0. id \in Nat /\ PoolSize \in Nat /\ MapSize \in Nat /\ PoolSize < MapSize
  BY LOBAssumption, KeyFacts
<1>1. ASSUME NEW t \in MapSlots
      PROVE  /\ Probe(id, t) \in MapSlots /\ order_map[Probe(id, t)].key \in Ids
             /\ g[t] \in Nodes /\ pl[g[t]].order_id = order_map[Probe(id, t)].key
  <2>1. Probe(id, t) \in MapSlots
    BY <1>0, SlotNumbers, ProbeFacts
  <2>2. order_map[Probe(id, t)] \in Entry
    BY <2>1 DEF MapInv
  <2>3. order_map[Probe(id, t)].key \in Ids
    BY <2>2 DEF Entry
  <2> QED BY <2>1, <2>3 DEF SlotsTrue, Busy
<1>2. g \in [MapSlots -> Nodes]
  BY <1>1
<1>3. ASSUME NEW t \in MapSlots, NEW u \in MapSlots, g[t] = g[u] PROVE t = u
  <2>1. order_map[Probe(id, t)].key = order_map[Probe(id, u)].key
    BY <1>1, <1>3
  <2>2. Probe(id, t) = Probe(id, u)
    BY <1>1, <2>1 DEF MapInv
  <2> QED BY <1>0, <2>2, ProbeFacts
<1>4. g \in Injection(MapSlots, Nodes)
  <2> HIDE DEF g
  <2> QED BY <1>2, <1>3 DEF Injection, IsInjective
<1> HIDE DEF g
<1>5. IsFiniteSet(Nodes) /\ Cardinality(Nodes) = PoolSize
  <2>1. IsFiniteSet(1..PoolSize) /\ Cardinality(1..PoolSize) = IF 1 > PoolSize THEN 0 ELSE PoolSize - 1 + 1
    BY <1>0, FS_Interval
  <2> QED BY <1>0, <2>1 DEF Nodes
<1>6. Cardinality(MapSlots) = MapSize
  <2> DEFINE m == MapSize - 1
  <2>0. m \in Nat /\ m + 1 = MapSize
    BY <1>0
  <2>1. IsFiniteSet(0..m) /\ Cardinality(0..m) = IF 0 > m THEN 0 ELSE m - 0 + 1
    BY <2>0, FS_Interval
  <2>2. MapSlots = 0..m
    BY DEF MapSlots
  <2> HIDE DEF m
  <2> QED BY <2>0, <2>1, <2>2
<1>7. Cardinality(MapSlots) <= Cardinality(Nodes)
  BY <1>4, <1>5, FS_Injection
<1> QED BY <1>0, <1>5, <1>6, <1>7

LEMMA MapGain ==
    ASSUME NEW pl, NEW sd, NEW fs, NEW nid, NEW new, NEW sd2, NEW fs2, NEW idx \in Nodes,
           NEW s \in Sides, NEW p \in Nat, nid \in Ids, idx \notin Busy(fs),
           OrderInv(pl, fs, nid), MapInv(pl, fs, order_map), SlotsTrue(pl, sd, fs, order_map),
           SameIds(pl, new, Busy(fs)), new[idx].order_id = nid,
           Busy(fs2) = Busy(fs) \cup {idx}, Gains(pl, sd, new, sd2, s, p, idx),
           NEW e, e = [key |-> nid, val |-> idx, price_fp |-> p, side |-> s]
    PROVE  MapInv(new, fs2, map_insert(nid, e)) /\ SlotsTrue(new, sd2, fs2, map_insert(nid, e))
<1> DEFINE f == FirstProbe(nid, {EMPTY, DELETED})
           x == Probe(nid, f)
           om == map_insert(nid, e)
<1>1. nid \in Nat /\ nid # EMPTY /\ nid # DELETED /\ EMPTY \notin Ids /\ DELETED \notin Ids
  BY KeyFacts
<1>2. \A i \in Busy(fs) : pl[i].order_id \in Ids /\ pl[i].order_id # nid
  BY IdFacts
<1>3. /\ f \in MapSlots /\ order_map[x].key \in {EMPTY, DELETED}
      /\ \A u \in MapSlots : order_map[Probe(nid, u)].key \in {EMPTY, DELETED} => f <= u
  <2>1. PICK t \in MapSlots : order_map[Probe(nid, t)].key \in {EMPTY, DELETED}
    BY RoomInMap
  <2>2. f <= t /\ f \in MapSlots \cup {MapSize}
    BY <2>1, FirstProbeIs
  <2>3. f \in MapSlots
    BY <2>2, SlotNumbers
  <2> QED BY <2>3, FirstProbeIs
<1>4. x \in MapSlots
  <2> HIDE DEF f
  <2> QED BY <1>1, <1>3, SlotNumbers, ProbeFacts
<1>5. om = [order_map EXCEPT ![x] = e]
  <2>1. f # MapSize
    BY <1>3, SlotNumbers
  <2> QED BY <2>1 DEF map_insert
<1>6. order_map \in [MapSlots -> Entry]
  BY DEF MapInv
<1>7. e \in Entry /\ e.key = nid /\ e.val = idx /\ e.price_fp = p /\ e.side = s
  BY DEF Entry
<1> HIDE DEF f, x, om
<1>8. /\ om \in [MapSlots -> Entry] /\ om[x] = e
      /\ \A y \in MapSlots : y # x => om[y] = order_map[y]
  BY <1>4, <1>5, <1>6, <1>7
<1>9. \A y \in MapSlots : order_map[y].key # nid
  BY <1>2 DEF SlotsTrue
<1>10. ASSUME NEW i \in Busy(fs) PROVE Chain(om, pl[i].order_id)
  <2> DEFINE d == pl[i].order_id
  <2>1. d \in Ids /\ d # nid /\ Chain(order_map, d)
    BY <1>2 DEF MapInv
  <2> HIDE DEF d
  <2>2. PICK t \in MapSlots : /\ order_map[Probe(d, t)].key = d
                              /\ \A u \in 0 .. t - 1 : order_map[Probe(d, u)].key \notin {d, EMPTY}
    BY <2>1 DEF Chain
  <2>3. d \in Nat /\ d # DELETED /\ d # EMPTY
    BY <2>1, KeyFacts
  <2>4. Probe(d, t) \in MapSlots /\ om[Probe(d, t)].key = d
    <3>1. Probe(d, t) \in MapSlots
      BY <2>3, SlotNumbers, ProbeFacts
    <3>2. Probe(d, t) # x
      BY <1>3, <2>2, <2>3
    <3> QED BY <1>8, <2>2, <3>1, <3>2
  <2>5. ASSUME NEW u \in 0 .. t - 1 PROVE om[Probe(d, u)].key \notin {d, EMPTY}
    <3>1. Probe(d, u) \in MapSlots
      <4>1. u \in Nat
        BY SlotNumbers
      <4> QED BY <2>3, <4>1, ProbeFacts
    <3>2. CASE Probe(d, u) = x
      BY <1>1, <1>7, <1>8, <2>1, <3>2
    <3>3. CASE Probe(d, u) # x
      BY <1>8, <2>2, <3>1, <3>3
    <3> QED BY <3>2, <3>3
  <2>6. Chain(om, d)
    BY <2>4, <2>5 DEF Chain
  <2> QED BY <2>6 DEF d
<1>11. Chain(om, nid)
  <2>1. om[Probe(nid, f)].key = nid
    BY <1>7, <1>8 DEF x
  <2>2. ASSUME NEW u \in 0 .. f - 1 PROVE om[Probe(nid, u)].key \notin {nid, EMPTY}
    <3>1. u \in MapSlots /\ u < f /\ u \in Nat /\ f \in Nat
      BY <1>3, SlotNumbers DEF MapSlots
    <3>2. Probe(nid, u) \in MapSlots /\ Probe(nid, u) # x
      BY <1>1, <1>3, <3>1, ProbeFacts DEF x
    <3>3. order_map[Probe(nid, u)].key \notin {EMPTY, DELETED}
      BY <1>3, <3>1
    <3> QED BY <1>8, <1>9, <3>2, <3>3
  <2> QED BY <1>3, <2>1, <2>2 DEF Chain
<1>12. MapInv(new, fs2, om)
  <2>1. ASSUME NEW y \in MapSlots, NEW z \in MapSlots, om[y].key \in Ids, om[y].key = om[z].key
        PROVE  y = z
    <3>1. CASE y # x /\ z # x
      BY <1>8, <2>1, <3>1 DEF MapInv
    <3>2. CASE y = x \/ z = x
      BY <1>7, <1>8, <1>9, <2>1, <3>2
    <3> QED BY <3>1, <3>2
  <2>2. \A i \in Busy(fs2) : Chain(om, new[i].order_id)
    BY <1>10, <1>11 DEF SameIds
  <2> QED BY <1>8, <2>1, <2>2 DEF MapInv
<1>13. ASSUME NEW y \in MapSlots, om[y].key \in Ids
       PROVE  /\ om[y].val \in Busy(fs2) /\ new[om[y].val].order_id = om[y].key
              /\ Rests(new, sd2, om[y].side, om[y].price_fp, om[y].val)
  <2>1. CASE y = x
    <3>1. Rests(new, sd2, s, p, idx)
      BY DEF Gains
    <3> QED BY <1>7, <1>8, <2>1, <3>1
  <2>2. CASE y # x
    <3>1. om[y] = order_map[y]
      BY <1>8, <2>2
    <3>2. /\ om[y].val \in Busy(fs) /\ pl[om[y].val].order_id = om[y].key
          /\ Rests(pl, sd, om[y].side, om[y].price_fp, om[y].val)
      BY <1>13, <3>1 DEF SlotsTrue
    <3>3. om[y].val \in Nodes /\ om[y].side \in Sides /\ om[y].price_fp \in Nat
      <4>1. om[y] \in Entry
        BY <1>8
      <4> QED BY <3>2, <4>1 DEF Entry, Busy
    <3> QED BY <3>2, <3>3 DEF SameIds, Gains
  <2> QED BY <2>1, <2>2
<1>14. SlotsTrue(new, sd2, fs2, om)
  BY <1>13 DEF SlotsTrue
<1> QED BY <1>12, <1>14 DEF om

-----------------------------------------------------------------------------
(* The steps keep the invariant *)

\* Apart from their place the orders in the nodes of B stay as they are.
SameOrders(pl, new, B) ==
    /\ SameIds(pl, new, B) /\ SameSize(pl, new, B)
    /\ \A i \in B : new[i].participant = pl[i].participant

LEMMA PutFrame ==
    ASSUME NEW pl \in [Nodes -> Node], NEW tail, NEW idx \in Nodes, NEW node,
           NEW B \in SUBSET Nodes, idx \notin B
    PROVE  /\ SameOrders(pl, Put(pl, tail, idx, node), B)
           /\ Put(pl, tail, idx, node)[idx] = node
<1> DEFINE new == Put(pl, tail, idx, node)
<1>1. \A i \in Nodes : new[i] = IF i = idx THEN node
                     ELSE IF i = tail THEN [pl[i] EXCEPT !.next = idx] ELSE pl[i]
  BY DEF Put
<1>2. \A i \in Nodes : pl[i] \in Node
  OBVIOUS
<1> HIDE DEF new
<1>3. ASSUME NEW i \in B
      PROVE  /\ new[i].order_id = pl[i].order_id /\ new[i].volume = pl[i].volume
             /\ new[i].participant = pl[i].participant
  BY <1>1, <1>2 DEF Node
<1> QED BY <1>1, <1>3 DEF SameOrders, SameIds, SameSize, new

LEMMA UnlinkFrame ==
    ASSUME NEW pl \in [Nodes -> Node], NEW cur, NEW prev, NEW nxt,
           NEW B \in SUBSET Nodes, cur \notin B
    PROVE  SameOrders(pl, Unlink(pl, cur, prev, nxt), B)
<1> DEFINE new == Unlink(pl, cur, prev, nxt)
<1>1. \A i \in Nodes : new[i] = IF i = cur THEN FreeNode
                     ELSE IF i = prev THEN [pl[i] EXCEPT !.next = nxt] ELSE pl[i]
  BY DEF Unlink
<1>2. \A i \in Nodes : pl[i] \in Node
  OBVIOUS
<1> HIDE DEF new
<1>3. ASSUME NEW i \in B
      PROVE  /\ new[i].order_id = pl[i].order_id /\ new[i].volume = pl[i].volume
             /\ new[i].participant = pl[i].participant
  BY <1>1, <1>2 DEF Node
<1> QED BY <1>3 DEF SameOrders, SameIds, SameSize, new

\* Only the volume in node i differs: it is left.
OnlyVolume(pl, new, i, left) ==
    /\ new[i].order_id = pl[i].order_id /\ new[i].volume = left
    /\ new[i].participant = pl[i].participant /\ \A j \in Nodes \ {i} : new[j] = pl[j]

LEMMA FilledNode ==
    ASSUME NEW pl \in [Nodes -> Node], NEW i \in Nodes, NEW left, NEW new, new = Filled(pl, i, left)
    PROVE  OnlyVolume(pl, new, i, left)
<1> DEFINE nd == [pl[i] EXCEPT !.volume = left]
<1>1. nd.order_id = pl[i].order_id /\ nd.volume = left /\ nd.participant = pl[i].participant
  <2>1. pl[i] \in Node
    OBVIOUS
  <2> QED BY <2>1 DEF Node
<1>2. new = [pl EXCEPT ![i] = nd]
  BY DEF Filled
<1> HIDE DEF nd
<1>3. new[i] = nd /\ \A j \in Nodes \ {i} : new[j] = pl[j]
  BY <1>2
<1> QED BY <1>1, <1>3 DEF OnlyVolume

LEMMA FilledFrame ==
    ASSUME NEW pl \in [Nodes -> Node], NEW i \in Nodes, NEW left, NEW new, new = Filled(pl, i, left),
           NEW B \in SUBSET Nodes, i \notin B
    PROVE  SameOrders(pl, new, B)
<1>1. \A j \in Nodes \ {i} : new[j] = pl[j]
  BY FilledNode DEF OnlyVolume
<1> QED BY <1>1 DEF SameOrders, SameIds, SameSize

LEMMA AppendOrderType ==
    ASSUME NEW lv \in Level, NEW idx \in Nodes, NEW v \in Nat
    PROVE  AppendOrder(lv, idx, v) \in Level /\ AppendOrder(lv, idx, v).price_fp = lv.price_fp
<1> DEFINE h == IF lv.tail = NULL THEN idx ELSE lv.head
           w == lv.total_volume + v
           c == lv.count + 1
<1>1. h \in {NULL} \cup Nodes /\ idx \in {NULL} \cup Nodes /\ w \in Int /\ c \in Int
  BY DEF Level
<1>2. AppendOrder(lv, idx, v) = [lv EXCEPT !.head = h, !.tail = idx, !.total_volume = w, !.count = c]
  BY DEF AppendOrder
<1> HIDE DEF h, w, c
<1> QED BY <1>1, <1>2 DEF Level

LEMMA LighterType ==
    ASSUME NEW lv \in Level, NEW v \in Nat
    PROVE  Lighter(lv, v) \in Level /\ Lighter(lv, v).price_fp = lv.price_fp
<1>1. lv.total_volume - v \in Int
  BY DEF Level
<1> QED BY <1>1 DEF Lighter, Level

\* One side's level array is replaced.
LEMMA SideReplaced ==
    ASSUME NEW pl, NEW sd, ShapeInv(pl, sd), NEW s \in Sides, NEW lvs \in Seq(Level),
           Len(lvs) <= MaxLevels, Sorted(s, lvs)
    PROVE  /\ SideStep(sd, WithSide(sd, s, lvs), s)
           /\ WithSide(sd, s, lvs)[s] = lvs
<1>1. sd \in [Sides -> Seq(Level)]
  BY DEF ShapeInv
<1> QED BY <1>1 DEF SideStep, WithSide

LEMMA DropStep ==
    ASSUME NEW pl, NEW sd, ShapeInv(pl, sd), NEW s \in Sides, NEW k \in 1..Len(sd[s]),
           NEW lv2 \in Level, lv2.price_fp = sd[s][k].price_fp, NEW sd2,
           sd2 = WithSide(sd, s, DropLevel(sd[s], k, lv2))
    PROVE  /\ SideStep(sd, sd2, s)
           /\ ToSet(sd2[s]) = LeftOf(ToSet(sd[s]), sd[s][k], lv2)
<1> DEFINE lvs == sd[s]
           new == DropLevel(lvs, k, lv2)
<1>1. lvs \in Seq(Level) /\ Sorted(s, lvs) /\ Len(lvs) <= MaxLevels /\ Len(lvs) \in Nat /\ MaxLevels \in Nat
  BY ShapeFacts, LOBAssumption
<1>2. /\ new \in Seq(Level) /\ Len(new) <= MaxLevels /\ Sorted(s, new)
      /\ ToSet(new) = (ToSet(lvs) \ {lvs[k]}) \cup (IF lv2.count = 0 THEN {} ELSE {lv2})
  <2> HIDE DEF lvs
  <2>0. k \in 1..Len(lvs) /\ lv2.price_fp = lvs[k].price_fp
    BY DEF lvs
  <2>1. CASE lv2.count = 0
    <3>1. new = RemoveAt(lvs, k)
      BY <2>1 DEF DropLevel
    <3> HIDE DEF new
    <3>2. /\ RemoveAt(lvs, k) \in Seq(Level) /\ Len(RemoveAt(lvs, k)) = Len(lvs) - 1
          /\ Sorted(s, RemoveAt(lvs, k)) /\ ToSet(RemoveAt(lvs, k)) = ToSet(lvs) \ {lvs[k]}
      BY <1>1, <2>0, RemoveLevel
    <3> QED BY <1>1, <2>1, <3>1, <3>2
  <2>2. CASE lv2.count # 0
    <3>1. new = WithLevel(lvs, k, lv2)
      BY <2>2 DEF DropLevel, WithLevel
    <3>2. /\ new \in Seq(Level) /\ Len(new) = Len(lvs) /\ Sorted(s, new)
          /\ ToSet(new) = (ToSet(lvs) \ {lvs[k]}) \cup {lv2}
      BY <1>1, <2>0, <3>1, ReplaceLevel
    <3> HIDE DEF new
    <3> QED BY <1>1, <2>2, <3>2
  <2> QED BY <2>1, <2>2
<1> HIDE DEF new
<1>3. SideStep(sd, sd2, s) /\ sd2[s] = new
  BY <1>2, SideReplaced DEF new
<1> QED BY <1>2, <1>3 DEF LeftOf

LEMMA BookStart == EmptyBook => BookInv
<1> SUFFICES ASSUME EmptyBook PROVE BookInv
  OBVIOUS
<1> USE DEF EmptyBook
<1>0. PoolSize \in Nat /\ MaxLevels \in Nat /\ MaxOrders \in Nat
  BY LOBAssumption
<1>1. \A s \in Sides : sides[s] = <<>> /\ ToSet(sides[s]) = {} /\ Len(sides[s]) = 0
  BY DEF ToSet
<1>2. ShapeInv(pool, sides)
  <2>1. pool \in [Nodes -> Node]
    BY FreeNodeType
  <2>2. sides \in [Sides -> Seq(Level)]
    OBVIOUS
  <2>3. \A s \in Sides : Len(sides[s]) <= MaxLevels /\ Sorted(s, sides[s])
    BY <1>0, <1>1 DEF Sorted
  <2> QED BY <1>1, <2>1, <2>2, <2>3 DEF ShapeInv
<1>3. free_stack \in Seq(Nodes) /\ Len(free_stack) = PoolSize /\ \A i \in Nodes : free_stack[i] = i
  <2>1. free_stack = [i \in 1..PoolSize |-> i] /\ \A i \in 1..PoolSize : i \in Nodes
    BY DEF Nodes
  <2> QED BY <1>0, <2>1, SeqDef DEF Nodes
<1>4. ToSet(free_stack) = Nodes
  <2>1. ToSet(free_stack) = {free_stack[k] : k \in 1..PoolSize}
    <3> HIDE DEF EmptyBook
    <3> QED BY <1>3, ToSetIs
  <2> QED BY <1>3, <2>1 DEF Nodes
<1>5. Busy(free_stack) = {}
  BY <1>4 DEF Busy
<1>6. PlaceInv(pool, sides, free_stack)
  <2>1. Once(free_stack)
    BY <1>3 DEF Once, Nodes
  <2>2. \A s \in Sides : \A p, i : ~Rests(pool, sides, s, p, i)
    BY <1>1 DEF Rests
  <2> QED BY <1>3, <1>5, <2>1, <2>2 DEF PlaceInv
<1>7. OrderInv(pool, free_stack, next_order_id)
  BY <1>0, <1>5 DEF OrderInv
<1>8. MapInv(pool, free_stack, order_map) /\ SlotsTrue(pool, sides, free_stack, order_map)
  <2>1. order_map \in [MapSlots -> Entry] /\ \A x \in MapSlots : order_map[x].key = EMPTY
    BY VacantType
  <2>2. EMPTY \notin Ids
    BY <1>0 DEF EMPTY, Ids
  <2> QED BY <1>5, <2>1, <2>2 DEF MapInv, SlotsTrue
<1>9. DueInv(pool, free_stack, due)
  BY <1>5 DEF DueInv
<1>10. taker \in Taker
  BY DEF Taker, Idle, Sides
<1> QED BY <1>2, <1>6, <1>7, <1>8, <1>9, <1>10 DEF BookInv

\* The level for a limit order is there before the order is.
LEMMA LevelReady ==
    ASSUME BookInv, NEW s \in Sides, NEW p \in Nat, get_or_create(s, p) # <<>>,
           NEW sd, sd = WithSide(sides, s, get_or_create(s, p))
    PROVE  /\ ShapeInv(pool, sd) /\ PlaceInv(pool, sd, free_stack)
           /\ SlotsTrue(pool, sd, free_stack, order_map) /\ Keeps(pool, sides, pool, sd)
           /\ sd[s] = get_or_create(s, p) /\ sd \in [Sides -> Seq(Level)]
           /\ \E k \in 1..Len(sd[s]) : sd[s][k].price_fp = p
<1> DEFINE lvs == get_or_create(s, p)
<1>1. /\ ShapeInv(pool, sides) /\ PlaceInv(pool, sides, free_stack)
      /\ MapInv(pool, free_stack, order_map) /\ SlotsTrue(pool, sides, free_stack, order_map)
  BY DEF BookInv
<1>2. sides[s] \in Seq(Level) /\ Sorted(s, sides[s]) /\ Len(sides[s]) <= MaxLevels
  BY <1>1, ShapeFacts
<1>3. /\ lvs \in Seq(Level) /\ Len(lvs) <= MaxLevels /\ Sorted(s, lvs)
      /\ \E k \in 1..Len(lvs) : lvs[k].price_fp = p
      /\ \/ lvs = sides[s]
         \/ ToSet(lvs) = ToSet(sides[s]) \cup {NewLevel(p)}
  BY <1>2, GetOrCreate
<1> HIDE DEF lvs
<1>4. SideStep(sides, sd, s) /\ sd[s] = lvs /\ sides \in [Sides -> Seq(Level)]
  <2>1. sd = WithSide(sides, s, lvs)
    BY DEF lvs
  <2> QED BY <1>1, <1>3, <2>1, SideReplaced DEF ShapeInv
<1>5. ShapeInv(pool, sd) /\ Keeps(pool, sides, pool, sd)
  <2>1. CASE lvs = sides[s]
    <3>1. sd = sides
      BY <1>4, <2>1 DEF SideStep
    <3> QED BY <1>1, <3>1 DEF Keeps
  <2>2. CASE ToSet(lvs) = ToSet(sides[s]) \cup {NewLevel(p)}
    BY <1>1, <1>4, <2>2, AddLevel
  <2> QED BY <1>3, <2>1, <2>2
<1>6. PlaceInv(pool, sd, free_stack)
  BY <1>1, <1>5, PlaceKeep
<1>7. SlotsTrue(pool, sd, free_stack, order_map)
  <2>1. SameIds(pool, pool, Busy(free_stack))
    BY DEF SameIds
  <2> QED BY <1>1, <1>5, <2>1, MapKeep
<1> QED BY <1>3, <1>4, <1>5, <1>6, <1>7 DEF lvs, SideStep

-----------------------------------------------------------------------------
(* What the steps do to the orders *)

\* A step adds an order in node idx, loses the one in node cur, or keeps all.
Adds(s, p, v, who, idx) ==
    /\ idx \in Nodes \ Busy(free_stack) /\ Busy(free_stack') = Busy(free_stack) \cup {idx}
    /\ Gains(pool, sides, pool', sides', s, p, idx)
    /\ SameOrders(pool, pool', Busy(free_stack))
    /\ pool'[idx].order_id = next_order_id /\ pool'[idx].volume = v
    /\ pool'[idx].participant = who

Drops(cur) ==
    /\ cur \in Busy(free_stack) /\ Busy(free_stack') = Busy(free_stack) \ {cur}
    /\ Loses(pool, sides, pool', sides', cur)
    /\ SameOrders(pool, pool', Busy(free_stack) \ {cur})

LEMMA BookInvFacts ==
    ASSUME BookInv
    PROVE  /\ ShapeInv(pool, sides) /\ PlaceInv(pool, sides, free_stack)
           /\ OrderInv(pool, free_stack, next_order_id)
           /\ SlotsTrue(pool, sides, free_stack, order_map)
           /\ MapInv(pool, free_stack, order_map) /\ DueInv(pool, free_stack, due)
           /\ taker \in Taker /\ free_stack \in Seq(Nodes) /\ Once(free_stack)
           /\ pool \in [Nodes -> Node] /\ sides \in [Sides -> Seq(Level)]
           /\ order_map \in [MapSlots -> Entry] /\ due \in [Ids -> Nat]
BY DEF BookInv, PlaceInv, ShapeInv, MapInv, DueInv

LEMMA GainsAfter ==
    ASSUME NEW pl, NEW sd, NEW sd1, NEW new, NEW sd2, NEW s, NEW p, NEW idx,
           Keeps(pl, sd, pl, sd1), Gains(pl, sd1, new, sd2, s, p, idx)
    PROVE  Gains(pl, sd, new, sd2, s, p, idx)
BY DEF Keeps, Gains

NewNode(id, v, who)     == [order_id |-> id, volume |-> v, participant |-> who, next |-> NULL]
NewEntry(id, idx, p, s) == [key |-> id, val |-> idx, price_fp |-> p, side |-> s]

\* The successful branch of add_limit.
PlacesOrder(s, p, v, who, lvs, k, idx, lv, node) ==
    /\ lvs = get_or_create(s, p) /\ lvs # <<>> /\ free_stack # <<>> /\ next_order_id \in Ids
    /\ k = CHOOSE j \in DOMAIN lvs : lvs[j].price_fp = p
    /\ idx = free_stack[Len(free_stack)] /\ lv = lvs[k]
    /\ node = NewNode(next_order_id, v, who)
    /\ free_stack' = Front(free_stack)
    /\ pool' = Put(pool, lv.tail, idx, node)
    /\ sides' = WithSide(sides, s, WithLevel(lvs, k, AppendOrder(lv, idx, v)))
    /\ order_map' = map_insert(next_order_id, NewEntry(next_order_id, idx, p, s))
    /\ next_order_id' = next_order_id + 1 /\ due' = WithDue(due, next_order_id, v)
    /\ taker' = taker

LEMMA AddsOrder ==
    ASSUME BookInv, NEW s \in Sides, NEW p \in Nat, NEW v \in Nat, NEW who \in Int,
           NEW lvs, NEW k, NEW idx, NEW lv, NEW node,
           PlacesOrder(s, p, v, who, lvs, k, idx, lv, node)
    PROVE  BookInv' /\ Adds(s, p, v, who, idx)
<1> DEFINE sd == WithSide(sides, s, lvs)
           lv2 == AppendOrder(lv, idx, v)
           B == Busy(free_stack)
<1>0. next_order_id \in Ids
  BY DEF PlacesOrder
<1>1. /\ ShapeInv(pool, sides) /\ PlaceInv(pool, sides, free_stack)
      /\ OrderInv(pool, free_stack, next_order_id)
      /\ SlotsTrue(pool, sides, free_stack, order_map)
      /\ MapInv(pool, free_stack, order_map) /\ DueInv(pool, free_stack, due)
      /\ taker \in Taker /\ free_stack \in Seq(Nodes) /\ Once(free_stack)
      /\ pool \in [Nodes -> Node] /\ sides \in [Sides -> Seq(Level)]
  BY BookInvFacts
<1>2. /\ ShapeInv(pool, sd) /\ PlaceInv(pool, sd, free_stack) /\ Keeps(pool, sides, pool, sd)
      /\ sd[s] = lvs /\ \E j \in 1..Len(lvs) : lvs[j].price_fp = p
  <2>1. lvs = get_or_create(s, p) /\ get_or_create(s, p) # <<>>
    BY DEF PlacesOrder
  <2> QED BY <2>1, LevelReady
<1>3. sides' = WithSide(sd, s, WithLevel(lvs, k, lv2))
  <2> HIDE DEF lv2
  <2>1. sides' = WithSide(sides, s, WithLevel(lvs, k, lv2))
    BY DEF lv2, PlacesOrder
  <2> QED BY <1>1, <2>1 DEF WithSide
<1> HIDE DEF sd
<1>4. /\ lvs \in Seq(Level) /\ Sorted(s, lvs) /\ Len(lvs) <= MaxLevels /\ DOMAIN lvs = 1..Len(lvs)
      /\ ToSet(lvs) = {lvs[j] : j \in 1..Len(lvs)}
  <2>1. sd[s] \in Seq(Level) /\ Sorted(s, sd[s]) /\ Len(sd[s]) <= MaxLevels
    BY <1>2, ShapeFacts
  <2>2. DOMAIN lvs = 1..Len(lvs) /\ ToSet(lvs) = {lvs[j] : j \in 1..Len(lvs)}
    BY <1>2, <2>1, ToSetIs
  <2> QED BY <1>2, <2>1, <2>2
<1>5. k \in 1..Len(lvs) /\ lv.price_fp = p /\ lv = lvs[k]
  <2>1. k = (CHOOSE j \in DOMAIN lvs : lvs[j].price_fp = p) /\ lv = lvs[k]
    BY DEF PlacesOrder
  <2> QED BY <1>2, <1>4, <2>1
<1>6. lv = lvs[k] /\ lv \in Level /\ lv \in ToSet(sd[s])
  BY <1>2, <1>4, <1>5
<1>7. idx \in Nodes \ B /\ free_stack' \in Seq(Nodes) /\ Once(free_stack')
      /\ Busy(free_stack') = B \cup {idx}
  BY <1>1, FrontStack DEF PlacesOrder
<1>8. lv2 \in Level /\ lv2.price_fp = lv.price_fp
  BY <1>6, <1>7, AppendOrderType
<1>9. node \in Node /\ node.next = NULL /\ node.order_id = next_order_id /\ node.volume = v
      /\ node.participant = who
  <2>1. node = NewNode(next_order_id, v, who)
    BY DEF PlacesOrder
  <2> QED BY <1>0, <2>1 DEF Node, NewNode
<1>10. \A i \in B : pool[i].order_id < node.order_id
  BY <1>1, <1>9, IdFacts
<1>11. SideStep(sd, sides', s) /\ ToSet(sides'[s]) = (ToSet(sd[s]) \ {lv}) \cup {lv2}
  <2> HIDE DEF lv2
  <2> DEFINE new == WithLevel(lvs, k, lv2)
  <2>1. /\ new \in Seq(Level) /\ Len(new) = Len(lvs) /\ Sorted(s, new)
        /\ ToSet(new) = (ToSet(lvs) \ {lvs[k]}) \cup {lv2}
    <3>1. lv2.price_fp = lvs[k].price_fp
      BY <1>6, <1>8
    <3> HIDE DEF lv2
    <3> QED BY <1>4, <1>5, <1>8, <3>1, ReplaceLevel
  <2> HIDE DEF new
  <2>2. sides' = WithSide(sd, s, new)
    BY <1>3 DEF new
  <2>3. SideStep(sd, sides', s) /\ sides'[s] = new
    BY <1>2, <1>4, <2>1, <2>2, SideReplaced
  <2> QED BY <1>2, <1>6, <2>1, <2>3
<1>12. ShapeInv(pool', sides') /\ Gains(pool, sd, pool', sides', s, p, idx)
  <2>1. lv2 = AppendOrder(lv, idx, node.volume)
    BY <1>9 DEF lv2
  <2>2. pool' = Put(pool, lv.tail, idx, node)
    BY DEF PlacesOrder
  <2> HIDE DEF lv2
  <2>3. ToSet(sides'[s]) = (ToSet(sd[s]) \ {lv}) \cup {AppendOrder(lv, idx, node.volume)}
    BY <1>11, <2>1
  <2> QED BY <1>2, <1>5, <1>6, <1>7, <1>9, <1>10, <1>11, <2>2, <2>3, AppendStep DEF B
<1> HIDE DEF lv2
<1>13. Gains(pool, sides, pool', sides', s, p, idx)
  BY <1>2, <1>12, GainsAfter
<1>14. SameOrders(pool, pool', B) /\ pool'[idx] = node
  <2>1. pool' = Put(pool, lv.tail, idx, node)
    BY DEF PlacesOrder
  <2>2. B \in SUBSET Nodes /\ idx \notin B /\ idx \in Nodes
    BY <1>7 DEF Busy
  <2> HIDE DEF B
  <2> QED BY <1>1, <2>1, <2>2, PutFrame
<1>15. SameIds(pool, pool', B) /\ SameSize(pool, pool', B)
       /\ pool'[idx].order_id = next_order_id /\ pool'[idx].volume = v
  BY <1>9, <1>14 DEF SameOrders
<1>16. PlaceInv(pool', sides', free_stack')
  BY <1>1, <1>7, <1>13, PlaceGain DEF B
<1>17. OrderInv(pool', free_stack', next_order_id')
  <2>1. next_order_id' = next_order_id + 1
    BY DEF PlacesOrder
  <2> QED BY <1>0, <1>1, <1>7, <1>15, <2>1, OrderGain DEF B
<1>18. MapInv(pool', free_stack', order_map') /\ SlotsTrue(pool', sides', free_stack', order_map')
  <2> DEFINE e == NewEntry(next_order_id, idx, p, s)
  <2>1. e = [key |-> next_order_id, val |-> idx, price_fp |-> p, side |-> s]
    BY DEF NewEntry
  <2>2. order_map' = map_insert(next_order_id, e)
    BY DEF PlacesOrder
  <2> HIDE DEF e
  <2>3. idx \in Nodes /\ idx \notin Busy(free_stack)
    BY <1>7
  <2>4. MapInv(pool', free_stack', map_insert(next_order_id, e))
        /\ SlotsTrue(pool', sides', free_stack', map_insert(next_order_id, e))
    BY <1>0, <1>1, <1>7, <1>13, <1>15, <2>1, <2>3, MapGain DEF B
  <2> QED BY <2>2, <2>4
<1>19. DueInv(pool', free_stack', due')
  <2>1. due' = WithDue(due, next_order_id, pool'[idx].volume)
    BY <1>15 DEF PlacesOrder
  <2>2. pool'[idx].volume \in Nat
    BY <1>15
  <2> QED BY <1>0, <1>1, <1>7, <1>15, <2>1, <2>2, DueGain DEF B
<1>20. BookInv'
  <2>1. taker' = taker
    BY DEF PlacesOrder
  <2> QED BY <1>1, <1>12, <1>16, <1>17, <1>18, <1>19, <2>1 DEF BookInv
<1> QED BY <1>7, <1>9, <1>13, <1>14, <1>15, <1>20 DEF Adds

\* Node cur, at place pos of the queue q of level k, is unlinked and released.
TakesOut(s, k, lv, q, pos, cur, prev, lv2) ==
    /\ lv = sides[s][k] /\ Unlinks(pool, lv, q, pos, cur, prev, pool', lv2)
    /\ sides' = WithSide(sides, s, DropLevel(sides[s], k, lv2))
    /\ free_stack' = Append(free_stack, cur)
    /\ order_map' = map_erase(pool[cur].order_id)
    /\ due' = DueLessBy(due, pool[cur].order_id, pool[cur].volume)
    /\ next_order_id' = next_order_id

LEMMA DropsOrder ==
    ASSUME BookInv, NEW s \in Sides, NEW k \in 1..Len(sides[s]), NEW lv, NEW q, NEW pos, NEW cur,
           NEW prev, NEW lv2, TakesOut(s, k, lv, q, pos, cur, prev, lv2), taker' \in Taker
    PROVE  BookInv' /\ Drops(cur)
<1> DEFINE B == Busy(free_stack)
           C == B \ {cur}
<1>1. /\ ShapeInv(pool, sides) /\ PlaceInv(pool, sides, free_stack)
      /\ OrderInv(pool, free_stack, next_order_id)
      /\ SlotsTrue(pool, sides, free_stack, order_map)
      /\ MapInv(pool, free_stack, order_map) /\ DueInv(pool, free_stack, due)
      /\ free_stack \in Seq(Nodes) /\ Once(free_stack) /\ pool \in [Nodes -> Node]
  BY BookInvFacts
<1>2. /\ lv = sides[s][k] /\ Unlinks(pool, lv, q, pos, cur, prev, pool', lv2)
      /\ q = Queue(pool, lv.head) /\ pos \in 1..Len(q) /\ cur = q[pos]
      /\ pool' = Unlink(pool, cur, prev, pool[cur].next)
  BY DEF TakesOut, Unlinks
<1>3. lv \in ToSet(sides[s]) /\ Good(pool, lv, q)
  <2>1. sides[s] \in Seq(Level)
    BY <1>1, ShapeFacts
  <2>2. lv \in ToSet(sides[s])
    <3>1. ToSet(sides[s]) = {sides[s][j] : j \in 1..Len(sides[s])}
      BY <2>1, ToSetIs
    <3> QED BY <1>2, <3>1
  <2> QED BY <1>1, <1>2, <2>2, ShapeFacts
<1>4. cur \in ToSet(q) /\ cur \in Nodes
  <2>1. ToSet(q) = {q[j] : j \in 1..Len(q)} /\ ToSet(q) \subseteq Nodes
    BY <1>3, GoodFacts
  <2> QED BY <1>2, <2>1
<1>5. cur \in B
  BY <1>1, <1>2, <1>3, <1>4, Apart
<1>6. lv2 \in Level /\ lv2.price_fp = lv.price_fp
  <2>1. Good(pool', lv2, RemoveAt(q, pos)) /\ lv2.price_fp = lv.price_fp
    <3>1. /\ pool \in [Nodes -> Node] /\ Good(pool, lv, q)
          /\ Unlinks(pool, lv, q, pos, cur, prev, pool', lv2)
      BY <1>1, <1>2, <1>3
    <3> QED BY <3>1, UnlinkGood
  <2> QED BY <2>1 DEF Good
<1>7. /\ SideStep(sides, sides', s)
      /\ ToSet(sides'[s]) = LeftOf(ToSet(sides[s]), lv, lv2)
  <2>1. sides' = WithSide(sides, s, DropLevel(sides[s], k, lv2)) /\ lv2.price_fp = sides[s][k].price_fp
    BY <1>2, <1>6 DEF TakesOut
  <2>2. /\ SideStep(sides, sides', s)
        /\ ToSet(sides'[s]) = LeftOf(ToSet(sides[s]), sides[s][k], lv2)
    BY <1>1, <1>6, <2>1, DropStep
  <2> QED BY <1>2, <2>2
<1>8. ShapeInv(pool', sides') /\ Loses(pool, sides, pool', sides', cur)
  BY <1>1, <1>2, <1>3, <1>7, UnlinkStep
<1>9. free_stack' \in Seq(Nodes) /\ Once(free_stack') /\ Busy(free_stack') = C
  <2>1. free_stack' = Append(free_stack, cur)
    BY DEF TakesOut
  <2> QED BY <1>1, <1>5, <2>1, AppendStack
<1>10. SameOrders(pool, pool', C)
  <2>1. C \in SUBSET Nodes /\ cur \notin C
    BY DEF Busy
  <2> HIDE DEF C
  <2> QED BY <1>1, <1>2, <2>1, UnlinkFrame
<1>11. SameIds(pool, pool', C) /\ SameSize(pool, pool', C)
  BY <1>10 DEF SameOrders
<1>12. PlaceInv(pool', sides', free_stack')
  BY <1>1, <1>8, <1>9, PlaceLose
<1>13. OrderInv(pool', free_stack', next_order_id')
  <2>1. next_order_id' = next_order_id
    BY DEF TakesOut
  <2>2. Busy(free_stack') \subseteq Busy(free_stack) /\ SameIds(pool, pool', Busy(free_stack'))
    BY <1>9, <1>11
  <2> QED BY <1>1, <2>1, <2>2, OrderLose
<1>14. MapInv(pool', free_stack', order_map') /\ SlotsTrue(pool', sides', free_stack', order_map')
  <2>1. order_map' = map_erase(pool[cur].order_id)
    BY DEF TakesOut
  <2>2. SameIds(pool, pool', Busy(free_stack')) /\ Busy(free_stack') = Busy(free_stack) \ {cur}
    BY <1>9, <1>11
  <2> QED BY <1>1, <1>5, <1>8, <2>1, <2>2, MapLose
<1>15. DueInv(pool', free_stack', due')
  <2> DEFINE v == pool[cur].volume
  <2>1. due' = DueLessBy(due, pool[cur].order_id, v) /\ v \in Nat
    <3>1. pool[cur] \in Node
      BY <1>1, <1>4
    <3> QED BY <3>1 DEF TakesOut, Node
  <2>2. SameIds(pool, pool', Busy(free_stack')) /\ Busy(free_stack') = Busy(free_stack) \ {cur}
        /\ SameSize(pool, pool', Busy(free_stack') \ {cur})
    BY <1>9, <1>11 DEF SameSize
  <2>3. v = pool[cur].volume /\ v <= pool[cur].volume
    BY <2>1
  <2> HIDE DEF v
  <2> QED BY <1>1, <1>5, <2>1, <2>2, <2>3, DueLess
<1>16. BookInv'
  BY <1>8, <1>12, <1>13, <1>14, <1>15 DEF BookInv
<1> QED BY <1>5, <1>8, <1>9, <1>10, <1>16 DEF Drops

-----------------------------------------------------------------------------
(* Each action keeps the invariant *)

LEMMA SameBook ==
    ASSUME BookInv, pool' = pool, free_stack' = free_stack, order_map' = order_map,
           next_order_id' = next_order_id, due' = due, taker' \in Taker,
           ShapeInv(pool, sides'), Keeps(pool, sides, pool, sides')
    PROVE  BookInv'
<1>1. /\ PlaceInv(pool, sides, free_stack) /\ OrderInv(pool, free_stack, next_order_id)
      /\ SlotsTrue(pool, sides, free_stack, order_map)
      /\ MapInv(pool, free_stack, order_map) /\ DueInv(pool, free_stack, due)
  BY BookInvFacts
<1>2. PlaceInv(pool, sides', free_stack)
  BY <1>1, PlaceKeep
<1>3. SlotsTrue(pool, sides', free_stack, order_map)
  <2>1. SameIds(pool, pool, Busy(free_stack))
    BY DEF SameIds
  <2> QED BY <1>1, <2>1, MapKeep
<1> QED BY <1>1, <1>2, <1>3 DEF BookInv

\* The orders stay where they are.
Stays == /\ pool' = pool /\ free_stack' = free_stack /\ next_order_id' = next_order_id
         /\ Keeps(pool, sides, pool', sides')

LEMMA AddInv ==
    ASSUME BookInv, NEW s \in Sides, NEW p \in Prices, NEW v \in Volumes, NEW who \in Participants,
           add_limit(s, p, v, who)
    PROVE  /\ BookInv' /\ taker' = taker /\ taker = Idle
           /\ \/ Stays
              \/ next_order_id' = next_order_id + 1 /\ \E idx : Adds(s, p, v, who, idx)
<1>0. p \in Nat /\ v \in Nat /\ who \in Int
  BY LOBAssumption
<1>1. taker \in Taker /\ ShapeInv(pool, sides) /\ taker = Idle
  BY BookInvFacts DEF add_limit
<1>2. CASE UNCHANGED lobVars
  <2>1. /\ pool' = pool /\ free_stack' = free_stack /\ order_map' = order_map /\ sides' = sides
        /\ next_order_id' = next_order_id /\ due' = due /\ taker' = taker
    BY <1>2 DEF lobVars
  <2>2. Keeps(pool, sides, pool, sides') /\ ShapeInv(pool, sides')
    BY <1>1, <2>1 DEF Keeps
  <2>3. BookInv'
    BY <1>1, <2>1, <2>2, SameBook
  <2> QED BY <1>1, <2>1, <2>2, <2>3 DEF Stays
<1>3. CASE /\ get_or_create(s, p) # <<>>
           /\ sides' = [sides EXCEPT ![s] = get_or_create(s, p)]
           /\ UNCHANGED <<pool, free_stack, order_map, next_order_id, taker, due>>
  <2>1. /\ pool' = pool /\ free_stack' = free_stack /\ order_map' = order_map
        /\ next_order_id' = next_order_id /\ due' = due /\ taker' = taker
    BY <1>3
  <2>2. sides' = WithSide(sides, s, get_or_create(s, p)) /\ get_or_create(s, p) # <<>>
    BY <1>3 DEF WithSide
  <2>3. ShapeInv(pool, sides') /\ Keeps(pool, sides, pool, sides')
    BY <1>0, <2>2, LevelReady
  <2>4. BookInv'
    BY <1>1, <2>1, <2>3, SameBook
  <2> QED BY <1>1, <2>1, <2>3, <2>4 DEF Stays
<1>4. CASE \E k, idx, lv, node : PlacesOrder(s, p, v, who, get_or_create(s, p), k, idx, lv, node)
  <2>1. PICK k, idx, lv, node : PlacesOrder(s, p, v, who, get_or_create(s, p), k, idx, lv, node)
    BY <1>4
  <2>2. BookInv' /\ Adds(s, p, v, who, idx)
    BY <1>0, <2>1, AddsOrder
  <2>3. next_order_id' = next_order_id + 1 /\ taker' = taker
    BY <2>1 DEF PlacesOrder
  <2> QED BY <1>1, <2>2, <2>3
<1>5. \/ UNCHANGED lobVars
      \/ /\ get_or_create(s, p) # <<>>
         /\ sides' = [sides EXCEPT ![s] = get_or_create(s, p)]
         /\ UNCHANGED <<pool, free_stack, order_map, next_order_id, taker, due>>
      \/ \E k, idx, lv, node : PlacesOrder(s, p, v, who, get_or_create(s, p), k, idx, lv, node)
  <2> DEFINE lvs == get_or_create(s, p)
             k   == CHOOSE j \in DOMAIN lvs : lvs[j].price_fp = p
             idx == Alloc
             id  == next_order_id
             node == NewNode(id, v, who)
  <2>1. CASE UNCHANGED lobVars
    BY <2>1
  <2>2. CASE /\ lvs # <<>> /\ ~CanAlloc
             /\ sides' = [sides EXCEPT ![s] = lvs]
             /\ UNCHANGED <<pool, free_stack, order_map, next_order_id, taker, due>>
    BY <2>2
  <2>3. CASE /\ lvs # <<>> /\ CanAlloc
             /\ free_stack' = Front(free_stack)
             /\ pool' = [i \in Nodes |->
                    IF i = idx
                    THEN [order_id |-> id, volume |-> v, participant |-> who, next |-> NULL]
                    ELSE IF i = lvs[k].tail THEN [pool[i] EXCEPT !.next = idx]
                    ELSE pool[i]]
             /\ sides' = [sides EXCEPT ![s] = [lvs EXCEPT ![k] = AppendOrder(@, idx, v)]]
             /\ order_map' = map_insert(id, [key |-> id, val |-> idx, price_fp |-> p, side |-> s])
             /\ next_order_id' = id + 1
             /\ due' = [due EXCEPT ![id] = v]
             /\ UNCHANGED taker
    <3>1. lvs # <<>> /\ free_stack # <<>> /\ free_stack' = Front(free_stack) /\ taker' = taker
          /\ next_order_id' = next_order_id + 1 /\ idx = free_stack[Len(free_stack)]
      BY <2>3 DEF CanAlloc, Alloc
    <3>2. next_order_id \in Ids
      BY DEF add_limit
    <3> HIDE DEF lvs, k, idx
    <3>3. pool' = Put(pool, lvs[k].tail, idx, node)
      BY <2>3 DEF Put, NewNode
    <3>4. sides' = WithSide(sides, s, WithLevel(lvs, k, AppendOrder(lvs[k], idx, v)))
      BY <2>3 DEF WithSide, WithLevel
    <3>5. order_map' = map_insert(id, NewEntry(id, idx, p, s)) /\ due' = WithDue(due, id, v)
      BY <2>3 DEF NewEntry, WithDue
    <3>6. k = CHOOSE j \in DOMAIN lvs : lvs[j].price_fp = p
      BY DEF k
    <3>7. PlacesOrder(s, p, v, who, lvs, k, idx, lvs[k], node)
      <4>1. lvs = get_or_create(s, p)
        BY DEF lvs
      <4> HIDE DEF node
      <4>2. node = NewNode(next_order_id, v, who)
        BY DEF node
      <4> QED BY <3>1, <3>2, <3>3, <3>4, <3>5, <3>6, <4>1, <4>2 DEF PlacesOrder
    <3>8. \E a, b, c, d : PlacesOrder(s, p, v, who, lvs, a, b, c, d)
      <4> HIDE DEF node
      <4> QED BY <3>7
    <3> QED BY <3>8 DEF lvs
  <2> QED BY <2>1, <2>2, <2>3 DEF add_limit
<1> QED BY <1>2, <1>3, <1>4, <1>5

LEMMA FoundSlot ==
    ASSUME NEW id \in Ids, map_find(id) # MapSize
    PROVE  map_find(id) \in MapSlots /\ order_map[map_find(id)].key = id
<1> DEFINE i == FirstProbe(id, {id, EMPTY})
<1>1. i # MapSize /\ order_map[Probe(id, i)].key = id /\ map_find(id) = Probe(id, i)
  BY DEF map_find
<1>2. i \in MapSlots
  BY <1>1, FirstProbeIs
<1>3. i \in Nat /\ id \in Nat
  BY <1>2, SlotNumbers, KeyFacts
<1> HIDE DEF i
<1> QED BY <1>1, <1>3, ProbeFacts

\* What the slot of an id says about the book.
LEMMA SlotFacts ==
    ASSUME BookInv, NEW id \in Ids, map_find(id) # MapSize, NEW e, e = order_map[map_find(id)]
    PROVE  /\ e.val \in Busy(free_stack) /\ pool[e.val].order_id = id
           /\ e.side \in Sides /\ e.price_fp \in Nat
           /\ Rests(pool, sides, e.side, e.price_fp, e.val)
<1>1. map_find(id) \in MapSlots /\ order_map[map_find(id)].key = id
  BY FoundSlot
<1>2. SlotsTrue(pool, sides, free_stack, order_map) /\ order_map \in [MapSlots -> Entry]
  BY BookInvFacts
<1>3. e \in Entry /\ e.key = id
  BY <1>1, <1>2
<1>4. e.side \in Sides /\ e.price_fp \in Nat
  BY <1>3 DEF Entry
<1> QED BY <1>1, <1>2, <1>3, <1>4 DEF SlotsTrue

\* A node that rests is found in the queue of its level.
LEMMA FoundLevel ==
    ASSUME BookInv, NEW s \in Sides, NEW p \in Nat, NEW i, Rests(pool, sides, s, p, i),
           NEW k, k = find(s, p), k # 0
    PROVE  /\ k \in 1..Len(sides[s]) /\ sides[s][k].price_fp = p /\ sides[s][k] \in ToSet(sides[s])
           /\ i \in ToSet(Queue(pool, sides[s][k].head))
<1>1. ShapeInv(pool, sides)
  BY BookInvFacts
<1>2. sides[s] \in Seq(Level) /\ Sorted(s, sides[s]) /\ Len(sides[s]) \in Nat
  BY <1>1, ShapeFacts
<1>3. k \in 1..Len(sides[s]) /\ sides[s][k].price_fp = p
  <2>1. k \in 0..Len(sides[s]) /\ sides[s][k].price_fp = p
    BY <1>2, FindIs
  <2> QED BY <1>2, <2>1
<1>4. sides[s][k] \in ToSet(sides[s])
  <2>1. ToSet(sides[s]) = {sides[s][j] : j \in 1..Len(sides[s])}
    BY <1>2, ToSetIs
  <2> QED BY <1>3, <2>1
<1>5. i \in ToSet(Queue(pool, sides[s][k].head))
  <2> DEFINE lv == sides[s][k]
  <2>1. lv \in ToSet(sides[s]) /\ Rests(pool, sides, s, lv.price_fp, i)
    BY <1>3, <1>4
  <2> HIDE DEF lv
  <2>2. i \in ToSet(Queue(pool, lv.head))
    BY <1>1, <2>1, RestsAt
  <2> QED BY <2>2 DEF lv
<1> QED BY <1>3, <1>4, <1>5

LEMMA CancelInv ==
    ASSUME BookInv, NEW id \in Ids, cancel(id)
    PROVE  /\ BookInv' /\ taker' = taker /\ taker = Idle /\ next_order_id' = next_order_id
           /\ \E cur : Drops(cur) /\ pool[cur].order_id = id
<1> DEFINE e    == order_map[map_find(id)]
           s    == e.side
           cur  == e.val
           k    == find(s, e.price_fp)
           lv   == sides[s][k]
           q    == Queue(pool, lv.head)
           pos  == CHOOSE j \in DOMAIN q : q[j] = cur
           prev == Before(q, pos)
           lv2  == Shorter(lv, cur, prev, pool[cur].next, pool[cur].volume)
<1>1. map_find(id) # MapSize /\ taker' = taker /\ taker = Idle /\ next_order_id' = next_order_id
  BY DEF cancel
<1>2. k # 0 /\ cur \in ToSet(q)
  BY DEF cancel
<1>3. pool' = Unlink(pool, cur, prev, pool[cur].next)
  BY DEF cancel, Unlink, Before
<1>4. sides' = WithSide(sides, s, DropLevel(sides[s], k, lv2))
  BY DEF cancel, WithSide, Shorter, Before
<1>5. free_stack' = Append(free_stack, cur) /\ order_map' = map_erase(id)
      /\ due' = DueLessBy(due, id, pool[cur].volume)
  BY DEF cancel, Release, DueLessBy
<1> HIDE DEF e
<1>6. /\ cur \in Busy(free_stack) /\ pool[cur].order_id = id
      /\ s \in Sides /\ e.price_fp \in Nat /\ Rests(pool, sides, s, e.price_fp, cur)
  <2>1. e = order_map[map_find(id)]
    BY DEF e
  <2> QED BY <1>1, <2>1, SlotFacts
<1> HIDE DEF s, cur, k
<1>7. k \in 1..Len(sides[s]) /\ lv \in ToSet(sides[s])
  <2>1. k = find(s, e.price_fp)
    BY DEF k
  <2> QED BY <1>2, <1>6, <2>1, FoundLevel
<1>8. q \in Seq(Nodes) /\ ToSet(q) = {q[j] : j \in 1..Len(q)}
  <2>1. ShapeInv(pool, sides)
    BY BookInvFacts
  <2> HIDE DEF lv
  <2>2. Good(pool, lv, q)
    BY <1>6, <1>7, <2>1, ShapeFacts
  <2> HIDE DEF q
  <2> QED BY <2>2, GoodFacts
<1> HIDE DEF lv, q
<1>9. pos \in 1..Len(q) /\ q[pos] = cur
  <2>1. DOMAIN q = 1..Len(q) /\ \E j \in 1..Len(q) : q[j] = cur
    BY <1>2, <1>8
  <2> QED BY <2>1
<1> HIDE DEF pos, prev, lv2
<1>10. Unlinks(pool, lv, q, pos, cur, prev, pool', lv2)
  <2>1. q = Queue(pool, lv.head) /\ prev = Before(q, pos)
        /\ lv2 = Shorter(lv, cur, prev, pool[cur].next, pool[cur].volume)
    BY DEF q, prev, lv2
  <2> QED BY <1>3, <1>9, <2>1 DEF Unlinks
<1>11. TakesOut(s, k, lv, q, pos, cur, prev, lv2)
  <2>1. lv = sides[s][k]
    BY DEF lv
  <2> QED BY <1>1, <1>4, <1>5, <1>6, <1>10, <2>1 DEF TakesOut
<1>12. taker' \in Taker
  BY <1>1, BookInvFacts
<1>13. BookInv' /\ Drops(cur)
  BY <1>6, <1>7, <1>11, <1>12, DropsOrder
<1> QED BY <1>1, <1>6, <1>13

LEMMA MarketInv ==
    ASSUME BookInv, NEW s \in Sides, NEW v \in Volumes, NEW who \in Participants,
           market_order(s, v, who)
    PROVE  BookInv' /\ Stays
<1>1. /\ pool' = pool /\ free_stack' = free_stack /\ order_map' = order_map /\ sides' = sides
      /\ next_order_id' = next_order_id /\ due' = due
  BY DEF market_order
<1>2. taker' \in Taker
  <2>1. v \in Nat /\ who \in Int
    BY LOBAssumption
  <2> QED BY <2>1 DEF market_order, Taker
<1>3. Keeps(pool, sides, pool, sides') /\ ShapeInv(pool, sides')
  BY <1>1, BookInvFacts DEF Keeps
<1> QED BY <1>1, <1>2, <1>3, SameBook DEF Stays

LEMMA DoneInv ==
    ASSUME BookInv, MatchDone
    PROVE  BookInv' /\ Stays
<1>1. /\ pool' = pool /\ free_stack' = free_stack /\ order_map' = order_map /\ sides' = sides
      /\ next_order_id' = next_order_id /\ due' = due
  BY DEF MatchDone
<1>2. taker' \in Taker
  BY DEF MatchDone, Taker, Idle, Sides
<1>3. Keeps(pool, sides, pool, sides') /\ ShapeInv(pool, sides')
  BY <1>1, BookInvFacts DEF Keeps
<1> QED BY <1>1, <1>2, <1>3, SameBook DEF Stays

\* The level that market_order looks at.
LEMMA BestFacts ==
    ASSUME BookInv, Matching, NEW s, s = taker.side, NEW lv, lv = sides[s][BestLevel]
    PROVE  /\ s \in Sides /\ BestLevel = 1 /\ BestLevel \in 1..Len(sides[s]) /\ lv \in Level
           /\ lv \in ToSet(sides[s]) /\ Good(pool, lv, Queue(pool, lv.head))
           /\ sides[s] \in Seq(Level) /\ Sorted(s, sides[s]) /\ Len(sides[s]) <= MaxLevels
           /\ taker \in Taker /\ taker.remaining \in Nat /\ taker.remaining > 0
<1>1. taker \in Taker /\ ShapeInv(pool, sides)
  BY BookInvFacts
<1>2. s \in Sides /\ taker.remaining \in Nat
  BY <1>1 DEF Taker
<1>3. taker.remaining > 0 /\ sides[s] # <<>>
  BY DEF Matching, Opposite
<1>4. sides[s] \in Seq(Level) /\ Sorted(s, sides[s]) /\ Len(sides[s]) <= MaxLevels
  BY <1>1, <1>2, ShapeFacts
<1>5. BestLevel = 1 /\ BestLevel \in 1..Len(sides[s])
  BY <1>3, <1>4 DEF BestLevel
<1>6. lv \in ToSet(sides[s])
  <2>1. ToSet(sides[s]) = {sides[s][j] : j \in 1..Len(sides[s])}
    BY <1>4, ToSetIs
  <2> QED BY <1>5, <2>1
<1>7. lv \in Level /\ Good(pool, lv, Queue(pool, lv.head))
  BY <1>1, <1>2, <1>6, ShapeFacts
<1> QED BY <1>1, <1>2, <1>3, <1>4, <1>5, <1>6, <1>7

LEMMA EmptyLevelInv ==
    ASSUME BookInv, MatchEmptyLevel
    PROVE  BookInv' /\ Stays /\ taker' = taker
<1> DEFINE s == taker.side
           lv == sides[s][BestLevel]
           lvs == RemoveAt(sides[s], BestLevel)
<1>1. /\ pool' = pool /\ free_stack' = free_stack /\ order_map' = order_map /\ taker' = taker
      /\ next_order_id' = next_order_id /\ due' = due
      /\ sides' = WithSide(sides, s, lvs) /\ Matching /\ lv.head = NULL
  BY DEF MatchEmptyLevel, WithSide, EraseBest, Opposite
<1>2. ShapeInv(pool, sides) /\ pool \in [Nodes -> Node]
  BY BookInvFacts
<1> HIDE DEF lv, s
<1>3. /\ s \in Sides /\ BestLevel \in 1..Len(sides[s]) /\ lv = sides[s][BestLevel]
      /\ lv \in ToSet(sides[s]) /\ Good(pool, lv, Queue(pool, lv.head))
      /\ sides[s] \in Seq(Level) /\ Sorted(s, sides[s]) /\ Len(sides[s]) <= MaxLevels
      /\ taker \in Taker
  <2>1. s = taker.side /\ lv = sides[s][BestLevel]
    BY DEF s, lv
  <2> QED BY <1>1, <2>1, BestFacts
<1>4. Queue(pool, lv.head) = <<>>
  BY <1>1, <1>3, GoodFacts
<1>5. SideStep(sides, sides', s) /\ ToSet(sides'[s]) = ToSet(sides[s]) \ {lv}
  <2>1. /\ lvs \in Seq(Level) /\ Len(lvs) = Len(sides[s]) - 1 /\ Sorted(s, lvs)
        /\ ToSet(lvs) = ToSet(sides[s]) \ {sides[s][BestLevel]}
    BY <1>3, RemoveLevel
  <2>2. Len(sides[s]) \in Nat /\ MaxLevels \in Nat
    BY <1>3, LOBAssumption
  <2>3. Len(lvs) <= MaxLevels
    BY <1>3, <2>1, <2>2
  <2> HIDE DEF lvs
  <2>4. SideStep(sides, sides', s) /\ sides'[s] = lvs
    BY <1>1, <1>2, <1>3, <2>1, <2>3, SideReplaced
  <2> QED BY <1>3, <2>1, <2>4
<1>6. ShapeInv(pool, sides') /\ Moved(pool, sides, pool, sides', s, lv.price_fp, ToSet(<<>>))
  <2>1. Others(pool, pool, sides, s, lv)
    BY DEF Others
  <2>2. Exchanged(sides, sides', s, lv, lv, <<>>)
    BY <1>5 DEF Exchanged
  <2>3. Good(pool, lv, <<>>)
    BY <1>3, <1>4
  <2> QED BY <1>2, <1>3, <1>5, <2>1, <2>2, <2>3, SwapLevel
<1>7. Keeps(pool, sides, pool, sides')
  <2> SUFFICES ASSUME NEW t \in Sides, NEW r \in Nat, NEW i \in Nodes
               PROVE  Rests(pool, sides', t, r, i) <=> Rests(pool, sides, t, r, i)
    BY DEF Keeps
  <2>1. CASE t = s /\ r = lv.price_fp
    <3>1. Rests(pool, sides, s, lv.price_fp, i) <=> i \in ToSet(<<>>)
      BY <1>2, <1>3, <1>4, RestsAt
    <3> QED BY <1>6, <2>1, <3>1 DEF Moved
  <2>2. CASE ~(t = s /\ r = lv.price_fp)
    BY <1>6, <2>2 DEF Moved
  <2> QED BY <2>1, <2>2
<1>8. BookInv'
  BY <1>1, <1>3, <1>6, <1>7, SameBook
<1> QED BY <1>1, <1>7, <1>8 DEF Stays

\* The maker: the first node of the best level.
LEMMA MakerFacts ==
    ASSUME BookInv, Matching, NEW s, s = taker.side, NEW lv, lv = sides[s][BestLevel],
           NEW idx, idx = lv.head, idx # NULL
    PROVE  /\ idx \in Nodes /\ idx \in Busy(free_stack) /\ pool[idx] \in Node
           /\ pool[idx].volume \in Nat
           /\ FillVol(pool[idx]) \in Nat /\ FillVol(pool[idx]) <= pool[idx].volume
           /\ FillVol(pool[idx]) <= taker.remaining
           /\ FillVol(pool[idx]) = IF taker.remaining < pool[idx].volume THEN taker.remaining
                                   ELSE pool[idx].volume
           /\ LET q == Queue(pool, lv.head)
              IN  1 \in 1..Len(q) /\ q[1] = idx /\ Before(q, 1) = NULL
<1> DEFINE q == Queue(pool, lv.head)
           r == taker.remaining
           w == pool[idx].volume
<1>1. /\ s \in Sides /\ lv \in ToSet(sides[s]) /\ Good(pool, lv, q) /\ r \in Nat
  BY BestFacts
<1>2. ShapeInv(pool, sides) /\ PlaceInv(pool, sides, free_stack) /\ pool \in [Nodes -> Node]
  BY BookInvFacts
<1>3. /\ q \in Seq(Nodes) /\ Len(q) \in Nat /\ ToSet(q) = {q[j] : j \in 1..Len(q)} /\ q # <<>>
  <2> HIDE DEF q
  <2> QED BY <1>1, GoodFacts
<1>4. 1 \in 1..Len(q) /\ q[1] = idx
  <2>1. Linked(pool, lv.head, q)
    BY <1>1 DEF Good
  <2> HIDE DEF q
  <2>2. Len(q) > 0
    BY <1>3
  <2> QED BY <1>3, <2>1, <2>2 DEF Linked
<1>5. idx \in ToSet(q)
  <2> HIDE DEF q
  <2> QED BY <1>3, <1>4
<1>6. idx \in Nodes /\ idx \in Busy(free_stack)
  BY <1>1, <1>2, <1>5, Apart
<1>7. pool[idx] \in Node /\ w \in Nat
  BY <1>2, <1>6 DEF Node
<1>8. FillVol(pool[idx]) = Min({r, w})
  BY DEF FillVol
<1> HIDE DEF r, w
<1>9. /\ Min({r, w}) \in Nat /\ Min({r, w}) <= w /\ Min({r, w}) <= r
      /\ Min({r, w}) = IF r < w THEN r ELSE w
  <2> DEFINE T == {r, w}
  <2>1. T \in SUBSET Nat /\ T # {} /\ r \in T /\ w \in T /\ \A y \in T : y = r \/ y = w
    BY <1>1, <1>7
  <2> HIDE DEF T
  <2>2. Min(T) \in T /\ \A y \in T : Min(T) <= y
    BY <2>1, MinIs
  <2>3. /\ Min(T) \in Nat /\ Min(T) <= w /\ Min(T) <= r /\ (Min(T) = r \/ Min(T) = w)
    BY <2>1, <2>2
  <2>4. Min(T) = IF r < w THEN r ELSE w
    BY <1>1, <1>7, <2>3
  <2> QED BY <2>3, <2>4 DEF T
<1>10. Before(q, 1) = NULL
  BY DEF Before
<1> QED BY <1>4, <1>6, <1>7, <1>8, <1>9, <1>10 DEF r, w

\* The order in node idx stays with left of its volume.
Shrinks(idx, left) ==
    /\ idx \in Busy(free_stack) /\ free_stack' = free_stack
    /\ Keeps(pool, sides, pool', sides')
    /\ SameOrders(pool, pool', Busy(free_stack) \ {idx})
    /\ pool'[idx].order_id = pool[idx].order_id /\ pool'[idx].volume = left
    /\ pool'[idx].participant = pool[idx].participant

\* A maker that is left with something.
PartFill(s, lv, idx, v, left) ==
    /\ left = pool[idx].volume - v
    /\ pool' = Filled(pool, idx, left)
    /\ sides' = WithSide(sides, s, WithLevel(sides[s], BestLevel, Lighter(lv, v)))
    /\ due' = DueLessBy(due, pool[idx].order_id, v)
    /\ order_map' = order_map /\ free_stack' = free_stack /\ next_order_id' = next_order_id

LEMMA ShrinksOrder ==
    ASSUME BookInv, Matching, NEW s, s = taker.side, NEW lv, lv = sides[s][BestLevel],
           NEW idx, idx = lv.head, idx # NULL, NEW v, v = FillVol(pool[idx]), NEW left \in Nat,
           PartFill(s, lv, idx, v, left), taker' \in Taker
    PROVE  BookInv' /\ Shrinks(idx, left)
<1> DEFINE lv2 == Lighter(lv, v)
           B == Busy(free_stack)
<1>1. /\ ShapeInv(pool, sides) /\ PlaceInv(pool, sides, free_stack)
      /\ OrderInv(pool, free_stack, next_order_id)
      /\ SlotsTrue(pool, sides, free_stack, order_map)
      /\ MapInv(pool, free_stack, order_map) /\ DueInv(pool, free_stack, due)
      /\ pool \in [Nodes -> Node]
  BY BookInvFacts
<1>2. /\ s \in Sides /\ BestLevel \in 1..Len(sides[s]) /\ lv \in ToSet(sides[s]) /\ lv \in Level
      /\ sides[s] \in Seq(Level) /\ Sorted(s, sides[s]) /\ Len(sides[s]) <= MaxLevels
  BY BestFacts
<1>3. idx \in Nodes /\ idx \in B /\ pool[idx].volume \in Nat /\ v \in Nat /\ v <= pool[idx].volume
  BY MakerFacts
<1>4. lv2 \in Level /\ lv2.price_fp = lv.price_fp
  BY <1>2, <1>3, LighterType
<1>5. /\ left = pool[idx].volume - v /\ pool' = Filled(pool, idx, left)
      /\ order_map' = order_map /\ free_stack' = free_stack /\ next_order_id' = next_order_id
      /\ due' = DueLessBy(due, pool[idx].order_id, v)
  BY DEF PartFill
<1>6. SideStep(sides, sides', s) /\ ToSet(sides'[s]) = (ToSet(sides[s]) \ {lv}) \cup {lv2}
  <2> HIDE DEF lv2
  <2> DEFINE new == WithLevel(sides[s], BestLevel, lv2)
  <2>0. lv2.price_fp = sides[s][BestLevel].price_fp
    BY <1>4
  <2>1. /\ new \in Seq(Level) /\ Len(new) = Len(sides[s]) /\ Sorted(s, new)
        /\ ToSet(new) = (ToSet(sides[s]) \ {sides[s][BestLevel]}) \cup {lv2}
    BY <1>2, <1>4, <2>0, ReplaceLevel
  <2>2. sides' = WithSide(sides, s, new)
    BY DEF PartFill, lv2
  <2> HIDE DEF new
  <2>3. SideStep(sides, sides', s) /\ sides'[s] = new
    BY <1>1, <1>2, <2>1, <2>2, SideReplaced
  <2> QED BY <2>1, <2>3
<1>7. ShapeInv(pool', sides') /\ Keeps(pool, sides, pool', sides')
  <2>1. Fills(pool, lv, v, left, pool', lv2)
    BY <1>5 DEF Fills
  <2> HIDE DEF lv2
  <2> QED BY <1>1, <1>2, <1>3, <1>6, <2>1, FillStep
<1>8. /\ SameOrders(pool, pool', B \ {idx})
      /\ pool'[idx].order_id = pool[idx].order_id /\ pool'[idx].volume = left
      /\ pool'[idx].participant = pool[idx].participant
  <2> DEFINE C == B \ {idx}
  <2>1. C \in SUBSET Nodes /\ idx \notin C
    BY DEF Busy
  <2> HIDE DEF C
  <2>2. SameOrders(pool, pool', C)
    BY <1>1, <1>3, <1>5, <2>1, FilledFrame
  <2>3. /\ pool'[idx].order_id = pool[idx].order_id /\ pool'[idx].volume = left
        /\ pool'[idx].participant = pool[idx].participant
    <3>1. pool \in [Nodes -> Node] /\ idx \in Nodes /\ pool' = Filled(pool, idx, left)
      BY <1>1, <1>3, <1>5
    <3>2. OnlyVolume(pool, pool', idx, left)
      BY <3>1, FilledNode
    <3> QED BY <3>2 DEF OnlyVolume
  <2> QED BY <2>2, <2>3 DEF C
<1>9. SameIds(pool, pool', B) /\ SameSize(pool, pool', B \ {idx})
  BY <1>8 DEF SameOrders, SameIds
<1>10. PlaceInv(pool', sides', free_stack')
  <2>1. PlaceInv(pool, sides, free_stack) /\ Keeps(pool, sides, pool', sides')
    BY <1>1, <1>7
  <2>2. PlaceInv(pool', sides', free_stack)
    BY <2>1, PlaceKeep
  <2> QED BY <1>5, <2>2
<1>11. OrderInv(pool', free_stack', next_order_id')
  BY <1>1, <1>5, <1>9, OrderLose
<1>12. MapInv(pool', free_stack', order_map') /\ SlotsTrue(pool', sides', free_stack', order_map')
  <2>1. MapInv(pool', free_stack, order_map) /\ SlotsTrue(pool', sides', free_stack, order_map)
    BY <1>1, <1>7, <1>9, MapKeep
  <2> QED BY <1>5, <2>1
<1>13. DueInv(pool', free_stack', due')
  <2>1. Busy(free_stack') = Busy(free_stack) /\ pool'[idx].volume = pool[idx].volume - v
        /\ SameIds(pool, pool', Busy(free_stack')) /\ SameSize(pool, pool', Busy(free_stack') \ {idx})
    BY <1>5, <1>8, <1>9
  <2> QED BY <1>1, <1>3, <1>5, <2>1, DueLess
<1>14. BookInv'
  BY <1>7, <1>10, <1>11, <1>12, <1>13 DEF BookInv
<1> QED BY <1>3, <1>5, <1>7, <1>8, <1>14 DEF Shrinks

LEMMA MakerInv ==
    ASSUME BookInv, MatchMaker
    PROVE  LET idx == sides[taker.side][BestLevel].head
               v   == FillVol(pool[idx])
           IN  /\ BookInv' /\ Matching /\ next_order_id' = next_order_id /\ idx # NULL
               /\ taker' = [taker EXCEPT !.remaining = @ - v]
               /\ \/ v = pool[idx].volume /\ Drops(idx)
                  \/ v # pool[idx].volume /\ Shrinks(idx, pool[idx].volume - v)
<1> DEFINE s    == taker.side
           lv   == sides[s][BestLevel]
           idx  == lv.head
           v    == FillVol(pool[idx])
           left == pool[idx].volume - v
           q    == Queue(pool, lv.head)
           nxt  == pool[idx].next
           lv2  == Shorter(lv, idx, NULL, nxt, v)
<1>1. /\ Matching /\ next_order_id' = next_order_id /\ idx # NULL
      /\ taker' = [taker EXCEPT !.remaining = @ - v]
      /\ due' = DueLessBy(due, pool[idx].order_id, v)
  BY DEF MatchMaker, Opposite, DueLessBy
<1>2. /\ s \in Sides /\ BestLevel \in 1..Len(sides[s]) /\ lv \in Level
      /\ taker \in Taker /\ taker.remaining \in Nat /\ pool \in [Nodes -> Node]
  BY <1>1, BestFacts, BookInvFacts
<1>3. /\ idx \in Nodes /\ pool[idx].volume \in Nat /\ v \in Nat /\ v <= pool[idx].volume
      /\ v <= taker.remaining /\ 1 \in 1..Len(q) /\ q[1] = idx /\ Before(q, 1) = NULL
  <2> HIDE DEF lv, s, idx
  <2>1. s = taker.side /\ lv = sides[s][BestLevel] /\ idx = lv.head
    BY DEF s, lv, idx
  <2> QED BY <1>1, <2>1, MakerFacts
<1>4. taker' \in Taker
  <2> HIDE DEF v
  <2>1. taker.remaining - v \in Nat
    BY <1>2, <1>3
  <2> QED BY <1>1, <1>2, <2>1 DEF Taker
<1>5. CASE left = 0
  <2>1. pool' = [pool EXCEPT ![idx] = FreeNode] /\ order_map' = map_erase(pool[idx].order_id)
        /\ free_stack' = Append(free_stack, idx)
    BY <1>5 DEF MatchMaker, Opposite, Left, Release
  <2>2. sides' = WithSide(sides, s, DropLevel(sides[s], BestLevel,
                   [[lv EXCEPT !.total_volume = @ - v]
                       EXCEPT !.head = nxt, !.tail = IF @ = idx THEN NULL ELSE @, !.count = @ - 1]))
    BY <1>5 DEF MatchMaker, Opposite, Left, WithSide
  <2> HIDE DEF v, lv, idx, s
  <2>3. v = pool[idx].volume
    BY <1>3, <1>5
  <2>4. lv2 = [[lv EXCEPT !.total_volume = @ - v]
                  EXCEPT !.head = nxt, !.tail = IF @ = idx THEN NULL ELSE @, !.count = @ - 1]
    BY <1>2 DEF Shorter, TailAfter, Level
  <2>5. pool' = Unlink(pool, idx, NULL, nxt)
    <3>1. NULL \notin Nodes
      BY DEF NULL, Nodes
    <3> QED BY <1>2, <2>1, <3>1 DEF Unlink
  <2>6. Unlinks(pool, lv, q, 1, idx, NULL, pool', lv2)
    <3>1. lv2 = Shorter(lv, idx, NULL, pool[idx].next, pool[idx].volume)
      BY <2>3
    <3> HIDE DEF lv2
    <3>2. q = Queue(pool, lv.head)
      OBVIOUS
    <3> HIDE DEF q
    <3> QED BY <1>3, <2>5, <3>1, <3>2 DEF Unlinks
  <2>7. TakesOut(s, BestLevel, lv, q, 1, idx, NULL, lv2)
    <3>1. sides' = WithSide(sides, s, DropLevel(sides[s], BestLevel, lv2))
      BY <2>2, <2>4
    <3>2. lv = sides[s][BestLevel]
      BY DEF lv
    <3> HIDE DEF lv2
    <3> QED BY <1>1, <2>1, <2>3, <2>6, <3>1, <3>2 DEF TakesOut
  <2>8. BookInv' /\ Drops(idx)
    <3> HIDE DEF lv2, q
    <3> QED BY <1>2, <1>4, <2>7, DropsOrder
  <2> QED BY <1>1, <2>3, <2>8 DEF v, lv, idx, s
<1>6. CASE left # 0
  <2>1. /\ pool' = Filled(pool, idx, left) /\ order_map' = order_map /\ free_stack' = free_stack
    BY <1>6 DEF MatchMaker, Opposite, Left, Filled
  <2>2. sides' = WithSide(sides, s, WithLevel(sides[s], BestLevel, Lighter(lv, v)))
    BY <1>6 DEF MatchMaker, Opposite, Left, WithSide, WithLevel, Lighter
  <2>3. s = taker.side /\ lv = sides[s][BestLevel] /\ idx = lv.head /\ v = FillVol(pool[idx])
    BY DEF s, lv, idx, v
  <2> HIDE DEF v, lv, idx, s
  <2>4. left \in Nat /\ v # pool[idx].volume
    BY <1>3, <1>6
  <2>5. PartFill(s, lv, idx, v, left)
    BY <1>1, <2>1, <2>2 DEF PartFill
  <2> HIDE DEF left
  <2>6. BookInv' /\ Shrinks(idx, left)
    BY <1>1, <1>4, <2>3, <2>4, <2>5, ShrinksOrder
  <2> QED BY <1>1, <2>4, <2>6 DEF v, lv, idx, s, left
<1> QED BY <1>5, <1>6

LEMMA BookStepInv == BookInv /\ [BookStep]_lobVars => BookInv'
<1> SUFFICES ASSUME BookInv, [BookStep]_lobVars PROVE BookInv'
  OBVIOUS
<1>1. ASSUME NEW s \in Sides, NEW p \in Prices, NEW v \in Volumes, NEW who \in Participants,
             add_limit(s, p, v, who)
      PROVE  BookInv'
  BY <1>1, AddInv
<1>2. ASSUME NEW id \in Ids, cancel(id) PROVE BookInv'
  BY <1>2, CancelInv
<1>3. ASSUME NEW s \in Sides, NEW v \in Volumes, NEW who \in Participants, market_order(s, v, who)
      PROVE  BookInv'
  BY <1>3, MarketInv
<1>4. CASE MatchEmptyLevel
  BY <1>4, EmptyLevelInv
<1>5. CASE MatchMaker
  BY <1>5, MakerInv
<1>6. CASE MatchDone
  BY <1>6, DoneInv
<1>7. CASE UNCHANGED lobVars
  <2>1. /\ pool' = pool /\ free_stack' = free_stack /\ order_map' = order_map /\ sides' = sides
        /\ next_order_id' = next_order_id /\ due' = due /\ taker' = taker
    BY <1>7 DEF lobVars
  <2> QED BY <2>1 DEF BookInv
<1> QED BY <1>1, <1>2, <1>3, <1>4, <1>5, <1>6, <1>7 DEF BookStep

(* The inductive invariant of the order book holds throughout: every level   *)
(* heads the queue its summary describes, every node rests in one place or   *)
(* is free, and the map and the history agree with who rests where.          *)
THEOREM BookInvariant == BookSpec => []BookInv
<1>1. EmptyBook => BookInv
  BY BookStart
<1>2. BookInv /\ [BookStep]_lobVars => BookInv'
  BY BookStepInv
<1> QED BY <1>1, <1>2, PTL DEF BookSpec

-----------------------------------------------------------------------------
(* The invariant implies what the run checks *)

Item(s, p, i) == [id |-> pool[i].order_id, idx |-> i, side |-> s, price_fp |-> p]

LEMMA ItemFields ==
    ASSUME NEW s, NEW p, NEW i
    PROVE  /\ Item(s, p, i).id = pool[i].order_id /\ Item(s, p, i).idx = i
           /\ Item(s, p, i).side = s /\ Item(s, p, i).price_fp = p
BY DEF Item

LEMMA HeldIs ==
    ASSUME NEW h
    PROVE  h \in Held <=> \E s \in Sides : \E k \in DOMAIN sides[s] : \E i \in ToSet(QueueOf(s, k)) :
                             h = Item(s, sides[s][k].price_fp, i)
<1> DEFINE Items(s, k) == {Item(s, sides[s][k].price_fp, i) : i \in ToSet(QueueOf(s, k))}
           OfSide(s)   == UNION {Items(s, k) : k \in DOMAIN sides[s]}
<1>1. Held = UNION {OfSide(s) : s \in Sides}
  BY DEF Held, Item
<1>2. h \in Held <=> \E s \in Sides : h \in OfSide(s)
  <2> HIDE DEF OfSide
  <2> QED BY <1>1
<1>3. \A s : h \in OfSide(s) <=> \E k \in DOMAIN sides[s] : h \in Items(s, k)
  <2> HIDE DEF Items
  <2> QED OBVIOUS
<1>4. \A s, k : h \in Items(s, k) <=> \E i \in ToSet(QueueOf(s, k)) : h = Item(s, sides[s][k].price_fp, i)
  OBVIOUS
<1> HIDE DEF Items, OfSide
<1> QED BY <1>2, <1>3, <1>4

\* A level of the book by its place.
LEMMA LevelAt ==
    ASSUME BookInv, NEW s \in Sides, NEW k \in DOMAIN sides[s], NEW lv, lv = sides[s][k]
    PROVE  /\ k \in 1..Len(sides[s]) /\ lv \in ToSet(sides[s]) /\ lv \in Level /\ lv.price_fp \in Nat
           /\ Good(pool, lv, Queue(pool, lv.head))
           /\ sides[s] \in Seq(Level) /\ Sorted(s, sides[s])
<1>1. ShapeInv(pool, sides)
  BY BookInvFacts
<1>2. sides[s] \in Seq(Level) /\ Sorted(s, sides[s])
  BY <1>1, ShapeFacts
<1>3. k \in 1..Len(sides[s])
  BY <1>2
<1>4. lv \in ToSet(sides[s])
  <2>1. ToSet(sides[s]) = {sides[s][j] : j \in 1..Len(sides[s])}
    BY <1>2, ToSetIs
  <2> QED BY <1>3, <2>1
<1> QED BY <1>1, <1>2, <1>3, <1>4, ShapeFacts

\* Held is who rests where.
LEMMA HeldRests ==
    ASSUME BookInv, NEW h \in Held
    PROVE  \E s \in Sides : \E p \in Nat : \E i \in Busy(free_stack) :
               h = Item(s, p, i) /\ Rests(pool, sides, s, p, i)
<1>1. PICK s \in Sides : \E k \in DOMAIN sides[s] : \E i \in ToSet(QueueOf(s, k)) :
               h = Item(s, sides[s][k].price_fp, i)
  BY HeldIs
<1>2. PICK k \in DOMAIN sides[s] : \E i \in ToSet(QueueOf(s, k)) :
               h = Item(s, sides[s][k].price_fp, i)
  BY <1>1
<1>3. PICK i \in ToSet(QueueOf(s, k)) : h = Item(s, sides[s][k].price_fp, i)
  BY <1>2
<1> DEFINE lv == sides[s][k]
<1>4. lv \in ToSet(sides[s]) /\ lv.price_fp \in Nat
  BY LevelAt
<1>5. ShapeInv(pool, sides) /\ PlaceInv(pool, sides, free_stack)
  BY BookInvFacts
<1>6. i \in ToSet(Queue(pool, lv.head))
  BY DEF QueueOf
<1>7. h = Item(s, lv.price_fp, i)
  BY <1>3
<1> HIDE DEF lv
<1>8. i \in Busy(free_stack) /\ Rests(pool, sides, s, lv.price_fp, i)
  BY <1>4, <1>5, <1>6, Apart
<1> QED BY <1>4, <1>7, <1>8

LEMMA RestsPlace ==
    ASSUME BookInv, NEW s \in Sides, NEW p, NEW i, Rests(pool, sides, s, p, i)
    PROVE  \E k \in DOMAIN sides[s] : sides[s][k].price_fp = p /\ i \in ToSet(QueueOf(s, k))
<1>1. PICK lv \in ToSet(sides[s]) : lv.price_fp = p /\ i \in ToSet(Queue(pool, lv.head))
  BY DEF Rests
<1>2. sides[s] \in Seq(Level)
  BY BookInvFacts
<1>3. PICK k \in 1..Len(sides[s]) : sides[s][k] = lv
  <2>1. ToSet(sides[s]) = {sides[s][j] : j \in 1..Len(sides[s])}
    BY <1>2, ToSetIs
  <2> QED BY <2>1
<1>4. k \in DOMAIN sides[s]
  BY <1>2
<1> QED BY <1>1, <1>3, <1>4 DEF QueueOf

LEMMA RestsHeld ==
    ASSUME BookInv, NEW s \in Sides, NEW p, NEW i, Rests(pool, sides, s, p, i)
    PROVE  Item(s, p, i) \in Held
BY RestsPlace, HeldIs

\* The orders held and the nodes in use.
LEMMA BusyHeld ==
    ASSUME BookInv, NEW i \in Busy(free_stack)
    PROVE  \E s \in Sides : \E p \in Nat : Rests(pool, sides, s, p, i) /\ Item(s, p, i) \in Held
<1>1. PlaceInv(pool, sides, free_stack) /\ i \in Nodes
  BY BookInvFacts DEF Busy
<1>2. PICK s \in Sides, p \in Nat : Rests(pool, sides, s, p, i)
  BY <1>1 DEF PlaceInv
<1> QED BY <1>2, RestsHeld

LEMMA TypedHolds == BookInv => BookTyped
<1> SUFFICES ASSUME BookInv PROVE BookTyped
  OBVIOUS
<1>1. pool \in [Nodes -> Node] /\ free_stack \in Seq(Nodes) /\ ShapeInv(pool, sides)
      /\ OrderInv(pool, free_stack, next_order_id) /\ taker \in Taker
  BY BookInvFacts
<1>2. \A s \in Sides : Len(sides[s]) <= MaxLevels
  BY <1>1, ShapeFacts
<1>3. next_order_id \in 1 .. MaxOrders + 1 /\ taker.remaining \in Nat
  BY <1>1 DEF OrderInv, Taker
<1>4. \A i \in DOMAIN free_stack : free_stack[i] \in Nodes
  BY <1>1
<1> QED BY <1>1, <1>2, <1>3, <1>4 DEF BookTyped, Node

LEMMA PartitionHolds == BookInv => PoolPartition
<1> SUFFICES ASSUME BookInv PROVE PoolPartition
  OBVIOUS
<1>0. ShapeInv(pool, sides) /\ PlaceInv(pool, sides, free_stack)
      /\ free_stack \in Seq(Nodes) /\ Once(free_stack)
  BY BookInvFacts
<1>1. \A x, y \in DOMAIN free_stack : free_stack[x] = free_stack[y] => x = y
  BY <1>0 DEF Once
<1>2. ASSUME NEW s \in Sides, NEW t \in Sides, NEW k \in DOMAIN sides[s], NEW l \in DOMAIN sides[t],
             NEW x \in DOMAIN QueueOf(s, k), NEW y \in DOMAIN QueueOf(t, l),
             QueueOf(s, k)[x] = QueueOf(t, l)[y]
      PROVE  s = t /\ k = l /\ x = y
  <2> DEFINE lv == sides[s][k]
             m  == sides[t][l]
             q  == Queue(pool, lv.head)
             r  == Queue(pool, m.head)
             i  == q[x]
  <2>1. /\ k \in 1..Len(sides[s]) /\ lv \in ToSet(sides[s]) /\ Good(pool, lv, q)
        /\ sides[s] \in Seq(Level) /\ Sorted(s, sides[s])
    BY LevelAt
  <2>2. l \in 1..Len(sides[t]) /\ m \in ToSet(sides[t]) /\ Good(pool, m, r)
    BY LevelAt
  <2>3. x \in DOMAIN q /\ y \in DOMAIN r /\ r[y] = i
    BY <1>2 DEF QueueOf
  <2> HIDE DEF q, r
  <2>4. /\ q \in Seq(Nodes) /\ ToSet(q) = {q[j] : j \in 1..Len(q)}
        /\ \A a, b \in 1..Len(q) : q[a] = q[b] => a = b
    BY <2>1, GoodFacts
  <2>5. r \in Seq(Nodes) /\ ToSet(r) = {r[j] : j \in 1..Len(r)}
    BY <2>2, GoodFacts
  <2>6. x \in 1..Len(q) /\ y \in 1..Len(r) /\ i \in ToSet(q) /\ i \in ToSet(r)
    BY <2>3, <2>4, <2>5
  <2> HIDE DEF i
  <2>7. i \in ToSet(Queue(pool, lv.head)) /\ i \in ToSet(Queue(pool, m.head))
    BY <2>6 DEF q, r
  <2> HIDE DEF lv, m
  <2>8. s = t /\ lv = m
    BY <1>0, <2>1, <2>2, <2>7, Apart
  <2>9. k = l
    BY <2>1, <2>2, <2>8, PricesDiffer DEF lv, m
  <2>10. q = r
    BY <2>8 DEF q, r
  <2>11. x = y
    BY <2>3, <2>4, <2>6, <2>10 DEF i
  <2> QED BY <2>8, <2>9, <2>11
<1>3. ASSUME NEW i \in Nodes
      PROVE  i \in ToSet(free_stack) <=>
                ~\E s \in Sides : \E k \in DOMAIN sides[s] : i \in ToSet(QueueOf(s, k))
  <2>1. ASSUME i \notin ToSet(free_stack)
        PROVE  \E s \in Sides : \E k \in DOMAIN sides[s] : i \in ToSet(QueueOf(s, k))
    <3>1. i \in Busy(free_stack)
      BY <2>1 DEF Busy
    <3>2. PICK s \in Sides, p \in Nat : Rests(pool, sides, s, p, i)
      BY <3>1, BusyHeld
    <3> QED BY <3>2, RestsPlace
  <2>2. ASSUME NEW s \in Sides, NEW k \in DOMAIN sides[s], i \in ToSet(QueueOf(s, k))
        PROVE  i \notin ToSet(free_stack)
    <3> DEFINE lv == sides[s][k]
    <3>1. lv \in ToSet(sides[s])
      BY LevelAt
    <3>2. i \in ToSet(Queue(pool, lv.head))
      BY <2>2 DEF QueueOf
    <3> HIDE DEF lv
    <3>3. i \in Busy(free_stack)
      BY <1>0, <3>1, <3>2, Apart
    <3> QED BY <3>3 DEF Busy
  <2> QED BY <2>1, <2>2
<1>4. \A s, t \in Sides : \A k \in DOMAIN sides[s], l \in DOMAIN sides[t] :
         \A x \in DOMAIN QueueOf(s, k), y \in DOMAIN QueueOf(t, l) :
            QueueOf(s, k)[x] = QueueOf(t, l)[y] => <<s, k, x>> = <<t, l, y>>
  BY <1>2
<1> QED BY <1>1, <1>3, <1>4 DEF PoolPartition

LEMMA LevelsHold == BookInv => LevelsSorted /\ LevelSummary
<1> SUFFICES ASSUME BookInv PROVE LevelsSorted /\ LevelSummary
  OBVIOUS
<1>1. ShapeInv(pool, sides)
  BY BookInvFacts
<1>2. LevelsSorted
  <2> SUFFICES ASSUME NEW s \in Sides, NEW k \in 1 .. Len(sides[s]) - 1
               PROVE  Better(s, sides[s][k].price_fp, sides[s][k + 1].price_fp)
    BY DEF LevelsSorted
  <2>1. sides[s] \in Seq(Level) /\ Sorted(s, sides[s])
    BY <1>1, ShapeFacts
  <2>2. Len(sides[s]) \in Nat
    BY <2>1
  <2>3. k \in 1..Len(sides[s]) /\ k + 1 \in 1..Len(sides[s]) /\ k < k + 1
    BY <2>2
  <2> QED BY <2>1, <2>3 DEF Sorted
<1>3. ASSUME NEW s \in Sides, NEW k \in DOMAIN sides[s], NEW lv, lv = sides[s][k],
             NEW q, q = QueueOf(s, k)
      PROVE  /\ lv.total_volume = SumVolume(q) /\ lv.count = Len(q)
             /\ lv.tail = IF q = <<>> THEN NULL ELSE Last(q)
  <2>1. q = Queue(pool, lv.head)
    BY <1>3 DEF QueueOf
  <2>2. Good(pool, lv, q)
    BY <1>3, <2>1, LevelAt
  <2>3. q \in Seq(Nodes) /\ Len(q) \in Nat
    BY <2>2, GoodFacts
  <2>4. lv.total_volume = SumVolume(q) /\ lv.count = Len(q)
        /\ lv.tail = IF Len(q) = 0 THEN NULL ELSE q[Len(q)]
    BY <2>2 DEF Good, SumVolume, VolumeIn
  <2>5. Len(q) = 0 <=> q = <<>>
    BY <2>3
  <2> QED BY <2>4, <2>5 DEF Last
<1>4. LevelSummary
  BY <1>3 DEF LevelSummary
<1> QED BY <1>2, <1>4

LEMMA MapHolds == BookInv => MapFindsResting
<1> SUFFICES ASSUME BookInv PROVE MapFindsResting
  OBVIOUS
<1>1. /\ ShapeInv(pool, sides) /\ PlaceInv(pool, sides, free_stack)
      /\ OrderInv(pool, free_stack, next_order_id) /\ MapInv(pool, free_stack, order_map)
      /\ SlotsTrue(pool, sides, free_stack, order_map)
  BY BookInvFacts
<1>2. ASSUME NEW h \in Held
      PROVE  /\ map_find(h.id) # MapSize
             /\ order_map[map_find(h.id)] = [key |-> h.id, val |-> h.idx,
                                             price_fp |-> h.price_fp, side |-> h.side]
             /\ sides[h.side][find(h.side, h.price_fp)].price_fp = h.price_fp
  <2>1. PICK s \in Sides, p \in Nat, i \in Busy(free_stack) :
               h = Item(s, p, i) /\ Rests(pool, sides, s, p, i)
    BY HeldRests
  <2>2. h.id = pool[i].order_id /\ h.idx = i /\ h.side = s /\ h.price_fp = p
    BY <2>1, ItemFields
  <2> DEFINE x == map_find(pool[i].order_id)
             e == order_map[x]
  <2>3. /\ x # MapSize /\ e \in Entry /\ e.key = pool[i].order_id /\ e.val = i
        /\ e.side \in Sides /\ e.price_fp \in Nat
        /\ Rests(pool, sides, e.side, e.price_fp, i)
    BY <1>1, EntryOf
  <2> HIDE DEF e, x
  <2>4. e.side = s /\ e.price_fp = p
    <3>1. i \in Nodes
      BY DEF Busy
    <3> QED BY <1>1, <2>1, <2>3, <3>1 DEF PlaceInv
  <2>5. e = [key |-> h.id, val |-> h.idx, price_fp |-> h.price_fp, side |-> h.side]
    BY <2>2, <2>3, <2>4 DEF Entry
  <2>6. sides[s][find(s, p)].price_fp = p
    <3>1. sides[s] \in Seq(Level) /\ Sorted(s, sides[s])
      BY <1>1, ShapeFacts
    <3>2. PICK k \in DOMAIN sides[s] : sides[s][k].price_fp = p
      BY <2>1, RestsPlace
    <3>3. k \in 1..Len(sides[s])
      BY <3>1
    <3> QED BY <3>1, <3>2, <3>3, FindIs
  <2> QED BY <2>2, <2>3, <2>5, <2>6 DEF e, x
<1>3. ASSUME NEW id \in Ids \ {h.id : h \in Held} PROVE map_find(id) = MapSize
  <2>1. ASSUME map_find(id) # MapSize PROVE FALSE
    <3> DEFINE e == order_map[map_find(id)]
    <3>1. /\ e.val \in Busy(free_stack) /\ pool[e.val].order_id = id
          /\ e.side \in Sides /\ e.price_fp \in Nat
          /\ Rests(pool, sides, e.side, e.price_fp, e.val)
      BY <2>1, SlotFacts
    <3>2. Item(e.side, e.price_fp, e.val) \in Held
      BY <3>1, RestsHeld
    <3>3. Item(e.side, e.price_fp, e.val).id = id
      BY <3>1, ItemFields
    <3> HIDE DEF e
    <3> QED BY <3>2, <3>3
  <2> QED BY <2>1
<1> QED BY <1>2, <1>3 DEF MapFindsResting

LEMMA VolumeHolds == BookInv => VolumeConserved
<1> SUFFICES ASSUME BookInv PROVE VolumeConserved
  OBVIOUS
<1>1. DueInv(pool, free_stack, due)
  BY BookInvFacts
<1>2. ASSUME NEW h \in Held PROVE due[h.id] = pool[h.idx].volume
  <2>1. PICK s \in Sides, p \in Nat, i \in Busy(free_stack) :
               h = Item(s, p, i) /\ Rests(pool, sides, s, p, i)
    BY HeldRests
  <2>2. h.id = pool[i].order_id /\ h.idx = i
    BY <2>1, ItemFields
  <2> QED BY <1>1, <2>2 DEF DueInv
<1>3. ASSUME NEW id \in Ids \ {h.id : h \in Held} PROVE due[id] = 0
  <2>1. ASSUME due[id] # 0 PROVE FALSE
    <3>1. PICK i \in Busy(free_stack) : pool[i].order_id = id
      BY <1>1, <2>1 DEF DueInv
    <3>2. PICK s \in Sides, p \in Nat : Item(s, p, i) \in Held
      BY BusyHeld
    <3>3. Item(s, p, i).id = id
      BY <3>1, ItemFields
    <3> QED BY <3>2, <3>3
  <2> QED BY <2>1
<1> QED BY <1>2, <1>3 DEF VolumeConserved

(* Through every mix of adds, cancels and matches of persistent_lob.hpp, for *)
(* every pool, level table and map size, nodes are neither leaked nor freed  *)
(* twice, the level arrays stay sorted with true summaries, the map finds an *)
(* order exactly while it rests, and no volume is lost.                      *)
THEOREM BookStaysConsistent == BookSpec => []BookConsistent
<1>1. BookInv => BookConsistent
  BY TypedHolds, PartitionHolds, LevelsHold, MapHolds, VolumeHolds DEF BookConsistent
<1> QED BY <1>1, BookInvariant, PTL

-----------------------------------------------------------------------------
(***************************************************************************)
(* The book implements OrderBook.  Shows relates the abstract book to who  *)
(* rests where; each effect of a step on the places is an abstract effect. *)
(***************************************************************************)

Row(pl, s, p, i) ==
    [side |-> s, price_fp |-> p, volume |-> pl[i].volume, participant |-> pl[i].participant]

\* The abstract book bk has one row for each order that rests.
Shows(bk, pl, sd, fs) ==
    /\ bk = [x \in DOMAIN bk |-> bk[x]]
    /\ DOMAIN bk = {pl[i].order_id : i \in Busy(fs)}
    /\ \A i \in Busy(fs) : \A s \in Sides : \A p \in Nat :
          Rests(pl, sd, s, p, i) => bk[pl[i].order_id] = Row(pl, s, p, i)

LEMMA AbstractShows == BookInv => Shows(AbstractBook, pool, sides, free_stack)
<1> SUFFICES ASSUME BookInv PROVE Shows(AbstractBook, pool, sides, free_stack)
  OBVIOUS
<1> DEFINE IdsHeld == {h.id : h \in Held}
           One(id) == CHOOSE h \in Held : h.id = id
           RowOf(id) == [side |-> One(id).side, price_fp |-> One(id).price_fp,
                         volume |-> pool[One(id).idx].volume,
                         participant |-> pool[One(id).idx].participant]
           B == Busy(free_stack)
<1>1. AbstractBook = [id \in IdsHeld |-> RowOf(id)]
  BY DEF AbstractBook
<1>2. IdsHeld = {pool[i].order_id : i \in B}
  <2>1. ASSUME NEW h \in Held PROVE \E i \in B : h.id = pool[i].order_id
    BY HeldRests, ItemFields
  <2>2. ASSUME NEW i \in B PROVE \E h \in Held : h.id = pool[i].order_id
    <3>1. PICK s \in Sides, p \in Nat : Item(s, p, i) \in Held
      BY BusyHeld
    <3> QED BY <3>1, ItemFields
  <2> QED BY <2>1, <2>2
<1>3. ASSUME NEW i \in B, NEW s \in Sides, NEW p \in Nat, Rests(pool, sides, s, p, i)
      PROVE  RowOf(pool[i].order_id) = Row(pool, s, p, i)
  <2> DEFINE h0 == Item(s, p, i)
             id == pool[i].order_id
  <2>1. h0 \in Held /\ h0.id = id
    BY <1>3, RestsHeld, ItemFields
  <2>2. ASSUME NEW h \in Held, h.id = id PROVE h = h0
    <3>1. PICK t \in Sides, r \in Nat, j \in B : h = Item(t, r, j) /\ Rests(pool, sides, t, r, j)
      BY HeldRests
    <3>2. pool[j].order_id = pool[i].order_id
      BY <2>2, <3>1, ItemFields
    <3>3. j = i
      <4>1. OrderInv(pool, free_stack, next_order_id)
        BY BookInvFacts
      <4> QED BY <3>2, <4>1 DEF OrderInv
    <3>4. t = s /\ r = p
      <4>1. PlaceInv(pool, sides, free_stack) /\ i \in Nodes
        BY BookInvFacts DEF Busy
      <4> QED BY <1>3, <3>1, <3>3, <4>1 DEF PlaceInv
    <3> QED BY <3>1, <3>3, <3>4
  <2> HIDE DEF id, h0
  <2>3. One(id) = h0
    BY <2>1, <2>2
  <2>4. h0.side = s /\ h0.price_fp = p /\ h0.idx = i
    BY ItemFields DEF h0
  <2> HIDE DEF One
  <2> QED BY <2>3, <2>4 DEF Row, id
<1> HIDE DEF RowOf, IdsHeld
<1>4. DOMAIN AbstractBook = IdsHeld /\ \A x \in IdsHeld : AbstractBook[x] = RowOf(x)
  BY <1>1
<1>5. AbstractBook = [x \in DOMAIN AbstractBook |-> AbstractBook[x]]
  BY <1>1
<1>6. ASSUME NEW i \in B, NEW s \in Sides, NEW p \in Nat, Rests(pool, sides, s, p, i)
      PROVE  AbstractBook[pool[i].order_id] = Row(pool, s, p, i)
  <2>1. pool[i].order_id \in IdsHeld
    BY <1>2
  <2> QED BY <1>3, <1>4, <1>6, <2>1
<1> QED BY <1>2, <1>4, <1>5, <1>6 DEF Shows

LEMMA RowAt ==
    ASSUME NEW bk, NEW pl, NEW sd, NEW fs, Shows(bk, pl, sd, fs), PlaceInv(pl, sd, fs),
           NEW x \in DOMAIN bk
    PROVE  \E i \in Busy(fs) : \E s \in Sides : \E p \in Nat :
              i \in Nodes /\ pl[i].order_id = x /\ Rests(pl, sd, s, p, i) /\ bk[x] = Row(pl, s, p, i)
<1>1. PICK i \in Busy(fs) : pl[i].order_id = x
  BY DEF Shows
<1>2. i \in Nodes
  BY DEF Busy
<1>3. PICK s \in Sides, p \in Nat : Rests(pl, sd, s, p, i)
  BY <1>2 DEF PlaceInv
<1>4. bk[x] = Row(pl, s, p, i)
  BY <1>1, <1>3 DEF Shows
<1> QED BY <1>1, <1>2, <1>3, <1>4

\* The row of one order, and its id.
LEMMA RowOfNode ==
    ASSUME NEW bk, NEW pl, NEW sd, NEW fs, Shows(bk, pl, sd, fs), NEW i \in Busy(fs)
    PROVE  /\ pl[i].order_id \in DOMAIN bk
           /\ \A s \in Sides : \A p \in Nat :
                 Rests(pl, sd, s, p, i) => bk[pl[i].order_id] = Row(pl, s, p, i)
BY DEF Shows

LEMMA SameFunction ==
    ASSUME NEW a, NEW b, a = [x \in DOMAIN a |-> a[x]], b = [x \in DOMAIN b |-> b[x]],
           DOMAIN a = DOMAIN b, \A x \in DOMAIN a : a[x] = b[x]
    PROVE  a = b
OBVIOUS

LEMMA ShowsSame ==
    ASSUME NEW bk, NEW pl, NEW sd, NEW fs, NEW bk2, NEW sd2, PlaceInv(pl, sd, fs),
           Shows(bk, pl, sd, fs), Shows(bk2, pl, sd2, fs), Keeps(pl, sd, pl, sd2)
    PROVE  bk2 = bk
<1>1. DOMAIN bk2 = DOMAIN bk /\ bk = [x \in DOMAIN bk |-> bk[x]] /\ bk2 = [x \in DOMAIN bk2 |-> bk2[x]]
  BY DEF Shows
<1>2. ASSUME NEW x \in DOMAIN bk PROVE bk2[x] = bk[x]
  <2>1. PICK i \in Busy(fs), s \in Sides, p \in Nat :
           i \in Nodes /\ pl[i].order_id = x /\ Rests(pl, sd, s, p, i) /\ bk[x] = Row(pl, s, p, i)
    BY RowAt
  <2>2. Rests(pl, sd2, s, p, i)
    BY <2>1 DEF Keeps
  <2>3. bk2[pl[i].order_id] = Row(pl, s, p, i)
    BY <2>2, RowOfNode
  <2> QED BY <2>1, <2>3
<1> QED BY <1>1, <1>2, SameFunction

LEMMA SameRow ==
    ASSUME NEW pl, NEW new, NEW B, SameOrders(pl, new, B), NEW i \in B, NEW s, NEW p
    PROVE  Row(new, s, p, i) = Row(pl, s, p, i) /\ new[i].order_id = pl[i].order_id
BY DEF SameOrders, SameIds, SameSize, Row

\* The abstract book with a row for id, and with v taken from the row of id.
WithRow(bk, id, row) == [j \in DOMAIN bk \cup {id} |-> IF j = id THEN row ELSE bk[j]]
LessVolume(bk, id, v) == [bk EXCEPT ![id].volume = @ - v]

LEMMA ShowsAdd ==
    ASSUME NEW bk, NEW pl, NEW sd, NEW fs, NEW bk2, NEW new, NEW sd2, NEW fs2, NEW nid, NEW s \in Sides,
           NEW p \in Nat, NEW idx, PlaceInv(pl, sd, fs), OrderInv(pl, fs, nid),
           Shows(bk, pl, sd, fs), Shows(bk2, new, sd2, fs2), Gains(pl, sd, new, sd2, s, p, idx),
           SameOrders(pl, new, Busy(fs)), Busy(fs2) = Busy(fs) \cup {idx},
           new[idx].order_id = nid, NEW row, row = Row(new, s, p, idx)
    PROVE  bk2 = WithRow(bk, nid, row)
<1> DEFINE r == [j \in DOMAIN bk \cup {nid} |-> IF j = nid THEN row ELSE bk[j]]
           B == Busy(fs)
<1>1. /\ DOMAIN bk = {pl[i].order_id : i \in B} /\ bk2 = [x \in DOMAIN bk2 |-> bk2[x]]
      /\ DOMAIN bk2 = {new[i].order_id : i \in Busy(fs2)}
  BY DEF Shows
<1>2. idx \in Nodes /\ idx \in Busy(fs2)
  BY DEF Busy
<1>3. \A i \in B : new[i].order_id = pl[i].order_id
  BY SameRow
<1>4. DOMAIN bk2 = DOMAIN bk \cup {nid}
  BY <1>1, <1>3
<1>5. bk2[nid] = row
  <2>1. Rests(new, sd2, s, p, idx)
    BY <1>2 DEF Gains
  <2> QED BY <1>2, <2>1, RowOfNode
<1>6. nid \notin DOMAIN bk
  <2>1. \A i \in B : pl[i].order_id < nid /\ pl[i].order_id \in Nat /\ nid \in Nat
    BY IdFacts
  <2>2. \A i \in B : pl[i].order_id # nid
    BY <2>1
  <2> QED BY <1>1, <2>2
<1>7. ASSUME NEW x \in DOMAIN bk PROVE bk2[x] = bk[x]
  <2>1. PICK i \in Busy(fs), t \in Sides, r1 \in Nat :
           i \in Nodes /\ pl[i].order_id = x /\ Rests(pl, sd, t, r1, i) /\ bk[x] = Row(pl, t, r1, i)
    BY RowAt
  <2>2. Rests(new, sd2, t, r1, i) /\ i \in Busy(fs2)
    BY <2>1 DEF Gains
  <2>3. bk2[new[i].order_id] = Row(new, t, r1, i)
    BY <2>2, RowOfNode
  <2>4. Row(new, t, r1, i) = Row(pl, t, r1, i) /\ new[i].order_id = pl[i].order_id
    BY SameRow
  <2> QED BY <2>1, <2>3, <2>4
<1>8. r = [x \in DOMAIN r |-> r[x]] /\ DOMAIN r = DOMAIN bk2
  BY <1>4
<1>9. \A x \in DOMAIN bk2 : bk2[x] = r[x]
  BY <1>4, <1>5, <1>6, <1>7
<1> HIDE DEF r
<1>10. bk2 = r
  BY <1>1, <1>8, <1>9, SameFunction
<1> QED BY <1>10 DEF r, WithRow

LEMMA ShowsDrop ==
    ASSUME NEW bk, NEW pl, NEW sd, NEW fs, NEW bk2, NEW new, NEW sd2, NEW fs2, NEW nid, NEW cur,
           PlaceInv(pl, sd, fs), OrderInv(pl, fs, nid), cur \in Busy(fs),
           Shows(bk, pl, sd, fs), Shows(bk2, new, sd2, fs2), Loses(pl, sd, new, sd2, cur),
           SameOrders(pl, new, Busy(fs) \ {cur}), Busy(fs2) = Busy(fs) \ {cur},
           NEW id, id = pl[cur].order_id
    PROVE  id \in DOMAIN bk /\ bk2 = [j \in DOMAIN bk \ {id} |-> bk[j]]
<1> DEFINE r == [j \in DOMAIN bk \ {id} |-> bk[j]]
           B == Busy(fs)
           C == B \ {cur}
<1>1. /\ DOMAIN bk = {pl[i].order_id : i \in B} /\ bk2 = [x \in DOMAIN bk2 |-> bk2[x]]
      /\ DOMAIN bk2 = {new[i].order_id : i \in C}
  BY DEF Shows
<1>2. \A i \in C : new[i].order_id = pl[i].order_id
  <2> HIDE DEF C
  <2>1. SameOrders(pl, new, C)
    BY DEF C
  <2> QED BY <2>1, SameRow
<1>3. \A i \in B : pl[i].order_id = id => i = cur
  BY DEF OrderInv
<1>4. DOMAIN bk2 = DOMAIN bk \ {id} /\ id \in DOMAIN bk
  BY <1>1, <1>2, <1>3
<1>5. ASSUME NEW x \in DOMAIN bk, x # id PROVE bk2[x] = bk[x]
  <2>1. PICK i \in Busy(fs), t \in Sides, r1 \in Nat :
           i \in Nodes /\ pl[i].order_id = x /\ Rests(pl, sd, t, r1, i) /\ bk[x] = Row(pl, t, r1, i)
    BY RowAt
  <2>2. i # cur /\ i \in C
    BY <1>5, <2>1
  <2>3. Rests(new, sd2, t, r1, i) /\ i \in Busy(fs2)
    BY <2>1, <2>2 DEF Loses
  <2>4. bk2[new[i].order_id] = Row(new, t, r1, i)
    BY <2>3, RowOfNode
  <2>5. Row(new, t, r1, i) = Row(pl, t, r1, i) /\ new[i].order_id = pl[i].order_id
    <3>1. SameOrders(pl, new, C)
      OBVIOUS
    <3> HIDE DEF C
    <3> QED BY <2>2, <3>1, SameRow
  <2> QED BY <2>1, <2>4, <2>5
<1>6. r = [x \in DOMAIN r |-> r[x]] /\ DOMAIN r = DOMAIN bk2
  BY <1>4
<1>7. \A x \in DOMAIN bk2 : bk2[x] = r[x]
  BY <1>4, <1>5
<1> HIDE DEF r
<1>8. bk2 = r
  BY <1>1, <1>6, <1>7, SameFunction
<1> QED BY <1>4, <1>8 DEF r

\* The order in node cur has lost v of its volume.
Shrunk(pl, new, cur, v) ==
    /\ new[cur].order_id = pl[cur].order_id /\ new[cur].participant = pl[cur].participant
    /\ new[cur].volume = pl[cur].volume - v

LEMMA ShowsShrink ==
    ASSUME NEW bk, NEW pl, NEW sd, NEW fs, NEW bk2, NEW new, NEW sd2, NEW nid, NEW cur,
           PlaceInv(pl, sd, fs), OrderInv(pl, fs, nid), cur \in Busy(fs),
           Shows(bk, pl, sd, fs), Shows(bk2, new, sd2, fs), Keeps(pl, sd, new, sd2),
           SameOrders(pl, new, Busy(fs) \ {cur}), NEW v, Shrunk(pl, new, cur, v),
           NEW id, id = pl[cur].order_id
    PROVE  id \in DOMAIN bk /\ bk2 = LessVolume(bk, id, v)
<1> USE DEF Shrunk
<1> DEFINE B == Busy(fs)
           C == B \ {cur}
           row == [bk[id] EXCEPT !.volume = @ - v]
           r == [j \in DOMAIN bk |-> IF j = id THEN row ELSE bk[j]]
<1>1. /\ DOMAIN bk = {pl[i].order_id : i \in B} /\ bk2 = [x \in DOMAIN bk2 |-> bk2[x]]
      /\ DOMAIN bk2 = {new[i].order_id : i \in B} /\ bk = [x \in DOMAIN bk |-> bk[x]]
  BY DEF Shows
<1>2. SameOrders(pl, new, C)
  OBVIOUS
<1>3. \A i \in C : new[i].order_id = pl[i].order_id
  <2> HIDE DEF C
  <2> QED BY <1>2, SameRow
<1>4. DOMAIN bk2 = DOMAIN bk /\ id \in DOMAIN bk
  BY <1>1, <1>3
<1>5. ASSUME NEW x \in DOMAIN bk, x # id PROVE bk2[x] = bk[x]
  <2>1. PICK i \in Busy(fs), t \in Sides, r1 \in Nat :
           i \in Nodes /\ pl[i].order_id = x /\ Rests(pl, sd, t, r1, i) /\ bk[x] = Row(pl, t, r1, i)
    BY RowAt
  <2>2. i \in C
    BY <1>5, <2>1
  <2>3. Rests(new, sd2, t, r1, i)
    BY <2>1 DEF Keeps
  <2>4. bk2[new[i].order_id] = Row(new, t, r1, i)
    BY <2>3, RowOfNode
  <2>5. Row(new, t, r1, i) = Row(pl, t, r1, i) /\ new[i].order_id = pl[i].order_id
    <3> HIDE DEF C
    <3> QED BY <1>2, <2>2, SameRow
  <2> QED BY <2>1, <2>4, <2>5
<1>6. bk2[id] = row
  <2>1. PICK t \in Sides, r1 \in Nat : Rests(pl, sd, t, r1, cur)
    BY DEF PlaceInv, Busy
  <2>2. Rests(new, sd2, t, r1, cur)
    BY <2>1 DEF Keeps, Busy
  <2>3. bk2[id] = Row(new, t, r1, cur) /\ bk[id] = Row(pl, t, r1, cur)
    BY <2>1, <2>2, RowOfNode
  <2> QED BY <2>3 DEF Row
<1> HIDE DEF row
<1>7. r = [x \in DOMAIN r |-> r[x]] /\ DOMAIN r = DOMAIN bk2 /\ \A x \in DOMAIN bk2 : bk2[x] = r[x]
  BY <1>4, <1>5, <1>6
<1>8. [bk EXCEPT ![id].volume = @ - v] = r
  BY <1>1, <1>4 DEF row
<1> HIDE DEF r
<1>9. bk2 = r
  BY <1>1, <1>7, SameFunction
<1> QED BY <1>4, <1>8, <1>9 DEF LessVolume

\* The maker of a trade is the oldest order at the best price.
LEMMA MakerFirst ==
    ASSUME BookInv, Matching, NEW s, s = taker.side, NEW lv, lv = sides[s][BestLevel],
           NEW idx, idx = lv.head, idx # NULL, NEW id, id = pool[idx].order_id
    PROVE  /\ Abstract!First(id, s) /\ id \in DOMAIN AbstractBook
           /\ AbstractBook[id].volume = pool[idx].volume
<1> DEFINE bk == AbstractBook
           q == Queue(pool, lv.head)
<1>1. /\ s \in Sides /\ BestLevel = 1 /\ BestLevel \in 1..Len(sides[s]) /\ lv \in Level
      /\ lv \in ToSet(sides[s]) /\ Good(pool, lv, q) /\ sides[s] \in Seq(Level) /\ Sorted(s, sides[s])
  BY BestFacts
<1>2. idx \in Nodes /\ idx \in Busy(free_stack) /\ 1 \in 1..Len(q) /\ q[1] = idx
  BY MakerFacts
<1>3. ShapeInv(pool, sides) /\ PlaceInv(pool, sides, free_stack)
  BY BookInvFacts
<1>4. Shows(bk, pool, sides, free_stack)
  BY AbstractShows
<1> HIDE DEF bk, q
<1>5. /\ q \in Seq(Nodes) /\ Len(q) \in Nat /\ ToSet(q) = {q[j] : j \in 1..Len(q)}
      /\ \A x, y \in 1..Len(q) : x < y => pool[q[x]].order_id < pool[q[y]].order_id
  BY <1>1, GoodFacts DEF Good
<1>6. Rests(pool, sides, s, lv.price_fp, idx) /\ lv.price_fp \in Nat
  <2>1. idx \in ToSet(q)
    BY <1>2, <1>5
  <2>2. idx \in ToSet(Queue(pool, lv.head))
    BY <2>1 DEF q
  <2> QED BY <1>1, <1>3, <2>2, RestsAt DEF Level
<1>7. id \in DOMAIN bk /\ bk[id] = Row(pool, s, lv.price_fp, idx)
  BY <1>1, <1>2, <1>4, <1>6, RowOfNode
<1>8. bk[id].side = s /\ bk[id].price_fp = lv.price_fp /\ bk[id].volume = pool[idx].volume
  BY <1>7 DEF Row
<1>9. ASSUME NEW x \in DOMAIN bk, bk[x].side = s, x # id
      PROVE  \/ Better(s, lv.price_fp, bk[x].price_fp)
             \/ lv.price_fp = bk[x].price_fp /\ id < x
  <2>1. PICK i \in Busy(free_stack), t \in Sides, r \in Nat :
           /\ i \in Nodes /\ pool[i].order_id = x /\ Rests(pool, sides, t, r, i)
           /\ bk[x] = Row(pool, t, r, i)
    BY <1>3, <1>4, RowAt
  <2>2. t = s /\ bk[x].price_fp = r
    BY <1>9, <2>1 DEF Row
  <2>3. PICK k \in DOMAIN sides[s] : sides[s][k].price_fp = r /\ i \in ToSet(QueueOf(s, k))
    BY <2>1, <2>2, RestsPlace
  <2>4. k \in 1..Len(sides[s]) /\ Len(sides[s]) \in Nat
    BY <1>1
  <2>5. CASE k = 1
    <3>1. sides[s][k] = lv
      BY <1>1, <2>5
    <3>2. i \in ToSet(q) /\ r = lv.price_fp
      BY <2>3, <3>1 DEF QueueOf, q
    <3>3. PICK y \in 1..Len(q) : q[y] = i
      BY <1>5, <3>2
    <3>4. y # 1
      BY <1>2, <1>9, <2>1, <3>3
    <3>5. 1 < y
      BY <1>5, <3>4
    <3>6. pool[q[1]].order_id < pool[q[y]].order_id
      BY <1>2, <1>5, <3>5
    <3> QED BY <1>2, <2>1, <2>2, <3>2, <3>3, <3>6
  <2>6. CASE k # 1
    <3>1. 1 < k /\ 1 \in 1..Len(sides[s])
      BY <2>4, <2>6
    <3>2. Better(s, sides[s][1].price_fp, sides[s][k].price_fp)
      BY <1>1, <2>4, <3>1 DEF Sorted
    <3> QED BY <1>1, <2>2, <2>3, <3>2
  <2> QED BY <2>5, <2>6
<1>10. \A a, b : Abstract!Better(s, a, b) <=> Better(s, a, b)
  BY DEF Abstract!Better, Better
<1>11. Abstract!First(id, s)
  BY <1>7, <1>8, <1>9, <1>10 DEF Abstract!First, Abstract!Resting, bk
<1> QED BY <1>7, <1>8, <1>11 DEF bk

\* A side without levels has no orders.
LEMMA NoneResting ==
    ASSUME BookInv, NEW s \in Sides, sides[s] = <<>>
    PROVE  Abstract!Resting(s) = {}
<1> DEFINE bk == AbstractBook
<1>1. PlaceInv(pool, sides, free_stack) /\ Shows(bk, pool, sides, free_stack)
  BY BookInvFacts, AbstractShows
<1> HIDE DEF bk
<1>2. ASSUME NEW x \in DOMAIN bk, bk[x].side = s PROVE FALSE
  <2>1. PICK i \in Busy(free_stack), t \in Sides, r \in Nat :
           /\ i \in Nodes /\ pool[i].order_id = x /\ Rests(pool, sides, t, r, i)
           /\ bk[x] = Row(pool, t, r, i)
    BY <1>1, RowAt
  <2>2. t = s
    BY <1>2, <2>1 DEF Row
  <2>3. PICK k \in DOMAIN sides[s] : TRUE
    BY <2>1, <2>2, RestsPlace
  <2> QED BY <2>3
<1> QED BY <1>2 DEF Abstract!Resting, bk

LEMMA AbstractStart == EmptyBook => Abstract!Init
<1> SUFFICES ASSUME EmptyBook PROVE Abstract!Init
  OBVIOUS
<1>1. Shows(AbstractBook, pool, sides, free_stack)
  BY BookStart, AbstractShows
<1>2. Busy(free_stack) = {}
  <2>1. PlaceInv(pool, sides, free_stack)
    BY BookStart, BookInvFacts
  <2>2. \A s \in Sides : ToSet(sides[s]) = {}
    BY DEF EmptyBook, ToSet
  <2>3. \A s \in Sides : \A p, i : ~Rests(pool, sides, s, p, i)
    BY <2>2 DEF Rests
  <2> QED BY <2>1, <2>3 DEF PlaceInv, Busy
<1>3. DOMAIN AbstractBook = {} /\ AbstractBook = [x \in DOMAIN AbstractBook |-> AbstractBook[x]]
  BY <1>1, <1>2 DEF Shows
<1>4. AbstractBook = [i \in {} |-> 0]
  BY <1>3
<1> QED BY <1>4 DEF EmptyBook, Abstract!Init, Abstract!Idle, Idle

\* A step that keeps the orders keeps the abstract book.
LEMMA StaysShow ==
    ASSUME BookInv, Shows(AbstractBook', pool', sides', free_stack'), Stays
    PROVE  AbstractBook' = AbstractBook /\ next_order_id' = next_order_id
<1>1. /\ pool' = pool /\ free_stack' = free_stack /\ next_order_id' = next_order_id
      /\ Keeps(pool, sides, pool', sides')
  BY DEF Stays
<1>2. Shows(AbstractBook', pool, sides', free_stack) /\ Keeps(pool, sides, pool, sides')
  BY <1>1
<1>3. PlaceInv(pool, sides, free_stack) /\ Shows(AbstractBook, pool, sides, free_stack)
  BY BookInvFacts, AbstractShows
<1> QED BY <1>1, <1>2, <1>3, ShowsSame

LEMMA DropsShow ==
    ASSUME BookInv, Shows(AbstractBook', pool', sides', free_stack'), NEW cur, Drops(cur),
           NEW id, id = pool[cur].order_id
    PROVE  id \in DOMAIN AbstractBook /\ AbstractBook' = Abstract!Without(id)
<1>1. /\ PlaceInv(pool, sides, free_stack) /\ OrderInv(pool, free_stack, next_order_id)
      /\ Shows(AbstractBook, pool, sides, free_stack)
  BY BookInvFacts, AbstractShows
<1>2. /\ cur \in Busy(free_stack) /\ Busy(free_stack') = Busy(free_stack) \ {cur}
      /\ Loses(pool, sides, pool', sides', cur)
      /\ SameOrders(pool, pool', Busy(free_stack) \ {cur})
  BY DEF Drops
<1>3. id \in DOMAIN AbstractBook
      /\ AbstractBook' = [j \in (DOMAIN AbstractBook) \ {id} |-> AbstractBook[j]]
  BY <1>1, <1>2, ShowsDrop
<1>4. Abstract!Without(id) = [j \in (DOMAIN AbstractBook) \ {id} |-> AbstractBook[j]]
  BY DEF Abstract!Without, Abstract!Restrict
<1> QED BY <1>3, <1>4

LEMMA AddShows ==
    ASSUME BookInv, Shows(AbstractBook', pool', sides', free_stack'), NEW s \in Sides,
           NEW p \in Prices, NEW v \in Volumes, NEW who \in Participants, add_limit(s, p, v, who)
    PROVE  \/ Abstract!Add(s, p, v, who)
           \/ UNCHANGED <<AbstractBook, next_order_id, taker>>
<1>1. /\ taker' = taker /\ taker = Idle
      /\ \/ Stays
         \/ next_order_id' = next_order_id + 1 /\ \E idx : Adds(s, p, v, who, idx)
  BY AddInv
<1>2. CASE Stays
  BY <1>1, <1>2, StaysShow
<1>3. ASSUME NEW idx, Adds(s, p, v, who, idx), next_order_id' = next_order_id + 1
      PROVE  Abstract!Add(s, p, v, who)
  <2> DEFINE row == [side |-> s, price_fp |-> p, volume |-> v, participant |-> who]
  <2>1. /\ PlaceInv(pool, sides, free_stack) /\ OrderInv(pool, free_stack, next_order_id)
        /\ Shows(AbstractBook, pool, sides, free_stack)
    BY BookInvFacts, AbstractShows
  <2>2. /\ Busy(free_stack') = Busy(free_stack) \cup {idx}
        /\ Gains(pool, sides, pool', sides', s, p, idx)
        /\ SameOrders(pool, pool', Busy(free_stack)) /\ pool'[idx].order_id = next_order_id
        /\ pool'[idx].volume = v /\ pool'[idx].participant = who
    BY <1>3 DEF Adds
  <2>3. row = Row(pool', s, p, idx) /\ p \in Nat
    BY <2>2, LOBAssumption DEF Row
  <2> HIDE DEF row
  <2>4. AbstractBook' = WithRow(AbstractBook, next_order_id, row)
    BY <2>1, <2>2, <2>3, ShowsAdd
  <2>5. AbstractBook' = Abstract!With(next_order_id, row)
    BY <2>4 DEF Abstract!With, WithRow
  <2> QED BY <1>1, <1>3, <2>5 DEF Abstract!Add, Abstract!Idle, Idle, row
<1> QED BY <1>1, <1>2, <1>3

LEMMA MakerShows ==
    ASSUME BookInv, Shows(AbstractBook', pool', sides', free_stack'), MatchMaker
    PROVE  \E id \in DOMAIN AbstractBook : Abstract!Fill(id)
<1> DEFINE s   == taker.side
           lv  == sides[s][BestLevel]
           idx == lv.head
           v   == FillVol(pool[idx])
           id  == pool[idx].order_id
           bk  == AbstractBook
<1>1. /\ Matching /\ next_order_id' = next_order_id /\ idx # NULL
      /\ taker' = [taker EXCEPT !.remaining = @ - v]
      /\ \/ v = pool[idx].volume /\ Drops(idx)
         \/ v # pool[idx].volume /\ Shrinks(idx, pool[idx].volume - v)
  BY MakerInv
<1>2. s = taker.side /\ lv = sides[s][BestLevel] /\ idx = lv.head /\ id = pool[idx].order_id
      /\ v = FillVol(pool[idx])
  OBVIOUS
<1> HIDE DEF s, lv, idx, v, id
<1>3. Abstract!First(id, s) /\ id \in DOMAIN AbstractBook
      /\ AbstractBook[id].volume = pool[idx].volume
  <2>1. Matching /\ idx # NULL
    BY <1>1
  <2>2. s = taker.side /\ lv = sides[s][BestLevel] /\ idx = lv.head /\ id = pool[idx].order_id
    BY <1>2
  <2> QED BY <2>1, <2>2, MakerFirst
<1>4. /\ v = IF taker.remaining < pool[idx].volume THEN taker.remaining ELSE pool[idx].volume
      /\ idx \in Nodes
  BY <1>1, <1>2, MakerFacts
<1>5. taker.remaining > 0
  BY <1>1 DEF Matching
<1>6. AbstractBook' = IF v = AbstractBook[id].volume THEN Abstract!Without(id)
                      ELSE [AbstractBook EXCEPT ![id].volume = @ - v]
  <2>1. CASE v = pool[idx].volume /\ Drops(idx)
    <3>1. AbstractBook' = Abstract!Without(id)
      BY <1>2, <2>1, DropsShow
    <3> QED BY <1>3, <2>1, <3>1
  <2>2. CASE v # pool[idx].volume /\ Shrinks(idx, pool[idx].volume - v)
    <3>1. /\ PlaceInv(pool, sides, free_stack) /\ OrderInv(pool, free_stack, next_order_id)
          /\ Shows(AbstractBook, pool, sides, free_stack)
      BY BookInvFacts, AbstractShows
    <3>2. /\ idx \in Busy(free_stack) /\ Shows(AbstractBook', pool', sides', free_stack)
          /\ Keeps(pool, sides, pool', sides')
          /\ SameOrders(pool, pool', Busy(free_stack) \ {idx})
          /\ Shrunk(pool, pool', idx, v)
      BY <2>2 DEF Shrinks, Shrunk
    <3>3. id = pool[idx].order_id
      BY <1>2
    <3>4. AbstractBook' = LessVolume(AbstractBook, id, v)
      BY <3>1, <3>2, <3>3, ShowsShrink
    <3> QED BY <1>3, <2>2, <3>4 DEF LessVolume
  <2> QED BY <1>1, <2>1, <2>2
<1>7. v = IF taker.remaining < AbstractBook[id].volume THEN taker.remaining
          ELSE AbstractBook[id].volume
  BY <1>3, <1>4
<1>8. Abstract!Fill(id)
  BY <1>1, <1>2, <1>3, <1>5, <1>6, <1>7 DEF Abstract!Fill
<1> QED BY <1>3, <1>8

LEMMA RefinementStep ==
    ASSUME BookInv, Shows(AbstractBook', pool', sides', free_stack'), [BookStep]_lobVars
    PROVE  [Abstract!Next]_(Abstract!bookVars)
<1> USE DEF Abstract!bookVars
<1>0. Abstract!Sides = Sides
  BY DEF Abstract!Sides, Sides
<1>1. ASSUME NEW s \in Sides, NEW p \in Prices, NEW v \in Volumes, NEW who \in Participants,
             add_limit(s, p, v, who)
      PROVE  [Abstract!Next]_(Abstract!bookVars)
  BY <1>0, <1>1, AddShows DEF Abstract!Next
<1>2. ASSUME NEW id \in Ids, cancel(id) PROVE Abstract!Next
  <2>1. taker' = taker /\ taker = Idle /\ next_order_id' = next_order_id
    BY <1>2, CancelInv
  <2>2. PICK cur : Drops(cur) /\ pool[cur].order_id = id
    BY <1>2, CancelInv
  <2>3. id \in DOMAIN AbstractBook /\ AbstractBook' = Abstract!Without(id)
    BY <2>2, DropsShow
  <2>4. Abstract!Cancel(id)
    BY <2>1, <2>3 DEF Abstract!Cancel, Abstract!Idle, Idle
  <2> QED BY <2>3, <2>4 DEF Abstract!Next
<1>3. ASSUME NEW s \in Sides, NEW v \in Volumes, NEW who \in Participants, market_order(s, v, who)
      PROVE  Abstract!Next
  <2>1. AbstractBook' = AbstractBook /\ next_order_id' = next_order_id
    BY <1>3, MarketInv, StaysShow
  <2>2. Abstract!Market(s, v, who)
    BY <1>3, <2>1 DEF market_order, Abstract!Market, Abstract!Idle, Idle
  <2> QED BY <1>0, <2>2 DEF Abstract!Next
<1>4. CASE MatchEmptyLevel
  <2>1. AbstractBook' = AbstractBook /\ next_order_id' = next_order_id /\ taker' = taker
    BY <1>4, EmptyLevelInv, StaysShow
  <2> QED BY <2>1
<1>5. CASE MatchMaker
  BY <1>5, MakerShows DEF Abstract!Next
<1>6. CASE MatchDone
  <2>1. AbstractBook' = AbstractBook /\ next_order_id' = next_order_id
    BY <1>6, DoneInv, StaysShow
  <2>2. taker # Idle /\ ~Matching /\ taker' = Idle
    BY <1>6 DEF MatchDone
  <2>3. taker.remaining \in Nat /\ taker.side \in Sides
    BY BookInvFacts DEF Taker
  <2>4. taker.remaining = 0 \/ Abstract!Resting(taker.side) = {}
    <3>1. CASE taker.remaining > 0
      <4>1. sides[taker.side] = <<>>
        BY <2>2, <3>1 DEF Matching, Opposite
      <4> QED BY <2>3, <4>1, NoneResting
    <3> QED BY <2>3, <3>1
  <2>5. Abstract!Finish
    BY <2>1, <2>2, <2>4 DEF Abstract!Finish, Abstract!Idle, Idle
  <2> QED BY <2>5 DEF Abstract!Next
<1>7. CASE UNCHANGED lobVars
  <2>1. /\ pool' = pool /\ free_stack' = free_stack /\ sides' = sides
        /\ next_order_id' = next_order_id /\ taker' = taker
    BY <1>7 DEF lobVars
  <2>2. Stays
    BY <2>1 DEF Stays, Keeps
  <2> QED BY <2>1, <2>2, StaysShow
<1> QED BY <1>1, <1>2, <1>3, <1>4, <1>5, <1>6, <1>7 DEF BookStep

(* The pool, queues, level arrays and map of persistent_lob.hpp implement    *)
(* price-time priority: every step is an addition, a cancellation, a trade   *)
(* with the oldest order at the best price, or leaves the orders alone.      *)
THEOREM BookImplementsPriority == BookSpec => PriceTimePriority
<1>1. EmptyBook => Abstract!Init
  BY AbstractStart
<1>2. BookInv' => Shows(AbstractBook, pool, sides, free_stack)'
  BY AbstractShows, PTL
<1>3. BookInv /\ BookInv' /\ [BookStep]_lobVars => [Abstract!Next]_(Abstract!bookVars)
  <2> SUFFICES ASSUME BookInv, BookInv', [BookStep]_lobVars
               PROVE  [Abstract!Next]_(Abstract!bookVars)
    OBVIOUS
  <2>1. Shows(AbstractBook', pool', sides', free_stack')
    BY <1>2
  <2> QED BY <2>1, RefinementStep
<1> QED BY <1>1, <1>3, BookInvariant, PTL DEF BookSpec, PriceTimePriority, Abstract!Spec
=============================================================================
