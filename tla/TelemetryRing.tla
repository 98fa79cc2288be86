---------------------------- MODULE TelemetryRing ----------------------------
(***************************************************************************)
(* The telemetry path of game-master/telemetry.hpp: the Game Master thread *)
(* records every tick in a ring of cache lines with non-temporal stores,   *)
(* and the TelemetryWatchdog thread drains the ring into a double-buffered *)
(* latency histogram whose last complete window the final report uses.     *)
(*                                                                         *)
(* An event is four words, and each word carries the tick it belongs to.   *)
(* Only record_metrics is modelled: the tick loop calls no other recorder. *)
(* RING_SIZE is a power of two, so the mask of the code is a remainder.    *)
(***************************************************************************)
EXTENDS Integers

CONSTANTS RingSize,    \* RING_SIZE
          Margin,      \* slots wait_for_space keeps free (64)
          Window,      \* ticks per histogram window (1000)
          MaxTicks     \* cfg.max_ticks

ASSUME RingAssumption ==
    /\ RingSize \in Nat /\ Margin \in Nat /\ Margin < RingSize
    /\ Window \in Nat \ {0}
    /\ MaxTicks \in Nat

VARIABLES
    events, write_head, read_head, running_,     \* shared
    gmPc, unsent,                                \* Game Master thread
    report,                                      \* the window behind p50 and p99
    telPc, rh, wh,                               \* run(): its read_head, write_head
    hdr, current, last_swap_tick, rows           \* rows: packets on stdout

gmVars  == <<gmPc, unsent, report>>
telVars == <<telPc, rh, wh, hdr, current, last_swap_tick, rows>>
vars    == <<events, write_head, read_head, running_, gmVars, telVars>>

Words   == {"tick_id", "tick_ns", "pnl_fp", "position"}
Buffers == {"a", "b"}
Slots   == 0 .. RingSize - 1
Ticks   == 0 .. MaxTicks - 1
Zeroed  == -1                       \* the memset of the constructor
Slot(i) == i % RingSize
Other(b) == IF b = "a" THEN "b" ELSE "a"
EmptyHdr == [ticks |-> {}, total_count |-> 0]
NoReport == [ticks |-> {}, total_count |-> -1]

Init ==
    /\ events = [s \in Slots |-> [w \in Words |-> Zeroed]]
    /\ write_head = 0 /\ read_head = 0 /\ running_ = TRUE
    /\ gmPc = "space" /\ unsent = {} /\ report = NoReport
    /\ telPc = "running" /\ rh = 0 /\ wh = 0
    /\ hdr = [b \in Buffers |-> EmptyHdr] /\ current = "a"
    /\ last_swap_tick = -1 /\ rows = {}

-----------------------------------------------------------------------------
(* Producer: record_metrics, once per tick; write_head is also the tick.   *)

\* Seeded fault: the ring may become full.
HasSpace_full == write_head - read_head <= RingSize
HasSpace == write_head - read_head < RingSize - Margin

wait_for_space ==
    /\ gmPc = "space" /\ write_head < MaxTicks
    /\ HasSpace
    /\ gmPc' = "store" /\ unsent' = Words
    /\ UNCHANGED <<events, write_head, read_head, running_, report, telVars>>

\* Non-temporal stores become visible in any order before the fence.
StoreWord(w) ==
    /\ gmPc = "store" /\ w \in unsent
    /\ events' = [events EXCEPT ![Slot(write_head)][w] = write_head]
    /\ unsent' = unsent \ {w}
    /\ UNCHANGED <<write_head, read_head, running_, gmPc, report, telVars>>

Fenced == unsent = {}

Publish ==
    /\ gmPc = "store" /\ Fenced
    /\ write_head' = write_head + 1
    /\ gmPc' = "space" /\ unsent' = {}
    /\ UNCHANGED <<events, read_head, running_, report, telVars>>

\* The tick loop has ended: running_ = false, then join.
stop ==
    /\ gmPc = "space" /\ write_head = MaxTicks
    /\ running_' = FALSE /\ gmPc' = "join"
    /\ UNCHANGED <<events, write_head, read_head, unsent, report, telVars>>

\* join returns, and percentiles() reads the buffer not being recorded.
Percentiles ==
    /\ gmPc = "join" /\ telPc = "exited"
    /\ report' = hdr[Other(current)] /\ gmPc' = "done"
    /\ UNCHANGED <<events, write_head, read_head, running_, unsent, telVars>>

-----------------------------------------------------------------------------
(* Consumer: TelemetryWatchdog::run.                                       *)

LoadRunning ==
    /\ telPc = "running"
    /\ telPc' = IF running_ THEN "snapshot" ELSE "drain"
    /\ UNCHANGED <<events, write_head, read_head, running_, gmVars,
                   rh, wh, hdr, current, last_swap_tick, rows>>

\* Seeded fault: a stopped watchdog leaves without looking.
Undrained_not == FALSE
Undrained == rh < write_head

LoadWriteHead ==
    /\ telPc = "drain"
    /\ telPc' = IF Undrained THEN "snapshot" ELSE "exited"
    /\ UNCHANGED <<events, write_head, read_head, running_, gmVars,
                   rh, wh, hdr, current, last_swap_tick, rows>>

Snapshot ==
    /\ telPc = "snapshot"
    /\ wh' = write_head /\ telPc' = "event"
    /\ UNCHANGED <<events, write_head, read_head, running_, gmVars,
                   rh, hdr, current, last_swap_tick, rows>>

Recorded(ev) == [ticks |-> hdr[current].ticks \cup {ev.tick_ns},
                 total_count |-> hdr[current].total_count + 1]

EndsWindow(t) == t > last_swap_tick /\ t % Window = Window - 1

\* One iteration of the inner loop: record, and at the end of a window swap
\* the buffers and write a packet computed from the buffer just completed.
ReadEvent ==
    /\ telPc = "event" /\ rh < wh
    /\ LET ev == events[Slot(rh)] IN
         IF EndsWindow(ev.tick_id)
           THEN /\ hdr' = [b \in Buffers |-> IF b = current THEN Recorded(ev) ELSE EmptyHdr]
                /\ current' = Other(current)
                /\ last_swap_tick' = ev.tick_id
                /\ rows' = rows \cup {[tick_id |-> ev.tick_id, pnl_fp |-> ev.pnl_fp,
                                       position |-> ev.position, hdr |-> Recorded(ev)]}
           ELSE /\ hdr' = [hdr EXCEPT ![current] = Recorded(ev)]
                /\ UNCHANGED <<current, last_swap_tick, rows>>
    /\ rh' = rh + 1
    /\ UNCHANGED <<events, write_head, read_head, running_, gmVars, telPc, wh>>

\* Seeded fault: slots are never given back.
Released_never == 0
Released == rh

advance_read_head ==
    /\ telPc = "event" /\ rh >= wh
    /\ read_head' = Released /\ telPc' = "running"
    /\ UNCHANGED <<events, write_head, running_, gmVars,
                   rh, wh, hdr, current, last_swap_tick, rows>>

-----------------------------------------------------------------------------

Gm  == wait_for_space \/ (\E w \in Words : StoreWord(w)) \/ Publish \/ stop \/ Percentiles
Tel == LoadRunning \/ LoadWriteHead \/ Snapshot \/ ReadEvent \/ advance_read_head

\* The report is out and both threads have ended.
Ended == gmPc = "done" /\ UNCHANGED vars

Next == Gm \/ Tel \/ Ended

\* Each thread is pinned to a core of its own and spins: neither starves.
Spec == Init /\ [][Next]_vars /\ WF_vars(Gm) /\ WF_vars(Tel)

-----------------------------------------------------------------------------
(* Properties *)

HdrType == [ticks : SUBSET Ticks, total_count : -1 .. MaxTicks]

\* Type invariant of the ring, the two threads and the histogram buffers.
TypeOK ==
    /\ events \in [Slots -> [Words -> Ticks \cup {Zeroed}]]
    /\ write_head \in 0 .. MaxTicks /\ read_head \in 0 .. MaxTicks
    /\ running_ \in BOOLEAN
    /\ gmPc \in {"space", "store", "join", "done"} /\ unsent \subseteq Words
    /\ report \in HdrType
    /\ telPc \in {"running", "drain", "snapshot", "event", "exited"}
    /\ rh \in 0 .. MaxTicks /\ wh \in 0 .. MaxTicks
    /\ hdr \in [Buffers -> HdrType] /\ current \in Buffers
    /\ last_swap_tick \in Ticks \cup {-1}
    /\ rows \subseteq [tick_id : Ticks, pnl_fp : Ticks, position : Ticks, hdr : HdrType]

\* Every event that is published and not yet read is whole, whatever the
\* producer is storing meanwhile: no slot is overwritten early, and the
\* fence of record_metrics makes every word visible before write_head moves.
UnreadIntact ==
    \A i \in Ticks : rh <= i /\ i < write_head =>
        \A w \in Words : events[Slot(i)][w] = i

\* The ticks lo .. hi, each counted once.
WholeWindow(h, lo, hi) == h.ticks = lo .. hi /\ h.total_count = hi - lo + 1

\* run() never mixes windows: the recording buffer holds exactly the ticks
\* since the last swap, and the readable one the Window ticks before it, or
\* nothing before the first swap.
BuffersHoldWindows ==
    /\ WholeWindow(hdr[current], last_swap_tick + 1, rh - 1)
    /\ IF last_swap_tick = -1 THEN hdr[Other(current)] = EmptyHdr
       ELSE WholeWindow(hdr[Other(current)], last_swap_tick - Window + 1, last_swap_tick)

\* Every packet on stdout is of one tick, and its percentiles are those of
\* the window that this tick ends.
RowsAreConsistent ==
    \A r \in rows :
        /\ r.pnl_fp = r.tick_id /\ r.position = r.tick_id
        /\ WholeWindow(r.hdr, r.tick_id - Window + 1, r.tick_id)

\* stop() drains: when the report is made every tick of the run has been
\* recorded, one packet per complete window is out, and p50 and p99 come from
\* the last complete window (no window at all when the run is shorter).
ReportIsLastWindow ==
    gmPc = "done" =>
        /\ rh = MaxTicks
        /\ {r.tick_id : r \in rows} = {t \in Ticks : t % Window = Window - 1}
        /\ LET n == MaxTicks \div Window
           IN  IF n = 0 THEN report = EmptyHdr
               ELSE WholeWindow(report, (n - 1) * Window, n * Window - 1)

\* The tick loop is never blocked for good in wait_for_space and stop()
\* always returns: back pressure resolves.
ReportIsMade == <>(gmPc = "done")

=============================================================================
