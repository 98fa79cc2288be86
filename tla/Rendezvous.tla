----------------------------- MODULE Rendezvous -----------------------------
(***************************************************************************)
(* The shared-memory rendezvous between the Game Master and the contestant *)
(* sandbox, and the watchdog that polices it:                              *)
(*   game-master/rendezvous.hpp   SharedMem, gm_signal, gm_wait_sandbox    *)
(*   game-master/main.cpp         the tick loop and the end of a run       *)
(*   game-master/loader.cpp       the sandbox loop                         *)
(*   game-master/watchdog.hpp     Watchdog                                 *)
(* Three threads interleave one memory access at a time.  Data is reduced  *)
(* to the tick it belongs to: a snapshot word, the fill block and an order *)
(* each carry the sequence number of the tick that produced them.          *)
(***************************************************************************)
EXTENDS Naturals

CONSTANTS MaxTicks,    \* cfg.max_ticks
          NWords,      \* words of the market snapshot (512 bytes in SharedMem)
          OrderSlots,  \* ORDER_SLOTS
          SpinBudget,  \* max_spins of gm_wait_sandbox
          Forked       \* the sandbox is a child (g_sandbox_pid > 0), not external

ASSUME RendezvousAssumption ==
    /\ MaxTicks \in Nat \ {0}
    /\ NWords \in Nat \ {0}
    /\ OrderSlots \in Nat \ {0}
    /\ SpinBudget \in Nat \ {0}
    /\ Forked \in BOOLEAN

VARIABLES
    \* SharedMem
    gm_sequence, sb_sequence,
    snap,          \* word -> tick whose data it holds
    fills,         \* the fill block: tick whose fills it holds
    order_count, orders,
    \* the Game Master thread
    gmPc, seq, gmWord, spins, inTime, n_orders, gmOrder, batch, tle_count,
    \* the sandbox process
    sbPc, last_seen_gm_seq, sbWord, view, fillsView, out, sbOrder, g_stop,
    \* the watchdog thread
    wdPc, running, wdGm, wdSb, g_tle_flag

shm    == <<gm_sequence, sb_sequence, snap, fills, order_count, orders>>
gmVars == <<gmPc, seq, gmWord, spins, inTime, n_orders, gmOrder, batch, tle_count>>
sbVars == <<sbPc, last_seen_gm_seq, sbWord, view, fillsView, out, sbOrder, g_stop>>
wdVars == <<wdPc, running, wdGm, wdSb, g_tle_flag>>
vars   == <<shm, gmVars, sbVars, wdVars>>

Words == 1 .. NWords
Slots == 1 .. OrderSlots
Ticks == 0 .. MaxTicks      \* sequence numbers; 0 is the zeroed memory

Init ==
    /\ gm_sequence = 0 /\ sb_sequence = 0
    /\ snap = [w \in Words |-> 0] /\ fills = 0
    /\ order_count = 0 /\ orders = [i \in Slots |-> 0]
    /\ gmPc = "snapshot" /\ seq = 1 /\ gmWord = 1 /\ spins = 0 /\ inTime = FALSE
    /\ n_orders = 0 /\ gmOrder = 1 /\ batch = [i \in Slots |-> 0] /\ tle_count = 0
    /\ sbPc = "load" /\ last_seen_gm_seq = 0 /\ sbWord = 1
    /\ view = [w \in Words |-> 0] /\ fillsView = 0 /\ out = 0 /\ sbOrder = 1
    /\ g_stop = FALSE
    /\ wdPc = "loadGm" /\ running = TRUE /\ wdGm = 0 /\ wdSb = 0 /\ g_tle_flag = FALSE

-----------------------------------------------------------------------------
(* The Game Master: one iteration of the tick loop per value of seq. *)

\* Step 3: fill_snapshot and the field stores after it, one word at a time.
GmWriteWord ==
    /\ gmPc = "snapshot"
    /\ snap' = [snap EXCEPT ![gmWord] = seq]
    /\ IF gmWord = NWords
       THEN gmPc' = "signal" /\ gmWord' = 1
       ELSE gmPc' = gmPc /\ gmWord' = gmWord + 1
    /\ UNCHANGED <<gm_sequence, sb_sequence, fills, order_count, orders,
                   seq, spins, inTime, n_orders, gmOrder, batch, tle_count,
                   sbVars, wdVars>>

\* Step 4: gm_signal, the release store of the sequence number.
gm_signal ==
    /\ gmPc = "signal"
    /\ gm_sequence' = seq
    /\ gmPc' = "wait" /\ spins' = 0
    /\ UNCHANGED <<sb_sequence, snap, fills, order_count, orders,
                   seq, gmWord, inTime, n_orders, gmOrder, batch, tle_count,
                   sbVars, wdVars>>

\* Seeded faults: accept the previous tick's answer; forget ++i.
Arrived_stale == sb_sequence + 1 >= seq
Spin_stuck    == spins

Arrived == sb_sequence = seq
Tle     == tle_count + 1
Spin    == spins + 1

\* Step 5: one iteration of gm_wait_sandbox; the last failed one is the TLE.
gm_wait_sandbox ==
    /\ gmPc = "wait"
    /\ spins' = Spin
    /\ IF Arrived
       THEN gmPc' = "count" /\ inTime' = TRUE /\ tle_count' = tle_count
       ELSE IF Spin = SpinBudget
            THEN gmPc' = "hold" /\ inTime' = FALSE /\ tle_count' = Tle
            ELSE UNCHANGED <<gmPc, inTime, tle_count>>
    /\ UNCHANGED <<shm, seq, gmWord, n_orders, gmOrder, batch, sbVars, wdVars>>

\* The TLE branch: "treat as HOLD, continue".
GmHold ==
    /\ gmPc = "hold"
    /\ order_count' = 0
    /\ gmPc' = "count"
    /\ UNCHANGED <<gm_sequence, sb_sequence, snap, fills, orders,
                   seq, gmWord, spins, inTime, n_orders, gmOrder, batch, tle_count,
                   sbVars, wdVars>>

Least(a, b) == IF a < b THEN a ELSE b

\* Step 6: n_orders.  order_count is a plain field: after the TLE branch the
\* compiler may reuse the 0 it just stored or load the field again.
GmReadCount ==
    /\ gmPc = "count"
    /\ \/ n_orders' = Least(order_count, OrderSlots)
       \/ ~inTime /\ n_orders' = 0
    /\ gmPc' = IF n_orders' = 0 THEN "fills" ELSE "orders"
    /\ gmOrder' = 1
    /\ UNCHANGED <<shm, seq, gmWord, spins, inTime, batch, tle_count, sbVars, wdVars>>

\* Step 6: the body of the order loop, one slot at a time.
GmTakeOrder ==
    /\ gmPc = "orders"
    /\ batch' = [batch EXCEPT ![gmOrder] = orders[gmOrder]]
    /\ IF gmOrder = n_orders
       THEN gmPc' = "fills" /\ gmOrder' = gmOrder
       ELSE gmPc' = gmPc /\ gmOrder' = gmOrder + 1
    /\ UNCHANGED <<shm, seq, gmWord, spins, inTime, n_orders, tle_count, sbVars, wdVars>>

\* Seeded fault: the fills of the tick are not written.
FillBlock_unwritten == fills

LastTick  == seq = MaxTicks
FillBlock == seq

\* Steps 7 and 8: write_fills_to_shm, then seq++ and the loop condition.
GmWriteFills ==
    /\ gmPc = "fills"
    /\ fills' = FillBlock
    /\ seq' = seq + 1
    /\ gmPc' = IF LastTick THEN "stop" ELSE "snapshot"
    /\ UNCHANGED <<gm_sequence, sb_sequence, snap, order_count, orders,
                   gmWord, spins, inTime, n_orders, gmOrder, batch, tle_count,
                   sbVars, wdVars>>

\* After the loop: watchdog.stop() clears running and joins the thread.
GmStopWatchdog ==
    /\ gmPc = "stop"
    /\ running' = FALSE
    /\ gmPc' = "join"
    /\ UNCHANGED <<shm, seq, gmWord, spins, inTime, n_orders, gmOrder, batch,
                   tle_count, sbVars, wdPc, wdGm, wdSb, g_tle_flag>>

\* The report, then SIGTERM, whose handler in the loader only sets g_stop.
GmTerminateSandbox ==
    /\ gmPc = "join" /\ wdPc = "stopped"
    /\ g_stop' = Forked
    /\ gmPc' = "reap"
    /\ UNCHANGED <<shm, seq, gmWord, spins, inTime, n_orders, gmOrder, batch, tle_count,
                   sbPc, last_seen_gm_seq, sbWord, view, fillsView, out, sbOrder, wdVars>>

\* waitpid(g_sandbox_pid, nullptr, 0) blocks until the child has exited.
GmReap ==
    /\ gmPc = "reap"
    /\ Forked => sbPc = "dead"
    /\ gmPc' = "exit"
    /\ UNCHANGED <<shm, seq, gmWord, spins, inTime, n_orders, gmOrder, batch, tle_count,
                   sbVars, wdVars>>

GameMaster ==
    \/ GmWriteWord \/ gm_signal \/ gm_wait_sandbox \/ GmHold \/ GmReadCount
    \/ GmTakeOrder \/ GmWriteFills \/ GmStopWatchdog \/ GmTerminateSandbox \/ GmReap

-----------------------------------------------------------------------------
(* The sandbox: the loop of loader.cpp. *)

\* The spin on gm_sequence; it ends when the value differs from the last one.
SbLoad ==
    /\ sbPc = "load"
    /\ gm_sequence # last_seen_gm_seq
    /\ last_seen_gm_seq' = gm_sequence
    /\ sbPc' = "pack" /\ sbWord' = 1
    /\ UNCHANGED <<shm, gmVars, view, fillsView, out, sbOrder, g_stop, wdVars>>

\* Packing market_data, word by word, without looking at gm_sequence again.
SbPackWord ==
    /\ sbPc = "pack"
    /\ view' = [view EXCEPT ![sbWord] = snap[sbWord]]
    /\ IF sbWord = NWords
       THEN sbPc' = "packFills" /\ sbWord' = sbWord
       ELSE sbPc' = sbPc /\ sbWord' = sbWord + 1
    /\ UNCHANGED <<shm, gmVars, last_seen_gm_seq, fillsView, out, sbOrder, g_stop, wdVars>>

SbPackFills ==
    /\ sbPc = "packFills"
    /\ fillsView' = fills
    /\ sbPc' = "on_tick"
    /\ UNCHANGED <<shm, gmVars, last_seen_gm_seq, sbWord, view, out, sbOrder, g_stop, wdVars>>

\* on_tick returns with any number of orders...
SbOnTick ==
    /\ sbPc = "on_tick"
    /\ out' \in 0 .. OrderSlots
    /\ sbPc' = "zero"
    /\ UNCHANGED <<shm, gmVars, last_seen_gm_seq, sbWord, view, fillsView, sbOrder,
                   g_stop, wdVars>>

\* ... or the contestant's code crashes.  That it never returns is a behaviour too.
SbCrash ==
    /\ sbPc = "on_tick"
    /\ sbPc' = "dead"
    /\ UNCHANGED <<shm, gmVars, last_seen_gm_seq, sbWord, view, fillsView, out, sbOrder,
                   g_stop, wdVars>>

SbZeroCount ==
    /\ sbPc = "zero"
    /\ order_count' = 0
    /\ sbPc' = IF out = 0 THEN "count" ELSE "orders"
    /\ sbOrder' = 1
    /\ UNCHANGED <<gm_sequence, sb_sequence, snap, fills, orders, gmVars,
                   last_seen_gm_seq, sbWord, view, fillsView, out, g_stop, wdVars>>

SbWriteOrder ==
    /\ sbPc = "orders"
    /\ orders' = [orders EXCEPT ![sbOrder] = last_seen_gm_seq]
    /\ IF sbOrder = out
       THEN sbPc' = "count" /\ sbOrder' = sbOrder
       ELSE sbPc' = sbPc /\ sbOrder' = sbOrder + 1
    /\ UNCHANGED <<gm_sequence, sb_sequence, snap, fills, order_count, gmVars,
                   last_seen_gm_seq, sbWord, view, fillsView, out, g_stop, wdVars>>

SbWriteCount ==
    /\ sbPc = "count"
    /\ order_count' = out
    /\ sbPc' = "signal"
    /\ UNCHANGED <<gm_sequence, sb_sequence, snap, fills, orders, gmVars,
                   last_seen_gm_seq, sbWord, view, fillsView, out, sbOrder, g_stop, wdVars>>

\* Seeded fault: answer with the next sequence number.
AnsweredSeq_ahead == last_seen_gm_seq + 1
AnsweredSeq == last_seen_gm_seq

\* The release store of the answered sequence number.
sandbox_signal ==
    /\ sbPc = "signal"
    /\ sb_sequence' = AnsweredSeq
    /\ sbPc' = "load"
    /\ UNCHANGED <<gm_sequence, snap, fills, order_count, orders, gmVars,
                   last_seen_gm_seq, sbWord, view, fillsView, out, sbOrder, g_stop, wdVars>>

\* Seeded fault: g_stop is looked at only when a new tick was signalled.
StopSeen_onTick == g_stop /\ gm_sequence # last_seen_gm_seq
StopSeen == g_stop

\* while (!g_stop): the only place SIGTERM takes effect.
SbExit ==
    /\ sbPc = "load" /\ StopSeen
    /\ sbPc' = "dead"
    /\ UNCHANGED <<shm, gmVars, last_seen_gm_seq, sbWord, view, fillsView, out, sbOrder,
                   g_stop, wdVars>>

Loader == SbLoad \/ SbPackWord \/ SbPackFills \/ SbZeroCount \/ SbWriteOrder
          \/ SbWriteCount \/ sandbox_signal \/ SbExit

Sandbox == Loader \/ SbOnTick \/ SbCrash

-----------------------------------------------------------------------------
(* The watchdog thread. *)

WdLoadGm ==
    /\ wdPc = "loadGm"
    /\ IF running
       THEN wdPc' = "loadSb" /\ wdGm' = gm_sequence
       ELSE wdPc' = "stopped" /\ wdGm' = wdGm
    /\ UNCHANGED <<shm, gmVars, sbVars, running, wdSb, g_tle_flag>>

WdLoadSb ==
    /\ wdPc = "loadSb"
    /\ wdPc' = IF sb_sequence # wdGm THEN "poll" ELSE "loadGm"
    /\ UNCHANGED <<shm, gmVars, sbVars, running, wdGm, wdSb, g_tle_flag>>

\* The condition of the inner loop; gm_seq is not loaded again in it.
WdPoll ==
    /\ wdPc = "poll"
    /\ wdSb' = sb_sequence
    /\ wdPc' = IF sb_sequence # wdGm /\ running THEN "clock" ELSE "loadGm"
    /\ UNCHANGED <<shm, gmVars, sbVars, running, wdGm, g_tle_flag>>

\* elapsed_ns <= tle_ns: poll again.
WdSpin ==
    /\ wdPc = "clock"
    /\ wdPc' = "poll"
    /\ UNCHANGED <<shm, gmVars, sbVars, running, wdGm, wdSb, g_tle_flag>>

\* elapsed_ns > tle_ns: raise the flag, SIGKILL a forked sandbox, leave the loop.
WdExpire ==
    /\ wdPc = "clock"
    /\ g_tle_flag' = TRUE
    /\ sbPc' = IF Forked THEN "dead" ELSE sbPc
    /\ wdPc' = "loadGm"
    /\ UNCHANGED <<shm, gmVars, last_seen_gm_seq, sbWord, view, fillsView, out, sbOrder,
                   g_stop, running, wdGm, wdSb>>

Watchdog == WdLoadGm \/ WdLoadSb \/ WdPoll \/ WdSpin \/ WdExpire

\* The run is over: every thread has ended.
Ended ==
    /\ gmPc = "exit"
    /\ UNCHANGED vars

Next == GameMaster \/ Sandbox \/ Watchdog \/ Ended

(* The threads are scheduled; the clock passes tle_ns while the watchdog    *)
(* polls; the contestant's on_tick need never return.                       *)
Fairness == /\ WF_vars(GameMaster)
            /\ WF_vars(Loader)
            /\ WF_vars(Watchdog)
            /\ SF_vars(WdExpire)

Spec == Init /\ [][Next]_vars /\ Fairness

-----------------------------------------------------------------------------
ShmOK ==
    /\ gm_sequence \in Ticks /\ sb_sequence \in Ticks
    /\ snap \in [Words -> Ticks] /\ fills \in Ticks
    /\ order_count \in 0 .. OrderSlots /\ orders \in [Slots -> Ticks]

GmOK ==
    /\ gmPc \in {"snapshot", "signal", "wait", "hold", "count", "orders", "fills",
                 "stop", "join", "reap", "exit"}
    /\ seq \in 1 .. MaxTicks + 1 /\ gmWord \in Words /\ spins \in 0 .. SpinBudget
    /\ n_orders \in 0 .. OrderSlots /\ gmOrder \in Slots
    /\ batch \in [Slots -> Ticks] /\ tle_count \in 0 .. MaxTicks

SbOK ==
    /\ sbPc \in {"load", "pack", "packFills", "on_tick", "zero", "orders", "count",
                 "signal", "dead"}
    /\ last_seen_gm_seq \in Ticks /\ sbWord \in Words /\ view \in [Words -> Ticks]
    /\ fillsView \in Ticks /\ out \in 0 .. OrderSlots /\ sbOrder \in Slots

WdOK ==
    /\ wdPc \in {"loadGm", "loadSb", "poll", "clock", "stopped"}
    /\ wdGm \in Ticks /\ wdSb \in Ticks

FlagsOK == /\ inTime \in BOOLEAN /\ g_stop \in BOOLEAN
           /\ running \in BOOLEAN /\ g_tle_flag \in BOOLEAN

TypeOK == ShmOK /\ GmOK /\ SbOK /\ WdOK /\ FlagsOK

\* The Game Master has taken the orders of the current tick and waited no TLE for it.
TookAnswer == gmPc = "fills" /\ inTime

(* When gm_wait_sandbox succeeded, the orders the tick loop applied are     *)
(* exactly the ones on_tick returned for this very tick: none missing, none *)
(* left over from an earlier tick, none written while they were read.       *)
AnswerIsComplete ==
    TookAnswer => /\ n_orders = out
                  /\ \A i \in 1 .. n_orders : batch[i] = seq

(* When gm_wait_sandbox succeeded, the contestant decided on this tick's    *)
(* snapshot and the previous tick's fills, no word of it from another tick, *)
(* although the loader never checks gm_sequence again while it packs them.  *)
DecidedOnThisTick ==
    TookAnswer => /\ view = [w \in Words |-> seq]
                  /\ fillsView = seq - 1

(* A contestant that sees a mixed snapshot does so only after a TLE: the    *)
(* Game Master overwrites the market data only of a tick it gave up on.     *)
TornViewNeedsTLE ==
    sbPc = "on_tick" /\ (\E w \in Words : view[w] # last_seen_gm_seq) => tle_count > 0

(* The sandbox never answers a tick that was not signalled, and its answers *)
(* never go backwards: a late answer cannot undo a later one.               *)
AnswersAdvance ==
    [][sb_sequence' # sb_sequence => /\ sb_sequence' > sb_sequence
                                     /\ sb_sequence' <= gm_sequence]_vars

(* The tick loop ends whatever the contestant does: hang, crash, answer     *)
(* late or be killed.                                                       *)
TickLoopEnds == <>(gmPc \in {"reap", "exit"})

(* If on_tick always returns in the end, the Game Master process exits.     *)
ExitsWhenOnTickReturns == []<>(sbPc # "on_tick") => <>(gmPc = "exit")
=============================================================================
