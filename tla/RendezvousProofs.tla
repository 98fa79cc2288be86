-------------------------- MODULE RendezvousProofs --------------------------
(***************************************************************************)
(* Proofs about Rendezvous, for every number of ticks, snapshot words,     *)
(* order slots and spins, with a forked or an external sandbox.            *)
(***************************************************************************)
EXTENDS Rendezvous, TLAPS

\* The tick the Game Master has signalled and not given up on.
Live == gmPc = "wait" \/ (gmPc \in {"count", "orders", "fills"} /\ inTime)

\* The loader is between its load of gm_sequence and its answer.
Busy == sbPc \in {"pack", "packFills", "on_tick", "zero", "orders", "count", "signal"}

\* How the sequence numbers of the two sides relate to their program counters.
SequenceInv ==
    /\ gmPc \in {"snapshot", "signal"} => gm_sequence = seq - 1 /\ seq <= MaxTicks
    /\ gmPc \in {"wait", "hold", "count", "orders", "fills"}
          => gm_sequence = seq /\ seq <= MaxTicks
    /\ gmPc \in {"stop", "join", "reap", "exit"} => gm_sequence = MaxTicks
    /\ gmPc \in {"count", "orders", "fills"} /\ inTime => sb_sequence = seq
    /\ gmPc = "wait" => spins < SpinBudget
    /\ gmPc = "hold" => ~inTime
    /\ last_seen_gm_seq <= gm_sequence
    /\ sb_sequence <= last_seen_gm_seq
    /\ sbPc = "load" => sb_sequence = last_seen_gm_seq
    /\ Busy => sb_sequence < last_seen_gm_seq

\* What the Game Master has published of the current tick.
PublishedInv ==
    /\ gmPc = "snapshot" => \A w \in 1 .. gmWord - 1 : snap[w] = seq
    /\ gmPc \in {"signal", "wait", "hold", "count", "orders", "fills"}
          => \A w \in Words : snap[w] = seq
    /\ gmPc \in {"snapshot", "signal", "wait", "hold", "count", "orders", "fills"}
          => fills = seq - 1
    /\ gmPc # "snapshot" => gmWord = 1

Answered == sbPc \in {"load", "dead"} /\ sb_sequence = seq

\* What the sandbox has copied of a live tick.
ViewInv ==
    Live /\ last_seen_gm_seq = seq =>
        /\ sbPc = "pack" => \A w \in 1 .. sbWord - 1 : view[w] = seq
        /\ (sbPc \in {"packFills", "on_tick", "zero", "orders", "count", "signal"} \/ Answered)
              => \A w \in Words : view[w] = seq
        /\ (sbPc \in {"on_tick", "zero", "orders", "count", "signal"} \/ Answered)
              => fillsView = seq - 1

\* What the sandbox has written of its answer to a live tick.
AnswerInv ==
    /\ sbPc = "orders" => sbOrder <= out
    /\ Live /\ last_seen_gm_seq = seq =>
        /\ sbPc = "orders" => \A i \in 1 .. sbOrder - 1 : orders[i] = seq
        /\ (sbPc \in {"count", "signal"} \/ Answered) => \A i \in 1 .. out : orders[i] = seq
        /\ (sbPc = "signal" \/ Answered) => order_count = out

\* What the Game Master has taken of an answer that came in time.
BatchInv ==
    /\ gmPc = "orders" => gmOrder <= n_orders
    /\ gmPc \in {"orders", "fills"} /\ inTime => n_orders = out
    /\ gmPc = "orders" /\ inTime => \A i \in 1 .. gmOrder - 1 : batch[i] = seq
    /\ gmPc = "fills" /\ inTime => \A i \in 1 .. n_orders : batch[i] = seq

\* Without a TLE the two sides alternate strictly.
AlternationInv ==
    /\ tle_count <= seq
    /\ gmPc \in {"snapshot", "signal", "wait"} => tle_count < seq
    /\ gmPc \in {"stop", "join", "reap", "exit"} => seq = MaxTicks + 1 /\ tle_count <= MaxTicks
    /\ tle_count = 0 =>
        /\ gmPc # "hold"
        /\ gmPc \in {"count", "orders", "fills"} => inTime
        /\ gmPc \in {"snapshot", "signal"} => sb_sequence = seq - 1
        /\ gmPc = "wait" => sb_sequence >= seq - 1
        /\ gmPc \in {"stop", "join", "reap", "exit"} => sb_sequence = MaxTicks

IndInv == /\ TypeOK /\ SequenceInv /\ PublishedInv /\ ViewInv /\ AnswerInv
          /\ BatchInv /\ AlternationInv

-----------------------------------------------------------------------------
USE RendezvousAssumption DEF Words, Slots, Ticks

(* The zeroed shared memory satisfies the inductive invariant. *)
LEMMA InitIndInv == Init => IndInv
<1> SUFFICES ASSUME Init PROVE IndInv
  OBVIOUS
<1>1. ShmOK
  BY DEF Init, ShmOK
<1>2. GmOK
  BY DEF Init, GmOK
<1>3. SbOK
  BY DEF Init, SbOK
<1>4. WdOK
  BY DEF Init, WdOK
<1>5. FlagsOK
  BY DEF Init, FlagsOK
<1>6. SequenceInv
  BY DEF Init, SequenceInv, Busy
<1>7. PublishedInv
  BY DEF Init, PublishedInv
<1>8. ViewInv
  BY DEF Init, ViewInv, Live, Answered
<1>9. AnswerInv
  BY DEF Init, AnswerInv, Live, Answered
<1>10. BatchInv
  BY DEF Init, BatchInv
<1>11. AlternationInv
  BY DEF Init, AlternationInv
<1>12. QED
  BY <1>1, <1>2, <1>3, <1>4, <1>5, <1>6, <1>7, <1>8, <1>9, <1>10, <1>11 DEF IndInv, TypeOK

(* A step of the tick loop preserves the inductive invariant. *)
LEMMA GameMasterStep == IndInv /\ GameMaster => IndInv'
<1> SUFFICES ASSUME IndInv, GameMaster PROVE IndInv'
  OBVIOUS
<1> USE DEF IndInv, TypeOK, Arrived, Tle, Spin, LastTick, FillBlock, AnsweredSeq, StopSeen
<1>1. CASE GmWriteWord
  <2>1. ShmOK'
    BY <1>1 DEF GmWriteWord, GmOK, SbOK, SequenceInv, ShmOK, gmVars, sbVars, wdVars,
           shm
  <2>2. GmOK'
    <3>1. CASE gmWord = NWords
      BY <1>1, <3>1 DEF GmWriteWord, GmOK, SequenceInv
    <3>2. CASE gmWord # NWords
      BY <1>1, <3>2 DEF GmWriteWord, GmOK, SequenceInv
    <3>3. QED
      BY <3>1, <3>2
  <2>3. SequenceInv'
    BY <1>1 DEF GmWriteWord, ShmOK, GmOK, SbOK, SequenceInv, Busy, gmVars, sbVars,
           wdVars, shm
  <2>4. PublishedInv'
    <3>1. CASE gmWord = NWords
      BY <1>1, <3>1 DEF GmWriteWord, ShmOK, GmOK, SequenceInv, PublishedInv
    <3>2. CASE gmWord # NWords
      BY <1>1, <3>2 DEF GmWriteWord, ShmOK, GmOK, SequenceInv, PublishedInv
    <3>3. QED
      BY <3>1, <3>2
  <2>5. ViewInv'
    BY <1>1 DEF GmWriteWord, ShmOK, GmOK, SbOK, SequenceInv, PublishedInv, ViewInv,
           Live, Busy, Answered, gmVars, sbVars, wdVars, shm
  <2>6. AnswerInv'
    BY <1>1 DEF GmWriteWord, ShmOK, GmOK, SbOK, SequenceInv, AnswerInv, Live, Busy,
           Answered, gmVars, sbVars, wdVars, shm
  <2>7. BatchInv'
    BY <1>1 DEF GmWriteWord, ShmOK, GmOK, SbOK, SequenceInv, AnswerInv, BatchInv,
           Live, Busy, Answered, gmVars, sbVars, wdVars, shm
  <2>8. AlternationInv'
    BY <1>1 DEF GmWriteWord, ShmOK, GmOK, SbOK, SequenceInv, AlternationInv, gmVars,
           sbVars, wdVars, shm
  <2>9. SbOK' /\ WdOK' /\ FlagsOK'
    BY <1>1 DEF GmWriteWord, SbOK, WdOK, FlagsOK, gmVars, sbVars, wdVars, shm
  <2>10. QED
    BY <2>1, <2>2, <2>3, <2>4, <2>5, <2>6, <2>7, <2>8, <2>9
<1>2. CASE gm_signal
  <2>1. ShmOK'
    BY <1>2 DEF gm_signal, GmOK, SbOK, SequenceInv, ShmOK, gmVars, sbVars, wdVars,
           shm
  <2>2. GmOK'
    BY <1>2 DEF gm_signal, ShmOK, SequenceInv, BatchInv, AlternationInv, GmOK,
           gmVars, sbVars, wdVars, shm
  <2>3. SequenceInv'
    BY <1>2 DEF gm_signal, ShmOK, GmOK, SbOK, SequenceInv, Busy, gmVars, sbVars,
           wdVars, shm
  <2>4. PublishedInv'
    BY <1>2 DEF gm_signal, ShmOK, GmOK, SbOK, SequenceInv, PublishedInv, gmVars,
           sbVars, wdVars, shm
  <2>5. ViewInv'
    BY <1>2 DEF gm_signal, ShmOK, GmOK, SbOK, SequenceInv, PublishedInv, ViewInv,
           Live, Busy, Answered, gmVars, sbVars, wdVars, shm
  <2>6. AnswerInv'
    BY <1>2 DEF gm_signal, ShmOK, GmOK, SbOK, SequenceInv, AnswerInv, Live, Busy,
           Answered, gmVars, sbVars, wdVars, shm
  <2>7. BatchInv'
    BY <1>2 DEF gm_signal, ShmOK, GmOK, SbOK, SequenceInv, AnswerInv, BatchInv,
           Live, Busy, Answered, gmVars, sbVars, wdVars, shm
  <2>8. AlternationInv'
    BY <1>2 DEF gm_signal, ShmOK, GmOK, SbOK, SequenceInv, AlternationInv, gmVars,
           sbVars, wdVars, shm
  <2>9. SbOK' /\ WdOK' /\ FlagsOK'
    BY <1>2 DEF gm_signal, SbOK, WdOK, FlagsOK, gmVars, sbVars, wdVars, shm
  <2>10. QED
    BY <2>1, <2>2, <2>3, <2>4, <2>5, <2>6, <2>7, <2>8, <2>9
<1>3. CASE gm_wait_sandbox
  <2>1. GmOK'
    BY <1>3 DEF gm_wait_sandbox, ShmOK, SequenceInv, BatchInv, AlternationInv, GmOK,
           gmVars, sbVars, wdVars, shm
  <2>2. FlagsOK'
    BY <1>3 DEF gm_wait_sandbox, FlagsOK, gmVars, sbVars, wdVars, shm
  <2>3. SequenceInv'
    BY <1>3 DEF gm_wait_sandbox, ShmOK, GmOK, SbOK, SequenceInv, Busy, gmVars,
           sbVars, wdVars, shm
  <2>4. PublishedInv'
    BY <1>3 DEF gm_wait_sandbox, ShmOK, GmOK, SbOK, SequenceInv, PublishedInv,
           gmVars, sbVars, wdVars, shm
  <2>5. ViewInv'
    BY <1>3 DEF gm_wait_sandbox, ShmOK, GmOK, SbOK, SequenceInv, PublishedInv,
           ViewInv, Live, Busy, Answered, gmVars, sbVars, wdVars, shm
  <2>6. AnswerInv'
    BY <1>3 DEF gm_wait_sandbox, ShmOK, GmOK, SbOK, SequenceInv, AnswerInv, Live,
           Busy, Answered, gmVars, sbVars, wdVars, shm
  <2>7. BatchInv'
    BY <1>3 DEF gm_wait_sandbox, ShmOK, GmOK, SbOK, SequenceInv, AnswerInv,
           BatchInv, Live, Busy, Answered, gmVars, sbVars, wdVars, shm
  <2>8. AlternationInv'
    BY <1>3 DEF gm_wait_sandbox, ShmOK, GmOK, SbOK, SequenceInv, AlternationInv,
           gmVars, sbVars, wdVars, shm
  <2>9. ShmOK' /\ SbOK' /\ WdOK'
    BY <1>3 DEF gm_wait_sandbox, ShmOK, SbOK, WdOK, gmVars, sbVars, wdVars, shm
  <2>10. QED
    BY <2>1, <2>2, <2>3, <2>4, <2>5, <2>6, <2>7, <2>8, <2>9
<1>4. CASE GmHold
  <2>1. ShmOK'
    BY <1>4 DEF GmHold, GmOK, SbOK, SequenceInv, ShmOK, gmVars, sbVars, wdVars, shm
  <2>2. GmOK'
    BY <1>4 DEF GmHold, ShmOK, SequenceInv, BatchInv, AlternationInv, GmOK, gmVars,
           sbVars, wdVars, shm
  <2>3. SequenceInv'
    BY <1>4 DEF GmHold, ShmOK, GmOK, SbOK, SequenceInv, Busy, gmVars, sbVars,
           wdVars, shm
  <2>4. PublishedInv'
    BY <1>4 DEF GmHold, ShmOK, GmOK, SbOK, SequenceInv, PublishedInv, gmVars,
           sbVars, wdVars, shm
  <2>5. ViewInv'
    BY <1>4 DEF GmHold, ShmOK, GmOK, SbOK, SequenceInv, PublishedInv, ViewInv, Live,
           Busy, Answered, gmVars, sbVars, wdVars, shm
  <2>6. AnswerInv'
    BY <1>4 DEF GmHold, ShmOK, GmOK, SbOK, SequenceInv, AnswerInv, Live, Busy,
           Answered, gmVars, sbVars, wdVars, shm
  <2>7. BatchInv'
    BY <1>4 DEF GmHold, ShmOK, GmOK, SbOK, SequenceInv, AnswerInv, BatchInv, Live,
           Busy, Answered, gmVars, sbVars, wdVars, shm
  <2>8. AlternationInv'
    BY <1>4 DEF GmHold, ShmOK, GmOK, SbOK, SequenceInv, AlternationInv, gmVars,
           sbVars, wdVars, shm
  <2>9. SbOK' /\ WdOK' /\ FlagsOK'
    BY <1>4 DEF GmHold, SbOK, WdOK, FlagsOK, gmVars, sbVars, wdVars, shm
  <2>10. QED
    BY <2>1, <2>2, <2>3, <2>4, <2>5, <2>6, <2>7, <2>8, <2>9
<1>5. CASE GmReadCount
  <2>1. GmOK'
    BY <1>5 DEF GmReadCount, Least, ShmOK, SequenceInv, BatchInv, AlternationInv,
           GmOK, gmVars, sbVars, wdVars, shm
  <2>2. SequenceInv'
    BY <1>5 DEF GmReadCount, Least, ShmOK, GmOK, SbOK, SequenceInv, Busy, gmVars,
           sbVars, wdVars, shm
  <2>3. PublishedInv'
    BY <1>5 DEF GmReadCount, Least, ShmOK, GmOK, SbOK, SequenceInv, PublishedInv,
           gmVars, sbVars, wdVars, shm
  <2>4. ViewInv'
    BY <1>5 DEF GmReadCount, Least, ShmOK, GmOK, SbOK, SequenceInv, PublishedInv,
           ViewInv, Live, Busy, Answered, gmVars, sbVars, wdVars, shm
  <2>5. AnswerInv'
    BY <1>5 DEF GmReadCount, Least, ShmOK, GmOK, SbOK, SequenceInv, AnswerInv, Live,
           Busy, Answered, gmVars, sbVars, wdVars, shm
  <2>6. BatchInv'
    BY <1>5 DEF GmReadCount, Least, ShmOK, GmOK, SbOK, SequenceInv, AnswerInv,
           BatchInv, Live, Busy, Answered, gmVars, sbVars, wdVars, shm
  <2>7. AlternationInv'
    BY <1>5 DEF GmReadCount, Least, ShmOK, GmOK, SbOK, SequenceInv, AlternationInv,
           gmVars, sbVars, wdVars, shm
  <2>8. ShmOK' /\ SbOK' /\ WdOK' /\ FlagsOK'
    BY <1>5 DEF GmReadCount, ShmOK, SbOK, WdOK, FlagsOK, gmVars, sbVars, wdVars, shm
  <2>9. QED
    BY <2>1, <2>2, <2>3, <2>4, <2>5, <2>6, <2>7, <2>8
<1>6. CASE GmTakeOrder
  <2>1. GmOK'
    <3>1. batch' \in [Slots -> Ticks]
      BY <1>6 DEF GmTakeOrder, ShmOK, GmOK
    <3>2. gmOrder' \in Slots
      BY <1>6 DEF GmTakeOrder, GmOK, BatchInv
    <3>3. QED
      BY <1>6, <3>1, <3>2 DEF GmTakeOrder, GmOK
  <2>2. SequenceInv'
    BY <1>6 DEF GmTakeOrder, ShmOK, GmOK, SbOK, SequenceInv, Busy, gmVars, sbVars,
           wdVars, shm
  <2>3. PublishedInv'
    BY <1>6 DEF GmTakeOrder, ShmOK, GmOK, SbOK, SequenceInv, PublishedInv, gmVars,
           sbVars, wdVars, shm
  <2>4. ViewInv'
    BY <1>6 DEF GmTakeOrder, ShmOK, GmOK, SbOK, SequenceInv, PublishedInv, ViewInv,
           Live, Busy, Answered, gmVars, sbVars, wdVars, shm
  <2>5. AnswerInv'
    BY <1>6 DEF GmTakeOrder, ShmOK, GmOK, SbOK, SequenceInv, AnswerInv, Live, Busy,
           Answered, gmVars, sbVars, wdVars, shm
  <2>6. BatchInv'
    <3>1. inTime => orders[gmOrder] = seq
      BY <1>6 DEF GmTakeOrder, ShmOK, GmOK, SbOK, SequenceInv, AnswerInv, BatchInv, Live,
               Busy, Answered
    <3>2. CASE gmOrder = n_orders
      BY <1>6, <3>1, <3>2 DEF GmTakeOrder, GmOK, BatchInv, sbVars
    <3>3. CASE gmOrder # n_orders
      BY <1>6, <3>1, <3>3 DEF GmTakeOrder, GmOK, BatchInv, sbVars
    <3>4. QED
      BY <3>2, <3>3
  <2>7. AlternationInv'
    BY <1>6 DEF GmTakeOrder, ShmOK, GmOK, SbOK, SequenceInv, AlternationInv, gmVars,
           sbVars, wdVars, shm
  <2>8. ShmOK' /\ SbOK' /\ WdOK' /\ FlagsOK'
    BY <1>6 DEF GmTakeOrder, ShmOK, SbOK, WdOK, FlagsOK, gmVars, sbVars, wdVars, shm
  <2>9. QED
    BY <2>1, <2>2, <2>3, <2>4, <2>5, <2>6, <2>7, <2>8
<1>7. CASE GmWriteFills
  <2>1. ShmOK'
    BY <1>7 DEF GmWriteFills, GmOK, SbOK, SequenceInv, ShmOK, gmVars, sbVars,
           wdVars, shm
  <2>2. GmOK'
    BY <1>7 DEF GmWriteFills, ShmOK, SequenceInv, BatchInv, AlternationInv, GmOK,
           gmVars, sbVars, wdVars, shm
  <2>3. SequenceInv'
    BY <1>7 DEF GmWriteFills, ShmOK, GmOK, SbOK, SequenceInv, Busy, gmVars, sbVars,
           wdVars, shm
  <2>4. PublishedInv'
    BY <1>7 DEF GmWriteFills, ShmOK, GmOK, SbOK, SequenceInv, PublishedInv, gmVars,
           sbVars, wdVars, shm
  <2>5. ViewInv'
    BY <1>7 DEF GmWriteFills, ShmOK, GmOK, SbOK, SequenceInv, PublishedInv, ViewInv,
           Live, Busy, Answered, gmVars, sbVars, wdVars, shm
  <2>6. AnswerInv'
    BY <1>7 DEF GmWriteFills, ShmOK, GmOK, SbOK, SequenceInv, AnswerInv, Live, Busy,
           Answered, gmVars, sbVars, wdVars, shm
  <2>7. BatchInv'
    BY <1>7 DEF GmWriteFills, ShmOK, GmOK, SbOK, SequenceInv, AnswerInv, BatchInv,
           Live, Busy, Answered, gmVars, sbVars, wdVars, shm
  <2>8. AlternationInv'
    BY <1>7 DEF GmWriteFills, ShmOK, GmOK, SbOK, SequenceInv, AlternationInv,
           gmVars, sbVars, wdVars, shm
  <2>9. SbOK' /\ WdOK' /\ FlagsOK'
    BY <1>7 DEF GmWriteFills, SbOK, WdOK, FlagsOK, gmVars, sbVars, wdVars, shm
  <2>10. QED
    BY <2>1, <2>2, <2>3, <2>4, <2>5, <2>6, <2>7, <2>8, <2>9
<1>8. CASE GmStopWatchdog
  <2>1. GmOK'
    BY <1>8 DEF GmStopWatchdog, ShmOK, SequenceInv, BatchInv, AlternationInv, GmOK,
           gmVars, sbVars, wdVars, shm
  <2>2. FlagsOK'
    BY <1>8 DEF GmStopWatchdog, FlagsOK, gmVars, sbVars, wdVars, shm
  <2>3. SequenceInv'
    BY <1>8 DEF GmStopWatchdog, ShmOK, GmOK, SbOK, SequenceInv, Busy, gmVars,
           sbVars, wdVars, shm
  <2>4. PublishedInv'
    BY <1>8 DEF GmStopWatchdog, ShmOK, GmOK, SbOK, SequenceInv, PublishedInv,
           gmVars, sbVars, wdVars, shm
  <2>5. ViewInv'
    BY <1>8 DEF GmStopWatchdog, ShmOK, GmOK, SbOK, SequenceInv, PublishedInv,
           ViewInv, Live, Busy, Answered, gmVars, sbVars, wdVars, shm
  <2>6. AnswerInv'
    BY <1>8 DEF GmStopWatchdog, ShmOK, GmOK, SbOK, SequenceInv, AnswerInv, Live,
           Busy, Answered, gmVars, sbVars, wdVars, shm
  <2>7. BatchInv'
    BY <1>8 DEF GmStopWatchdog, ShmOK, GmOK, SbOK, SequenceInv, AnswerInv, BatchInv,
           Live, Busy, Answered, gmVars, sbVars, wdVars, shm
  <2>8. AlternationInv'
    BY <1>8 DEF GmStopWatchdog, ShmOK, GmOK, SbOK, SequenceInv, AlternationInv,
           gmVars, sbVars, wdVars, shm
  <2>9. ShmOK' /\ SbOK' /\ WdOK'
    BY <1>8 DEF GmStopWatchdog, ShmOK, SbOK, WdOK, gmVars, sbVars, wdVars, shm
  <2>10. QED
    BY <2>1, <2>2, <2>3, <2>4, <2>5, <2>6, <2>7, <2>8, <2>9
<1>9. CASE GmTerminateSandbox
  <2>1. GmOK'
    BY <1>9 DEF GmTerminateSandbox, ShmOK, SequenceInv, BatchInv, AlternationInv,
           GmOK, gmVars, sbVars, wdVars, shm
  <2>2. FlagsOK'
    BY <1>9 DEF GmTerminateSandbox, FlagsOK, gmVars, sbVars, wdVars, shm
  <2>3. SequenceInv'
    BY <1>9 DEF GmTerminateSandbox, ShmOK, GmOK, SbOK, SequenceInv, Busy, gmVars,
           sbVars, wdVars, shm
  <2>4. PublishedInv'
    BY <1>9 DEF GmTerminateSandbox, ShmOK, GmOK, SbOK, SequenceInv, PublishedInv,
           gmVars, sbVars, wdVars, shm
  <2>5. ViewInv'
    BY <1>9 DEF GmTerminateSandbox, ShmOK, GmOK, SbOK, SequenceInv, PublishedInv,
           ViewInv, Live, Busy, Answered, gmVars, sbVars, wdVars, shm
  <2>6. AnswerInv'
    BY <1>9 DEF GmTerminateSandbox, ShmOK, GmOK, SbOK, SequenceInv, AnswerInv, Live,
           Busy, Answered, gmVars, sbVars, wdVars, shm
  <2>7. BatchInv'
    BY <1>9 DEF GmTerminateSandbox, ShmOK, GmOK, SbOK, SequenceInv, AnswerInv,
           BatchInv, Live, Busy, Answered, gmVars, sbVars, wdVars, shm
  <2>8. AlternationInv'
    BY <1>9 DEF GmTerminateSandbox, ShmOK, GmOK, SbOK, SequenceInv, AlternationInv,
           gmVars, sbVars, wdVars, shm
  <2>9. ShmOK' /\ SbOK' /\ WdOK'
    BY <1>9 DEF GmTerminateSandbox, ShmOK, SbOK, WdOK, gmVars, sbVars, wdVars, shm
  <2>10. QED
    BY <2>1, <2>2, <2>3, <2>4, <2>5, <2>6, <2>7, <2>8, <2>9
<1>10. CASE GmReap
  <2>1. GmOK'
    BY <1>10 DEF GmReap, ShmOK, SequenceInv, BatchInv, AlternationInv, GmOK, gmVars,
           sbVars, wdVars, shm
  <2>2. SequenceInv'
    BY <1>10 DEF GmReap, ShmOK, GmOK, SbOK, SequenceInv, Busy, gmVars, sbVars,
           wdVars, shm
  <2>3. PublishedInv'
    BY <1>10 DEF GmReap, ShmOK, GmOK, SbOK, SequenceInv, PublishedInv, gmVars,
           sbVars, wdVars, shm
  <2>4. ViewInv'
    BY <1>10 DEF GmReap, ShmOK, GmOK, SbOK, SequenceInv, PublishedInv, ViewInv,
           Live, Busy, Answered, gmVars, sbVars, wdVars, shm
  <2>5. AnswerInv'
    BY <1>10 DEF GmReap, ShmOK, GmOK, SbOK, SequenceInv, AnswerInv, Live, Busy,
           Answered, gmVars, sbVars, wdVars, shm
  <2>6. BatchInv'
    BY <1>10 DEF GmReap, ShmOK, GmOK, SbOK, SequenceInv, AnswerInv, BatchInv, Live,
           Busy, Answered, gmVars, sbVars, wdVars, shm
  <2>7. AlternationInv'
    BY <1>10 DEF GmReap, ShmOK, GmOK, SbOK, SequenceInv, AlternationInv, gmVars,
           sbVars, wdVars, shm
  <2>8. ShmOK' /\ SbOK' /\ WdOK' /\ FlagsOK'
    BY <1>10 DEF GmReap, ShmOK, SbOK, WdOK, FlagsOK, gmVars, sbVars, wdVars, shm
  <2>9. QED
    BY <2>1, <2>2, <2>3, <2>4, <2>5, <2>6, <2>7, <2>8
<1>11. QED
  BY <1>1, <1>2, <1>3, <1>4, <1>5, <1>6, <1>7, <1>8, <1>9, <1>10 DEF GameMaster

(* A step of the loader or of the contestant's code preserves it. *)
LEMMA SandboxStep == IndInv /\ Sandbox => IndInv'
<1> SUFFICES ASSUME IndInv, Sandbox PROVE IndInv'
  OBVIOUS
<1> USE DEF IndInv, TypeOK, Arrived, Tle, Spin, LastTick, FillBlock, AnsweredSeq, StopSeen
<1>1. CASE SbLoad
  <2>1. SbOK'
    BY <1>1 DEF SbLoad, ShmOK, GmOK, AnswerInv, SbOK, gmVars, sbVars, wdVars, shm
  <2>2. SequenceInv'
    BY <1>1 DEF SbLoad, ShmOK, GmOK, SbOK, SequenceInv, Busy, gmVars, sbVars,
           wdVars, shm
  <2>3. ViewInv'
    BY <1>1 DEF SbLoad, ShmOK, GmOK, SbOK, SequenceInv, PublishedInv, ViewInv, Live,
           Busy, Answered, gmVars, sbVars, wdVars, shm
  <2>4. AnswerInv'
    BY <1>1 DEF SbLoad, ShmOK, GmOK, SbOK, SequenceInv, AnswerInv, Live, Busy,
           Answered, gmVars, sbVars, wdVars, shm
  <2>5. ShmOK' /\ GmOK' /\ WdOK' /\ FlagsOK' /\ PublishedInv' /\ BatchInv' /\
      AlternationInv'
    BY <1>1 DEF SbLoad, ShmOK, GmOK, WdOK, FlagsOK, PublishedInv, BatchInv,
           AlternationInv, gmVars, sbVars, wdVars, shm
  <2>6. QED
    BY <2>1, <2>2, <2>3, <2>4, <2>5
<1>2. CASE SbPackWord
  <2>1. SbOK'
    <3>1. CASE sbWord = NWords
      BY <1>2, <3>1 DEF SbPackWord, ShmOK, SbOK
    <3>2. CASE sbWord # NWords
      BY <1>2, <3>2 DEF SbPackWord, ShmOK, SbOK
    <3>3. QED
      BY <3>1, <3>2
  <2>2. SequenceInv'
    BY <1>2 DEF SbPackWord, ShmOK, GmOK, SbOK, SequenceInv, Busy, gmVars, sbVars,
           wdVars, shm
  <2>3. ViewInv'
    <3>1. CASE sbWord = NWords
      BY <1>2, <3>1 DEF SbPackWord, ShmOK, GmOK, SbOK, SequenceInv, PublishedInv,
             ViewInv, Live, Busy, Answered, gmVars, shm
    <3>2. CASE sbWord # NWords
      BY <1>2, <3>2 DEF SbPackWord, ShmOK, GmOK, SbOK, SequenceInv, PublishedInv,
             ViewInv, Live, Busy, Answered, gmVars, shm
    <3>3. QED
      BY <3>1, <3>2
  <2>4. AnswerInv'
    BY <1>2 DEF SbPackWord, ShmOK, GmOK, SbOK, SequenceInv, AnswerInv, Live, Busy,
           Answered, gmVars, sbVars, wdVars, shm
  <2>5. ShmOK' /\ GmOK' /\ WdOK' /\ FlagsOK' /\ PublishedInv' /\ BatchInv' /\
      AlternationInv'
    BY <1>2 DEF SbPackWord, ShmOK, GmOK, WdOK, FlagsOK, PublishedInv, BatchInv,
           AlternationInv, gmVars, sbVars, wdVars, shm
  <2>6. QED
    BY <2>1, <2>2, <2>3, <2>4, <2>5
<1>3. CASE SbPackFills
  <2>1. SbOK'
    BY <1>3 DEF SbPackFills, ShmOK, GmOK, AnswerInv, SbOK, gmVars, sbVars, wdVars,
           shm
  <2>2. SequenceInv'
    BY <1>3 DEF SbPackFills, ShmOK, GmOK, SbOK, SequenceInv, Busy, gmVars, sbVars,
           wdVars, shm
  <2>3. ViewInv'
    BY <1>3 DEF SbPackFills, ShmOK, GmOK, SbOK, SequenceInv, PublishedInv, ViewInv,
           Live, Busy, Answered, gmVars, sbVars, wdVars, shm
  <2>4. AnswerInv'
    BY <1>3 DEF SbPackFills, ShmOK, GmOK, SbOK, SequenceInv, AnswerInv, Live, Busy,
           Answered, gmVars, sbVars, wdVars, shm
  <2>5. ShmOK' /\ GmOK' /\ WdOK' /\ FlagsOK' /\ PublishedInv' /\ BatchInv' /\
      AlternationInv'
    BY <1>3 DEF SbPackFills, ShmOK, GmOK, WdOK, FlagsOK, PublishedInv, BatchInv,
           AlternationInv, gmVars, sbVars, wdVars, shm
  <2>6. QED
    BY <2>1, <2>2, <2>3, <2>4, <2>5
<1>4. CASE SbOnTick
  <2>1. SbOK'
    BY <1>4 DEF SbOnTick, ShmOK, GmOK, AnswerInv, SbOK, gmVars, sbVars, wdVars, shm
  <2>2. SequenceInv'
    BY <1>4 DEF SbOnTick, ShmOK, GmOK, SbOK, SequenceInv, Busy, gmVars, sbVars,
           wdVars, shm
  <2>3. ViewInv'
    BY <1>4 DEF SbOnTick, ShmOK, GmOK, SbOK, SequenceInv, PublishedInv, ViewInv,
           Live, Busy, Answered, gmVars, sbVars, wdVars, shm
  <2>4. AnswerInv'
    BY <1>4 DEF SbOnTick, ShmOK, GmOK, SbOK, SequenceInv, AnswerInv, Live, Busy,
           Answered, gmVars, sbVars, wdVars, shm
  <2>5. BatchInv'
    BY <1>4 DEF SbOnTick, ShmOK, GmOK, SbOK, SequenceInv, AnswerInv, BatchInv, Live,
           Busy, Answered, gmVars, sbVars, wdVars, shm
  <2>6. ShmOK' /\ GmOK' /\ WdOK' /\ FlagsOK' /\ PublishedInv' /\
      AlternationInv'
    BY <1>4 DEF SbOnTick, ShmOK, GmOK, WdOK, FlagsOK, PublishedInv, AlternationInv,
           gmVars, sbVars, wdVars, shm
  <2>7. QED
    BY <2>1, <2>2, <2>3, <2>4, <2>5, <2>6
<1>5. CASE SbCrash
  <2>1. SbOK'
    BY <1>5 DEF SbCrash, ShmOK, GmOK, AnswerInv, SbOK, gmVars, sbVars, wdVars, shm
  <2>2. SequenceInv'
    BY <1>5 DEF SbCrash, ShmOK, GmOK, SbOK, SequenceInv, Busy, gmVars, sbVars,
           wdVars, shm
  <2>3. ViewInv'
    BY <1>5 DEF SbCrash, ShmOK, GmOK, SbOK, SequenceInv, PublishedInv, ViewInv,
           Live, Busy, Answered, gmVars, sbVars, wdVars, shm
  <2>4. AnswerInv'
    BY <1>5 DEF SbCrash, ShmOK, GmOK, SbOK, SequenceInv, AnswerInv, Live, Busy,
           Answered, gmVars, sbVars, wdVars, shm
  <2>5. ShmOK' /\ GmOK' /\ WdOK' /\ FlagsOK' /\ PublishedInv' /\ BatchInv' /\
      AlternationInv'
    BY <1>5 DEF SbCrash, ShmOK, GmOK, WdOK, FlagsOK, PublishedInv, BatchInv,
           AlternationInv, gmVars, sbVars, wdVars, shm
  <2>6. QED
    BY <2>1, <2>2, <2>3, <2>4, <2>5
<1>6. CASE SbZeroCount
  <2>1. ShmOK'
    BY <1>6 DEF SbZeroCount, GmOK, SbOK, SequenceInv, ShmOK, gmVars, sbVars, wdVars,
           shm
  <2>2. SbOK'
    BY <1>6 DEF SbZeroCount, ShmOK, GmOK, AnswerInv, SbOK, gmVars, sbVars, wdVars,
           shm
  <2>3. SequenceInv'
    BY <1>6 DEF SbZeroCount, ShmOK, GmOK, SbOK, SequenceInv, Busy, gmVars, sbVars,
           wdVars, shm
  <2>4. ViewInv'
    BY <1>6 DEF SbZeroCount, ShmOK, GmOK, SbOK, SequenceInv, PublishedInv, ViewInv,
           Live, Busy, Answered, gmVars, sbVars, wdVars, shm
  <2>5. AnswerInv'
    BY <1>6 DEF SbZeroCount, ShmOK, GmOK, SbOK, SequenceInv, AnswerInv, Live, Busy,
           Answered, gmVars, sbVars, wdVars, shm
  <2>6. GmOK' /\ WdOK' /\ FlagsOK' /\ PublishedInv' /\ BatchInv' /\
      AlternationInv'
    BY <1>6 DEF SbZeroCount, GmOK, WdOK, FlagsOK, PublishedInv, BatchInv,
           AlternationInv, gmVars, sbVars, wdVars, shm
  <2>7. QED
    BY <2>1, <2>2, <2>3, <2>4, <2>5, <2>6
<1>7. CASE SbWriteOrder
  <2>1. ShmOK'
    BY <1>7 DEF SbWriteOrder, GmOK, SbOK, SequenceInv, ShmOK, gmVars, sbVars,
           wdVars, shm
  <2>2. SbOK'
    <3>1. CASE sbOrder = out
      BY <1>7, <3>1 DEF SbWriteOrder, SbOK, AnswerInv
    <3>2. CASE sbOrder # out
      BY <1>7, <3>2 DEF SbWriteOrder, SbOK, AnswerInv
    <3>3. QED
      BY <3>1, <3>2
  <2>3. SequenceInv'
    BY <1>7 DEF SbWriteOrder, ShmOK, GmOK, SbOK, SequenceInv, Busy, gmVars, sbVars,
           wdVars, shm
  <2>4. ViewInv'
    BY <1>7 DEF SbWriteOrder, ShmOK, GmOK, SbOK, SequenceInv, PublishedInv, ViewInv,
           Live, Busy, Answered, gmVars, sbVars, wdVars, shm
  <2>5. AnswerInv'
    <3>1. CASE sbOrder = out
      BY <1>7, <3>1 DEF SbWriteOrder, ShmOK, GmOK, SbOK, SequenceInv, AnswerInv, Live,
             Busy, Answered, gmVars
    <3>2. CASE sbOrder # out
      BY <1>7, <3>2 DEF SbWriteOrder, ShmOK, GmOK, SbOK, SequenceInv, AnswerInv, Live,
             Busy, Answered, gmVars
    <3>3. QED
      BY <3>1, <3>2
  <2>6. GmOK' /\ WdOK' /\ FlagsOK' /\ PublishedInv' /\ BatchInv' /\
      AlternationInv'
    BY <1>7 DEF SbWriteOrder, GmOK, WdOK, FlagsOK, PublishedInv, BatchInv,
           AlternationInv, gmVars, sbVars, wdVars, shm
  <2>7. QED
    BY <2>1, <2>2, <2>3, <2>4, <2>5, <2>6
<1>8. CASE SbWriteCount
  <2>1. ShmOK'
    BY <1>8 DEF SbWriteCount, GmOK, SbOK, SequenceInv, ShmOK, gmVars, sbVars,
           wdVars, shm
  <2>2. SbOK'
    BY <1>8 DEF SbWriteCount, ShmOK, GmOK, AnswerInv, SbOK, gmVars, sbVars, wdVars,
           shm
  <2>3. SequenceInv'
    BY <1>8 DEF SbWriteCount, ShmOK, GmOK, SbOK, SequenceInv, Busy, gmVars, sbVars,
           wdVars, shm
  <2>4. ViewInv'
    BY <1>8 DEF SbWriteCount, ShmOK, GmOK, SbOK, SequenceInv, PublishedInv, ViewInv,
           Live, Busy, Answered, gmVars, sbVars, wdVars, shm
  <2>5. AnswerInv'
    BY <1>8 DEF SbWriteCount, ShmOK, GmOK, SbOK, SequenceInv, AnswerInv, Live, Busy,
           Answered, gmVars, sbVars, wdVars, shm
  <2>6. GmOK' /\ WdOK' /\ FlagsOK' /\ PublishedInv' /\ BatchInv' /\
      AlternationInv'
    BY <1>8 DEF SbWriteCount, GmOK, WdOK, FlagsOK, PublishedInv, BatchInv,
           AlternationInv, gmVars, sbVars, wdVars, shm
  <2>7. QED
    BY <2>1, <2>2, <2>3, <2>4, <2>5, <2>6
<1>9. CASE sandbox_signal
  <2>1. ShmOK'
    BY <1>9 DEF sandbox_signal, GmOK, SbOK, SequenceInv, ShmOK, gmVars, sbVars,
           wdVars, shm
  <2>2. SbOK'
    BY <1>9 DEF sandbox_signal, ShmOK, GmOK, AnswerInv, SbOK, gmVars, sbVars,
           wdVars, shm
  <2>3. SequenceInv'
    BY <1>9 DEF sandbox_signal, ShmOK, GmOK, SbOK, SequenceInv, Busy, gmVars,
           sbVars, wdVars, shm
  <2>4. ViewInv'
    BY <1>9 DEF sandbox_signal, ShmOK, GmOK, SbOK, SequenceInv, PublishedInv,
           ViewInv, Live, Busy, Answered, gmVars, sbVars, wdVars, shm
  <2>5. AnswerInv'
    BY <1>9 DEF sandbox_signal, ShmOK, GmOK, SbOK, SequenceInv, AnswerInv, Live,
           Busy, Answered, gmVars, sbVars, wdVars, shm
  <2>6. AlternationInv'
    BY <1>9 DEF sandbox_signal, ShmOK, GmOK, SbOK, SequenceInv, AlternationInv,
           gmVars, sbVars, wdVars, shm
  <2>7. GmOK' /\ WdOK' /\ FlagsOK' /\ PublishedInv' /\ BatchInv'
    BY <1>9 DEF sandbox_signal, GmOK, WdOK, FlagsOK, PublishedInv, BatchInv, gmVars,
           sbVars, wdVars, shm
  <2>8. QED
    BY <2>1, <2>2, <2>3, <2>4, <2>5, <2>6, <2>7
<1>10. CASE SbExit
  <2>1. SbOK'
    BY <1>10 DEF SbExit, ShmOK, GmOK, AnswerInv, SbOK, gmVars, sbVars, wdVars, shm
  <2>2. SequenceInv'
    BY <1>10 DEF SbExit, ShmOK, GmOK, SbOK, SequenceInv, Busy, gmVars, sbVars,
           wdVars, shm
  <2>3. ViewInv'
    BY <1>10 DEF SbExit, ShmOK, GmOK, SbOK, SequenceInv, PublishedInv, ViewInv,
           Live, Busy, Answered, gmVars, sbVars, wdVars, shm
  <2>4. AnswerInv'
    BY <1>10 DEF SbExit, ShmOK, GmOK, SbOK, SequenceInv, AnswerInv, Live, Busy,
           Answered, gmVars, sbVars, wdVars, shm
  <2>5. ShmOK' /\ GmOK' /\ WdOK' /\ FlagsOK' /\ PublishedInv' /\ BatchInv' /\
      AlternationInv'
    BY <1>10 DEF SbExit, ShmOK, GmOK, WdOK, FlagsOK, PublishedInv, BatchInv,
           AlternationInv, gmVars, sbVars, wdVars, shm
  <2>6. QED
    BY <2>1, <2>2, <2>3, <2>4, <2>5
<1>11. QED
  BY <1>1, <1>2, <1>3, <1>4, <1>5, <1>6, <1>7, <1>8, <1>9, <1>10 DEF Sandbox, Loader

(* A step of the watchdog preserves it, the SIGKILL included. *)
LEMMA WatchdogStep == IndInv /\ Watchdog => IndInv'
<1> SUFFICES ASSUME IndInv, Watchdog PROVE IndInv'
  OBVIOUS
<1> USE DEF IndInv, TypeOK, Arrived, Tle, Spin, LastTick, FillBlock, AnsweredSeq, StopSeen
<1>1. CASE WdLoadGm
  <2>1. WdOK'
    BY <1>1 DEF WdLoadGm, ShmOK, WdOK, gmVars, sbVars, wdVars, shm
  <2>2. ShmOK' /\ GmOK' /\ SbOK' /\ FlagsOK' /\ SequenceInv' /\
      PublishedInv' /\ ViewInv' /\ AnswerInv' /\ BatchInv' /\ AlternationInv'
    BY <1>1 DEF WdLoadGm, ShmOK, GmOK, SbOK, FlagsOK, SequenceInv, PublishedInv,
           ViewInv, AnswerInv, BatchInv, AlternationInv, Busy, Live, Answered,
           gmVars, sbVars, wdVars, shm
  <2>3. QED
    BY <2>1, <2>2
<1>2. CASE WdLoadSb
  <2>1. WdOK'
    BY <1>2 DEF WdLoadSb, ShmOK, WdOK, gmVars, sbVars, wdVars, shm
  <2>2. ShmOK' /\ GmOK' /\ SbOK' /\ FlagsOK' /\ SequenceInv' /\
      PublishedInv' /\ ViewInv' /\ AnswerInv' /\ BatchInv' /\ AlternationInv'
    BY <1>2 DEF WdLoadSb, ShmOK, GmOK, SbOK, FlagsOK, SequenceInv, PublishedInv,
           ViewInv, AnswerInv, BatchInv, AlternationInv, Busy, Live, Answered,
           gmVars, sbVars, wdVars, shm
  <2>3. QED
    BY <2>1, <2>2
<1>3. CASE WdPoll
  <2>1. WdOK'
    BY <1>3 DEF WdPoll, ShmOK, WdOK, gmVars, sbVars, wdVars, shm
  <2>2. ShmOK' /\ GmOK' /\ SbOK' /\ FlagsOK' /\ SequenceInv' /\
      PublishedInv' /\ ViewInv' /\ AnswerInv' /\ BatchInv' /\ AlternationInv'
    BY <1>3 DEF WdPoll, ShmOK, GmOK, SbOK, FlagsOK, SequenceInv, PublishedInv,
           ViewInv, AnswerInv, BatchInv, AlternationInv, Busy, Live, Answered,
           gmVars, sbVars, wdVars, shm
  <2>3. QED
    BY <2>1, <2>2
<1>4. CASE WdSpin
  <2>1. WdOK'
    BY <1>4 DEF WdSpin, ShmOK, WdOK, gmVars, sbVars, wdVars, shm
  <2>2. ShmOK' /\ GmOK' /\ SbOK' /\ FlagsOK' /\ SequenceInv' /\
      PublishedInv' /\ ViewInv' /\ AnswerInv' /\ BatchInv' /\ AlternationInv'
    BY <1>4 DEF WdSpin, ShmOK, GmOK, SbOK, FlagsOK, SequenceInv, PublishedInv,
           ViewInv, AnswerInv, BatchInv, AlternationInv, Busy, Live, Answered,
           gmVars, sbVars, wdVars, shm
  <2>3. QED
    BY <2>1, <2>2
<1>5. CASE WdExpire
  <2>1. SbOK'
    BY <1>5 DEF WdExpire, ShmOK, GmOK, AnswerInv, SbOK, gmVars, sbVars, wdVars, shm
  <2>2. WdOK'
    BY <1>5 DEF WdExpire, ShmOK, WdOK, gmVars, sbVars, wdVars, shm
  <2>3. FlagsOK'
    BY <1>5 DEF WdExpire, FlagsOK, gmVars, sbVars, wdVars, shm
  <2>4. SequenceInv'
    BY <1>5 DEF WdExpire, ShmOK, GmOK, SbOK, SequenceInv, Busy, gmVars, sbVars,
           wdVars, shm
  <2>5. ViewInv'
    BY <1>5 DEF WdExpire, ShmOK, GmOK, SbOK, SequenceInv, PublishedInv, ViewInv,
           Live, Busy, Answered, gmVars, sbVars, wdVars, shm
  <2>6. AnswerInv'
    BY <1>5 DEF WdExpire, ShmOK, GmOK, SbOK, SequenceInv, AnswerInv, Live, Busy,
           Answered, gmVars, sbVars, wdVars, shm
  <2>7. ShmOK' /\ GmOK' /\ PublishedInv' /\ BatchInv' /\ AlternationInv'
    BY <1>5 DEF WdExpire, ShmOK, GmOK, PublishedInv, BatchInv, AlternationInv,
           gmVars, sbVars, wdVars, shm
  <2>8. QED
    BY <2>1, <2>2, <2>3, <2>4, <2>5, <2>6, <2>7
<1>6. QED
  BY <1>1, <1>2, <1>3, <1>4, <1>5 DEF Watchdog

(* Every step of the three threads preserves the inductive invariant. *)
LEMMA NextIndInv == IndInv /\ [Next]_vars => IndInv'
<1> SUFFICES ASSUME IndInv, [Next]_vars PROVE IndInv'
  OBVIOUS
<1>1. CASE UNCHANGED vars
  <2> USE <1>1 DEF vars, shm, gmVars, sbVars, wdVars
  <2>1. TypeOK'
    BY DEF IndInv, TypeOK, ShmOK, GmOK, SbOK, WdOK, FlagsOK
  <2>2. SequenceInv' /\ PublishedInv'
    BY DEF IndInv, SequenceInv, PublishedInv, Busy
  <2>3. ViewInv' /\ AnswerInv'
    BY DEF IndInv, ViewInv, AnswerInv, Live, Answered
  <2>4. BatchInv' /\ AlternationInv'
    BY DEF IndInv, BatchInv, AlternationInv
  <2>5. QED
    BY <2>1, <2>2, <2>3, <2>4 DEF IndInv
<1>2. QED
  BY <1>1, GameMasterStep, SandboxStep, WatchdogStep DEF Next, Ended

THEOREM Inductive == Spec => []IndInv
  BY InitIndInv, NextIndInv, PTL DEF Spec

(* Every variable keeps its type: in particular the Game Master never reads *)
(* an order slot or a snapshot word outside SharedMem, and tle_count counts *)
(* at most one TLE per tick.                                                *)
THEOREM TypeCorrect == Spec => []TypeOK
<1>1. IndInv => TypeOK
  BY DEF IndInv
<1>2. QED
  BY <1>1, Inductive, PTL

(* When gm_wait_sandbox succeeds, the tick loop applies exactly the orders   *)
(* on_tick returned for that tick.                                           *)
THEOREM CompleteAnswer == Spec => []AnswerIsComplete
<1>1. IndInv => AnswerIsComplete
  BY DEF IndInv, BatchInv, AnswerIsComplete, TookAnswer
<1>2. QED
  BY <1>1, Inductive, PTL

(* When gm_wait_sandbox succeeds, on_tick saw this tick's snapshot, unmixed,  *)
(* and the fills of the tick before it.                                       *)
THEOREM ConsistentDecision == Spec => []DecidedOnThisTick
<1>1. IndInv => DecidedOnThisTick
  <2> SUFFICES ASSUME IndInv, TookAnswer PROVE view = [w \in Words |-> seq] /\ fillsView = seq - 1
    BY DEF DecidedOnThisTick
  <2>1. last_seen_gm_seq = seq /\ Answered /\ Live
    BY DEF IndInv, TypeOK, ShmOK, GmOK, SbOK, SequenceInv, TookAnswer, Answered, Live, Busy
  <2>2. (\A w \in Words : view[w] = seq) /\ fillsView = seq - 1
    BY <2>1 DEF IndInv, ViewInv
  <2>3. QED
    BY <2>2 DEF IndInv, TypeOK, SbOK
<1>2. QED
  BY <1>1, Inductive, PTL

(* A contestant sees a mixed snapshot only in a run that had a TLE. *)
THEOREM TornViewTheorem == Spec => []TornViewNeedsTLE
<1>1. IndInv => TornViewNeedsTLE
  <2> SUFFICES ASSUME IndInv, sbPc = "on_tick", tle_count = 0
               PROVE \A w \in Words : view[w] = last_seen_gm_seq
    BY DEF TornViewNeedsTLE, IndInv, TypeOK, GmOK
  <2>1. gmPc = "wait" /\ last_seen_gm_seq = seq
    BY DEF IndInv, TypeOK, ShmOK, GmOK, SbOK, SequenceInv, AlternationInv, Busy
  <2>2. QED
    BY <2>1 DEF IndInv, ViewInv, Live
<1>2. QED
  BY <1>1, Inductive, PTL

(* The sandbox answers only signalled ticks, in increasing order. *)
THEOREM AnswersAdvanceTheorem == Spec => AnswersAdvance
<1>1. IndInv /\ [Next]_vars =>
        [sb_sequence' # sb_sequence => /\ sb_sequence' > sb_sequence
                                       /\ sb_sequence' <= gm_sequence]_vars
  <2> SUFFICES ASSUME IndInv, Next, sb_sequence' # sb_sequence
               PROVE sb_sequence' > sb_sequence /\ sb_sequence' <= gm_sequence
    BY DEF vars, shm
  <2>1. sandbox_signal
    BY DEF Next, GameMaster, Sandbox, Loader, Watchdog, Ended,
           GmWriteWord, gm_signal, gm_wait_sandbox, GmHold, GmReadCount, GmTakeOrder,
           GmWriteFills, GmStopWatchdog, GmTerminateSandbox, GmReap,
           SbLoad, SbPackWord, SbPackFills, SbOnTick, SbCrash, SbZeroCount, SbWriteOrder,
           SbWriteCount, SbExit, WdLoadGm, WdLoadSb, WdPoll, WdSpin, WdExpire,
           vars, shm
  <2>2. QED
    BY <2>1 DEF sandbox_signal, AnsweredSeq, IndInv, TypeOK, ShmOK, SbOK, SequenceInv, Busy
<1>2. QED
  BY <1>1, Inductive, PTL DEF Spec, AnswersAdvance
=============================================================================
