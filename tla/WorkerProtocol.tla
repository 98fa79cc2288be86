--------------------------- MODULE WorkerProtocol ---------------------------
(***************************************************************************)
(* What the page may rely on of the local simulator's Web Worker: which    *)
(* messages it posts in which phase after START_SIMULATION.                *)
(* SimulationWorker implements it, VidhiEngine is written against it.      *)
(***************************************************************************)
EXTENDS Naturals

VARIABLES
    phase,   \* "loading" the data set, "running" batches, or at "rest"
    last     \* type of the message posted last

Phases == {"loading", "running", "rest"}

Move(from, msg, to) == [from |-> from, msg |-> msg, to |-> to]

\* What a worker does by itself.
OwnMoves ==
    {Move("loading", "COMPILE_ERROR", "rest"), Move("loading", "COMPILE_OK", "running"),
     Move("running", "TICK_UPDATE", "running"), Move("running", "SIMULATION_COMPLETE", "rest")}

\* What STOP_SIMULATION does: nothing while the worker is loading.
StopMoves == {Move(p, "SIMULATION_STOPPED", "rest") : p \in {"running", "rest"}}

Moves == OwnMoves \cup StopMoves

Init == phase = "loading" /\ last = "none"

Post(m) == phase = m.from /\ phase' = m.to /\ last' = m.msg

Next == \E m \in Moves : Post(m)

\* Nothing promises that a worker ends: the contestant's code may loop for ever.
Spec == Init /\ [][Next]_<<phase, last>>
=============================================================================
