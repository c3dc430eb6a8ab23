---------------------------- MODULE RunLifecycle ----------------------------
(***************************************************************************)
(* What the engine promises about the row of ONE run, whatever kind of run *)
(* it is: the states and legal moves of engine_service/state_machine.py    *)
(* (module docstring and the commits of drive_run), and who may make them. *)
(*                                                                         *)
(* A run has at most one driver.  A driver that takes the run finds it     *)
(* unfinished; from then on only that driver moves it, and the one thing   *)
(* that happens over its head is a stop somebody asked for.  A driver that *)
(* was overtaken by the stop may still finish what it was doing; nobody    *)
(* takes up a stopped run.                                                 *)
(*                                                                         *)
(* Modules Dispatch, StepLoop and Session implement this specification.    *)
(***************************************************************************)
CONSTANTS Drivers, NoDriver

VARIABLES
    driver,   \* the dispatch that took the run
    state,    \* runs.state
    stop      \* somebody asked the run to stop

vars == <<driver, state, stop>>

Finished == {"completed", "failed", "cancelled"}

\* What a driver may make of a state: never pending again, never a completed
\* or failed run something else.
Moves ==
    {<<"pending", "running">>}
    \cup {"running"} \X {"paused", "completed", "cancelled"}
    \cup {<<"paused", "running">>}
    \cup {"pending", "running", "paused"} \X {"failed"}
    \cup {"cancelled"} \X {"running", "paused", "completed", "failed"}

Init == driver = NoDriver /\ state = "pending" /\ stop = FALSE

\* A dispatch takes the run, moves it, lets go of it, or several of these at once.
Drive ==
    /\ driver = NoDriver => state \notin Finished
    /\ driver' \in Drivers \cup {NoDriver}
    /\ driver' # driver => NoDriver \in {driver, driver'}
    /\ <<state, state'>> \in Moves \/ state' = state
    /\ state' = "cancelled" => stop \/ state = "cancelled"
    /\ UNCHANGED stop

RequestStop == stop' = TRUE /\ UNCHANGED <<driver, state>>

\* The stop is recorded over the driver's head.
RecordStop == stop /\ state' = "cancelled" /\ UNCHANGED <<driver, stop>>

Next == Drive \/ RequestStop \/ RecordStop

Spec == Init /\ [][Next]_vars

=============================================================================
