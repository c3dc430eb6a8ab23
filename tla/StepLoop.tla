------------------------------ MODULE StepLoop ------------------------------
(***************************************************************************)
(* One dispatch driving the workflow: _loop and _run_step of               *)
(* engine_service/state_machine.py over reconcile and DockerRuntime of     *)
(* engine_service/runtime.py, with the agent's container on the other end. *)
(*                                                                         *)
(* The engine and a container meet in three places: the container's status *)
(* (docker), the step row's fargate_task_arn (which container to re-attach *)
(* after a crash), and the result object, whose key is only (step,         *)
(* attempt): a step visited twice uses the same key twice.                 *)
(*                                                                         *)
(* One engine process runs at a time and one dispatch at a time (proved of *)
(* module Dispatch); the run's work item is reduced to `token'.  An engine *)
(* step is what happens between two points where the container, the user   *)
(* or a crash can intervene.                                               *)
(*                                                                         *)
(* A helper that stands before another and is used nowhere (FromScratch,   *)
(* UnfinishedOrFailed, AlwaysLost, NotCleared, NeverOverdue, NotStopped,   *)
(* NoDeadEnd, OverOrPaused) is the fault it would be to get the next one   *)
(* wrong.                                                                  *)
(***************************************************************************)
EXTENDS Integers, FiniteSets, FiniteSetsExt

CONSTANTS
    NumSteps,       \* the steps, 1..NumSteps in workflow order
    Route,          \* the on: map, [Steps \X Verdicts -> Steps \cup {DONE, NoRoute}]
    Gates,          \* the policy, a set of <<step, verdict>>
    MaxAttempts,    \* BB_MAX_ATTEMPTS
    VisitCap,       \* BB_MAX_STEP_VISITS
    KeepContainers, \* BB_KEEP_CONTAINERS
    NumSlots,       \* bound: containers of one attempt that anything still refers to
    MaxCrashes,     \* bound: engine crashes
    MaxDecisions,   \* bound: gate decisions
    Allowed         \* what may go wrong, a subset of Mishaps

Mishaps ==
    { "window",     \* a crash between docker's launch and the commit of the handle
      "reattach",   \* docker's status call raises while re-attaching
      "status",     \* docker's status call raises while reconciling
      "vanish",     \* a container disappears (OOM, host lost)
      "presign",    \* object storage refuses to presign a launch URL
      "launch" }    \* docker refuses the launch

Steps    == 1..NumSteps
DONE     == NumSteps + 1
NoRoute  == 0
Attempts == 1..MaxAttempts
Verdicts == {"completed", "changes_requested"}

ASSUME StepLoopAssumption ==
    /\ NumSteps \in Nat \ {0} /\ MaxAttempts \in Nat \ {0} /\ VisitCap \in Nat \ {0}
    /\ NumSlots \in Nat \ {0} /\ MaxCrashes \in Nat /\ MaxDecisions \in Nat
    /\ Route \in [Steps \X Verdicts -> Steps \cup {DONE, NoRoute}]
    /\ Gates \subseteq Steps \X Verdicts
    /\ KeepContainers \in BOOLEAN
    /\ Allowed \subseteq Mishaps

VARIABLES
    run,      \* the runs row: state, current_step
    row,      \* the steps rows: exec_state, attempt_no, result_status, fargate_task_arn
    box,      \* the containers docker knows
    channel,  \* the result objects, by step and attempt
    token,    \* the work item that drives the run
    eng,      \* the dispatch's memory; pc "down" when no engine runs
    stop,     \* the stop request: none | requested | done
    count     \* history: crashes, decisions, visits of this run, launches of this visit

vars == <<run, row, box, channel, token, eng, stop, count>>

-----------------------------------------------------------------------------
\* Containers, named by what they were launched for.
Boxes  == Steps \X Attempts \X (1..NumSlots)
NoBox  == <<0, 0, 0>>
GoneBox == [state |-> "gone", visit |-> 0]
Terminal == {"completed", "failed", "cancelled"}
\* what a result object says; the agent may also report an engine-level failure
Reports  == Verdicts \cup {"failed_execution", "failed_infra"}
Transient == {"failed_infra", "failed_timeout", "failed_incomplete"}
Statuses == Reports \cup Transient \cup {"__cancelled__"}
NoResult == [status |-> "none", by |-> NoBox, visit |-> 0]
Results  == [status: Reports, by: Boxes, visit: Nat] \cup {NoResult}

TokenRecord == [state: {"none", "pending", "claimed", "orphaned"},
                kind: {"start", "approve", "send_back"}, to: Steps]

EngineRecord == [pc: {"down", "idle", "loop", "attempt", "attach", "prepare", "launch", "commit",
                      "watch", "judge", "stopped", "cleanup", "settle", "finish"},
                 step: 1..DONE, attempt: 1..MaxAttempts + 1, resuming: BOOLEAN,
                 h: Boxes \cup {NoBox}, payload: Results,
                 status: Statuses \cup {"none"}, verdict: Results,
                 visits: [Steps -> 0..VisitCap + 1], event: BOOLEAN]

Memory(pc) == [pc |-> pc, step |-> 1, attempt |-> 1, resuming |-> FALSE, h |-> NoBox,
               payload |-> NoResult, status |-> "none", verdict |-> NoResult,
               visits |-> [s \in Steps |-> 0], event |-> FALSE]

Driving == eng.pc \notin {"down", "idle"}
Running == {c \in Boxes : box[c].state \in {"running", "published"}}

\* Docker ids are never reused while anything refers to them.
Referenced == {row[s].arn : s \in Steps} \cup {eng.h, eng.verdict.by, eng.payload.by}
              \cup {channel[s][a].by : s \in Steps, a \in Attempts}
FreeSlots(s, a) == {k \in 1..NumSlots : box[<<s, a, k>>] = GoneBox /\ <<s, a, k>> \notin Referenced}

Remove(c) == [box EXCEPT ![c] = GoneBox]

\* DockerRuntime.cleanup leaves the container alone under keep_containers.
Cleanup(c) == IF KeepContainers THEN box ELSE Remove(c)

-----------------------------------------------------------------------------
Init ==
    /\ run = [state |-> "pending", step |-> 1]
    /\ row = [s \in Steps |-> [exec |-> "pending", attempt |-> 1, result |-> "none", arn |-> NoBox]]
    /\ box = [c \in Boxes |-> GoneBox]
    /\ channel = [s \in Steps |-> [a \in Attempts |-> NoResult]]
    /\ token = [state |-> "pending", kind |-> "start", to |-> 1]
    /\ eng = Memory("idle")
    /\ stop = "none"
    /\ count = [crashes |-> 0, decisions |-> 0, visits |-> 1, launches |-> 0]

-----------------------------------------------------------------------------
\* The dispatch.

\* A new visit of a step: nothing was launched for it yet.
NewVisit == count' = [count EXCEPT !.visits = @ + 1, !.launches = 0]

\* steps_after, plus the gated step when it is sent back to itself.
ResetSet(target) == {s \in Steps : s > target} \cup ({target} \cap {run.step})

ResetRows(S) ==
    [s \in Steps |-> IF s \in S /\ row[s].exec # "pending"
                     THEN [exec |-> "pending", attempt |-> 1, result |-> "none", arn |-> NoBox]
                     ELSE row[s]]

Enter(step) == eng' = [Memory("loop") EXCEPT !.step = step]

\* The states a dispatch goes on from without a decision.
UnfinishedOrFailed == {"pending", "running", "failed"}
Unfinished == {"pending", "running"}

\* drive_run up to _loop: a finished run or a gate without a decision ends the
\* dispatch, a decision moves the position.
Begin ==
    /\ eng.pc = "idle" /\ token.state = "pending"
    /\ token' = [token EXCEPT !.state = "claimed"]
    /\ \/ /\ run.state \in Terminal \/ (run.state = "paused" /\ token.kind = "start")
          /\ eng' = Memory("finish")
          /\ UNCHANGED <<run, row, count>>
       \/ /\ run.state \in Unfinished
          /\ run' = [run EXCEPT !.state = "running"]
          /\ Enter(run.step)
          /\ UNCHANGED <<row, count>>
       \/ /\ run.state = "paused" /\ token.kind = "approve"
          /\ LET target == Route[<<run.step, row[run.step].result>>] IN
               IF target = NoRoute
               THEN /\ run' = [run EXCEPT !.state = "failed"]
                    /\ eng' = Memory("finish") /\ UNCHANGED count
               ELSE /\ run' = [state |-> "running", step |-> target]
                    /\ Enter(target) /\ NewVisit
          /\ UNCHANGED row
       \/ /\ run.state = "paused" /\ token.kind = "send_back"
          /\ row' = ResetRows(ResetSet(token.to))
          /\ run' = [state |-> "running", step |-> token.to]
          /\ Enter(token.to) /\ NewVisit
    /\ UNCHANGED <<box, channel, stop>>

EndRun(state) == /\ run' = [run EXCEPT !.state = state]
                 /\ eng' = [Memory("finish") EXCEPT !.event = eng.event]

\* A step found running goes on with its attempt, any other starts afresh.
FromScratch(s) == 1
FirstAttempt(s) == IF row[s].exec = "running" THEN row[s].attempt ELSE 1

\* The top of _loop: stop checkpoints, the end, the visit cap, the entry of _run_step.
Loop ==
    LET step == eng.step
        visits == [eng.visits EXCEPT ![step] = @ + 1]
        resuming == row[step].exec = "running"
    IN /\ eng.pc = "loop"
       /\ \/ /\ eng.event \/ run.state = "cancelled"
             /\ EndRun("cancelled")
          \/ /\ ~eng.event /\ run.state # "cancelled" /\ step = DONE
             /\ EndRun("completed")
          \/ /\ ~eng.event /\ run.state # "cancelled" /\ step \in Steps
             /\ IF visits[step] > VisitCap
                THEN EndRun("failed")
                ELSE /\ eng' = [eng EXCEPT !.pc = "attempt", !.visits = visits,
                                           !.resuming = resuming,
                                           !.attempt = FirstAttempt(step)]
                     /\ UNCHANGED run
       /\ UNCHANGED <<row, box, channel, token, stop, count>>

\* One turn of the attempt loop: the attempt is committed before anything runs.
StartAttempt ==
    LET s == eng.step IN
    /\ eng.pc = "attempt"
    /\ IF eng.attempt > MaxAttempts
       THEN EndRun("failed") /\ UNCHANGED row
       ELSE /\ row' = [row EXCEPT ![s].exec = "running", ![s].attempt = eng.attempt]
            /\ run' = [run EXCEPT !.step = s]
            /\ eng' = [eng EXCEPT !.pc = IF eng.resuming /\ row[s].arn # NoBox
                                         THEN "attach" ELSE "prepare"]
    /\ UNCHANGED <<box, channel, token, stop, count>>

\* A status call that raises counts as a lost container.
AlwaysLost(c) == TRUE
Lost(c) == box[c].state = "gone" \/ "reattach" \in Allowed

\* Crash re-attach: the surviving container is watched, a lost one relaunched.
Attach ==
    LET c == row[eng.step].arn IN
    /\ eng.pc = "attach"
    /\ eng' = IF Lost(c)
              THEN [eng EXCEPT !.pc = "prepare"]
              ELSE [eng EXCEPT !.pc = "watch", !.h = c, !.payload = NoResult, !.resuming = FALSE]
    /\ UNCHANGED <<run, row, box, channel, token, stop, count>>

\* _clear_attempt_channels, for the attempt about to be launched.
NotCleared == channel
Cleared == [channel EXCEPT ![eng.step][eng.attempt] = NoResult]

\* _prepare_launch_env may fail (the attempt is used up, `resuming' is not
\* reset).
Prepare ==
    /\ eng.pc = "prepare"
    /\ \/ /\ "presign" \in Allowed
          /\ IF eng.attempt < MaxAttempts
             THEN eng' = [eng EXCEPT !.pc = "attempt", !.attempt = @ + 1] /\ UNCHANGED run
             ELSE EndRun("failed")
          /\ UNCHANGED channel
       \/ /\ channel' = Cleared
          /\ eng' = [eng EXCEPT !.pc = "launch"]
          /\ UNCHANGED run
    /\ UNCHANGED <<row, box, token, stop, count>>

\* DockerRuntime.launch; when it raises, the worker records the run as failed.
Launch ==
    /\ eng.pc = "launch"
    /\ \/ /\ \E k \in FreeSlots(eng.step, eng.attempt) :
               LET c == <<eng.step, eng.attempt, k>> IN
               /\ \A j \in FreeSlots(eng.step, eng.attempt) : k <= j
               /\ box' = [box EXCEPT ![c] = [state |-> "running", visit |-> count.visits]]
               /\ eng' = [eng EXCEPT !.pc = "commit", !.h = c]
          /\ count' = [count EXCEPT !.launches = @ + 1]
          /\ UNCHANGED run
       \/ /\ "launch" \in Allowed
          /\ EndRun("failed")
          /\ UNCHANGED <<box, count>>
    /\ UNCHANGED <<row, channel, token, stop>>

\* The handle is committed before reconciling.
CommitHandle ==
    /\ eng.pc = "commit"
    /\ row' = [row EXCEPT ![eng.step].arn = eng.h]
    /\ eng' = [eng EXCEPT !.pc = "watch", !.payload = NoResult, !.resuming = FALSE]
    /\ UNCHANGED <<run, box, channel, token, stop, count>>

-----------------------------------------------------------------------------
\* reconcile.

Classify(status, verdict) ==
    eng' = [eng EXCEPT !.pc = "judge", !.payload = NoResult, !.status = status, !.verdict = verdict]

\* The deadline may strike whenever the container still runs.
NeverOverdue(c) == FALSE
Overdue(c) == box[c].state \in {"running", "published"}

\* The slow tick: the result object is read while the container still runs.
ReadChannel ==
    /\ eng.pc = "watch"
    /\ eng' = [eng EXCEPT !.payload = channel[eng.step][eng.attempt]]
    /\ UNCHANGED <<run, row, box, channel, token, stop, count>>

\* The cancel event is seen first; then docker's status decides.
Reconcile ==
    LET state == box[eng.h].state
        \* the payload in hand, or the re-read of an exited tick
        result == IF eng.payload # NoResult THEN eng.payload ELSE channel[eng.step][eng.attempt]
    IN /\ eng.pc = "watch"
       /\ \/ /\ eng.event
             /\ Classify("__cancelled__", NoResult) /\ UNCHANGED box
          \/ /\ ~eng.event /\ (state = "gone" \/ "status" \in Allowed)
             /\ Classify("failed_infra", NoResult) /\ UNCHANGED box
          \/ /\ ~eng.event /\ state \in {"exited", "crashed"}
             /\ IF result = NoResult
                THEN Classify("failed_incomplete", NoResult)
                ELSE Classify(IF state = "crashed" /\ result.status = "completed"
                              THEN "failed_execution" ELSE result.status, result)
             /\ UNCHANGED box
          \/ /\ ~eng.event /\ Overdue(eng.h)
             /\ Classify("failed_timeout", NoResult)
             /\ box' = Cleanup(eng.h)
       /\ UNCHANGED <<run, row, channel, token, stop, count>>

-----------------------------------------------------------------------------
\* DockerRuntime.stop kills whatever keep_containers says.
NotStopped(c) == box
Stopped(c) == Remove(c)

\* The stop check after the container ended.
Judge ==
    /\ eng.pc = "judge"
    /\ IF eng.status = "__cancelled__" \/ run.state = "cancelled"
       THEN eng' = [eng EXCEPT !.pc = "stopped"] /\ box' = Stopped(eng.h)
       ELSE eng' = [eng EXCEPT !.pc = "cleanup"] /\ UNCHANGED box
    /\ UNCHANGED <<run, row, channel, token, stop, count>>

CancelStep ==
    /\ eng.pc = "stopped"
    /\ row' = [row EXCEPT ![eng.step].exec = "failed", ![eng.step].result = "__cancelled__"]
    /\ EndRun("cancelled")
    /\ UNCHANGED <<box, channel, token, stop, count>>

RemoveContainer ==
    /\ eng.pc = "cleanup"
    /\ box' = Cleanup(eng.h)
    /\ eng' = [eng EXCEPT !.pc = "settle"]
    /\ UNCHANGED <<run, row, channel, token, stop, count>>

\* The locals of one attempt.
Forget == [eng EXCEPT !.h = NoBox, !.payload = NoResult, !.status = "none", !.verdict = NoResult]

NoDeadEnd(target) == FALSE
DeadEnd(target) == target = NoRoute

\* One commit: the row, and a retry, a failure, a gate or the next position.
Settle ==
    LET s == eng.step
        st == eng.status
        target == Route[<<s, st>>]
    IN /\ eng.pc = "settle"
       /\ row' = [row EXCEPT ![s].exec = IF st \in Verdicts THEN "completed" ELSE "failed",
                             ![s].result = st]
       /\ \/ /\ st \in Transient /\ eng.attempt < MaxAttempts
             /\ eng' = [Forget EXCEPT !.pc = "attempt", !.attempt = @ + 1]
             /\ UNCHANGED <<run, count>>
          \/ /\ \/ st \in Transient /\ eng.attempt >= MaxAttempts
                \/ st = "failed_execution"
                \/ st \in Verdicts /\ <<s, st>> \notin Gates /\ DeadEnd(target)
             /\ EndRun("failed") /\ UNCHANGED count
          \/ /\ <<s, st>> \in Gates
             /\ EndRun("paused") /\ UNCHANGED count
          \/ /\ st \in Verdicts /\ <<s, st>> \notin Gates /\ ~DeadEnd(target)
             /\ run' = [run EXCEPT !.step = target]
             /\ eng' = [Forget EXCEPT !.pc = "loop", !.step = target, !.attempt = 1]
             /\ NewVisit
       /\ UNCHANGED <<box, channel, token, stop>>

\* The worker's `finally'.
Finish ==
    /\ eng.pc = "finish"
    /\ token' = [token EXCEPT !.state = "none"]
    /\ eng' = Memory("idle")
    /\ UNCHANGED <<run, row, box, channel, stop, count>>

-----------------------------------------------------------------------------
\* The agent's container.

\* run_skill.sh's exit trap uploads the result ...
Publish(c) ==
    /\ box[c].state = "running"
    /\ \E status \in Reports :
         channel' = [channel EXCEPT ![c[1]][c[2]] =
                        [status |-> status, by |-> c, visit |-> box[c].visit]]
    /\ box' = [box EXCEPT ![c].state = "published"]
    /\ UNCHANGED <<run, row, token, eng, stop, count>>

\* ... and the container exits; it may also die without a result, or vanish.
Exit(c) ==
    /\ c \in Running
    /\ \/ box' = [box EXCEPT ![c].state = "exited"] /\ box[c].state = "published"
       \/ box' = [box EXCEPT ![c].state = "crashed"]
       \/ box' = Remove(c) /\ "vanish" \in Allowed
    /\ UNCHANGED <<run, row, channel, token, eng, stop, count>>

-----------------------------------------------------------------------------
\* The rest of the engine, the user, and crashes.

\* A decision at an open gate.
Decide ==
    /\ run.state = "paused" /\ token.state = "none" /\ stop = "none"
    /\ count.decisions < MaxDecisions
    /\ \/ token' = [state |-> "pending", kind |-> "approve", to |-> 1]
       \/ \E s \in Steps : token' = [state |-> "pending", kind |-> "send_back", to |-> s]
    /\ count' = [count EXCEPT !.decisions = @ + 1]
    /\ UNCHANGED <<run, row, box, channel, eng, stop>>

RequestStop ==
    /\ run.state \notin Terminal /\ stop = "none"
    /\ stop' = "requested"
    /\ UNCHANGED <<run, row, box, channel, token, eng, count>>

\* _cancel_guarded with a live dispatch: signal it (and wait).
SignalStop ==
    /\ stop = "requested" /\ Driving /\ ~eng.event
    /\ eng' = [eng EXCEPT !.event = TRUE]
    /\ UNCHANGED <<run, row, box, channel, token, stop, count>>

\* ... and when the dispatch does not end in time, record the stop over its head.
ForceStop ==
    /\ stop = "requested" /\ Driving /\ eng.event
    /\ run.state \notin Terminal
    /\ run' = [run EXCEPT !.state = "cancelled"]
    /\ stop' = "done"
    /\ UNCHANGED <<row, box, channel, token, eng, count>>

OverOrPaused == run.state \in Terminal \cup {"paused"}
Over == run.state \in Terminal

\* _cancel_guarded without one: void the pending token, record the stop.
RecordStop ==
    /\ stop = "requested" /\ eng.pc = "idle"
    /\ token' = IF token.state = "pending" THEN [token EXCEPT !.state = "none"] ELSE token
    /\ run' = IF Over THEN run ELSE [run EXCEPT !.state = "cancelled"]
    /\ stop' = "done"
    /\ UNCHANGED <<row, box, channel, eng, count>>

\* What was committed survives, and so do the containers.
Crash ==
    /\ eng.pc # "down" /\ count.crashes < MaxCrashes
    /\ eng.pc = "commit" => "window" \in Allowed
    /\ eng' = Memory("down")
    /\ token' = IF token.state = "claimed" THEN [token EXCEPT !.state = "orphaned"] ELSE token
    /\ count' = [count EXCEPT !.crashes = @ + 1]
    /\ UNCHANGED <<run, row, box, channel, stop>>

\* recover_on_startup tops up an in-flight run that has no token.
Restart ==
    /\ eng.pc = "down"
    /\ eng' = Memory("idle")
    /\ token' = IF run.state \in {"running", "paused"} /\ token.state = "none"
                THEN [state |-> "pending", kind |-> "start", to |-> 1] ELSE token
    /\ UNCHANGED <<run, row, box, channel, stop, count>>

\* The heartbeat of the dead engine's claim expired.
ReapClaim ==
    /\ eng.pc # "down" /\ token.state = "orphaned"
    /\ token' = [token EXCEPT !.state = "pending"]
    /\ UNCHANGED <<run, row, box, channel, eng, stop, count>>

-----------------------------------------------------------------------------
Engine == \/ Begin \/ Loop \/ StartAttempt \/ Attach \/ Prepare \/ Launch \/ CommitHandle
          \/ Reconcile \/ Judge \/ CancelStep \/ RemoveContainer \/ Settle \/ Finish
Worker == SignalStop \/ ForceStop \/ RecordStop \/ Restart \/ ReapClaim
Agent  == \E c \in Boxes : Publish(c) \/ Exit(c)
User   == Decide \/ RequestStop

Next == Engine \/ ReadChannel \/ Worker \/ Agent \/ User \/ Crash

Spec == Init /\ [][Next]_vars

\* The event loop schedules the dispatch; the worker restarts, polls its queue
\* and reaps.  Nothing is owed by the agent (the deadline bounds it) or the user.
FairSpec == Spec /\ WF_vars(Engine) /\ WF_vars(SignalStop) /\ WF_vars(RecordStop)
                 /\ WF_vars(Restart) /\ WF_vars(ReapClaim)

-----------------------------------------------------------------------------
\* Properties.

RunRecord == [state: Terminal \cup {"pending", "running", "paused"}, step: 1..DONE]
RowRecord == [exec: {"pending", "running", "completed", "failed"}, attempt: Attempts,
              result: Statuses \cup {"none"}, arn: Boxes \cup {NoBox}]
BoxRecord == [state: {"gone", "running", "published", "exited", "crashed"}, visit: Nat]

\* Rows, containers, channels and memory have the shape the code gives them.
TypeOK ==
    /\ run \in RunRecord
    /\ row \in [Steps -> RowRecord]
    /\ box \in [Boxes -> BoxRecord]
    /\ channel \in [Steps -> [Attempts -> Results]]
    /\ token \in TokenRecord
    /\ eng \in EngineRecord
    /\ stop \in {"none", "requested", "done"}
    /\ count \in [crashes: Nat, decisions: Nat, visits: Nat, launches: Nat]

\* Two agents never work on the run's branch at the same time.
OneAgent == Cardinality(Running) <= 1

\* The verdict the engine acts on was published by the container it watches,
\* launched for this visit of the step: no earlier visit's result is replayed
\* although it sat at the same key (_clear_attempt_channels).
VerdictIsOwn ==
    eng.verdict # NoResult => eng.verdict.by = eng.h /\ eng.verdict.visit = count.visits

\* No agent is left working for a run that waits at a gate or is over once its
\* dispatch has returned.  (A stop that comes after a crash and before the redelivery
\* finds no dispatch to signal, and does leave the agent running.)
NoAgentLeft ==
    /\ token.state = "none"
    /\ \/ run.state \in {"completed", "failed", "paused"}
       \/ run.state = "cancelled" /\ count.crashes = 0
    => Running = {}

\* A visit of a step costs MaxAttempts containers, and one more (or a restarted
\* attempt count) per crash.
LaunchBudget ==
    count.launches <= MaxAttempts + count.crashes * Max({1, MaxAttempts - 1})

\* The agents of a run are accounted for: one at a time, none left behind, and no
\* more of them than attempts and crashes explain.
AgentsAccounted == OneAgent /\ NoAgentLeft /\ LaunchBudget

\* Every dispatch ends: the visit cap bounds the loops, the deadline the waits.
DispatchEnds == Driving ~> ~Driving

\* A stop ends the run, whatever the dispatch is doing and whether the engine
\* crashes on the way.
StopHonoured == (stop = "requested") ~> (run.state \in Terminal)

-----------------------------------------------------------------------------
\* What a dispatch promises about the run (one driver: module Dispatch).
Dispatches == {"dispatch"}
NoDispatch == "none"
Lifecycle == INSTANCE RunLifecycle
             WITH Drivers <- Dispatches, NoDriver <- NoDispatch,
                  driver <- IF Driving /\ eng.pc # "finish" THEN "dispatch" ELSE NoDispatch,
                  state <- run.state, stop <- stop # "none"

\* The step loop, its gates, retries, stops and crashes move the run as the
\* abstract run may move, and not otherwise.
ImplementsLifecycle == Lifecycle!Spec

=============================================================================
