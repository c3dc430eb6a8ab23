------------------------------ MODULE Dispatch ------------------------------
(***************************************************************************)
(* The work queue of the engine (ADR-003) and the dispatches that drive    *)
(* ONE run from it: engine_service/worker.py, recovery.py, the entry and   *)
(* the checkpoints of state_machine.py, and the platform endpoints that    *)
(* enqueue the tokens (platform_api/routers/runs.py).                      *)
(*                                                                         *)
(* A work item is a dispatch token.  Engine processes claim items, spawn   *)
(* asyncio tasks for them, and each task reads the run row ONCE into its   *)
(* ORM session (expire_on_commit=False): what it later writes is decided   *)
(* from that copy, `seen', and not from the row.  Every action is one      *)
(* database transaction, or one read, of the code; a task can be           *)
(* interrupted by any other actor between two of them.                     *)
(*                                                                         *)
(* The workflow is the chain 1..NumSteps; the step loop itself (attempts,  *)
(* containers, verdict routing) is the subject of module StepLoop.         *)
(***************************************************************************)
EXTENDS Integers, FiniteSets

CONSTANTS
    Procs,        \* engine processes, each booted at most once: a restart is a new process
    NoProc,       \* "claimed_by IS NULL"
    MaxTasks,     \* bound: asyncio tasks alive at the same time
    MaxRequests,  \* bound: requests the platform enqueues besides the start item
    NumSteps,     \* length of the workflow
    GatedSteps,   \* the steps whose completion the policy gates
    MaxLive,      \* engine processes up at the same time (1: the MVP deployment)
    Allowed       \* what the environment may do, a subset of EnvEvents

EnvEvents ==
    { "crash",      \* a process dies without running any handler
      "shutdown",   \* a process is stopped gracefully: its tasks are cancelled
      "stall",      \* a live process misses heartbeats past the stale threshold
      "impatient",  \* a cancel handler's wait exceeds cancel_wait_seconds
      "double",     \* a decision is submitted while another one is still queued
      "late",       \* a decision is submitted after a cancel was requested
      "forward" }   \* send_back names a step after the gated one

ASSUME DispatchAssumption ==
    /\ NoProc \notin Procs
    /\ IsFiniteSet(Procs) /\ Procs # {}
    /\ MaxTasks \in Nat \ {0} /\ MaxRequests \in Nat /\ NumSteps \in Nat \ {0}
    /\ MaxLive \in Nat \ {0}
    /\ GatedSteps \subseteq 1..NumSteps
    /\ Allowed \subseteq EnvEvents

VARIABLES
    run,      \* the runs row: state, current_step, and the number of gates opened so far
    queue,    \* the work_queue rows, in created_at order
    proc,     \* off (never booted) | up | dead
    task,     \* the asyncio tasks of all processes
    holder,   \* per process: the task inside _lock_for(run_id)
    active,   \* per process: the task registered in _active[run_id]
    decided   \* history: which decision was applied to which gate

vars == <<run, queue, proc, task, holder, active, decided>>

-----------------------------------------------------------------------------
Steps    == 1..NumSteps
DONE     == NumSteps + 1
Tasks    == 1..MaxTasks
NoTask   == 0
\* one start item, the requests, and at most one resume token per boot
MaxItems == 1 + MaxRequests + Cardinality(Procs)
Items    == 1..MaxItems

RunStates      == {"pending", "running", "paused", "completed", "failed", "cancelled"}
TerminalStates == {"completed", "failed", "cancelled"}
Decisions      == {"approve", "send_back"}

ItemRecord == [kind: {"start", "resume", "cancel"} \cup Decisions,
               to: Steps,           \* send_back_to
               gate: Nat,           \* history: the gate that was open at submission
               state: {"absent", "pending", "claimed", "done"},
               owner: Procs \cup {NoProc},
               stale: BOOLEAN]      \* heartbeat_at older than the threshold

\* program counters of _dispatch_guarded inside the lock, and of _cancel_guarded
DrivePcs  == {"load", "init", "decide", "check", "step", "settle", "complete", "finish"}
CancelPcs == {"void", "await", "read", "write", "close"}

TaskRecord == [pc: {"idle", "lock"} \cup DrivePcs \cup CancelPcs,
               proc: Procs \cup {NoProc},
               item: Items,
               seen: [state: RunStates, step: 1..DONE],  \* the ORM copy of the run
               event: BOOLEAN,                           \* the cancel_event
               waits: Tasks \cup {NoTask}]               \* the shielded task

Idle == [pc |-> "idle", proc |-> NoProc, item |-> 1,
         seen |-> [state |-> "pending", step |-> 1], event |-> FALSE, waits |-> NoTask]

Driving(t) == task[t].pc \in DrivePcs
Live(i)    == queue[i].state \in {"pending", "claimed"}

-----------------------------------------------------------------------------
\* Queue rows.

\* Mutant: a demoted item is closed instead of re-queued.
DemoteToDone(q, S) ==
    [i \in Items |-> IF i \in S THEN [q[i] EXCEPT !.state = "done"] ELSE q[i]]

Demote(q, S) ==
    [i \in Items |-> IF i \in S
                     THEN [q[i] EXCEPT !.state = "pending", !.owner = NoProc, !.stale = FALSE]
                     ELSE q[i]]

Claimed(q)     == {i \in Items : q[i].state = "claimed"}
StaleClaims(q) == {i \in Claimed(q) : q[i].stale}
MarkDone(q, S) == [i \in Items |-> IF i \in S THEN [q[i] EXCEPT !.state = "done"] ELSE q[i]]

IsOldestPending(q, i) == /\ q[i].state = "pending"
                         /\ \A j \in Items : q[j].state = "pending" => i <= j

IsNextRow(i) == /\ queue[i].state = "absent"
                /\ \A j \in Items : j < i => queue[j].state # "absent"

Row(kind, to) == [kind |-> kind, to |-> to, gate |-> run.gate,
                  state |-> "pending", owner |-> NoProc, stale |-> FALSE]

\* Tasks.

IsFreeSlot(t) == task[t].pc = "idle" /\ \A u \in Tasks : task[u].pc = "idle" => t <= u

Goto(t, pc) == task' = [task EXCEPT ![t].pc = pc]

\* The task returns: the lock is released, its _done callback clears _active,
\* and a cancel handler waiting for it wakes up.
Return(t) ==
    /\ task' = [u \in Tasks |-> IF u = t THEN Idle
                                ELSE [task[u] EXCEPT !.waits = IF @ = t THEN NoTask ELSE @]]
    /\ holder' = [p \in Procs |-> IF holder[p] = t THEN NoTask ELSE holder[p]]
    /\ active' = [p \in Procs |-> IF active[p] = t THEN NoTask ELSE active[p]]

\* A write of run.state through the ORM by task t, which then goes to pc.
WriteState(t, state, pc) ==
    /\ run' = [run EXCEPT !.state = state]
    /\ task' = [task EXCEPT ![t].seen.state = state, ![t].pc = pc]

-----------------------------------------------------------------------------
Init ==
    /\ run = [state |-> "pending", step |-> 1, gate |-> 0]
    /\ queue = [i \in Items |->
                  [kind |-> "start", to |-> 1, gate |-> 0,
                   state |-> IF i = 1 THEN "pending" ELSE "absent",
                   owner |-> NoProc, stale |-> FALSE]]
    /\ proc = [p \in Procs |-> "off"]
    /\ task = [t \in Tasks |-> Idle]
    /\ holder = [p \in Procs |-> NoTask]
    /\ active = [p \in Procs |-> NoTask]
    /\ decided = {}

-----------------------------------------------------------------------------
\* The platform.

Requests == {i \in Items : queue[i].state # "absent"
                           /\ queue[i].kind \in Decisions \cup {"cancel"}}

\* submit_decision: the run must be paused; nothing else is checked.
SubmitDecision ==
    /\ run.state = "paused"
    /\ Cardinality(Requests) < MaxRequests
    /\ "double" \in Allowed \/ \A i \in Items : queue[i].kind \in Decisions => ~Live(i)
    /\ "late" \in Allowed \/ \A i \in Requests : queue[i].kind # "cancel"
    /\ \E i \in Items : IsNextRow(i) /\
          \/ queue' = [queue EXCEPT ![i] = Row("approve", 1)]
          \/ \E s \in Steps : /\ "forward" \in Allowed \/ s <= run.step
                              /\ queue' = [queue EXCEPT ![i] = Row("send_back", s)]
    /\ UNCHANGED <<run, proc, task, holder, active, decided>>

\* cancel_run: any non-terminal run.
RequestCancel ==
    /\ run.state \notin TerminalStates
    /\ Cardinality(Requests) < MaxRequests
    /\ \E i \in Items : IsNextRow(i) /\ queue' = [queue EXCEPT ![i] = Row("cancel", 1)]
    /\ UNCHANGED <<run, proc, task, holder, active, decided>>

-----------------------------------------------------------------------------
\* An engine process.

\* Mutant: recovery re-queues stale claims but tops up no run.
BootWithoutTopUp(p) ==
    /\ proc[p] = "off"
    /\ Cardinality({q \in Procs : proc[q] = "up"}) < MaxLive
    /\ proc' = [proc EXCEPT ![p] = "up"]
    /\ queue' = Demote(queue, StaleClaims(queue))
    /\ UNCHANGED <<run, task, holder, active, decided>>

\* lifespan: recover_on_startup, then the worker loop.
Boot(p) ==
    /\ proc[p] = "off"
    /\ Cardinality({q \in Procs : proc[q] = "up"}) < MaxLive
    /\ proc' = [proc EXCEPT ![p] = "up"]
    /\ LET q == Demote(queue, StaleClaims(queue)) IN
         IF run.state \in {"running", "paused"} /\ \A i \in Items : ~Live(i)
         THEN \E i \in Items : IsNextRow(i) /\ queue' = [q EXCEPT ![i] = Row("resume", 1)]
         ELSE queue' = q
    /\ UNCHANGED <<run, task, holder, active, decided>>

\* Mutant: the loop claims, but never reaps.
PollWithoutReaping(p) ==
    /\ proc[p] = "up"
    /\ \E i \in Items, t \in Tasks :
         /\ IsOldestPending(queue, i) /\ IsFreeSlot(t)
         /\ queue' = [queue EXCEPT ![i].state = "claimed", ![i].owner = p, ![i].stale = FALSE]
         /\ LET cancel == queue[i].kind = "cancel" IN
              /\ task' = [task EXCEPT ![t] = [Idle EXCEPT !.pc = IF cancel THEN "void" ELSE "lock",
                                                          !.proc = p, !.item = i]]
              /\ active' = IF cancel THEN active ELSE [active EXCEPT ![p] = t]
    /\ UNCHANGED <<run, proc, holder, decided>>

\* One iteration of worker_loop: _reap_stale_claims, _claim_next_item,
\* _process_item.  The newest start/continue task overwrites _active.
Poll(p) ==
    /\ proc[p] = "up"
    /\ LET q == Demote(queue, StaleClaims(queue)) IN
         \/ /\ q # queue /\ \A i \in Items : q[i].state # "pending"
            /\ queue' = q
            /\ UNCHANGED <<task, active>>
         \/ \E i \in Items, t \in Tasks :
            /\ IsOldestPending(q, i) /\ IsFreeSlot(t)
            /\ queue' = [q EXCEPT ![i].state = "claimed", ![i].owner = p, ![i].stale = FALSE]
            /\ LET cancel == queue[i].kind = "cancel" IN
                 /\ task' = [task EXCEPT ![t] = [Idle EXCEPT !.pc = IF cancel THEN "void" ELSE "lock",
                                                             !.proc = p, !.item = i]]
                 /\ active' = IF cancel THEN active ELSE [active EXCEPT ![p] = t]
    /\ UNCHANGED <<run, proc, holder, decided>>

\* A heartbeat is missed: the owner is dead, or alive and stalled.
Expire(i) ==
    /\ queue[i].state = "claimed" /\ ~queue[i].stale
    /\ proc[queue[i].owner] # "up" \/ "stall" \in Allowed
    /\ queue' = [queue EXCEPT ![i].stale = TRUE]
    /\ UNCHANGED <<run, proc, task, holder, active, decided>>

\* _heartbeat_loop of a process that had stalled.
Heartbeat(p) ==
    /\ proc[p] = "up"
    /\ LET mine == {i \in StaleClaims(queue) : queue[i].owner = p} IN
         /\ mine # {}
         /\ queue' = [i \in Items |-> IF i \in mine THEN [queue[i] EXCEPT !.stale = FALSE]
                                      ELSE queue[i]]
    /\ UNCHANGED <<run, proc, task, holder, active, decided>>

\* The process and its tasks are gone; what it committed stays.
Die(p) ==
    /\ proc[p] = "up"
    /\ \E q \in Procs \ {p} : proc[q] # "dead"
    /\ proc' = [proc EXCEPT ![p] = "dead"]
    /\ task' = [t \in Tasks |-> IF task[t].proc = p THEN Idle ELSE task[t]]
    /\ holder' = [holder EXCEPT ![p] = NoTask]
    /\ active' = [active EXCEPT ![p] = NoTask]
    /\ UNCHANGED <<run, decided>>

Crash(p) == "crash" \in Allowed /\ Die(p) /\ UNCHANGED queue

\* Cancelled tasks still run their `finally': the item is done, whatever the
\* state of the run.  A task waiting for the lock has not entered its try, and
\* a cancel handler may not have been scheduled yet.
Shutdown(p) ==
    /\ "shutdown" \in Allowed
    /\ Die(p)
    /\ \E unstarted \in SUBSET {t \in Tasks : task[t].pc = "void"} :
         queue' = MarkDone(queue, {task[t].item : t \in {u \in Tasks \ unstarted :
                              task[u].proc = p /\ task[u].pc # "lock"}})

-----------------------------------------------------------------------------
\* A dispatch: _dispatch_guarded and the drive_run it calls.

\* Mutant: no per-run lock.
AcquireWithoutLock(t) ==
    LET p == task[t].proc
        i == task[t].item
        q == Demote(queue, Claimed(queue) \ {i})
    IN /\ task[t].pc = "lock"
       /\ IF queue[i].state = "claimed" /\ queue[i].owner = p
          THEN /\ queue' = [q EXCEPT ![i].stale = FALSE]
               /\ holder' = [holder EXCEPT ![p] = t]
               /\ Goto(t, "load")
               /\ UNCHANGED active
          ELSE /\ queue' = q
               /\ Return(t)
       /\ UNCHANGED <<run, proc, decided>>

\* The lock is free: demote the run's other claims, re-assert ours, commit.
\* Both updates commit even when ours matches no row and the task gives up.
Acquire(t) ==
    LET p == task[t].proc
        i == task[t].item
        q == Demote(queue, Claimed(queue) \ {i})
    IN /\ task[t].pc = "lock" /\ holder[p] = NoTask
       /\ IF queue[i].state = "claimed" /\ queue[i].owner = p
          THEN /\ queue' = [q EXCEPT ![i].stale = FALSE]
               /\ holder' = [holder EXCEPT ![p] = t]
               /\ Goto(t, "load")
               /\ UNCHANGED active
          ELSE /\ queue' = q
               /\ Return(t)
       /\ UNCHANGED <<run, proc, decided>>

\* Mutant: a redelivered token restarts a failed run.
LoadRestartsFailed(t) ==
    /\ task[t].pc = "load"
    /\ task' = [task EXCEPT ![t].seen = [state |-> IF run.state = "failed" THEN "pending" ELSE run.state,
                                         step |-> run.step],
                            ![t].pc = IF run.state \in {"completed", "cancelled"} THEN "finish"
                                      ELSE "init"]
    /\ UNCHANGED <<run, queue, proc, holder, active, decided>>

\* drive_run loads the row: this copy decides what the dispatch does.
Load(t) ==
    /\ task[t].pc = "load"
    /\ task' = [task EXCEPT ![t].seen = [state |-> run.state, step |-> run.step],
                            ![t].pc = IF run.state \in TerminalStates THEN "finish" ELSE "init"]
    /\ UNCHANGED <<run, queue, proc, holder, active, decided>>

\* init_run commits (pending -> running on the first init), and drive_run
\* picks its way: a decision, a re-notified gate, or the loop.
InitRun(t) ==
    /\ task[t].pc = "init"
    /\ \/ /\ task[t].seen.state = "pending"
          /\ WriteState(t, "running", "check")
       \/ /\ task[t].seen.state = "running"
          /\ Goto(t, "check") /\ UNCHANGED run
       \/ /\ task[t].seen.state = "paused"
          /\ Goto(t, IF queue[task[t].item].kind \in Decisions THEN "decide" ELSE "finish")
          /\ UNCHANGED run
    /\ UNCHANGED <<queue, proc, holder, active, decided>>

\* Mutant: send_back is handled as approve.
ApplyAsApprove(t) ==
    LET target == task[t].seen.step + 1 IN
       /\ task[t].pc = "decide"
       /\ run' = [run EXCEPT !.state = "running", !.step = target]
       /\ task' = [task EXCEPT ![t].seen = [state |-> "running", step |-> target],
                               ![t].pc = "check"]
       /\ decided' = decided \cup {[item |-> task[t].item, gate |-> run.gate,
                                    step |-> task[t].seen.step]}
       /\ UNCHANGED <<queue, proc, holder, active>>

\* _apply_approve / _apply_send_back: the position moves, the run resumes.  An
\* approved verdict may have no route (and a position past the end has none).
ApplyDecision(t) ==
    LET i == task[t].item
        target == IF queue[i].kind = "approve" THEN task[t].seen.step + 1 ELSE queue[i].to
    IN /\ task[t].pc = "decide"
       /\ \/ /\ target \in 1..DONE
             /\ run' = [run EXCEPT !.state = "running",
                                   !.step = IF target = task[t].seen.step THEN @ ELSE target]
             /\ task' = [task EXCEPT ![t].seen = [state |-> "running", step |-> target],
                                     ![t].pc = "check"]
             /\ decided' = decided \cup {[item |-> i, gate |-> run.gate, step |-> task[t].seen.step]}
          \/ /\ queue[i].kind = "approve"
             /\ WriteState(t, "failed", "finish")
             /\ UNCHANGED decided
       /\ UNCHANGED <<queue, proc, holder, active>>

\* Checkpoint at the top of _loop: the cancel event, then the database.
Check(t) ==
    /\ task[t].pc = "check"
    /\ IF task[t].event \/ run.state = "cancelled"
       THEN WriteState(t, "cancelled", "finish")
       ELSE /\ Goto(t, IF task[t].seen.step = DONE THEN "complete" ELSE "step")
            /\ UNCHANGED run
    /\ UNCHANGED <<queue, proc, holder, active, decided>>

\* Mutant: a step result is written where a run state belongs.
CompleteAsDone(t) ==
    /\ task[t].pc = "complete"
    /\ WriteState(t, "done", "finish")
    /\ UNCHANGED <<queue, proc, holder, active, decided>>

Complete(t) ==
    /\ task[t].pc = "complete"
    /\ WriteState(t, "completed", "finish")
    /\ UNCHANGED <<queue, proc, holder, active, decided>>

\* The step's container has a verdict, or was aborted by the cancel event;
\* _run_step reads the database state.  A result that was in before the event
\* was set is kept.
StepEnds(t) ==
    /\ task[t].pc = "step"
    /\ \/ /\ task[t].event \/ run.state = "cancelled"
          /\ WriteState(t, "cancelled", "finish")
       \/ /\ run.state # "cancelled"
          /\ Goto(t, "settle") /\ UNCHANGED run
    /\ UNCHANGED <<queue, proc, holder, active, decided>>

\* Logs uploaded and container removed, the verdict is committed: the run
\* fails, pauses at the gate, or advances.
Settle(t) ==
    LET step == task[t].seen.step IN
    /\ task[t].pc = "settle"
    /\ \/ WriteState(t, "failed", "finish")
       \/ /\ step \in GatedSteps
          /\ run' = [run EXCEPT !.state = "paused", !.gate = @ + 1]
          /\ task' = [task EXCEPT ![t].seen.state = "paused", ![t].pc = "finish"]
       \/ /\ step \in Steps \ GatedSteps
          /\ run' = [run EXCEPT !.step = step + 1]
          /\ task' = [task EXCEPT ![t].seen.step = step + 1, ![t].pc = "check"]
    /\ UNCHANGED <<queue, proc, holder, active, decided>>

\* InitFailure, or any exception out of drive_run: failed and done, one commit.
DispatchFails(t) ==
    /\ task[t].pc \in DrivePcs \ {"load", "finish"}
    /\ run' = [run EXCEPT !.state = "failed"]
    /\ queue' = MarkDone(queue, {task[t].item})
    /\ Return(t)
    /\ UNCHANGED <<proc, decided>>

\* Mutant: the item of a dispatch that paused goes back to the queue.
FinishKeepsItem(t) ==
    /\ task[t].pc \in {"finish", "close"}
    /\ queue' = IF run.state = "paused" THEN Demote(queue, {task[t].item})
                ELSE MarkDone(queue, {task[t].item})
    /\ Return(t)
    /\ UNCHANGED <<run, proc, decided>>

\* The `finally' of both kinds of task.
Finish(t) ==
    /\ task[t].pc \in {"finish", "close"}
    /\ queue' = MarkDone(queue, {task[t].item})
    /\ Return(t)
    /\ UNCHANGED <<run, proc, decided>>

-----------------------------------------------------------------------------
\* The cancel handler: _cancel_guarded, outside the lock.

\* Mutant: the handler neither signals the dispatch nor waits for it.
VoidWithoutSignal(t) ==
    /\ task[t].pc = "void"
    /\ queue' = MarkDone(queue, {i \in Items : queue[i].state = "pending"})
    /\ Goto(t, "read")
    /\ UNCHANGED <<run, proc, holder, active, decided>>

\* Void the pending tokens, signal the registered dispatch.
Void(t) ==
    LET target == active[task[t].proc] IN
    /\ task[t].pc = "void"
    /\ queue' = MarkDone(queue, {i \in Items : queue[i].state = "pending"})
    /\ task' = [u \in Tasks |->
                  IF u = t THEN [task[t] EXCEPT !.waits = target,
                                                !.pc = IF target = NoTask THEN "read" ELSE "await"]
                  ELSE IF u = target THEN [task[u] EXCEPT !.event = TRUE]
                  ELSE task[u]]
    /\ UNCHANGED <<run, proc, holder, active, decided>>

\* The dispatch returned, or cancel_wait_seconds elapsed.
Await(t) ==
    /\ task[t].pc = "await"
    /\ task[t].waits = NoTask \/ "impatient" \in Allowed
    /\ task' = [task EXCEPT ![t].waits = NoTask, ![t].pc = "read"]
    /\ UNCHANGED <<run, queue, proc, holder, active, decided>>

ReadRun(t) ==
    /\ task[t].pc = "read"
    /\ task' = [task EXCEPT ![t].seen = [state |-> run.state, step |-> run.step],
                            ![t].pc = IF run.state \in TerminalStates THEN "close" ELSE "write"]
    /\ UNCHANGED <<run, queue, proc, holder, active, decided>>

WriteCancelled(t) ==
    /\ task[t].pc = "write"
    /\ WriteState(t, "cancelled", "close")
    /\ UNCHANGED <<queue, proc, holder, active, decided>>

-----------------------------------------------------------------------------
Platform == SubmitDecision \/ RequestCancel

Dispatch(t) == \/ Acquire(t) \/ Load(t) \/ InitRun(t) \/ ApplyDecision(t) \/ Check(t)
               \/ Complete(t) \/ StepEnds(t) \/ Settle(t) \/ Finish(t)

CancelHandler(t) == Void(t) \/ Await(t) \/ ReadRun(t) \/ WriteCancelled(t)

Environment == \/ \E p \in Procs : Crash(p) \/ Shutdown(p)
               \/ \E i \in Items : Expire(i)
               \/ \E t \in Tasks : DispatchFails(t)

Next == \/ Platform
        \/ \E p \in Procs : Boot(p) \/ Poll(p) \/ Heartbeat(p)
        \/ \E t \in Tasks : Dispatch(t) \/ CancelHandler(t)
        \/ Environment

Spec == Init /\ [][Next]_vars

\* The processes are restarted, loop forever and schedule their tasks; a dead
\* process's heartbeats expire, a live one's never have to; every step ends at
\* its deadline at the latest.
\* Requests, crashes, shutdowns and errors are never owed.
Fairness == /\ WF_vars(\E p \in Procs : Boot(p))
            /\ \A p \in Procs : WF_vars(Poll(p))
            /\ \A t \in Tasks : WF_vars(Dispatch(t) \/ CancelHandler(t))
            /\ WF_vars(\E i \in Items : Expire(i) /\ proc[queue[i].owner] # "up")

FairSpec == Spec /\ Fairness

-----------------------------------------------------------------------------
\* Properties.

\* Every variable has the shape the tables and the process memory give it.
TypeOK ==
    /\ run \in [state: RunStates, step: 1..DONE, gate: Nat]
    /\ queue \in [Items -> ItemRecord]
    /\ proc \in [Procs -> {"off", "up", "dead"}]
    /\ task \in [Tasks -> TaskRecord]
    /\ holder \in [Procs -> Tasks \cup {NoTask}]
    /\ active \in [Procs -> Tasks \cup {NoTask}]
    /\ decided \subseteq [item: Items, gate: Nat, step: 1..DONE]

\* Whatever the engines do, two dispatches of one process never drive the run
\* at the same time (the per-run asyncio lock).
OneDriverPerProcess ==
    \A t, u \in Tasks : Driving(t) /\ Driving(u) /\ task[t].proc = task[u].proc => t = u

\* Exactly one dispatch is live per run (worker.py's module docstring), and
\* nobody took its token away: if its process dies, the token is still claimed
\* in its name, to be found stale.
OneDriver ==
    /\ \A t, u \in Tasks : Driving(t) /\ Driving(u) => t = u
    /\ \A t \in Tasks : Driving(t) => LET i == task[t].item IN
         queue[i].state = "claimed" /\ queue[i].owner = task[t].proc

\* A run that completed or failed is never revived by a task that read it
\* earlier; the only thing that may still be written over it is a stop.
FinishedStays ==
    [][run.state \in {"completed", "failed"} =>
         run'.state \in {run.state, "cancelled"}]_vars

\* A running run always has someone to move it: a token, a dispatch, or the recovery of the next boot.
NotStranded ==
    run.state = "running" =>
        \/ \E i \in Items : Live(i)
        \/ \E t \in Tasks : Driving(t)
        \/ \A p \in Procs : proc[p] # "up"

\* A reviewer's decision is only ever applied to the gate that was open when
\* the reviewer took it.
DecisionFitsGate == \A d \in decided : queue[d.item].gate = d.gate

\* The run is past a gated step only if a reviewer approved that very gate.
GatesHonoured ==
    \A s \in GatedSteps : run.step > s =>
        \E d \in decided : /\ d.step = s
                           /\ queue[d.item].kind = "approve" /\ queue[d.item].gate = d.gate

\* Nothing is left to do: no token, no task.
Quiet == (\A i \in Items : ~Live(i)) /\ (\A t \in Tasks : task[t].pc = "idle")

\* As long as no engine died, a stop request is never swallowed: once the engine
\* has dealt with all it was asked, a run somebody asked to stop is finished.
StopNotLost ==
    /\ Quiet
    /\ \E i \in Requests : queue[i].kind = "cancel"
    /\ \A p \in Procs : proc[p] # "dead"
    => run.state \in TerminalStates

\* Every token is worked off, crashes included.
ItemsDrain == \A i \in Items : Live(i) ~> queue[i].state = "done"

\* A run settles: it finishes, or waits at a gate for a reviewer.
RunSettles == <>[](run.state \in TerminalStates \cup {"paused"})

-----------------------------------------------------------------------------
\* What the dispatches promise about the run, whatever they do to the queue.

\* The dispatch that loaded an unfinished run and has not come to its end.
Drivers == {t \in Tasks : task[t].pc \in DrivePcs \ {"load", "finish"}}
Driver  == IF Drivers = {} THEN NoTask ELSE CHOOSE t \in Drivers : TRUE

StopAsked == \E i \in Items : queue[i].state # "absent" /\ queue[i].kind = "cancel"

Lifecycle == INSTANCE RunLifecycle
             WITH Drivers <- Tasks, NoDriver <- NoTask,
                  driver <- Driver, state <- run.state, stop <- StopAsked

\* The run is moved by one dispatch at a time, from an unfinished state, along
\* legal moves, and over its head only by a stop: queue, lock, recovery and
\* cancel handler together implement the abstract run.
ImplementsLifecycle == Lifecycle!Spec

=============================================================================
