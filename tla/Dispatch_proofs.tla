--------------------------- MODULE Dispatch_proofs ---------------------------
(* What holds of Dispatch for every number of processes, tasks and steps.     *)
EXTENDS Dispatch, FiniteSetTheorems, TLAPS

\* The bounds are numbers, so that items, steps and tasks are intervals.
LEMMA Bounds ==
    /\ MaxItems \in Nat /\ MaxItems >= 1 /\ 1 \in Items
    /\ DONE \in Nat /\ 1 \in Steps /\ 1 \in 1..DONE /\ Steps \subseteq 1..DONE
    /\ NoTask \notin Tasks
  <1>1. Cardinality(Procs) \in Nat
    BY FS_CardinalityType, DispatchAssumption
  <1>2. MaxItems \in Nat /\ MaxItems >= 1
    BY <1>1, DispatchAssumption DEF MaxItems
  <1>3. QED
    BY <1>2, DispatchAssumption DEF Items, Steps, DONE, Tasks, NoTask

\* Idle and freshly inserted rows are well formed.
LEMMA IdleType == Idle \in TaskRecord
  BY Bounds DEF Idle, TaskRecord, RunStates

LEMMA RowType ==
    ASSUME TypeOK, NEW kind \in {"resume", "cancel"} \cup Decisions, NEW to \in Steps
    PROVE  Row(kind, to) \in ItemRecord
  BY DEF TypeOK, Row, ItemRecord, Decisions

\* Demoting and closing rows keeps the queue well formed.
LEMMA DemoteType ==
    ASSUME NEW q \in [Items -> ItemRecord], NEW S
    PROVE  Demote(q, S) \in [Items -> ItemRecord]
  BY DEF Demote, ItemRecord

LEMMA MarkDoneType ==
    ASSUME NEW q \in [Items -> ItemRecord], NEW S
    PROVE  MarkDone(q, S) \in [Items -> ItemRecord]
  BY DEF MarkDone, ItemRecord

\* Closing a task keeps the tasks, the locks and the registrations well formed.
LEMMA ReturnType ==
    ASSUME TypeOK, NEW t \in Tasks, Return(t)
    PROVE  /\ task' \in [Tasks -> TaskRecord]
           /\ holder' \in [Procs -> Tasks \cup {NoTask}]
           /\ active' \in [Procs -> Tasks \cup {NoTask}]
  BY IdleType DEF TypeOK, Return, TaskRecord

\* A write of the run's state, and a move of a task's program counter.
LEMMA WriteStateType ==
    ASSUME TypeOK, NEW t \in Tasks, NEW state \in RunStates,
           NEW pc \in DrivePcs \cup CancelPcs, WriteState(t, state, pc)
    PROVE  /\ run' \in [state: RunStates, step: 1..DONE, gate: Nat]
           /\ task' \in [Tasks -> TaskRecord]
  <1>1. run' \in [state: RunStates, step: 1..DONE, gate: Nat]
    BY DEF TypeOK, WriteState
  <1>2. task[t] \in TaskRecord
    BY DEF TypeOK
  <1> DEFINE seen == [task[t].seen EXCEPT !.state = state]
             new  == [task[t] EXCEPT !.seen.state = state, !.pc = pc]
  <1>3. seen \in [state: RunStates, step: 1..DONE]
    BY <1>2 DEF TaskRecord
  <1>4. new = [[task[t] EXCEPT !.seen = seen] EXCEPT !.pc = pc]
    BY <1>2 DEF TaskRecord
  <1>5. new \in TaskRecord
    BY <1>2, <1>3, <1>4 DEF TaskRecord
  <1>6. task' = [task EXCEPT ![t] = new]
    BY DEF WriteState, TypeOK
  <1>7. QED
    BY <1>1, <1>5, <1>6 DEF TypeOK

LEMMA GotoType ==
    ASSUME TypeOK, NEW t \in Tasks, NEW pc \in DrivePcs \cup CancelPcs, Goto(t, pc)
    PROVE  task' \in [Tasks -> TaskRecord]
  BY DEF TypeOK, Goto, TaskRecord

-----------------------------------------------------------------------------
\* What the proofs need besides the types: every task belongs to a process, ...
TasksOwned == \A t \in Tasks : task[t].pc # "idle" => task[t].proc \in Procs

\* ... and a driving one is inside the lock of its process.
LockHeld == \A t \in Tasks : Driving(t) => holder[task[t].proc] = t

LockInv == TypeOK /\ TasksOwned /\ LockHeld

\* The initial state is well formed.
LEMMA InitType == Init => TypeOK
  <1> SUFFICES ASSUME Init PROVE TypeOK
    OBVIOUS
  <1>1. run \in [state: RunStates, step: 1..DONE, gate: Nat]
    BY Bounds DEF Init, RunStates
  <1>2. queue \in [Items -> ItemRecord]
    BY Bounds DEF Init, ItemRecord
  <1>3. QED
    BY <1>1, <1>2, IdleType DEF Init, TypeOK

\* The actions of the platform.
LEMMA PlatformType == TypeOK /\ Platform => TypeOK'
  <1> SUFFICES ASSUME TypeOK, Platform PROVE queue' \in [Items -> ItemRecord]
    BY DEF TypeOK, Platform, SubmitDecision, RequestCancel
  <1>1. ASSUME NEW i \in Items, NEW kind \in {"resume", "cancel"} \cup Decisions, NEW to \in Steps,
               queue' = [queue EXCEPT ![i] = Row(kind, to)]
        PROVE  queue' \in [Items -> ItemRecord]
    BY <1>1, RowType DEF TypeOK
  <1>2. CASE SubmitDecision
    BY <1>1, <1>2, Bounds DEF SubmitDecision, Decisions
  <1>3. CASE RequestCancel
    BY <1>1, <1>3, Bounds DEF RequestCancel, Decisions
  <1>4. QED
    BY <1>2, <1>3 DEF Platform

\* The actions of a process: boot, poll, heartbeat.
LEMMA BootType == ASSUME TypeOK, NEW p \in Procs, Boot(p) PROVE TypeOK'
  <1> DEFINE q == Demote(queue, StaleClaims(queue))
  <1>1. q \in [Items -> ItemRecord]
    BY DemoteType DEF TypeOK
  <1>2. queue' \in [Items -> ItemRecord]
    <2>1. CASE queue' = q
      BY <1>1, <2>1
    <2>2. CASE \E i \in Items : queue' = [q EXCEPT ![i] = Row("resume", 1)]
      BY <1>1, <2>2, RowType, Bounds
    <2>3. QED
      BY <2>1, <2>2 DEF Boot
  <1>3. proc' \in [Procs -> {"off", "up", "dead"}]
    BY DEF TypeOK, Boot
  <1>4. QED
    BY <1>2, <1>3 DEF TypeOK, Boot

LEMMA PollType == ASSUME TypeOK, NEW p \in Procs, Poll(p) PROVE TypeOK'
  <1> DEFINE q == Demote(queue, StaleClaims(queue))
  <1>1. q \in [Items -> ItemRecord]
    BY DemoteType DEF TypeOK
  <1>2. CASE queue' = q /\ UNCHANGED <<task, active>>
    BY <1>1, <1>2 DEF TypeOK, Poll
  <1>3. ASSUME NEW i \in Items, NEW t \in Tasks, NEW pc \in {"void", "lock"},
               queue' = [q EXCEPT ![i].state = "claimed", ![i].owner = p, ![i].stale = FALSE],
               task' = [task EXCEPT ![t] = [Idle EXCEPT !.pc = pc, !.proc = p, !.item = i]],
               active' = active \/ active' = [active EXCEPT ![p] = t]
        PROVE  TypeOK'
    <2> DEFINE row == [q[i] EXCEPT !.state = "claimed", !.owner = p, !.stale = FALSE]
    <2>0. row \in ItemRecord
      BY <1>1 DEF ItemRecord
    <2>1. queue' \in [Items -> ItemRecord]
      <3>1. queue' = [q EXCEPT ![i] = row]
        BY <1>1, <1>3
      <3>2. QED
        BY <1>1, <2>0, <3>1
    <2>2. [Idle EXCEPT !.pc = pc, !.proc = p, !.item = i] \in TaskRecord
      BY IdleType DEF TaskRecord, CancelPcs
    <2>3. task' \in [Tasks -> TaskRecord]
      BY <1>3, <2>2 DEF TypeOK
    <2>4. active' \in [Procs -> Tasks \cup {NoTask}]
      BY <1>3 DEF TypeOK
    <2>5. QED
      BY <2>1, <2>3, <2>4 DEF TypeOK, Poll
  <1>4. QED
    BY <1>2, <1>3 DEF Poll

LEMMA ExpiryType ==
    ASSUME TypeOK, (\E i \in Items : Expire(i)) \/ (\E p \in Procs : Heartbeat(p))
    PROVE  TypeOK'
  <1>0. queue \in [Items -> ItemRecord]
    BY DEF TypeOK
  <1>1. queue' \in [Items -> ItemRecord]
    <2>1. CASE \E i \in Items : Expire(i)
      <3>1. PICK i \in Items : queue' = [queue EXCEPT ![i].stale = TRUE]
        BY <2>1 DEF Expire
      <3>2. [queue[i] EXCEPT !.stale = TRUE] \in ItemRecord
        BY <1>0 DEF ItemRecord
      <3>3. QED
        BY <1>0, <3>1, <3>2
    <2>2. CASE \E p \in Procs : Heartbeat(p)
      <3>1. PICK mine : queue' = [i \in Items |-> IF i \in mine THEN [queue[i] EXCEPT !.stale = FALSE]
                                                 ELSE queue[i]]
        BY <2>2 DEF Heartbeat
      <3>2. \A i \in Items : [queue[i] EXCEPT !.stale = FALSE] \in ItemRecord
        BY <1>0 DEF ItemRecord
      <3>3. QED
        BY <1>0, <3>1, <3>2
    <2>3. QED
      BY <2>1, <2>2
  <1>2. QED
    BY <1>1 DEF TypeOK, Expire, Heartbeat

\* The end of a process.
LEMMA DieType ==
    ASSUME TypeOK, NEW p \in Procs, Crash(p) \/ Shutdown(p) PROVE TypeOK'
  <1>1. Die(p)
    BY DEF Crash, Shutdown
  <1>2. queue' \in [Items -> ItemRecord]
    <2>1. CASE Crash(p)
      BY <2>1 DEF TypeOK, Crash
    <2>2. CASE Shutdown(p)
      <3>1. PICK S : queue' = MarkDone(queue, S)
        BY <2>2 DEF Shutdown
      <3>2. QED
        BY <3>1, MarkDoneType DEF TypeOK
    <2>3. QED
      BY <2>1, <2>2
  <1>3. task' \in [Tasks -> TaskRecord]
    BY <1>1, IdleType DEF TypeOK, Die
  <1>4. QED
    BY <1>1, <1>2, <1>3 DEF TypeOK, Die

-----------------------------------------------------------------------------
\* The actions of a dispatch.
LEMMA DispatchType ==
    ASSUME TypeOK, NEW t \in Tasks, Dispatch(t) \/ DispatchFails(t)
    PROVE  TypeOK'
  <1> DEFINE RunType  == [state: RunStates, step: 1..DONE, gate: Nat]
             SeenType == [state: RunStates, step: 1..DONE]
  <1>0. task[t] \in TaskRecord /\ run \in RunType /\ task[t].item \in Items
    BY DEF TypeOK, TaskRecord
  <1>1. CASE Acquire(t)
    <2> DEFINE q == Demote(queue, Claimed(queue) \ {task[t].item})
    <2>1. q \in [Items -> ItemRecord]
      BY DemoteType DEF TypeOK
    <2>2. CASE queue' = q /\ Return(t)
      BY <1>1, <2>1, <2>2, ReturnType DEF TypeOK, Acquire
    <2>3. CASE /\ queue' = [q EXCEPT ![task[t].item].stale = FALSE]
               /\ holder' = [holder EXCEPT ![task[t].proc] = t]
               /\ Goto(t, "load")
               /\ UNCHANGED active
      <3>1. [q[task[t].item] EXCEPT !.stale = FALSE] \in ItemRecord
        <4> DEFINE old == q[task[t].item]
        <4>1. old \in ItemRecord
          BY <1>0, <2>1
        <4> HIDE DEF old
        <4>2. [old EXCEPT !.stale = FALSE] \in ItemRecord
          BY <4>1 DEF ItemRecord
        <4>3. QED
          BY <4>2 DEF old
      <3>2. queue' \in [Items -> ItemRecord]
        BY <2>1, <2>3, <3>1
      <3>3. task' \in [Tasks -> TaskRecord]
        BY <2>3, GotoType DEF DrivePcs
      <3>4. holder' \in [Procs -> Tasks \cup {NoTask}]
        BY <2>3 DEF TypeOK
      <3>5. QED
        BY <1>1, <2>3, <3>2, <3>3, <3>4 DEF TypeOK, Acquire
    <2>4. QED
      BY <1>1, <2>2, <2>3 DEF Acquire
  <1>2. CASE Load(t)
    <2> DEFINE seen == [state |-> run.state, step |-> run.step]
    <2>1. seen \in SeenType
      BY <1>0
    <2>2. PICK pc \in {"finish", "init"} : task' = [task EXCEPT ![t].seen = seen, ![t].pc = pc]
      BY <1>2 DEF Load
    <2>3. [task[t] EXCEPT !.seen = seen, !.pc = pc] \in TaskRecord
      BY <1>0, <2>1 DEF TaskRecord, DrivePcs
    <2>4. task' \in [Tasks -> TaskRecord]
      BY <2>2, <2>3 DEF TypeOK
    <2>5. QED
      BY <1>2, <2>4 DEF TypeOK, Load
  <1>3. CASE InitRun(t)
    <2>1. run' \in RunType /\ task' \in [Tasks -> TaskRecord]
      <3>1. CASE WriteState(t, "running", "check")
        BY <3>1, WriteStateType DEF RunStates, DrivePcs
      <3>2. CASE Goto(t, "check") /\ UNCHANGED run
        BY <1>0, <3>2, GotoType DEF DrivePcs
      <3>3. CASE (Goto(t, "decide") \/ Goto(t, "finish")) /\ UNCHANGED run
        BY <1>0, <3>3, GotoType DEF DrivePcs
      <3>4. QED
        BY <1>3, <3>1, <3>2, <3>3 DEF InitRun
    <2>2. QED
      BY <1>3, <2>1 DEF TypeOK, InitRun
  <1>4. CASE ApplyDecision(t)
    <2>1. CASE WriteState(t, "failed", "finish") /\ UNCHANGED decided
      <3>1. run' \in RunType /\ task' \in [Tasks -> TaskRecord]
        BY <2>1, WriteStateType DEF RunStates, DrivePcs
      <3>2. QED
        BY <1>4, <2>1, <3>1 DEF TypeOK, ApplyDecision
    <2>2. ASSUME NEW target \in 1..DONE, NEW step \in {run.step, target},
                 run' = [run EXCEPT !.state = "running", !.step = step],
                 task' = [task EXCEPT ![t].seen = [state |-> "running", step |-> target],
                                      ![t].pc = "check"],
                 decided' = decided \cup {[item |-> task[t].item, gate |-> run.gate,
                                           step |-> task[t].seen.step]}
          PROVE  TypeOK'
      <3>1. run' \in RunType
        BY <1>0, <2>2 DEF RunStates
      <3>2. [task[t] EXCEPT !.seen = [state |-> "running", step |-> target], !.pc = "check"]
              \in TaskRecord
        BY <1>0 DEF TaskRecord, RunStates, DrivePcs
      <3>3. task' \in [Tasks -> TaskRecord]
        BY <2>2, <3>2 DEF TypeOK
      <3>4. [item |-> task[t].item, gate |-> run.gate, step |-> task[t].seen.step]
              \in [item: Items, gate: Nat, step: 1..DONE]
        BY <1>0 DEF TaskRecord
      <3>5. decided' \subseteq [item: Items, gate: Nat, step: 1..DONE]
        BY <2>2, <3>4 DEF TypeOK
      <3>6. QED
        BY <1>4, <3>1, <3>3, <3>5 DEF TypeOK, ApplyDecision
    <2>3. QED
      BY <1>4, <2>1, <2>2 DEF ApplyDecision
  <1>5. CASE Check(t) \/ Complete(t) \/ StepEnds(t)
    <2>1. run' \in RunType /\ task' \in [Tasks -> TaskRecord]
      <3>1. CASE \E state \in {"cancelled", "completed"} : WriteState(t, state, "finish")
        BY <3>1, WriteStateType DEF RunStates, DrivePcs
      <3>2. CASE (\E pc \in {"complete", "step", "settle"} : Goto(t, pc)) /\ UNCHANGED run
        BY <1>0, <3>2, GotoType DEF DrivePcs
      <3>3. QED
        BY <1>5, <3>1, <3>2 DEF Check, Complete, StepEnds
    <2>2. QED
      BY <1>5, <2>1 DEF TypeOK, Check, Complete, StepEnds
  <1>6. CASE Settle(t)
    <2> DEFINE step == task[t].seen.step
    <2>1. CASE WriteState(t, "failed", "finish")
      <3>1. run' \in RunType /\ task' \in [Tasks -> TaskRecord]
        BY <2>1, WriteStateType DEF RunStates, DrivePcs
      <3>2. QED
        BY <1>6, <3>1 DEF TypeOK, Settle
    <2>2. CASE /\ run' = [run EXCEPT !.state = "paused", !.gate = @ + 1]
               /\ task' = [task EXCEPT ![t].seen.state = "paused", ![t].pc = "finish"]
      <3>0. run.gate + 1 \in Nat
        BY <1>0
      <3>1. run' \in RunType
        BY <1>0, <2>2, <3>0 DEF RunStates
      <3>2. [task[t].seen EXCEPT !.state = "paused"] \in SeenType
        BY <1>0 DEF TaskRecord, RunStates
      <3>3. [task[t] EXCEPT !.seen = [task[t].seen EXCEPT !.state = "paused"], !.pc = "finish"]
              \in TaskRecord
        BY <1>0, <3>2 DEF TaskRecord, DrivePcs
      <3>4. task' \in [Tasks -> TaskRecord]
        BY <1>0, <2>2, <3>3 DEF TypeOK, TaskRecord
      <3>5. QED
        BY <1>6, <3>1, <3>4 DEF TypeOK, Settle
    <2>3. CASE /\ step \in Steps
               /\ run' = [run EXCEPT !.step = step + 1]
               /\ task' = [task EXCEPT ![t].seen.step = step + 1, ![t].pc = "check"]
      <3>1. step + 1 \in 1..DONE
        BY <2>3, DispatchAssumption DEF Steps, DONE
      <3>2. run' \in RunType
        BY <1>0, <2>3, <3>1
      <3>3. [task[t].seen EXCEPT !.step = step + 1] \in SeenType
        BY <1>0, <3>1 DEF TaskRecord
      <3>4. [task[t] EXCEPT !.seen = [task[t].seen EXCEPT !.step = step + 1], !.pc = "check"]
              \in TaskRecord
        BY <1>0, <3>3 DEF TaskRecord, DrivePcs
      <3>5. task' \in [Tasks -> TaskRecord]
        BY <1>0, <2>3, <3>4 DEF TypeOK, TaskRecord
      <3>6. QED
        BY <1>6, <3>2, <3>5 DEF TypeOK, Settle
    <2>4. QED
      BY <1>6, <2>1, <2>2, <2>3 DEF Settle
  <1>7. CASE Finish(t)
    <2>1. queue' \in [Items -> ItemRecord]
      BY <1>7, MarkDoneType DEF TypeOK, Finish
    <2>2. QED
      BY <1>7, <2>1, ReturnType DEF TypeOK, Finish
  <1>8. CASE DispatchFails(t)
    <2>1. queue' \in [Items -> ItemRecord]
      BY <1>8, MarkDoneType DEF TypeOK, DispatchFails
    <2>2. run' \in RunType
      BY <1>0, <1>8 DEF DispatchFails, RunStates
    <2>3. QED
      BY <1>8, <2>1, <2>2, ReturnType DEF TypeOK, DispatchFails
  <1>9. QED
    BY <1>1, <1>2, <1>3, <1>4, <1>5, <1>6, <1>7, <1>8 DEF Dispatch

\* The actions of a cancel handler.
LEMMA CancelType ==
    ASSUME TypeOK, TasksOwned, NEW t \in Tasks, CancelHandler(t) PROVE TypeOK'
  <1>0. task[t] \in TaskRecord /\ task[t].proc \in Procs \cup {NoProc}
    BY DEF TypeOK, TaskRecord
  <1>1. CASE Void(t)
    <2> DEFINE target == active[task[t].proc]
    <2>1. queue' \in [Items -> ItemRecord]
      BY <1>1, MarkDoneType DEF TypeOK, Void
    <2>2. target \in Tasks \cup {NoTask}
      BY <1>1 DEF TypeOK, TasksOwned, Void
    <2> DEFINE new(u) == IF u = t THEN [task[t] EXCEPT !.waits = target,
                                          !.pc = IF target = NoTask THEN "read" ELSE "await"]
                         ELSE IF u = target THEN [task[u] EXCEPT !.event = TRUE]
                         ELSE task[u]
    <2>3. ASSUME NEW u \in Tasks PROVE new(u) \in TaskRecord
      <3>1. task[u] \in TaskRecord
        BY DEF TypeOK
      <3>2. [task[t] EXCEPT !.waits = target, !.pc = IF target = NoTask THEN "read" ELSE "await"]
              \in TaskRecord
        <4> HIDE DEF target
        <4> QED BY <1>0, <2>2 DEF TaskRecord, CancelPcs
      <3>3. [task[u] EXCEPT !.event = TRUE] \in TaskRecord
        BY <3>1 DEF TaskRecord
      <3>4. QED
        BY <3>1, <3>2, <3>3
    <2>4. task' = [u \in Tasks |-> new(u)]
      BY <1>1 DEF Void
    <2>5. task' \in [Tasks -> TaskRecord]
      BY <2>3, <2>4
    <2>6. QED
      BY <1>1, <2>1, <2>5 DEF TypeOK, Void
  <1>2. CASE Await(t)
    <2>1. [task[t] EXCEPT !.waits = NoTask, !.pc = "read"] \in TaskRecord
      BY <1>0 DEF TaskRecord, CancelPcs
    <2>2. QED
      BY <1>2, <2>1 DEF TypeOK, Await
  <1>3. CASE ReadRun(t)
    <2>1. PICK pc \in {"close", "write"} :
            task' = [task EXCEPT ![t].seen = [state |-> run.state, step |-> run.step], ![t].pc = pc]
      BY <1>3 DEF ReadRun
    <2>2. [task[t] EXCEPT !.seen = [state |-> run.state, step |-> run.step], !.pc = pc] \in TaskRecord
      BY <1>0 DEF TypeOK, TaskRecord, CancelPcs
    <2>3. task' \in [Tasks -> TaskRecord]
      BY <2>1, <2>2 DEF TypeOK
    <2>4. QED
      BY <1>3, <2>3 DEF TypeOK, ReadRun
  <1>4. CASE WriteCancelled(t)
    BY <1>4, WriteStateType DEF TypeOK, WriteCancelled, RunStates, CancelPcs
  <1>5. QED
    BY <1>1, <1>2, <1>3, <1>4 DEF CancelHandler

\* Every step of the specification keeps the types.
LEMMA NextType == TypeOK /\ TasksOwned /\ [Next]_vars => TypeOK'
  <1> SUFFICES ASSUME TypeOK, TasksOwned, [Next]_vars PROVE TypeOK'
    OBVIOUS
  <1>1. CASE Platform
    BY <1>1, PlatformType
  <1>2. CASE \E p \in Procs : Boot(p) \/ Poll(p) \/ Heartbeat(p)
    BY <1>2, BootType, PollType, ExpiryType
  <1>3. CASE \E t \in Tasks : Dispatch(t) \/ CancelHandler(t)
    BY <1>3, DispatchType, CancelType
  <1>4. CASE Environment
    BY <1>4, DieType, ExpiryType, DispatchType DEF Environment
  <1>5. CASE UNCHANGED vars
    BY <1>5 DEF TypeOK, vars
  <1>6. QED
    BY <1>1, <1>2, <1>3, <1>4, <1>5 DEF Next

-----------------------------------------------------------------------------
\* The lock, step by step.

\* A returning task leaves the lock; the others keep what they hold.
LEMMA ReturnLock ==
    ASSUME LockInv, NEW t \in Tasks, Return(t)
    PROVE  (TasksOwned /\ LockHeld)'
  <1>1. ASSUME NEW u \in Tasks
        PROVE  task'[u].pc # "idle" => /\ u # t
                                       /\ task'[u].pc = task[u].pc
                                       /\ task'[u].proc = task[u].proc
    BY DEF LockInv, TypeOK, TaskRecord, Return, Idle
  <1>2. ASSUME NEW u \in Tasks, Driving(u)' PROVE holder'[task'[u].proc] = u
    <2>1. task'[u].pc \in DrivePcs /\ task'[u].pc # "idle"
      BY <1>2 DEF Driving, DrivePcs
    <2>2. u # t /\ task'[u].proc = task[u].proc /\ Driving(u)
      BY <1>1, <2>1 DEF Driving
    <2>3. task[u].proc \in Procs /\ holder[task[u].proc] = u
      BY <1>1, <2>1, <2>2 DEF LockInv, TasksOwned, LockHeld
    <2>4. QED
      BY <2>2, <2>3 DEF Return
  <1>3. QED
    BY <1>1, <1>2 DEF LockInv, TasksOwned, LockHeld

\* A step that moves one task inside its own process, lock untouched, and takes
\* no task into the lock, keeps it.
LEMMA MoveLock ==
    ASSUME LockInv, UNCHANGED holder,
           \A u \in Tasks : \/ task'[u].pc = "idle"
                            \/ task'[u].pc \notin DrivePcs /\ task'[u].proc \in Procs
                            \/ /\ task'[u].proc = task[u].proc
                               /\ task[u].pc # "idle"
                               /\ task'[u].pc \in DrivePcs => task[u].pc \in DrivePcs
    PROVE  (TasksOwned /\ LockHeld)'
  <1>1. "idle" \notin DrivePcs
    BY DEF DrivePcs
  <1>2. QED
    BY <1>1 DEF LockInv, TasksOwned, LockHeld, Driving

LEMMA DispatchLock ==
    ASSUME LockInv, NEW t \in Tasks, Dispatch(t) \/ DispatchFails(t)
    PROVE  (TasksOwned /\ LockHeld)'
  <1>0. /\ task \in [Tasks -> TaskRecord] /\ task[t] \in TaskRecord
        /\ holder \in [Procs -> Tasks \cup {NoTask}]
    BY DEF LockInv, TypeOK
  <1>1. CASE Finish(t) \/ DispatchFails(t)
    BY <1>1, ReturnLock DEF Finish, DispatchFails
  <1>2. CASE Acquire(t)
    <2>1. CASE Return(t)
      BY <2>1, ReturnLock
    <2>2. CASE holder' = [holder EXCEPT ![task[t].proc] = t] /\ Goto(t, "load")
      <3>1. task[t].proc \in Procs /\ holder[task[t].proc] = NoTask
        BY <1>2 DEF LockInv, TasksOwned, Acquire
      <3>2. \A u \in Tasks : /\ task'[u].proc = task[u].proc
                             /\ u # t => task'[u].pc = task[u].pc
                             /\ u = t => task'[u].pc = "load"
        BY <1>0, <2>2 DEF Goto, TaskRecord
      <3>3. TasksOwned'
        BY <3>1, <3>2 DEF LockInv, TasksOwned
      <3>4. ASSUME NEW u \in Tasks, Driving(u)' PROVE holder'[task'[u].proc] = u
        <4>1. CASE u = t
          BY <1>0, <2>2, <3>1, <3>2, <4>1
        <4>2. CASE u # t
          <5>1. holder[task[u].proc] = u /\ task[u].proc \in Procs
            BY <3>2, <3>4, <4>2 DEF LockInv, LockHeld, TasksOwned, Driving, DrivePcs
          <5>2. task[u].proc # task[t].proc
            BY <3>1, <5>1, Bounds
          <5>3. QED
            BY <1>0, <2>2, <3>2, <5>1, <5>2
        <4>3. QED
          BY <4>1, <4>2
      <3>5. QED
        BY <3>3, <3>4 DEF LockHeld
    <2>3. QED
      BY <1>2, <2>1, <2>2 DEF Acquire
  <1>3. CASE Load(t) \/ InitRun(t) \/ ApplyDecision(t) \/ Check(t) \/ Complete(t)
               \/ StepEnds(t) \/ Settle(t)
    <2>1. task[t].pc \in DrivePcs /\ UNCHANGED holder
      BY <1>3 DEF Load, InitRun, ApplyDecision, Check, Complete, StepEnds, Settle, DrivePcs
    <2>2. \A u \in Tasks : /\ task'[u].proc = task[u].proc
                           /\ u # t => task'[u].pc = task[u].pc
      <3>1. CASE Load(t)
        BY <1>0, <3>1 DEF Load, TaskRecord
      <3>2. CASE InitRun(t)
        BY <1>0, <3>2 DEF InitRun, WriteState, Goto, TaskRecord
      <3>3. CASE ApplyDecision(t)
        BY <1>0, <3>3 DEF ApplyDecision, WriteState, TaskRecord
      <3>4. CASE Check(t) \/ Complete(t) \/ StepEnds(t)
        BY <1>0, <3>4 DEF Check, Complete, StepEnds, WriteState, Goto, TaskRecord
      <3>5. CASE Settle(t)
        BY <1>0, <3>5 DEF Settle, WriteState, TaskRecord
      <3>6. QED
        BY <1>3, <3>1, <3>2, <3>3, <3>4, <3>5
    <2>3. \A u \in Tasks : \/ task[u].pc # "idle"
                           \/ task'[u].pc = "idle"
      BY <2>1, <2>2 DEF DrivePcs
    <2>4. QED
      BY <2>1, <2>2, <2>3, MoveLock
  <1>4. QED
    BY <1>1, <1>2, <1>3 DEF Dispatch

LEMMA NextLock == LockInv /\ [Next]_vars => LockInv'
  <1> SUFFICES ASSUME LockInv, [Next]_vars PROVE (TasksOwned /\ LockHeld)'
    BY NextType DEF LockInv
  <1>0. /\ task \in [Tasks -> TaskRecord] /\ holder \in [Procs -> Tasks \cup {NoTask}]
        /\ "idle" \notin DrivePcs /\ "void" \notin DrivePcs /\ "lock" \notin DrivePcs
    BY DEF LockInv, TypeOK, DrivePcs
  <1>1. CASE UNCHANGED <<task, holder>>
    BY <1>1 DEF LockInv, TasksOwned, LockHeld, Driving
  <1>2. ASSUME NEW p \in Procs, Poll(p) PROVE (TasksOwned /\ LockHeld)'
    <2>1. CASE UNCHANGED task
      BY <1>1, <1>2, <2>1 DEF Poll
    <2>2. ASSUME NEW i \in Items, NEW t \in Tasks, NEW pc \in {"void", "lock"},
                 task' = [task EXCEPT ![t] = [Idle EXCEPT !.pc = pc, !.proc = p, !.item = i]]
          PROVE  (TasksOwned /\ LockHeld)'
      <3>1. \A u \in Tasks : u # t => task'[u] = task[u]
        BY <1>0, <2>2
      <3>2. task'[t].pc = pc /\ task'[t].proc = p
        BY <1>0, <2>2 DEF Idle
      <3>3. UNCHANGED holder
        BY <1>2 DEF Poll
      <3>4. QED
        BY <1>0, <3>1, <3>2, <3>3, MoveLock
    <2>3. QED
      BY <1>2, <2>1, <2>2 DEF Poll
  <1>3. ASSUME NEW p \in Procs, Die(p) PROVE (TasksOwned /\ LockHeld)'
    <2>1. \A u \in Tasks : \/ task'[u].pc = "idle"
                           \/ task'[u] = task[u] /\ task[u].proc # p
      BY <1>3 DEF Die, Idle
    <2>2. \A q \in Procs : q # p => holder'[q] = holder[q]
      BY <1>0, <1>3 DEF Die
    <2>3. QED
      BY <1>0, <2>1, <2>2 DEF LockInv, TasksOwned, LockHeld, Driving
  <1>4. ASSUME NEW t \in Tasks, CancelHandler(t) PROVE (TasksOwned /\ LockHeld)'
    <2>1. task[t].pc \in CancelPcs /\ UNCHANGED holder
      BY <1>4 DEF CancelHandler, Void, Await, ReadRun, WriteCancelled, CancelPcs
    <2>2. \A u \in Tasks : /\ task'[u].proc = task[u].proc
                           /\ u # t => task'[u].pc = task[u].pc
                           /\ u = t => task'[u].pc \notin DrivePcs
      <3>1. CASE Void(t)
        BY <1>0, <3>1 DEF Void, TaskRecord, DrivePcs
      <3>2. CASE Await(t) \/ ReadRun(t)
        BY <1>0, <3>2 DEF Await, ReadRun, TaskRecord, DrivePcs
      <3>3. CASE WriteCancelled(t)
        BY <1>0, <3>3 DEF WriteCancelled, WriteState, TaskRecord, DrivePcs
      <3>4. QED
        BY <1>4, <3>1, <3>2, <3>3 DEF CancelHandler
    <2>3. "idle" \notin CancelPcs
      BY DEF CancelPcs
    <2>4. QED
      BY <2>1, <2>2, <2>3, MoveLock
  <1>5. CASE UNCHANGED vars
    BY <1>1, <1>5 DEF vars
  <1>6. CASE Platform \/ (\E p \in Procs : Boot(p) \/ Heartbeat(p)) \/ (\E i \in Items : Expire(i))
    BY <1>1, <1>6 DEF Platform, SubmitDecision, RequestCancel, Boot, Heartbeat, Expire
  <1>7. QED
    BY <1>2, <1>3, <1>4, <1>5, <1>6, DispatchLock DEF Next, Environment, Crash, Shutdown

LEMMA InitLock == Init => LockInv
  BY InitType DEF Init, LockInv, TasksOwned, LockHeld, Driving, Idle, DrivePcs

\* Every variable keeps its shape, for any number of engines, tasks and steps.
THEOREM TypeCorrect == Spec => []TypeOK
  <1>1. LockInv => TypeOK
    BY DEF LockInv
  <1>2. QED
    BY <1>1, InitLock, NextLock, PTL DEF Spec

\* Per engine process at most one dispatch drives the run, whatever crashes,
\* stalls and competes: the asyncio lock of worker.py.
THEOREM PerProcessExclusion == Spec => []OneDriverPerProcess
  <1>1. LockInv => OneDriverPerProcess
    BY DEF LockInv, LockHeld, OneDriverPerProcess
  <1>2. QED
    BY <1>1, InitLock, NextLock, PTL DEF Spec

-----------------------------------------------------------------------------
(* One engine at a time, whose heartbeats are never late: the deployment of  *)
(* the MVP.  Crashes, shutdowns, restarts, duplicate decisions and impatient  *)
(* cancel handlers are all allowed.                                           *)

OneEngine == MaxLive = 1 /\ "stall" \notin Allowed

\* No two processes are up, and tasks only live in one that is.
OneUp == /\ \A p, q \in Procs : proc[p] = "up" /\ proc[q] = "up" => p = q
         /\ \A t \in Tasks : task[t].pc # "idle" => proc[task[t].proc] = "up"

\* A cancel handler's item is a cancel item, a dispatch's is not.
KindFits == \A t \in Tasks : task[t].pc # "idle" =>
                /\ queue[task[t].item].state # "absent"
                /\ (queue[task[t].item].kind = "cancel") <=> (task[t].pc \in CancelPcs)

\* A driving task still holds its token.
TokenHeld == \A t \in Tasks : Driving(t) =>
                /\ queue[task[t].item].state = "claimed"
                /\ queue[task[t].item].owner = task[t].proc
                /\ ~queue[task[t].item].stale

TokenInv == LockInv /\ OneUp /\ KindFits /\ TokenHeld

LEMMA SoleDriver ==
    ASSUME LockInv, OneUp, NEW t \in Tasks, NEW u \in Tasks, Driving(t), Driving(u)
    PROVE  t = u
  BY DEF LockInv, LockHeld, TasksOwned, OneUp, Driving, DrivePcs

\* Rows that exist keep their kind and go on existing.
KeepsKinds == \A i \in Items : queue[i].state # "absent" =>
                 queue'[i].kind = queue[i].kind /\ queue'[i].state # "absent"

\* A step in which tasks only return or move on inside their own kind of code
\* keeps the invariant if no driving task loses its token.
LEMMA MoveToken ==
    ASSUME TokenInv, KeepsKinds, UNCHANGED proc,
           \A u \in Tasks : \/ task'[u].pc = "idle"
                            \/ /\ task[u].pc # "idle"
                               /\ task'[u].proc = task[u].proc
                               /\ task'[u].item = task[u].item
                               /\ task'[u].pc \in CancelPcs <=> task[u].pc \in CancelPcs,
           \A u \in Tasks : task'[u].pc \in DrivePcs =>
                LET i == task'[u].item IN
                /\ queue'[i].state = "claimed"
                /\ queue'[i].owner = task'[u].proc
                /\ ~queue'[i].stale
    PROVE  (OneUp /\ KindFits /\ TokenHeld)'
  <1>1. OneUp'
    BY DEF TokenInv, OneUp
  <1>2. \A u \in Tasks : task[u].item \in Items
    BY DEF TokenInv, LockInv, TypeOK, TaskRecord
  <1>3. KindFits'
    BY <1>2 DEF TokenInv, KindFits, KeepsKinds
  <1>4. TokenHeld'
    BY DEF TokenHeld, Driving
  <1>5. QED
    BY <1>1, <1>3, <1>4

LEMMA DemoteKeeps ==
    ASSUME NEW q \in [Items -> ItemRecord], NEW S \in SUBSET Claimed(q), NEW i \in Items
    PROVE  /\ Demote(q, S)[i].kind = q[i].kind
           /\ Demote(q, S)[i].state = "absent" <=> q[i].state = "absent"
           /\ i \notin S => Demote(q, S)[i] = q[i]
  BY DEF Demote, Claimed, ItemRecord

LEMMA MarkDoneKeeps ==
    ASSUME NEW q \in [Items -> ItemRecord], NEW S, NEW i \in Items
    PROVE  /\ MarkDone(q, S)[i].kind = q[i].kind
           /\ q[i].state # "absent" => MarkDone(q, S)[i].state # "absent"
           /\ i \notin S => MarkDone(q, S)[i] = q[i]
  BY DEF MarkDone, ItemRecord

\* A step that touches no task, and no row a driving task holds.
LEMMA RowsToken ==
    ASSUME TokenInv, KeepsKinds, UNCHANGED <<proc, task>>,
           \A i \in Items : queue[i].state = "claimed" /\ proc[queue[i].owner] = "up" /\ ~queue[i].stale
               => queue'[i].state = "claimed" /\ queue'[i].owner = queue[i].owner /\ ~queue'[i].stale
    PROVE  (OneUp /\ KindFits /\ TokenHeld)'
  <1>1. ASSUME NEW u \in Tasks, task[u].pc \in DrivePcs
        PROVE  /\ queue'[task[u].item].state = "claimed"
               /\ queue'[task[u].item].owner = task[u].proc
               /\ ~queue'[task[u].item].stale
    <2>1. task[u].item \in Items /\ task[u].pc # "idle"
      BY <1>1 DEF TokenInv, LockInv, TypeOK, TaskRecord, DrivePcs
    <2>2. QED
      BY <1>1, <2>1 DEF TokenInv, OneUp, TokenHeld, Driving
  <1>2. QED
    BY <1>1, MoveToken

-----------------------------------------------------------------------------
LEMMA PlatformToken ==
    ASSUME TokenInv, Platform PROVE (OneUp /\ KindFits /\ TokenHeld)'
  <1>1. PICK i \in Items, r \in {Row("approve", 1), Row("cancel", 1)}
                                  \cup {Row("send_back", s) : s \in Steps} :
              IsNextRow(i) /\ queue' = [queue EXCEPT ![i] = r]
    BY DEF Platform, SubmitDecision, RequestCancel
  <1>2. UNCHANGED <<proc, task>>
    BY DEF Platform, SubmitDecision, RequestCancel
  <1>3. \A j \in Items : queue[j].state # "absent" => queue'[j] = queue[j]
    BY <1>1 DEF IsNextRow, TokenInv, LockInv, TypeOK
  <1>4. QED
    BY <1>2, <1>3, RowsToken DEF KeepsKinds

LEMMA BootToken ==
    ASSUME OneEngine, TokenInv, NEW p \in Procs, Boot(p)
    PROVE  (OneUp /\ KindFits /\ TokenHeld)'
  <1> DEFINE Up == {q \in Procs : proc[q] = "up"}
  <1>1. Up = {}
    <2>1. IsFiniteSet(Up)
      BY FS_Subset, DispatchAssumption
    <2>2. Cardinality(Up) \in Nat /\ Cardinality(Up) < 1
      BY <2>1, FS_CardinalityType DEF Boot, OneEngine
    <2>3. QED
      BY <2>1, <2>2, FS_EmptySet
  <1>2. \A t \in Tasks : task[t].pc = "idle"
    BY <1>1 DEF TokenInv, LockInv, TasksOwned, OneUp
  <1>3. \A q \in Procs : proc'[q] = "up" => q = p
    BY <1>1 DEF Boot, TokenInv, LockInv, TypeOK
  <1>4. QED
    BY <1>2, <1>3 DEF Boot, OneUp, KindFits, TokenHeld, Driving, DrivePcs

LEMMA PollToken ==
    ASSUME TokenInv, NEW p \in Procs, Poll(p)
    PROVE  (OneUp /\ KindFits /\ TokenHeld)'
  <1> DEFINE S == StaleClaims(queue)
             q == Demote(queue, S)
  <1>0. queue \in [Items -> ItemRecord] /\ task \in [Tasks -> TaskRecord] /\ S \in SUBSET Claimed(queue)
    BY DEF TokenInv, LockInv, TypeOK, StaleClaims
  <1>1. q \in [Items -> ItemRecord]
    BY <1>0, DemoteType
  <1>2. \A j \in Items : /\ q[j].kind = queue[j].kind
                         /\ q[j].state = "absent" <=> queue[j].state = "absent"
                         /\ ~queue[j].stale => q[j] = queue[j]
    BY <1>0, DemoteKeeps DEF StaleClaims
  <1>3. proc' = proc /\ proc[p] = "up"
    BY DEF Poll
  <1>4. CASE queue' = q /\ UNCHANGED task
    BY <1>2, <1>3, <1>4, RowsToken DEF KeepsKinds
  <1>5. ASSUME NEW i \in Items, NEW t \in Tasks, q[i].state = "pending", task[t].pc = "idle",
               queue' = [q EXCEPT ![i].state = "claimed", ![i].owner = p, ![i].stale = FALSE],
               task' = [task EXCEPT ![t] = [Idle EXCEPT !.pc = IF queue[i].kind = "cancel"
                                                               THEN "void" ELSE "lock",
                                                        !.proc = p, !.item = i]]
        PROVE  (OneUp /\ KindFits /\ TokenHeld)'
    <2>1. \A j \in Items : j # i => queue'[j] = q[j]
      BY <1>1, <1>5
    <2>2. queue'[i].kind = queue[i].kind /\ queue'[i].state = "claimed"
      BY <1>1, <1>2, <1>5 DEF ItemRecord
    <2>3. \A u \in Tasks : u # t => task'[u] = task[u]
      BY <1>0, <1>5
    <2>4. /\ task'[t].pc = IF queue[i].kind = "cancel" THEN "void" ELSE "lock"
          /\ task'[t].proc = p /\ task'[t].item = i
      BY <1>0, <1>5 DEF Idle
    <2>5. OneUp'
      BY <1>3, <2>3, <2>4 DEF TokenInv, OneUp
    <2>6. \A u \in Tasks : task[u].item \in Items
      BY <1>0 DEF TaskRecord
    <2>7. KindFits'
      BY <1>2, <2>1, <2>2, <2>3, <2>4, <2>6 DEF TokenInv, KindFits, CancelPcs
    <2>8. ASSUME NEW u \in Tasks, task'[u].pc \in DrivePcs
          PROVE  u # t /\ task[u].item # i /\ queue'[task[u].item] = queue[task[u].item]
      <3>1. u # t
        BY <2>4, <2>8 DEF DrivePcs
      <3>2. queue[task[u].item].state = "claimed" /\ ~queue[task[u].item].stale
        BY <2>3, <2>8, <3>1 DEF TokenInv, TokenHeld, Driving
      <3>3. QED
        BY <1>2, <1>5, <2>1, <2>6, <3>1, <3>2
    <2>9. TokenHeld'
      BY <2>3, <2>8 DEF TokenInv, TokenHeld, Driving
    <2>10. QED
      BY <2>5, <2>7, <2>9
  <1>6. QED
    BY <1>4, <1>5 DEF Poll, IsOldestPending, IsFreeSlot

LEMMA HeartbeatToken ==
    ASSUME OneEngine, TokenInv, (\E i \in Items : Expire(i)) \/ (\E p \in Procs : Heartbeat(p))
    PROVE  (OneUp /\ KindFits /\ TokenHeld)'
  <1>0. queue \in [Items -> ItemRecord]
    BY DEF TokenInv, LockInv, TypeOK
  <1>1. CASE \E i \in Items : Expire(i)
    <2>1. PICK i \in Items : Expire(i)
      BY <1>1
    <2>2. proc[queue[i].owner] # "up"
      BY <2>1 DEF Expire, OneEngine
    <2>3. \A j \in Items : /\ j # i => queue'[j] = queue[j]
                           /\ queue'[j].kind = queue[j].kind /\ queue'[j].state = queue[j].state
      BY <1>0, <2>1 DEF Expire, ItemRecord
    <2>4. UNCHANGED <<proc, task>>
      BY <2>1 DEF Expire
    <2>5. QED
      BY <2>2, <2>3, <2>4, RowsToken DEF KeepsKinds
  <1>2. CASE \E p \in Procs : Heartbeat(p)
    <2>1. \A j \in Items : /\ queue'[j].kind = queue[j].kind /\ queue'[j].state = queue[j].state
                           /\ queue'[j].owner = queue[j].owner
                           /\ ~queue[j].stale => queue'[j] = queue[j]
      BY <1>0, <1>2 DEF Heartbeat, ItemRecord, StaleClaims
    <2>2. UNCHANGED <<proc, task>>
      BY <1>2 DEF Heartbeat
    <2>3. QED
      BY <2>1, <2>2, RowsToken DEF KeepsKinds
  <1>3. QED
    BY <1>1, <1>2

\* The only engine dies, and all tasks with it.
LEMMA DieToken ==
    ASSUME TokenInv, NEW p \in Procs, Die(p)
    PROVE  (OneUp /\ KindFits /\ TokenHeld)'
  <1>1. \A t \in Tasks : task'[t].pc = "idle"
    <2>1. \A t \in Tasks : task[t].pc # "idle" => task[t].proc = p
      BY DEF TokenInv, LockInv, TasksOwned, OneUp, Die
    <2>2. QED
      BY <2>1 DEF Die, Idle
  <1>2. \A q \in Procs : proc'[q] = "up" => proc[q] = "up"
    BY DEF Die, TokenInv, LockInv, TypeOK
  <1>3. QED
    BY <1>1, <1>2 DEF TokenInv, OneUp, KindFits, TokenHeld, Driving, DrivePcs

-----------------------------------------------------------------------------
\* A driver that returns was the only one; a handler that returns closes an item
\* no driver holds.
LEMMA ReturnToken ==
    ASSUME TokenInv, NEW t \in Tasks, Return(t), UNCHANGED proc, KeepsKinds,
           \A u \in Tasks : Driving(u) /\ u # t => queue'[task[u].item] = queue[task[u].item]
    PROVE  (OneUp /\ KindFits /\ TokenHeld)'
  <1>1. ASSUME NEW u \in Tasks
        PROVE  \/ task'[u].pc = "idle"
               \/ /\ u # t
                  /\ task'[u].pc = task[u].pc /\ task'[u].proc = task[u].proc
                  /\ task'[u].item = task[u].item
    BY DEF TokenInv, LockInv, TypeOK, TaskRecord, Return, Idle
  <1>2. "idle" \notin DrivePcs
    BY DEF DrivePcs
  <1>3. ASSUME NEW u \in Tasks, task'[u].pc \in DrivePcs
        PROVE  /\ queue'[task'[u].item].state = "claimed"
               /\ queue'[task'[u].item].owner = task'[u].proc
               /\ ~queue'[task'[u].item].stale
    <2>1. Driving(u) /\ u # t /\ task'[u].proc = task[u].proc /\ task'[u].item = task[u].item
      BY <1>1, <1>2, <1>3 DEF Driving
    <2>2. QED
      BY <2>1 DEF TokenInv, TokenHeld
  <1>4. \A u \in Tasks : \/ task'[u].pc = "idle"
                         \/ /\ task[u].pc # "idle"
                            /\ task'[u].proc = task[u].proc
                            /\ task'[u].item = task[u].item
                            /\ task'[u].pc \in CancelPcs <=> task[u].pc \in CancelPcs
    BY <1>1
  <1>5. QED
    BY <1>3, <1>4, MoveToken

LEMMA DispatchToken ==
    ASSUME TokenInv, NEW t \in Tasks, Dispatch(t) \/ DispatchFails(t)
    PROVE  (OneUp /\ KindFits /\ TokenHeld)'
  <1>0. /\ task \in [Tasks -> TaskRecord] /\ task[t] \in TaskRecord
        /\ queue \in [Items -> ItemRecord] /\ \A u \in Tasks : task[u].item \in Items
    BY DEF TokenInv, LockInv, TypeOK, TaskRecord
  <1>1. CASE Finish(t) \/ DispatchFails(t)
    <2>1. queue' = MarkDone(queue, {task[t].item}) /\ Return(t) /\ UNCHANGED proc
      BY <1>1 DEF Finish, DispatchFails
    <2>2. KeepsKinds
      BY <1>0, <2>1, MarkDoneKeeps DEF KeepsKinds
    <2>3. ASSUME NEW u \in Tasks, Driving(u), u # t
          PROVE  queue'[task[u].item] = queue[task[u].item]
      <3>1. ~Driving(t)
        BY <2>3, SoleDriver DEF TokenInv
      <3>2. task[t].pc = "close"
        BY <1>1, <3>1 DEF Driving, Finish, DispatchFails, DrivePcs
      <3>3. task[t].item # task[u].item
        BY <2>3, <3>2 DEF TokenInv, KindFits, Driving, DrivePcs, CancelPcs
      <3>4. QED
        BY <1>0, <2>1, <3>3, MarkDoneKeeps
    <2>4. QED
      BY <2>1, <2>2, <2>3, ReturnToken
  <1>2. CASE Acquire(t)
    <2> DEFINE i == task[t].item
               S == Claimed(queue) \ {i}
               q == Demote(queue, S)
    <2>1. S \in SUBSET Claimed(queue) /\ q \in [Items -> ItemRecord]
      BY <1>0, DemoteType
    <2>2. \A j \in Items : /\ q[j].kind = queue[j].kind
                           /\ q[j].state = "absent" <=> queue[j].state = "absent"
                           /\ j \notin S => q[j] = queue[j]
      BY <1>0, <2>1, DemoteKeeps
    <2>3. ASSUME NEW u \in Tasks PROVE ~Driving(u)
      <3>1. holder[task[t].proc] = NoTask
        BY <1>2 DEF Acquire
      <3>2. task[t].pc = "lock" /\ task[t].pc # "idle"
        BY <1>2 DEF Acquire
      <3>3. SUFFICES ASSUME Driving(u) PROVE FALSE
        OBVIOUS
      <3>4. task[u].pc # "idle"
        BY <3>3 DEF Driving, DrivePcs
      <3>5. task[u].proc = task[t].proc
        BY <3>2, <3>4 DEF TokenInv, OneUp, LockInv, TasksOwned
      <3>6. QED
        BY <3>1, <3>3, <3>5, Bounds DEF TokenInv, LockInv, LockHeld
    <2>4. CASE queue' = q /\ Return(t)
      BY <1>2, <2>2, <2>3, <2>4, ReturnToken DEF KeepsKinds, Acquire
    <2>5. CASE /\ queue[i].state = "claimed" /\ queue[i].owner = task[t].proc
               /\ queue' = [q EXCEPT ![i].stale = FALSE]
               /\ Goto(t, "load")
      <3>0. i \in Items /\ i \notin S /\ q[i] = queue[i] /\ q[i] \in ItemRecord
        BY <1>0, <2>1, <2>2
      <3>1. /\ queue'[i] = [q[i] EXCEPT !.stale = FALSE]
            /\ \A j \in Items : j # i => queue'[j] = q[j]
        <4> HIDE DEF q, i
        <4> QED
          BY <2>1, <2>5, <3>0
      <3>2. /\ queue'[i].kind = q[i].kind /\ queue'[i].state = "claimed"
            /\ queue'[i].owner = task[t].proc /\ ~queue'[i].stale
        <4>1. ASSUME NEW r \in ItemRecord, NEW new, new = [r EXCEPT !.stale = FALSE]
              PROVE  /\ new.kind = r.kind /\ new.state = r.state /\ new.owner = r.owner
                     /\ ~new.stale
          BY <4>1 DEF ItemRecord
        <4> HIDE DEF q, i
        <4> QED
          BY <2>5, <3>0, <3>1, <4>1
      <3>3. KeepsKinds
        <4> SUFFICES ASSUME NEW j \in Items, queue[j].state # "absent"
                     PROVE  queue'[j].kind = queue[j].kind /\ queue'[j].state # "absent"
          BY DEF KeepsKinds
        <4> HIDE DEF q, i
        <4>1. CASE j = i
          BY <3>0, <3>2, <4>1
        <4>2. CASE j # i
          BY <2>2, <3>1, <4>2
        <4> QED
          BY <4>1, <4>2
      <3>4. \A u \in Tasks : /\ task'[u].proc = task[u].proc /\ task'[u].item = task[u].item
                             /\ u # t => task'[u].pc = task[u].pc
                             /\ u = t => task'[u].pc = "load"
        BY <1>0, <2>5 DEF Goto, TaskRecord
      <3>5. ASSUME NEW u \in Tasks, task'[u].pc \in DrivePcs
            PROVE  /\ queue'[task'[u].item].state = "claimed"
                   /\ queue'[task'[u].item].owner = task'[u].proc
                   /\ ~queue'[task'[u].item].stale
        <4>1. u = t
          BY <2>3, <3>4, <3>5 DEF Driving
        <4>2. QED
          BY <3>2, <3>4, <4>1
      <3>6. \A u \in Tasks : \/ task'[u].pc = "idle"
                             \/ /\ task[u].pc # "idle"
                                /\ task'[u].proc = task[u].proc
                                /\ task'[u].item = task[u].item
                                /\ task'[u].pc \in CancelPcs <=> task[u].pc \in CancelPcs
        BY <1>2, <3>4 DEF Acquire, CancelPcs
      <3>7. UNCHANGED proc
        BY <1>2 DEF Acquire
      <3>8. QED
        BY <3>3, <3>5, <3>6, <3>7, MoveToken
    <2>6. QED
      BY <1>2, <2>4, <2>5 DEF Acquire
  <1>3. CASE Load(t) \/ InitRun(t) \/ ApplyDecision(t) \/ Check(t) \/ Complete(t)
               \/ StepEnds(t) \/ Settle(t)
    <2>1. task[t].pc \in DrivePcs /\ UNCHANGED <<queue, proc>>
      BY <1>3 DEF Load, InitRun, ApplyDecision, Check, Complete, StepEnds, Settle, DrivePcs
    <2>2. \A u \in Tasks : /\ task'[u].proc = task[u].proc /\ task'[u].item = task[u].item
                           /\ u # t => task'[u].pc = task[u].pc
                           /\ u = t => task'[u].pc \in DrivePcs
      <3>1. CASE Load(t)
        BY <1>0, <3>1 DEF Load, TaskRecord, DrivePcs
      <3>2. CASE InitRun(t)
        BY <1>0, <3>2 DEF InitRun, WriteState, Goto, TaskRecord, DrivePcs
      <3>3. CASE ApplyDecision(t)
        BY <1>0, <3>3 DEF ApplyDecision, WriteState, TaskRecord, DrivePcs
      <3>4. CASE Check(t) \/ Complete(t) \/ StepEnds(t)
        BY <1>0, <3>4 DEF Check, Complete, StepEnds, WriteState, Goto, TaskRecord, DrivePcs
      <3>5. CASE Settle(t)
        BY <1>0, <3>5 DEF Settle, WriteState, TaskRecord, DrivePcs
      <3>6. QED
        BY <1>3, <3>1, <3>2, <3>3, <3>4, <3>5
    <2>3. \A u \in Tasks : \/ task'[u].pc = "idle"
                           \/ /\ task[u].pc # "idle"
                              /\ task'[u].proc = task[u].proc
                              /\ task'[u].item = task[u].item
                              /\ task'[u].pc \in CancelPcs <=> task[u].pc \in CancelPcs
      <3>1. DrivePcs \cap CancelPcs = {} /\ "idle" \notin DrivePcs
        BY DEF DrivePcs, CancelPcs
      <3>2. QED
        BY <2>1, <2>2, <3>1
    <2>4. \A u \in Tasks : task'[u].pc \in DrivePcs =>
            LET i == task'[u].item IN
            /\ queue'[i].state = "claimed"
            /\ queue'[i].owner = task'[u].proc
            /\ ~queue'[i].stale
      BY <2>1, <2>2 DEF TokenInv, TokenHeld, Driving
    <2>5. QED
      BY <2>1, <2>3, <2>4, MoveToken DEF KeepsKinds
  <1>4. QED
    BY <1>1, <1>2, <1>3 DEF Dispatch

LEMMA CancelToken ==
    ASSUME TokenInv, NEW t \in Tasks, CancelHandler(t)
    PROVE  (OneUp /\ KindFits /\ TokenHeld)'
  <1>0. /\ task \in [Tasks -> TaskRecord] /\ queue \in [Items -> ItemRecord]
        /\ \A u \in Tasks : task[u].item \in Items
    BY DEF TokenInv, LockInv, TypeOK, TaskRecord
  <1>1. task[t].pc \in CancelPcs /\ UNCHANGED proc
    BY DEF CancelHandler, Void, Await, ReadRun, WriteCancelled, CancelPcs
  <1>2. \A u \in Tasks : /\ task'[u].proc = task[u].proc /\ task'[u].item = task[u].item
                         /\ u # t => task'[u].pc = task[u].pc
                         /\ u = t => task'[u].pc \in CancelPcs
    <2>1. CASE Void(t)
      BY <1>0, <2>1 DEF Void, TaskRecord, CancelPcs
    <2>2. CASE Await(t) \/ ReadRun(t)
      BY <1>0, <2>2 DEF Await, ReadRun, TaskRecord, CancelPcs
    <2>3. CASE WriteCancelled(t)
      BY <1>0, <2>3 DEF WriteCancelled, WriteState, TaskRecord, CancelPcs
    <2>4. QED
      BY <2>1, <2>2, <2>3 DEF CancelHandler
  <1>3. /\ KeepsKinds
        /\ \A i \in Items : queue[i].state = "claimed" => queue'[i] = queue[i]
    <2>1. CASE Void(t)
      BY <1>0, <2>1, MarkDoneKeeps DEF Void, KeepsKinds
    <2>2. CASE UNCHANGED queue
      BY <2>2 DEF KeepsKinds
    <2>3. QED
      BY <2>1, <2>2 DEF CancelHandler, Await, ReadRun, WriteCancelled
  <1>4. DrivePcs \cap CancelPcs = {} /\ "idle" \notin DrivePcs /\ "idle" \notin CancelPcs
    BY DEF DrivePcs, CancelPcs
  <1>5. \A u \in Tasks : \/ task'[u].pc = "idle"
                         \/ /\ task[u].pc # "idle"
                            /\ task'[u].proc = task[u].proc
                            /\ task'[u].item = task[u].item
                            /\ task'[u].pc \in CancelPcs <=> task[u].pc \in CancelPcs
    BY <1>1, <1>2, <1>4
  <1>6. \A u \in Tasks : task'[u].pc \in DrivePcs =>
          LET i == task'[u].item IN
          /\ queue'[i].state = "claimed"
          /\ queue'[i].owner = task'[u].proc
          /\ ~queue'[i].stale
    BY <1>0, <1>2, <1>3, <1>4 DEF TokenInv, TokenHeld, Driving
  <1>7. QED
    BY <1>1, <1>3, <1>5, <1>6, MoveToken

LEMMA NextToken == OneEngine /\ TokenInv /\ [Next]_vars => TokenInv'
  <1> SUFFICES ASSUME OneEngine, TokenInv, [Next]_vars PROVE (OneUp /\ KindFits /\ TokenHeld)'
    BY NextLock DEF TokenInv
  <1>1. CASE Platform
    BY <1>1, PlatformToken
  <1>2. CASE \E p \in Procs : Boot(p) \/ Poll(p) \/ Heartbeat(p)
    BY <1>2, BootToken, PollToken, HeartbeatToken
  <1>3. CASE \E t \in Tasks : Dispatch(t) \/ CancelHandler(t)
    BY <1>3, DispatchToken, CancelToken
  <1>4. CASE Environment
    BY <1>4, DieToken, HeartbeatToken, DispatchToken DEF Environment, Crash, Shutdown
  <1>5. CASE UNCHANGED vars
    BY <1>5, RowsToken DEF vars, KeepsKinds
  <1>6. QED
    BY <1>1, <1>2, <1>3, <1>4, <1>5 DEF Next

LEMMA InitToken == Init => TokenInv
  BY InitLock DEF Init, TokenInv, OneUp, KindFits, TokenHeld, Driving, Idle, DrivePcs

\* With one engine at a time and heartbeats on time, exactly one dispatch drives
\* the run and it owns its token, through every crash, shutdown and restart.
THEOREM SingleDriver == OneEngine => (Spec => []OneDriver)
  <1>1. TokenInv => OneDriver
    BY SoleDriver DEF TokenInv, TokenHeld, OneDriver
  <1>2. SUFFICES ASSUME OneEngine PROVE Spec => []OneDriver
    OBVIOUS
  <1>3. TokenInv /\ [Next]_vars => TokenInv'
    BY <1>2, NextToken
  <1>4. QED
    BY <1>1, <1>3, InitToken, PTL DEF Spec

-----------------------------------------------------------------------------
\* A driver that is past the load of the run row is not driving a finished run.
DriverUnfinished == \A t \in Tasks : task[t].pc \in DrivePcs \ {"load", "finish"}
                                       => run.state \notin {"completed", "failed"}

FinishInv == TokenInv /\ DriverUnfinished

LEMMA NextFinish ==
    OneEngine /\ FinishInv /\ [Next]_vars =>
        /\ FinishInv'
        /\ run.state \in {"completed", "failed"} => run'.state \in {run.state, "cancelled"}
  <1> SUFFICES ASSUME OneEngine, FinishInv, [Next]_vars
               PROVE  /\ DriverUnfinished'
                      /\ run.state \in {"completed", "failed"} =>
                           run'.state \in {run.state, "cancelled"}
    BY NextToken DEF FinishInv
  <1> DEFINE Past  == DrivePcs \ {"load", "finish"}
             Goal  == /\ DriverUnfinished'
                      /\ run.state \in {"completed", "failed"} =>
                           run'.state \in {run.state, "cancelled"}
  <1>0. /\ task \in [Tasks -> TaskRecord]
        /\ run \in [state: RunStates, step: 1..DONE, gate: Nat]
    BY DEF FinishInv, TokenInv, LockInv, TypeOK
  \* The run is left alone, or stopped, and no task gets past the load.
  <1>1. ASSUME run'.state \in {run.state, "cancelled"},
               \A u \in Tasks : task'[u].pc \in Past => task[u].pc \in Past
        PROVE  Goal
    BY <1>1 DEF FinishInv, DriverUnfinished
  \* The driver moves.
  <1>2. ASSUME NEW t \in Tasks, task[t].pc \in Past,
               \A u \in Tasks : u # t => task'[u].pc \in {task[u].pc, "idle"},
               task'[t].pc \in Past => run'.state \notin {"completed", "failed"}
        PROVE  Goal
    <2>1. run.state \notin {"completed", "failed"}
      BY <1>2 DEF FinishInv, DriverUnfinished
    <2>2. ASSUME NEW u \in Tasks, task'[u].pc \in Past PROVE u = t
      BY <1>2, <2>2, SoleDriver DEF FinishInv, TokenInv, Driving, DrivePcs
    <2>3. QED
      BY <1>2, <2>1, <2>2 DEF DriverUnfinished
  <1>3. CASE Platform \/ (\E p \in Procs : Boot(p) \/ Heartbeat(p)) \/ (\E i \in Items : Expire(i))
             \/ UNCHANGED vars
    BY <1>1, <1>3 DEF Platform, SubmitDecision, RequestCancel, Boot, Heartbeat, Expire, vars
  <1>4. ASSUME NEW p \in Procs, Poll(p) PROVE Goal
    <2>1. UNCHANGED run
      BY <1>4 DEF Poll
    <2>2. \A u \in Tasks : task'[u].pc \in Past => task[u].pc \in Past
      <3>1. CASE UNCHANGED task
        BY <3>1
      <3>2. ASSUME NEW i \in Items, NEW t \in Tasks, NEW pc \in {"void", "lock"},
                   task' = [task EXCEPT ![t] = [Idle EXCEPT !.pc = pc, !.proc = p, !.item = i]]
            PROVE  \A u \in Tasks : task'[u].pc \in Past => task[u].pc \in Past
        BY <1>0, <3>2 DEF Idle, DrivePcs
      <3>3. QED
        BY <1>4, <3>1, <3>2 DEF Poll
    <2>3. QED
      BY <1>1, <2>1, <2>2
  <1>5. ASSUME NEW p \in Procs, Die(p) PROVE Goal
    BY <1>1, <1>5 DEF Die, Idle, DrivePcs
  <1>6. ASSUME NEW t \in Tasks, CancelHandler(t) PROVE Goal
    <2>1. run'.state \in {run.state, "cancelled"}
      BY <1>0, <1>6 DEF CancelHandler, Void, Await, ReadRun, WriteCancelled, WriteState
    <2>2. \A u \in Tasks : task'[u].pc \in Past => task[u].pc \in Past
      <3>1. CASE Void(t)
        BY <1>0, <3>1 DEF Void, TaskRecord, DrivePcs
      <3>2. CASE Await(t) \/ ReadRun(t)
        BY <1>0, <3>2 DEF Await, ReadRun, TaskRecord, DrivePcs
      <3>3. CASE WriteCancelled(t)
        BY <1>0, <3>3 DEF WriteCancelled, WriteState, TaskRecord, DrivePcs
      <3>4. QED
        BY <1>6, <3>1, <3>2, <3>3 DEF CancelHandler
    <2>3. QED
      BY <1>1, <2>1, <2>2
  <1>7. ASSUME NEW t \in Tasks, DispatchFails(t) PROVE Goal
    <2>1. task[t].pc \in Past /\ task'[t].pc = "idle"
      BY <1>7 DEF DispatchFails, Return, Idle
    <2>2. \A u \in Tasks : u # t => task'[u].pc \in {task[u].pc, "idle"}
      BY <1>0, <1>7 DEF DispatchFails, Return, TaskRecord
    <2>3. QED
      BY <1>2, <2>1, <2>2 DEF DrivePcs
  <1>8. ASSUME NEW t \in Tasks, Finish(t) \/ Acquire(t) PROVE Goal
    <2>1. UNCHANGED run
      BY <1>8 DEF Finish, Acquire
    <2>2. \A u \in Tasks : task'[u].pc \in Past => task[u].pc \in Past
      BY <1>0, <1>8 DEF Finish, Acquire, Return, Goto, Idle, TaskRecord, DrivePcs
    <2>3. QED
      BY <1>1, <2>1, <2>2
  <1>9. ASSUME NEW t \in Tasks, Load(t) PROVE Goal
    <2>1. UNCHANGED run
      BY <1>9 DEF Load
    <2>2. \A u \in Tasks : u # t => task'[u].pc = task[u].pc
      BY <1>0, <1>9 DEF Load, TaskRecord
    <2>3. task'[t].pc \in Past => run.state \notin {"completed", "failed"}
      BY <1>0, <1>9 DEF Load, TaskRecord, TerminalStates
    <2>4. QED
      BY <2>1, <2>2, <2>3 DEF FinishInv, DriverUnfinished
  <1>10. ASSUME NEW t \in Tasks,
                InitRun(t) \/ ApplyDecision(t) \/ Check(t) \/ Complete(t) \/ StepEnds(t) \/ Settle(t)
         PROVE  Goal
    <2>1. task[t].pc \in Past
      BY <1>10 DEF InitRun, ApplyDecision, Check, Complete, StepEnds, Settle, DrivePcs
    <2>2. run.state \notin {"completed", "failed"}
      BY <2>1 DEF FinishInv, DriverUnfinished
    <2>3. /\ \A u \in Tasks : u # t => task'[u].pc = task[u].pc
          /\ task'[t].pc \in Past => run'.state \notin {"completed", "failed"}
      <3>1. CASE InitRun(t)
        BY <1>0, <2>2, <3>1 DEF InitRun, WriteState, Goto, TaskRecord
      <3>2. CASE ApplyDecision(t)
        BY <1>0, <2>2, <3>2 DEF ApplyDecision, WriteState, TaskRecord
      <3>3. CASE Check(t) \/ Complete(t) \/ StepEnds(t)
        BY <1>0, <2>2, <3>3 DEF Check, Complete, StepEnds, WriteState, Goto, TaskRecord
      <3>4. CASE Settle(t)
        BY <1>0, <2>2, <3>4 DEF Settle, WriteState, TaskRecord
      <3>5. QED
        BY <1>10, <3>1, <3>2, <3>3, <3>4
    <2>4. QED
      BY <1>2, <2>1, <2>3
  <1>11. QED
    BY <1>3, <1>4, <1>5, <1>6, <1>7, <1>8, <1>9, <1>10
       DEF Next, Dispatch, Environment, Crash, Shutdown

LEMMA InitFinish == Init => FinishInv
  BY InitToken DEF Init, FinishInv, DriverUnfinished, Idle, DrivePcs

\* With one engine at a time, no late write revives a completed or failed run.
THEOREM FinishedIsFinal == OneEngine => (Spec => FinishedStays)
  <1> SUFFICES ASSUME OneEngine PROVE Spec => FinishedStays
    OBVIOUS
  <1>1. FinishInv /\ [Next]_vars => FinishInv'
    BY NextFinish
  <1>2. FinishInv /\ [Next]_vars =>
          [run.state \in {"completed", "failed"} => run'.state \in {run.state, "cancelled"}]_vars
    BY NextFinish
  <1>3. QED
    BY <1>1, <1>2, InitFinish, PTL DEF Spec, FinishedStays

-----------------------------------------------------------------------------
\* What the steps do to tasks and to the run's state, one lemma per kind of step.

\* Task t moves on; no other task notices.
Moved(t) == /\ \A u \in Tasks : u # t => task'[u] = task[u]
            /\ task'[t].event = task[t].event
            /\ task'[t].item = task[t].item /\ task'[t].proc = task[t].proc

LEMMA WriteSays ==
    ASSUME TypeOK, NEW t \in Tasks, NEW state, NEW pc, WriteState(t, state, pc)
    PROVE  /\ Moved(t) /\ run'.state = state
           /\ task'[t].pc = pc /\ task'[t].seen.state = state
  <1>1. task \in [Tasks -> TaskRecord] /\ task[t] \in TaskRecord
    BY DEF TypeOK
  <1>2. run'.state = state
    BY DEF TypeOK, WriteState
  <1>3. QED
    BY <1>1, <1>2 DEF WriteState, Moved, TaskRecord

LEMMA GotoSays ==
    ASSUME TypeOK, NEW t \in Tasks, NEW pc, Goto(t, pc)
    PROVE  /\ Moved(t)
           /\ task'[t].pc = pc /\ task'[t].seen = task[t].seen
  <1>1. task \in [Tasks -> TaskRecord] /\ task[t] \in TaskRecord
    BY DEF TypeOK
  <1>2. QED
    BY <1>1 DEF Goto, Moved, TaskRecord

LEMMA LoadSays ==
    ASSUME TypeOK, NEW t \in Tasks, Load(t)
    PROVE  /\ Moved(t) /\ UNCHANGED <<run, queue, proc>> /\ task[t].pc = "load"
           /\ task'[t].pc = IF run.state \in TerminalStates THEN "finish" ELSE "init"
           /\ task'[t].seen.state = run.state
  <1>1. task \in [Tasks -> TaskRecord] /\ task[t] \in TaskRecord
    BY DEF TypeOK
  <1>2. QED
    BY <1>1 DEF Load, Moved, TaskRecord

LEMMA InitRunSays ==
    ASSUME TypeOK, NEW t \in Tasks, InitRun(t)
    PROVE  /\ Moved(t) /\ UNCHANGED <<queue, proc>> /\ task[t].pc = "init"
           /\ \/ /\ task[t].seen.state = "pending" /\ run'.state = "running"
                 /\ task'[t].pc = "check" /\ task'[t].seen.state = "running"
              \/ /\ task[t].seen.state = "running" /\ UNCHANGED run
                 /\ task'[t].pc = "check" /\ task'[t].seen = task[t].seen
              \/ /\ task[t].seen.state = "paused" /\ UNCHANGED run
                 /\ task'[t].pc \in {"decide", "finish"} /\ task'[t].seen = task[t].seen
  BY WriteSays, GotoSays DEF InitRun

LEMMA ApplyDecisionSays ==
    ASSUME TypeOK, NEW t \in Tasks, ApplyDecision(t)
    PROVE  /\ Moved(t) /\ UNCHANGED <<queue, proc>> /\ task[t].pc = "decide"
           /\ \/ /\ run'.state = "running"
                 /\ task'[t].pc = "check" /\ task'[t].seen.state = "running"
              \/ run'.state = "failed" /\ task'[t].pc = "finish"
  <1>1. task \in [Tasks -> TaskRecord] /\ task[t] \in TaskRecord
        /\ run \in [state: RunStates, step: 1..DONE, gate: Nat]
    BY DEF TypeOK
  <1>2. CASE WriteState(t, "failed", "finish")
    BY <1>2, WriteSays DEF ApplyDecision
  <1>3. ASSUME NEW target,
               run' = [run EXCEPT !.state = "running",
                                  !.step = IF target = task[t].seen.step THEN @ ELSE target],
               task' = [task EXCEPT ![t].seen = [state |-> "running", step |-> target],
                                    ![t].pc = "check"]
        PROVE  Moved(t) /\ run'.state = "running"
               /\ task'[t].pc = "check" /\ task'[t].seen.state = "running"
    BY <1>1, <1>3 DEF Moved, TaskRecord
  <1>4. QED
    BY <1>2, <1>3 DEF ApplyDecision

LEMMA CheckSays ==
    ASSUME TypeOK, NEW t \in Tasks, Check(t)
    PROVE  /\ Moved(t) /\ UNCHANGED <<queue, proc>> /\ task[t].pc = "check"
           /\ \/ /\ task[t].event \/ run.state = "cancelled"
                 /\ run'.state = "cancelled" /\ task'[t].pc = "finish"
              \/ /\ UNCHANGED run /\ task'[t].pc \in {"complete", "step"}
                 /\ task'[t].seen = task[t].seen
  BY WriteSays, GotoSays DEF Check

LEMMA CompleteSays ==
    ASSUME TypeOK, NEW t \in Tasks, Complete(t)
    PROVE  /\ Moved(t) /\ UNCHANGED <<queue, proc>> /\ task[t].pc = "complete"
           /\ run'.state = "completed" /\ task'[t].pc = "finish"
  BY WriteSays DEF Complete

LEMMA StepEndsSays ==
    ASSUME TypeOK, NEW t \in Tasks, StepEnds(t)
    PROVE  /\ Moved(t) /\ UNCHANGED <<queue, proc>> /\ task[t].pc = "step"
           /\ \/ /\ task[t].event \/ run.state = "cancelled"
                 /\ run'.state = "cancelled" /\ task'[t].pc = "finish"
              \/ /\ UNCHANGED run /\ task'[t].pc = "settle"
                 /\ task'[t].seen = task[t].seen
  BY WriteSays, GotoSays DEF StepEnds

LEMMA SettleSays ==
    ASSUME TypeOK, NEW t \in Tasks, Settle(t)
    PROVE  /\ Moved(t) /\ UNCHANGED <<queue, proc>> /\ task[t].pc = "settle"
           /\ \/ run'.state \in {"failed", "paused"} /\ task'[t].pc = "finish"
              \/ /\ run'.state = run.state
                 /\ task'[t].pc = "check" /\ task'[t].seen.state = task[t].seen.state
  <1>1. task \in [Tasks -> TaskRecord] /\ task[t] \in TaskRecord
        /\ run \in [state: RunStates, step: 1..DONE, gate: Nat]
    BY DEF TypeOK
  <1>2. CASE WriteState(t, "failed", "finish")
    BY <1>2, WriteSays DEF Settle
  <1>3. CASE /\ run' = [run EXCEPT !.state = "paused", !.gate = @ + 1]
             /\ task' = [task EXCEPT ![t].seen.state = "paused", ![t].pc = "finish"]
    BY <1>1, <1>3 DEF Settle, Moved, TaskRecord
  <1>4. ASSUME NEW next, run' = [run EXCEPT !.step = next],
               task' = [task EXCEPT ![t].seen.step = next, ![t].pc = "check"]
        PROVE  /\ Moved(t) /\ run'.state = run.state
               /\ task'[t].pc = "check" /\ task'[t].seen.state = task[t].seen.state
    BY <1>1, <1>4 DEF Moved, TaskRecord
  <1>5. QED
    BY <1>2, <1>3, <1>4 DEF Settle

\* Task t is gone; the others keep all but what they wait for.
Gone(t) == /\ task'[t] = Idle
           /\ \A u \in Tasks : u # t =>
                /\ task'[u].pc = task[u].pc /\ task'[u].proc = task[u].proc
                /\ task'[u].item = task[u].item
                /\ task'[u].seen = task[u].seen /\ task'[u].event = task[u].event

LEMMA ReturnSays ==
    ASSUME TypeOK, NEW t \in Tasks, Return(t) PROVE Gone(t)
  <1>1. task \in [Tasks -> TaskRecord] /\ \A u \in Tasks : task[u] \in TaskRecord
    BY DEF TypeOK
  <1>2. QED
    BY <1>1 DEF Return, Gone, TaskRecord

LEMMA VoidSays ==
    ASSUME TypeOK, NEW t \in Tasks, Void(t)
    PROVE  /\ task[t].pc = "void" /\ task'[t].pc \in {"read", "await"}
           /\ UNCHANGED <<run, proc>>
           /\ queue' = MarkDone(queue, {i \in Items : queue[i].state = "pending"})
           /\ \A u \in Tasks : /\ u # t => task'[u].pc = task[u].pc
                               /\ task'[u].seen = task[u].seen /\ task'[u].item = task[u].item
                               /\ task'[u].proc = task[u].proc
  <1>1. task \in [Tasks -> TaskRecord] /\ \A u \in Tasks : task[u] \in TaskRecord
    BY DEF TypeOK
  <1>2. QED
    BY <1>1 DEF Void, TaskRecord

LEMMA AwaitSays ==
    ASSUME TypeOK, NEW t \in Tasks, Await(t)
    PROVE  /\ Moved(t) /\ UNCHANGED <<run, queue, proc>>
           /\ task[t].pc = "await" /\ task'[t].pc = "read"
  <1>1. task \in [Tasks -> TaskRecord] /\ task[t] \in TaskRecord
    BY DEF TypeOK
  <1>2. QED
    BY <1>1 DEF Await, Moved, TaskRecord

LEMMA ReadRunSays ==
    ASSUME TypeOK, NEW t \in Tasks, ReadRun(t)
    PROVE  /\ Moved(t) /\ UNCHANGED <<run, queue, proc>> /\ task[t].pc = "read"
           /\ task'[t].pc = IF run.state \in TerminalStates THEN "close" ELSE "write"
  <1>1. task \in [Tasks -> TaskRecord] /\ task[t] \in TaskRecord
    BY DEF TypeOK
  <1>2. QED
    BY <1>1 DEF ReadRun, Moved, TaskRecord

LEMMA WriteCancelledSays ==
    ASSUME TypeOK, NEW t \in Tasks, WriteCancelled(t)
    PROVE  /\ Moved(t) /\ UNCHANGED <<queue, proc>> /\ task[t].pc = "write"
           /\ run'.state = "cancelled" /\ task'[t].pc = "close"
  BY WriteSays DEF WriteCancelled

LEMMA DispatchFailsSays ==
    ASSUME TypeOK, NEW t \in Tasks, DispatchFails(t)
    PROVE  /\ Gone(t) /\ UNCHANGED proc /\ run'.state = "failed"
           /\ task[t].pc \in DrivePcs \ {"load", "finish"}
           /\ queue' = MarkDone(queue, {task[t].item})
  BY ReturnSays DEF DispatchFails, TypeOK

\* An idle slot takes up a token, without an event, outside the lock.
LEMMA PollSays ==
    ASSUME TypeOK, NEW p \in Procs, Poll(p)
    PROVE  /\ UNCHANGED <<run, proc>> /\ proc[p] = "up"
           /\ \/ UNCHANGED task
              \/ \E t \in Tasks : /\ task[t].pc = "idle"
                                  /\ \A u \in Tasks : u # t => task'[u] = task[u]
                                  /\ task'[t].pc \in {"void", "lock"} /\ ~task'[t].event
  <1>1. task \in [Tasks -> TaskRecord]
    BY DEF TypeOK
  <1>2. ASSUME NEW i, NEW t \in Tasks, NEW pc \in {"void", "lock"}, task[t].pc = "idle",
               task' = [task EXCEPT ![t] = [Idle EXCEPT !.pc = pc, !.proc = p, !.item = i]]
        PROVE  \E v \in Tasks : /\ task[v].pc = "idle"
                                /\ \A u \in Tasks : u # v => task'[u] = task[u]
                                /\ task'[v].pc \in {"void", "lock"} /\ ~task'[v].event
    BY <1>1, <1>2 DEF Idle
  <1>3. QED
    BY <1>2 DEF Poll, IsFreeSlot

\* The lock is taken, or given back at once because the claim is gone.
LEMMA AcquireSays ==
    ASSUME TypeOK, NEW t \in Tasks, Acquire(t)
    PROVE  /\ task[t].pc = "lock" /\ holder[task[t].proc] = NoTask /\ UNCHANGED <<run, proc>>
           /\ \/ Moved(t) /\ task'[t].pc = "load" /\ task'[t].seen = task[t].seen
              \/ /\ Gone(t)
                 /\ ~(queue[task[t].item].state = "claimed"
                        /\ queue[task[t].item].owner = task[t].proc)
  BY GotoSays, ReturnSays DEF Acquire

LEMMA FinishSays ==
    ASSUME TypeOK, NEW t \in Tasks, Finish(t)
    PROVE  /\ Gone(t) /\ UNCHANGED <<run, proc>> /\ task[t].pc \in {"finish", "close"}
           /\ queue' = MarkDone(queue, {task[t].item})
  BY ReturnSays DEF Finish

\* With one engine, death is the end of every task.
LEMMA DieSays ==
    ASSUME TokenInv, NEW p \in Procs, Die(p)
    PROVE  /\ \A t \in Tasks : task'[t].pc = "idle" /\ task'[t] \in {task[t], Idle}
           /\ \A q \in Procs : proc'[q] # "up"
           /\ UNCHANGED run
  <1>1. ASSUME NEW t \in Tasks, task[t].proc # p PROVE task[t].pc = "idle"
    BY <1>1 DEF TokenInv, LockInv, TasksOwned, OneUp, Die
  <1>2. \A t \in Tasks : task'[t] = IF task[t].proc = p THEN Idle ELSE task[t]
    BY DEF Die
  <1>3. \A t \in Tasks : task'[t].pc = "idle" /\ task'[t] \in {task[t], Idle}
    BY <1>1, <1>2 DEF Idle
  <1>4. \A q \in Procs : proc'[q] # "up"
    BY DEF Die, TokenInv, LockInv, TypeOK, OneUp
  <1>5. QED
    BY <1>3, <1>4 DEF Die

-----------------------------------------------------------------------------
\* Stops: who knows of one, and that nothing makes one up.

\* Rows that were never used are not stops.
NoStopYet == \A i \in Items : queue[i].state = "absent" => queue[i].kind # "cancel"

\* A step that keeps the kind of every row.
LEMMA KindsKept ==
    ASSUME NoStopYet,
           \A i \in Items : /\ queue'[i].kind = queue[i].kind
                            /\ queue[i].state # "absent" => queue'[i].state # "absent"
    PROVE  KeepsKinds /\ NoStopYet' /\ (StopAsked' => StopAsked)
  BY DEF KeepsKinds, NoStopYet, StopAsked

\* A step that also writes a row that was not there.
LEMMA RowAdded ==
    ASSUME TypeOK, NoStopYet, NEW i \in Items, NEW r, NEW q \in [Items -> ItemRecord],
           queue[i].state = "absent", r.state = "pending", queue' = [q EXCEPT ![i] = r],
           \A j \in Items : /\ q[j].kind = queue[j].kind
                            /\ q[j].state = "absent" <=> queue[j].state = "absent"
    PROVE  KeepsKinds /\ NoStopYet' /\ (r.kind # "cancel" => (StopAsked' => StopAsked))
  <1>1. queue'[i] = r /\ \A j \in Items : j # i => queue'[j] = q[j]
    OBVIOUS
  <1>2. KeepsKinds
    BY <1>1 DEF KeepsKinds
  <1>3. NoStopYet'
    BY <1>1 DEF NoStopYet
  <1>4. r.kind # "cancel" => (StopAsked' => StopAsked)
    BY <1>1 DEF StopAsked
  <1>5. QED
    BY <1>2, <1>3, <1>4

LEMMA StopRows ==
    TokenInv /\ NoStopYet /\ [Next]_vars =>
        /\ KeepsKinds /\ NoStopYet'
        /\ StopAsked' => StopAsked \/ UNCHANGED <<run, task, proc>>
  <1> SUFFICES ASSUME TokenInv, NoStopYet, [Next]_vars
               PROVE  /\ KeepsKinds /\ NoStopYet'
                      /\ StopAsked' => StopAsked \/ UNCHANGED <<run, task, proc>>
    OBVIOUS
  <1>0. TypeOK /\ queue \in [Items -> ItemRecord] /\ \A t \in Tasks : task[t].item \in Items
    BY DEF TokenInv, LockInv, TypeOK, TaskRecord
  <1>1. CASE Platform
    <2>1. PICK i \in Items, r \in {Row("approve", 1), Row("cancel", 1)}
                                    \cup {Row("send_back", s) : s \in Steps} :
                IsNextRow(i) /\ queue' = [queue EXCEPT ![i] = r]
      BY <1>1 DEF Platform, SubmitDecision, RequestCancel
    <2>2. queue[i].state = "absent" /\ r.state = "pending"
      BY <2>1 DEF IsNextRow, Row
    <2>3. KeepsKinds /\ NoStopYet'
      BY <1>0, <2>1, <2>2, RowAdded
    <2>4. UNCHANGED <<run, task, proc>>
      BY <1>1 DEF Platform, SubmitDecision, RequestCancel
    <2>5. QED
      BY <2>3, <2>4
  <1>2. ASSUME NEW p \in Procs, Boot(p)
        PROVE  KeepsKinds /\ NoStopYet' /\ (StopAsked' => StopAsked)
    <2> DEFINE q == Demote(queue, StaleClaims(queue))
    <2>1. StaleClaims(queue) \in SUBSET Claimed(queue)
      BY DEF StaleClaims
    <2>2. /\ q \in [Items -> ItemRecord]
          /\ \A j \in Items : /\ q[j].kind = queue[j].kind
                              /\ q[j].state = "absent" <=> queue[j].state = "absent"
      BY <1>0, <2>1, DemoteType, DemoteKeeps
    <2>3. CASE queue' = q
      BY <2>2, <2>3, KindsKept
    <2>4. ASSUME NEW i \in Items, IsNextRow(i), queue' = [q EXCEPT ![i] = Row("resume", 1)]
          PROVE  KeepsKinds /\ NoStopYet' /\ (StopAsked' => StopAsked)
      <3>1. /\ queue[i].state = "absent" /\ Row("resume", 1).state = "pending"
            /\ Row("resume", 1).kind = "resume"
        BY <2>4 DEF IsNextRow, Row
      <3> HIDE DEF q
      <3>2. QED
        BY <1>0, <2>2, <2>4, <3>1, RowAdded
    <2>5. QED
      BY <1>2, <2>3, <2>4 DEF Boot
  <1>3. ASSUME NEW p \in Procs, Poll(p)
        PROVE  KeepsKinds /\ NoStopYet' /\ (StopAsked' => StopAsked)
    <2> DEFINE q == Demote(queue, StaleClaims(queue))
    <2>1. StaleClaims(queue) \in SUBSET Claimed(queue)
      BY DEF StaleClaims
    <2>2. /\ q \in [Items -> ItemRecord]
          /\ \A j \in Items : /\ q[j].kind = queue[j].kind
                              /\ q[j].state = "absent" <=> queue[j].state = "absent"
      BY <1>0, <2>1, DemoteType, DemoteKeeps
    <2>3. CASE queue' = q
      BY <2>2, <2>3, KindsKept
    <2>4. ASSUME NEW i \in Items,
                 queue' = [q EXCEPT ![i].state = "claimed", ![i].owner = p, ![i].stale = FALSE]
          PROVE  KeepsKinds /\ NoStopYet' /\ (StopAsked' => StopAsked)
      <3> HIDE DEF q
      <3>1. q[i] \in ItemRecord
        BY <2>2
      <3>2. \A j \in Items : j # i => queue'[j] = q[j]
        BY <2>2, <2>4
      <3>3. queue'[i].kind = q[i].kind /\ queue'[i].state = "claimed"
        BY <2>2, <2>4, <3>1 DEF ItemRecord
      <3>4. QED
        BY <2>2, <3>2, <3>3, KindsKept
    <2>5. QED
      BY <1>3, <2>3, <2>4 DEF Poll
  <1>4. ASSUME NEW i \in Items, Expire(i)
        PROVE  KeepsKinds /\ NoStopYet' /\ (StopAsked' => StopAsked)
    <2>1. \A j \in Items : queue'[j].kind = queue[j].kind /\ queue'[j].state = queue[j].state
      BY <1>0, <1>4 DEF Expire, ItemRecord
    <2>2. QED
      BY <2>1, KindsKept
  <1>5. ASSUME NEW p \in Procs, Heartbeat(p)
        PROVE  KeepsKinds /\ NoStopYet' /\ (StopAsked' => StopAsked)
    <2>1. \A j \in Items : queue'[j].kind = queue[j].kind /\ queue'[j].state = queue[j].state
      BY <1>0, <1>5 DEF Heartbeat, ItemRecord
    <2>2. QED
      BY <2>1, KindsKept
  \* Rows are only demoted or closed.
  <1>6. ASSUME NEW S, queue' = MarkDone(queue, S)
        PROVE  KeepsKinds /\ NoStopYet' /\ (StopAsked' => StopAsked)
    BY <1>0, <1>6, MarkDoneKeeps, KindsKept
  <1>7. ASSUME UNCHANGED queue
        PROVE  KeepsKinds /\ NoStopYet' /\ (StopAsked' => StopAsked)
    BY <1>7, KindsKept
  <1>8. ASSUME NEW t \in Tasks, Acquire(t)
        PROVE  KeepsKinds /\ NoStopYet' /\ (StopAsked' => StopAsked)
    <2> DEFINE i == task[t].item
               S == Claimed(queue) \ {i}
               q == Demote(queue, S)
    <2>1. S \in SUBSET Claimed(queue) /\ i \in Items
      BY <1>0
    <2>2. /\ q \in [Items -> ItemRecord]
          /\ \A j \in Items : /\ q[j].kind = queue[j].kind
                              /\ q[j].state = "absent" <=> queue[j].state = "absent"
      BY <1>0, <2>1, DemoteType, DemoteKeeps
    <2>3. queue' = q \/ queue' = [q EXCEPT ![i].stale = FALSE]
      BY <1>8 DEF Acquire
    <2>4. \A j \in Items : queue'[j].kind = q[j].kind /\ queue'[j].state = q[j].state
      <3> HIDE DEF q, i
      <3>1. \A j \in Items : q[j] \in ItemRecord
        BY <2>2
      <3>2. QED
        BY <2>1, <2>2, <2>3, <3>1 DEF ItemRecord
    <2>5. QED
      <3> HIDE DEF q
      <3> QED
        BY <2>2, <2>4, KindsKept
  <1>9. ASSUME NEW p \in Procs, Crash(p) \/ Shutdown(p)
        PROVE  KeepsKinds /\ NoStopYet' /\ (StopAsked' => StopAsked)
    BY <1>6, <1>7, <1>9 DEF Crash, Shutdown
  <1>10. ASSUME NEW t \in Tasks, (Dispatch(t) /\ ~Acquire(t)) \/ DispatchFails(t) \/ CancelHandler(t)
         PROVE  KeepsKinds /\ NoStopYet' /\ (StopAsked' => StopAsked)
    BY <1>6, <1>7, <1>10 DEF Dispatch, CancelHandler, DispatchFails, Load, InitRun, ApplyDecision,
       Check, Complete, StepEnds, Settle, Finish, Void, Await, ReadRun, WriteCancelled
  <1>11. CASE UNCHANGED vars
    BY <1>7, <1>11 DEF vars
  <1>12. QED
    BY <1>1, <1>2, <1>3, <1>4, <1>5, <1>8, <1>9, <1>10, <1>11 DEF Next, Environment

\* Whoever works on a stop request, was signalled, or finds the run stopped: somebody asked.
EventAsked  == \A t \in Tasks : task[t].event => StopAsked
CancelAsked == run.state = "cancelled" => StopAsked

\* The driver's copy of the run is the row, unless the stop was written over it, and
\* it is the state its place in the code takes for granted.
CopyFits(t) ==
    /\ run.state \in {task[t].seen.state, "cancelled"}
    /\ task[t].pc = "init" => task[t].seen.state \in {"pending", "running", "paused"}
    /\ task[t].pc = "decide" => task[t].seen.state = "paused"
    /\ task[t].pc \in {"check", "complete", "step", "settle"} => task[t].seen.state = "running"
CopyTrue == \A t \in Tasks : t \in Drivers => CopyFits(t)

LifeInv == TokenInv /\ NoStopYet /\ EventAsked /\ CancelAsked /\ CopyTrue

LEMMA HandlerAsked ==
    ASSUME TokenInv, NEW t \in Tasks, task[t].pc \in CancelPcs
    PROVE  StopAsked
  <1>1. task[t].item \in Items /\ task[t].pc # "idle"
    BY DEF TokenInv, LockInv, TypeOK, TaskRecord, CancelPcs
  <1>2. QED
    BY <1>1 DEF TokenInv, KindFits, StopAsked

\* No driver but t.
LEMMA OnlyDriver ==
    ASSUME TokenInv, NEW t \in Tasks, Driving(t), NEW u \in Tasks, u # t
    PROVE  u \notin Drivers
  BY SoleDriver DEF TokenInv, Drivers, Driving

\* What a step may do about stops and copies; LifeInv' follows from it.
LifeStep ==
    /\ \A u \in Tasks : task'[u].event => StopAsked
    /\ run'.state = "cancelled" => StopAsked
    /\ CopyTrue'

\* The driver t moves; only its own copy is in question.
LEMMA DriverLife ==
    ASSUME LifeInv, NEW t \in Tasks, Driving(t), Moved(t), run'.state = "cancelled" => StopAsked,
           task'[t].pc \in DrivePcs \ {"load", "finish"} => CopyFits(t)'
    PROVE  LifeStep
  <1>1. \A u \in Tasks : u # t => u \notin Drivers
    BY OnlyDriver DEF LifeInv
  <1>2. \A u \in Tasks : u \in Drivers' => u = t
    BY <1>1 DEF Moved, Drivers
  <1>3. CopyTrue'
    BY <1>2 DEF CopyTrue, Drivers
  <1>4. QED
    BY <1>3 DEF LifeStep, LifeInv, EventAsked, Moved

\* The run is left alone or stopped, and who drives it after the step drove it before.
LEMMA OtherLife ==
    ASSUME LifeInv, run'.state \in {run.state, "cancelled"}, run'.state = "cancelled" => StopAsked,
           \A u \in Tasks : task'[u].event => StopAsked,
           \A u \in Tasks : task'[u].pc \in DrivePcs \ {"load", "finish"} =>
               task'[u].pc = task[u].pc /\ task'[u].seen = task[u].seen
    PROVE  LifeStep
  <1>1. ASSUME NEW u \in Tasks, u \in Drivers' PROVE CopyFits(u)'
    <2>1. task'[u].pc = task[u].pc /\ task'[u].seen = task[u].seen /\ u \in Drivers
      BY <1>1 DEF Drivers
    <2>2. CopyFits(u)
      BY <2>1 DEF LifeInv, CopyTrue
    <2>3. QED
      BY <2>1, <2>2 DEF CopyFits
  <1>2. QED
    BY <1>1 DEF LifeStep, CopyTrue

LEMMA DispatchLife ==
    ASSUME LifeInv, NEW t \in Tasks, Dispatch(t) \/ DispatchFails(t) PROVE LifeStep
  <1>0. /\ TypeOK /\ (run.state = "cancelled" => StopAsked) /\ (task[t].event => StopAsked)
        /\ \A u \in Tasks : task[u].event => StopAsked
        /\ ~Idle.event /\ Idle.pc = "idle"
    BY DEF LifeInv, TokenInv, LockInv, CancelAsked, EventAsked, Idle
  <1>1. CASE Acquire(t)
    <2>1. /\ UNCHANGED run /\ task[t].pc = "lock"
          /\ (Moved(t) /\ task'[t].pc = "load") \/ Gone(t)
      BY <1>0, <1>1, AcquireSays
    <2>2. QED
      BY <1>0, <2>1, OtherLife DEF Moved, Gone, DrivePcs
  <1>2. CASE Finish(t)
    <2>1. UNCHANGED run /\ Gone(t)
      BY <1>0, <1>2, FinishSays
    <2>2. QED
      BY <1>0, <2>1, OtherLife DEF Gone, DrivePcs
  <1>3. CASE DispatchFails(t)
    <2>1. run'.state = "failed" /\ Gone(t) /\ Driving(t)
      BY <1>0, <1>3, DispatchFailsSays DEF Driving
    <2>2. \A u \in Tasks : u \notin Drivers'
      BY <1>0, <2>1, OnlyDriver DEF Gone, Drivers, LifeInv, DrivePcs
    <2>3. \A u \in Tasks : task'[u].event => StopAsked
      BY <1>0, <2>1 DEF Gone
    <2>4. QED
      BY <2>1, <2>2, <2>3 DEF LifeStep, CopyTrue
  <1>4. CASE Load(t)
    BY <1>0, <1>4, LoadSays, DriverLife DEF Driving, DrivePcs, CopyFits, TerminalStates, TypeOK, RunStates
  <1>5. ASSUME task[t].pc \in DrivePcs \ {"load", "finish"}
        PROVE  CopyFits(t) /\ Driving(t)
    BY <1>5 DEF LifeInv, CopyTrue, Drivers, Driving
  <1>6. CASE InitRun(t)
    <2>1. CopyFits(t) /\ Driving(t) /\ task[t].pc = "init"
      BY <1>0, <1>5, <1>6, InitRunSays DEF DrivePcs
    <2>2. QED
      BY <1>0, <1>6, <2>1, InitRunSays, DriverLife DEF CopyFits, DrivePcs
  <1>7. CASE ApplyDecision(t)
    <2>1. Driving(t)
      BY <1>0, <1>7, ApplyDecisionSays DEF Driving, DrivePcs
    <2>2. QED
      BY <1>0, <1>7, <2>1, ApplyDecisionSays, DriverLife DEF CopyFits, DrivePcs
  <1>8. CASE Check(t)
    <2>1. CopyFits(t) /\ Driving(t) /\ task[t].pc = "check"
      BY <1>0, <1>5, <1>8, CheckSays DEF DrivePcs
    <2>2. QED
      BY <1>0, <1>8, <2>1, CheckSays, DriverLife DEF CopyFits, DrivePcs
  <1>9. CASE Complete(t)
    <2>1. Driving(t)
      BY <1>0, <1>9, CompleteSays DEF Driving, DrivePcs
    <2>2. QED
      BY <1>0, <1>9, <2>1, CompleteSays, DriverLife
  <1>10. CASE StepEnds(t)
    <2>1. CopyFits(t) /\ Driving(t) /\ task[t].pc = "step"
      BY <1>0, <1>5, <1>10, StepEndsSays DEF DrivePcs
    <2>2. QED
      BY <1>0, <1>10, <2>1, StepEndsSays, DriverLife DEF CopyFits, DrivePcs
  <1>11. CASE Settle(t)
    <2>1. CopyFits(t) /\ Driving(t) /\ task[t].pc = "settle"
      BY <1>0, <1>5, <1>11, SettleSays DEF DrivePcs
    <2>2. QED
      BY <1>0, <1>11, <2>1, SettleSays, DriverLife DEF CopyFits, DrivePcs
  <1>12. QED
    BY <1>1, <1>2, <1>3, <1>4, <1>6, <1>7, <1>8, <1>9, <1>10, <1>11 DEF Dispatch

LEMMA CancelLife ==
    ASSUME LifeInv, NEW t \in Tasks, CancelHandler(t) PROVE LifeStep
  <1>0. /\ TypeOK /\ \A u \in Tasks : task[u].event => StopAsked
    BY DEF LifeInv, TokenInv, LockInv, EventAsked
  <1>1. StopAsked
    BY HandlerAsked DEF LifeInv, CancelHandler, Void, Await, ReadRun, WriteCancelled, CancelPcs
  <1>2. CASE Void(t)
    BY <1>0, <1>1, <1>2, VoidSays, OtherLife DEF DrivePcs
  <1>3. CASE Await(t)
    BY <1>0, <1>1, <1>3, AwaitSays, OtherLife DEF Moved, DrivePcs
  <1>4. CASE ReadRun(t)
    BY <1>0, <1>1, <1>4, ReadRunSays, OtherLife DEF Moved, DrivePcs
  <1>5. CASE WriteCancelled(t)
    BY <1>0, <1>1, <1>5, WriteCancelledSays, OtherLife DEF Moved, DrivePcs
  <1>6. QED
    BY <1>2, <1>3, <1>4, <1>5 DEF CancelHandler

LEMMA NextLife == OneEngine /\ LifeInv /\ [Next]_vars => LifeInv'
  <1> SUFFICES ASSUME OneEngine, LifeInv, [Next]_vars PROVE LifeInv'
    OBVIOUS
  <1>0. /\ TypeOK /\ (run.state = "cancelled" => StopAsked)
        /\ \A u \in Tasks : task[u].event => StopAsked
        /\ ~Idle.event /\ Idle.pc = "idle"
    BY DEF LifeInv, TokenInv, LockInv, CancelAsked, EventAsked, Idle
  <1>1. TokenInv' /\ NoStopYet' /\ (StopAsked => StopAsked')
    BY NextToken, StopRows DEF LifeInv, KeepsKinds, StopAsked
  <1>2. LifeStep
    <2>1. CASE UNCHANGED <<run, task>>
      BY <1>0, <2>1, OtherLife
    <2>2. CASE Platform \/ (\E p \in Procs : Boot(p) \/ Heartbeat(p)) \/ (\E i \in Items : Expire(i))
               \/ UNCHANGED vars
      BY <2>1, <2>2 DEF Platform, SubmitDecision, RequestCancel, Boot, Heartbeat, Expire, vars
    <2>3. ASSUME NEW p \in Procs, Poll(p) PROVE LifeStep
      <3>1. UNCHANGED run
        BY <1>0, <2>3, PollSays
      <3>2. ASSUME NEW t \in Tasks, \A u \in Tasks : u # t => task'[u] = task[u],
                   task'[t].pc \in {"void", "lock"}, ~task'[t].event
            PROVE  LifeStep
        BY <1>0, <3>1, <3>2, OtherLife DEF DrivePcs
      <3>3. QED
        BY <1>0, <2>1, <2>3, <3>1, <3>2, PollSays
    <2>4. ASSUME NEW p \in Procs, Die(p) PROVE LifeStep
      <3>1. /\ \A t \in Tasks : task'[t].pc = "idle" /\ (task'[t].event => task[t].event)
            /\ UNCHANGED run
        BY <1>0, <2>4, DieSays DEF LifeInv
      <3>2. QED
        BY <1>0, <3>1, OtherLife DEF DrivePcs
    <2>5. QED
      BY <2>2, <2>3, <2>4, DispatchLife, CancelLife DEF Next, Environment, Crash, Shutdown
  <1>3. QED
    BY <1>1, <1>2 DEF LifeInv, LifeStep, EventAsked, CancelAsked

LEMMA InitLife == Init => LifeInv
  <1> SUFFICES ASSUME Init PROVE LifeInv
    OBVIOUS
  <1>1. NoStopYet /\ EventAsked /\ CancelAsked /\ CopyTrue
    BY DEF Init, NoStopYet, EventAsked, CancelAsked, CopyTrue, Drivers, Idle, DrivePcs
  <1>2. QED
    BY <1>1, InitToken DEF LifeInv

-----------------------------------------------------------------------------
\* The refinement of RunLifecycle.

\* The mapping's driver is the one member of Drivers, if there is one.
LEMMA TheDriver ==
    ASSUME NEW S \in SUBSET Tasks, NEW t \in Tasks, S \subseteq {t}
    PROVE  (IF S = {} THEN NoTask ELSE CHOOSE u \in S : TRUE) = IF t \in S THEN t ELSE NoTask
  <1>1. CASE S = {}
    BY <1>1
  <1>2. CASE S = {t}
    <2>1. (CHOOSE u \in S : TRUE) \in S
      BY <1>2
    <2>2. QED
      BY <1>2, <2>1
  <1>3. QED
    BY <1>1, <1>2

LEMMA DriverSays ==
    ASSUME NEW t \in Tasks, Drivers \subseteq {t}, Drivers' \subseteq {t}
    PROVE  /\ Driver = IF t \in Drivers THEN t ELSE NoTask
           /\ Driver' = IF t \in Drivers' THEN t ELSE NoTask
  <1>1. Drivers \in SUBSET Tasks /\ Drivers' \in SUBSET Tasks
    BY DEF Drivers
  <1>2. Driver = IF t \in Drivers THEN t ELSE NoTask
    BY <1>1, TheDriver DEF Driver
  <1>3. Driver' = IF t \in Drivers' THEN t ELSE NoTask
    <2> DEFINE S == Drivers'
    <2>1. S \in SUBSET Tasks /\ S \subseteq {t}
      BY <1>1
    <2>2. Driver' = IF S = {} THEN NoTask ELSE CHOOSE u \in S : TRUE
      BY DEF Driver
    <2> HIDE DEF S
    <2>3. Driver' = IF t \in S THEN t ELSE NoTask
      BY <2>1, <2>2, TheDriver
    <2>4. QED
      BY <2>3 DEF S
  <1>4. QED
    BY <1>2, <1>3

\* The driver, or the task that becomes it, takes, moves or lets go of the run.
LEMMA DriveStep ==
    ASSUME NEW t \in Tasks, Drivers \subseteq {t}, Drivers' \subseteq {t},
           StopAsked' = StopAsked,
           t \notin Drivers => run.state \notin TerminalStates,
           <<run.state, run'.state>> \in Lifecycle!Moves \/ run'.state = run.state,
           run'.state = "cancelled" => StopAsked \/ run.state = "cancelled"
    PROVE  Lifecycle!Drive
  <1>1. NoTask \notin Tasks
    BY Bounds
  <1>2. QED
    BY <1>1, DriverSays DEF Lifecycle!Drive, Lifecycle!Finished, TerminalStates

\* The same tasks drive after the step.
LEMMA SameDriver == Drivers' = Drivers => Driver' = Driver
  BY DEF Driver

LEMMA RefineDispatch ==
    ASSUME LifeInv, NEW t \in Tasks, Dispatch(t) \/ DispatchFails(t), StopAsked' = StopAsked
    PROVE  Lifecycle!Next \/ UNCHANGED Lifecycle!vars
  <1>0. /\ TypeOK /\ (run.state = "cancelled" => StopAsked) /\ (task[t].event => StopAsked)
        /\ Idle.pc = "idle"
    BY DEF LifeInv, TokenInv, LockInv, CancelAsked, EventAsked, Idle
  \* Only the queue and the lock are concerned.
  <1>1. ASSUME UNCHANGED run, t \notin Drivers, task'[t].pc \notin DrivePcs \ {"load", "finish"},
               \A u \in Tasks : u # t => task'[u].pc = task[u].pc
        PROVE  UNCHANGED Lifecycle!vars
    <2>1. Drivers' = Drivers
      BY <1>1 DEF Drivers
    <2>2. QED
      BY <1>1, <2>1, SameDriver DEF Lifecycle!vars
  <1>2. ASSUME Driving(t), \A u \in Tasks : u # t => task'[u].pc = task[u].pc
        PROVE  Drivers \subseteq {t} /\ Drivers' \subseteq {t}
    <2>1. \A u \in Tasks : u # t => u \notin Drivers
      BY <1>2, OnlyDriver DEF LifeInv
    <2>2. QED
      BY <1>2, <2>1 DEF Drivers
  <1>3. CASE Acquire(t)
    <2>1. /\ UNCHANGED run /\ task[t].pc = "lock"
          /\ (Moved(t) /\ task'[t].pc = "load") \/ Gone(t)
      BY <1>0, <1>3, AcquireSays
    <2>2. QED
      BY <1>0, <1>1, <2>1 DEF Moved, Gone, Drivers, DrivePcs
  <1>4. CASE Finish(t)
    <2>1. UNCHANGED run /\ Gone(t) /\ task[t].pc \in {"finish", "close"}
      BY <1>0, <1>4, FinishSays
    <2>2. QED
      BY <1>0, <1>1, <2>1 DEF Gone, Drivers, DrivePcs
  <1>5. CASE Load(t)
    <2>1. /\ UNCHANGED run /\ Moved(t) /\ task[t].pc = "load"
          /\ task'[t].pc = IF run.state \in TerminalStates THEN "finish" ELSE "init"
      BY <1>0, <1>5, LoadSays
    <2>2. CASE run.state \in TerminalStates
      BY <1>1, <2>1, <2>2 DEF Moved, Drivers
    <2>3. CASE run.state \notin TerminalStates
      <3>1. Drivers \subseteq {t} /\ Drivers' \subseteq {t}
        BY <1>2, <2>1 DEF Moved, Driving, DrivePcs
      <3>2. Lifecycle!Drive
        BY <1>0, <2>1, <2>3, <3>1, DriveStep
      <3>3. QED
        BY <3>2 DEF Lifecycle!Next
    <2>4. QED
      BY <2>2, <2>3
  \* The driver writes the run.
  <1>6. ASSUME task[t].pc \in DrivePcs \ {"load", "finish"},
               \A u \in Tasks : u # t => task'[u].pc = task[u].pc,
               <<run.state, run'.state>> \in Lifecycle!Moves \/ run'.state = run.state,
               run'.state = "cancelled" => StopAsked \/ run.state = "cancelled"
        PROVE  Lifecycle!Next
    <2>1. Driving(t) /\ t \in Drivers
      BY <1>6 DEF Driving, Drivers
    <2>2. Lifecycle!Drive
      BY <1>2, <1>6, <2>1, DriveStep
    <2>3. QED
      BY <2>2 DEF Lifecycle!Next
  <1>7. ASSUME task[t].pc \in DrivePcs \ {"load", "finish"} PROVE CopyFits(t)
    BY <1>7 DEF LifeInv, CopyTrue, Drivers
  <1>8. CASE DispatchFails(t)
    <2>1. task[t].pc \in DrivePcs \ {"load", "finish"} /\ run'.state = "failed" /\ Gone(t)
      BY <1>0, <1>8, DispatchFailsSays
    <2>2. run.state \in {"pending", "running", "paused", "cancelled"}
      BY <1>7, <2>1 DEF CopyFits, DrivePcs
    <2>3. <<run.state, run'.state>> \in Lifecycle!Moves
      BY <2>1, <2>2 DEF Lifecycle!Moves
    <2>4. QED
      BY <1>6, <2>1, <2>3 DEF Gone
  <1>9. CASE InitRun(t)
    <2>1. CopyFits(t) /\ Moved(t) /\ task[t].pc = "init"
      BY <1>0, <1>7, <1>9, InitRunSays DEF DrivePcs
    <2>2. <<run.state, run'.state>> \in Lifecycle!Moves \/ run'.state = run.state
      BY <1>0, <1>9, <2>1, InitRunSays DEF CopyFits, Lifecycle!Moves
    <2>3. run'.state = "cancelled" => run.state = "cancelled"
      BY <1>0, <1>9, InitRunSays
    <2>4. QED
      BY <1>6, <2>1, <2>2, <2>3 DEF Moved, DrivePcs
  <1>10. CASE ApplyDecision(t)
    <2>1. CopyFits(t) /\ Moved(t) /\ task[t].pc = "decide" /\ run'.state \in {"running", "failed"}
      BY <1>0, <1>7, <1>10, ApplyDecisionSays DEF DrivePcs
    <2>2. <<run.state, run'.state>> \in Lifecycle!Moves
      BY <2>1 DEF CopyFits, Lifecycle!Moves
    <2>3. QED
      BY <1>6, <2>1, <2>2 DEF Moved, DrivePcs
  <1>11. CASE Check(t) \/ Complete(t) \/ StepEnds(t)
    <2>1. /\ CopyFits(t) /\ Moved(t) /\ task[t].pc \in {"check", "complete", "step"}
          /\ \/ run' = run
             \/ run'.state = "completed"
             \/ run'.state = "cancelled" /\ (task[t].event \/ run.state = "cancelled")
      BY <1>0, <1>7, <1>11, CheckSays, CompleteSays, StepEndsSays DEF DrivePcs
    <2>2. run.state \in {"running", "cancelled"}
      BY <2>1 DEF CopyFits
    <2>3. <<run.state, run'.state>> \in Lifecycle!Moves \/ run'.state = run.state
      BY <2>1, <2>2 DEF Lifecycle!Moves
    <2>4. QED
      BY <1>0, <1>6, <2>1, <2>3 DEF Moved, DrivePcs
  <1>12. CASE Settle(t)
    <2>1. /\ CopyFits(t) /\ Moved(t) /\ task[t].pc = "settle"
          /\ run'.state \in {run.state, "failed", "paused"}
      BY <1>0, <1>7, <1>12, SettleSays DEF DrivePcs
    <2>2. <<run.state, run'.state>> \in Lifecycle!Moves \/ run'.state = run.state
      BY <2>1 DEF CopyFits, Lifecycle!Moves
    <2>3. QED
      BY <1>6, <2>1, <2>2 DEF Moved, DrivePcs
  <1>13. QED
    BY <1>3, <1>4, <1>5, <1>8, <1>9, <1>10, <1>11, <1>12 DEF Dispatch

LEMMA RefineCancel ==
    ASSUME LifeInv, NEW t \in Tasks, CancelHandler(t), StopAsked' = StopAsked
    PROVE  Lifecycle!Next \/ UNCHANGED Lifecycle!vars
  <1>0. TypeOK
    BY DEF LifeInv, TokenInv, LockInv
  <1>1. task[t].pc \in CancelPcs /\ CancelPcs \cap DrivePcs = {}
    BY DEF CancelHandler, Void, Await, ReadRun, WriteCancelled, CancelPcs, DrivePcs
  <1>2. /\ \A u \in Tasks : u # t => task'[u].pc = task[u].pc
        /\ task'[t].pc \in CancelPcs
        /\ UNCHANGED run \/ run'.state = "cancelled"
    BY <1>0, VoidSays, AwaitSays, ReadRunSays, WriteCancelledSays
       DEF CancelHandler, Moved, CancelPcs
  <1>3. Drivers' = Drivers
    BY <1>1, <1>2 DEF Drivers
  <1>4. StopAsked
    BY <1>1, HandlerAsked DEF LifeInv
  <1>5. QED
    BY <1>2, <1>3, <1>4, SameDriver DEF Lifecycle!vars, Lifecycle!Next, Lifecycle!RecordStop

LEMMA RefineNext ==
    OneEngine /\ LifeInv /\ [Next]_vars => [Lifecycle!Next]_(Lifecycle!vars)
  <1> SUFFICES ASSUME OneEngine, LifeInv, [Next]_vars
               PROVE  Lifecycle!Next \/ UNCHANGED Lifecycle!vars
    OBVIOUS
  <1>0. TypeOK
    BY DEF LifeInv, TokenInv, LockInv
  <1>1. /\ StopAsked => StopAsked'
        /\ StopAsked' => StopAsked \/ UNCHANGED <<run, task>>
    BY StopRows DEF LifeInv, KeepsKinds, StopAsked
  <1>2. CASE UNCHANGED <<run, task>>
    <2>1. Driver' = Driver
      BY <1>2, SameDriver DEF Drivers
    <2>2. CASE StopAsked'
      BY <1>2, <2>1, <2>2 DEF Lifecycle!Next, Lifecycle!RequestStop
    <2>3. CASE ~StopAsked'
      <3>1. StopAsked' = StopAsked
        <4>1. StopAsked' \in BOOLEAN /\ StopAsked \in BOOLEAN
          BY DEF StopAsked
        <4>2. QED
          BY <1>1, <2>3, <4>1
      <3>2. QED
        BY <1>2, <2>1, <3>1 DEF Lifecycle!vars
    <2>4. QED
      BY <2>2, <2>3
  <1>3. CASE ~UNCHANGED <<run, task>>
    <2>1. StopAsked' = StopAsked
      <3>1. StopAsked' \in BOOLEAN /\ StopAsked \in BOOLEAN
        BY DEF StopAsked
      <3>2. QED
        BY <1>1, <1>3, <3>1
    <2>2. ASSUME NEW p \in Procs, Poll(p) PROVE UNCHANGED Lifecycle!vars
      <3>1. UNCHANGED run
        BY <1>0, <2>2, PollSays
      <3>2. PICK t \in Tasks : /\ task[t].pc = "idle" /\ task'[t].pc \in {"void", "lock"}
                               /\ \A u \in Tasks : u # t => task'[u] = task[u]
        BY <1>0, <1>3, <2>2, PollSays
      <3>3. Drivers' = Drivers
        BY <3>2 DEF Drivers, DrivePcs
      <3>4. QED
        BY <2>1, <3>1, <3>3, SameDriver DEF Lifecycle!vars
    <2>3. ASSUME NEW p \in Procs, Die(p) PROVE Lifecycle!Next \/ UNCHANGED Lifecycle!vars
      <3>1. Drivers' = {} /\ UNCHANGED run
        BY <2>3, DieSays DEF LifeInv, Drivers, DrivePcs
      <3>2. CASE Drivers = {}
        BY <2>1, <3>1, <3>2, SameDriver DEF Lifecycle!vars
      <3>3. ASSUME NEW t \in Drivers PROVE Lifecycle!Next
        <4>1. t \in Tasks /\ Driving(t)
          BY <3>3 DEF Drivers, Driving
        <4>2. Drivers \subseteq {t}
          BY <4>1, OnlyDriver DEF LifeInv, Drivers
        <4>3. Lifecycle!Drive
          BY <2>1, <3>1, <3>3, <4>1, <4>2, DriveStep
        <4>4. QED
          BY <4>3 DEF Lifecycle!Next
      <3>4. QED
        BY <3>2, <3>3
    <2>4. CASE Platform \/ (\E p \in Procs : Boot(p) \/ Heartbeat(p)) \/ (\E i \in Items : Expire(i))
               \/ UNCHANGED vars
      BY <1>3, <2>4 DEF Platform, SubmitDecision, RequestCancel, Boot, Heartbeat, Expire, vars
    <2>5. QED
      BY <2>1, <2>2, <2>3, <2>4, RefineDispatch, RefineCancel DEF Next, Environment, Crash, Shutdown
  <1>4. QED
    BY <1>2, <1>3

LEMMA RefineInit == Init => Lifecycle!Init
  <1> SUFFICES ASSUME Init PROVE Lifecycle!Init
    OBVIOUS
  <1>1. Drivers = {} /\ run.state = "pending"
    BY DEF Init, Drivers, Idle, DrivePcs
  <1>2. StopAsked = FALSE
    BY DEF Init, StopAsked
  <1>3. QED
    BY <1>1, <1>2 DEF Lifecycle!Init, Driver

\* With one engine at a time, queue, lock, recovery and cancel handler together
\* implement the abstract life of a run: a single driver at a time moves it, from an
\* unfinished state and along legal moves, and nothing but a stop that a user asked
\* for is ever written over the driver's head.
THEOREM QueueImplementsLifecycle == OneEngine => (Spec => ImplementsLifecycle)
  <1> SUFFICES ASSUME OneEngine PROVE Spec => ImplementsLifecycle
    OBVIOUS
  <1>1. Init => Lifecycle!Init
    BY RefineInit
  <1>2. LifeInv /\ [Next]_vars => LifeInv'
    BY NextLife
  <1>3. LifeInv /\ [Next]_vars => [Lifecycle!Next]_(Lifecycle!vars)
    BY RefineNext
  <1>4. QED
    BY <1>1, <1>2, <1>3, InitLife, PTL DEF Spec, ImplementsLifecycle, Lifecycle!Spec

-----------------------------------------------------------------------------
\* A running run is never forgotten.

\* A dispatch comes to its end only with the run out of "running".
EndsUnmoved == \A t \in Tasks : task[t].pc = "finish" => run.state # "running"

\* A cancel handler closes its item while the run is running only if a dispatch that
\* was overtaken by the stop is still at work.
CloseFits == \A t \in Tasks : task[t].pc = "close" /\ run.state = "running" => Drivers # {}

\* As long as nobody drives a running run, no token of its tasks was touched: the
\* first to take the lock will find its claim.
Claims(t) == LET i == task[t].item IN
    queue[i].state = "claimed" /\ queue[i].owner = task[t].proc /\ ~queue[i].stale
Untouched == run.state = "running" /\ (\A t \in Tasks : ~Driving(t)) =>
                 \A t \in Tasks : task[t].pc # "idle" => Claims(t)

Unforgotten == EndsUnmoved /\ CloseFits /\ Untouched /\ NotStranded
StrandInv   == LifeInv /\ Unforgotten

\* A run that is not running is nobody's concern here.
LEMMA RestStrand ==
    ASSUME run'.state # "running" PROVE Unforgotten'
  BY DEF Unforgotten, EndsUnmoved, CloseFits, Untouched, NotStranded

\* The driver moves and keeps the run, or leaves it not running.
LEMMA DriverStrand ==
    ASSUME StrandInv, NEW t \in Tasks, Driving(t), Moved(t),
           run'.state = "running" => task'[t].pc \in DrivePcs \ {"load", "finish"}
    PROVE  Unforgotten'
  <1>1. CASE run'.state # "running"
    BY <1>1, RestStrand
  <1>2. CASE run'.state = "running"
    <2>1. t \in Drivers' /\ Driving(t)'
      BY <1>2 DEF Drivers, Driving
    <2>2. EndsUnmoved'
      <3>1. ASSUME NEW u \in Tasks, task'[u].pc = "finish" PROVE FALSE
        <4>1. u # t /\ task[u].pc = "finish"
          BY <1>2, <3>1 DEF Moved
        <4>2. Driving(u)
          BY <4>1 DEF Driving, DrivePcs
        <4>3. QED
          BY <4>1, <4>2, SoleDriver DEF StrandInv, LifeInv, TokenInv
      <3>2. QED
        BY <3>1 DEF EndsUnmoved
    <2>3. CloseFits' /\ Untouched' /\ NotStranded'
      BY <2>1 DEF CloseFits, Untouched, NotStranded
    <2>4. QED
      BY <2>2, <2>3 DEF Unforgotten
  <1>3. QED
    BY <1>1, <1>2

\* Nobody moves but the queue; what is claimed by the living, and what is live, stays so.
LEMMA RowsStrand ==
    ASSUME StrandInv, UNCHANGED <<run, proc, task>>,
           \A i \in Items : /\ Live(i) => Live(i)'
                            /\ queue[i].state = "claimed" /\ ~queue[i].stale
                                 /\ proc[queue[i].owner] = "up"
                               => /\ queue'[i].state = "claimed" /\ ~queue'[i].stale
                                  /\ queue'[i].owner = queue[i].owner
    PROVE  Unforgotten'
  <1>1. EndsUnmoved' /\ CloseFits'
    BY DEF StrandInv, Unforgotten, EndsUnmoved, CloseFits, Drivers
  <1>2. Untouched'
    <2>1. SUFFICES ASSUME run.state = "running", \A t \in Tasks : ~Driving(t),
                          NEW t \in Tasks, task[t].pc # "idle"
                   PROVE  Claims(t)'
      BY DEF Untouched, Driving
    <2>2. Claims(t) /\ proc[task[t].proc] = "up" /\ task[t].item \in Items
      BY <2>1 DEF StrandInv, Unforgotten, Untouched, LifeInv, TokenInv, OneUp, LockInv, TypeOK,
                  TaskRecord
    <2>3. QED
      BY <2>2 DEF Claims
  <1>3. NotStranded'
    BY DEF StrandInv, Unforgotten, NotStranded, Driving
  <1>4. QED
    BY <1>1, <1>2, <1>3 DEF Unforgotten

LEMMA PlatformStrand == ASSUME StrandInv, Platform PROVE Unforgotten'
  <1>1. PICK i \in Items, r \in {Row("approve", 1), Row("cancel", 1)}
                                  \cup {Row("send_back", s) : s \in Steps} :
              IsNextRow(i) /\ queue' = [queue EXCEPT ![i] = r]
    BY DEF Platform, SubmitDecision, RequestCancel
  <1>2. UNCHANGED <<run, proc, task>>
    BY DEF Platform, SubmitDecision, RequestCancel
  <1>3. \A j \in Items : queue[j].state # "absent" => queue'[j] = queue[j]
    BY <1>1 DEF IsNextRow, StrandInv, LifeInv, TokenInv, LockInv, TypeOK
  <1>4. QED
    BY <1>2, <1>3, RowsStrand DEF Live

\* Nobody runs when a process boots.
LEMMA BootAlone ==
    ASSUME OneEngine, TokenInv, NEW p \in Procs, Boot(p)
    PROVE  \A t \in Tasks : task[t].pc = "idle"
  <1> DEFINE Up == {q \in Procs : proc[q] = "up"}
  <1>1. Up = {}
    <2>1. IsFiniteSet(Up)
      BY FS_Subset, DispatchAssumption
    <2>2. Cardinality(Up) \in Nat /\ Cardinality(Up) < 1
      BY <2>1, FS_CardinalityType DEF Boot, OneEngine
    <2>3. QED
      BY <2>1, <2>2, FS_EmptySet
  <1>2. QED
    BY <1>1 DEF TokenInv, LockInv, TasksOwned, OneUp

\* Demoting claims loses no live row.
LEMMA DemoteLive ==
    ASSUME NEW q \in [Items -> ItemRecord], NEW S \in SUBSET Claimed(q), NEW i \in Items,
           q[i].state \in {"pending", "claimed"}
    PROVE  Demote(q, S)[i].state \in {"pending", "claimed"}
  BY DEF Demote, ItemRecord

LEMMA BootStrand ==
    ASSUME OneEngine, StrandInv, NEW p \in Procs, Boot(p) PROVE Unforgotten'
  <1> DEFINE q == Demote(queue, StaleClaims(queue))
  <1>0. queue \in [Items -> ItemRecord] /\ TokenInv /\ StaleClaims(queue) \in SUBSET Claimed(queue)
    BY DEF StrandInv, LifeInv, TokenInv, LockInv, TypeOK, StaleClaims
  <1>1. UNCHANGED <<run, task>>
    BY DEF Boot
  <1>2. \A t \in Tasks : task'[t].pc = "idle"
    BY <1>0, <1>1, BootAlone
  <1>3. EndsUnmoved' /\ CloseFits' /\ Untouched'
    BY <1>2 DEF EndsUnmoved, CloseFits, Untouched
  <1>4. NotStranded'
    <2>1. SUFFICES ASSUME run.state = "running" PROVE \E i \in Items : Live(i)'
      BY <1>1 DEF NotStranded
    <2>2. CASE \A i \in Items : ~Live(i)
      <3>1. PICK i \in Items : queue' = [q EXCEPT ![i] = Row("resume", 1)]
        BY <2>1, <2>2 DEF Boot
      <3>2. q \in [Items -> ItemRecord]
        BY <1>0, DemoteType
      <3>3. queue'[i] = Row("resume", 1)
        <4> HIDE DEF q
        <4> QED
          BY <3>1, <3>2
      <3>4. QED
        BY <3>3 DEF Row, Live
    <2>3. ASSUME NEW i \in Items, Live(i) PROVE Live(i)'
      <3>1. queue' = q
        BY <2>1, <2>3 DEF Boot
      <3>2. QED
        BY <1>0, <2>3, <3>1, DemoteLive DEF Live
    <2>4. QED
      BY <2>2, <2>3
  <1>5. QED
    BY <1>3, <1>4 DEF Unforgotten

LEMMA HeartbeatStrand ==
    ASSUME OneEngine, StrandInv, (\E i \in Items : Expire(i)) \/ (\E p \in Procs : Heartbeat(p))
    PROVE  Unforgotten'
  <1>0. queue \in [Items -> ItemRecord]
    BY DEF StrandInv, LifeInv, TokenInv, LockInv, TypeOK
  <1>1. CASE \E i \in Items : Expire(i)
    <2>1. PICK i \in Items : Expire(i)
      BY <1>1
    <2>2. proc[queue[i].owner] # "up"
      BY <2>1 DEF Expire, OneEngine
    <2>3. \A j \in Items : j # i => queue'[j] = queue[j]
      BY <1>0, <2>1 DEF Expire
    <2>4. queue'[i].state = queue[i].state
      BY <1>0, <2>1 DEF Expire, ItemRecord
    <2>5. UNCHANGED <<run, proc, task>>
      BY <2>1 DEF Expire
    <2>6. QED
      BY <2>2, <2>3, <2>4, <2>5, RowsStrand DEF Live
  <1>2. CASE \E p \in Procs : Heartbeat(p)
    <2>1. \A j \in Items : /\ queue'[j].state = queue[j].state
                           /\ ~queue[j].stale => queue'[j] = queue[j]
      BY <1>0, <1>2 DEF Heartbeat, ItemRecord, StaleClaims
    <2>2. UNCHANGED <<run, proc, task>>
      BY <1>2 DEF Heartbeat
    <2>3. QED
      BY <2>1, <2>2, RowsStrand DEF Live
  <1>3. QED
    BY <1>1, <1>2

\* A poll leaves fresh claims alone and loses no live row; the task it starts has a fresh claim.
LEMMA PollRows ==
    ASSUME TypeOK, NEW p \in Procs, Poll(p)
    PROVE  /\ \A j \in Items : /\ queue[j].state = "claimed" /\ ~queue[j].stale => queue'[j] = queue[j]
                               /\ Live(j) => Live(j)'
           /\ \/ UNCHANGED task
              \/ \E t \in Tasks : /\ task[t].pc = "idle"
                                  /\ \A u \in Tasks : u # t => task'[u] = task[u]
                                  /\ task'[t].pc \in {"void", "lock"} /\ task'[t].item \in Items
                                  /\ Claims(t)' /\ Live(task[t].item)'
  <1> DEFINE q == Demote(queue, StaleClaims(queue))
  <1>0. /\ queue \in [Items -> ItemRecord] /\ task \in [Tasks -> TaskRecord]
        /\ StaleClaims(queue) \in SUBSET Claimed(queue)
    BY DEF TypeOK, StaleClaims
  <1>1. q \in [Items -> ItemRecord]
    BY <1>0, DemoteType
  <1>2. \A j \in Items : /\ queue[j].state = "claimed" /\ ~queue[j].stale => q[j] = queue[j]
                         /\ Live(j) => q[j].state \in {"pending", "claimed"}
    BY <1>0, DemoteKeeps, DemoteLive DEF StaleClaims, Live
  <1>3. CASE queue' = q /\ UNCHANGED task
    <2> HIDE DEF q
    <2> QED
      BY <1>2, <1>3 DEF Live
  <1>4. ASSUME NEW i \in Items, NEW t \in Tasks, q[i].state = "pending", task[t].pc = "idle",
               NEW pc \in {"void", "lock"},
               queue' = [q EXCEPT ![i].state = "claimed", ![i].owner = p, ![i].stale = FALSE],
               task' = [task EXCEPT ![t] = [Idle EXCEPT !.pc = pc, !.proc = p, !.item = i]]
        PROVE  /\ \A j \in Items : /\ queue[j].state = "claimed" /\ ~queue[j].stale
                                        => queue'[j] = queue[j]
                                   /\ Live(j) => Live(j)'
               /\ task[t].pc = "idle"
               /\ \A u \in Tasks : u # t => task'[u] = task[u]
               /\ task'[t].pc \in {"void", "lock"} /\ task'[t].item \in Items
               /\ Claims(t)' /\ Live(task[t].item)'
    <2> HIDE DEF q
    <2>1. \A j \in Items : j # i => queue'[j] = q[j]
      BY <1>1, <1>4
    <2>2. queue'[i].state = "claimed" /\ queue'[i].owner = p /\ ~queue'[i].stale
      <3>1. q[i] \in ItemRecord
        BY <1>1
      <3>2. QED
        BY <1>1, <1>4, <3>1 DEF ItemRecord
    <2>3. \A j \in Items : /\ queue[j].state = "claimed" /\ ~queue[j].stale => queue'[j] = queue[j]
                           /\ Live(j) => Live(j)'
      BY <1>2, <1>4, <2>1, <2>2 DEF Live
    <2>4. /\ \A u \in Tasks : u # t => task'[u] = task[u]
          /\ task'[t].pc = pc /\ task'[t].proc = p /\ task'[t].item = i
      BY <1>0, <1>4 DEF Idle
    <2>5. QED
      BY <1>4, <2>2, <2>3, <2>4 DEF Claims, Live
  <1>5. CASE \E i \in Items, t \in Tasks :
               /\ IsOldestPending(q, i) /\ IsFreeSlot(t)
               /\ queue' = [q EXCEPT ![i].state = "claimed", ![i].owner = p, ![i].stale = FALSE]
               /\ task' = [task EXCEPT ![t] = [Idle EXCEPT !.pc = IF queue[i].kind = "cancel"
                                                                  THEN "void" ELSE "lock",
                                                           !.proc = p, !.item = i]]
    BY <1>4, <1>5 DEF IsOldestPending, IsFreeSlot
  <1>6. QED
    BY <1>3, <1>5 DEF Poll

LEMMA PollStrand ==
    ASSUME StrandInv, NEW p \in Procs, Poll(p) PROVE Unforgotten'
  <1>0. TypeOK /\ \A t \in Tasks : task[t].item \in Items
    BY DEF StrandInv, LifeInv, TokenInv, LockInv, TypeOK, TaskRecord
  <1>1. UNCHANGED <<run, proc>>
    BY <1>0, PollSays
  <1>2. \A j \in Items : /\ queue[j].state = "claimed" /\ ~queue[j].stale => queue'[j] = queue[j]
                         /\ Live(j) => Live(j)'
    BY <1>0, PollRows
  <1>3. CASE UNCHANGED task
    BY <1>1, <1>2, <1>3, RowsStrand
  <1>4. ASSUME NEW t \in Tasks, task[t].pc = "idle", \A u \in Tasks : u # t => task'[u] = task[u],
               task'[t].pc \in {"void", "lock"}, task'[t].item \in Items,
               Claims(t)', Live(task[t].item)'
        PROVE  Unforgotten'
    <2>1. Drivers' = Drivers /\ \A u \in Tasks : Driving(u)' <=> Driving(u)
      BY <1>4 DEF Drivers, Driving, DrivePcs
    <2>2. EndsUnmoved' /\ CloseFits'
      BY <1>1, <1>4, <2>1 DEF StrandInv, Unforgotten, EndsUnmoved, CloseFits
    <2>3. Untouched'
      <3>1. SUFFICES ASSUME run.state = "running", \A u \in Tasks : ~Driving(u),
                            NEW u \in Tasks, task'[u].pc # "idle"
                     PROVE  Claims(u)'
        BY <1>1, <2>1 DEF Untouched
      <3>2. CASE u = t
        BY <1>4, <3>2
      <3>3. CASE u # t
        <4>1. task'[u] = task[u] /\ Claims(u)
          BY <1>4, <3>1, <3>3 DEF StrandInv, Unforgotten, Untouched
        <4>2. QED
          BY <1>0, <1>2, <4>1 DEF Claims
      <3>4. QED
        BY <3>2, <3>3
    <2>4. NotStranded'
      BY <1>4 DEF NotStranded
    <2>5. QED
      BY <2>2, <2>3, <2>4 DEF Unforgotten
  <1>5. QED
    BY <1>0, <1>3, <1>4, PollRows

\* The lock is free: with one engine, nobody drives.
LEMMA FreeLock ==
    ASSUME TokenInv, NEW t \in Tasks, task[t].pc = "lock", holder[task[t].proc] = NoTask
    PROVE  \A u \in Tasks : ~Driving(u)
  <1>1. SUFFICES ASSUME NEW u \in Tasks, Driving(u) PROVE FALSE
    OBVIOUS
  <1>2. task[u].pc # "idle" /\ task[t].pc # "idle"
    BY <1>1 DEF Driving, DrivePcs
  <1>3. task[u].proc = task[t].proc
    BY <1>2 DEF TokenInv, OneUp, LockInv, TasksOwned
  <1>4. QED
    BY <1>1, <1>3, Bounds DEF TokenInv, LockInv, LockHeld

LEMMA DispatchStrand ==
    ASSUME StrandInv, NEW t \in Tasks, Dispatch(t) \/ DispatchFails(t) PROVE Unforgotten'
  <1>0. TypeOK /\ LifeInv /\ TokenInv /\ Unforgotten
    BY DEF StrandInv, LifeInv, TokenInv, LockInv
  <1>1. CASE Acquire(t)
    <2>1. \A u \in Tasks : ~Driving(u)
      BY <1>0, <1>1, AcquireSays, FreeLock
    <2>2. UNCHANGED run /\ task[t].pc = "lock"
      BY <1>0, <1>1, AcquireSays
    <2>3. CASE run.state # "running"
      BY <2>2, <2>3, RestStrand
    <2>4. CASE run.state = "running"
      <3>1. Claims(t)
        BY <1>0, <2>1, <2>2, <2>4 DEF Unforgotten, Untouched
      <3>2. Moved(t) /\ task'[t].pc = "load"
        BY <1>0, <1>1, <3>1, AcquireSays DEF Claims
      <3>3. Driving(t)'
        BY <3>2 DEF Driving, DrivePcs
      <3>4. EndsUnmoved'
        BY <1>0, <2>2, <3>2 DEF Unforgotten, EndsUnmoved, Moved
      <3>5. \A u \in Tasks : task[u].pc # "close"
        BY <1>0, <2>1, <2>4 DEF Unforgotten, CloseFits, Drivers, Driving
      <3>6. CloseFits'
        BY <3>2, <3>5 DEF CloseFits, Moved
      <3>7. QED
        BY <3>3, <3>4, <3>6 DEF Unforgotten, Untouched, NotStranded
    <2>5. QED
      BY <2>3, <2>4
  <1>2. CASE Finish(t)
    <2>1. Gone(t) /\ UNCHANGED run /\ task[t].pc \in {"finish", "close"}
      BY <1>0, <1>2, FinishSays
    <2>2. CASE run.state # "running"
      BY <2>1, <2>2, RestStrand
    <2>3. CASE run.state = "running"
      <3>1. PICK d \in Drivers : TRUE
        BY <1>0, <2>1, <2>3 DEF Unforgotten, EndsUnmoved, CloseFits
      <3>2. d \in Tasks /\ d # t /\ task'[d].pc = task[d].pc
        BY <2>1, <3>1 DEF Drivers, Gone, DrivePcs
      <3>3. d \in Drivers' /\ Driving(d)'
        BY <3>1, <3>2 DEF Drivers, Driving
      <3>4. EndsUnmoved'
        BY <1>0, <2>1 DEF Unforgotten, EndsUnmoved, Gone, Idle
      <3>5. QED
        BY <3>2, <3>3, <3>4 DEF Unforgotten, CloseFits, Untouched, NotStranded
    <2>4. QED
      BY <2>2, <2>3
  <1>3. CASE DispatchFails(t)
    BY <1>0, <1>3, DispatchFailsSays, RestStrand
  <1>4. CASE Load(t)
    BY <1>0, <1>4, LoadSays, DriverStrand DEF Driving, DrivePcs, TerminalStates
  <1>5. CASE InitRun(t)
    <2>1. CopyFits(t) /\ Driving(t)
      BY <1>0, <1>5, InitRunSays DEF LifeInv, CopyTrue, Drivers, Driving, DrivePcs
    <2>2. QED
      BY <1>0, <1>5, <2>1, InitRunSays, DriverStrand DEF CopyFits, DrivePcs
  <1>6. CASE ApplyDecision(t)
    BY <1>0, <1>6, ApplyDecisionSays, DriverStrand DEF Driving, DrivePcs
  <1>7. CASE Check(t)
    BY <1>0, <1>7, CheckSays, DriverStrand DEF Driving, DrivePcs
  <1>8. CASE Complete(t)
    BY <1>0, <1>8, CompleteSays, DriverStrand DEF Driving, DrivePcs
  <1>9. CASE StepEnds(t)
    BY <1>0, <1>9, StepEndsSays, DriverStrand DEF Driving, DrivePcs
  <1>10. CASE Settle(t)
    BY <1>0, <1>10, SettleSays, DriverStrand DEF Driving, DrivePcs
  <1>11. QED
    BY <1>1, <1>2, <1>3, <1>4, <1>5, <1>6, <1>7, <1>8, <1>9, <1>10 DEF Dispatch

LEMMA CancelStrand ==
    ASSUME StrandInv, NEW t \in Tasks, CancelHandler(t) PROVE Unforgotten'
  <1>0. /\ TypeOK /\ TokenInv /\ Unforgotten /\ queue \in [Items -> ItemRecord]
        /\ \A u \in Tasks : task[u].item \in Items
    BY DEF StrandInv, LifeInv, TokenInv, LockInv, TypeOK, TaskRecord
  <1>1. /\ task[t].pc \in CancelPcs /\ "idle" \notin CancelPcs /\ "finish" \notin CancelPcs
        /\ CancelPcs \cap DrivePcs = {}
    BY DEF CancelHandler, Void, Await, ReadRun, WriteCancelled, CancelPcs, DrivePcs
  <1>2. /\ \A u \in Tasks : /\ u # t => task'[u].pc = task[u].pc
                            /\ task'[u].item = task[u].item /\ task'[u].proc = task[u].proc
        /\ task'[t].pc \in CancelPcs /\ (task'[t].pc = "close" => run'.state # "running")
        /\ UNCHANGED proc /\ (UNCHANGED run \/ run'.state = "cancelled")
    <2>1. CASE Void(t)
      BY <1>0, <2>1, VoidSays DEF Moved, CancelPcs
    <2>2. CASE Await(t)
      BY <1>0, <2>2, AwaitSays DEF Moved, CancelPcs
    <2>3. CASE ReadRun(t)
      BY <1>0, <2>3, ReadRunSays DEF Moved, CancelPcs, TerminalStates
    <2>4. CASE WriteCancelled(t)
      BY <1>0, <2>4, WriteCancelledSays DEF Moved, CancelPcs, TerminalStates
    <2>5. QED
      BY <2>1, <2>2, <2>3, <2>4 DEF CancelHandler
  <1>3. \A j \in Items : queue[j].state = "claimed" => queue'[j] = queue[j]
    <2>1. queue' \in {queue, MarkDone(queue, {i \in Items : queue[i].state = "pending"})}
      BY <1>0, VoidSays, AwaitSays, ReadRunSays, WriteCancelledSays DEF CancelHandler
    <2>2. QED
      BY <1>0, <2>1, MarkDoneKeeps
  <1>4. CASE run'.state # "running"
    BY <1>4, RestStrand
  <1>5. CASE run'.state = "running"
    <2>1. UNCHANGED run /\ run.state = "running"
      BY <1>2, <1>5
    <2>2. Drivers' = Drivers /\ \A u \in Tasks : Driving(u)' <=> Driving(u)
      BY <1>1, <1>2 DEF Drivers, Driving
    <2>3. EndsUnmoved' /\ CloseFits'
      BY <1>0, <1>1, <1>2, <2>1, <2>2 DEF Unforgotten, EndsUnmoved, CloseFits
    <2>4. CASE \E u \in Tasks : Driving(u)
      BY <2>2, <2>3, <2>4 DEF Unforgotten, Untouched, NotStranded
    <2>5. CASE \A u \in Tasks : ~Driving(u)
      <3>1. \A u \in Tasks : task[u].pc # "idle" => Claims(u)
        BY <1>0, <2>1, <2>5 DEF Unforgotten, Untouched
      <3>2. \A u \in Tasks : task'[u].pc # "idle" => Claims(u)' /\ Live(task[u].item)'
        BY <1>0, <1>1, <1>2, <1>3, <3>1 DEF Claims, Live
      <3>3. Untouched' /\ NotStranded'
        BY <1>0, <1>1, <1>2, <3>2 DEF Untouched, NotStranded
      <3>4. QED
        BY <2>3, <3>3 DEF Unforgotten
    <2>6. QED
      BY <2>4, <2>5
  <1>6. QED
    BY <1>4, <1>5

LEMMA DieStrand ==
    ASSUME StrandInv, NEW p \in Procs, Die(p) PROVE Unforgotten'
  <1>1. /\ \A t \in Tasks : task'[t].pc = "idle"
        /\ \A q \in Procs : proc'[q] # "up"
    BY DieSays DEF StrandInv, LifeInv
  <1>2. QED
    BY <1>1 DEF Unforgotten, EndsUnmoved, CloseFits, Untouched, NotStranded

LEMMA NextStrand == OneEngine /\ StrandInv /\ [Next]_vars => StrandInv'
  <1> SUFFICES ASSUME OneEngine, StrandInv, [Next]_vars PROVE Unforgotten'
    BY NextLife DEF StrandInv
  <1>1. CASE UNCHANGED vars
    BY <1>1, RowsStrand DEF vars, Live
  <1>2. QED
    BY <1>1, PlatformStrand, BootStrand, PollStrand, HeartbeatStrand, DispatchStrand, CancelStrand,
       DieStrand DEF Next, Environment, Crash, Shutdown

LEMMA InitStrand == Init => StrandInv
  <1> SUFFICES ASSUME Init PROVE StrandInv
    OBVIOUS
  <1>1. Unforgotten
    BY RestStrand DEF Init, Unforgotten, EndsUnmoved, CloseFits, Untouched, NotStranded, Idle
  <1>2. QED
    BY <1>1, InitLife DEF StrandInv

\* With one engine at a time, a running run is never forgotten while an engine is up:
\* whatever crash, shutdown, supersede or stop came before, it has a live token or a
\* dispatch at work.
THEOREM RunNotStranded == OneEngine => (Spec => []NotStranded)
  <1> SUFFICES ASSUME OneEngine PROVE Spec => []NotStranded
    OBVIOUS
  <1>1. StrandInv => NotStranded
    BY DEF StrandInv, Unforgotten
  <1>2. StrandInv /\ [Next]_vars => StrandInv'
    BY NextStrand
  <1>3. QED
    BY <1>1, <1>2, InitStrand, PTL DEF Spec
=============================================================================
