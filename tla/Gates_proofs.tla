---------------------------- MODULE Gates_proofs ----------------------------
(* What comes of the requests of the platform with one engine at a time: a    *)
(* decision is applied to the gate it was taken at, no gate is passed without *)
(* one, and a stop is not swallowed.                                          *)
EXTENDS Dispatch_proofs

\* Decisions and gates.

DecisionLive(i) == Live(i) /\ queue[i].kind \in Decisions

\* Reviewers wait for their last decision to be dealt with, and no engine crashes.
OneReviewer == "double" \notin Allowed /\ "crash" \notin Allowed
NoForward   == "forward" \notin Allowed

\* What a row says of the request stays, and no row comes back to life.
Frozen(i) == /\ queue'[i].kind = queue[i].kind /\ queue'[i].to = queue[i].to
             /\ queue'[i].gate = queue[i].gate
             /\ queue[i].state # "absent" => queue'[i].state # "absent"
             /\ Live(i)' => Live(i)

LEMMA DemoteFrozen ==
    ASSUME NEW q \in [Items -> ItemRecord], NEW S \in SUBSET Claimed(q), NEW i \in Items
    PROVE  LET d == Demote(q, S)[i] IN
           /\ d.kind = q[i].kind /\ d.to = q[i].to /\ d.gate = q[i].gate
           /\ q[i].state # "absent" => d.state # "absent"
           /\ d.state \in {"pending", "claimed"} => q[i].state \in {"pending", "claimed"}
  BY DEF Demote, Claimed, ItemRecord

LEMMA MarkDoneFrozen ==
    ASSUME TypeOK, NEW S, queue' = MarkDone(queue, S), NEW i \in Items
    PROVE  Frozen(i) /\ (i \in S => ~Live(i)')
  <1>1. queue \in [Items -> ItemRecord] /\ queue[i] \in ItemRecord
    BY DEF TypeOK
  <1>2. queue'[i] = IF i \in S THEN [queue[i] EXCEPT !.state = "done"] ELSE queue[i]
    BY DEF MarkDone
  <1>3. QED
    BY <1>1, <1>2 DEF Frozen, Live, ItemRecord

\* A row is as it was, or new: a reviewer's decision, a stop, or the resume of a recovery.
Added(j) ==
    /\ queue[j].state = "absent" /\ queue'[j].state = "pending"
    /\ \/ queue'[j].kind \in Decisions /\ SubmitDecision
       \/ queue'[j].kind = "cancel" /\ RequestCancel
       \/ queue'[j].kind = "resume" /\ run.state \in {"running", "paused"}
          /\ \E p \in Procs : Boot(p)

LEMMA RowsSay ==
    ASSUME TypeOK, [Next]_vars, NEW j \in Items
    PROVE  Frozen(j) \/ Added(j)
  <1> DEFINE Goal == Frozen(j) \/ Added(j)
  <1>0. /\ queue \in [Items -> ItemRecord] /\ queue[j] \in ItemRecord
        /\ \A t \in Tasks : task[t].item \in Items
    BY DEF TypeOK, TaskRecord
  <1>1. CASE Platform
    <2>1. PICK i \in Items, kind \in Decisions \cup {"cancel"}, s \in Steps :
            /\ IsNextRow(i) /\ queue' = [queue EXCEPT ![i] = Row(kind, s)]
            /\ \/ kind \in Decisions /\ SubmitDecision
               \/ kind = "cancel" /\ RequestCancel
      <3>1. CASE SubmitDecision
        <4>1. PICK i \in Items, s \in Steps, kind \in Decisions :
                IsNextRow(i) /\ queue' = [queue EXCEPT ![i] = Row(kind, s)]
          BY <3>1, Bounds DEF SubmitDecision, Decisions
        <4>2. QED
          BY <3>1, <4>1
      <3>2. CASE RequestCancel
        BY <3>2, Bounds DEF RequestCancel
      <3>3. QED
        BY <1>1, <3>1, <3>2 DEF Platform
    <2>2. CASE j # i
      BY <1>0, <2>1, <2>2 DEF Frozen, Live
    <2>3. CASE j = i
      <3>1. queue[j].state = "absent" /\ queue'[j].state = "pending" /\ queue'[j].kind = kind
        BY <1>0, <2>1, <2>3 DEF IsNextRow, Row
      <3>2. QED
        BY <2>1, <3>1 DEF Added
    <2>4. QED
      BY <2>2, <2>3
  <1>2. CASE \E p \in Procs : Boot(p)
    <2> DEFINE q == Demote(queue, StaleClaims(queue))
    <2>1. StaleClaims(queue) \in SUBSET Claimed(queue)
      BY DEF StaleClaims
    <2>2. q \in [Items -> ItemRecord]
      BY <1>0, DemoteType
    <2>3. CASE queue' = q
      BY <1>0, <2>1, <2>3, DemoteFrozen DEF Frozen, Live
    <2>4. ASSUME NEW i \in Items, IsNextRow(i), queue' = [q EXCEPT ![i] = Row("resume", 1)],
                 run.state \in {"running", "paused"}
          PROVE  Goal
      <3>1. CASE j = i
        <4>1. queue[j].state = "absent"
          BY <2>4, <3>1 DEF IsNextRow
        <4>2. queue'[j] = Row("resume", 1)
          <5> HIDE DEF q
          <5> QED
            BY <2>2, <2>4, <3>1
        <4>3. QED
          BY <1>2, <2>4, <4>1, <4>2 DEF Row, Added
      <3>2. CASE j # i
        <4>1. queue'[j] = q[j]
          <5> HIDE DEF q
          <5> QED
            BY <2>2, <2>4, <3>2
        <4>2. QED
          BY <1>0, <2>1, <4>1, DemoteFrozen DEF Frozen, Live
      <3>3. QED
        BY <3>1, <3>2
    <2>5. QED
      BY <1>2, <2>3, <2>4 DEF Boot
  <1>3. ASSUME NEW p \in Procs, Poll(p) PROVE Goal
    <2> DEFINE q == Demote(queue, StaleClaims(queue))
    <2>1. StaleClaims(queue) \in SUBSET Claimed(queue)
      BY DEF StaleClaims
    <2>2. q \in [Items -> ItemRecord]
      BY <1>0, DemoteType
    <2>3. /\ q[j].kind = queue[j].kind /\ q[j].to = queue[j].to /\ q[j].gate = queue[j].gate
          /\ queue[j].state # "absent" => q[j].state # "absent"
          /\ q[j].state \in {"pending", "claimed"} => Live(j)
      BY <1>0, <2>1, DemoteFrozen DEF Live
    <2>4. CASE queue' = q
      BY <1>0, <2>3, <2>4 DEF Frozen, Live
    <2>5. ASSUME NEW i \in Items, q[i].state = "pending",
                 queue' = [q EXCEPT ![i].state = "claimed", ![i].owner = p, ![i].stale = FALSE]
          PROVE  Goal
      <3> HIDE DEF q
      <3>1. CASE j = i
        <4>1. q[i] \in ItemRecord
          BY <2>2
        <4>2. /\ queue'[i].kind = q[i].kind /\ queue'[i].to = q[i].to
              /\ queue'[i].gate = q[i].gate /\ queue'[i].state = "claimed"
          BY <2>2, <2>5, <4>1 DEF ItemRecord
        <4>3. QED
          BY <2>3, <2>5, <3>1, <4>2 DEF Frozen
      <3>2. CASE j # i
        <4>1. queue'[j] = q[j]
          BY <2>2, <2>5, <3>2
        <4>2. QED
          BY <2>3, <4>1 DEF Frozen, Live
      <3>3. QED
        BY <3>1, <3>2
    <2>6. QED
      BY <1>3, <2>4, <2>5 DEF Poll, IsOldestPending
  <1>4. CASE (\E i \in Items : Expire(i)) \/ (\E p \in Procs : Heartbeat(p))
    <2>1. queue'[j] = queue[j] \/ \E b \in BOOLEAN : queue'[j] = [queue[j] EXCEPT !.stale = b]
      BY <1>0, <1>4 DEF Expire, Heartbeat
    <2>2. QED
      BY <1>0, <2>1 DEF Frozen, Live, ItemRecord
  <1>5. ASSUME NEW t \in Tasks, Acquire(t) PROVE Goal
    <2> DEFINE i == task[t].item
               S == Claimed(queue) \ {i}
               q == Demote(queue, S)
    <2>1. S \in SUBSET Claimed(queue) /\ i \in Items
      BY <1>0
    <2>2. q \in [Items -> ItemRecord] /\ q[j] \in ItemRecord
      BY <1>0, <2>1, DemoteType
    <2>3. /\ q[j].kind = queue[j].kind /\ q[j].to = queue[j].to /\ q[j].gate = queue[j].gate
          /\ queue[j].state # "absent" => q[j].state # "absent"
          /\ q[j].state \in {"pending", "claimed"} => Live(j)
      BY <1>0, <2>1, DemoteFrozen DEF Live
    <2>4. queue' = q \/ queue' = [q EXCEPT ![i].stale = FALSE]
      BY <1>5 DEF Acquire
    <2> HIDE DEF q, i
    <2>5. queue'[j] = q[j] \/ queue'[j] = [q[j] EXCEPT !.stale = FALSE]
      BY <2>1, <2>2, <2>4
    <2>6. QED
      BY <2>2, <2>3, <2>5 DEF Frozen, Live, ItemRecord
  <1>6. CASE UNCHANGED queue
    BY <1>6 DEF Frozen, Live
  <1>7. ASSUME NEW S, queue' = MarkDone(queue, S) PROVE Goal
    BY <1>7, MarkDoneFrozen
  <1>8. QED
    BY <1>1, <1>2, <1>3, <1>4, <1>5, <1>6, <1>7 DEF vars, Next, Environment, Crash, Shutdown,
       Dispatch, CancelHandler, DispatchFails, Load, InitRun, ApplyDecision,
       Check, Complete, StepEnds, Settle, Finish, Void, Await, ReadRun, WriteCancelled

-----------------------------------------------------------------------------
\* The position of the run, and the driver's copy of it.

LEMMA WriteSteps ==
    ASSUME TypeOK, NEW t \in Tasks, NEW state, NEW pc, WriteState(t, state, pc)
    PROVE  /\ run'.step = run.step /\ run'.gate = run.gate
           /\ task'[t].seen.step = task[t].seen.step
  <1>1. task \in [Tasks -> TaskRecord] /\ task[t] \in TaskRecord
    BY DEF TypeOK
  <1>2. run'.step = run.step /\ run'.gate = run.gate
    BY DEF TypeOK, WriteState
  <1>3. QED
    BY <1>1, <1>2 DEF WriteState, TaskRecord

LEMMA LoadSteps ==
    ASSUME TypeOK, NEW t \in Tasks, Load(t)
    PROVE  UNCHANGED <<run, decided>> /\ task'[t].seen.step = run.step
  <1>1. task \in [Tasks -> TaskRecord] /\ task[t] \in TaskRecord
    BY DEF TypeOK
  <1>2. QED
    BY <1>1 DEF Load, TaskRecord

LEMMA PlainSteps ==
    ASSUME TypeOK, NEW t \in Tasks, InitRun(t) \/ Check(t) \/ Complete(t) \/ StepEnds(t)
    PROVE  /\ run'.step = run.step /\ run'.gate = run.gate /\ UNCHANGED decided
           /\ task'[t].seen.step = task[t].seen.step
  BY WriteSteps, GotoSays DEF InitRun, Check, Complete, StepEnds

\* A decision moves the run where it says, and is noted for the gate that is open.
Target(t) == IF queue[task[t].item].kind = "approve" THEN task[t].seen.step + 1
             ELSE queue[task[t].item].to

LEMMA ApplyDecisionSteps ==
    ASSUME TypeOK, NEW t \in Tasks, ApplyDecision(t)
    PROVE  /\ run'.gate = run.gate
           /\ \/ /\ run'.step = run.step /\ UNCHANGED decided /\ task'[t].pc = "finish"
                 /\ task'[t].seen.step = task[t].seen.step
              \/ /\ run'.step = IF Target(t) = task[t].seen.step THEN run.step ELSE Target(t)
                 /\ task'[t].seen.step = Target(t)
                 /\ decided' = decided \cup {[item |-> task[t].item, gate |-> run.gate,
                                              step |-> task[t].seen.step]}
  <1>1. task \in [Tasks -> TaskRecord] /\ task[t] \in TaskRecord
        /\ run \in [state: RunStates, step: 1..DONE, gate: Nat]
    BY DEF TypeOK
  <1>2. CASE WriteState(t, "failed", "finish") /\ UNCHANGED decided
    BY <1>2, WriteSteps, WriteSays
  <1>3. ASSUME NEW target,
               run' = [run EXCEPT !.state = "running",
                                  !.step = IF target = task[t].seen.step THEN @ ELSE target],
               task' = [task EXCEPT ![t].seen = [state |-> "running", step |-> target],
                                    ![t].pc = "check"]
        PROVE  /\ run'.gate = run.gate /\ task'[t].seen.step = target
               /\ run'.step = IF target = task[t].seen.step THEN run.step ELSE target
    BY <1>1, <1>3 DEF TaskRecord
  <1>4. QED
    BY <1>2, <1>3 DEF ApplyDecision, Target

LEMMA SettleSteps ==
    ASSUME TypeOK, NEW t \in Tasks, Settle(t)
    PROVE  /\ UNCHANGED decided
           /\ \/ /\ run'.step = run.step /\ task'[t].seen.step = task[t].seen.step
                 /\ task'[t].pc = "finish"
              \/ /\ task[t].seen.step \notin GatedSteps /\ run'.gate = run.gate
                 /\ run'.step = task[t].seen.step + 1
                 /\ task'[t].seen.step = task[t].seen.step + 1
  <1>1. task \in [Tasks -> TaskRecord] /\ task[t] \in TaskRecord
        /\ run \in [state: RunStates, step: 1..DONE, gate: Nat]
    BY DEF TypeOK
  <1>2. CASE WriteState(t, "failed", "finish")
    BY <1>2, WriteSteps, WriteSays DEF Settle
  <1>3. CASE /\ run' = [run EXCEPT !.state = "paused", !.gate = @ + 1]
             /\ task' = [task EXCEPT ![t].seen.state = "paused", ![t].pc = "finish"]
    BY <1>1, <1>3 DEF Settle, TaskRecord
  <1>4. ASSUME NEW next, run' = [run EXCEPT !.step = next],
               task' = [task EXCEPT ![t].seen.step = next, ![t].pc = "check"]
        PROVE  run'.gate = run.gate /\ run'.step = next /\ task'[t].seen.step = next
    BY <1>1, <1>4 DEF TaskRecord
  <1>5. QED
    BY <1>2, <1>3, <1>4 DEF Settle

\* Nobody else touches the position, the gate or the decisions.
LEMMA OtherSteps ==
    ASSUME TypeOK, [Next]_vars,
           \A t \in Tasks : ~(InitRun(t) \/ ApplyDecision(t) \/ Check(t) \/ Complete(t)
                               \/ StepEnds(t) \/ Settle(t))
    PROVE  run'.step = run.step /\ run'.gate = run.gate /\ UNCHANGED decided
  <1>1. ASSUME NEW t \in Tasks, DispatchFails(t)
        PROVE  run'.step = run.step /\ run'.gate = run.gate /\ UNCHANGED decided
    BY <1>1 DEF TypeOK, DispatchFails
  <1>2. ASSUME NEW t \in Tasks, WriteCancelled(t)
        PROVE  run'.step = run.step /\ run'.gate = run.gate /\ UNCHANGED decided
    BY <1>2, WriteSteps DEF WriteCancelled
  <1>3. CASE UNCHANGED <<run, decided>>
    BY <1>3
  <1>4. QED
    BY <1>1, <1>2, <1>3 DEF vars, Next, Platform, SubmitDecision, RequestCancel, Boot, Poll,
       Heartbeat, Expire, Environment, Crash, Shutdown, Die, Dispatch, CancelHandler,
       Acquire, Load, Finish, Void, Await, ReadRun

-----------------------------------------------------------------------------
\* A decision waits at the gate it was taken at, or is the one being carried out.

AppliedPcs == {"check", "complete", "step", "settle", "finish"}

Waiting(i) ==
    /\ queue[i].gate = run.gate
    /\ NoForward /\ queue[i].kind = "send_back" => queue[i].to <= run.step
    /\ run.state \notin {"pending", "running"}
    /\ \A t \in Tasks : t \in Drivers => task[t].seen.state = "paused"
Applied(i) ==
    \E t \in Tasks : /\ task[t].item = i /\ task[t].pc \in AppliedPcs
                     /\ task[t].pc = "finish" => run.state \notin {"pending", "running"}

DecisionOpen == \A i \in Items : DecisionLive(i) => Waiting(i) \/ Applied(i)
OneDecision  == \A i, j \in Items : DecisionLive(i) /\ DecisionLive(j) => i = j
DecidesOnly  == \A t \in Tasks : task[t].pc = "decide" => queue[task[t].item].kind \in Decisions
StepTrue     == \A t \in Tasks : t \in Drivers => task[t].seen.step = run.step
DecidedKnown == \A d \in decided : d.item \in Items /\ queue[d.item].state # "absent"

GateInv == LifeInv /\ OneDecision /\ DecidesOnly /\ StepTrue /\ DecisionOpen
           /\ DecidedKnown /\ DecisionFitsGate

\* The decision a driver applies was taken at the gate that is open.
LEMMA DecidesHere ==
    ASSUME GateInv, NEW t \in Tasks, task[t].pc = "decide"
    PROVE  LET i == task[t].item IN
           i \in Items /\ DecisionLive(i) /\ Waiting(i)
  <1> DEFINE i == task[t].item
  <1>1. Driving(t) /\ i \in Items
    BY DEF Driving, DrivePcs, GateInv, LifeInv, TokenInv, LockInv, TypeOK, TaskRecord
  <1>2. DecisionLive(i)
    BY <1>1 DEF DecisionLive, Live, GateInv, LifeInv, TokenInv, TokenHeld, DecidesOnly
  <1>3. ASSUME NEW u \in Tasks, task[u].pc \in AppliedPcs PROVE FALSE
    <2>1. Driving(u) /\ u # t
      BY <1>3 DEF Driving, DrivePcs, AppliedPcs
    <2>2. QED
      BY <1>1, <2>1, SoleDriver DEF GateInv, LifeInv, TokenInv
  <1>4. QED
    BY <1>1, <1>2, <1>3 DEF GateInv, DecisionOpen, Applied

-----------------------------------------------------------------------------
\* A decision is submitted at a gate where no other is alive, and by nobody while the
\* run is being driven on.
LEMMA SubmitSays ==
    ASSUME OneReviewer, GateInv, SubmitDecision
    PROVE  /\ UNCHANGED <<run, proc, task, holder, active, decided>> /\ run.state = "paused"
           /\ \A j \in Items : ~DecisionLive(j)
           /\ \E i \in Items :
                /\ queue'[i].gate = run.gate
                /\ NoForward /\ queue'[i].kind = "send_back" => queue'[i].to <= run.step
                /\ \A j \in Items : j # i => queue'[j] = queue[j]
  <1>0. queue \in [Items -> ItemRecord]
    BY DEF GateInv, LifeInv, TokenInv, LockInv, TypeOK
  <1>1. UNCHANGED <<run, proc, task, holder, active, decided>> /\ run.state = "paused"
    BY DEF SubmitDecision
  <1>2. \A j \in Items : ~DecisionLive(j)
    BY DEF SubmitDecision, OneReviewer, DecisionLive
  <1>3. PICK i \in Items : \/ queue' = [queue EXCEPT ![i] = Row("approve", 1)]
                           \/ \E s \in Steps : /\ "forward" \in Allowed \/ s <= run.step
                                               /\ queue' = [queue EXCEPT ![i] = Row("send_back", s)]
    BY DEF SubmitDecision
  <1>4. /\ queue'[i].gate = run.gate
        /\ NoForward /\ queue'[i].kind = "send_back" => queue'[i].to <= run.step
        /\ \A j \in Items : j # i => queue'[j] = queue[j]
    BY <1>0, <1>3 DEF Row, NoForward
  <1>5. QED
    BY <1>1, <1>2, <1>4

LEMMA GateOneDecision ==
    ASSUME OneReviewer, GateInv, [Next]_vars PROVE OneDecision'
  <1>0. TypeOK
    BY DEF GateInv, LifeInv, TokenInv, LockInv
  <1>1. CASE SubmitDecision
    <2>1. /\ \A j \in Items : ~DecisionLive(j)
          /\ \E i \in Items : \A j \in Items : j # i => queue'[j] = queue[j]
      BY <1>1, SubmitSays
    <2>2. QED
      BY <2>1 DEF OneDecision, DecisionLive, Live
  <1>2. CASE ~SubmitDecision
    <2>1. \A j \in Items : DecisionLive(j)' => DecisionLive(j)
      BY <1>0, <1>2, RowsSay DEF Added, Decisions, Frozen, DecisionLive
    <2>2. QED
      BY <2>1 DEF GateInv, OneDecision
  <1>3. QED
    BY <1>1, <1>2

LEMMA GoneIdle == ASSUME NEW t \in Tasks, Gone(t) PROVE task'[t].pc = "idle"
  BY DEF Gone, Idle

\* Every kind of step, as far as a single task is concerned.
LEMMA TaskSays ==
    ASSUME LifeInv, [Next]_vars, NEW u \in Tasks
    PROVE  \/ /\ task'[u].pc = task[u].pc /\ task'[u].seen = task[u].seen
              /\ task'[u].item = task[u].item
           \/ task'[u].pc \notin DrivePcs
           \/ (Dispatch(u) /\ Moved(u))
  <1>0. TypeOK /\ TokenInv
    BY DEF LifeInv, TokenInv, LockInv
  <1>1. ASSUME NEW t \in Tasks, Dispatch(t) \/ DispatchFails(t)
        PROVE  IF t = u THEN task'[u].pc \notin DrivePcs \/ (Dispatch(u) /\ Moved(u))
               ELSE /\ task'[u].pc = task[u].pc /\ task'[u].seen = task[u].seen
                    /\ task'[u].item = task[u].item
    <2>1. Gone(t) \/ (Dispatch(t) /\ Moved(t))
      BY <1>0, <1>1, AcquireSays, LoadSays, InitRunSays, ApplyDecisionSays, CheckSays, CompleteSays,
         StepEndsSays, SettleSays, FinishSays, DispatchFailsSays DEF Dispatch
    <2>2. QED
      BY <2>1 DEF Gone, Moved, Idle, DrivePcs
  <1>2. ASSUME NEW t \in Tasks, CancelHandler(t)
        PROVE  IF t = u THEN task'[u].pc \notin DrivePcs
               ELSE /\ task'[u].pc = task[u].pc /\ task'[u].seen = task[u].seen
                    /\ task'[u].item = task[u].item
    <2>1. CASE Void(t)
      BY <1>0, <2>1, VoidSays DEF Moved, DrivePcs
    <2>2. CASE Await(t)
      BY <1>0, <2>2, AwaitSays DEF Moved, DrivePcs
    <2>3. CASE ReadRun(t)
      BY <1>0, <2>3, ReadRunSays DEF Moved, DrivePcs
    <2>4. CASE WriteCancelled(t)
      BY <1>0, <2>4, WriteCancelledSays DEF Moved, DrivePcs
    <2>5. QED
      BY <1>2, <2>1, <2>2, <2>3, <2>4 DEF CancelHandler
  <1>3. ASSUME NEW p \in Procs, Poll(p)
        PROVE  task'[u] = task[u] \/ task'[u].pc \notin DrivePcs
    BY <1>0, <1>3, PollSays DEF DrivePcs
  <1>4. ASSUME NEW p \in Procs, Die(p) PROVE task'[u].pc \notin DrivePcs
    BY <1>0, <1>4, DieSays DEF DrivePcs
  <1>5. CASE UNCHANGED task
    BY <1>5
  <1>6. QED
    BY <1>1, <1>2, <1>3, <1>4, <1>5 DEF vars, Next, Platform, SubmitDecision, RequestCancel, Boot,
       Heartbeat, Expire, Environment, Crash, Shutdown

\* Rows that were written keep what they say.
LEMMA RowsKept ==
    ASSUME TypeOK, [Next]_vars, NEW i \in Items, queue[i].state # "absent"
    PROVE  /\ queue'[i].kind = queue[i].kind /\ queue'[i].gate = queue[i].gate
           /\ queue'[i].state # "absent"
  BY RowsSay DEF Added, Frozen

LEMMA GateDecidesOnly ==
    ASSUME GateInv, [Next]_vars PROVE DecidesOnly'
  <1>0. TypeOK /\ LifeInv
    BY DEF GateInv, LifeInv, TokenInv, LockInv
  <1>1. ASSUME NEW u \in Tasks, task'[u].pc = "decide"
        PROVE  queue'[task'[u].item].kind \in Decisions
    <2>0. task[u].item \in Items
      BY <1>0 DEF TypeOK, TaskRecord
    <2>1. CASE task'[u].pc = task[u].pc /\ task'[u].item = task[u].item
      <3>1. queue[task[u].item].kind \in Decisions /\ queue[task[u].item].state # "absent"
        BY <1>1, <2>1 DEF GateInv, DecidesOnly, LifeInv, TokenInv, KindFits
      <3>2. QED
        BY <1>0, <2>0, <2>1, <3>1, RowsKept
    <2>2. CASE Dispatch(u) /\ Moved(u)
      <3>1. InitRun(u) \/ (task'[u].pc = task[u].pc /\ task'[u].item = task[u].item)
        <4>1. CASE Acquire(u) \/ Finish(u)
          BY <1>0, <1>1, <4>1, AcquireSays, FinishSays, GoneIdle
        <4>2. CASE Load(u) \/ ApplyDecision(u)
          BY <1>0, <1>1, <4>2, LoadSays, ApplyDecisionSays
        <4>3. CASE Check(u) \/ Complete(u) \/ StepEnds(u) \/ Settle(u)
          BY <1>0, <1>1, <4>3, CheckSays, CompleteSays, StepEndsSays, SettleSays
        <4>4. QED
          BY <2>2, <4>1, <4>2, <4>3 DEF Dispatch
      <3>2. CASE InitRun(u)
        <4>1. UNCHANGED queue /\ task'[u].item = task[u].item
          BY <2>2, <3>2 DEF InitRun, Moved
        <4>2. queue[task[u].item].kind \in Decisions
          <5>1. ASSUME NEW pc, Goto(u, pc) PROVE task'[u].pc = pc
            BY <1>0, <5>1, GotoSays
          <5>2. ASSUME WriteState(u, "running", "check") PROVE task'[u].pc = "check"
            BY <1>0, <5>2, WriteSays
          <5>3. QED
            BY <1>1, <3>2, <5>1, <5>2 DEF InitRun
        <4>3. QED
          BY <4>1, <4>2
      <3>3. QED
        BY <2>1, <3>1, <3>2
    <2>3. QED
      BY <1>0, <1>1, <2>1, <2>2, TaskSays DEF DrivePcs
  <1>2. QED
    BY <1>1 DEF DecidesOnly

LEMMA GateStepTrue ==
    ASSUME GateInv, [Next]_vars PROVE StepTrue'
  <1>0. TypeOK /\ LifeInv /\ TokenInv /\ StepTrue
    BY DEF GateInv, LifeInv, TokenInv, LockInv
  <1>1. SUFFICES ASSUME NEW u \in Tasks, u \in Drivers' PROVE task'[u].seen.step = run'.step
    BY DEF StepTrue
  <1>2. task'[u].pc \in DrivePcs \ {"load", "finish"}
    BY <1>1 DEF Drivers
  <1>3. CASE Dispatch(u) /\ Moved(u)
    <2>1. CASE Load(u)
      BY <1>0, <2>1, LoadSteps
    <2>2. ASSUME task[u].pc \in DrivePcs \ {"load", "finish"} PROVE task[u].seen.step = run.step
      BY <1>0, <2>2 DEF StepTrue, Drivers
    <2>3. CASE InitRun(u) \/ Check(u) \/ Complete(u) \/ StepEnds(u)
      BY <1>0, <2>2, <2>3, PlainSteps, InitRunSays, CheckSays, CompleteSays, StepEndsSays DEF DrivePcs
    <2>4. CASE ApplyDecision(u)
      BY <1>0, <2>2, <2>4, ApplyDecisionSays, ApplyDecisionSteps DEF DrivePcs
    <2>5. CASE Settle(u)
      BY <1>0, <2>2, <2>5, SettleSays, SettleSteps DEF DrivePcs
    <2>6. CASE Acquire(u) \/ Finish(u)
      <3>1. task'[u].pc = "load" \/ Gone(u)
        BY <1>0, <2>6, AcquireSays, FinishSays
      <3>2. QED
        BY <1>2, <3>1, GoneIdle DEF DrivePcs
    <2>7. QED
      BY <1>3, <2>1, <2>3, <2>4, <2>5, <2>6 DEF Dispatch
  <1>4. CASE task'[u].pc = task[u].pc /\ task'[u].seen = task[u].seen /\ ~Dispatch(u)
    <2>1. u \in Drivers /\ Driving(u)
      BY <1>2, <1>4 DEF Drivers, Driving
    <2>2. ASSUME NEW t \in Tasks, Dispatch(t), Driving(t) PROVE FALSE
      BY <1>0, <1>4, <2>1, <2>2, SoleDriver DEF TokenInv
    <2>3. \A t \in Tasks : ~(InitRun(t) \/ ApplyDecision(t) \/ Check(t) \/ Complete(t)
                               \/ StepEnds(t) \/ Settle(t))
      <3>1. ASSUME NEW t \in Tasks, InitRun(t) \/ ApplyDecision(t) \/ Check(t) \/ Complete(t)
                               \/ StepEnds(t) \/ Settle(t)
            PROVE  FALSE
        <4>1. Dispatch(t)
          BY <3>1 DEF Dispatch
        <4>2. Driving(t)
          BY <3>1 DEF Driving, DrivePcs, InitRun, ApplyDecision, Check, Complete, StepEnds, Settle
        <4>3. QED
          BY <2>2, <4>1, <4>2
      <3>2. QED
        BY <3>1
    <2>4. run'.step = run.step
      BY <1>0, <2>3, OtherSteps
    <2>5. QED
      BY <1>0, <1>4, <2>1, <2>4 DEF StepTrue
  <1>5. QED
    <2>1. CASE task'[u].pc = task[u].pc /\ task'[u].seen = task[u].seen /\ Dispatch(u)
      <3>1. Gone(u) \/ Moved(u)
        <4>1. CASE Acquire(u) \/ Load(u) \/ InitRun(u)
          BY <1>0, <4>1, AcquireSays, LoadSays, InitRunSays
        <4>2. CASE ApplyDecision(u) \/ Check(u) \/ Complete(u)
          BY <1>0, <4>2, ApplyDecisionSays, CheckSays, CompleteSays
        <4>3. CASE StepEnds(u) \/ Settle(u) \/ Finish(u)
          BY <1>0, <4>3, StepEndsSays, SettleSays, FinishSays
        <4>4. QED
          BY <2>1, <4>1, <4>2, <4>3 DEF Dispatch
      <3>2. Moved(u)
        BY <1>2, <2>1, <3>1 DEF Gone, Idle, DrivePcs
      <3>3. QED
        BY <1>3, <2>1, <3>2
    <2>2. QED
      BY <1>0, <1>2, <1>3, <1>4, <2>1, TaskSays

-----------------------------------------------------------------------------
\* A step that finds the decision waiting, and moves nothing it depends on.
LEMMA WaitingKept ==
    ASSUME NEW i, Waiting(i), Frozen(i), run'.step = run.step, run'.gate = run.gate,
           run'.state \notin {"pending", "running"},
           \A t \in Tasks : t \in Drivers' => task'[t].seen.state = "paused"
    PROVE  Waiting(i)'
  BY DEF Waiting, Frozen, NoForward

\* A step of somebody else, while the decision is being carried out.
LEMMA AppliedKept ==
    ASSUME NEW i, NEW t \in Tasks, task[t].item = i, task[t].pc \in AppliedPcs,
           task[t].pc = "finish" => run.state \notin {"pending", "running"},
           run'.state \in {run.state, "cancelled"},
           task'[t].item = task[t].item, task'[t].pc = task[t].pc
    PROVE  Applied(i)'
  BY DEF Applied

LEMMA DispatchOpen ==
    ASSUME GateInv, NEW t \in Tasks, Dispatch(t) \/ DispatchFails(t),
           NEW i \in Items, Frozen(i), DecisionLive(i), Live(i)',
           Waiting(i) \/ Applied(i)
    PROVE  Waiting(i)' \/ Applied(i)'
  <1>0. TypeOK /\ LifeInv /\ TokenInv
    BY DEF GateInv, LifeInv, TokenInv, LockInv
  <1>1. ASSUME NEW u \in Tasks, task[u].pc \in AppliedPcs, Driving(t) PROVE u = t
    BY <1>0, <1>1, SoleDriver DEF TokenInv, Driving, DrivePcs, AppliedPcs
  <1>2. ASSUME Driving(t), NEW u \in Tasks, u # t PROVE u \notin Drivers
    BY <1>0, <1>2, OnlyDriver
  <1>3. CASE Acquire(t)
    <2>1. /\ \A u \in Tasks : ~Driving(u)
          /\ UNCHANGED run
          /\ Gone(t) \/ (Moved(t) /\ task'[t].pc = "load")
      BY <1>0, <1>3, AcquireSays, FreeLock
    <2>2. ~Applied(i)
      BY <2>1 DEF Applied, Driving, DrivePcs, AppliedPcs
    <2>3. \A u \in Tasks : u \notin Drivers'
      BY <2>1, GoneIdle DEF Drivers, Driving, Gone, Moved, DrivePcs
    <2>4. QED
      BY <2>1, <2>2, <2>3, WaitingKept DEF Waiting
  <1>4. CASE Finish(t)
    <2>1. Gone(t) /\ UNCHANGED run /\ queue' = MarkDone(queue, {task[t].item})
      BY <1>0, <1>4, FinishSays
    <2>2. task[t].item # i
      BY <1>0, <2>1, MarkDoneFrozen
    <2>3. \A u \in Tasks : u \in Drivers' => u # t /\ u \in Drivers /\ task'[u].seen = task[u].seen
      BY <2>1, GoneIdle DEF Drivers, Gone, DrivePcs
    <2>4. CASE Waiting(i)
      BY <2>1, <2>3, <2>4, WaitingKept DEF Waiting
    <2>5. CASE Applied(i)
      <3>1. PICK u \in Tasks : /\ task[u].item = i /\ task[u].pc \in AppliedPcs
                               /\ task[u].pc = "finish" => run.state \notin {"pending", "running"}
        BY <2>5 DEF Applied
      <3>2. u # t
        BY <2>2, <3>1
      <3>3. QED
        BY <2>1, <3>1, <3>2, AppliedKept DEF Gone
    <2>6. QED
      BY <2>4, <2>5
  <1>5. CASE DispatchFails(t)
    <2>1. /\ Gone(t) /\ run'.state = "failed" /\ queue' = MarkDone(queue, {task[t].item})
          /\ run'.step = run.step /\ run'.gate = run.gate /\ Driving(t)
      BY <1>0, <1>5, DispatchFailsSays DEF DispatchFails, TypeOK, Driving
    <2>2. task[t].item # i
      BY <1>0, <2>1, MarkDoneFrozen
    <2>3. ~Applied(i)
      BY <1>1, <2>1, <2>2 DEF Applied
    <2>4. \A u \in Tasks : u \notin Drivers'
      BY <1>2, <2>1, GoneIdle DEF Drivers, Gone, DrivePcs
    <2>5. QED
      BY <2>1, <2>3, <2>4, WaitingKept
  <1>6. CASE Load(t)
    <2>1. /\ Moved(t) /\ UNCHANGED run /\ task[t].pc = "load" /\ Driving(t)
          /\ task'[t].pc = IF run.state \in TerminalStates THEN "finish" ELSE "init"
          /\ task'[t].seen.state = run.state
      BY <1>0, <1>6, LoadSays DEF Driving, DrivePcs
    <2>2. Waiting(i)
      BY <1>1, <2>1 DEF Applied, AppliedPcs
    <2>3. run.state \in TerminalStates \/ run.state = "paused"
      BY <1>0, <2>2 DEF Waiting, TypeOK, RunStates, TerminalStates
    <2>4. \A u \in Tasks : u \in Drivers' => task'[u].seen.state = "paused"
      BY <1>2, <2>1, <2>3 DEF Drivers, Moved
    <2>5. QED
      BY <2>1, <2>2, <2>4, WaitingKept DEF Waiting
  <1>7. CASE InitRun(t)
    <2>1. Moved(t) /\ task[t].pc = "init" /\ Driving(t) /\ t \in Drivers
      BY <1>0, <1>7, InitRunSays DEF Driving, DrivePcs, Drivers
    <2>2. Waiting(i)
      BY <1>1, <2>1 DEF Applied, AppliedPcs
    <2>3. task[t].seen.state = "paused"
      BY <2>1, <2>2 DEF Waiting
    <2>4. UNCHANGED run /\ task'[t].seen = task[t].seen
      BY <1>0, <1>7, <2>3, InitRunSays
    <2>5. \A u \in Tasks : u \in Drivers' => task'[u].seen.state = "paused"
      BY <1>2, <2>1, <2>3, <2>4 DEF Drivers, Moved
    <2>6. QED
      BY <2>2, <2>4, <2>5, WaitingKept DEF Waiting
  <1>8. CASE ApplyDecision(t)
    <2>1. /\ Moved(t) /\ task[t].pc = "decide"
          /\ \/ run'.state = "running" /\ task'[t].pc = "check"
             \/ run'.state = "failed" /\ task'[t].pc = "finish"
      BY <1>0, <1>8, ApplyDecisionSays
    <2>2. task[t].item = i
      BY <2>1, DecidesHere DEF GateInv, OneDecision
    <2>3. QED
      BY <2>1, <2>2 DEF Applied, AppliedPcs, Moved
  \* The driver has the run running: the decision is its own, and it keeps carrying it out.
  <1>9. ASSUME task[t].pc \in {"check", "complete", "step", "settle"}, Moved(t),
               task'[t].pc \in AppliedPcs,
               task'[t].pc = "finish" => run'.state \notin {"pending", "running"}
        PROVE  Applied(i)'
    <2>1. t \in Drivers /\ Driving(t) /\ task[t].seen.state = "running"
      BY <1>0, <1>9 DEF Drivers, Driving, DrivePcs, LifeInv, CopyTrue, CopyFits
    <2>2. ~Waiting(i)
      BY <2>1 DEF Waiting
    <2>3. task[t].item = i
      BY <1>1, <2>1, <2>2 DEF Applied
    <2>4. QED
      BY <1>9, <2>3 DEF Applied, Moved
  <1>10. CASE Check(t)
    BY <1>0, <1>9, <1>10, CheckSays DEF AppliedPcs
  <1>11. CASE Complete(t)
    BY <1>0, <1>9, <1>11, CompleteSays DEF AppliedPcs
  <1>12. CASE StepEnds(t)
    BY <1>0, <1>9, <1>12, StepEndsSays DEF AppliedPcs
  <1>13. CASE Settle(t)
    BY <1>0, <1>9, <1>13, SettleSays DEF AppliedPcs
  <1>14. QED
    BY <1>3, <1>4, <1>5, <1>6, <1>7, <1>8, <1>10, <1>11, <1>12, <1>13 DEF Dispatch

LEMMA GateOpen ==
    ASSUME OneReviewer, GateInv, [Next]_vars PROVE DecisionOpen'
  <1>0. TypeOK /\ LifeInv /\ TokenInv /\ \A t \in Tasks : task[t].item \in Items
    BY DEF GateInv, LifeInv, TokenInv, LockInv, TypeOK, TaskRecord
  <1>1. SUFFICES ASSUME NEW i \in Items, DecisionLive(i)' PROVE Waiting(i)' \/ Applied(i)'
    BY DEF DecisionOpen
  <1>2. CASE SubmitDecision /\ ~Frozen(i)
    <2>1. /\ UNCHANGED <<run, task>> /\ run.state = "paused"
          /\ queue'[i].gate = run.gate
          /\ NoForward /\ queue'[i].kind = "send_back" => queue'[i].to <= run.step
      BY <1>2, SubmitSays DEF Frozen, Live
    <2>2. ASSUME NEW t \in Tasks, t \in Drivers PROVE task[t].seen.state = "paused"
      BY <1>0, <2>1, <2>2 DEF LifeInv, CopyTrue, CopyFits
    <2>3. QED
      BY <2>1, <2>2 DEF Waiting, Drivers, NoForward
  <1>3. CASE Frozen(i)
    <2>1. DecisionLive(i) /\ Live(i)' /\ (Waiting(i) \/ Applied(i))
      BY <1>1, <1>3 DEF GateInv, DecisionOpen, DecisionLive, Frozen
    <2>2. CASE UNCHANGED <<run, task>>
      BY <1>3, <2>1, <2>2 DEF Waiting, Applied, Frozen, Drivers, NoForward
    <2>3. ASSUME NEW t \in Tasks, CancelHandler(t) PROVE Waiting(i)' \/ Applied(i)'
      <3>1. /\ \A u \in Tasks : u # t => task'[u].pc = task[u].pc /\ task'[u].seen = task[u].seen
                                         /\ task'[u].item = task[u].item
            /\ task[t].pc \in CancelPcs /\ task'[t].pc \in CancelPcs
            /\ run'.state \in {run.state, "cancelled"}
        BY <1>0, <2>3, VoidSays, AwaitSays, ReadRunSays, WriteCancelledSays
           DEF CancelHandler, Moved, CancelPcs
      <3>2. run'.step = run.step /\ run'.gate = run.gate
        BY <1>0, <2>3, WriteSteps
           DEF CancelHandler, Void, Await, ReadRun, WriteCancelled
      <3>3. CASE Waiting(i)
        <4>1. \A u \in Tasks : u \in Drivers' => u \in Drivers /\ task'[u].seen = task[u].seen
          BY <3>1 DEF Drivers, DrivePcs, CancelPcs
        <4>2. QED
          BY <1>3, <3>1, <3>2, <3>3, <4>1, WaitingKept DEF Waiting
      <3>4. CASE Applied(i)
        <4>1. PICK u \in Tasks : /\ task[u].item = i /\ task[u].pc \in AppliedPcs
                                 /\ task[u].pc = "finish" => run.state \notin {"pending", "running"}
          BY <3>4 DEF Applied
        <4>2. u # t
          BY <3>1, <4>1 DEF AppliedPcs, CancelPcs
        <4>3. QED
          BY <3>1, <4>1, <4>2, AppliedKept
      <3>5. QED
        BY <2>1, <3>3, <3>4
    <2>4. ASSUME NEW p \in Procs, Poll(p) PROVE Waiting(i)' \/ Applied(i)'
      <3>1. UNCHANGED run
        BY <1>0, <2>4, PollSays
      <3>2. ASSUME NEW t \in Tasks, task[t].pc = "idle", task'[t].pc \in {"void", "lock"},
                   \A u \in Tasks : u # t => task'[u] = task[u]
            PROVE  Waiting(i)' \/ Applied(i)'
        <4>1. CASE Waiting(i)
          <5>1. \A u \in Tasks : u \in Drivers' => u \in Drivers /\ task'[u] = task[u]
            BY <3>2 DEF Drivers, DrivePcs
          <5>2. QED
            BY <1>3, <3>1, <4>1, <5>1, WaitingKept DEF Waiting
        <4>2. CASE Applied(i)
          <5>1. PICK u \in Tasks : /\ task[u].item = i /\ task[u].pc \in AppliedPcs
                                   /\ task[u].pc = "finish" => run.state \notin {"pending", "running"}
            BY <4>2 DEF Applied
          <5>2. u # t
            BY <3>2, <5>1 DEF AppliedPcs
          <5>3. QED
            BY <3>1, <3>2, <5>1, <5>2, AppliedKept
        <4>3. QED
          BY <2>1, <4>1, <4>2
      <3>3. QED
        BY <1>0, <2>2, <2>4, <3>1, <3>2, PollSays
    <2>5. ASSUME NEW p \in Procs, Shutdown(p) PROVE Waiting(i)' \/ Applied(i)'
      <3>1. PICK unstarted \in SUBSET {t \in Tasks : task[t].pc = "void"} :
              queue' = MarkDone(queue, {task[t].item : t \in {u \in Tasks \ unstarted :
                                  task[u].proc = p /\ task[u].pc # "lock"}})
        BY <2>5 DEF Shutdown
      <3>2. (\A t \in Tasks : task'[t].pc = "idle") /\ UNCHANGED run /\ proc[p] = "up"
        BY <1>0, <2>5, DieSays DEF Shutdown, Die
      <3>3. ~Applied(i)
        <4>1. ASSUME NEW t \in Tasks, task[t].item = i, task[t].pc \in AppliedPcs PROVE FALSE
          <5>1. task[t].pc \notin {"void", "lock", "idle"}
            BY <4>1 DEF AppliedPcs
          <5>2. task[t].proc = p
            BY <1>0, <3>2, <5>1 DEF TokenInv, OneUp, LockInv, TasksOwned
          <5>3. ~Live(i)'
            BY <1>0, <3>1, <4>1, <5>1, <5>2, MarkDoneFrozen
          <5>4. QED
            BY <2>1, <5>3
        <4>2. QED
          BY <4>1 DEF Applied
      <3>4. QED
        BY <1>3, <2>1, <3>2, <3>3, WaitingKept DEF Waiting, Drivers, DrivePcs
    <2>6. ASSUME NEW t \in Tasks, Dispatch(t) \/ DispatchFails(t)
          PROVE  Waiting(i)' \/ Applied(i)'
      BY <1>3, <2>1, <2>6, DispatchOpen
    <2>7. \A p \in Procs : ~Crash(p)
      BY DEF OneReviewer, Crash
    <2>8. QED
      BY <2>2, <2>3, <2>4, <2>5, <2>6, <2>7 DEF vars, Next, Platform, SubmitDecision, RequestCancel, Boot,
         Heartbeat, Expire, Environment
  <1>4. QED
    BY <1>0, <1>1, <1>2, <1>3, RowsSay DEF Added, Decisions, DecisionLive

-----------------------------------------------------------------------------
\* What was decided stays decided, for the gate it was decided for.
LEMMA GateDecided ==
    ASSUME GateInv, [Next]_vars PROVE DecidedKnown' /\ DecisionFitsGate'
  <1>0. TypeOK /\ LifeInv /\ TokenInv /\ DecidedKnown /\ DecisionFitsGate
    BY DEF GateInv, LifeInv, TokenInv, LockInv
  <1>1. ASSUME NEW d, d \in decided
        PROVE  /\ d.item \in Items /\ queue'[d.item].state # "absent"
               /\ queue'[d.item].gate = d.gate
    BY <1>0, <1>1, RowsKept DEF DecidedKnown, DecisionFitsGate
  <1>2. CASE UNCHANGED decided
    BY <1>1, <1>2 DEF DecidedKnown, DecisionFitsGate
  <1>3. ASSUME NEW t \in Tasks, ApplyDecision(t), ~UNCHANGED decided
        PROVE  DecidedKnown' /\ DecisionFitsGate'
    <2> DEFINE new == [item |-> task[t].item, gate |-> run.gate, step |-> task[t].seen.step]
    <2>1. decided' = decided \cup {new}
      BY <1>0, <1>3, ApplyDecisionSteps
    <2>2. /\ new.item \in Items /\ queue[new.item].state # "absent"
          /\ queue[new.item].gate = new.gate
      BY <1>3, DecidesHere DEF ApplyDecision, DecisionLive, Live, Waiting
    <2>3. queue'[new.item].state # "absent" /\ queue'[new.item].gate = new.gate
      BY <1>0, <2>2, RowsKept
    <2> HIDE DEF new
    <2>4. QED
      BY <1>1, <2>1, <2>2, <2>3 DEF DecidedKnown, DecisionFitsGate
  <1>4. CASE \A t \in Tasks : ~ApplyDecision(t)
    <2>1. UNCHANGED decided
      BY <1>0, <1>4, OtherSteps, PlainSteps, SettleSteps
    <2>2. QED
      BY <1>2, <2>1
  <1>5. QED
    BY <1>2, <1>3, <1>4

LEMMA NextGate == OneEngine /\ OneReviewer /\ GateInv /\ [Next]_vars => GateInv'
  <1> SUFFICES ASSUME OneEngine, OneReviewer, GateInv, [Next]_vars PROVE GateInv'
    OBVIOUS
  <1>1. LifeInv'
    BY NextLife DEF GateInv
  <1>2. QED
    BY <1>1, GateOneDecision, GateDecidesOnly, GateStepTrue, GateOpen, GateDecided DEF GateInv

LEMMA InitGate == Init => GateInv
  <1> SUFFICES ASSUME Init PROVE GateInv
    OBVIOUS
  <1>1. decided = {} /\ \A t \in Tasks : task[t].pc = "idle"
    BY DEF Init, Idle
  <1>2. \A i \in Items : ~DecisionLive(i)
    BY DEF Init, DecisionLive, Decisions
  <1>3. OneDecision /\ DecidesOnly /\ StepTrue /\ DecisionOpen /\ DecidedKnown /\ DecisionFitsGate
    BY <1>1, <1>2 DEF OneDecision, DecidesOnly, StepTrue, DecisionOpen, DecidedKnown,
       DecisionFitsGate, Drivers, DrivePcs
  <1>4. QED
    BY <1>3, InitLife DEF GateInv

\* With one engine at a time that does not crash, and reviewers who wait for their last
\* decision, a decision is only ever applied to the gate it was taken at: however often
\* the token is demoted, shut down on, superseded or picked up again.
THEOREM DecisionsFit == OneEngine /\ OneReviewer => (Spec => []DecisionFitsGate)
  <1> SUFFICES ASSUME OneEngine, OneReviewer PROVE Spec => []DecisionFitsGate
    OBVIOUS
  <1>1. GateInv => DecisionFitsGate
    BY DEF GateInv
  <1>2. GateInv /\ [Next]_vars => GateInv'
    BY NextGate
  <1>3. QED
    BY <1>1, <1>2, InitGate, PTL DEF Spec

-----------------------------------------------------------------------------
\* The run only gets past a gated step by an approval of that gate.

\* Decisions that were applied still vouch for the gates they opened.
LEMMA VouchersKept ==
    ASSUME GateInv, [Next]_vars, GatesHonoured, NEW s \in GatedSteps, run.step > s
    PROVE  \E d \in decided' : /\ d.step = s
                               /\ queue'[d.item].kind = "approve" /\ queue'[d.item].gate = d.gate
  <1>0. TypeOK
    BY DEF GateInv, LifeInv, TokenInv, LockInv
  <1>1. PICK d \in decided : /\ d.step = s
                             /\ queue[d.item].kind = "approve" /\ queue[d.item].gate = d.gate
    BY DEF GatesHonoured
  <1>2. queue'[d.item].kind = "approve" /\ queue'[d.item].gate = d.gate
    BY <1>0, <1>1, RowsKept DEF GateInv, DecidedKnown
  <1>3. d \in decided'
    <2>1. CASE UNCHANGED decided
      BY <2>1
    <2>2. ASSUME NEW t \in Tasks, ApplyDecision(t) PROVE d \in decided'
      BY <1>0, <2>2, ApplyDecisionSteps
    <2>3. QED
      BY <1>0, <2>1, <2>2, OtherSteps, PlainSteps, SettleSteps
  <1>4. QED
    BY <1>1, <1>2, <1>3

LEMMA NextHonoured ==
    NoForward /\ GateInv /\ GatesHonoured /\ [Next]_vars => GatesHonoured'
  <1> SUFFICES ASSUME NoForward, GateInv, GatesHonoured, [Next]_vars,
                      NEW s \in GatedSteps, run'.step > s
               PROVE  \E d \in decided' : /\ d.step = s
                                          /\ queue'[d.item].kind = "approve"
                                          /\ queue'[d.item].gate = d.gate
    BY DEF GatesHonoured
  <1>0. /\ TypeOK /\ s \in Nat /\ run.step \in Nat
        /\ \A t \in Tasks : task[t].seen.step \in Nat
    BY Bounds, DispatchAssumption DEF GateInv, LifeInv, TokenInv, LockInv, TypeOK, TaskRecord
  <1>1. CASE run.step > s
    BY <1>1, VouchersKept
  <1>2. CASE ~(run.step > s)
    <2>1. ASSUME NEW t \in Tasks, Settle(t) PROVE FALSE
      <3>1. task[t].seen.step = run.step
        BY <1>0, <2>1, SettleSays DEF GateInv, StepTrue, Drivers, DrivePcs
      <3>2. run.step \notin GatedSteps /\ run'.step = run.step + 1
        BY <1>0, <1>2, <2>1, <3>1, SettleSteps
      <3>3. QED
        BY <1>0, <1>2, <3>2
    <2>2. ASSUME NEW t \in Tasks, ApplyDecision(t)
          PROVE  \E d \in decided' : /\ d.step = s
                                     /\ queue'[d.item].kind = "approve"
                                     /\ queue'[d.item].gate = d.gate
      <3> DEFINE i == task[t].item
                 new == [item |-> i, gate |-> run.gate, step |-> task[t].seen.step]
      <3>1. /\ i \in Items /\ DecisionLive(i) /\ Waiting(i) /\ task[t].seen.step = run.step
            /\ UNCHANGED queue
        BY <1>0, <2>2, ApplyDecisionSays, DecidesHere DEF GateInv, StepTrue, Drivers, DrivePcs
      <3>2. /\ decided' = decided \cup {new} /\ Target(t) # run.step
            /\ run'.step = Target(t)
        BY <1>0, <1>2, <2>2, <3>1, ApplyDecisionSteps
      <3>3. queue[i].kind = "approve"
        <4>1. SUFFICES ASSUME queue[i].kind # "approve" PROVE FALSE
          OBVIOUS
        <4>2. queue[i].kind = "send_back" /\ Target(t) = queue[i].to /\ queue[i].to \in Nat
          BY <1>0, <3>1, <4>1, DispatchAssumption
             DEF DecisionLive, Decisions, Target, TypeOK, ItemRecord, Steps
        <4>3. queue[i].to <= run.step
          BY <3>1, <4>2 DEF Waiting
        <4>4. QED
          BY <1>0, <1>2, <3>2, <4>2, <4>3
      <3>4. s = run.step
        BY <1>0, <1>2, <3>1, <3>2, <3>3 DEF Target
      <3>5. new.step = s /\ queue'[new.item].kind = "approve" /\ queue'[new.item].gate = new.gate
        BY <3>1, <3>3, <3>4 DEF Waiting
      <3>6. QED
        BY <3>2, <3>5
    <2>3. CASE run'.step = run.step
      BY <1>2, <2>3
    <2>4. QED
      BY <1>0, <2>1, <2>2, <2>3, OtherSteps, PlainSteps
  <1>3. QED
    BY <1>1, <1>2

\* If besides no one is sent "back" to a later step, no gate is passed without an
\* approval taken at that very gate.
THEOREM NoGatePassed == OneEngine /\ OneReviewer /\ NoForward => (Spec => []GatesHonoured)
  <1> SUFFICES ASSUME OneEngine, OneReviewer, NoForward PROVE Spec => []GatesHonoured
    OBVIOUS
  <1>1. Init => GatesHonoured
    <2>1. \A s \in GatedSteps : ~(1 > s)
      BY DispatchAssumption
    <2>2. QED
      BY <2>1 DEF Init, GatesHonoured
  <1>2. GateInv /\ [Next]_vars => GateInv'
    BY NextGate
  <1>3. GateInv /\ GatesHonoured /\ [Next]_vars => GatesHonoured'
    BY NextHonoured
  <1>4. QED
    BY <1>1, <1>2, <1>3, InitGate, PTL DEF Spec

-----------------------------------------------------------------------------
\* Stop requests.  What follows is about the life of the first engine process: a run
\* whose engine died may lose a stop.

OneAtATime == "double" \notin Allowed
Patient    == "late" \notin Allowed /\ "impatient" \notin Allowed
NoDead     == \A p \in Procs : proc[p] # "dead"

\* A task with a start, resume or decision item; such an item; and one whose work is not over.
Working(t) == task[t].pc \in {"lock"} \cup DrivePcs
Work(i)    == Live(i) /\ queue[i].kind # "cancel"
Fresh(i)   == Work(i) /\ \A t \in Tasks : Working(t) /\ task[t].item = i => task[t].pc # "finish"

Staffed == \A i \in Items : Work(i) /\ queue[i].state = "claimed" =>
               \E t \in Tasks : Working(t) /\ task[t].item = i
Held    == \A t \in Tasks : Working(t) => Claims(t)
Once    == \A t, u \in Tasks : Working(t) /\ Working(u) /\ task[t].item = task[u].item => t = u
OneFresh     == \A i, j \in Items : Fresh(i) /\ Fresh(j) => i = j
FreshDecides == \A i \in Items : run.state = "paused" /\ Fresh(i) => queue[i].kind \in Decisions
\* The handler signals and waits for the right task: the last one that will work.
Registered   == \A t \in Tasks : Working(t) =>
                    LET a == active[task[t].proc] IN
                    a \in Tasks /\ Working(a) /\ (task[t].pc # "finish" => a = t)

Order    == Staffed /\ Held /\ Once /\ OneFresh /\ FreshDecides /\ Registered
Unborn   == (\A p \in Procs : proc[p] = "off") => run.state = "pending"
OrderInv == TokenInv /\ NoStopYet /\ Unborn /\ (NoDead => Order)

\* A step that starts and ends no work.
SameRows == \A i \in Items : Work(i)' => /\ Work(i)
                                         /\ queue'[i].kind = queue[i].kind
                                         /\ queue'[i].state = queue[i].state
SameWork == \A u \in Tasks :
                /\ Working(u)' <=> Working(u)
                /\ Working(u) => /\ task'[u].item = task[u].item /\ task'[u].proc = task[u].proc
                                 /\ task[u].pc = "finish" => task'[u].pc = "finish"
                                 /\ Claims(u)'
                                 /\ active'[task[u].proc] = active[task[u].proc]

LEMMA WorkItem ==
    ASSUME OrderInv, NoDead, NEW t \in Tasks, Working(t)
    PROVE  /\ task[t].item \in Items /\ Work(task[t].item) /\ queue[task[t].item].state = "claimed"
           /\ task[t].pc # "finish" => Fresh(task[t].item)
           /\ task[t].pc # "idle" /\ task[t].pc \notin CancelPcs
           /\ task[t].proc \in Procs /\ proc[task[t].proc] = "up"
  <1>1. task[t].item \in Items /\ task[t].pc # "idle" /\ task[t].pc \notin CancelPcs
    BY DEF OrderInv, TokenInv, LockInv, TypeOK, TaskRecord, Working, DrivePcs, CancelPcs
  <1>2. Work(task[t].item) /\ queue[task[t].item].state = "claimed"
    BY <1>1 DEF OrderInv, Order, Held, Claims, Work, Live, TokenInv, KindFits
  <1>3. task[t].pc # "finish" => Fresh(task[t].item)
    BY <1>1, <1>2 DEF OrderInv, Order, Once, Fresh
  <1>4. task[t].proc \in Procs /\ proc[task[t].proc] = "up"
    BY <1>1 DEF OrderInv, TokenInv, LockInv, TasksOwned, OneUp
  <1>5. QED
    BY <1>1, <1>2, <1>3, <1>4

\* Of two working tasks, one is at its end.
LEMMA OneBusy ==
    ASSUME OrderInv, NoDead, NEW t \in Tasks, NEW u \in Tasks, Working(t), Working(u), u # t,
           task[t].pc # "finish"
    PROVE  task[u].pc = "finish"
  BY WorkItem DEF OrderInv, Order, OneFresh, Once

LEMMA OrderKept ==
    ASSUME OrderInv, NoDead, SameRows, SameWork,
           run'.state = "paused" => \/ run.state = "paused"
                                    \/ \E t \in Tasks : /\ Working(t) /\ task[t].pc # "finish"
                                                        /\ task'[t].pc = "finish"
    PROVE  Order'
  <1>0. Order
    BY DEF OrderInv
  <1>1. Staffed' /\ Held' /\ Once'
    BY <1>0 DEF Order, SameRows, SameWork, Staffed, Held, Once
  <1>2. ASSUME NEW i \in Items, Fresh(i)' PROVE Fresh(i)
    BY <1>2 DEF SameRows, SameWork, Fresh
  <1>3. OneFresh'
    BY <1>0, <1>2 DEF Order, OneFresh
  <1>4. FreshDecides'
    <2>1. SUFFICES ASSUME NEW i \in Items, run'.state = "paused", Fresh(i)'
                   PROVE  queue'[i].kind \in Decisions
      BY DEF FreshDecides
    <2>2. CASE run.state = "paused"
      BY <1>0, <1>2, <2>1, <2>2 DEF Order, FreshDecides, SameRows, Fresh
    <2>3. ASSUME NEW t \in Tasks, Working(t), task[t].pc # "finish", task'[t].pc = "finish"
          PROVE  FALSE
      <3>1. task[t].item = i
        BY <1>0, <1>2, <2>1, <2>3, WorkItem DEF Order, OneFresh
      <3>2. Working(t)' /\ task'[t].item = i
        BY <2>3, <3>1 DEF SameWork
      <3>3. QED
        BY <2>1, <2>3, <3>2 DEF Fresh
    <2>4. QED
      BY <2>1, <2>2, <2>3
  <1>5. Registered'
    BY <1>0 DEF Order, Registered, SameWork
  <1>6. QED
    BY <1>1, <1>3, <1>4, <1>5 DEF Order

\* The row i is not claimed by a living task.
Takeable(i) == queue[i].state = "pending" \/ (queue[i].state = "claimed" /\ queue[i].stale)

\* The task t starts with item i.
Started(p, i, t) ==
    /\ Takeable(i) /\ task[t].pc = "idle"
    /\ \A j \in Items : j # i /\ ~(queue[j].state = "claimed" /\ queue[j].stale)
                         => queue'[j] = queue[j]
    /\ \A u \in Tasks : u # t => task'[u] = task[u]
    /\ task'[t].item = i /\ task'[t].proc = p /\ task'[t].waits = NoTask
    /\ Claims(t)'
    /\ \/ queue[i].kind = "cancel" /\ task'[t].pc = "void" /\ UNCHANGED active
       \/ queue[i].kind # "cancel" /\ task'[t].pc = "lock" /\ active'[p] = t

LEMMA PollStarts ==
    ASSUME TypeOK, NEW p \in Procs, Poll(p)
    PROVE  /\ \A j \in Items : queue'[j].kind = queue[j].kind
           /\ \/ /\ \A j \in Items : ~(queue[j].state = "claimed" /\ queue[j].stale)
                                        => queue'[j] = queue[j]
                 /\ UNCHANGED <<task, active>>
              \/ \E i \in Items, t \in Tasks : Started(p, i, t)
  <1> DEFINE q == Demote(queue, StaleClaims(queue))
             Pc(i) == IF queue[i].kind = "cancel" THEN "void" ELSE "lock"
  <1>0. /\ queue \in [Items -> ItemRecord] /\ task \in [Tasks -> TaskRecord]
        /\ active \in [Procs -> Tasks \cup {NoTask}]
        /\ StaleClaims(queue) \in SUBSET Claimed(queue)
    BY DEF TypeOK, StaleClaims
  <1>1. q \in [Items -> ItemRecord]
    BY <1>0, DemoteType
  <1>2. \A j \in Items : /\ ~(queue[j].state = "claimed" /\ queue[j].stale) => q[j] = queue[j]
                         /\ q[j].kind = queue[j].kind
    BY <1>0, DemoteKeeps DEF StaleClaims, Claimed
  <1>3. CASE queue' = q /\ UNCHANGED <<task, active>>
    <2> HIDE DEF q
    <2> QED
      BY <1>2, <1>3
  <1>4. ASSUME NEW i \in Items, NEW t \in Tasks, IsOldestPending(q, i), IsFreeSlot(t),
               queue' = [q EXCEPT ![i].state = "claimed", ![i].owner = p, ![i].stale = FALSE],
               task' = [task EXCEPT ![t] = [Idle EXCEPT !.pc = Pc(i), !.proc = p, !.item = i]],
               active' = IF queue[i].kind = "cancel" THEN active ELSE [active EXCEPT ![p] = t]
        PROVE  Started(p, i, t) /\ \A j \in Items : queue'[j].kind = queue[j].kind
    <2>1. /\ task'[t].pc = Pc(i) /\ task'[t].proc = p /\ task'[t].item = i
          /\ task'[t].waits = NoTask /\ \A u \in Tasks : u # t => task'[u] = task[u]
      <3> HIDE DEF q, Pc
      <3> QED
        BY <1>0, <1>4 DEF Idle
    <2>2. task[t].pc = "idle" /\ q[i].state = "pending"
      BY <1>4 DEF IsOldestPending, IsFreeSlot
    <2>3. \/ queue[i].kind = "cancel" /\ task'[t].pc = "void" /\ UNCHANGED active
          \/ queue[i].kind # "cancel" /\ task'[t].pc = "lock" /\ active'[p] = t
      BY <1>0, <1>4, <2>1
    <2> HIDE DEF q
    <2>4. \A j \in Items : j # i => queue'[j] = q[j]
      BY <1>1, <1>4
    <2>5. /\ queue'[i].state = "claimed" /\ queue'[i].owner = p /\ ~queue'[i].stale
          /\ queue'[i].kind = q[i].kind
      <3>1. q[i] \in ItemRecord
        BY <1>1
      <3>2. QED
        BY <1>1, <1>4, <3>1 DEF ItemRecord
    <2>6. Takeable(i)
      BY <1>2, <2>2 DEF Takeable
    <2>7. Claims(t)'
      BY <2>1, <2>5 DEF Claims
    <2>8. Started(p, i, t)
      BY <1>2, <2>1, <2>2, <2>3, <2>4, <2>6, <2>7 DEF Started
    <2>9. QED
      BY <1>2, <2>4, <2>5, <2>8
  <1>5. QED
    BY <1>3, <1>4 DEF Poll

\* While no engine died, what is claimed is in the hands of a task.
LEMMA InHand ==
    ASSUME OrderInv, NoDead, NEW i \in Items, Work(i), queue[i].state = "claimed"
    PROVE  /\ ~queue[i].stale /\ proc[queue[i].owner] = "up"
           /\ \E t \in Tasks : Working(t) /\ task[t].item = i
  <1>1. PICK t \in Tasks : Working(t) /\ task[t].item = i
    BY DEF OrderInv, Order, Staffed
  <1>2. Claims(t) /\ proc[task[t].proc] = "up"
    BY <1>1, WorkItem DEF OrderInv, Order, Held
  <1>3. QED
    BY <1>1, <1>2 DEF Claims

LEMMA PollOrder ==
    ASSUME OrderInv, NoDead, NEW p \in Procs, Poll(p) PROVE Order'
  <1>0. TypeOK /\ Order /\ UNCHANGED run
    BY DEF OrderInv, TokenInv, LockInv, Poll
  <1>1. \A j \in Items : Work(j) => ~(queue[j].state = "claimed" /\ queue[j].stale)
    BY InHand
  <1>2. \A j \in Items : queue'[j].kind = queue[j].kind /\ (Live(j)' => Live(j))
    <2>1. \A j \in Items : queue'[j].kind = queue[j].kind
      BY <1>0, PollStarts
    <2>2. ASSUME NEW j \in Items, Live(j)' PROVE Live(j)
      BY <1>0, <2>2, PollStarts DEF Live, Started, Takeable
    <2>3. QED
      BY <2>1, <2>2
  <1>3. ASSUME NEW u \in Tasks, Working(u)
        PROVE  /\ queue'[task[u].item] = queue[task[u].item] /\ task[u].item \in Items /\ Claims(u)
               /\ task[u].pc # "idle"
    <2>1. Claims(u) /\ task[u].item \in Items /\ task[u].pc # "idle"
      BY <1>0, <1>3, WorkItem DEF Order, Held
    <2>2. QED
      BY <1>0, <2>1, PollRows DEF Claims
  <1>4. CASE \A j \in Items : Work(j) => queue'[j] = queue[j]
    <2>1. SameRows
      BY <1>2, <1>4 DEF SameRows, Work
    <2>2. CASE UNCHANGED <<task, active>>
      <3>1. SameWork
        BY <1>3, <2>2 DEF SameWork, Working, Claims
      <3>2. QED
        BY <1>0, <2>1, <3>1, OrderKept
    <2>3. ASSUME NEW i \in Items, NEW t \in Tasks, Started(p, i, t), queue[i].kind = "cancel"
          PROVE  Order'
      <3>1. SameWork
        BY <1>3, <2>3 DEF SameWork, Working, Claims, Started, DrivePcs
      <3>2. QED
        BY <1>0, <2>1, <3>1, OrderKept
    <2>4. ASSUME NEW i \in Items, NEW t \in Tasks, Started(p, i, t), queue[i].kind # "cancel"
          PROVE  FALSE
      <3>1. queue[i].state = "pending" \/ queue[i].state = "claimed"
        BY <2>4 DEF Started, Takeable
      <3>2. Work(i)
        BY <2>4, <3>1 DEF Work, Live
      <3>3. queue[i].state = "pending" /\ queue'[i].state = "claimed"
        BY <1>1, <2>4, <3>2 DEF Started, Takeable, Claims
      <3>4. QED
        BY <1>4, <3>2, <3>3
    <2>5. QED
      BY <1>0, <2>2, <2>3, <2>4, PollStarts
  <1>5. ASSUME NEW i \in Items, NEW t \in Tasks, Started(p, i, t), queue[i].kind # "cancel"
        PROVE  Order'
    <2>1. Work(i) /\ queue[i].state = "pending"
      BY <1>1, <1>5 DEF Started, Takeable, Work, Live
    <2>2. \A u \in Tasks : Working(u) => task[u].item # i /\ u # t /\ task'[u] = task[u]
      BY <1>3, <1>5, <2>1 DEF Claims, Started
    <2>3. Fresh(i)
      BY <2>1, <2>2 DEF Fresh
    <2>4. \A u \in Tasks : Working(u) => task[u].pc = "finish"
      BY <1>0, <2>2, <2>3, WorkItem DEF Order, OneFresh
    <2>5. /\ Working(t)' /\ task'[t].item = i /\ task'[t].proc = p /\ Claims(t)'
          /\ active'[p] = t /\ task'[t].pc = "lock"
      BY <1>5 DEF Started, Working
    <2>6. \A u \in Tasks : Working(u)' => u = t \/ Working(u)
      BY <1>5 DEF Started, Working
    <2>7. \A j \in Items : j # i /\ Work(j)' => Work(j) /\ queue'[j] = queue[j]
      BY <1>1, <1>2, <1>5 DEF Started, Work
    <2>8. Staffed'
      <3>1. SUFFICES ASSUME NEW j \in Items, Work(j)', queue'[j].state = "claimed"
                     PROVE  \E u \in Tasks : Working(u)' /\ task'[u].item = j
        BY DEF Staffed
      <3>2. CASE j = i
        BY <2>5, <3>2
      <3>3. CASE j # i
        <4>1. PICK u \in Tasks : Working(u) /\ task[u].item = j
          BY <1>0, <2>7, <3>1, <3>3 DEF Order, Staffed
        <4>2. Working(u)' /\ task'[u].item = j
          BY <2>2, <4>1 DEF Working
        <4>3. QED
          BY <4>2
      <3>4. QED
        BY <3>2, <3>3
    <2>9. Held'
      BY <1>3, <2>2, <2>5, <2>6 DEF Held, Claims
    <2>10. Once'
      BY <1>0, <2>2, <2>5, <2>6 DEF Order, Once
    <2>11. \A j \in Items : Fresh(j)' => j = i
      <3>1. SUFFICES ASSUME NEW j \in Items, Fresh(j)', j # i PROVE FALSE
        OBVIOUS
      <3>2. Work(j)
        BY <2>7, <3>1 DEF Fresh
      <3>3. \A u \in Tasks : Working(u) /\ task[u].item = j => task[u].pc # "finish"
        BY <2>2, <3>1 DEF Fresh, Working
      <3>4. QED
        BY <1>0, <2>3, <3>1, <3>2, <3>3 DEF Order, OneFresh, Fresh
    <2>12. OneFresh'
      BY <2>11 DEF OneFresh
    <2>13. FreshDecides'
      BY <1>0, <1>2, <2>3, <2>11 DEF Order, FreshDecides
    <2>14. Registered'
      <3>1. SUFFICES ASSUME NEW u \in Tasks, Working(u)'
                     PROVE  task'[u].proc = p /\ (task'[u].pc # "finish" => u = t)
        BY <2>5 DEF Registered
      <3>2. CASE u = t
        BY <2>5, <3>2
      <3>3. CASE u # t
        <4>1. Working(u) /\ task'[u] = task[u] /\ task[u].pc = "finish"
          BY <2>2, <2>4, <2>6, <3>1, <3>3
        <4>2. task[u].proc = p
          BY <4>1, WorkItem DEF OrderInv, TokenInv, OneUp, Poll
        <4>3. QED
          BY <4>1, <4>2
      <3>4. QED
        BY <3>2, <3>3
    <2>15. QED
      BY <2>8, <2>9, <2>10, <2>12, <2>13, <2>14 DEF Order
  <1>6. QED
    <2>1. ASSUME NEW i \in Items, NEW t \in Tasks, Started(p, i, t), queue[i].kind = "cancel"
          PROVE  \A j \in Items : Work(j) => queue'[j] = queue[j]
      BY <1>1, <2>1 DEF Started, Work
    <2>2. QED
      BY <1>0, <1>1, <1>4, <1>5, <2>1, PollStarts

\* A step in which no row with work changes, and every working task goes on working.
LEMMA StillOrder ==
    ASSUME OrderInv, NoDead, UNCHANGED active,
           \A i \in Items : Work(i)' => Work(i) /\ queue'[i].kind = queue[i].kind
                                        /\ queue'[i].state = queue[i].state,
           \A i \in Items : queue[i].state = "claimed" /\ ~queue[i].stale
                              => /\ queue'[i].state = "claimed" /\ ~queue'[i].stale
                                 /\ queue'[i].owner = queue[i].owner,
           \A u \in Tasks : /\ Working(u)' <=> Working(u)
                            /\ Working(u) => /\ task'[u].item = task[u].item
                                             /\ task'[u].proc = task[u].proc
                                             /\ task[u].pc = "finish" => task'[u].pc = "finish",
           run'.state = "paused" => \/ run.state = "paused"
                                    \/ \E t \in Tasks : /\ Working(t) /\ task[t].pc # "finish"
                                                        /\ task'[t].pc = "finish"
    PROVE  Order'
  <1>1. ASSUME NEW u \in Tasks, Working(u) PROVE Claims(u)'
    <2>1. Claims(u) /\ task[u].item \in Items
      BY <1>1, WorkItem DEF OrderInv, Order, Held
    <2>2. QED
      BY <1>1, <2>1 DEF Claims
  <1>2. SameRows /\ SameWork
    BY <1>1 DEF SameRows, SameWork
  <1>3. QED
    BY <1>2, OrderKept

\* The queue is as it was, and the driver or a cancel handler moves.
LEMMA MoveOrder ==
    ASSUME OrderInv, NoDead, UNCHANGED <<queue, active>>, NEW t \in Tasks, Moved(t),
           \/ task[t].pc \in CancelPcs /\ task'[t].pc \in CancelPcs
           \/ task[t].pc \in DrivePcs \ {"finish"} /\ task'[t].pc \in DrivePcs,
           run'.state = "paused" => \/ run.state = "paused"
                                    \/ /\ task'[t].pc = "finish" /\ task[t].pc \in DrivePcs
    PROVE  Order'
  <1>1. CancelPcs \cap ({"lock"} \cup DrivePcs) = {}
    BY DEF CancelPcs, DrivePcs
  <1>2. \A u \in Tasks : /\ Working(u)' <=> Working(u)
                         /\ task'[u].item = task[u].item /\ task'[u].proc = task[u].proc
                         /\ task[u].pc = "finish" => task'[u].pc = "finish"
    BY <1>1 DEF Working, Moved, CancelPcs
  <1>3. \A i \in Items : Work(i)' => Work(i)
    BY DEF Work, Live
  <1>4. run'.state = "paused" => run.state = "paused"
           \/ (Working(t) /\ task[t].pc # "finish" /\ task'[t].pc = "finish")
    BY <1>1 DEF Working, CancelPcs
  <1>5. QED
    BY <1>2, <1>3, <1>4, StillOrder

\* The driver t is gone, and its row is done: who still works waits for the lock.
LEMMA EndOrder ==
    ASSUME OrderInv, NoDead, NEW t \in Tasks, Driving(t), Return(t),
           queue' = MarkDone(queue, {task[t].item}),
           run'.state = "paused" => run.state = "paused"
    PROVE  Order'
  <1> DEFINE row == task[t].item
  <1>0. TypeOK /\ Order /\ queue \in [Items -> ItemRecord] /\ Working(t)
    BY DEF OrderInv, TokenInv, LockInv, TypeOK, Driving, Working
  <1>1. Gone(t) /\ task'[t].pc = "idle"
    <2>1. Gone(t)
      BY <1>0, ReturnSays
    <2>2. QED
      BY <2>1 DEF Gone, Idle
  <1>2. \A i \in Items : i # row => queue'[i] = queue[i]
    BY <1>0, MarkDoneKeeps
  <1>3. \A i \in Items : Work(i)' => Work(i) /\ i # row /\ queue'[i] = queue[i]
    BY <1>0, <1>2, MarkDoneFrozen DEF Work, Live, Frozen
  <1>4. \A u \in Tasks : Working(u)' => /\ u # t /\ Working(u)
                                        /\ task'[u].pc = task[u].pc /\ task'[u].item = task[u].item
                                        /\ task'[u].proc = task[u].proc
    BY <1>1 DEF Gone, Working, DrivePcs
  <1>5. \A u \in Tasks : u # t /\ Working(u) => Working(u)' /\ task'[u].item = task[u].item
                                                /\ task[u].item # row
    BY <1>0, <1>1 DEF Gone, Working, Order, Once
  <1>6. Staffed'
    <2>1. SUFFICES ASSUME NEW i \in Items, Work(i)', queue'[i].state = "claimed"
                   PROVE  \E u \in Tasks : Working(u)' /\ task'[u].item = i
      BY DEF Staffed
    <2>2. Work(i) /\ i # row /\ queue[i].state = "claimed"
      BY <1>3, <2>1
    <2>3. PICK u \in Tasks : Working(u) /\ task[u].item = i
      BY <1>0, <2>2 DEF Order, Staffed
    <2>4. QED
      BY <1>5, <2>2, <2>3
  <1>7. Held'
    BY <1>0, <1>2, <1>4, <1>5, WorkItem DEF Order, Held, Claims
  <1>8. Once'
    BY <1>0, <1>4 DEF Order, Once
  <1>9. ASSUME NEW i \in Items, Fresh(i)' PROVE Fresh(i) /\ queue'[i] = queue[i]
    BY <1>3, <1>4, <1>5, <1>9 DEF Fresh, Gone
  <1>10. OneFresh'
    BY <1>0, <1>9 DEF Order, OneFresh
  <1>11. FreshDecides'
    BY <1>0, <1>9 DEF Order, FreshDecides
  <1>12. Registered'
    <2>1. SUFFICES ASSUME NEW u \in Tasks, Working(u)'
                   PROVE  active'[task'[u].proc] = u
      BY DEF Registered
    <2>2. u # t /\ Working(u) /\ task'[u].proc = task[u].proc /\ task[u].proc \in Procs
      BY <1>4, <2>1, WorkItem
    <2>3. ~Driving(u)
      BY <2>2, SoleDriver DEF OrderInv, TokenInv
    <2>4. task[u].pc # "finish"
      BY <2>3 DEF Driving, DrivePcs
    <2>5. active[task[u].proc] = u
      BY <1>0, <2>2, <2>4 DEF Order, Registered
    <2>6. QED
      BY <2>2, <2>5 DEF Return
  <1>13. QED
    BY <1>6, <1>7, <1>8, <1>10, <1>11, <1>12 DEF Order

LEMMA AcquireOrder ==
    ASSUME OrderInv, NoDead, NEW t \in Tasks, Acquire(t) PROVE Order'
  <1> DEFINE i == task[t].item
             S == Claimed(queue) \ {i}
             q == Demote(queue, S)
  <1>0. TypeOK /\ Order /\ queue \in [Items -> ItemRecord] /\ S \in SUBSET Claimed(queue)
        /\ UNCHANGED run
    BY DEF OrderInv, TokenInv, LockInv, TypeOK, Acquire
  <1>1. task[t].pc = "lock" /\ Working(t) /\ holder[task[t].proc] = NoTask
    BY DEF Acquire, Working
  <1>2. Claims(t) /\ i \in Items /\ Work(i)
    BY <1>0, <1>1, WorkItem DEF Order, Held
  <1>3. queue' = [q EXCEPT ![i].stale = FALSE] /\ UNCHANGED active /\ Goto(t, "load")
    BY <1>2 DEF Acquire, Claims
  <1>4. Moved(t) /\ task'[t].pc = "load"
    BY <1>0, <1>3, GotoSays
  \* Nobody else works: who drives holds the lock, who waits has a fresh item.
  <1>5. ASSUME NEW u \in Tasks, Working(u) PROVE u = t
    <2>1. ~Driving(u)
      BY <1>1, FreeLock DEF OrderInv
    <2>2. task[u].pc # "finish"
      BY <2>1 DEF Driving, DrivePcs
    <2>3. QED
      BY <1>1, <1>5, <2>2, OneBusy
  <1>6. \A j \in Items : j \in S => queue[j].kind = "cancel"
    BY <1>5, InHand DEF Claimed, Work, Live
  <1>7. /\ q \in [Items -> ItemRecord] /\ q[i] = queue[i]
        /\ \A j \in Items : /\ q[j].kind = queue[j].kind
                            /\ j \notin S => q[j] = queue[j]
    BY <1>0, <1>2, DemoteType, DemoteKeeps
  <1>8. /\ \A j \in Items : j # i => queue'[j] = q[j]
        /\ queue'[i].kind = q[i].kind /\ queue'[i].state = q[i].state
        /\ queue'[i].owner = q[i].owner /\ ~queue'[i].stale
    <2> HIDE DEF q, i
    <2>1. q[i] \in ItemRecord
      BY <1>2, <1>7
    <2>2. QED
      BY <1>2, <1>3, <1>7, <2>1 DEF ItemRecord
  <1>9. SameRows
    <2>1. ASSUME NEW j \in Items, Work(j)'
          PROVE  Work(j) /\ queue'[j].kind = queue[j].kind /\ queue'[j].state = queue[j].state
      <3>1. CASE j = i
        BY <1>2, <1>7, <1>8, <3>1
      <3>2. CASE j # i
        <4>1. queue'[j].kind = queue[j].kind /\ queue[j].kind # "cancel"
          BY <1>7, <1>8, <2>1, <3>2 DEF Work
        <4>2. queue'[j] = queue[j]
          BY <1>6, <1>7, <1>8, <3>2, <4>1
        <4>3. QED
          BY <2>1, <4>2 DEF Work, Live
      <3>3. QED
        BY <3>1, <3>2
    <2>2. QED
      BY <2>1 DEF SameRows
  <1>10. Claims(t)'
    BY <1>2, <1>4, <1>7, <1>8 DEF Claims, Moved
  <1>11. \A u \in Tasks : Working(u)' <=> u = t
    BY <1>1, <1>4, <1>5 DEF Working, Moved, DrivePcs
  <1>12. SameWork
    BY <1>1, <1>3, <1>4, <1>5, <1>10, <1>11 DEF SameWork, Moved
  <1>13. QED
    BY <1>0, <1>9, <1>12, OrderKept

\* The item of a cancel handler is no work.
LEMMA CloseOrder ==
    ASSUME OrderInv, NoDead, NEW t \in Tasks, task[t].pc = "close", Finish(t) PROVE Order'
  <1> DEFINE row == task[t].item
  <1>0. /\ TypeOK /\ Order /\ queue \in [Items -> ItemRecord] /\ row \in Items
        /\ UNCHANGED run /\ Return(t) /\ queue' = MarkDone(queue, {row})
    BY DEF OrderInv, TokenInv, LockInv, TypeOK, TaskRecord, Finish
  <1>1. Gone(t) /\ ~Working(t) /\ ~Working(t)'
    <2>1. Gone(t)
      BY <1>0, ReturnSays
    <2>2. QED
      BY <2>1 DEF Gone, Idle, Working, DrivePcs
  <1>2. ~Work(row)
    BY DEF OrderInv, TokenInv, KindFits, CancelPcs, Work
  <1>3. \A i \in Items : i # row => queue'[i] = queue[i]
    BY <1>0, MarkDoneKeeps
  <1>4. SameRows
    <2>1. ASSUME NEW i \in Items, Work(i)' PROVE Work(i) /\ queue'[i] = queue[i]
      BY <1>0, <1>2, <1>3, <2>1, MarkDoneFrozen DEF Work, Frozen
    <2>2. QED
      BY <2>1 DEF SameRows
  <1>5. SameWork
    <2>1. ASSUME NEW u \in Tasks, Working(u)
          PROVE  Claims(u)' /\ active'[task[u].proc] = active[task[u].proc]
      <3>1. Claims(u) /\ task[u].item \in Items /\ task[u].item # row /\ u # t /\ task[u].proc \in Procs
        BY <1>0, <1>1, <1>2, <2>1, WorkItem DEF Order, Held
      <3>2. Claims(u)'
        BY <1>1, <1>3, <3>1 DEF Claims, Gone
      <3>3. active[task[u].proc] # t
        BY <1>0, <1>1, <2>1 DEF Order, Registered
      <3>4. QED
        BY <1>0, <3>1, <3>2, <3>3 DEF Return
    <2>2. QED
      BY <1>1, <2>1 DEF SameWork, Gone, Working
  <1>6. QED
    BY <1>0, <1>4, <1>5, OrderKept

LEMMA DispatchOrder ==
    ASSUME OrderInv, NoDead, NEW t \in Tasks, Dispatch(t) \/ DispatchFails(t) PROVE Order'
  <1>0. TypeOK
    BY DEF OrderInv, TokenInv, LockInv
  <1>1. CASE Acquire(t)
    BY <1>1, AcquireOrder
  <1>2. CASE Finish(t)
    <2>1. CASE task[t].pc = "close"
      BY <1>2, <2>1, CloseOrder
    <2>2. CASE task[t].pc = "finish"
      BY <1>2, <2>2, EndOrder DEF Finish, Driving, DrivePcs
    <2>3. QED
      BY <1>2, <2>1, <2>2 DEF Finish
  <1>3. CASE DispatchFails(t)
    BY <1>0, <1>3, DispatchFailsSays, EndOrder DEF DispatchFails, Driving
  <1>4. CASE Load(t)
    <2>1. UNCHANGED <<run, queue, active>>
      BY <1>4 DEF Load
    <2>2. QED
      BY <1>0, <1>4, <2>1, LoadSays, MoveOrder DEF DrivePcs
  <1>5. CASE InitRun(t)
    <2>1. UNCHANGED <<queue, active>>
      BY <1>5 DEF InitRun
    <2>2. QED
      BY <1>0, <1>5, <2>1, InitRunSays, MoveOrder DEF DrivePcs
  <1>6. CASE ApplyDecision(t)
    <2>1. UNCHANGED <<queue, active>>
      BY <1>6 DEF ApplyDecision
    <2>2. QED
      BY <1>0, <1>6, <2>1, ApplyDecisionSays, MoveOrder DEF DrivePcs
  <1>7. CASE Check(t)
    <2>1. UNCHANGED <<queue, active>>
      BY <1>7 DEF Check
    <2>2. QED
      BY <1>0, <1>7, <2>1, CheckSays, MoveOrder DEF DrivePcs
  <1>8. CASE Complete(t)
    <2>1. UNCHANGED <<queue, active>>
      BY <1>8 DEF Complete
    <2>2. QED
      BY <1>0, <1>8, <2>1, CompleteSays, MoveOrder DEF DrivePcs
  <1>9. CASE StepEnds(t)
    <2>1. UNCHANGED <<queue, active>>
      BY <1>9 DEF StepEnds
    <2>2. QED
      BY <1>0, <1>9, <2>1, StepEndsSays, MoveOrder DEF DrivePcs
  <1>10. CASE Settle(t)
    <2>1. UNCHANGED <<queue, active>>
      BY <1>10 DEF Settle
    <2>2. QED
      BY <1>0, <1>10, <2>1, SettleSays, MoveOrder DEF DrivePcs
  <1>11. QED
    BY <1>1, <1>2, <1>3, <1>4, <1>5, <1>6, <1>7, <1>8, <1>9, <1>10 DEF Dispatch

LEMMA CancelOrder ==
    ASSUME OrderInv, NoDead, NEW t \in Tasks, CancelHandler(t) PROVE Order'
  <1>0. TypeOK /\ queue \in [Items -> ItemRecord] /\ UNCHANGED active
    BY DEF OrderInv, TokenInv, LockInv, TypeOK, CancelHandler, Void, Await, ReadRun, WriteCancelled
  <1>1. CASE Void(t)
    <2>1. /\ task[t].pc = "void" /\ task'[t].pc \in {"read", "await"} /\ UNCHANGED run
          /\ \A u \in Tasks : /\ u # t => task'[u].pc = task[u].pc
                              /\ task'[u].item = task[u].item /\ task'[u].proc = task[u].proc
      BY <1>0, <1>1, VoidSays
    <2>2. \A u \in Tasks : /\ Working(u)' <=> Working(u)
                           /\ task[u].pc = "finish" => task'[u].pc = "finish"
      BY <2>1 DEF Working, DrivePcs
    <2>3. queue' = MarkDone(queue, {i \in Items : queue[i].state = "pending"})
      BY <1>1 DEF Void
    <2>4. \A i \in Items : queue[i].state # "pending" => queue'[i] = queue[i]
      BY <1>0, <2>3, MarkDoneKeeps
    <2>5. \A i \in Items : Work(i)' => Work(i) /\ queue'[i] = queue[i]
      BY <1>0, <2>3, <2>4, MarkDoneFrozen DEF Work, Live, Frozen
    <2>6. QED
      BY <1>0, <2>1, <2>2, <2>4, <2>5, StillOrder
  <1>2. CASE Await(t)
    BY <1>0, <1>2, AwaitSays, MoveOrder DEF CancelPcs
  <1>3. CASE ReadRun(t)
    BY <1>0, <1>3, ReadRunSays, MoveOrder DEF CancelPcs
  <1>4. CASE WriteCancelled(t)
    BY <1>0, <1>4, WriteCancelledSays, MoveOrder DEF CancelPcs
  <1>5. QED
    BY <1>1, <1>2, <1>3, <1>4 DEF CancelHandler

\* A stop is no work; a decision comes when no work is waiting.
LEMMA PlatformOrder ==
    ASSUME OneAtATime, OrderInv, NoDead, Platform PROVE Order'
  <1>0. /\ Order /\ queue \in [Items -> ItemRecord] /\ UNCHANGED <<run, task, active>>
    BY DEF OrderInv, TokenInv, LockInv, TypeOK, Platform, SubmitDecision, RequestCancel
  <1>1. CASE RequestCancel
    <2>1. PICK i \in Items : IsNextRow(i) /\ queue' = [queue EXCEPT ![i] = Row("cancel", 1)]
      BY <1>1 DEF RequestCancel
    <2>2. /\ queue[i].state = "absent" /\ queue'[i].kind = "cancel"
          /\ \A j \in Items : j # i => queue'[j] = queue[j]
      BY <1>0, <2>1 DEF IsNextRow, Row
    <2>3. QED
      BY <1>0, <2>2, StillOrder DEF Work, Live, Working
  <1>2. CASE SubmitDecision
    <2>1. PICK i \in Items, kind \in Decisions, s \in Steps :
            IsNextRow(i) /\ queue' = [queue EXCEPT ![i] = Row(kind, s)]
      BY <1>2, Bounds DEF SubmitDecision, Decisions
    <2>2. /\ queue[i].state = "absent" /\ queue'[i].kind \in Decisions /\ queue'[i].state = "pending"
          /\ \A j \in Items : j # i => queue'[j] = queue[j]
      BY <1>0, <2>1 DEF IsNextRow, Row
    <2>3. \A j \in Items : ~Fresh(j)
      BY <1>0, <1>2 DEF SubmitDecision, OneAtATime, Order, FreshDecides, Fresh, Work
    <2>4. \A u \in Tasks : Working(u) => task[u].item # i /\ task[u].item \in Items
      BY <2>2, WorkItem
    <2>5. \A j \in Items : Fresh(j)' => j = i
      <3>1. ASSUME NEW j \in Items, Fresh(j)', j # i PROVE Fresh(j)
        BY <1>0, <2>2, <3>1 DEF Fresh, Work, Live, Working
      <3>2. QED
        BY <2>3, <3>1
    <2>6. Staffed' /\ Once' /\ Registered'
      BY <1>0, <2>2 DEF Order, Staffed, Once, Registered, Work, Live, Working
    <2>7. Held'
      BY <1>0, <2>2, <2>4 DEF Order, Held, Claims, Working
    <2>8. QED
      BY <2>2, <2>5, <2>6, <2>7 DEF Order, OneFresh, FreshDecides
  <1>3. QED
    BY <1>1, <1>2 DEF Platform

\* The first boot finds a pending run, whose start item is in the queue.
LEMMA BootPending ==
    ASSUME OneEngine, OrderInv, NoDead, NEW p \in Procs, Boot(p) PROVE run.state = "pending"
  <1> DEFINE Up == {r \in Procs : proc[r] = "up"}
  <1>1. IsFiniteSet(Up)
    BY FS_Subset, DispatchAssumption
  <1>2. Cardinality(Up) \in Nat /\ Cardinality(Up) < 1
    BY <1>1, FS_CardinalityType DEF Boot, OneEngine
  <1>3. Up = {}
    BY <1>1, <1>2, FS_EmptySet
  <1>4. \A r \in Procs : proc[r] = "off"
    BY <1>3 DEF NoDead, OrderInv, TokenInv, LockInv, TypeOK
  <1>5. QED
    BY <1>4 DEF OrderInv, Unborn

LEMMA BootOrder ==
    ASSUME OneEngine, OrderInv, NoDead, NEW p \in Procs, Boot(p) PROVE Order'
  <1> DEFINE q == Demote(queue, StaleClaims(queue))
  <1>0. /\ TypeOK /\ queue \in [Items -> ItemRecord] /\ UNCHANGED <<run, task, active>>
        /\ StaleClaims(queue) \in SUBSET Claimed(queue)
    BY DEF OrderInv, TokenInv, LockInv, TypeOK, Boot, StaleClaims
  <1>1. \A u \in Tasks : ~Working(u)
    BY BootAlone DEF OrderInv, Working, DrivePcs
  <1>2. run.state = "pending"
    BY BootPending
  <1>3. queue' = q
    BY <1>2 DEF Boot
  <1>4. \A j \in Items : j \notin StaleClaims(queue) => queue'[j] = queue[j]
    BY <1>0, <1>3, DemoteKeeps
  <1>5. \A j \in Items : /\ queue'[j].kind = queue[j].kind
                         /\ Live(j)' => Live(j)
    BY <1>0, <1>3, DemoteFrozen DEF Live
  <1>6. \A j \in Items : Work(j)' => Work(j) /\ queue'[j] = queue[j]
    BY <1>1, <1>4, <1>5, InHand DEF Work, StaleClaims, Claimed
  <1>7. SameRows /\ SameWork
    BY <1>0, <1>1, <1>6 DEF SameRows, SameWork, Working
  <1>8. QED
    BY <1>0, <1>7, OrderKept

LEMMA HeartbeatOrder ==
    ASSUME OneEngine, OrderInv, NoDead,
           (\E i \in Items : Expire(i)) \/ (\E p \in Procs : Heartbeat(p))
    PROVE  Order'
  <1>0. queue \in [Items -> ItemRecord]
    BY DEF OrderInv, TokenInv, LockInv, TypeOK
  <1>1. UNCHANGED <<run, task, active>>
    BY DEF Expire, Heartbeat
  <1>2. \A i \in Items : queue'[i].kind = queue[i].kind /\ queue'[i].state = queue[i].state
    BY <1>0 DEF Expire, Heartbeat, ItemRecord
  <1>3. ASSUME NEW u \in Tasks, Working(u) PROVE Claims(u)'
    <2>1. Claims(u) /\ task[u].item \in Items /\ proc[task[u].proc] = "up"
      BY <1>3, WorkItem DEF OrderInv, Order, Held
    <2>2. queue'[task[u].item] = queue[task[u].item]
      BY <1>0, <2>1 DEF Claims, Expire, Heartbeat, OneEngine, StaleClaims
    <2>3. QED
      BY <1>1, <2>1, <2>2 DEF Claims
  <1>4. SameRows /\ SameWork
    BY <1>1, <1>2, <1>3 DEF SameRows, SameWork, Work, Live, Working
  <1>5. QED
    BY <1>1, <1>4, OrderKept

LEMMA NextOrder == OneEngine /\ OneAtATime /\ OrderInv /\ [Next]_vars => OrderInv'
  <1> SUFFICES ASSUME OneEngine, OneAtATime, OrderInv, [Next]_vars PROVE OrderInv'
    OBVIOUS
  <1>0. TypeOK /\ TokenInv /\ Unborn
    BY DEF OrderInv, TokenInv, LockInv
  <1>1. TokenInv' /\ NoStopYet'
    BY NextToken, StopRows DEF OrderInv
  <1>2. ASSUME NEW p \in Procs, Die(p) PROVE ~NoDead' /\ Unborn'
    <2>1. proc'[p] = "dead"
      BY <1>0, <1>2 DEF Die, TypeOK
    <2>2. QED
      BY <2>1 DEF NoDead, Unborn
  <1>3. CASE \A p \in Procs : ~Die(p)
    <2>1. UNCHANGED proc \/ \E p \in Procs : proc'[p] = "up" /\ proc' = [proc EXCEPT ![p] = "up"]
                                             /\ proc[p] = "off"
      BY <1>0, <1>3 DEF TypeOK, vars, Next, Platform, SubmitDecision, RequestCancel, Boot, Poll,
         Heartbeat, Expire, Environment, Crash, Shutdown, Dispatch, CancelHandler, DispatchFails,
         Acquire, Load, InitRun, ApplyDecision, Check, Complete, StepEnds, Settle, Finish, Void,
         Await, ReadRun, WriteCancelled
    <2>2. NoDead' => NoDead
      BY <1>0, <2>1 DEF NoDead, TypeOK
    <2>3. NoDead' => Order'
      <3>1. SUFFICES ASSUME NoDead PROVE Order'
        BY <2>2
      <3>2. CASE UNCHANGED vars
        BY <3>1, <3>2, StillOrder DEF vars, Work, Live, Working
      <3>3. QED
        BY <1>3, <3>1, <3>2, PlatformOrder, BootOrder, PollOrder, HeartbeatOrder, DispatchOrder,
           CancelOrder DEF Next, Environment, Crash, Shutdown
    <2>4. Unborn'
      <3>1. SUFFICES ASSUME \A p \in Procs : proc'[p] = "off" PROVE run'.state = "pending"
        BY DEF Unborn
      <3>2. UNCHANGED proc /\ run.state = "pending" /\ \A t \in Tasks : task[t].pc = "idle"
        BY <1>0, <2>1, <3>1 DEF Unborn, TokenInv, LockInv, TasksOwned, OneUp
      <3>3. UNCHANGED run
        BY <1>0, <3>1, <3>2 DEF vars, Next, Platform, SubmitDecision, RequestCancel, Boot, Poll,
           Heartbeat, Expire, Environment, Crash, Shutdown, Die, Dispatch, CancelHandler,
           DispatchFails, Acquire, Load, InitRun, ApplyDecision, Check, Complete, StepEnds, Settle,
           Finish, Void, Await, ReadRun, WriteCancelled, DrivePcs
      <3>4. QED
        BY <3>2, <3>3
    <2>5. QED
      BY <1>1, <2>3, <2>4 DEF OrderInv
  <1>4. QED
    BY <1>1, <1>2, <1>3 DEF OrderInv

LEMMA InitOrder == Init => OrderInv
  <1> SUFFICES ASSUME Init PROVE OrderInv
    OBVIOUS
  <1>1. TokenInv /\ NoStopYet /\ Unborn
    BY InitToken DEF Init, NoStopYet, Unborn
  <1>2. \A t \in Tasks : ~Working(t)
    BY DEF Init, Working, Idle, DrivePcs
  <1>3. \A i \in Items : Work(i) => i = 1 /\ queue[i].state = "pending"
    BY DEF Init, Work, Live
  <1>4. Order
    BY <1>2, <1>3 DEF Init, Order, Staffed, Held, Once, OneFresh, FreshDecides, Registered, Fresh
  <1>5. QED
    BY <1>1, <1>4 DEF OrderInv

\* What a cancel handler has settled by the time it is at its place in the code: from the
\* moment it has voided the pending tokens, no new work comes up and it waits for the only
\* task that is still to act on the run; when it reads the run, nobody is left to move it.
Quieted     == \A i \in Items : Work(i) => queue[i].state # "pending"
Nobody      == (\A i \in Items : ~Work(i)) /\ (\A t \in Tasks : ~Working(t))
WaitsFor(h) == \A t \in Tasks : Working(t) =>
                   /\ task[t].pc = "finish" \/ t = task[h].waits
                   /\ task[h].waits \in Tasks /\ Working(task[h].waits)
Handlers == \A h \in Tasks :
                /\ task[h].pc = "await" => Quieted /\ WaitsFor(h)
                /\ task[h].pc \in {"read", "write"} => Nobody
                /\ task[h].pc = "close" => Nobody /\ run.state \in TerminalStates

\* A stop somebody asked for is still to be dealt with, or was.
Stopping == {"void", "await", "read", "write"}
Told(i)  == queue[i].kind = "cancel" /\ queue[i].state = "pending"
Heard    == StopAsked => \/ \E i \in Items : Told(i)
                         \/ \E t \in Tasks : task[t].pc \in Stopping
                         \/ Nobody /\ run.state \in TerminalStates

StopInv == OrderInv /\ (NoDead => Handlers /\ Heard)

\* A step that brings up no work.
Calm == /\ \A i \in Items : Work(i)' =>
               Work(i) /\ (queue'[i].state = "pending" => queue[i].state = "pending")
        /\ \A t \in Tasks : Working(t)' => Working(t)

LEMMA CalmSays == Calm => (Quieted => Quieted') /\ (Nobody => Nobody')
  BY DEF Calm, Quieted, Nobody

LEMMA StopKept ==
    ASSUME Handlers, Heard, StopAsked, Calm,
           Nobody /\ run.state \in TerminalStates => run'.state \in TerminalStates,
           \A h \in Tasks : /\ task'[h].pc \in {"await", "read", "write", "close"}
                                 => task'[h].pc = task[h].pc
                            /\ task'[h].pc = "await" /\ WaitsFor(h) => WaitsFor(h)'
                            /\ task[h].pc \in Stopping => task'[h].pc \in Stopping,
           \A i \in Items : Told(i) => Told(i)' \/ \E t \in Tasks : task'[t].pc \in Stopping
    PROVE  Handlers' /\ Heard'
  BY CalmSays DEF Handlers, Heard

\* The tasks that work before a step do so after it, or their row is done.
LEMMA CalmRows ==
    ASSUME OrderInv, NoDead, Order', \A i \in Items : Work(i)' => Work(i),
           \A t \in Tasks : Working(t)' => Working(t),
           \A t \in Tasks : Working(t) => \/ Working(t)' /\ task'[t].item = task[t].item
                                          \/ \A i \in Items : i = task[t].item => ~Work(i)'
    PROVE  Calm
  <1>1. ASSUME NEW i \in Items, Work(i)', queue'[i].state = "pending", queue[i].state # "pending"
        PROVE  FALSE
    <2>1. Work(i) /\ queue[i].state = "claimed"
      BY <1>1 DEF Work, Live
    <2>2. PICK t \in Tasks : Working(t) /\ task[t].item = i
      BY <2>1 DEF OrderInv, Order, Staffed
    <2>3. Working(t)' /\ task'[t].item = i
      BY <1>1, <2>2
    <2>4. Claims(t)'
      BY <2>3 DEF Order, Held
    <2>5. QED
      BY <1>1, <2>3, <2>4 DEF Claims
  <1>2. QED
    BY <1>1 DEF Calm

\* After a stop request, a decision is not accepted, and no recovery runs.
LEMMA NoNewWork ==
    ASSUME OneEngine, Patient, OrderInv, NoDead, StopAsked, [Next]_vars, NEW i \in Items, Work(i)'
    PROVE  Work(i)
  <1>0. TypeOK
    BY DEF OrderInv, TokenInv, LockInv
  <1>1. ~SubmitDecision
    BY DEF Patient, StopAsked, SubmitDecision, Requests
  <1>2. ~Added(i)
    BY <1>1, BootPending DEF Added, Work
  <1>3. QED
    BY <1>0, <1>2, RowsSay DEF Frozen, Work

\* The setting of the lemmas below: a step of the engine's first life, after a stop request.
Heeding == /\ OneEngine /\ Patient /\ OrderInv /\ NoDead /\ Handlers /\ Heard /\ StopAsked
           /\ Order' /\ [Next]_vars

\* Nobody works: the run is left alone, or cancelled.
LEMMA NobodyMoves ==
    ASSUME OrderInv, Nobody, [Next]_vars, run.state \in TerminalStates
    PROVE  run'.state \in TerminalStates
  <1>0. TypeOK /\ \A t \in Tasks : task[t].pc \notin DrivePcs
    BY DEF OrderInv, TokenInv, LockInv, Nobody, Working
  <1>1. CASE UNCHANGED run
    BY <1>1
  <1>2. ASSUME NEW t \in Tasks, WriteCancelled(t) PROVE run'.state \in TerminalStates
    BY <1>0, <1>2, WriteCancelledSays DEF TerminalStates
  <1>3. ASSUME NEW t \in Tasks, Dispatch(t) \/ DispatchFails(t) PROVE UNCHANGED run
    BY <1>0, <1>3 DEF Dispatch, DispatchFails, Acquire, Load, InitRun, ApplyDecision, Check,
       Complete, StepEnds, Settle, Finish, DrivePcs
  <1>4. ASSUME NEW t \in Tasks, CancelHandler(t) PROVE UNCHANGED run \/ WriteCancelled(t)
    BY <1>4 DEF CancelHandler, Void, Await, ReadRun
  <1>5. ASSUME \/ Platform \/ \E i \in Items : Expire(i)
               \/ \E p \in Procs : Boot(p) \/ Poll(p) \/ Heartbeat(p) \/ Crash(p) \/ Shutdown(p)
        PROVE  UNCHANGED run
    BY <1>5 DEF Platform, SubmitDecision, RequestCancel, Crash, Shutdown, Die, Heartbeat, Expire,
       Boot, Poll
  <1>6. CASE \E t \in Tasks : Dispatch(t) \/ CancelHandler(t) \/ DispatchFails(t)
    BY <1>1, <1>2, <1>3, <1>4, <1>6
  <1>7. QED
    BY <1>1, <1>5, <1>6 DEF vars, Next, Environment

\* No task moves.
LEMMA RowsHeed ==
    ASSUME Heeding, UNCHANGED task, \A i \in Items : Told(i) => Told(i)' PROVE Handlers' /\ Heard'
  <1>1. Calm
    BY NoNewWork, CalmRows DEF Heeding, Working
  <1>2. \A h \in Tasks : WaitsFor(h) => WaitsFor(h)'
    BY DEF WaitsFor, Working
  <1>3. QED
    BY <1>1, <1>2, NobodyMoves, StopKept DEF Heeding

\* The task t that works goes on working.
LEMMA DriveHeed ==
    ASSUME Heeding, NEW t \in Tasks, Moved(t), task'[t].waits = task[t].waits,
           task[t].pc \in {"lock"} \cup (DrivePcs \ {"finish"}), task'[t].pc \in DrivePcs,
           \A i \in Items : Told(i) => Told(i)'
    PROVE  Handlers' /\ Heard'
  <1>1. \A u \in Tasks : /\ Working(u)' <=> Working(u)
                         /\ task'[u].item = task[u].item /\ task'[u].waits = task[u].waits
                         /\ u # t => task'[u].pc = task[u].pc
    BY DEF Moved, Working
  <1>2. Calm
    BY <1>1, NoNewWork, CalmRows DEF Heeding
  <1>3. \A h \in Tasks : WaitsFor(h) => WaitsFor(h)'
    BY <1>1 DEF WaitsFor, Working, DrivePcs
  <1>4. \A h \in Tasks : /\ task'[h].pc \in {"await", "read", "write", "close"}
                              => task'[h].pc = task[h].pc
                         /\ task[h].pc \in Stopping => task'[h].pc \in Stopping
    BY <1>1 DEF Stopping, DrivePcs
  <1>5. QED
    BY <1>2, <1>3, <1>4, NobodyMoves, StopKept DEF Heeding

\* The task t that works returns.
LEMMA EndHeed ==
    ASSUME Heeding, NEW t \in Tasks, Driving(t), Return(t),
           queue' = MarkDone(queue, {task[t].item})
    PROVE  Handlers' /\ Heard'
  <1>0. /\ TypeOK /\ task[t].item \in Items /\ task[t].pc # "idle" /\ task[t].pc \notin CancelPcs
        /\ Working(t)
    BY DEF Heeding, OrderInv, TokenInv, LockInv, TypeOK, TaskRecord, Driving, DrivePcs, CancelPcs,
           Working
  <1>1. Gone(t)
    BY <1>0, ReturnSays
  <1>2. \A u \in Tasks : /\ Working(u)' <=> Working(u) /\ u # t
                         /\ u # t => task'[u].pc = task[u].pc /\ task'[u].item = task[u].item
                                     /\ task'[u].waits = IF task[u].waits = t THEN NoTask
                                                         ELSE task[u].waits
    <2>1. \A u \in Tasks : u # t => task'[u].waits = IF task[u].waits = t THEN NoTask
                                                     ELSE task[u].waits
      <3>1. task \in [Tasks -> TaskRecord]
        BY <1>0 DEF TypeOK
      <3>2. QED
        BY <3>1 DEF Return, TaskRecord
    <2>2. ~Working(t)' /\ \A u \in Tasks : u # t => (Working(u)' <=> Working(u))
      BY <1>1 DEF Gone, Idle, Working, DrivePcs
    <2>3. QED
      BY <1>1, <2>1, <2>2 DEF Gone
  <1>3. /\ \A i \in Items : i = task[t].item => ~Work(i)'
        /\ \A i \in Items : Told(i) => Told(i)'
    <2>1. \A i \in Items : i # task[t].item => queue'[i] = queue[i]
      BY <1>0, MarkDoneKeeps DEF TypeOK
    <2>2. \A i \in Items : i = task[t].item => ~Work(i)'
      BY <1>0, MarkDoneFrozen DEF Work
    <2>3. queue[task[t].item].kind # "cancel"
      BY <1>0 DEF Heeding, OrderInv, TokenInv, KindFits
    <2>4. ASSUME NEW i \in Items, Told(i) PROVE Told(i)'
      BY <2>1, <2>3, <2>4 DEF Told
    <2>5. QED
      BY <2>2, <2>4
  <1>4. Calm
    BY <1>0, <1>2, <1>3, NoNewWork, CalmRows DEF Heeding
  <1>5. ASSUME NEW h \in Tasks, WaitsFor(h), h # t PROVE WaitsFor(h)'
    <2>1. SUFFICES ASSUME NEW u \in Tasks, Working(u)'
                   PROVE  /\ task'[u].pc = "finish" \/ u = task'[h].waits
                          /\ task'[h].waits \in Tasks /\ Working(task[h].waits)'
      BY DEF WaitsFor
    <2>2. Working(u) /\ u # t /\ task'[u].pc = task[u].pc
      BY <1>2, <2>1
    <2>3. task[u].pc = "finish" \/ u = task[h].waits
      BY <1>5, <2>2 DEF WaitsFor
    <2>4. task[h].waits \in Tasks /\ Working(task[h].waits)
      BY <1>5, <2>2 DEF WaitsFor
    <2>5. ~Driving(u)
      BY <2>2, SoleDriver DEF Heeding, OrderInv, TokenInv
    <2>6. u = task[h].waits
      BY <2>3, <2>5 DEF Driving, DrivePcs
    <2>7. QED
      BY <1>2, <1>5, <2>1, <2>2, <2>6
  <1>6. task'[t].pc = "idle" /\ task[t].pc \notin Stopping
    BY <1>0, <1>1 DEF Gone, Idle, Stopping, CancelPcs
  <1>7. \A h \in Tasks : /\ task'[h].pc \in {"await", "read", "write", "close"}
                              => task'[h].pc = task[h].pc
                         /\ task[h].pc \in Stopping => task'[h].pc \in Stopping
    BY <1>2, <1>6
  <1>8. QED
    BY <1>2, <1>3, <1>4, <1>5, <1>6, <1>7, NobodyMoves, StopKept DEF Heeding

\* A handler that closes its item leaves nobody behind.
LEMMA CloseHeed ==
    ASSUME Heeding, NEW t \in Tasks, task[t].pc = "close", Finish(t)
    PROVE  Handlers' /\ Heard'
  <1>0. TypeOK
    BY DEF Heeding, OrderInv, TokenInv, LockInv
  <1>1. Nobody /\ run.state \in TerminalStates
    BY DEF Heeding, Handlers
  <1>2. Gone(t) /\ UNCHANGED run
    BY <1>0, FinishSays
  <1>3. \A u \in Tasks : task'[u].pc = task[u].pc \/ task'[u].pc = "idle"
    BY <1>2 DEF Gone, Idle
  <1>4. Nobody'
    BY <1>1, <1>3, NoNewWork DEF Heeding, Nobody, Working, DrivePcs
  <1>5. Quieted' /\ \A h \in Tasks : WaitsFor(h)'
    BY <1>4 DEF Nobody, Quieted, WaitsFor
  <1>6. QED
    BY <1>1, <1>2, <1>4, <1>5 DEF Handlers, Heard

\* The cancel handler, step by step.
LEMMA VoidHeed ==
    ASSUME Heeding, NEW t \in Tasks, Void(t) PROVE Handlers' /\ Heard'
  <1> DEFINE target == active[task[t].proc]
  <1>0. /\ TypeOK /\ Order /\ queue \in [Items -> ItemRecord] /\ task[t].pc = "void"
        /\ task[t].proc \in Procs /\ UNCHANGED run /\ proc[task[t].proc] = "up"
    BY DEF Heeding, OrderInv, TokenInv, LockInv, TypeOK, TasksOwned, OneUp, Void
  <1>1. queue' = MarkDone(queue, {i \in Items : queue[i].state = "pending"})
    BY DEF Void
  <1>2. /\ \A u \in Tasks : u # t => /\ task'[u].pc = task[u].pc /\ task'[u].item = task[u].item
                                     /\ task'[u].waits = task[u].waits
        /\ task'[t].waits = target
        /\ task'[t].pc = IF target = NoTask THEN "read" ELSE "await"
    <2>1. task \in [Tasks -> TaskRecord] /\ \A u \in Tasks : task[u] \in TaskRecord
      BY <1>0 DEF TypeOK
    <2>2. QED
      BY <2>1 DEF Void, TaskRecord
  <1>3. \A u \in Tasks : Working(u)' <=> Working(u)
    BY <1>0, <1>2 DEF Working, DrivePcs
  <1>4. \A i \in Items : queue'[i].state # "pending"
    BY <1>0, <1>1 DEF MarkDone, ItemRecord
  <1>5. Quieted'
    BY <1>4 DEF Quieted
  <1>6. Calm
    BY <1>0, <1>3, <1>4, NoNewWork DEF Heeding, Calm
  <1>7. ASSUME NEW h \in Tasks, WaitsFor(h), h # t PROVE WaitsFor(h)'
    BY <1>0, <1>2, <1>3, <1>7 DEF WaitsFor, Working, DrivePcs
  \* The registered task is the one that is still to work.
  <1>8. WaitsFor(t)'
    <2>1. ASSUME NEW u \in Tasks, Working(u)'
          PROVE  /\ task'[u].pc = "finish" \/ u = target
                 /\ target \in Tasks /\ Working(target)
      <3>1. Working(u) /\ u # t /\ task[u].proc = task[t].proc
        BY <1>0, <1>3, <2>1, WorkItem DEF Heeding, OrderInv, TokenInv, OneUp, Working, DrivePcs
      <3>2. target \in Tasks /\ Working(target) /\ (task[u].pc # "finish" => target = u)
        BY <1>0, <3>1 DEF Order, Registered
      <3>3. QED
        BY <1>2, <3>1, <3>2
    <2> HIDE DEF target
    <2>2. QED
      BY <1>2, <1>3, <2>1 DEF WaitsFor, Working
  <1>9. task'[t].pc = "read" => Nobody'
    <2>1. SUFFICES ASSUME task'[t].pc = "read" PROVE Nobody'
      OBVIOUS
    <2>2. task'[t].waits \notin Tasks
      BY <1>2, <2>1, Bounds
    <2>3. \A u \in Tasks : ~Working(u)'
      BY <1>8, <2>2 DEF WaitsFor
    <2>4. \A i \in Items : ~Work(i)'
      BY <1>5, <2>3 DEF Heeding, Order, Staffed, Quieted, Work, Live
    <2>5. QED
      BY <2>3, <2>4 DEF Nobody
  <1>10. Handlers'
    <2>1. ASSUME NEW h \in Tasks, h # t
          PROVE  /\ task'[h].pc = "await" => Quieted' /\ WaitsFor(h)'
                 /\ task'[h].pc \in {"read", "write"} => Nobody'
                 /\ task'[h].pc = "close" => Nobody' /\ run'.state \in TerminalStates
      BY <1>0, <1>2, <1>5, <1>6, <1>7, <2>1, CalmSays DEF Heeding, Handlers
    <2>2. QED
      BY <1>2, <1>5, <1>8, <1>9, <2>1 DEF Handlers
  <1>11. Heard'
    BY <1>2 DEF Heard, Stopping
  <1>12. QED
    BY <1>10, <1>11

LEMMA CancelHeed ==
    ASSUME Heeding, NEW t \in Tasks, CancelHandler(t) PROVE Handlers' /\ Heard'
  <1>0. TypeOK /\ Order
    BY DEF Heeding, OrderInv, TokenInv, LockInv
  <1>1. CASE Void(t)
    BY <1>1, VoidHeed
  \* The others only move their handler on.
  <1>2. ASSUME Moved(t), UNCHANGED queue, task[t].pc \in Stopping, task'[t].pc \in CancelPcs,
               task'[t].pc # "await",
               task'[t].pc \in {"read", "write", "close"} => Nobody,
               task'[t].pc = "close" => run'.state \in TerminalStates
        PROVE  Handlers' /\ Heard'
    <2>1. \A u \in Tasks : /\ Working(u)' <=> Working(u)
                           /\ u # t => task'[u] = task[u]
      BY <1>2 DEF Moved, Working, Stopping, CancelPcs, DrivePcs
    <2>2. (Quieted => Quieted') /\ (Nobody => Nobody')
      BY <1>2, <2>1 DEF Quieted, Nobody, Work, Live
    <2>3. ASSUME NEW h \in Tasks, WaitsFor(h), h # t PROVE WaitsFor(h)'
      BY <1>2, <2>1, <2>3 DEF WaitsFor, Working, Stopping, DrivePcs
    <2>4. Handlers'
      <3>1. ASSUME NEW h \in Tasks, h # t
            PROVE  /\ task'[h].pc = "await" => Quieted' /\ WaitsFor(h)'
                   /\ task'[h].pc \in {"read", "write"} => Nobody'
                   /\ task'[h].pc = "close" => Nobody' /\ run'.state \in TerminalStates
        BY <2>1, <2>2, <2>3, <3>1, NobodyMoves DEF Heeding, Handlers
      <3>2. QED
        BY <1>2, <2>2, <3>1 DEF Handlers
    <2>5. Heard'
      <3>1. CASE task'[t].pc = "close"
        BY <1>2, <2>2, <3>1 DEF Heard
      <3>2. CASE task'[t].pc # "close"
        BY <1>2, <3>2 DEF Heard, Stopping, CancelPcs
      <3>3. QED
        BY <3>1, <3>2
    <2>6. QED
      BY <2>4, <2>5
  <1>3. CASE Await(t)
    <2>1. task[t].pc = "await" /\ task[t].waits = NoTask
      BY <1>3 DEF Await, Heeding, Patient
    <2>2. Quieted /\ \A u \in Tasks : ~Working(u)
      BY <2>1, Bounds DEF Heeding, Handlers, WaitsFor
    <2>3. Nobody
      BY <1>0, <2>2 DEF Nobody, Quieted, Order, Staffed, Work, Live
    <2>4. QED
      BY <1>0, <1>2, <1>3, <2>3, AwaitSays DEF Stopping, CancelPcs
  <1>4. CASE ReadRun(t)
    <2>1. Nobody
      BY <1>0, <1>4, ReadRunSays DEF Heeding, Handlers
    <2>2. QED
      BY <1>0, <1>2, <1>4, <2>1, ReadRunSays DEF Stopping, CancelPcs
  <1>5. CASE WriteCancelled(t)
    <2>1. Nobody
      BY <1>0, <1>5, WriteCancelledSays DEF Heeding, Handlers
    <2>2. QED
      BY <1>0, <1>2, <1>5, <2>1, WriteCancelledSays DEF Stopping, CancelPcs, TerminalStates
  <1>6. QED
    BY <1>1, <1>3, <1>4, <1>5 DEF CancelHandler

\* A poll takes up work only if no handler has got beyond its void.
LEMMA PollHeed ==
    ASSUME Heeding, NEW p \in Procs, Poll(p) PROVE Handlers' /\ Heard'
  <1>0. TypeOK /\ Order
    BY DEF Heeding, OrderInv, TokenInv, LockInv
  <1>1. ASSUME NEW i \in Items, Told(i), queue'[i] = queue[i] PROVE Told(i)'
    BY <1>1 DEF Told
  <1>2. CASE UNCHANGED task /\ \A j \in Items : ~(queue[j].state = "claimed" /\ queue[j].stale)
                                                  => queue'[j] = queue[j]
    BY <1>1, <1>2, RowsHeed DEF Told
  <1>3. ASSUME NEW i \in Items, NEW t \in Tasks, Started(p, i, t) PROVE Handlers' /\ Heard'
    <2>1. /\ \A u \in Tasks : u # t => task'[u] = task[u]
          /\ task[t].pc = "idle" /\ task'[t].pc \in {"void", "lock"}
          /\ task'[t].pc = "void" <=> queue[i].kind = "cancel"
      BY <1>3 DEF Started
    <2>2. \A u \in Tasks : u # t => (Working(u)' <=> Working(u))
      BY <2>1 DEF Working
    <2>3. ~Working(t) /\ (task'[t].pc = "void" => ~Working(t)')
      BY <2>1 DEF Working, DrivePcs
    <2>4. \A j \in Items : Told(j) => Told(j)' \/ task'[t].pc = "void"
      <3>1. ASSUME NEW j \in Items, Told(j), j # i PROVE Told(j)'
        BY <1>1, <1>3, <3>1 DEF Started, Told
      <3>2. QED
        BY <2>1, <3>1 DEF Told
    <2>5. CASE task'[t].pc = "void"
      <3>1. Calm
        BY <2>1, <2>2, <2>3, <2>5, NoNewWork, CalmRows DEF Heeding
      <3>2. ASSUME NEW h \in Tasks, WaitsFor(h), task'[h].pc = "await" PROVE WaitsFor(h)'
        <4>1. h # t /\ task'[h] = task[h]
          BY <2>1, <2>5, <3>2
        <4>2. \A u \in Tasks : Working(u)' <=> Working(u)
          BY <2>2, <2>3, <2>5
        <4>3. \A u \in Tasks : Working(u) => task'[u] = task[u]
          BY <2>1, <2>3
        <4>4. QED
          BY <3>2, <4>1, <4>2, <4>3 DEF WaitsFor
      <3>3. \A h \in Tasks : /\ task'[h].pc \in {"await", "read", "write", "close"}
                                  => task'[h].pc = task[h].pc
                             /\ task[h].pc \in Stopping => task'[h].pc \in Stopping
        BY <2>1, <2>5 DEF Stopping
      <3>4. QED
        BY <2>4, <2>5, <3>1, <3>2, <3>3, NobodyMoves, StopKept DEF Heeding, Stopping
    <2>6. CASE task'[t].pc = "lock"
      <3>1. Work(i) /\ queue[i].state = "pending"
        BY <1>3, <2>1, <2>6, InHand DEF Heeding, Started, Takeable, Work, Live
      <3>2. ~Quieted /\ ~Nobody
        BY <3>1 DEF Quieted, Nobody
      <3>3. \A h \in Tasks : task[h].pc \notin {"await", "read", "write", "close"}
        BY <3>2 DEF Heeding, Handlers
      <3>4. \A h \in Tasks : task'[h].pc \notin {"await", "read", "write", "close"}
        BY <2>1, <2>6, <3>3
      <3>5. Handlers'
        BY <3>4 DEF Handlers
      <3>6. CASE \E j \in Items : Told(j)
        <4>1. PICK j \in Items : Told(j)
          BY <3>6
        <4>2. Told(j)'
          BY <2>4, <2>6, <4>1
        <4>3. QED
          BY <3>5, <4>2 DEF Heard, Told
      <3>7. ASSUME NEW u \in Tasks, task[u].pc \in Stopping PROVE Heard'
        <4>1. task'[u] = task[u]
          BY <2>1, <3>7 DEF Stopping
        <4>2. QED
          BY <3>7, <4>1 DEF Heard
      <3>8. QED
        BY <3>2, <3>5, <3>6, <3>7 DEF Heeding, Heard
    <2>7. QED
      BY <2>1, <2>5, <2>6
  <1>4. QED
    BY <1>0, <1>2, <1>3, PollStarts

LEMMA DispatchHeed ==
    ASSUME Heeding, NEW t \in Tasks, Dispatch(t) \/ DispatchFails(t) PROVE Handlers' /\ Heard'
  <1>0. TypeOK /\ Order /\ task \in [Tasks -> TaskRecord] /\ task[t] \in TaskRecord
    BY DEF Heeding, OrderInv, TokenInv, LockInv, TypeOK
  <1>1. CASE Finish(t)
    <2>1. CASE task[t].pc = "close"
      BY <1>1, <2>1, CloseHeed
    <2>2. CASE task[t].pc = "finish"
      BY <1>1, <2>2, EndHeed DEF Finish, Driving, DrivePcs
    <2>3. QED
      BY <1>1, <2>1, <2>2 DEF Finish
  <1>2. CASE DispatchFails(t)
    BY <1>0, <1>2, DispatchFailsSays, EndHeed DEF DispatchFails, Driving
  <1>3. CASE Acquire(t)
    <2>1. task[t].pc = "lock" /\ Working(t)
      BY <1>3 DEF Acquire, Working
    <2>2. Claims(t) /\ task[t].item \in Items
      BY <1>0, <2>1, WorkItem DEF Heeding, Order, Held
    <2>3. Goto(t, "load") /\ Moved(t) /\ task'[t].pc = "load"
      BY <1>0, <1>3, <2>2, GotoSays DEF Acquire, Claims
    <2>4. task'[t].waits = task[t].waits
      BY <1>0, <2>3 DEF Goto, TaskRecord
    <2>5. ASSUME NEW i \in Items, Told(i) PROVE Told(i)'
      <3> DEFINE q == Demote(queue, Claimed(queue) \ {task[t].item})
      <3>1. q \in [Items -> ItemRecord] /\ q[i] = queue[i] /\ i # task[t].item
        BY <1>0, <2>2, <2>5, DemoteType, DemoteKeeps DEF TypeOK, Told, Claimed, Claims
      <3>2. queue' = [q EXCEPT ![task[t].item].stale = FALSE]
        BY <1>3, <2>2 DEF Acquire, Claims
      <3> HIDE DEF q
      <3>3. queue'[i] = queue[i]
        BY <3>1, <3>2
      <3>4. QED
        BY <2>5, <3>3 DEF Told
    <2>6. QED
      BY <2>1, <2>3, <2>4, <2>5, DriveHeed DEF DrivePcs
  \* The queue is as it was.
  <1>4. ASSUME Moved(t), UNCHANGED queue, task'[t].waits = task[t].waits,
               task[t].pc \in DrivePcs \ {"finish"}, task'[t].pc \in DrivePcs
        PROVE  Handlers' /\ Heard'
    BY <1>4, DriveHeed DEF Told
  <1>5. CASE Load(t)
    <2>1. task'[t].waits = task[t].waits
      BY <1>0, <1>5 DEF Load, TaskRecord
    <2>2. QED
      BY <1>0, <1>4, <1>5, <2>1, LoadSays DEF DrivePcs
  <1>6. ASSUME NEW state, NEW pc, WriteState(t, state, pc) \/ Goto(t, pc)
        PROVE  task'[t].waits = task[t].waits
    BY <1>0, <1>6 DEF WriteState, Goto, TaskRecord
  <1>7. CASE InitRun(t)
    <2>1. task'[t].waits = task[t].waits
      BY <1>6, <1>7 DEF InitRun
    <2>2. QED
      BY <1>0, <1>4, <1>7, <2>1, InitRunSays DEF DrivePcs
  <1>8. CASE ApplyDecision(t)
    <2>1. task'[t].waits = task[t].waits
      BY <1>0, <1>6, <1>8 DEF ApplyDecision, TaskRecord
    <2>2. QED
      BY <1>0, <1>4, <1>8, <2>1, ApplyDecisionSays DEF DrivePcs
  <1>9. CASE Check(t)
    <2>1. task'[t].waits = task[t].waits
      BY <1>6, <1>9 DEF Check
    <2>2. QED
      BY <1>0, <1>4, <1>9, <2>1, CheckSays DEF DrivePcs
  <1>10. CASE Complete(t)
    <2>1. task'[t].waits = task[t].waits
      BY <1>6, <1>10 DEF Complete
    <2>2. QED
      BY <1>0, <1>4, <1>10, <2>1, CompleteSays DEF DrivePcs
  <1>11. CASE StepEnds(t)
    <2>1. task'[t].waits = task[t].waits
      BY <1>6, <1>11 DEF StepEnds
    <2>2. QED
      BY <1>0, <1>4, <1>11, <2>1, StepEndsSays DEF DrivePcs
  <1>12. CASE Settle(t)
    <2>1. task'[t].waits = task[t].waits
      BY <1>0, <1>6, <1>12 DEF Settle, TaskRecord
    <2>2. QED
      BY <1>0, <1>4, <1>12, <2>1, SettleSays DEF DrivePcs
  <1>13. QED
    BY <1>1, <1>2, <1>3, <1>5, <1>7, <1>8, <1>9, <1>10, <1>11, <1>12 DEF Dispatch

\* Nobody runs when a process boots, and a stop that waits goes on waiting.
LEMMA RowsToldKept ==
    ASSUME Heeding, \/ Platform \/ UNCHANGED vars \/ \E p \in Procs : Boot(p) \/ Heartbeat(p)
                    \/ \E i \in Items : Expire(i)
    PROVE  Handlers' /\ Heard'
  <1>0. TypeOK /\ queue \in [Items -> ItemRecord]
    BY DEF Heeding, OrderInv, TokenInv, LockInv, TypeOK
  <1>1. UNCHANGED task
    BY DEF Platform, SubmitDecision, RequestCancel, Boot, Heartbeat, Expire, vars
  <1>2. ASSUME NEW i \in Items, Told(i) PROVE Told(i)'
    <2>1. CASE Platform
      BY <1>0, <1>2, <2>1 DEF Platform, SubmitDecision, RequestCancel, IsNextRow, Told
    <2>2. ASSUME NEW p \in Procs, Boot(p) PROVE Told(i)'
      <3>1. queue' = Demote(queue, StaleClaims(queue))
        BY <2>2, BootPending DEF Boot, Heeding
      <3>2. i \notin StaleClaims(queue) /\ StaleClaims(queue) \in SUBSET Claimed(queue)
        BY <1>2 DEF Told, StaleClaims, Claimed
      <3>3. QED
        BY <1>0, <1>2, <3>1, <3>2, DemoteKeeps DEF Told
    <2>3. CASE UNCHANGED queue
      BY <1>2, <2>3 DEF Told
    <2>4. CASE (\E p \in Procs : Heartbeat(p)) \/ (\E j \in Items : Expire(j))
      BY <1>0, <1>2, <2>4 DEF Heartbeat, Expire, StaleClaims, Claimed, Told
    <2>5. QED
      BY <2>1, <2>2, <2>3, <2>4 DEF vars
  <1>3. QED
    BY <1>1, <1>2, RowsHeed

LEMMA NextStop == OneEngine /\ OneAtATime /\ Patient /\ StopInv /\ [Next]_vars => StopInv'
  <1> SUFFICES ASSUME OneEngine, OneAtATime, Patient, StopInv, [Next]_vars, NoDead'
               PROVE  Handlers' /\ Heard'
    BY NextOrder DEF StopInv
  <1>0. OrderInv /\ OrderInv' /\ TokenInv /\ TokenInv' /\ TypeOK /\ Order'
    BY NextOrder DEF StopInv, OrderInv, TokenInv, LockInv
  <1>1. \A p \in Procs : ~Die(p)
    BY <1>0 DEF NoDead, Die, TypeOK
  <1>2. NoDead
    <2>1. ASSUME NEW p \in Procs, proc[p] = "dead" PROVE proc'[p] = "dead"
      <3>1. ASSUME NEW r \in Procs, Boot(r) PROVE proc'[p] = "dead"
        BY <1>0, <2>1, <3>1 DEF TypeOK, Boot
      <3>2. QED
        BY <1>1, <2>1, <3>1 DEF vars, Next, Platform, SubmitDecision, RequestCancel, Poll,
           Heartbeat, Expire, Environment, Crash, Shutdown, Dispatch, CancelHandler, DispatchFails,
           Acquire, Load, InitRun, ApplyDecision, Check, Complete, StepEnds, Settle, Finish, Void,
           Await, ReadRun, WriteCancelled
    <2>2. QED
      BY <2>1 DEF NoDead
  <1>3. CASE StopAsked
    <2>1. Heeding
      BY <1>0, <1>2, <1>3 DEF StopInv, Heeding
    <2>2. CASE Platform \/ UNCHANGED vars \/ (\E p \in Procs : Boot(p) \/ Heartbeat(p))
               \/ (\E i \in Items : Expire(i))
      BY <2>1, <2>2, RowsToldKept
    <2>3. QED
      BY <1>1, <2>1, <2>2, PollHeed, DispatchHeed, CancelHeed DEF Next, Environment, Crash, Shutdown
  <1>4. CASE ~StopAsked
    <2>1. \A t \in Tasks : task[t].pc \notin CancelPcs
      BY <1>0, <1>4, HandlerAsked
    <2>2. CASE ~StopAsked'
      <3>1. \A t \in Tasks : task'[t].pc \notin CancelPcs
        <4>1. KindFits' /\ \A t \in Tasks : task'[t].item \in Items
          BY <1>0 DEF TokenInv, LockInv, TypeOK, TaskRecord
        <4>2. QED
          BY <2>2, <4>1 DEF KindFits, StopAsked, CancelPcs
      <3>2. QED
        BY <2>2, <3>1 DEF Handlers, Heard, CancelPcs
    <2>3. CASE StopAsked'
      <3>1. UNCHANGED task
        BY <1>0, <1>4, <2>3, StopRows DEF OrderInv
      <3>2. Handlers'
        BY <2>1, <3>1 DEF Handlers, CancelPcs
      <3>3. PICK i \in Items : queue'[i].state # "absent" /\ queue'[i].kind = "cancel"
        BY <2>3 DEF StopAsked
      <3>4. queue[i].kind # "cancel"
        BY <1>0, <1>4 DEF StopAsked, OrderInv, NoStopYet
      <3>5. Told(i)'
        BY <1>0, <3>3, <3>4, RowsSay DEF Frozen, Added, Told
      <3>6. QED
        BY <3>2, <3>5 DEF Heard, Told
    <2>4. QED
      BY <2>2, <2>3
  <1>5. QED
    BY <1>3, <1>4

LEMMA InitStop == Init => StopInv
  <1> SUFFICES ASSUME Init PROVE StopInv
    OBVIOUS
  <1>1. Handlers
    BY DEF Init, Handlers, Idle
  <1>2. Heard
    BY DEF Init, Heard, StopAsked
  <1>3. QED
    BY <1>1, <1>2, InitOrder DEF StopInv

\* With one engine at a time, a reviewer who waits for the last decision and decides nothing
\* after a stop, and handlers that wait as long as it takes, a stop is never swallowed in the
\* engine's first life: once all is quiet, a run that was asked to stop is finished.
THEOREM StopsKept == OneEngine /\ OneAtATime /\ Patient => (Spec => []StopNotLost)
  <1> SUFFICES ASSUME OneEngine, OneAtATime, Patient PROVE Spec => []StopNotLost
    OBVIOUS
  <1>1. StopInv => StopNotLost
    <2>1. SUFFICES ASSUME StopInv, Quiet, NoDead, \E i \in Requests : queue[i].kind = "cancel"
                   PROVE  run.state \in TerminalStates
      BY DEF StopNotLost, NoDead
    <2>2. StopAsked /\ Heard
      BY <2>1 DEF StopInv, StopAsked, Requests
    <2>3. QED
      BY <2>1, <2>2 DEF Heard, Quiet, Told, Live, Stopping
  <1>2. StopInv /\ [Next]_vars => StopInv'
    BY NextStop
  <1>3. QED
    BY <1>1, <1>2, InitStop, PTL DEF Spec
=============================================================================
