------------------------------ MODULE Session ------------------------------
(***************************************************************************)
(* An ad-hoc session (ADR-016): one run, one step row, and a container     *)
(* that lives across turns.  _session_turn, _end_session and               *)
(* reap_idle_session of engine_service/state_machine.py, reconcile_turn of *)
(* runtime.py, the idle reaper and the stop handler of worker.py, the turn *)
(* and end endpoints of platform_api/routers/runs.py, and the inbox loop   *)
(* of agent/run_skill.sh.                                                  *)
(*                                                                         *)
(* Dispatch and container talk through two objects, inbox and outbox,      *)
(* whose keys are those of the container's incarnation (attempt_no); what  *)
(* tells one turn from the next is the sequence number alone.  The reaper  *)
(* is a second task on the same container, outside the per-run lock; what  *)
(* tells it that a turn took over is the run's session_phase.              *)
(*                                                                         *)
(* One dispatch at a time drives the run (proved of module Dispatch).      *)
(***************************************************************************)
EXTENDS Integers, FiniteSets

CONSTANTS
    Users,       \* browser tabs that may submit a turn or an end at the same time
    MaxRequests, \* bound: turns and ends submitted
    MaxBoxes,    \* bound: incarnations of the container, at least one per turn
    MaxCrashes,  \* bound: engine crashes
    MaxReaps,    \* bound: idle reaps
    Mishaps      \* subset of {"stop", "die", "launch"}

ASSUME SessionAssumption ==
    /\ IsFiniteSet(Users) /\ MaxRequests \in Nat /\ MaxBoxes \in Nat \ {0}
    /\ MaxCrashes \in Nat /\ MaxReaps \in Nat
    /\ Mishaps \subseteq {"stop",   \* the user stops the run
                          "die",    \* the container dies, or hangs past a deadline
                          "launch"} \* the container cannot be launched

VARIABLES
    run,    \* the runs row: state, session_phase, idle (session_last_activity_at is old)
    row,    \* the steps row: exec_state, attempt_no, turn_no, fargate_task_arn
    queue,  \* the start, turn, end and resume items; an item's number is its query
    tab,    \* per user: the request that passed _session_dispatch_guard
    eng,    \* the dispatch: pc "down" when no engine runs
    reap,   \* the reap task
    box,    \* the containers, by attempt_no
    inbox,  \* the turn_inbox objects, by attempt_no
    outbox, \* the turn_outbox objects, by attempt_no
    stop,   \* the stop request: none | requested | waiting (claimed) | done
    turns,  \* history: the transcript's turn records
    count   \* history: crashes and reaps

vars == <<run, row, queue, tab, eng, reap, box, inbox, outbox, stop, turns, count>>

-----------------------------------------------------------------------------
Terminal == {"completed", "failed", "cancelled"}
MaxItems == 1 + MaxRequests + MaxCrashes
Items    == 1..MaxItems
Boxes    == 1..MaxBoxes
NoBox    == 0
UserQuery == 1    \* runs.user_query, which the start item carries

NoMessage  == [seq |-> 0, kind |-> "none", query |-> 0]
NoReply    == [seq |-> 0, query |-> 0]
Gone       == [state |-> "gone", seen |-> 0, busy |-> NoReply]

TurnPcs == {"turn", "resolve", "launch", "commit", "inbox", "await", "conclude"}
EndPcs  == {"end", "endresolve", "endinbox", "endwait", "endfinal"}
Dispatcher(pc) == [pc |-> pc, item |-> 1, query |-> 1, seq |-> 0, h |-> NoBox,
                   result |-> "none", event |-> FALSE]
Reaper(pc) == [pc |-> pc, seq |-> 0, h |-> NoBox]

Driving == eng.pc \notin {"down", "idle"}
Live(i) == queue[i].state \in {"pending", "claimed", "orphaned"}
\* an unfinished item of the run, the stop request's included
Busy == stop \in {"requested", "waiting"} \/ \E i \in Items : Live(i)
Alive == {b \in Boxes : box[b].state \in {"running", "closing"}}

IsNextRow(i) == /\ queue[i].state = "absent"
                /\ \A j \in Items : j < i => queue[j].state # "absent"
Remove(b) == [box EXCEPT ![b] = Gone]

Init ==
    /\ run = [state |-> "pending", phase |-> "pending", idle |-> FALSE]
    /\ row = [exec |-> "pending", attempt |-> 1, turn |-> 0, arn |-> NoBox]
    /\ queue = [i \in Items |-> [kind |-> "start", state |-> IF i = 1 THEN "pending" ELSE "absent"]]
    /\ tab = [u \in Users |-> "none"]
    /\ eng = Dispatcher("idle")
    /\ reap = Reaper("idle")
    /\ box = [b \in Boxes |-> Gone]
    /\ inbox = [b \in Boxes |-> NoMessage]
    /\ outbox = [b \in Boxes |-> NoReply]
    /\ stop = "none"
    /\ turns = {}
    /\ count = [crashes |-> 0, reaps |-> 0]

-----------------------------------------------------------------------------
\* The platform: the guard is read in one transaction, the item inserted later.

Submitted == Cardinality({v \in Users : tab[v] # "none"})
             + Cardinality({i \in Items : queue[i].kind \in {"turn", "end"}})

Submit(u) ==
    /\ tab[u] = "none" /\ Submitted < MaxRequests
    /\ run.state = "paused" /\ run.phase # "reaping" /\ ~Busy
    /\ \E kind \in {"turn", "end"} : tab' = [tab EXCEPT ![u] = kind]
    /\ UNCHANGED <<run, row, queue, eng, reap, box, inbox, outbox, stop, turns, count>>

Insert(u) ==
    /\ tab[u] # "none"
    /\ \E i \in Items : /\ IsNextRow(i)
                        /\ queue' = [queue EXCEPT ![i] = [kind |-> tab[u], state |-> "pending"]]
    /\ tab' = [tab EXCEPT ![u] = "none"]
    /\ UNCHANGED <<run, row, eng, reap, box, inbox, outbox, stop, turns, count>>

RequestStop ==
    /\ "stop" \in Mishaps /\ run.state \notin Terminal /\ stop = "none"
    /\ stop' = "requested"
    /\ UNCHANGED <<run, row, queue, tab, eng, reap, box, inbox, outbox, turns, count>>

-----------------------------------------------------------------------------
\* A dispatch: claimed, it enters drive_run and takes its way from the run's state.
WayPausedOnly(kind) ==    \* a bug: a redelivered turn is a no-op, as an end is
    IF run.state = "paused" /\ kind \in {"turn", "end"} THEN kind
    ELSE IF run.state = "pending" THEN "turn" ELSE "finish"
WayReopens(kind) ==       \* a bug: a turn queued behind an end is served after it
    IF run.state # "cancelled" /\ kind \in {"turn", "end"} THEN kind
    ELSE IF run.state = "pending" THEN "turn" ELSE "finish"
Way(kind) ==
    CASE run.state \in Terminal -> "finish"
      [] run.state = "paused"   -> IF kind \in {"turn", "end"} THEN kind ELSE "finish"
      [] OTHER                  -> IF kind = "end" THEN "finish" ELSE "turn"

Claim ==
    /\ eng.pc = "idle"
    /\ \E i \in Items :
         /\ queue[i].state = "pending"
         /\ \A j \in Items : queue[j].state = "pending" => i <= j
         /\ queue' = [queue EXCEPT ![i].state = "claimed"]
         /\ eng' = [Dispatcher(Way(queue[i].kind)) EXCEPT
                       !.item = i, !.query = IF queue[i].kind = "turn" THEN i ELSE UserQuery]
    /\ run' = IF run.state = "pending" THEN [run EXCEPT !.state = "running"] ELSE run
    /\ UNCHANGED <<row, tab, reap, box, inbox, outbox, stop, turns, count>>

CommitTurnUnsaved ==    \* a bug: the number is derived, as the end sentinel's is
    /\ eng.pc = "turn"
    /\ run' = [state |-> "running", phase |-> "active", idle |-> FALSE]
    /\ eng' = [eng EXCEPT !.pc = "resolve", !.seq = row.turn + 1]
    /\ UNCHANGED <<row, queue, tab, reap, box, inbox, outbox, stop, turns, count>>

\* The next seq is committed before anything is written to the inbox.
CommitTurn ==
    /\ eng.pc = "turn"
    /\ row' = [row EXCEPT !.turn = @ + 1]
    /\ run' = [state |-> "running", phase |-> "active", idle |-> FALSE]
    /\ eng' = [eng EXCEPT !.pc = "resolve", !.seq = row.turn + 1]
    /\ UNCHANGED <<queue, tab, reap, box, inbox, outbox, stop, turns, count>>

NoHandle == NoBox    \* a bug: a live container is not found again

\* _live_session_handle: the container if it runs; an exited one is removed.
LiveHandle == IF row.arn # NoBox /\ box[row.arn].state \in {"running", "closing"}
              THEN row.arn ELSE NoBox
WithoutExited(b) == IF b # NoBox /\ box[b].state \in {"exited", "crashed"} THEN Remove(b) ELSE box

\* The live container, or a fresh incarnation under the next attempt number.
Incarnation == IF row.exec = "running" THEN row.attempt + 1 ELSE row.attempt

ResolveTurn ==
    /\ eng.pc = "resolve"
    /\ eng' = IF LiveHandle # NoBox
              THEN [eng EXCEPT !.pc = "inbox", !.h = LiveHandle]
              ELSE [eng EXCEPT !.pc = "launch", !.h = Incarnation]
    /\ box' = WithoutExited(row.arn)
    /\ UNCHANGED <<run, row, queue, tab, reap, inbox, outbox, stop, turns, count>>

\* drive_run returns: its locals are gone, the worker still holds item and event.
Returned == [Dispatcher("finish") EXCEPT !.item = eng.item, !.event = eng.event]

PauseTurn(answer) ==
    /\ run' = [state |-> "paused", phase |-> "active", idle |-> FALSE]
    /\ turns' = turns \cup {[item |-> eng.item, seq |-> eng.seq, query |-> eng.query, answer |-> answer]}
    /\ eng' = Returned

\* _prepare_launch_env or the launch fails the turn; _clear_attempt_channels.
LaunchSession ==
    /\ eng.pc = "launch" /\ eng.h \in Boxes
    /\ \/ /\ "launch" \in Mishaps
          /\ row' = [row EXCEPT !.exec = "running", !.attempt = eng.h, !.arn = NoBox]
          /\ PauseTurn(0)
          /\ UNCHANGED <<box, inbox, outbox>>
       \/ /\ box' = [box EXCEPT ![eng.h] = [Gone EXCEPT !.state = "running"]]
          /\ inbox' = [inbox EXCEPT ![eng.h] = NoMessage]
          /\ outbox' = [outbox EXCEPT ![eng.h] = NoReply]
          /\ eng' = [eng EXCEPT !.pc = "commit"]
          /\ UNCHANGED <<run, row, turns>>
    /\ UNCHANGED <<queue, tab, reap, stop, count>>

CommitSession ==
    /\ eng.pc = "commit"
    /\ row' = [row EXCEPT !.exec = "running", !.attempt = eng.h, !.arn = eng.h]
    /\ eng' = [eng EXCEPT !.pc = "inbox"]
    /\ UNCHANGED <<run, queue, tab, reap, box, inbox, outbox, stop, turns, count>>

WriteInbox ==
    /\ eng.pc = "inbox"
    /\ inbox' = [inbox EXCEPT ![eng.h] = [seq |-> eng.seq, kind |-> "turn", query |-> eng.query]]
    /\ eng' = [eng EXCEPT !.pc = "await"]
    /\ UNCHANGED <<run, row, queue, tab, reap, box, outbox, stop, turns, count>>

\* reconcile_turn: the cancel event, the reply that answers this seq, a dead
\* container, or the deadline (which removes the container).
AnyReply(reply, seq) == reply.seq # 0    \* a bug: the outbox holds some answer
IsReply(reply, seq) == reply.seq = seq

AwaitReply ==
    LET Return(result) == eng' = [eng EXCEPT !.pc = "conclude", !.result = result]
        answered == IsReply(outbox[eng.h], eng.seq)
    IN /\ eng.pc = "await"
       /\ \/ eng.event /\ Return("cancelled") /\ UNCHANGED box
          \/ ~eng.event /\ answered /\ Return("completed") /\ UNCHANGED box
          \/ /\ ~eng.event /\ ~answered
             /\ box[eng.h].state \in {"gone", "exited", "crashed"}
             /\ Return("failed") /\ UNCHANGED box
          \/ /\ ~eng.event /\ ~answered /\ "die" \in Mishaps
             /\ box[eng.h].state \in {"running", "closing"}
             /\ Return("failed") /\ box' = Remove(eng.h)
       /\ UNCHANGED <<run, row, queue, tab, reap, inbox, outbox, stop, turns, count>>

\* The rest of _session_turn: a stop kills the container, a failed turn drops it.
ConcludeTurn ==
    /\ eng.pc = "conclude"
    /\ \/ /\ eng.result = "cancelled" \/ run.state = "cancelled"
          /\ box' = Remove(eng.h)
          /\ row' = [row EXCEPT !.exec = "failed", !.arn = NoBox]
          /\ run' = [run EXCEPT !.state = "cancelled"]
          /\ eng' = Returned
          /\ UNCHANGED turns
       \/ /\ run.state # "cancelled" /\ eng.result = "completed"
          /\ PauseTurn(outbox[eng.h].query)
          /\ UNCHANGED <<row, box>>
       \/ /\ run.state # "cancelled" /\ eng.result = "failed"
          /\ box' = Remove(eng.h)
          /\ row' = [row EXCEPT !.arn = NoBox]
          /\ PauseTurn(0)
    /\ UNCHANGED <<queue, tab, reap, inbox, outbox, stop, count>>

-----------------------------------------------------------------------------
\* _end_session: the sentinel takes the next seq without persisting it.
CommitEnd ==
    /\ eng.pc = "end"
    /\ run' = [run EXCEPT !.state = "running", !.idle = FALSE]
    /\ eng' = [eng EXCEPT !.pc = "endresolve", !.seq = row.turn + 1]
    /\ UNCHANGED <<row, queue, tab, reap, box, inbox, outbox, stop, turns, count>>

ResolveEnd ==
    /\ eng.pc = "endresolve"
    /\ eng' = IF LiveHandle # NoBox
              THEN [eng EXCEPT !.pc = "endinbox", !.h = LiveHandle]
              ELSE [eng EXCEPT !.pc = "endfinal", !.result = "gone"]
    /\ box' = WithoutExited(row.arn)
    /\ UNCHANGED <<run, row, queue, tab, reap, inbox, outbox, stop, turns, count>>

WriteEnd ==
    /\ eng.pc = "endinbox"
    /\ inbox' = [inbox EXCEPT ![eng.h] = [seq |-> eng.seq, kind |-> "end", query |-> 0]]
    /\ eng' = [eng EXCEPT !.pc = "endwait"]
    /\ UNCHANGED <<run, row, queue, tab, reap, box, outbox, stop, turns, count>>

AwaitExitForever ==    \* a bug: no grace window
    /\ eng.pc = "endwait"
    /\ eng.event \/ box[eng.h].state \notin {"running", "closing"}
    /\ eng' = [eng EXCEPT !.pc = "endfinal",
                          !.result = IF eng.event THEN "cancelled" ELSE box[eng.h].state]
    /\ UNCHANGED <<run, row, queue, tab, reap, box, inbox, outbox, stop, turns, count>>

\* _wait_container_exit; the grace window may run out whenever it still runs.
AwaitExit ==
    /\ eng.pc = "endwait"
    /\ eng' = [eng EXCEPT !.pc = "endfinal", !.result =
                 IF eng.event THEN "cancelled"
                 ELSE IF box[eng.h].state \in {"running", "closing"} THEN "hung"
                 ELSE box[eng.h].state]
    /\ eng.event \/ box[eng.h].state \notin {"running", "closing"} \/ "die" \in Mishaps
    /\ UNCHANGED <<run, row, queue, tab, reap, box, inbox, outbox, stop, turns, count>>

\* The run after an end: a failed shutdown keeps the session open.
EndClean(result) == result \in {"exited", "gone"}
EndAwaiting(result) == IF EndClean(result) THEN "completed" ELSE "awaiting_input"  \* a bug
EndState(result) == IF EndClean(result) THEN "completed" ELSE "paused"

\* "cancel handler owns the terminal state + container".
ConcludeEnd ==
    /\ eng.pc = "endfinal"
    /\ eng' = Returned
    /\ \/ /\ eng.result = "cancelled" \/ run.state = "cancelled"
          /\ UNCHANGED <<run, row, box>>
       \/ /\ eng.result # "cancelled" /\ run.state # "cancelled"
          /\ box' = IF eng.h # NoBox THEN Remove(eng.h) ELSE box
          /\ run' = [state |-> EndState(eng.result), phase |-> "ended", idle |-> FALSE]
          /\ row' = [row EXCEPT !.arn = NoBox,
                                !.exec = IF EndClean(eng.result) THEN "completed" ELSE @]
    /\ UNCHANGED <<queue, tab, reap, inbox, outbox, stop, turns, count>>

Finish ==
    /\ eng.pc = "finish"
    /\ queue' = [queue EXCEPT ![eng.item].state = "done"]
    /\ eng' = Dispatcher("idle")
    /\ UNCHANGED <<run, row, tab, reap, box, inbox, outbox, stop, turns, count>>

-----------------------------------------------------------------------------
\* The idle reaper.

\* The session was left alone past BB_ADHOC_IDLE_SECONDS.
GoIdle ==
    /\ run.state = "paused" /\ run.phase \in {"active", "reaping"} /\ ~run.idle
    /\ count.reaps < MaxReaps
    /\ run' = [run EXCEPT !.idle = TRUE]
    /\ UNCHANGED <<row, queue, tab, eng, reap, box, inbox, outbox, stop, turns, count>>

\* _reap_idle_adhoc_sessions: the phase is the claim of the reap task.
StartReap ==
    /\ eng.pc # "down" /\ reap.pc = "idle" /\ count.reaps < MaxReaps
    /\ run.state = "paused" /\ run.phase \in {"active", "reaping"} /\ run.idle /\ ~Busy
    /\ run' = [run EXCEPT !.phase = "reaping"]
    /\ reap' = Reaper("load")
    /\ count' = [count EXCEPT !.reaps = @ + 1]
    /\ UNCHANGED <<row, queue, tab, eng, box, inbox, outbox, stop, turns>>

\* reap_idle_session reads the run, then the row, and commits the activity clock.
LoadReap ==
    /\ reap.pc = "load"
    /\ reap' = IF run.phase = "reaping" THEN [reap EXCEPT !.pc = "mark"] ELSE Reaper("idle")
    /\ UNCHANGED <<run, row, queue, tab, eng, box, inbox, outbox, stop, turns, count>>

MarkReap ==
    /\ reap.pc = "mark"
    /\ reap' = [pc |-> "resolve", seq |-> row.turn + 1, h |-> row.arn]
    /\ run' = [run EXCEPT !.idle = FALSE]
    /\ UNCHANGED <<row, queue, tab, eng, box, inbox, outbox, stop, turns, count>>

ResolveReap ==
    /\ reap.pc = "resolve"
    /\ reap' = IF reap.h \in Alive THEN [reap EXCEPT !.pc = "write"] ELSE Reaper("final")
    /\ box' = WithoutExited(reap.h)
    /\ UNCHANGED <<run, row, queue, tab, eng, inbox, outbox, stop, turns, count>>

WriteReap ==
    /\ reap.pc = "write"
    /\ inbox' = [inbox EXCEPT ![reap.h] = [seq |-> reap.seq, kind |-> "end", query |-> 0]]
    /\ reap' = [reap EXCEPT !.pc = "check"]
    /\ UNCHANGED <<run, row, queue, tab, eng, box, outbox, stop, turns, count>>

\* _wait_container_exit with _still_reaping, then the container's status.
CheckReap ==
    /\ reap.pc = "check"
    /\ reap' = IF run.phase = "reaping" THEN [reap EXCEPT !.pc = "poll"] ELSE Reaper("final")
    /\ UNCHANGED <<run, row, queue, tab, eng, box, inbox, outbox, stop, turns, count>>

PollReap ==
    /\ reap.pc = "poll"
    /\ \/ /\ reap.h \notin Alive
          /\ box' = WithoutExited(reap.h)
          /\ reap' = Reaper("final")
       \/ /\ reap.h \in Alive
          /\ reap' = [reap EXCEPT !.pc = "check"] /\ UNCHANGED box
       \/ /\ reap.h \in Alive /\ "die" \in Mishaps    \* hung past the grace window
          /\ box' = Remove(reap.h)
          /\ reap' = Reaper("final")
    /\ UNCHANGED <<run, row, queue, tab, eng, inbox, outbox, stop, turns, count>>

FinishReapAlways ==    \* a bug: whoever took the session over loses it
    /\ reap.pc = "final"
    /\ run' = [run EXCEPT !.phase = "ended", !.idle = FALSE]
    /\ row' = [row EXCEPT !.arn = NoBox]
    /\ reap' = Reaper("idle")
    /\ UNCHANGED <<queue, tab, eng, box, inbox, outbox, stop, turns, count>>

\* Only a session that is still being reaped loses its handle.
FinishReap ==
    /\ reap.pc = "final"
    /\ IF run.phase = "reaping"
       THEN /\ run' = [run EXCEPT !.phase = "ended", !.idle = FALSE]
            /\ row' = [row EXCEPT !.arn = NoBox]
       ELSE UNCHANGED <<run, row>>
    /\ reap' = Reaper("idle")
    /\ UNCHANGED <<queue, tab, eng, box, inbox, outbox, stop, turns, count>>

-----------------------------------------------------------------------------
\* The stop handler: _cancel_guarded.

\* Void what is queued, signal the live dispatch if there is one.
HandleStop ==
    /\ stop = "requested" /\ eng.pc # "down"
    /\ queue' = [i \in Items |-> IF queue[i].state = "pending"
                                 THEN [queue[i] EXCEPT !.state = "done"] ELSE queue[i]]
    /\ eng' = IF Driving THEN [eng EXCEPT !.event = TRUE] ELSE eng
    /\ stop' = "waiting"
    /\ UNCHANGED <<run, row, tab, reap, box, inbox, outbox, turns, count>>

\* The dispatch returned.  A run that waits for input has its container stopped.
RecordStop ==
    /\ stop = "waiting" /\ ~eng.event
    /\ stop' = "done"
    /\ IF run.state \in Terminal
       THEN UNCHANGED <<run, row, box>>
       ELSE IF run.state = "paused"
       THEN /\ run' = [run EXCEPT !.state = "cancelled", !.phase = "ended"]
            /\ row' = [row EXCEPT !.arn = NoBox]
            /\ box' = IF row.arn # NoBox THEN Remove(row.arn) ELSE box
       ELSE /\ run' = [run EXCEPT !.state = "cancelled"]
            /\ UNCHANGED <<row, box>>
    /\ UNCHANGED <<queue, tab, eng, reap, inbox, outbox, turns, count>>

-----------------------------------------------------------------------------
\* The container: run_skill.sh's inbox loop.

\* It takes a message whose seq is not the one it saw last.
Take(b) ==
    LET message == inbox[b] IN
    /\ box[b].state = "running" /\ box[b].busy = NoReply
    /\ message.seq # 0 /\ message.seq # box[b].seen
    /\ box' = [box EXCEPT ![b] =
                 IF message.kind = "end"
                 THEN [state |-> "closing", seen |-> message.seq, busy |-> NoReply]
                 ELSE [state |-> "running", seen |-> message.seq,
                       busy |-> [seq |-> message.seq, query |-> message.query]]]
    /\ UNCHANGED <<run, row, queue, tab, eng, reap, inbox, outbox, stop, turns, count>>

\* The turn is committed, pushed, and answered.
Answer(b) ==
    /\ box[b].busy # NoReply
    /\ outbox' = [outbox EXCEPT ![b] = box[b].busy]
    /\ box' = [box EXCEPT ![b].busy = NoReply]
    /\ UNCHANGED <<run, row, queue, tab, eng, reap, inbox, stop, turns, count>>

Exit(b) ==
    /\ \/ box[b].state = "closing" /\ box' = [box EXCEPT ![b] = [Gone EXCEPT !.state = "exited"]]
       \/ /\ b \in Alive /\ "die" \in Mishaps
          /\ box' = [box EXCEPT ![b] = [Gone EXCEPT !.state = "crashed"]]
    /\ UNCHANGED <<run, row, queue, tab, eng, reap, inbox, outbox, stop, turns, count>>

-----------------------------------------------------------------------------
\* Crash and recovery.  (Not between a launch and the commit of its handle:
\* the orphan container that leaves is the business of module StepLoop.)
Crash ==
    /\ eng.pc \notin {"down", "commit"} /\ count.crashes < MaxCrashes
    /\ eng' = Dispatcher("down")
    /\ reap' = Reaper("idle")
    /\ queue' = [i \in Items |-> IF queue[i].state = "claimed"
                                 THEN [queue[i] EXCEPT !.state = "orphaned"] ELSE queue[i]]
    /\ stop' = IF stop = "waiting" THEN "requested" ELSE stop
    /\ count' = [count EXCEPT !.crashes = @ + 1]
    /\ UNCHANGED <<run, row, tab, box, inbox, outbox, turns>>

Restart ==
    /\ eng.pc = "down"
    /\ eng' = Dispatcher("idle")
    /\ IF run.state \in {"running", "paused"} /\ ~Busy
       THEN \E i \in Items : /\ IsNextRow(i)
                             /\ queue' = [queue EXCEPT ![i] = [kind |-> "resume", state |-> "pending"]]
       ELSE UNCHANGED queue
    /\ UNCHANGED <<run, row, tab, reap, box, inbox, outbox, stop, turns, count>>

\* The heartbeat of the dead engine's claim expired.
ReapClaim ==
    /\ eng.pc # "down"
    /\ \E i \in Items : /\ queue[i].state = "orphaned"
                         /\ queue' = [queue EXCEPT ![i].state = "pending"]
    /\ UNCHANGED <<run, row, tab, eng, reap, box, inbox, outbox, stop, turns, count>>

-----------------------------------------------------------------------------
Turn     == CommitTurn \/ ResolveTurn \/ LaunchSession \/ CommitSession \/ WriteInbox
            \/ AwaitReply \/ ConcludeTurn
End      == CommitEnd \/ ResolveEnd \/ WriteEnd \/ AwaitExit \/ ConcludeEnd
Engine   == Claim \/ Turn \/ End \/ Finish
Reap     == LoadReap \/ MarkReap \/ ResolveReap \/ WriteReap \/ CheckReap \/ PollReap \/ FinishReap
Agent    == \E b \in Boxes : Take(b) \/ Answer(b) \/ Exit(b)
Platform == RequestStop \/ \E u \in Users : Submit(u) \/ Insert(u)

Next == \/ Engine \/ StartReap \/ Reap \/ HandleStop \/ RecordStop
        \/ Agent \/ Platform \/ GoIdle
        \/ Crash \/ Restart \/ ReapClaim

Spec == Init /\ [][Next]_vars

\* The event loop schedules dispatch, reaper and stop handler, and the worker
\* restarts; the deadline and the grace window bound every wait for the agent.
FairSpec == Spec /\ WF_vars(Engine) /\ WF_vars(Reap) /\ WF_vars(HandleStop)
                 /\ WF_vars(RecordStop) /\ WF_vars(Restart) /\ WF_vars(ReapClaim)

-----------------------------------------------------------------------------
\* Properties.

RunRecord    == [state: Terminal \cup {"pending", "running", "paused"},
                 phase: {"pending", "active", "reaping", "ended"}, idle: BOOLEAN]
RowRecord    == [exec: {"pending", "running", "completed", "failed"}, attempt: Nat \ {0},
                 turn: Nat, arn: Boxes \cup {NoBox}]
ItemRecord   == [kind: {"start", "turn", "end", "resume"},
                 state: {"absent", "pending", "claimed", "orphaned", "done"}]
EngineRecord == [pc: {"down", "idle", "finish"} \cup TurnPcs \cup EndPcs, item: Items,
                 query: Items, seq: Nat, h: Nat,
                 result: {"none", "completed", "failed", "cancelled", "exited", "crashed",
                          "gone", "hung"}, event: BOOLEAN]
ReapRecord   == [pc: {"idle", "load", "mark", "resolve", "write", "check", "poll", "final"},
                 seq: Nat, h: Boxes \cup {NoBox}]
Message      == [seq: Nat, kind: {"none", "turn", "end"}, query: Items \cup {0}]
Reply        == [seq: Nat, query: Items \cup {0}]
BoxRecord    == [state: {"gone", "running", "closing", "exited", "crashed"}, seen: Nat,
                 busy: Reply]

\* Rows, objects, containers and tasks have the shape the code gives them.
TypeOK ==
    /\ run \in RunRecord
    /\ row \in RowRecord
    /\ queue \in [Items -> ItemRecord]
    /\ tab \in [Users -> {"none", "turn", "end"}]
    /\ eng \in EngineRecord
    /\ reap \in ReapRecord
    /\ box \in [Boxes -> BoxRecord]
    /\ inbox \in [Boxes -> Message]
    /\ outbox \in [Boxes -> Reply]
    /\ stop \in {"none", "requested", "waiting", "done"}
    /\ turns \in SUBSET [item: Items, seq: Nat, query: Items, answer: Items \cup {0}]
    /\ count \in [crashes: Nat, reaps: Nat]

\* The transcript never shows, under a query, the answer to another one.
AnswerIsOwn == \A t \in turns : t.answer \in {0, t.query}

\* Two turns of the transcript never carry the same number.
TurnNumbersUnique == \A t, u \in turns : t.seq = u.seq => t = u

\* Two containers never work on the session's branch at the same time, whatever
\* dispatches, reaps, stops and crashes meet.
OneContainer == Cardinality(Alive) <= 1

\* A session that was ended has no container left.
CompletedIsClean == run.state = "completed" => Alive = {}

\* Nothing is forgotten: a submitted turn whose token is worked off is in the
\* transcript, unless the run is over.
TurnRecorded ==
    \A i \in Items : queue[i].kind = "turn" /\ queue[i].state = "done" =>
        run.state \in Terminal \/ stop # "none" \/ \E t \in turns : t.item = i

\* The transcript is what was said: every turn that was worked off is in it once,
\* with its own answer, whatever tabs, redeliveries, reaps and crashes meet.
TranscriptTrue == AnswerIsOwn /\ TurnNumbersUnique /\ TurnRecorded

\* A session owns one container while it is open and none once it was ended.
ContainerOwned == OneContainer /\ CompletedIsClean

\* A turn or an end in flight comes to a conclusion.
SessionSettles == (run.state = "running") ~> (run.state # "running")

-----------------------------------------------------------------------------
\* What a dispatch promises about the run (one driver: module Dispatch).
Dispatches == {"dispatch"}
NoDispatch == "none"
Lifecycle == INSTANCE RunLifecycle
             WITH Drivers <- Dispatches, NoDriver <- NoDispatch,
                  driver <- IF Driving /\ eng.pc # "finish" THEN "dispatch" ELSE NoDispatch,
                  state <- run.state, stop <- stop # "none"

\* Turns, ends and stops move the run as the abstract run may move: a redelivered
\* turn or end never reopens a finished session.
ImplementsLifecycle == Lifecycle!Spec

=============================================================================
