---------------------------- MODULE LegacyEngine ----------------------------
(***************************************************************************)
(* The single-process engine: engine.py, the endpoints of app.py that      *)
(* touch a run, and the page of static/index.html that polls them.         *)
(*                                                                         *)
(* One run is one thread.  It launches a container per attempt, joins the  *)
(* container's exit with the result file the container left in the         *)
(* attempt's directory, routes, and stops at gates on a threading.Event.   *)
(* Everything it does is published on a bounded event bus; a browser page  *)
(* polls the bus with a cursor, shows the gate and posts the decision,     *)
(* which a request thread writes field by field into the waiting run.      *)
(*                                                                         *)
(* The directory of an attempt is named by run, step and attempt number:   *)
(* a step visited again finds the files of its earlier visit in it.  The   *)
(* workflow's result statuses are kept, models, costs and texts are not.   *)
(***************************************************************************)
EXTENDS Integers, SequencesExt

CONSTANTS
    Workflows,   \* what start_run may be asked for: [start, on, gates]
    MaxVisits,   \* BB_MAX_STEP_VISITS
    MaxAttempts, \* Run.MAX_ATTEMPTS
    GuardMax,    \* the 40 of the run loop
    Replay,      \* EventBus.REPLAY
    MaxMishaps   \* bound: containers that fail, hang or cannot be launched, pages that are
                 \* reloaded, answers to a posted decision that are lost

Steps == UNION {DOMAIN w.on : w \in Workflows}

ASSUME LegacyAssumption ==
    /\ \A w \in Workflows : "DONE" \notin DOMAIN w.on /\ "route_to" \notin DOMAIN w.on
    /\ MaxVisits \in Nat \ {0} /\ MaxAttempts \in Nat \ {0} /\ Replay \in Nat
    \* the workflows are files, their steps finitely many, and 40 rounds are enough for
    \* every step to reach its visit limit
    /\ IsFiniteSet(Steps) /\ GuardMax \in Nat
    /\ Cardinality(Steps) * MaxVisits < GuardMax
    /\ MaxMishaps \in Nat

VARIABLES
    wf,       \* the workflow with its policy
    run,      \* the thread: pc, Run.state, the loop's step, attempt, what status() said (saw),
              \* the outcome (status; used, the visit that wrote it), the last decision's
              \* comment, and for the record why it halted
    visits,   \* rounds of the loop, by step
    gates,    \* history: the steps of the gates opened so far, in order
    approval, \* Run._approval, _approval_decision and _approval_comment
    box,      \* the container of the current attempt
    results,  \* the result files, by step and attempt
    bus,      \* EventBus: seq, history
    page,     \* the browser page
    post,     \* the decision being handled by decide()
    mishaps   \* how many mishaps there were

vars == <<wf, run, visits, gates, approval, box, results, bus, page, post, mishaps>>

-----------------------------------------------------------------------------
Verdicts  == {"completed", "BLOCK", "changes_requested"}
Transient == {"failed_infra", "failed_timeout", "failed_incomplete"}
Finished  == {"completed", "failed"}
NoStep    == "none"
NoHint    == "nohint"
NoResult  == [status |-> "none", visit |-> 0]
Attempts  == 1..MaxAttempts
Gone      == [state |-> "gone", ok |-> TRUE, wrote |-> FALSE]

Routes(s) == wf.on[s]

\* What a step may report: the keys of its `on:` block, and `completed`.
AllowedStatuses(w, s) == DOMAIN w.on[s] \cup {"completed"}

ValidWorkflow(w) ==
    /\ w.start \in DOMAIN w.on
    /\ \A s \in DOMAIN w.on : \A v \in DOMAIN w.on[s] :
         w.on[s][v] \in DOMAIN w.on \cup {"DONE", "route_to"}

PairingUnchecked(w) == DOMAIN w.gates \subseteq DOMAIN w.on \* a bug: on_status is not looked at
ValidPairing(w) ==
    /\ DOMAIN w.gates \subseteq DOMAIN w.on
    /\ \A s \in DOMAIN w.gates : w.gates[s] \subseteq AllowedStatuses(w, s)

\* Policy.gate_for: this outcome of this step waits for a reviewer.
Gated(s, status) == s \in DOMAIN wf.gates /\ status \in wf.gates[s]

Init ==
    /\ wf \in Workflows
    /\ run = [pc |-> "idle", state |-> "queued", step |-> NoStep, attempt |-> 1, saw |-> "none",
              status |-> "none", used |-> 0, comment |-> 0, halt |-> "none"]
    /\ visits = [s \in Steps |-> 0]
    /\ gates = <<>>
    /\ approval = [set |-> FALSE, decision |-> "none", comment |-> 0]
    /\ box = Gone
    /\ results = [c \in Steps \X Attempts |-> NoResult]
    /\ bus = [seq |-> 0, history |-> <<>>]
    /\ page = [known |-> FALSE, polling |-> FALSE, cursor |-> 0, seen |-> {}, shown |-> FALSE,
               last |-> 0, intact |-> TRUE]
    /\ post = [pc |-> "none", decision |-> "none", gate |-> 0]
    /\ mishaps = 0

Mishap == mishaps < MaxMishaps /\ mishaps' = mishaps + 1
NoMishap == UNCHANGED mishaps

-----------------------------------------------------------------------------
\* The event bus, with the events that tell the page what to do: transitions and
\* progress, which it only shows, are left out.  An event says which gate it means.

Event(kind, step, decision) ==
    [kind |-> kind, step |-> step, decision |-> decision, gate |-> Len(gates)]

LastOf(q, n) == SubSeq(q, IF Len(q) > n THEN Len(q) - n + 1 ELSE 1, Len(q))

PublishUntrimmed(ev) == \* a bug: the backlog is never trimmed
    bus' = [seq |-> bus.seq + 1, history |-> Append(bus.history, ev)]
Publish(ev) == bus' = [seq |-> bus.seq + 1, history |-> LastOf(Append(bus.history, ev), Replay)]

Since(cursor) ==
    LET base == bus.seq - Len(bus.history)
    IN SubSeq(bus.history, (IF cursor > base THEN cursor - base ELSE 0) + 1, Len(bus.history))

-----------------------------------------------------------------------------
\* The page.  It polls while a run moves, stops at a gate, and ignores an event
\* whose key it has seen.  The key names step and decision, not the gate.

Key(ev) == [ev EXCEPT !.gate = 0]

ApplyEvent(pg, ev) ==
    CASE ev.kind = "required" -> [pg EXCEPT !.shown = TRUE, !.last = ev.gate, !.polling = FALSE]
      [] ev.kind = "resolved" -> [pg EXCEPT !.shown = FALSE, !.polling = TRUE]
      [] ev.kind = "finished" -> [pg EXCEPT !.shown = FALSE, !.polling = FALSE]

HandleEvent(pg, ev) ==
    IF Key(ev) \in pg.seen THEN pg ELSE [ApplyEvent(pg, ev) EXCEPT !.seen = @ \cup {Key(ev)}]

\* start_run refuses what does not fit together, else creates the run and its thread.
StartRun ==
    /\ run.pc = "idle" /\ ValidWorkflow(wf) /\ ValidPairing(wf)
    /\ run' = [run EXCEPT !.pc = "top", !.state = "running", !.step = wf.start]
    /\ page' = [page EXCEPT !.known = TRUE, !.polling = TRUE]
    /\ UNCHANGED <<wf, visits, gates, approval, box, results, bus, post, mishaps>>

\* A timer asks for the events after the cursor.
Poll ==
    /\ page.polling /\ page.cursor < bus.seq
    /\ page' = FoldLeft(HandleEvent,
         [page EXCEPT !.cursor = bus.seq,
                      !.intact = @ /\ page.cursor >= bus.seq - Len(bus.history)],
         Since(page.cursor))
    /\ UNCHANGED <<wf, run, visits, gates, approval, box, results, bus, post, mishaps>>

\* A reloaded page no longer knows which run it showed: nothing it shows can be
\* answered, and what it shows is left out.
Reload ==
    /\ Mishap /\ page.known
    /\ page' = [known |-> FALSE, polling |-> FALSE, cursor |-> 0, seen |-> {}, shown |-> FALSE,
                last |-> 0, intact |-> FALSE]
    /\ UNCHANGED <<wf, run, visits, gates, approval, box, results, bus, post>>

\* The reviewer answers the gate on the page; polling resumes before the answer.
Decide ==
    /\ page.shown /\ page.known /\ post.pc = "none"
    /\ \E d \in {"approve", "request_changes"} :
         post' = [pc |-> "decision", decision |-> d, gate |-> page.last]
    /\ page' = [page EXCEPT !.shown = FALSE, !.polling = TRUE]
    /\ UNCHANGED <<wf, run, visits, gates, approval, box, results, bus, mishaps>>

\* Run.approve, in a request thread: decision, comment, then the event.
ApproveEventFirst ==    \* a bug: the run is woken before the comment is there
    \/ /\ post.pc = "decision"
       /\ approval' = [approval EXCEPT !.decision = post.decision, !.set = TRUE]
       /\ post' = [post EXCEPT !.pc = "comment"]
    \/ /\ post.pc = "comment"
       /\ approval' = [approval EXCEPT !.comment = post.gate]
       /\ post' = [post EXCEPT !.pc = "set"]
    \/ /\ post.pc = "set"
       /\ post' = [post EXCEPT !.pc = "answer"]
       /\ UNCHANGED approval

Approve ==
    \/ /\ post.pc = "decision"
       /\ approval' = [approval EXCEPT !.decision = post.decision]
       /\ post' = [post EXCEPT !.pc = "comment"]
    \/ /\ post.pc = "comment"
       /\ approval' = [approval EXCEPT !.comment = post.gate]
       /\ post' = [post EXCEPT !.pc = "set"]
    \/ /\ post.pc = "set"
       /\ approval' = [approval EXCEPT !.set = TRUE]
       /\ post' = [post EXCEPT !.pc = "answer"]

RequestThread ==
    /\ Approve
    /\ UNCHANGED <<wf, run, visits, gates, box, results, bus, page, mishaps>>

\* The browser has the answer, or lost it and shows the same gate again.
PostAnswered ==
    /\ post.pc = "answer"
    /\ post' = [pc |-> "none", decision |-> "none", gate |-> 0]
    /\ \/ NoMishap /\ UNCHANGED page
       \/ /\ Mishap
          /\ page' = [page EXCEPT !.shown = page.last # 0, !.intact = FALSE]
    /\ UNCHANGED <<wf, run, visits, gates, approval, box, results, bus>>

-----------------------------------------------------------------------------
\* The container, in the directory of its step and attempt.

Running == box.state = "running"
Cell    == <<run.step, run.attempt>>

WriteResult ==
    /\ Running /\ ~box.wrote
    /\ \E v \in Verdicts \cup {"failed_execution", "failed_infra"} :
         results' = [results EXCEPT ![Cell] = [status |-> v, visit |-> visits[run.step]]]
    /\ box' = [box EXCEPT !.wrote = TRUE]
    /\ UNCHANGED <<wf, run, visits, gates, approval, bus, page, post, mishaps>>

\* It exits, with a result or killed without one; or it is gone altogether.
ContainerEnds ==
    /\ Running
    /\ \/ box.wrote /\ NoMishap /\ \E ok \in BOOLEAN : box' = [box EXCEPT !.state = "exited", !.ok = ok]
       \/ /\ Mishap
          /\ box' \in {[box EXCEPT !.state = "exited", !.ok = FALSE], Gone}
    /\ UNCHANGED <<wf, run, visits, gates, approval, results, bus, page, post>>

-----------------------------------------------------------------------------
\* The run thread.

Rounds == FoldFunction(LAMBDA a, b : a + b, 0, visits)

LeaveQuietly(halt) ==   \* a bug: halting for a human does not fail the run
    [run EXCEPT !.pc = "finish", !.halt = halt]

\* The loop is left; a run that did not fail is completed.
LeaveLoop(halt) == [run EXCEPT !.pc = "finish", !.halt = halt,
                               !.state = IF halt = "none" THEN @ ELSE "failed"]

NextRound ==
    /\ run.pc = "top"
    /\ \/ /\ run.step = "DONE" \/ Rounds >= GuardMax
          /\ run' = LeaveLoop("none") /\ UNCHANGED visits
       \/ /\ run.step \notin DOMAIN wf.on \cup {"DONE"} /\ Rounds < GuardMax
          /\ run' = LeaveLoop("unknown") /\ UNCHANGED visits
       \/ /\ run.step \in DOMAIN wf.on /\ Rounds < GuardMax
          /\ visits' = [visits EXCEPT ![run.step] = @ + 1]
          /\ run' = IF visits[run.step] + 1 > MaxVisits THEN LeaveLoop("visits")
                    ELSE [run EXCEPT !.pc = "launch", !.attempt = 1]
    /\ UNCHANGED <<wf, gates, approval, box, results, bus, page, post, mishaps>>

\* _run_step announces the attempt and launches; what raises ends the run.
Launch ==
    /\ run.pc = "launch"
    /\ \/ /\ box' = [state |-> "running", ok |-> TRUE, wrote |-> FALSE]
          /\ run' = [run EXCEPT !.pc = "watch"]
          /\ NoMishap /\ UNCHANGED bus
       \/ /\ Mishap
          /\ run' = [run EXCEPT !.pc = "end", !.state = "failed", !.halt = "crash"]
          /\ Publish(Event("finished", NoStep, "none"))
          /\ UNCHANGED box
    /\ UNCHANGED <<wf, visits, gates, approval, results, page, post>>

\* reconcile: the container's state is read before the result file.
Verdict(status, used) == [run EXCEPT !.pc = "verdict", !.saw = "none", !.status = status, !.used = used]

\* A result counts as it is, but a failing exit overrules `completed`.
Joined(result) ==
    IF result = NoResult THEN Verdict("failed_incomplete", visits[run.step])
    ELSE IF ~box.ok /\ result.status = "completed" THEN Verdict("failed_execution", result.visit)
    ELSE Verdict(result.status, result.visit)

Classify(saw, result) ==
    \/ saw = "gone" /\ NoMishap /\ run' = Verdict("failed_infra", visits[run.step])
    \/ saw = "exited" /\ NoMishap /\ run' = Joined(result)
    \/ saw = "running" /\ NoMishap /\ run' = [run EXCEPT !.pc = "watch", !.saw = "none"]
    \/ saw = "running" /\ Mishap /\ run' = Verdict("failed_timeout", visits[run.step])

PollResultFirst ==      \* a bug: the result file is read before the container's state
    \/ run.pc = "watch" /\ NoMishap /\ run' = [run EXCEPT !.pc = "read", !.saw = results[Cell]]
    \/ run.pc = "read" /\ Classify(box.state, run.saw)

PollContainer ==
    \/ run.pc = "watch" /\ NoMishap /\ run' = [run EXCEPT !.pc = "read", !.saw = box.state]
    \/ run.pc = "watch" /\ Mishap /\ run' = Verdict("failed_infra", visits[run.step])
    \/ run.pc = "read" /\ Classify(run.saw, results[Cell])

Reconcile ==
    /\ PollContainer
    /\ UNCHANGED <<wf, visits, gates, approval, box, results, bus, page, post>>

\* The container is removed; a transient failure is retried, once.
ConcludeAttempt ==
    /\ run.pc = "verdict"
    /\ box' = Gone
    /\ run' = IF run.status \in Transient /\ run.attempt < MaxAttempts
              THEN [run EXCEPT !.pc = "launch", !.attempt = @ + 1]
              ELSE IF run.status \in Transient \cup {"failed_execution"} THEN LeaveLoop("failure")
              ELSE [run EXCEPT !.pc = IF Gated(run.step, run.status) THEN "gate" ELSE "route"]
    /\ UNCHANGED <<wf, visits, gates, approval, results, bus, page, post, mishaps>>

\* _await_approval: forget what was decided before, then ask.
AskThenForget ==        \* a bug: the gate is announced before the old decision is dropped
    \/ /\ run.pc = "gate"
       /\ gates' = Append(gates, run.step)
       /\ run' = [run EXCEPT !.pc = "announce", !.state = "awaiting_approval"]
       /\ Publish([Event("required", run.step, "none") EXCEPT !.gate = @ + 1])
       /\ UNCHANGED approval
    \/ /\ run.pc = "announce"
       /\ approval' = [approval EXCEPT !.set = FALSE, !.decision = "none"]
       /\ run' = [run EXCEPT !.pc = "wait"]
       /\ UNCHANGED <<gates, bus>>

OpenGate ==
    \/ /\ run.pc = "gate"
       /\ approval' = [approval EXCEPT !.set = FALSE, !.decision = "none"]
       /\ run' = [run EXCEPT !.pc = "announce"]
       /\ UNCHANGED <<gates, bus>>
    \/ /\ run.pc = "announce"
       /\ gates' = Append(gates, run.step)
       /\ run' = [run EXCEPT !.pc = "wait", !.state = "awaiting_approval"]
       /\ Publish([Event("required", run.step, "none") EXCEPT !.gate = @ + 1])
       /\ UNCHANGED approval

AwaitApproval ==
    /\ OpenGate
    /\ UNCHANGED <<wf, visits, box, results, page, post, mishaps>>

\* The event is set: no decision counts as an approval.
Resolve ==
    /\ run.pc = "wait" /\ approval.set
    /\ LET d == IF approval.decision = "none" THEN "approve" ELSE approval.decision
       IN /\ run' = [run EXCEPT !.pc = IF d = "approve" THEN "route" ELSE "revise",
                                !.state = "running", !.comment = approval.comment]
          /\ Publish(Event("resolved", run.step, d))
    /\ UNCHANGED <<wf, visits, gates, approval, box, results, page, post, mishaps>>

GoTo(s) == [run EXCEPT !.pc = "top", !.step = s, !.status = "none", !.used = 0]

\* A reviewer sent the step back: its `changes_requested` route, whatever it names.
Revise ==
    /\ run.pc = "revise"
    /\ run' = IF "changes_requested" \in DOMAIN Routes(run.step)
              THEN GoTo(Routes(run.step)["changes_requested"]) ELSE LeaveLoop("noroute back")
    /\ UNCHANGED <<wf, visits, gates, approval, box, results, bus, page, post, mishaps>>

\* The workflow routes the outcome; it may leave the choice to the step's hint.
Route ==
    /\ run.pc = "route"
    /\ \/ /\ run.status \notin DOMAIN Routes(run.step)
          /\ run' = LeaveLoop("noroute")
       \/ /\ run.status \in DOMAIN Routes(run.step)
          /\ Routes(run.step)[run.status] # "route_to"
          /\ run' = GoTo(Routes(run.step)[run.status])
       \/ /\ run.status \in DOMAIN Routes(run.step)
          /\ Routes(run.step)[run.status] = "route_to"
          /\ \E hint \in DOMAIN wf.on \cup {"DONE", NoStep, NoHint} :
               run' = IF hint = NoHint THEN LeaveLoop("nohint") ELSE GoTo(hint)
    /\ UNCHANGED <<wf, visits, gates, approval, box, results, bus, page, post, mishaps>>

FinishRun ==
    /\ run.pc = "finish"
    /\ run' = [run EXCEPT !.pc = "end", !.state = IF @ = "failed" THEN @ ELSE "completed"]
    /\ Publish(Event("finished", NoStep, "none"))
    /\ UNCHANGED <<wf, visits, gates, approval, box, results, page, post, mishaps>>

-----------------------------------------------------------------------------
Thread == \/ NextRound \/ Launch \/ Reconcile \/ ConcludeAttempt
          \/ AwaitApproval \/ Resolve \/ Revise \/ Route \/ FinishRun
Browser == Poll \/ Decide \/ PostAnswered

Next == \/ StartRun \/ Thread \/ WriteResult \/ ContainerEnds
        \/ RequestThread \/ Browser \/ Reload

\* Threads are scheduled, containers come to an end, a page that polls polls,
\* and a reviewer who sees a gate decides.
Fairness ==
    /\ WF_vars(StartRun) /\ WF_vars(Thread) /\ WF_vars(RequestThread)
    /\ WF_vars(WriteResult) /\ WF_vars(ContainerEnds)
    /\ WF_vars(Poll) /\ WF_vars(Decide) /\ WF_vars(PostAnswered)

Spec == Init /\ [][Next]_vars /\ Fairness

-----------------------------------------------------------------------------
TypeOK ==
    /\ wf \in Workflows
    /\ run.pc \in {"idle", "top", "launch", "watch", "read", "verdict", "gate", "announce", "wait",
                   "revise", "route", "finish", "end"}
    /\ run.state \in {"queued", "running", "awaiting_approval"} \cup Finished
    /\ run.attempt \in Attempts
    /\ \A s \in Steps : visits[s] \in 0..MaxVisits + 1
    /\ gates \in Seq(Steps)
    /\ box.state \in {"running", "exited", "gone"}
    /\ Len(bus.history) <= Replay /\ Len(bus.history) <= bus.seq
    /\ page.last \in 0..Len(gates) /\ page.cursor \in 0..bus.seq
    /\ post.pc \in {"none", "decision", "comment", "set", "answer"}

\* The decision a gate passes on, and the reviewer's notes the next attempt
\* gets, are those given for this gate, although a decision names no gate and
\* is written into the run in three steps.  (A post whose answer was lost is
\* repeated by hand, and may hit the next gate.)
DecisionForGate ==
    run.pc \in {"route", "revise"} /\ Gated(run.step, run.status) /\ page.intact
    => run.comment = Len(gates)

\* A container that wrote its verdict is judged by that verdict, not by the one
\* an earlier visit of the step left in the same directory.
VerdictIsOwn == run.pc = "verdict" /\ box.wrote => run.used = visits[run.step]

\* "A human would approve into a dead end": of the workflows start_run accepts,
\* none halts after an approval for want of a route.  (`completed` counts as
\* routable even where the step has no route for it.)
NoDeadEnd == run.halt = "noroute" /\ Gated(run.step, run.status) => run.status = "completed"

\* A run is called completed only when its workflow came to DONE: the round
\* counter of the loop, which ends it without failing it, is never what stops it.
CompletedReachedEnd == run.state = "completed" => run.step = "DONE"

\* A run ends where its workflow says, or says that it did not.
EndsAsRouted == NoDeadEnd /\ CompletedReachedEnd

\* A run ends, gates included, as long as the page missed nothing and no step
\* is gated twice (the page takes the second gate for a repeated event).
RunEnds == [](page.intact /\ IsInjective(gates)) => <>(run.pc = "end") \/ [](run.pc = "idle")

=============================================================================
