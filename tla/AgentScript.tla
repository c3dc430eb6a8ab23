---------------------------- MODULE AgentScript ----------------------------
(***************************************************************************)
(* The script inside an agent container, agent/run_skill.sh, from the      *)
(* clone of the run branch to the upload of its verdict: the single-shot   *)
(* step and the session loop (ADR-016), which share commit_and_push.       *)
(*                                                                         *)
(* Containers of one run follow each other, but nothing stops two from     *)
(* being alive: the engine gives up on one it cannot reach and launches    *)
(* the next.  They meet on the run branch of the remote repository.  What  *)
(* the engine does with them is cut down to what the script sees of it:    *)
(* it launches, writes the inbox, reads verdict and exit code (as in       *)
(* runtime.py), and retries (modules StepLoop and Session have the rest).  *)
(*                                                                         *)
(* A commit stands for what it adds: the item of work (a step, or a turn)  *)
(* and what became of the repository's .claude directory.  Prompts, flags, *)
(* summaries and file lists are left out.                                  *)
(***************************************************************************)
EXTENDS Integers, SequencesExt

CONSTANTS
    NumItems,    \* the steps of the run, or the turns of the session
    MaxAttempts, \* launches per step (MAX_ATTEMPTS of the engine)
    MaxBoxes,    \* bound: containers
    MaxMishaps   \* bound: failing calls, dying containers and dying agents

ASSUME AgentAssumption ==
    /\ NumItems \in Nat \ {0} /\ MaxAttempts \in Nat \ {0}
    /\ MaxBoxes \in Nat \ {0} /\ MaxMishaps \in Nat

VARIABLES
    mode,    \* "step" or "session" (BB_SESSION)
    tracked, \* the repository has a .claude/skills of its own
    remote,  \* the run branch: whether it exists, and its commits
    box,     \* the containers
    store,   \* the result objects, by container (one key per attempt)
    inbox,   \* the message for each container: the number of a turn, or of the end
    outbox,  \* the last turn answered, by container
    job,     \* the engine: state, item, attempt, current container, whether the item was asked
             \* for, and for the record what it accepted
    mishaps  \* how many mishaps there were

vars == <<mode, tracked, remote, box, store, inbox, outbox, job, mishaps>>

-----------------------------------------------------------------------------
Items == 1..NumItems
End   == NumItems + 1          \* the end sentinel is numbered after the last turn
Boxes == 1..MaxBoxes
NoBox == 0

Outcomes  == {"completed", "BLOCK"}     \* what the agent may declare
Transient == {"failed_infra", "none"}   \* no result: failed_incomplete
Verdicts  == Outcomes \cup Transient \cup {"failed_init", "failed_execution"}

Clean == IF tracked THEN "repo" ELSE "none"
Absent == [pc |-> "absent", item |-> 0, log |-> <<>>, claude |-> "none", work |-> FALSE,
           verdict |-> "none", rc |-> 0, cli |-> "up", spent |-> 0, base |-> 0, first |-> 0,
           charged |-> 0]

At(c, pc) == box[c].pc = pc
Alive(c)  == box[c].pc \notin {"absent", "exited", "killed"}

Init ==
    /\ mode \in {"step", "session"}
    /\ tracked \in BOOLEAN
    /\ remote = [exists |-> FALSE, log |-> <<>>]
    /\ box = [c \in Boxes |-> Absent]
    /\ store = [c \in Boxes |-> "none"]
    /\ inbox = [c \in Boxes |-> 0]
    /\ outbox = [c \in Boxes |-> 0]
    /\ job = [state |-> "running", item |-> 1, attempt |-> 1, box |-> NoBox,
              asked |-> FALSE, accepted |-> {}]
    /\ mishaps = 0

Mishap   == mishaps < MaxMishaps /\ mishaps' = mishaps + 1
NoMishap == UNCHANGED mishaps

Go(c, pc) == box' = [box EXCEPT ![c].pc = pc]

\* fail: write the verdict and exit; the exit trap uploads it.
Fail(c, status, rc) ==
    box' = [box EXCEPT ![c].pc = "upload", ![c].verdict = status, ![c].rc = rc]

-----------------------------------------------------------------------------
\* Start-up of the container.

\* The run branch if it can be cloned, else a fresh one from the source branch.
\* A failing clone looks like a branch that does not exist.
Clone(c) ==
    /\ At(c, "clone")
    /\ \/ /\ remote.exists /\ NoMishap
          /\ box' = [box EXCEPT ![c].pc = "skill", ![c].log = remote.log, ![c].claude = Clean]
       \/ /\ IF remote.exists THEN Mishap ELSE NoMishap
          /\ box' = [box EXCEPT ![c].pc = "skill", ![c].log = <<>>, ![c].claude = Clean]
       \/ /\ Mishap
          /\ Fail(c, "failed_init", 3)
    /\ UNCHANGED <<mode, tracked, remote, store, inbox, outbox, job>>

\* The step's skill bundle replaces whatever skills the repository tracks.
DeliverSkill(c) ==
    /\ At(c, "skill")
    /\ \/ /\ NoMishap
          /\ box' = [box EXCEPT ![c].pc = IF mode = "step" THEN "agent" ELSE "preamble",
                                ![c].claude = "bundle"]
       \/ /\ Mishap    \* the download fails, or the bundle is not the pinned one
          /\ Fail(c, "failed_infra", 4)
    /\ UNCHANGED <<mode, tracked, remote, store, inbox, outbox, job>>

\* Single shot: the agent works, and fails or not.  A failure is classified
\* before the commit: what the agent did is dropped.
RunAgent(c) ==
    /\ At(c, "agent")
    /\ \/ /\ NoMishap
          /\ \E work \in BOOLEAN, outcome \in Outcomes :
               box' = [box EXCEPT ![c].pc = "commit", ![c].work = work, ![c].verdict = outcome]
       \/ /\ Mishap
          /\ Fail(c, "failed_execution", 1)
    /\ UNCHANGED <<mode, tracked, remote, store, inbox, outbox, job>>

-----------------------------------------------------------------------------
\* commit_and_push.

StageUnrestored(c) == [box[c] EXCEPT !.claude = "none"] \* a bug: the bundle is dropped, no more

\* The bundle goes, the repository's own .claude comes back.
Stage(c) == [box[c] EXCEPT !.claude = Clean]

\* A commit, unless nothing changed.  (An untracked .claude never shows.)
Commit(c) ==
    LET staged == Stage(c)
        dirty == staged.work \/ staged.claude # Clean
        commit == [item |-> staged.item, by |-> c, claude |-> staged.claude]
    IN /\ At(c, "commit")
       /\ box' = [box EXCEPT ![c] = [staged EXCEPT
                     !.pc = "push", !.work = FALSE,
                     !.log = IF dirty THEN Append(staged.log, commit) ELSE staged.log]]
       /\ UNCHANGED <<mode, tracked, remote, store, inbox, outbox, job, mishaps>>

\* What the script goes on with once its push is known to have landed.
Pushed(c) ==
    box' = [box EXCEPT ![c].pc =
              IF mode = "step" \/ box[c].item = End THEN "emit" ELSE "outbox"]

Landed(c) == remote' = [exists |-> TRUE, log |-> box[c].log]

\* git refuses what does not extend the branch.
FastForward(c) == ~remote.exists \/ IsPrefix(remote.log, box[c].log)

PushForced(c) ==        \* a bug: push --force
    /\ At(c, "push") /\ NoMishap
    /\ Landed(c) /\ Pushed(c)
    /\ UNCHANGED <<mode, tracked, store, inbox, outbox, job>>

PushUnchecked(c) ==     \* a bug: a refused push is only logged
    /\ At(c, "push") /\ NoMishap
    /\ IF FastForward(c) THEN Landed(c) ELSE UNCHANGED remote
    /\ Pushed(c)
    /\ UNCHANGED <<mode, tracked, store, inbox, outbox, job>>

Push(c) ==
    /\ At(c, "push")
    /\ \/ /\ FastForward(c) /\ NoMishap
          /\ Landed(c) /\ Pushed(c)
       \/ /\ ~FastForward(c) /\ NoMishap
          /\ Fail(c, "failed_infra", 4) /\ UNCHANGED remote
       \/ /\ Mishap    \* the push fails, or lands without the script hearing of it
          /\ Fail(c, "failed_infra", 4)
          /\ (FastForward(c) /\ Landed(c)) \/ UNCHANGED remote
    /\ UNCHANGED <<mode, tracked, store, inbox, outbox, job>>

-----------------------------------------------------------------------------
\* Session mode: the agent is a coprocess, turns come through the inbox.

Unseeded(b) ==          \* a bug: the preamble's cost is not taken as the baseline
    [b EXCEPT !.pc = "await", !.spent = 1, !.first = 1]

\* The preamble is answered first, and its cost seeds the baseline.
Seeded(b) == [b EXCEPT !.pc = "await", !.spent = 1, !.first = 1, !.base = 1]

Preamble(c) ==
    /\ At(c, "preamble")
    /\ \/ NoMishap /\ box' = [box EXCEPT ![c] = Seeded(@)]
       \/ Mishap /\ Fail(c, "failed_execution", 1)
    /\ UNCHANGED <<mode, tracked, remote, store, inbox, outbox, job>>

UnreadTurn(c) == inbox[c] # 0   \* a bug: the last number read is not remembered
NewTurn(c) == inbox[c] # 0 /\ inbox[c] # box[c].item

\* The next message: a turn, or the end sentinel.  The loop notices a dead
\* agent only when there is none.
AwaitDeaf(c) ==         \* a bug: the loop waits for a message, whatever its agent does
    /\ At(c, "await") /\ NewTurn(c)
    /\ box' = [box EXCEPT ![c].item = inbox[c], ![c].verdict = "completed",
                          ![c].pc = IF inbox[c] = End THEN "commit" ELSE "turn"]

Await(c) ==
    /\ At(c, "await")
    /\ \/ /\ NewTurn(c)
          /\ box' = [box EXCEPT ![c].item = inbox[c], ![c].verdict = "completed",
                                ![c].pc = IF inbox[c] = End THEN "commit" ELSE "turn"]
       \/ /\ ~NewTurn(c) /\ box[c].cli = "dead"
          /\ Fail(c, "failed_execution", 1)

SessionLoop(c) ==
    /\ Await(c)
    /\ UNCHANGED <<mode, tracked, remote, store, inbox, outbox, job, mishaps>>

\* run_turn: the reply and its cost, cumulative unless the agent reports none.
AnswerTurn(c) ==
    /\ At(c, "turn")
    /\ IF box[c].cli = "dead"
       THEN Fail(c, "failed_execution", 1)
       ELSE \E work, reported \in BOOLEAN :
              LET spent == box[c].spent + 1
              IN box' = [box EXCEPT
                            ![c].pc = "commit", ![c].work = work, ![c].spent = spent,
                            ![c].charged = IF reported THEN @ + spent - box[c].base ELSE @,
                            ![c].base = IF reported THEN spent ELSE @]
    /\ UNCHANGED <<mode, tracked, remote, store, inbox, outbox, job, mishaps>>

\* The outbox ends the turn; when it cannot be written the session fails.
PublishOutbox(c) ==
    /\ At(c, "outbox")
    /\ \/ /\ NoMishap
          /\ outbox' = [outbox EXCEPT ![c] = box[c].item] /\ Go(c, "await")
       \/ /\ Mishap
          /\ outbox' \in {outbox, [outbox EXCEPT ![c] = box[c].item]}
          /\ Fail(c, "failed_infra", 4)
    /\ UNCHANGED <<mode, tracked, remote, store, inbox, job>>

-----------------------------------------------------------------------------
\* emit, and the exit trap: without the upload there is no verdict.

Emit(c) ==
    /\ At(c, "emit") /\ Go(c, "upload")
    /\ UNCHANGED <<mode, tracked, remote, store, inbox, outbox, job, mishaps>>

OnExit(c) ==
    /\ At(c, "upload")
    /\ \/ /\ NoMishap
          /\ store' = [store EXCEPT ![c] = box[c].verdict] /\ Go(c, "exited")
       \/ /\ Mishap
          /\ store' \in {store, [store EXCEPT ![c] = box[c].verdict]}
          /\ box' = [box EXCEPT ![c].pc = "exited", ![c].rc = 4, ![c].verdict = "failed_infra"]
    /\ UNCHANGED <<mode, tracked, remote, inbox, outbox, job>>

\* The container is killed, or only its agent.
Die(c) ==
    /\ Alive(c) /\ Mishap
    /\ \/ Go(c, "killed")
       \/ mode = "session" /\ box' = [box EXCEPT ![c].cli = "dead"]
    /\ UNCHANGED <<mode, tracked, remote, store, inbox, outbox, job>>

Script(c) == \/ Clone(c) \/ DeliverSkill(c) \/ RunAgent(c) \/ Commit(c) \/ Push(c)
             \/ Preamble(c) \/ SessionLoop(c) \/ AnswerTurn(c) \/ PublishOutbox(c)
             \/ Emit(c) \/ OnExit(c)

-----------------------------------------------------------------------------
\* The engine, as far as its containers notice it.

\* A step is asked for by the run itself, a turn or the end by the user.
Ask ==
    /\ mode = "session" /\ job.state = "running" /\ ~job.asked
    /\ \E item \in {job.item, End} :
         /\ job' = [job EXCEPT !.asked = TRUE, !.item = item]
         /\ inbox' = IF job.box = NoBox THEN inbox ELSE [inbox EXCEPT ![job.box] = item]
    /\ UNCHANGED <<mode, tracked, remote, box, store, outbox, mishaps>>

Launch ==
    /\ job.state = "running" /\ job.box = NoBox
    /\ mode = "session" => job.asked /\ job.item # End
    /\ \E c \in Boxes :
         /\ At(c, "absent") /\ \A d \in Boxes : d < c => ~At(d, "absent")
         /\ box' = [box EXCEPT ![c].pc = "clone",
                               ![c].item = IF mode = "step" THEN job.item ELSE 0]
         /\ inbox' = [inbox EXCEPT ![c] = IF mode = "step" THEN 0 ELSE job.item]
         /\ job' = [job EXCEPT !.box = c]
    /\ UNCHANGED <<mode, tracked, remote, store, outbox, mishaps>>

\* The next item, if there is one.
Advance(accepted) ==
    job' = [job EXCEPT !.item = @ + 1, !.attempt = 1, !.asked = FALSE,
                       !.box = IF accepted /\ mode = "session" THEN @ ELSE NoBox,
                       !.accepted = IF accepted THEN @ \cup {[item |-> job.item, by |-> job.box]}
                                    ELSE @,
                       !.state = IF mode = "step" /\ job.item = NumItems THEN "done" ELSE @]

RetryOnceMore == job' = IF job.attempt <= MaxAttempts    \* a bug: one attempt too many
                        THEN [job EXCEPT !.attempt = @ + 1, !.box = NoBox]
                        ELSE [job EXCEPT !.state = "failed"]
Retry == job' = IF job.attempt < MaxAttempts
                THEN [job EXCEPT !.attempt = @ + 1, !.box = NoBox]
                ELSE [job EXCEPT !.state = "failed"]

\* reconcile: a failing exit overrules `completed'.
VerdictOf(c) ==
    IF At(c, "killed") THEN "none"
    ELSE IF box[c].rc # 0 /\ store[c] = "completed" THEN "failed_execution"
    ELSE store[c]

JudgeStep ==
    LET c == job.box IN
    /\ mode = "step" /\ job.state = "running" /\ c # NoBox /\ ~Alive(c)
    /\ \/ VerdictOf(c) \in Outcomes /\ Advance(TRUE)
       \/ VerdictOf(c) \in Transient /\ Retry
       \/ VerdictOf(c) \notin Outcomes \cup Transient /\ job' = [job EXCEPT !.state = "failed"]
    /\ UNCHANGED <<mode, tracked, remote, box, store, inbox, outbox, mishaps>>

\* reconcile_turn, and the end: the answer counts even if the container is gone.
JudgeTurn ==
    LET c == job.box IN
    /\ mode = "session" /\ job.state = "running" /\ job.asked
    /\ \/ /\ c # NoBox /\ job.item # End /\ outbox[c] = job.item
          /\ Advance(TRUE)
       \/ /\ c # NoBox /\ job.item # End /\ outbox[c] # job.item /\ ~Alive(c)
          /\ Advance(FALSE)
       \/ /\ job.item = End /\ (c # NoBox => ~Alive(c))
          /\ job' = [job EXCEPT !.state = "done"]
    /\ UNCHANGED <<mode, tracked, remote, box, store, inbox, outbox, mishaps>>

\* A container past its deadline, or out of reach, is given up; killing it may fail.
GiveUp ==
    LET c == job.box IN
    /\ job.state = "running" /\ c # NoBox /\ Alive(c) /\ Mishap
    /\ box' \in {box, [box EXCEPT ![c].pc = "killed"]}
    /\ IF mode = "step" THEN Retry ELSE job.asked /\ job.item # End /\ Advance(FALSE)
    /\ UNCHANGED <<mode, tracked, remote, store, inbox, outbox>>

-----------------------------------------------------------------------------
Engine == Launch \/ JudgeStep \/ JudgeTurn
Next == \/ \E c \in Boxes : Script(c) \/ Die(c)
        \/ Engine \/ Ask \/ GiveUp

\* A script runs on, and the engine looks at what became of it; users need not
\* come back.
Fairness == WF_vars(Engine) /\ \A c \in Boxes : WF_vars(Script(c))

Spec == Init /\ [][Next]_vars /\ Fairness

-----------------------------------------------------------------------------
Commits == [item : 0..End, by : Boxes, claude : {"none", "repo", "bundle"}]

Pcs == {"absent", "clone", "skill", "agent", "commit", "push", "preamble", "await", "turn",
        "outbox", "emit", "upload", "exited", "killed"}
Containers == [pc : Pcs,
               item : 0..End, log : Seq(Commits), claude : {"none", "repo", "bundle"},
               work : BOOLEAN, verdict : Verdicts, rc : 0..4, cli : {"up", "dead"},
               spent : Nat, base : Nat, first : Nat, charged : Nat]

TypeOK ==
    /\ mode \in {"step", "session"} /\ tracked \in BOOLEAN
    /\ remote \in [exists : BOOLEAN, log : Seq(Commits)]
    /\ box \in [Boxes -> Containers]
    /\ store \in [Boxes -> Verdicts]
    /\ inbox \in [Boxes -> 0..End] /\ outbox \in [Boxes -> 0..NumItems]
    /\ job \in [state : {"running", "done", "failed"}, item : 1..End, attempt : 1..MaxAttempts,
                box : Boxes \cup {NoBox}, asked : BOOLEAN,
                accepted : SUBSET [item : Items, by : Boxes]]
    /\ mishaps \in 0..MaxMishaps

\* "A step counts only when its push lands": what a container did for an item
\* the engine accepted is on the run branch, to the last commit.
AcceptedIsPushed ==
    \A a \in job.accepted :
        LET done == {i \in DOMAIN box[a.by].log : box[a.by].log[i].item = a.item} IN
        \A i \in done : i \in DOMAIN remote.log /\ remote.log[i] = box[a.by].log[i]

\* A container works on an item once, although the message that asks for it
\* lies in its inbox until the next one is written.
WorkedOnce ==
    \A i, j \in DOMAIN remote.log :
        remote.log[i].item = remote.log[j].item /\ remote.log[i].by = remote.log[j].by => i = j

\* What is on the run branch stays, whoever pushes: a container given up, or two at once.
WorkKept == [][remote.exists => remote'.exists /\ IsPrefix(remote.log, remote'.log)]_vars

\* The branch never carries the delivered skills, nor loses the repository's own.
PlumbingStaysOut == \A i \in DOMAIN remote.log : remote.log[i].claude = Clean

\* Turns are charged what turns cost: not the preamble, and nothing twice.
ChargedOnce == \A c \in Boxes : box[c].charged <= box[c].spent - box[c].first

\* Nothing is done, or charged, twice.
NothingTwice == WorkedOnce /\ ChargedOnce

\* A container ends by itself, verdict uploaded or not; only a session whose
\* agent lives waits on.
ContainerSettles ==
    \A c \in Boxes :
        Alive(c) ~> \/ ~Alive(c)
                    \/ At(c, "await") /\ box[c].cli = "up"

=============================================================================
