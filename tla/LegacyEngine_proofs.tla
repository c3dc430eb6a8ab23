------------------------ MODULE LegacyEngine_proofs ------------------------
(***************************************************************************)
(* What holds of LegacyEngine for any workflows, any limits and any number *)
(* of mishaps: a container is judged by its own verdict, no reviewer       *)
(* approves into a dead end, a decision is for the gate it was asked at,   *)
(* and a run is called completed only if it came to DONE.                  *)
(*                                                                         *)
(* The page handles a batch of events in one fold, and the loop's rounds   *)
(* are the sum of the visits, another.  What they compute is proved from   *)
(* their definitions, by an induction over sets that the library's theorem *)
(* on well-founded orders allows.                                          *)
(***************************************************************************)
EXTENDS LegacyEngine, FiniteSetTheorems, TLAPS

\* Where an attempt is under way, and where the thread has taken up a run.
AtWork  == {"launch", "watch", "read", "verdict"}
Started == {"top", "launch", "watch", "read", "verdict", "gate", "announce", "wait",
            "revise", "route", "finish", "end"}

Outcomes    == Verdicts \cup Transient \cup {"none", "failed_execution"}
RunFields   == {"pc", "state", "step", "attempt", "saw", "status", "used", "comment", "halt"}
ResultTypes == [status: Outcomes, visit: Nat]
BoxTypes    == [state: {"running", "exited", "gone"}, ok: BOOLEAN, wrote: BOOLEAN]

\* The types of what the thread and its containers share.  (The page's are Shapes, below.)
Types ==
    /\ wf \in Workflows
    /\ DOMAIN run = RunFields
    /\ run.pc \in {"idle"} \cup Started /\ run.attempt \in Attempts
    /\ run.pc \in AtWork \cup {"gate", "announce", "wait", "revise", "route"} =>
         run.step \in DOMAIN wf.on
    /\ visits \in [Steps -> Nat]
    /\ results \in [Steps \X Attempts -> ResultTypes]
    /\ box \in BoxTypes
    /\ Running => run.pc \in {"watch", "read", "verdict"}

-----------------------------------------------------------------------------
(* Whose verdict it is. *)

\* A container that wrote left its result in the directory of the attempt, and one
\* that was seen to have ended writes no more.
Own ==
    /\ run.pc \in {"watch", "read", "verdict"} /\ box.wrote =>
         results[Cell].visit = visits[run.step]
    /\ run.pc = "read" => run.saw \in {"running", "exited", "gone"}
    /\ run.pc = "read" /\ run.saw # "running" => ~Running
    /\ run.pc = "verdict" => run.used = visits[run.step] \/ ~(Running \/ box.wrote)

OwnInv == Types /\ Own

LEMMA StepsOf == ASSUME NEW w \in Workflows PROVE DOMAIN w.on \subseteq Steps
  BY DEF Steps

\* Where the thread stands: what its actions change besides, the invariants ignore.
At(pc) == DOMAIN run' = RunFields /\ run'.pc = pc
Same   == /\ run'.step = run.step /\ run'.status = run.status /\ run'.halt = run.halt
          /\ run'.attempt = run.attempt
Judged(status, used) ==
    At("verdict") /\ run'.step = run.step /\ run'.attempt = run.attempt
    /\ run'.halt = run.halt /\ run'.status = status /\ run'.used = used

LEMMA NextRoundSays ==
    ASSUME Types, NextRound
    PROVE  /\ run.pc = "top" /\ visits' \in [Steps -> Nat]
           /\ \/ At("finish") /\ run'.step = run.step /\ run'.status = run.status
                 /\ run'.attempt = run.attempt /\ run'.halt \in {"none", "unknown", "visits"}
              \/ At("launch") /\ run'.step = run.step /\ run.step \in DOMAIN wf.on
                 /\ run'.halt = run.halt /\ run'.attempt = 1
           /\ UNCHANGED <<wf, gates, approval, box, results, bus, page, post, mishaps>>
  <1> USE DEF RunFields, At, Types
  <1>1. \A halt : run' = LeaveLoop(halt) =>
            At("finish") /\ run'.step = run.step /\ run'.status = run.status
            /\ run'.attempt = run.attempt /\ run'.halt = halt
    BY DEF LeaveLoop
  <1>2. run' = [run EXCEPT !.pc = "launch", !.attempt = 1] =>
            At("launch") /\ run'.step = run.step /\ run'.halt = run.halt /\ run'.attempt = 1
    OBVIOUS
  <1>3. visits' \in [Steps -> Nat]
    BY DEF NextRound
  <1>4. QED
    BY <1>1, <1>2, <1>3 DEF NextRound

LEMMA LaunchSays ==
    ASSUME Types, Launch
    PROVE  /\ run.pc = "launch" /\ box' \in BoxTypes
           /\ \/ At("watch") /\ Same /\ box'.wrote = FALSE
              \/ At("end") /\ run'.step = run.step /\ run'.status = run.status
                 /\ run'.attempt = run.attempt /\ run'.halt = "crash" /\ UNCHANGED box
           /\ UNCHANGED <<wf, visits, gates, approval, results, page, post>>
  <1> USE DEF RunFields, At, Types
  <1>1. run' = [run EXCEPT !.pc = "watch"] => At("watch") /\ Same
    BY DEF Same
  <1>2. run' = [run EXCEPT !.pc = "end", !.state = "failed", !.halt = "crash"] =>
            At("end") /\ run'.step = run.step /\ run'.status = run.status
            /\ run'.attempt = run.attempt /\ run'.halt = "crash"
    OBVIOUS
  <1>3. QED
    <2>1. CASE /\ box' = [state |-> "running", ok |-> TRUE, wrote |-> FALSE]
               /\ run' = [run EXCEPT !.pc = "watch"]
      BY <1>1, <2>1 DEF Launch, BoxTypes
    <2>2. CASE /\ run' = [run EXCEPT !.pc = "end", !.state = "failed", !.halt = "crash"]
               /\ UNCHANGED box
      BY <1>2, <2>2 DEF Launch
    <2>3. QED
      BY <2>1, <2>2 DEF Launch

\* What reconcile may say, and whose verdict that is.
LEMMA ReconcileSays ==
    ASSUME Types, Reconcile
    PROVE  /\ \/ run.pc = "watch" /\ At("read") /\ Same /\ run'.saw = box.state
              \/ run.pc \in {"watch", "read"} /\ \E status : Judged(status, visits[run.step])
              \/ run.pc = "read" /\ run.saw = "exited"
                 /\ \E status : Judged(status, results[Cell].visit)
              \/ run.pc = "read" /\ At("watch") /\ Same
           /\ UNCHANGED <<wf, visits, gates, approval, box, results, bus, page, post>>
  <1> USE DEF RunFields, At, Types
  <1>1. \A status, used : run' = Verdict(status, used) => Judged(status, used)
    BY DEF Verdict, Judged
  <1>2. \A saw : run' = [run EXCEPT !.pc = "read", !.saw = saw] =>
            At("read") /\ Same /\ run'.saw = saw
    BY DEF Same
  <1>3. run' = [run EXCEPT !.pc = "watch", !.saw = "none"] => At("watch") /\ Same
    BY DEF Same
  <1>4. CASE run.pc = "watch" /\ PollContainer
    BY <1>1, <1>2, <1>4 DEF PollContainer, Reconcile
  <1>5. CASE run.pc = "read" /\ Classify(run.saw, results[Cell])
    BY <1>1, <1>3, <1>5 DEF Classify, Joined, Reconcile
  <1>6. QED
    BY <1>4, <1>5 DEF Reconcile, PollContainer

LEMMA ConcludeAttemptSays ==
    ASSUME Types, ConcludeAttempt
    PROVE  /\ run.pc = "verdict" /\ box' = Gone /\ run'.step = run.step /\ run'.status = run.status
           /\ \/ At("launch") /\ run'.halt = run.halt /\ run'.attempt \in Attempts
              \/ At("finish") /\ run'.halt = "failure" /\ run'.attempt = run.attempt
              \/ \E pc \in {"gate", "route"} : At(pc) /\ Same
           /\ UNCHANGED <<wf, visits, gates, approval, results, bus, page, post, mishaps>>
  <1> USE DEF RunFields, At, Types
  <1>0. run.attempt \in Attempts /\ (run.attempt < MaxAttempts => run.attempt + 1 \in Attempts)
    BY LegacyAssumption DEF Attempts
  <1>1. run' = LeaveLoop("failure") =>
            At("finish") /\ run'.step = run.step /\ run'.status = run.status
            /\ run'.attempt = run.attempt /\ run'.halt = "failure"
    BY DEF LeaveLoop
  <1>2. run' = [run EXCEPT !.pc = "launch", !.attempt = @ + 1] =>
            /\ At("launch") /\ run'.step = run.step /\ run'.halt = run.halt
            /\ run'.status = run.status /\ run'.attempt = run.attempt + 1
    OBVIOUS
  <1>3. \A pc : run' = [run EXCEPT !.pc = pc] => At(pc) /\ Same
    BY DEF Same
  <1>4. QED
    BY <1>0, <1>1, <1>2, <1>3 DEF ConcludeAttempt, Same

\* The thread between two attempts: it launches nothing and touches no result.
LEMMA BetweenSays ==
    ASSUME Types, AwaitApproval \/ Resolve \/ Revise \/ Route \/ FinishRun
    PROVE  /\ run.pc \in {"gate", "announce", "wait", "revise", "route", "finish"}
           /\ \/ \E pc \in {"announce", "wait", "revise", "route"} : At(pc) /\ Same
              \/ At("top") /\ run'.halt = run.halt /\ run'.attempt = run.attempt
              \/ At("finish") /\ run'.step = run.step /\ run'.status = run.status
                 /\ run'.attempt = run.attempt
                 /\ \/ run'.halt \in {"noroute back", "nohint"}
                    \/ run'.halt = "noroute" /\ run.status \notin DOMAIN Routes(run.step)
              \/ run.pc = "finish" /\ At("end") /\ Same
           /\ IF run.pc = "finish" THEN run'.pc = "end"
              ELSE run'.pc # "end" /\ run.step \in DOMAIN wf.on
           /\ UNCHANGED <<wf, visits, box, results>>
  <1> USE DEF RunFields, At, Types
  <1>1. \A halt : run' = LeaveLoop(halt) =>
            At("finish") /\ run'.step = run.step /\ run'.status = run.status
            /\ run'.attempt = run.attempt /\ run'.halt = halt
    BY DEF LeaveLoop
  <1>2. \A s : run' = GoTo(s) => At("top") /\ run'.halt = run.halt /\ run'.attempt = run.attempt
    BY DEF GoTo
  <1>3. CASE AwaitApproval
    <2>1. CASE run' = [run EXCEPT !.pc = "announce"]
      BY <1>3, <2>1 DEF AwaitApproval, OpenGate, Same
    <2>2. CASE run' = [run EXCEPT !.pc = "wait", !.state = "awaiting_approval"]
      BY <1>3, <2>2 DEF AwaitApproval, OpenGate, Same
    <2>3. QED
      BY <1>3, <2>1, <2>2 DEF AwaitApproval, OpenGate
  <1>4. CASE Resolve
    <2>1. PICK pc \in {"route", "revise"} :
             run' = [run EXCEPT !.pc = pc, !.state = "running", !.comment = approval.comment]
      BY <1>4 DEF Resolve
    <2>2. At(pc) /\ Same
      BY <2>1 DEF Same
    <2>3. QED
      BY <1>4, <2>2 DEF Resolve
  <1>5. CASE Revise
    BY <1>1, <1>2, <1>5 DEF Revise
  <1>6. CASE Route
    BY <1>1, <1>2, <1>6 DEF Route
  <1>7. CASE FinishRun
    <2>1. At("end") /\ Same
      BY <1>7 DEF FinishRun, Same
    <2>2. QED
      BY <1>7, <2>1 DEF FinishRun
  <1>8. QED
    BY <1>3, <1>4, <1>5, <1>6, <1>7

LEMMA WriteSays ==
    ASSUME Types, WriteResult
    PROVE  /\ Running /\ Running' /\ box' \in BoxTypes /\ Cell \in Steps \X Attempts
           /\ \E r \in ResultTypes : r.visit = visits[run.step]
                                     /\ results' = [results EXCEPT ![Cell] = r]
           /\ UNCHANGED <<wf, run, visits, gates, approval, bus, page, post, mishaps>>
  <1>1. Running /\ run.step \in Steps /\ run.attempt \in Attempts
    BY StepsOf DEF WriteResult, Types, AtWork
  <1>2. Cell \in Steps \X Attempts /\ visits[run.step] \in Nat
    BY <1>1 DEF Cell, Types
  <1>3. PICK v \in Verdicts \cup {"failed_execution", "failed_infra"} :
           results' = [results EXCEPT ![Cell] = [status |-> v, visit |-> visits[run.step]]]
    BY DEF WriteResult
  <1> DEFINE r == [status |-> v, visit |-> visits[run.step]]
  <1>4. r \in ResultTypes /\ r.visit = visits[run.step]
    BY <1>2 DEF ResultTypes, Outcomes, Transient
  <1>5. box' \in BoxTypes /\ Running'
    BY <1>1 DEF WriteResult, Types, BoxTypes, Running
  <1>6. QED
    BY <1>1, <1>2, <1>3, <1>4, <1>5 DEF WriteResult

LEMMA EndsSays ==
    ASSUME Types, ContainerEnds
    PROVE  /\ Running /\ ~Running' /\ box' \in BoxTypes /\ (box'.wrote => box.wrote)
           /\ UNCHANGED <<wf, run, visits, gates, approval, results, bus, page, post>>
  <1>1. \A ok \in BOOLEAN :
            LET b == [box EXCEPT !.state = "exited", !.ok = ok] IN
            b \in BoxTypes /\ b.state = "exited" /\ b.wrote = box.wrote
    BY DEF Types, BoxTypes
  <1>2. Gone \in BoxTypes /\ Gone.state = "gone" /\ Gone.wrote = FALSE
    BY DEF Gone, BoxTypes
  <1>3. box' = Gone \/ \E ok \in BOOLEAN : box' = [box EXCEPT !.state = "exited", !.ok = ok]
    BY DEF ContainerEnds
  <1>4. QED
    BY <1>1, <1>2, <1>3 DEF ContainerEnds, Running

\* The page, the request thread and the reviewer are elsewhere.
Elsewhere == UNCHANGED <<wf, run, visits, box, results>>
LEMMA BrowserSays ==
    ASSUME RequestThread \/ Browser \/ Reload
    PROVE  Elsewhere
  BY DEF RequestThread, Browser, Poll, Decide, PostAnswered, Reload, Elsewhere

LEMMA StartRunSays ==
    ASSUME Types, StartRun
    PROVE  /\ run.pc = "idle" /\ At("top") /\ run'.halt = run.halt
           /\ run'.attempt = run.attempt
           /\ ValidPairing(wf) /\ UNCHANGED <<wf, visits, box, results>>
  BY DEF StartRun, Types, RunFields, At

\* ... and what of that matters to the containers.
LEMMA BetweenStays ==
    ASSUME Types, AwaitApproval \/ Resolve \/ Revise \/ Route \/ FinishRun
    PROVE  /\ DOMAIN run' = RunFields /\ run'.attempt \in Attempts /\ ~Running
           /\ run'.pc \in {"top", "announce", "wait", "revise", "route", "finish", "end"}
           /\ run'.pc \in {"announce", "wait", "revise", "route"} =>
                run'.step = run.step /\ run.step \in DOMAIN wf.on
           /\ UNCHANGED <<wf, visits, box, results>>
  <1>0. run.attempt \in Attempts /\ (Running => run.pc \in {"watch", "read", "verdict"})
    BY DEF Types
  <1>1. ~Running /\ UNCHANGED <<wf, visits, box, results>>
    BY <1>0, BetweenSays
  <1>2. CASE \E pc \in {"announce", "wait", "revise", "route"} : At(pc) /\ Same
    BY <1>0, <1>1, <1>2, BetweenSays DEF At, Same
  <1>3. CASE run'.attempt = run.attempt /\ \E pc \in {"top", "finish", "end"} : At(pc)
    BY <1>0, <1>1, <1>3 DEF At
  <1>4. QED
    BY <1>2, <1>3, BetweenSays DEF Same

LEMMA GoneSays == Gone \in BoxTypes /\ Gone.state = "gone" /\ ~Gone.wrote
  BY DEF Gone, BoxTypes

LEMMA OwnNext == ASSUME OwnInv, Next PROVE OwnInv'
  <1> USE DEF OwnInv, Types, Own, At, Same, AtWork, Started, Running, Cell
  <1>0. Types /\ Own
    OBVIOUS
  <1>1. CASE StartRun
    BY <1>0, <1>1, StartRunSays
  <1>2. CASE NextRound
    BY <1>0, <1>2, NextRoundSays, LegacyAssumption DEF Attempts
  <1>3. CASE Launch
    BY <1>0, <1>3, LaunchSays
  <1>4. CASE Reconcile
    BY <1>0, <1>4, ReconcileSays DEF Judged, BoxTypes
  <1>5. CASE ConcludeAttempt
    <2>1. /\ DOMAIN run' = RunFields /\ run'.pc \in {"launch", "finish", "gate", "route"}
          /\ run'.attempt \in Attempts /\ run'.step = run.step /\ run.step \in DOMAIN wf.on
          /\ UNCHANGED <<wf, visits, results>>
      BY <1>0, <1>5, ConcludeAttemptSays
    <2>2. box' \in BoxTypes /\ box'.state = "gone"
      BY <1>0, <1>5, ConcludeAttemptSays, GoneSays
    <2>3. QED
      BY <1>0, <2>1, <2>2
  <1>6. CASE AwaitApproval \/ Resolve \/ Revise \/ Route \/ FinishRun
    BY <1>0, <1>6, BetweenStays
  <1>7. CASE WriteResult
    BY <1>0, <1>7, WriteSays
  <1>8. CASE ContainerEnds
    BY <1>0, <1>8, EndsSays
  <1>9. CASE RequestThread \/ Browser \/ Reload
    BY <1>0, <1>9, BrowserSays DEF Elsewhere
  <1>10. QED
    BY <1>1, <1>2, <1>3, <1>4, <1>5, <1>6, <1>7, <1>8, <1>9 DEF Next, Thread

LEMMA OwnInit == Init => OwnInv
  BY LegacyAssumption
     DEF Init, OwnInv, Types, Own, RunFields, Started, AtWork, Attempts, NoResult, ResultTypes,
         Outcomes, Gone, BoxTypes, Running

LEMMA OwnStep == OwnInv /\ [Next]_vars => OwnInv'
  BY OwnNext DEF vars, OwnInv, Types, Own, Running, Cell

\* A container that wrote its verdict is judged by that verdict, not by the one an
\* earlier visit of the step left in the same directory.
THEOREM VerdictsAreOwn == Spec => []VerdictIsOwn
  <1>1. OwnInv => VerdictIsOwn
    BY DEF OwnInv, Own, VerdictIsOwn
  <1>2. QED
    BY OwnInit, OwnStep, <1>1, PTL DEF Spec

-----------------------------------------------------------------------------
(* Where a reviewer's approval leads. *)

\* A run that was taken up has a policy that waits for what its steps may report, and
\* a run that halted goes nowhere.
RouteInv ==
    /\ run.pc # "idle" => ValidPairing(wf)
    /\ run.pc \notin {"finish", "end"} => run.halt = "none"
    /\ NoDeadEnd

LEMMA HaltSays ==
    ASSUME Types, RouteInv, UNCHANGED wf, run'.step = run.step, run'.status = run.status,
           \/ run'.halt \notin {"none", "noroute"}
           \/ run'.halt = "noroute" /\ run.status \notin DOMAIN Routes(run.step),
           ValidPairing(wf), run'.pc # "idle"
    PROVE  run'.pc \in {"finish", "end"} => RouteInv'
  <1>1. Gated(run.step, run.status) /\ run.status \notin DOMAIN Routes(run.step) =>
            run.status = "completed"
    BY DEF Gated, ValidPairing, AllowedStatuses, Routes
  <1>2. QED
    BY <1>1 DEF RouteInv, NoDeadEnd, Gated, ValidPairing, AllowedStatuses

LEMMA RouteNext == ASSUME OwnInv, RouteInv, Next PROVE RouteInv'
  <1>0. Types /\ RouteInv
    BY DEF OwnInv
  <1>1. CASE UNCHANGED wf /\ run'.pc # "idle" /\ run'.halt = "none" /\ ValidPairing(wf)
    BY <1>1 DEF RouteInv, NoDeadEnd, ValidPairing, AllowedStatuses
  <1>2. CASE UNCHANGED <<wf, run>>
    BY <1>0, <1>2 DEF RouteInv, NoDeadEnd, ValidPairing, AllowedStatuses, Gated
  <1>3. CASE StartRun
    BY <1>0, <1>1, <1>3, StartRunSays DEF RouteInv, At
  <1>4. CASE NextRound
    BY <1>0, <1>1, <1>4, HaltSays, NextRoundSays DEF RouteInv, At
  <1>5. CASE Launch
    BY <1>0, <1>1, <1>5, HaltSays, LaunchSays DEF RouteInv, At, Same
  <1>6. CASE Reconcile
    BY <1>0, <1>1, <1>6, ReconcileSays DEF RouteInv, At, Same, Judged
  <1>7. CASE ConcludeAttempt
    BY <1>0, <1>1, <1>7, HaltSays, ConcludeAttemptSays DEF RouteInv, At, Same
  <1>8. CASE AwaitApproval \/ Resolve \/ Revise \/ Route \/ FinishRun
    <2>0. ValidPairing(wf) /\ UNCHANGED wf
      BY <1>0, <1>8, BetweenSays DEF RouteInv
    <2>1. CASE run.pc = "finish" /\ At("end") /\ Same
      BY <1>0, <2>0, <2>1 DEF RouteInv, NoDeadEnd, At, Same, ValidPairing, AllowedStatuses, Gated
    <2>2. CASE run.pc # "finish" /\ run'.halt = run.halt /\ run'.pc # "idle"
      <3>1. run.halt = "none"
        BY <1>0, <1>8, <2>2, BetweenSays DEF RouteInv
      <3>2. QED
        BY <1>1, <2>0, <2>2, <3>1
    <2>3. CASE /\ At("finish") /\ run'.step = run.step /\ run'.status = run.status
               /\ \/ run'.halt \in {"noroute back", "nohint"}
                  \/ run'.halt = "noroute" /\ run.status \notin DOMAIN Routes(run.step)
      BY <1>0, <2>0, <2>3, HaltSays DEF At
    <2>4. QED
      BY <1>0, <1>8, <2>1, <2>2, <2>3, BetweenSays DEF At, Same
  <1>9. CASE WriteResult \/ ContainerEnds
    BY <1>2, <1>9 DEF WriteResult, ContainerEnds
  <1>10. CASE RequestThread \/ Browser \/ Reload
    BY <1>2, <1>10, BrowserSays DEF Elsewhere
  <1>11. QED
    BY <1>3, <1>4, <1>5, <1>6, <1>7, <1>8, <1>9, <1>10 DEF Next, Thread

\* Of the workflows start_run accepts, none halts after an approval for want of a
\* route, but for the outcome `completed`, which always counts as routable.
THEOREM NoApprovalIntoDeadEnd == Spec => []NoDeadEnd
  <1>1. Init => RouteInv
    BY DEF Init, RouteInv, NoDeadEnd
  <1>2. OwnInv /\ RouteInv /\ [Next]_vars => RouteInv'
    <2> SUFFICES ASSUME OwnInv, RouteInv, [Next]_vars PROVE RouteInv'
      OBVIOUS
    <2>1. CASE UNCHANGED vars
      BY <2>1 DEF vars, RouteInv, NoDeadEnd, ValidPairing, AllowedStatuses, Gated
    <2>2. QED
      BY <2>1, RouteNext
  <1>3. RouteInv => NoDeadEnd
    BY DEF RouteInv
  <1>4. QED
    BY OwnInit, OwnStep, <1>1, <1>2, <1>3, PTL DEF Spec

-----------------------------------------------------------------------------
(* Folds: what the page makes of a batch, how many rounds the loop took. *)

\* Induction over the numbers up to n, for a set of them.
LEMMA Induction ==
    ASSUME NEW n \in Nat, NEW G, 0 \in G, \A m \in 0..n - 1 : m \in G => m + 1 \in G
    PROVE  0..n \subseteq G
  <1> DEFINE T == {1..m : m \in (0..n) \ G}
             R == StrictSubsetOrdering(1..n)
  <1>1. SUFFICES ASSUME NEW k \in (0..n) \ G PROVE FALSE
    OBVIOUS
  <1>2. IsWellFoundedOn(R, SUBSET (1..n))
    <2>1. IsFiniteSet(1..n)
      BY FS_Interval
    <2>2. FiniteSubsetsOf(1..n) = SUBSET (1..n)
      BY <2>1, FS_FiniteSubsetsOfFinite
    <2>3. QED
      BY <2>2, FS_StrictSubsetOrderingWellFounded
  <1>3. T \subseteq SUBSET (1..n) /\ T # {}
    <2>1. \A m \in 0..n : 1..m \subseteq 1..n
      OBVIOUS
    <2>2. QED
      BY <1>1, <2>1
  <1>4. PICK U \in T : \A V \in T : <<V, U>> \notin R
    <2> HIDE DEF R, T
    <2>1. QED
      BY <1>2, <1>3, WFMin
  <1>5. PICK m \in (0..n) \ G : U = 1..m
    BY <1>4
  <1>6. m # 0 /\ m - 1 \in (0..n) \ G
    BY <1>5
  <1>7. 1..m - 1 \subseteq 1..m /\ m \in 1..m /\ m \notin 1..m - 1
    BY <1>5, <1>6
  <1>8. <<1..m - 1, 1..m>> \in R
    BY <1>3, <1>5, <1>6, <1>7 DEF StrictSubsetOrdering
  <1>9. QED
    BY <1>4, <1>5, <1>6, <1>8

\* FoldLeft, as the library defines it: a function on the sets of positions.
Handling(pg, q) ==
    CHOOSE f : f = [s \in SUBSET DOMAIN q |->
        IF s = {} THEN pg ELSE LET i == Max(s) IN HandleEvent(f[s \ {i}], q[i])]

Batch(pg, q) == FoldLeft(HandleEvent, pg, q)

LEMMA BatchIs == \A pg, q : Batch(pg, q) = Handling(pg, q)[DOMAIN q]
  BY DEF Batch, FoldLeft, MapThenFoldSet, Handling

LEMMA MaxIs ==
    ASSUME NEW s \in SUBSET Int, NEW x \in s, \A y \in s : x >= y
    PROVE  Max(s) = x
  <1>1. \A z \in s : (\A y \in s : z >= y) => z = x
    OBVIOUS
  <1>2. QED
    BY <1>1, Zenon DEF Max

LEMMA HandlingSays ==
    ASSUME NEW pg, NEW n \in Nat, NEW q, DOMAIN q = 1..n
    PROVE  \A s \in SUBSET (1..n) : Handling(pg, q)[s] =
              IF s = {} THEN pg
              ELSE HandleEvent(Handling(pg, q)[s \ {Max(s)}], q[Max(s)])
  <1> DEFINE Solves(f, m) == f = [s \in SUBSET (1..m) |->
                IF s = {} THEN pg ELSE HandleEvent(f[s \ {Max(s)}], q[Max(s)])]
             G == {m \in 0..n : \E f : Solves(f, m)}
  <1>1. 0 \in G
    <2> DEFINE f == [s \in SUBSET (1..0) |-> pg]
    <2>1. \A s \in SUBSET (1..0) : s = {}
      OBVIOUS
    <2>2. Solves(f, 0)
      BY <2>1
    <2>3. QED
      BY <2>2
  <1>2. ASSUME NEW m \in 0..n - 1, m \in G PROVE m + 1 \in G
    <2>1. PICK f : Solves(f, m)
      BY <1>2
    <2> DEFINE g == [s \in SUBSET (1..m + 1) |->
                       IF s \subseteq 1..m THEN f[s] ELSE HandleEvent(f[s \ {m + 1}], q[m + 1])]
    <2>2. ASSUME NEW s \in SUBSET (1..m + 1), ~(s \subseteq 1..m)
          PROVE  Max(s) = m + 1 /\ s \ {m + 1} \in SUBSET (1..m) /\ s # {}
      <3>1. m + 1 \in s /\ \A y \in s : m + 1 >= y
        BY <2>2
      <3>2. Max(s) = m + 1
        BY <3>1, MaxIs
      <3>3. QED
        BY <2>2, <3>1, <3>2
    <2>3. ASSUME NEW s \in SUBSET (1..m), s # {} PROVE Max(s) \in s \/ s \ {Max(s)} = s
      OBVIOUS
    <2>4. ASSUME NEW s \in SUBSET (1..m + 1)
          PROVE  g[s] = IF s = {} THEN pg ELSE HandleEvent(g[s \ {Max(s)}], q[Max(s)])
      <3>1. CASE s \subseteq 1..m
        <4>1. g[s] = f[s]
          BY <3>1
        <4>2. g[s \ {Max(s)}] = f[s \ {Max(s)}]
          BY <3>1
        <4>3. f[s] = IF s = {} THEN pg ELSE HandleEvent(f[s \ {Max(s)}], q[Max(s)])
          BY <2>1, <3>1
        <4>4. QED
          BY <4>1, <4>2, <4>3
      <3>2. CASE ~(s \subseteq 1..m)
        <4>1. g[s] = HandleEvent(f[s \ {m + 1}], q[m + 1])
          BY <3>2
        <4>2. Max(s) = m + 1 /\ s # {} /\ g[s \ {m + 1}] = f[s \ {m + 1}]
          BY <2>2, <3>2
        <4>3. QED
          BY <4>1, <4>2
      <3>3. QED
        BY <3>1, <3>2
    <2>5. g = [s \in SUBSET (1..m + 1) |-> g[s]]
      OBVIOUS
    <2> HIDE DEF g
    <2>6. Solves(g, m + 1)
      BY <2>4, <2>5
    <2>7. m + 1 \in 0..n
      OBVIOUS
    <2> HIDE DEF Solves
    <2>8. QED
      BY <2>6, <2>7
  <1>3. n \in G
    <2> HIDE DEF G
    <2>1. \A m \in 0..n - 1 : m \in G => m + 1 \in G
      BY <1>2
    <2>2. 0..n \subseteq G
      BY <1>1, <2>1, Induction
    <2>3. QED
      BY <2>2
  <1>4. \E f : Solves(f, n)
    BY <1>3
  <1>5. Solves(Handling(pg, q), n)
    BY <1>4 DEF Handling
  <1> DEFINE h == Handling(pg, q)
  <1>6. h = [s \in SUBSET (1..n) |-> IF s = {} THEN pg ELSE HandleEvent(h[s \ {Max(s)}], q[Max(s)])]
    BY <1>5
  <1> HIDE DEF h
  <1>7. \A s \in SUBSET (1..n) :
           h[s] = IF s = {} THEN pg ELSE HandleEvent(h[s \ {Max(s)}], q[Max(s)])
    BY <1>6, Zenon
  <1>8. QED
    BY <1>7 DEF h

\* The page after the first m events of a batch.
LEMMA FoldSays ==
    ASSUME NEW pg, NEW n \in Nat, NEW q, DOMAIN q = 1..n
    PROVE  \E g : /\ g[0] = pg /\ g[n] = Batch(pg, q)
                  /\ \A m \in 0..n - 1 : g[m + 1] = HandleEvent(g[m], q[m + 1])
  <1> DEFINE f == Handling(pg, q)
             g == [m \in 0..n |-> f[1..m]]
  <1>1. \A s \in SUBSET (1..n) :
           f[s] = IF s = {} THEN pg ELSE HandleEvent(f[s \ {Max(s)}], q[Max(s)])
    BY HandlingSays
  <1> HIDE DEF f
  <1>2. g[0] = pg
    <2>1. 1..0 = {}
      OBVIOUS
    <2>2. f[{}] = pg
      BY <1>1
    <2>3. g[0] = f[1..0]
      OBVIOUS
    <2>4. QED
      BY <2>1, <2>2, <2>3
  <1>3. g[n] = Batch(pg, q)
    BY BatchIs DEF f
  <1>4. ASSUME NEW m \in 0..n - 1 PROVE g[m + 1] = HandleEvent(g[m], q[m + 1])
    <2>1. (1..m + 1) \in SUBSET (1..n) /\ 1..m + 1 # {} /\ (1..m + 1) \ {m + 1} = 1..m
      OBVIOUS
    <2>2. Max(1..m + 1) = m + 1
      <3>1. 1..m + 1 \in SUBSET Int /\ m + 1 \in 1..m + 1 /\ \A y \in 1..m + 1 : m + 1 >= y
        OBVIOUS
      <3>2. QED
        BY <3>1, MaxIs
    <2>3. f[1..m + 1] = HandleEvent(f[1..m], q[m + 1])
      BY <1>1, <2>1, <2>2
    <2>4. QED
      BY <2>3
  <1>5. QED
    BY <1>2, <1>3, <1>4

-----------------------------------------------------------------------------
(* The bus and the page. *)

Events == [kind: {"required", "resolved", "finished"}, step: Steps \cup {NoStep},
           decision: {"none", "approve", "request_changes"}, gate: Nat]
PageFields == {"known", "polling", "cursor", "seen", "shown", "last", "intact"}

\* What a batch of events can make of the page: it shows the gate of one of them.
Handled(pg, q, r) ==
    /\ DOMAIN r = PageFields /\ r.known = pg.known /\ r.cursor = pg.cursor /\ r.intact = pg.intact
    /\ r.last = pg.last \/ \E i \in DOMAIN q : r.last = q[i].gate
    /\ r.shown \in BOOLEAN
    /\ r.shown => \/ pg.shown
                  \/ \E i \in DOMAIN q : q[i].kind = "required" /\ r.last = q[i].gate

LEMMA HandleEventSays ==
    ASSUME NEW pg, NEW q, NEW r, Handled(pg, q, r), NEW i \in DOMAIN q, q[i] \in Events
    PROVE  Handled(pg, q, HandleEvent(r, q[i]))
  <1> DEFINE ev == q[i]
             a == ApplyEvent(r, ev)
             b == [a EXCEPT !.seen = @ \cup {Key(ev)}]
  <1>1. ev.kind \in {"required", "resolved", "finished"}
    BY DEF Events
  <1>2. Handled(pg, q, a)
    <2>1. CASE ev.kind = "required"
      <3>1. a = [r EXCEPT !.shown = TRUE, !.last = ev.gate, !.polling = FALSE]
        BY <2>1 DEF ApplyEvent
      <3> HIDE DEF a
      <3>2. QED
        BY <2>1, <3>1 DEF Handled, PageFields
    <2>2. CASE ev.kind = "resolved"
      <3>1. a = [r EXCEPT !.shown = FALSE, !.polling = TRUE]
        BY <2>2 DEF ApplyEvent
      <3> HIDE DEF a
      <3>2. QED
        BY <3>1 DEF Handled, PageFields
    <2>3. CASE ev.kind = "finished"
      <3>1. a = [r EXCEPT !.shown = FALSE, !.polling = FALSE]
        BY <2>3 DEF ApplyEvent
      <3> HIDE DEF a
      <3>2. QED
        BY <3>1 DEF Handled, PageFields
    <2>4. QED
      BY <1>1, <2>1, <2>2, <2>3
  <1> HIDE DEF a
  <1>3. Handled(pg, q, b)
    BY <1>2 DEF Handled, PageFields
  <1>4. HandleEvent(r, ev) = r \/ HandleEvent(r, ev) = b
    BY DEF HandleEvent, a
  <1> HIDE DEF b
  <1>5. QED
    BY <1>3, <1>4

LEMMA BatchSays ==
    ASSUME NEW pg, DOMAIN pg = PageFields, pg.shown \in BOOLEAN,
           NEW n \in Nat, NEW q, DOMAIN q = 1..n, \A i \in 1..n : q[i] \in Events
    PROVE  Handled(pg, q, Batch(pg, q))
  <1>1. PICK g : /\ g[0] = pg /\ g[n] = Batch(pg, q)
                 /\ \A m \in 0..n - 1 : g[m + 1] = HandleEvent(g[m], q[m + 1])
    BY FoldSays
  <1> DEFINE G == {m \in 0..n : Handled(pg, q, g[m])}
  <1>2. 0 \in G
    BY <1>1 DEF Handled
  <1>3. ASSUME NEW m \in 0..n - 1, m \in G PROVE m + 1 \in G
    <2>1. m + 1 \in 0..n /\ m + 1 \in DOMAIN q /\ q[m + 1] \in Events /\ Handled(pg, q, g[m])
      BY <1>3
    <2>2. Handled(pg, q, g[m + 1])
      BY <1>1, <2>1, HandleEventSays
    <2>3. QED
      BY <2>1, <2>2
  <1>4. n \in G
    <2> HIDE DEF G
    <2>1. \A m \in 0..n - 1 : m \in G => m + 1 \in G
      BY <1>3
    <2>2. 0..n \subseteq G
      BY <1>2, <2>1, Induction
    <2>3. QED
      BY <2>2
  <1>5. QED
    BY <1>1, <1>4

\* The backlog, and which of it the page has yet to handle.
BusTypes ==
    /\ DOMAIN bus = {"seq", "history"} /\ bus.seq \in Nat /\ bus.history \in Seq(Events)
    /\ Len(bus.history) <= Replay /\ Len(bus.history) <= bus.seq
Ahead(i) == page.cursor < bus.seq - Len(bus.history) + i

LEMMA SinceSays ==
    ASSUME BusTypes, page.cursor \in 0..bus.seq
    PROVE  LET q == Since(page.cursor)
           IN /\ Len(q) \in Nat /\ DOMAIN q = 1..Len(q)
              /\ \A i \in DOMAIN q : \E j \in DOMAIN bus.history :
                    q[i] = bus.history[j] /\ q[i] \in Events /\ Ahead(j)
  <1> DEFINE h == bus.history
             base == bus.seq - Len(h)
             c == IF page.cursor > base THEN page.cursor - base ELSE 0
             q == SubSeq(h, c + 1, Len(h))
  <1>1. h \in Seq(Events) /\ Len(h) \in Nat /\ base \in Nat /\ DOMAIN h = 1..Len(h)
    BY DEF BusTypes
  <1>2. c \in 0..Len(h) /\ \A j \in c + 1..Len(h) : Ahead(j)
    <2>1. bus.seq \in Nat /\ page.cursor \in Nat /\ page.cursor <= bus.seq /\ Len(h) <= bus.seq
      BY DEF BusTypes
    <2> HIDE DEF h
    <2>2. c \in 0..Len(h) /\ page.cursor <= base + c
      BY <1>1, <2>1
    <2> HIDE DEF c
    <2>3. \A j \in c + 1..Len(h) : page.cursor < bus.seq - Len(h) + j
      BY <1>1, <2>1, <2>2
    <2>4. QED
      BY <2>2, <2>3 DEF Ahead, h
  <1>3. Since(page.cursor) = q
    BY DEF Since
  <1> HIDE DEF h, c, base
  <1>4. Len(q) = Len(h) - c /\ DOMAIN q = 1..Len(q) /\ \A i \in DOMAIN q : q[i] = h[c + i]
    BY <1>1, <1>2
  <1> HIDE DEF q
  <1>5. \A i \in DOMAIN q : c + i \in DOMAIN h /\ c + i \in c + 1..Len(h) /\ h[c + i] \in Events
    BY <1>1, <1>2, <1>4
  <1>6. QED
    BY <1>1, <1>2, <1>3, <1>4, <1>5 DEF h

\* An event in the backlog after a publication is the one published or was there
\* before, and neither its number nor what the page has handled changed.
LEMMA PublishSays ==
    ASSUME BusTypes, NEW ev \in Events, Publish(ev), UNCHANGED page, page.cursor \in Nat
    PROVE  /\ BusTypes' /\ bus'.seq = bus.seq + 1
           /\ \A i \in DOMAIN bus'.history :
                 \/ bus'.history[i] = ev
                 \/ \E j \in DOMAIN bus.history :
                       bus'.history[i] = bus.history[j] /\ (Ahead(i)' => Ahead(j))
  <1> DEFINE h == bus.history
             g == Append(h, ev)
             m == IF Len(g) > Replay THEN Len(g) - Replay + 1 ELSE 1
             t == SubSeq(g, m, Len(g))
  <1>1. bus' = [seq |-> bus.seq + 1, history |-> t]
    BY DEF Publish, LastOf
  <1>2. /\ h \in Seq(Events) /\ Len(h) \in Nat /\ Len(h) <= bus.seq /\ Replay \in Nat /\ bus.seq \in Nat
        /\ DOMAIN h = 1..Len(h)
    BY LegacyAssumption DEF BusTypes
  <1> HIDE DEF h
  <1>3. /\ g \in Seq(Events) /\ Len(g) = Len(h) + 1 /\ g[Len(h) + 1] = ev
        /\ \A j \in 1..Len(h) : g[j] = h[j]
    BY <1>2
  <1> HIDE DEF g
  <1>4. m \in 1..Len(g) + 1 /\ Len(g) - m + 1 <= Replay
    BY <1>2, <1>3
  <1> HIDE DEF m
  <1>5. /\ t \in Seq(Events) /\ Len(t) = Len(g) - m + 1 /\ DOMAIN t = 1..Len(t)
        /\ \A i \in DOMAIN t : t[i] = g[m + i - 1] /\ m + i - 1 \in 1..Len(g)
    BY <1>2, <1>3, <1>4
  <1> HIDE DEF t
  <1>6. bus'.seq = bus.seq + 1 /\ bus'.history = t /\ DOMAIN bus' = {"seq", "history"}
    BY <1>1
  <1>7. BusTypes'
    BY <1>2, <1>3, <1>4, <1>5, <1>6 DEF BusTypes
  <1>8. ASSUME NEW i \in DOMAIN t, m + i - 1 \in 1..Len(h)
        PROVE  t[i] = h[m + i - 1] /\ (Ahead(i)' => Ahead(m + i - 1))
    <2>1. t[i] = h[m + i - 1]
      BY <1>3, <1>5, <1>8
    <2>2. bus'.seq - Len(bus'.history) + i = bus.seq - Len(bus.history) + (m + i - 1)
      <3>1. Len(bus'.history) = Len(h) + 1 - m + 1 /\ i \in Nat /\ m \in Nat
        BY <1>2, <1>3, <1>4, <1>5, <1>6
      <3>2. QED
        BY <1>2, <1>6, <3>1 DEF h
    <2>3. QED
      BY <2>1, <2>2 DEF Ahead
  <1>9. \A i \in DOMAIN t : m + i - 1 \in 1..Len(h) \/ t[i] = ev
    BY <1>2, <1>3, <1>5
  <1>10. QED
    BY <1>2, <1>6, <1>7, <1>8, <1>9 DEF h

-----------------------------------------------------------------------------
(* The rounds of the loop. *)

Some(s) == CHOOSE x \in s : TRUE
Sum(v) ==
    CHOOSE f : f = [s \in SUBSET DOMAIN v |-> IF s = {} THEN 0 ELSE v[Some(s)] + f[s \ {Some(s)}]]

LEMMA RoundsIs == Rounds = Sum(visits)[DOMAIN visits]
  BY DEF Rounds, FoldFunction, FoldFunctionOnSet, MapThenFoldSet, Sum, Some

LEMMA SomeSays ==
    ASSUME NEW S, IsFiniteSet(S), NEW s \in SUBSET S, s # {}
    PROVE  /\ Some(s) \in s /\ s \ {Some(s)} \in SUBSET S
           /\ Cardinality(s) \in Nat \ {0} /\ Cardinality(s \ {Some(s)}) = Cardinality(s) - 1
  <1>1. Some(s) \in s
    BY Zenon DEF Some
  <1>2. IsFiniteSet(s)
    BY FS_Subset
  <1>3. Cardinality(s) \in Nat /\ Cardinality(s) # 0
    BY <1>2, FS_CardinalityType, FS_EmptySet
  <1>4. QED
    BY <1>1, <1>2, <1>3, FS_RemoveElement

\* The recursive function that counts the rounds is there, and computes.
LEMMA SumSays ==
    ASSUME NEW S, IsFiniteSet(S), NEW v, DOMAIN v = S
    PROVE  \A s \in SUBSET S :
              Sum(v)[s] = IF s = {} THEN 0 ELSE v[Some(s)] + Sum(v)[s \ {Some(s)}]
  <1> DEFINE n == Cardinality(S)
             Solved(f, s) == f[s] = IF s = {} THEN 0 ELSE v[Some(s)] + f[s \ {Some(s)}]
             Solves(f, m) == /\ f = [s \in SUBSET S |-> f[s]]
                             /\ \A s \in SUBSET S : Cardinality(s) <= m => Solved(f, s)
             G == {m \in 0..n : \E f : Solves(f, m)}
  <1>0. n \in Nat /\ \A s \in SUBSET S : Cardinality(s) \in Nat /\ Cardinality(s) <= n
    BY FS_CardinalityType, FS_Subset
  <1>a. \A s \in SUBSET S : Cardinality(s) = 0 => s = {}
    BY FS_Subset, FS_EmptySet
  <1> HIDE DEF n
  <1>1. 0 \in G
    <2> DEFINE f == [s \in SUBSET S |-> 0]
    <2>1. Solves(f, 0)
      BY <1>0, <1>a
    <2> HIDE DEF Solves
    <2>2. QED
      BY <1>0, <2>1
  <1>2. ASSUME NEW m \in 0..n - 1, m \in G PROVE m + 1 \in G
    <2>1. PICK f : Solves(f, m)
      BY <1>2
    <2> DEFINE g == [s \in SUBSET S |-> IF Cardinality(s) <= m THEN f[s]
                                        ELSE v[Some(s)] + f[s \ {Some(s)}]]
    <2>2. ASSUME NEW s \in SUBSET S, Cardinality(s) <= m + 1 PROVE Solved(g, s)
      <3>1. CASE s = {}
        <4>1. Cardinality(s) <= m
          BY <1>0, <3>1, FS_EmptySet
        <4>2. g[s] = f[s] /\ Solved(f, s)
          BY <2>1, <4>1
        <4>3. QED
          BY <3>1, <4>2
      <3>2. CASE s # {}
        <4>1. s \ {Some(s)} \in SUBSET S /\ Cardinality(s) \in Nat
              /\ Cardinality(s \ {Some(s)}) = Cardinality(s) - 1
          BY <3>2, SomeSays
        <4>2. Cardinality(s \ {Some(s)}) <= m
          BY <2>2, <4>1
        <4>3. g[s \ {Some(s)}] = f[s \ {Some(s)}]
          BY <4>1, <4>2
        <4>4. g[s] = v[Some(s)] + f[s \ {Some(s)}]
          <5>1. CASE Cardinality(s) <= m
            BY <2>1, <3>2, <5>1
          <5>2. CASE ~(Cardinality(s) <= m)
            BY <5>2
          <5>3. QED
            BY <5>1, <5>2
        <4> HIDE DEF g
        <4>5. QED
          BY <3>2, <4>3, <4>4
      <3>3. QED
        BY <3>1, <3>2
    <2>3. g = [s \in SUBSET S |-> g[s]]
      OBVIOUS
    <2>4. m + 1 \in 0..n
      BY <1>0
    <2> HIDE DEF g
    <2>5. Solves(g, m + 1)
      BY <2>2, <2>3
    <2> HIDE DEF Solves
    <2>6. QED
      BY <2>4, <2>5
  <1>3. n \in G
    <2> HIDE DEF G
    <2>1. \A m \in 0..n - 1 : m \in G => m + 1 \in G
      BY <1>2
    <2>2. 0..n \subseteq G
      BY <1>0, <1>1, <2>1, Induction
    <2>3. QED
      BY <1>0, <2>2
  <1> DEFINE F(f) == [s \in SUBSET S |-> IF s = {} THEN 0 ELSE v[Some(s)] + f[s \ {Some(s)}]]
  <1>4. PICK f : f = F(f)
    <2>1. PICK f : Solves(f, n)
      BY <1>3
    <2>2. \A s \in SUBSET S : Solved(f, s)
      BY <1>0, <2>1
    <2>3. f = F(f)
      BY <2>1, <2>2
    <2>4. QED
      BY <2>3
  <1> DEFINE h == Sum(v)
  <1>5. h = F(h)
    BY <1>4 DEF Sum
  <1> HIDE DEF h
  <1>6. \A s \in SUBSET S : h[s] = IF s = {} THEN 0 ELSE v[Some(s)] + h[s \ {Some(s)}]
    BY <1>5, Zenon
  <1>7. QED
    BY <1>6 DEF h

\* A sum of at most B each.
LEMMA SumBound ==
    ASSUME NEW S, IsFiniteSet(S), NEW B \in Nat, NEW v \in [S -> 0..B]
    PROVE  Sum(v)[S] \in Nat /\ Sum(v)[S] <= Cardinality(S) * B
  <1> DEFINE n == Cardinality(S)
             Bounded(s) == Sum(v)[s] \in Nat /\ Sum(v)[s] <= Cardinality(s) * B
             G == {m \in 0..n : \A s \in SUBSET S : Cardinality(s) = m => Bounded(s)}
  <1>0. n \in Nat /\ \A s \in SUBSET S : Cardinality(s) \in Nat
    BY FS_CardinalityType, FS_Subset
  <1>a. \A s \in SUBSET S : Cardinality(s) = 0 => s = {}
    BY FS_Subset, FS_EmptySet
  <1>b. \A s \in SUBSET S : Sum(v)[s] = IF s = {} THEN 0 ELSE v[Some(s)] + Sum(v)[s \ {Some(s)}]
    BY SumSays
  <1> HIDE DEF n
  <1>1. 0 \in G
    <2>1. Sum(v)[{}] = 0
      BY <1>b
    <2>2. Bounded({})
      BY <2>1, FS_EmptySet
    <2> HIDE DEF Bounded
    <2>3. \A s \in SUBSET S : Cardinality(s) = 0 => Bounded(s)
      BY <1>a, <2>2
    <2>4. QED
      BY <1>0, <2>3
  <1>2. ASSUME NEW m \in 0..n - 1, m \in G PROVE m + 1 \in G
    <2>1. ASSUME NEW s \in SUBSET S, Cardinality(s) = m + 1 PROVE Bounded(s)
      <3>1. s # {}
        <4>1. Cardinality({}) = 0
          BY FS_EmptySet
        <4>2. QED
          BY <2>1, <4>1
      <3> DEFINE t == s \ {Some(s)}
      <3>2. t \in SUBSET S /\ Cardinality(t) = m /\ Some(s) \in S
        BY <2>1, <3>1, SomeSays
      <3>3. Bounded(t)
        BY <1>2, <3>2
      <3>4. Sum(v)[s] = v[Some(s)] + Sum(v)[t] /\ v[Some(s)] \in 0..B
        BY <1>b, <3>1, <3>2
      <3>5. (m + 1) * B = m * B + B /\ m * B \in Nat
        OBVIOUS
      <3> HIDE DEF t
      <3>6. QED
        BY <2>1, <3>2, <3>3, <3>4, <3>5
    <2>2. QED
      BY <1>0, <2>1
  <1>3. n \in G
    <2> HIDE DEF G
    <2>1. \A m \in 0..n - 1 : m \in G => m + 1 \in G
      BY <1>2
    <2>2. 0..n \subseteq G
      BY <1>0, <1>1, <2>1, Induction
    <2>3. QED
      BY <1>0, <2>2
  <1>4. QED
    BY <1>3 DEF n

-----------------------------------------------------------------------------
(* Which gate a decision is for. *)

Answers == {"none", "approve", "request_changes"}

\* The types of what the thread, the page and the request thread share.
Shapes ==
    /\ run.state \in {"queued", "running", "awaiting_approval"} \cup Finished
    /\ gates \in Seq(Steps)
    /\ DOMAIN approval = {"set", "decision", "comment"} /\ approval.set \in BOOLEAN
    /\ approval.decision \in Answers
    /\ BusTypes /\ \A i \in DOMAIN bus.history : bus.history[i].gate <= Len(gates)
    /\ DOMAIN page = PageFields /\ page.cursor \in 0..bus.seq /\ page.last \in 0..Len(gates)
    /\ page.shown \in BOOLEAN /\ page.intact \in BOOLEAN
    /\ DOMAIN post = {"pc", "decision", "gate"} /\ post.decision \in Answers
    /\ post.pc \in {"none", "decision", "comment", "set", "answer"}

\* The thread waits for a decision that nobody took; one is being written into the run.
Asked  == run.pc = "wait" /\ ~approval.set
InHand == post.pc \in {"decision", "comment", "set"}

\* A page that missed nothing shows, or has yet to hear of, the gate the thread waits at;
\* what is being written into the run is for that gate, and so is what it goes on with.
Asking ==
    page.intact =>
    /\ page.shown => Asked /\ ~InHand /\ page.last = Len(gates) /\ page.cursor = bus.seq
    /\ InHand => Asked /\ post.gate = Len(gates)
    /\ post.pc = "set" => approval.comment = Len(gates)
    /\ run.pc = "wait" /\ approval.set => approval.comment = Len(gates)
    /\ run.pc = "announce" => ~approval.set
    /\ \A i \in DOMAIN bus.history : Ahead(i) /\ bus.history[i].kind = "required" =>
          Asked /\ ~InHand /\ bus.history[i].gate = Len(gates)
    /\ run.pc \in {"route", "revise"} /\ Gated(run.step, run.status) => run.comment = Len(gates)

\* Only the end of the loop, or a crash, ends a run; it ends at DONE or has failed.
Over  == {"finish", "end"}
Ended ==
    /\ run.pc \in Over /\ run.state # "failed" => run.step = "DONE"
    /\ run.state = "completed" => run.pc = "end"

\* No step is taken more often than the limit, but for the time that ends the run.
Within ==
    \A s \in Steps : visits[s] <= MaxVisits \/ (visits[s] = MaxVisits + 1 /\ run.pc \in Over)

\* Steps of the thread that ask nothing and tell nothing.
Quiet ==
    /\ UNCHANGED <<wf, approval, gates, bus, post>>
    /\ DOMAIN page' = PageFields /\ page'.cursor = page.cursor /\ page'.shown = page.shown
    /\ page'.last = page.last /\ page'.intact = page.intact
    /\ run.pc \notin {"announce", "wait"} \cup Over /\ run'.pc \notin {"announce", "wait", "end"}
    /\ run'.pc \in {"route", "revise"} => ~Gated(run'.step, run'.status)
    /\ run'.state \in {run.state, "running", "failed"}
    /\ run'.pc = "finish" => run'.state = "failed" \/ run'.step = "DONE"

LEMMA QuietNext ==
    ASSUME Shapes, Asking, Ended, Quiet
    PROVE  Shapes' /\ Asking' /\ Ended'
  <1>1. Shapes'
    BY DEF Quiet, Shapes, BusTypes, Finished
  <1>2. Asking'
    <2>1. SUFFICES ASSUME page'.intact PROVE Asking'
      BY DEF Asking
    <2>2. ~Asked /\ page.intact
      BY <2>1 DEF Quiet, Asked
    <2>3. /\ ~page.shown /\ ~InHand
          /\ \A i \in DOMAIN bus.history : ~(Ahead(i) /\ bus.history[i].kind = "required")
      BY <2>2 DEF Asking
    <2>4. ~page'.shown /\ ~InHand' /\ post'.pc # "set"
      BY <2>3 DEF Quiet, InHand
    <2>5. \A i \in DOMAIN bus'.history : ~(Ahead(i)' /\ bus'.history[i].kind = "required")
      BY <2>3 DEF Quiet, Ahead
    <2>6. ~(run'.pc \in {"route", "revise"} /\ Gated(run.step, run.status)')
      BY DEF Quiet, Gated
    <2>7. run'.pc \notin {"announce", "wait"}
      BY DEF Quiet
    <2>8. QED
      BY <2>4, <2>5, <2>6, <2>7 DEF Asking
  <1>3. Ended'
    BY DEF Quiet, Ended, Over
  <1>4. QED
    BY <1>1, <1>2, <1>3

LEMMA RoundsBound ==
    ASSUME Types, Within, run.pc \notin Over
    PROVE  Rounds \in Nat /\ Rounds < GuardMax
  <1>1. visits \in [Steps -> 0..MaxVisits]
    BY LegacyAssumption DEF Types, Within
  <1>2. DOMAIN visits = Steps /\ IsFiniteSet(Steps) /\ MaxVisits \in Nat
    BY LegacyAssumption DEF Types
  <1>3. Sum(visits)[Steps] \in Nat /\ Sum(visits)[Steps] <= Cardinality(Steps) * MaxVisits
    BY <1>1, <1>2, SumBound
  <1>4. Rounds = Sum(visits)[Steps]
    BY <1>2, RoundsIs
  <1>5. Cardinality(Steps) \in Nat
    BY <1>2, FS_CardinalityType
  <1>6. Cardinality(Steps) * MaxVisits \in Nat
    BY <1>2, <1>5
  <1>7. QED
    BY <1>3, <1>4, <1>6, LegacyAssumption

\* The loop ends as the workflow says, or the run has failed.
LEMMA LeaveSays ==
    ASSUME Types, NEW halt, run' = LeaveLoop(halt)
    PROVE  /\ run'.pc = "finish" /\ run'.step = run.step
           /\ run'.state = IF halt = "none" THEN run.state ELSE "failed"
  BY DEF LeaveLoop, Types, RunFields

LEMMA StartRunQuiet == ASSUME Types, Shapes, StartRun PROVE Quiet /\ UNCHANGED visits
  <1>1. run'.pc = "top" /\ run'.state = "running"
    BY DEF StartRun, Types, RunFields
  <1>2. /\ DOMAIN page' = PageFields /\ page'.cursor = page.cursor /\ page'.shown = page.shown
        /\ page'.last = page.last /\ page'.intact = page.intact
    BY DEF StartRun, Shapes, PageFields
  <1>3. QED
    BY <1>1, <1>2 DEF StartRun, Quiet, Over

LEMMA NextRoundQuiet ==
    ASSUME Types, Shapes, Within, NextRound
    PROVE  Quiet /\ Within'
  <1>1. run.pc = "top" /\ run.pc \notin Over /\ Rounds \in Nat /\ Rounds < GuardMax
    BY RoundsBound DEF NextRound, Over
  <1>2. \/ run' = LeaveLoop("none") /\ run.step = "DONE"
        \/ run' = LeaveLoop("unknown") \/ run' = LeaveLoop("visits")
        \/ run' = [run EXCEPT !.pc = "launch", !.attempt = 1]
    <2>1. ~(Rounds >= GuardMax)
      BY <1>1, LegacyAssumption
    <2>2. QED
      BY <1>1, <2>1 DEF NextRound
  <1>3. \/ run'.pc = "finish" /\ run'.state \in {run.state, "failed"}
           /\ (run'.state = "failed" \/ run'.step = "DONE")
        \/ run'.pc = "launch" /\ run'.state = run.state
    <2>1. CASE run' = [run EXCEPT !.pc = "launch", !.attempt = 1]
      BY <2>1 DEF Types, RunFields
    <2>2. QED
      BY <1>2, <2>1, LeaveSays
  <1>4. Quiet
    BY <1>1, <1>3 DEF NextRound, Quiet, Shapes, Over
  <1>5. Within'
    <2>1. CASE UNCHANGED visits
      BY <1>1, <2>1 DEF Within
    <2>2. CASE /\ run.step \in DOMAIN wf.on /\ visits' = [visits EXCEPT ![run.step] = @ + 1]
               /\ run' = IF visits[run.step] + 1 > MaxVisits THEN LeaveLoop("visits")
                         ELSE [run EXCEPT !.pc = "launch", !.attempt = 1]
      <3>1. visits[run.step] + 1 > MaxVisits => run'.pc = "finish"
        BY <2>2, LeaveSays
      <3>2. run.step \in Steps /\ MaxVisits \in Nat /\ visits \in [Steps -> Nat]
            /\ \A s \in Steps : visits[s] <= MaxVisits
        BY <1>1, <2>2, StepsOf, LegacyAssumption DEF Types, Within
      <3>3. \A s \in Steps : visits'[s] = IF s = run.step THEN visits[s] + 1 ELSE visits[s]
        BY <2>2, <3>2
      <3>4. QED
        BY <3>1, <3>2, <3>3 DEF Within, Over
    <2>3. QED
      BY <2>1, <2>2 DEF NextRound
  <1>6. QED
    BY <1>4, <1>5

LEMMA ReconcileQuiet == ASSUME Types, Shapes, Reconcile PROVE Quiet /\ UNCHANGED visits
  <1>1. \A status, used : run' = Verdict(status, used) =>
            run'.pc = "verdict" /\ run'.state = run.state
    BY DEF Verdict, Types, RunFields
  <1>2. \A pc, saw : run' = [run EXCEPT !.pc = pc, !.saw = saw] =>
            run'.pc = pc /\ run'.state = run.state
    BY DEF Types, RunFields
  <1>3. run.pc \in {"watch", "read"} /\ run'.state = run.state /\ run'.pc \in {"verdict", "read", "watch"}
    BY <1>1, <1>2 DEF Reconcile, PollContainer, Classify, Joined
  <1>4. QED
    BY <1>3 DEF Reconcile, Quiet, Shapes, Over

LEMMA ConcludeAttemptQuiet == ASSUME Types, Shapes, ConcludeAttempt PROVE Quiet /\ UNCHANGED visits
  <1>1. /\ run.pc = "verdict"
        /\ UNCHANGED <<wf, visits, gates, approval, results, bus, page, post, mishaps>>
    BY DEF ConcludeAttempt
  <1>2. \/ run'.pc = "launch" /\ run'.state = run.state
        \/ run'.pc = "finish" /\ run'.state = "failed"
        \/ run'.pc \in {"gate", "route"} /\ run'.state = run.state
           /\ run'.step = run.step /\ run'.status = run.status
           /\ (run'.pc = "route" => ~Gated(run.step, run.status))
    <2>1. run' = [run EXCEPT !.pc = "launch", !.attempt = @ + 1] =>
             run'.pc = "launch" /\ run'.state = run.state
      BY DEF Types, RunFields
    <2>2. \A pc : run' = [run EXCEPT !.pc = pc] =>
             /\ run'.pc = pc /\ run'.state = run.state /\ run'.step = run.step
             /\ run'.status = run.status
      BY DEF Types, RunFields
    <2>3. QED
      BY <2>1, <2>2, LeaveSays DEF ConcludeAttempt
  <1>3. QED
    BY <1>1, <1>2 DEF Quiet, Shapes, Over

LEMMA RoutingQuiet == ASSUME Types, Shapes, Revise \/ Route PROVE Quiet /\ UNCHANGED visits
  <1>1. /\ run.pc \in {"revise", "route"}
        /\ UNCHANGED <<wf, visits, gates, approval, box, results, bus, page, post, mishaps>>
    BY DEF Revise, Route
  <1>2. \A s : run' = GoTo(s) => run'.pc = "top" /\ run'.state = run.state
    BY DEF GoTo, Types, RunFields
  <1>3. \/ run'.pc = "top" /\ run'.state = run.state
        \/ run'.pc = "finish" /\ run'.state = "failed"
    <2>1. CASE Revise
      BY <1>2, <2>1, LeaveSays DEF Revise
    <2>2. CASE Route
      BY <1>2, <2>2, LeaveSays DEF Route
    <2>3. QED
      BY <2>1, <2>2
  <1>4. QED
    BY <1>1, <1>3 DEF Quiet, Shapes, Over

PageInv == Shapes /\ Asking /\ Ended /\ Within

LEMMA EventSays ==
    ASSUME Shapes, NEW kind \in {"required", "resolved", "finished"},
           NEW step \in Steps \cup {NoStep}, NEW decision \in Answers
    PROVE  LET ev == Event(kind, step, decision)
           IN ev \in Events /\ ev.kind = kind /\ ev.gate = Len(gates) /\ Len(gates) \in Nat
  BY DEF Event, Events, Shapes, Answers

\* An event other than a request for a decision, while nothing is asked.
LEMMA TellNext ==
    ASSUME Shapes, Asking, ~Asked, NEW ev \in Events, ev.kind # "required", ev.gate <= Len(gates),
           Publish(ev), UNCHANGED <<gates, approval, post, page>>,
           run'.state \in {"queued", "running", "awaiting_approval"} \cup Finished,
           run'.pc \notin {"announce", "wait"},
           run'.pc \in {"route", "revise"} => (page.intact => run'.comment = Len(gates))
    PROVE  Shapes' /\ Asking'
  <1>0. BusTypes /\ page.cursor \in Nat /\ page.cursor <= bus.seq /\ bus.seq \in Nat
    BY DEF Shapes, BusTypes
  <1>1. /\ BusTypes' /\ bus'.seq = bus.seq + 1
        /\ \A i \in DOMAIN bus'.history :
              \/ bus'.history[i] = ev
              \/ \E j \in DOMAIN bus.history :
                    bus'.history[i] = bus.history[j] /\ (Ahead(i)' => Ahead(j))
    BY <1>0, PublishSays
  <1>2. page'.cursor \in 0..bus'.seq
    BY <1>0, <1>1
  <1>3. \A i \in DOMAIN bus'.history : bus'.history[i].gate <= Len(gates')
    BY <1>1 DEF Shapes
  <1>4. Shapes'
    BY <1>1, <1>2, <1>3 DEF Shapes
  <1>5. Asking'
    <2>1. SUFFICES ASSUME page'.intact PROVE Asking'
      BY DEF Asking
    <2>2. /\ page.intact /\ ~page.shown /\ ~InHand
          /\ \A i \in DOMAIN bus.history : ~(Ahead(i) /\ bus.history[i].kind = "required")
      BY <2>1 DEF Asking
    <2>3. \A i \in DOMAIN bus'.history : ~(Ahead(i)' /\ bus'.history[i].kind = "required")
      BY <1>1, <2>2
    <2>4. ~page'.shown /\ ~InHand' /\ post'.pc # "set"
      BY <2>2 DEF InHand
    <2>5. run'.pc \in {"route", "revise"} => run'.comment = Len(gates')
      BY <2>2
    <2>6. QED
      BY <2>3, <2>4, <2>5 DEF Asking
  <1>6. QED
    BY <1>4, <1>5

LEMMA LaunchNext == ASSUME Types, PageInv, Launch PROVE PageInv'
  <1>0. Shapes /\ Asking /\ Ended /\ Within /\ run.pc = "launch"
        /\ UNCHANGED <<wf, visits, gates, approval, results, page, post>>
    BY DEF PageInv, Launch
  <1>1. CASE run' = [run EXCEPT !.pc = "watch"] /\ UNCHANGED bus
    <2>1. run'.pc = "watch" /\ run'.state = run.state
      BY <1>1 DEF Types, RunFields
    <2>2. Quiet
      BY <1>0, <1>1, <2>1 DEF Quiet, Shapes, Over
    <2>3. Within'
      BY <1>0 DEF Within, Over
    <2>4. QED
      BY <1>0, <2>2, <2>3, QuietNext DEF PageInv
  <1>2. CASE /\ run' = [run EXCEPT !.pc = "end", !.state = "failed", !.halt = "crash"]
             /\ Publish(Event("finished", NoStep, "none"))
    <2>1. run'.pc = "end" /\ run'.state = "failed"
      BY <1>2 DEF Types, RunFields
    <2> DEFINE ev == Event("finished", NoStep, "none")
    <2>2. ev \in Events /\ ev.kind = "finished" /\ ev.gate = Len(gates) /\ Len(gates) \in Nat
      BY <1>0, EventSays DEF Answers
    <2>3. Publish(ev)
      BY <1>2
    <2> HIDE DEF ev
    <2>4. ev.kind # "required" /\ ev.gate <= Len(gates) /\ ~Asked
      BY <1>0, <2>2 DEF Asked
    <2>5. Shapes' /\ Asking'
      BY <1>0, <2>1, <2>2, <2>3, <2>4, TellNext DEF Finished
    <2>6. Ended' /\ Within'
      BY <1>0, <2>1 DEF Ended, Within, Over
    <2>7. QED
      BY <2>5, <2>6 DEF PageInv
  <1>3. QED
    BY <1>1, <1>2 DEF Launch

LEMMA FinishRunNext == ASSUME Types, PageInv, FinishRun PROVE PageInv'
  <1>0. Shapes /\ Asking /\ Ended /\ Within /\ run.pc = "finish"
        /\ UNCHANGED <<wf, visits, gates, approval, box, results, page, post, mishaps>>
    BY DEF PageInv, FinishRun
  <1>1. /\ run'.pc = "end" /\ run'.step = run.step
        /\ run'.state = IF run.state = "failed" THEN run.state ELSE "completed"
    BY DEF FinishRun, Types, RunFields
  <1> DEFINE ev == Event("finished", NoStep, "none")
  <1>2. ev \in Events /\ ev.kind = "finished" /\ ev.gate = Len(gates) /\ Len(gates) \in Nat
    BY <1>0, EventSays DEF Answers
  <1>3. Publish(ev)
    BY DEF FinishRun
  <1> HIDE DEF ev
  <1>4. ev.kind # "required" /\ ev.gate <= Len(gates) /\ ~Asked
    BY <1>0, <1>2 DEF Asked
  <1>5. Shapes' /\ Asking'
    BY <1>0, <1>1, <1>2, <1>3, <1>4, TellNext DEF Finished
  <1>6. Ended' /\ Within'
    BY <1>0, <1>1 DEF Ended, Within, Over
  <1>7. QED
    BY <1>5, <1>6 DEF PageInv

LEMMA ResolveNext == ASSUME Types, PageInv, Resolve PROVE PageInv'
  <1>0. Shapes /\ Asking /\ Ended /\ Within /\ run.pc = "wait" /\ approval.set
        /\ UNCHANGED <<wf, visits, gates, approval, box, results, page, post, mishaps>>
    BY DEF PageInv, Resolve
  <1> DEFINE d == IF approval.decision = "none" THEN "approve" ELSE approval.decision
             ev == Event("resolved", run.step, d)
  <1>1. /\ run'.pc \in {"route", "revise"} /\ run'.state = "running"
        /\ run'.comment = approval.comment
    BY DEF Resolve, Types, RunFields
  <1>2. ev \in Events /\ ev.kind = "resolved" /\ ev.gate = Len(gates) /\ Len(gates) \in Nat
    <2>1. run.step \in Steps \cup {NoStep}
      BY <1>0, StepsOf DEF Types
    <2>2. d \in Answers
      BY <1>0 DEF Shapes, Answers
    <2> HIDE DEF d
    <2>3. QED
      BY <1>0, <2>1, <2>2, EventSays
  <1>3. Publish(ev)
    BY DEF Resolve
  <1> HIDE DEF ev
  <1>4. ev.kind # "required" /\ ev.gate <= Len(gates) /\ ~Asked
    BY <1>0, <1>2 DEF Asked
  <1>5. page.intact => run'.comment = Len(gates)
    BY <1>0, <1>1 DEF Asking
  <1>6. run'.pc \notin {"announce", "wait"}
    BY <1>1
  <1>7. Shapes' /\ Asking'
    BY <1>0, <1>1, <1>2, <1>3, <1>4, <1>5, <1>6, TellNext
  <1>8. Ended' /\ Within'
    BY <1>0, <1>1 DEF Ended, Within, Over
  <1>9. QED
    BY <1>7, <1>8 DEF PageInv

LEMMA AwaitApprovalNext == ASSUME Types, PageInv, AwaitApproval PROVE PageInv'
  <1>0. Shapes /\ Asking /\ Ended /\ Within /\ run.pc \in {"gate", "announce"}
        /\ UNCHANGED <<wf, visits, box, results, page, post, mishaps>>
    BY DEF PageInv, AwaitApproval, OpenGate
  <1>0a. /\ page.intact => ~page.shown /\ ~InHand
         /\ page.intact => \A i \in DOMAIN bus.history : ~(Ahead(i) /\ bus.history[i].kind = "required")
    BY <1>0 DEF Asking, Asked
  <1>1. CASE run.pc = "gate"
    <2>1. /\ approval' = [approval EXCEPT !.set = FALSE, !.decision = "none"]
          /\ run' = [run EXCEPT !.pc = "announce"] /\ UNCHANGED <<gates, bus>>
      BY <1>1 DEF AwaitApproval, OpenGate
    <2>2. run'.pc = "announce" /\ run'.state = run.state
      BY <2>1 DEF Types, RunFields
    <2>3. /\ DOMAIN approval' = {"set", "decision", "comment"} /\ approval'.set = FALSE
          /\ approval'.decision = "none"
      BY <1>0, <2>1 DEF Shapes
    <2>4. Shapes'
      BY <1>0, <2>1, <2>2, <2>3 DEF Shapes, BusTypes, Answers
    <2>5. Asking'
      BY <1>0, <1>0a, <2>1, <2>2, <2>3 DEF Asking, InHand, Ahead
    <2>6. Ended' /\ Within'
      BY <1>0, <1>1, <2>2 DEF Ended, Within, Over
    <2>7. QED
      BY <2>4, <2>5, <2>6 DEF PageInv
  <1>2. CASE run.pc = "announce"
    <2> DEFINE e == Event("required", run.step, "none")
               ev == [e EXCEPT !.gate = @ + 1]
    <2>1. /\ gates' = Append(gates, run.step) /\ UNCHANGED approval /\ Publish(ev)
          /\ run' = [run EXCEPT !.pc = "wait", !.state = "awaiting_approval"]
      BY <1>2 DEF AwaitApproval, OpenGate
    <2>2. run'.pc = "wait" /\ run'.state = "awaiting_approval"
      BY <2>1 DEF Types, RunFields
    <2>3. run.step \in Steps
      BY <1>2, StepsOf DEF Types
    <2>4. gates' \in Seq(Steps) /\ Len(gates') = Len(gates) + 1 /\ Len(gates) \in Nat
      BY <1>0, <2>1, <2>3 DEF Shapes
    <2>5. ev \in Events /\ ev.kind = "required" /\ ev.gate = Len(gates')
      <3>1. e \in Events /\ e.kind = "required" /\ e.gate = Len(gates)
        BY <1>0, <2>3, EventSays DEF Answers
      <3> HIDE DEF e
      <3>2. QED
        BY <2>4, <3>1 DEF Events
    <2> HIDE DEF ev
    <2>6. BusTypes /\ page.cursor \in Nat /\ page.cursor <= bus.seq /\ bus.seq \in Nat
      BY <1>0 DEF Shapes, BusTypes
    <2>7. /\ BusTypes' /\ bus'.seq = bus.seq + 1
          /\ \A i \in DOMAIN bus'.history :
                \/ bus'.history[i] = ev
                \/ \E j \in DOMAIN bus.history :
                      bus'.history[i] = bus.history[j] /\ (Ahead(i)' => Ahead(j))
      BY <1>0, <2>1, <2>5, <2>6, PublishSays
    <2>8. \A i \in DOMAIN bus'.history : bus'.history[i].gate <= Len(gates')
      <3>1. \A i \in DOMAIN bus.history : bus.history[i].gate \in Nat /\ bus.history[i].gate <= Len(gates)
        <4>1. \A i \in DOMAIN bus.history : bus.history[i] \in Events
          BY <1>0 DEF Shapes, BusTypes
        <4>2. \A e1 \in Events : e1.gate \in Nat
          BY DEF Events
        <4>3. QED
          BY <1>0, <4>1, <4>2 DEF Shapes
      <3>2. QED
        BY <2>4, <2>5, <2>7, <3>1
    <2>9. Shapes'
      <3>1. page'.cursor \in 0..bus'.seq /\ page'.last \in 0..Len(gates')
        BY <1>0, <2>4, <2>6, <2>7 DEF Shapes
      <3>2. QED
        BY <1>0, <2>1, <2>2, <2>4, <2>7, <2>8, <3>1 DEF Shapes
    <2>10. Asking'
      <3>1. SUFFICES ASSUME page'.intact PROVE Asking'
        BY DEF Asking
      <3>2. ~approval.set /\ ~page.shown /\ ~InHand
            /\ \A i \in DOMAIN bus.history : ~(Ahead(i) /\ bus.history[i].kind = "required")
        BY <1>0, <1>0a, <1>2, <3>1 DEF Asking
      <3>3. Asked' /\ ~InHand' /\ ~page'.shown /\ post'.pc # "set"
        BY <1>0, <2>1, <2>2, <3>2 DEF Asked, InHand
      <3>4. \A i \in DOMAIN bus'.history : Ahead(i)' /\ bus'.history[i].kind = "required" =>
               bus'.history[i].gate = Len(gates')
        BY <2>5, <2>7, <3>2
      <3>5. QED
        BY <2>2, <3>3, <3>4 DEF Asking, Asked
    <2>11. Ended' /\ Within'
      BY <1>0, <1>2, <2>2 DEF Ended, Within, Over
    <2>12. QED
      BY <2>9, <2>10, <2>11 DEF PageInv
  <1>3. QED
    BY <1>0, <1>1, <1>2

LEMMA RequestThreadNext == ASSUME Types, PageInv, RequestThread PROVE PageInv'
  <1>0. Shapes /\ Asking /\ Ended /\ Within
        /\ UNCHANGED <<wf, run, visits, gates, box, results, bus, page, mishaps>>
    BY DEF PageInv, RequestThread
  <1>1. Ended' /\ Within'
    BY <1>0 DEF Ended, Within, Over
  <1>2. InHand
    BY DEF RequestThread, Approve, InHand
  <1>3. page.intact => /\ Asked /\ post.gate = Len(gates) /\ ~page.shown
                       /\ \A i \in DOMAIN bus.history : ~(Ahead(i) /\ bus.history[i].kind = "required")
    BY <1>0, <1>2 DEF Asking
  <1>4. CASE post.pc = "decision"
    <2>1. approval' = [approval EXCEPT !.decision = post.decision] /\ post' = [post EXCEPT !.pc = "comment"]
      BY <1>4 DEF RequestThread, Approve
    <2>2. Shapes'
      BY <1>0, <2>1 DEF Shapes, BusTypes
    <2>3. approval'.set = approval.set /\ post'.pc = "comment" /\ post'.gate = post.gate
      BY <1>0, <2>1 DEF Shapes
    <2>4. Asking'
      <3>1. SUFFICES ASSUME page'.intact PROVE Asking'
        BY DEF Asking
      <3>2. Asked' /\ ~page'.shown /\ run'.pc = "wait" /\ ~approval'.set
        BY <1>0, <1>3, <2>3, <3>1 DEF Asked
      <3>3. \A i \in DOMAIN bus'.history : ~(Ahead(i)' /\ bus'.history[i].kind = "required")
        BY <1>0, <1>3, <3>1 DEF Ahead
      <3>4. post'.gate = Len(gates')
        BY <1>0, <1>3, <2>3, <3>1
      <3>5. QED
        BY <2>3, <3>2, <3>3, <3>4 DEF Asking
    <2>5. QED
      BY <1>1, <2>2, <2>4 DEF PageInv
  <1>5. CASE post.pc = "comment"
    <2>1. approval' = [approval EXCEPT !.comment = post.gate] /\ post' = [post EXCEPT !.pc = "set"]
      BY <1>5 DEF RequestThread, Approve
    <2>2. Shapes'
      BY <1>0, <2>1 DEF Shapes, BusTypes
    <2>3. /\ approval'.set = approval.set /\ approval'.comment = post.gate
          /\ post'.pc = "set" /\ post'.gate = post.gate
      BY <1>0, <2>1 DEF Shapes
    <2>4. Asking'
      <3>1. SUFFICES ASSUME page'.intact PROVE Asking'
        BY DEF Asking
      <3>2. Asked' /\ ~page'.shown /\ run'.pc = "wait" /\ ~approval'.set
        BY <1>0, <1>3, <2>3, <3>1 DEF Asked
      <3>3. \A i \in DOMAIN bus'.history : ~(Ahead(i)' /\ bus'.history[i].kind = "required")
        BY <1>0, <1>3, <3>1 DEF Ahead
      <3>4. post'.gate = Len(gates') /\ approval'.comment = Len(gates')
        BY <1>0, <1>3, <2>3, <3>1
      <3>5. QED
        BY <2>3, <3>2, <3>3, <3>4 DEF Asking
    <2>5. QED
      BY <1>1, <2>2, <2>4 DEF PageInv
  <1>6. CASE post.pc = "set"
    <2>1. approval' = [approval EXCEPT !.set = TRUE] /\ post' = [post EXCEPT !.pc = "answer"]
      BY <1>6 DEF RequestThread, Approve
    <2>2. Shapes'
      BY <1>0, <2>1 DEF Shapes, BusTypes
    <2>3. approval'.set = TRUE /\ approval'.comment = approval.comment /\ post'.pc = "answer"
      BY <1>0, <2>1 DEF Shapes
    <2>4. Asking'
      <3>1. SUFFICES ASSUME page'.intact PROVE Asking'
        BY DEF Asking
      <3>2. ~page'.shown /\ run'.pc = "wait" /\ ~InHand'
        BY <1>0, <1>3, <2>3, <3>1 DEF Asked, InHand
      <3>3. \A i \in DOMAIN bus'.history : ~(Ahead(i)' /\ bus'.history[i].kind = "required")
        BY <1>0, <1>3, <3>1 DEF Ahead
      <3>4. approval'.comment = Len(gates')
        BY <1>0, <1>6, <2>3, <3>1 DEF Asking
      <3>5. QED
        BY <2>3, <3>2, <3>3, <3>4 DEF Asking
    <2>5. QED
      BY <1>1, <2>2, <2>4 DEF PageInv
  <1>7. QED
    BY <1>4, <1>5, <1>6 DEF RequestThread, Approve

LEMMA DecideNext == ASSUME Types, PageInv, Decide PROVE PageInv'
  <1>0. Shapes /\ Asking /\ Ended /\ Within /\ page.shown
        /\ UNCHANGED <<wf, run, visits, gates, approval, box, results, bus, mishaps>>
    BY DEF PageInv, Decide
  <1>1. Ended' /\ Within'
    BY <1>0 DEF Ended, Within, Over
  <1>2. PICK d \in {"approve", "request_changes"} :
           post' = [pc |-> "decision", decision |-> d, gate |-> page.last]
    BY DEF Decide
  <1>3. /\ post'.pc = "decision" /\ post'.decision = d /\ post'.gate = page.last
        /\ DOMAIN post' = {"pc", "decision", "gate"}
    BY <1>2
  <1>4. /\ DOMAIN page' = PageFields /\ page'.cursor = page.cursor /\ page'.shown = FALSE
        /\ page'.last = page.last /\ page'.intact = page.intact
    BY <1>0 DEF Decide, Shapes, PageFields
  <1>5. Shapes'
    BY <1>0, <1>3, <1>4 DEF Shapes, BusTypes, Answers
  <1>6. Asking'
    <2>1. SUFFICES ASSUME page'.intact PROVE Asking'
      BY DEF Asking
    <2>2. Asked /\ page.last = Len(gates) /\ page.cursor = bus.seq
      BY <1>0, <1>4, <2>1 DEF Asking
    <2>3. Asked' /\ run'.pc = "wait" /\ ~approval'.set /\ post'.gate = Len(gates')
      BY <1>0, <1>3, <2>2 DEF Asked
    <2>4. \A i \in DOMAIN bus'.history : ~Ahead(i)'
      <3>1. /\ bus.seq \in Nat /\ Len(bus.history) \in Nat /\ Len(bus.history) <= bus.seq
            /\ \A i \in DOMAIN bus.history : i \in Nat /\ i <= Len(bus.history)
        BY <1>0 DEF Shapes, BusTypes
      <3>2. \A i \in DOMAIN bus.history : ~(bus.seq < bus.seq - Len(bus.history) + i)
        BY <3>1
      <3>3. QED
        BY <1>0, <1>4, <2>2, <3>2 DEF Ahead
    <2>5. QED
      BY <1>3, <1>4, <2>3, <2>4 DEF Asking
  <1>7. QED
    BY <1>1, <1>5, <1>6 DEF PageInv

LEMMA PostAnsweredNext == ASSUME Types, PageInv, PostAnswered PROVE PageInv'
  <1>0. Shapes /\ Asking /\ Ended /\ Within /\ post.pc = "answer"
        /\ UNCHANGED <<wf, run, visits, gates, approval, box, results, bus>>
    BY DEF PageInv, PostAnswered
  <1>1. Ended' /\ Within'
    BY <1>0 DEF Ended, Within, Over
  <1>2. /\ post'.pc = "none" /\ post'.decision = "none" /\ DOMAIN post' = {"pc", "decision", "gate"}
    BY DEF PostAnswered
  <1>3. CASE UNCHANGED page
    <2>1. Shapes'
      BY <1>0, <1>2, <1>3 DEF Shapes, BusTypes, Answers
    <2>2. ~InHand /\ ~InHand' /\ post'.pc # "set"
      BY <1>0, <1>2 DEF InHand
    <2>3. Asking'
      BY <1>0, <1>3, <2>2 DEF Asking, Asked, Ahead, Gated
    <2>4. QED
      BY <1>1, <2>1, <2>3 DEF PageInv
  <1>4. CASE page' = [page EXCEPT !.shown = page.last # 0, !.intact = FALSE]
    <2>1. /\ DOMAIN page' = PageFields /\ page'.cursor = page.cursor /\ page'.shown \in BOOLEAN
          /\ page'.last = page.last /\ page'.intact = FALSE
      BY <1>0, <1>4 DEF Shapes, PageFields
    <2>2. Shapes'
      BY <1>0, <1>2, <2>1 DEF Shapes, BusTypes, Answers
    <2>3. Asking'
      BY <2>1 DEF Asking
    <2>4. QED
      BY <1>1, <2>2, <2>3 DEF PageInv
  <1>5. QED
    BY <1>3, <1>4 DEF PostAnswered

LEMMA ReloadNext == ASSUME Types, PageInv, Reload PROVE PageInv'
  <1>0. Shapes /\ Asking /\ Ended /\ Within
        /\ UNCHANGED <<wf, run, visits, gates, approval, box, results, bus, post>>
    BY DEF PageInv, Reload
  <1>1. Ended' /\ Within'
    BY <1>0 DEF Ended, Within, Over
  <1>2. /\ DOMAIN page' = PageFields /\ page'.cursor = 0 /\ page'.shown = FALSE
        /\ page'.last = 0 /\ page'.intact = FALSE
    BY DEF Reload, PageFields
  <1>3. 0 \in 0..bus.seq /\ 0 \in 0..Len(gates)
    BY <1>0 DEF Shapes, BusTypes
  <1>4. Shapes'
    BY <1>0, <1>2, <1>3 DEF Shapes, BusTypes
  <1>5. Asking'
    BY <1>2 DEF Asking
  <1>6. QED
    BY <1>1, <1>4, <1>5 DEF PageInv

\* The page handles what it has not handled: it shows the gate the thread waits at, or none.
LEMMA PollNext == ASSUME Types, PageInv, Poll PROVE PageInv'
  <1>0. Shapes /\ Asking /\ Ended /\ Within /\ page.cursor < bus.seq
        /\ UNCHANGED <<wf, run, visits, gates, approval, box, results, bus, post, mishaps>>
    BY DEF PageInv, Poll
  <1>1. Ended' /\ Within'
    BY <1>0 DEF Ended, Within, Over
  <1> DEFINE pg == [page EXCEPT !.cursor = bus.seq,
                                !.intact = @ /\ page.cursor >= bus.seq - Len(bus.history)]
             q == Since(page.cursor)
  <1>2. /\ DOMAIN pg = PageFields /\ pg.cursor = bus.seq /\ pg.shown = page.shown
        /\ pg.last = page.last /\ pg.intact \in BOOLEAN /\ (pg.intact => page.intact)
    BY <1>0 DEF Shapes, PageFields
  <1>3. page' = Batch(pg, q)
    BY DEF Poll, Batch
  <1>4. BusTypes /\ page.cursor \in 0..bus.seq /\ page.shown \in BOOLEAN
    BY <1>0 DEF Shapes
  <1>5. /\ Len(q) \in Nat /\ DOMAIN q = 1..Len(q)
        /\ \A i \in DOMAIN q : \E j \in DOMAIN bus.history :
              q[i] = bus.history[j] /\ q[i] \in Events /\ Ahead(j)
    BY <1>4, SinceSays
  <1> HIDE DEF pg, q
  <1>6. Handled(pg, q, page')
    <2>1. \A i \in 1..Len(q) : q[i] \in Events
      BY <1>5
    <2>2. QED
      BY <1>2, <1>3, <1>4, <1>5, <2>1, BatchSays
  <1>7. /\ DOMAIN page' = PageFields /\ page'.cursor = bus.seq /\ page'.shown \in BOOLEAN
        /\ page'.intact \in BOOLEAN /\ (page'.intact => page.intact)
    BY <1>2, <1>6 DEF Handled
  <1>8. page'.last \in 0..Len(gates)
    <2>1. \A e \in Events : e.gate \in Nat
      BY DEF Events
    <2>2. \A i \in DOMAIN q : q[i].gate \in Nat /\ q[i].gate <= Len(gates)
      BY <1>0, <1>5, <2>1 DEF Shapes
    <2>3. Len(gates) \in Nat /\ page.last \in 0..Len(gates)
      BY <1>0 DEF Shapes
    <2>4. QED
      BY <1>2, <1>6, <2>2, <2>3 DEF Handled
  <1>9. Shapes'
    <2>1. bus.seq \in 0..bus.seq
      BY <1>4 DEF BusTypes
    <2>2. QED
      BY <1>0, <1>7, <1>8, <2>1 DEF Shapes, BusTypes
  <1>10. Asking'
    <2>1. SUFFICES ASSUME page'.intact PROVE Asking'
      BY DEF Asking
    <2>2. page.intact
      BY <1>7, <2>1
    <2>3. ~page.shown
      <3>1. page.cursor # bus.seq
        BY <1>0, <1>4 DEF BusTypes
      <3>2. QED
        BY <1>0, <2>2, <3>1 DEF Asking
    <2>4. \A i \in DOMAIN q : q[i].kind = "required" => Asked /\ ~InHand /\ q[i].gate = Len(gates)
      BY <1>0, <1>5, <2>2 DEF Asking
    <2>5. page'.shown => Asked /\ ~InHand /\ page'.last = Len(gates)
      BY <1>2, <1>6, <2>3, <2>4 DEF Handled
    <2>6. \A i \in DOMAIN bus'.history : ~Ahead(i)'
      <3>1. /\ bus.seq \in Nat /\ Len(bus.history) \in Nat /\ Len(bus.history) <= bus.seq
            /\ \A i \in DOMAIN bus.history : i \in Nat /\ i <= Len(bus.history)
        BY <1>4 DEF BusTypes
      <3>2. \A i \in DOMAIN bus.history : ~(bus.seq < bus.seq - Len(bus.history) + i)
        BY <3>1
      <3>3. QED
        BY <1>0, <1>7, <3>2 DEF Ahead
    <2>7. (Asked' <=> Asked) /\ (InHand' <=> InHand)
      BY <1>0 DEF Asked, InHand
    <2>8. page'.shown => Asked' /\ ~InHand' /\ page'.last = Len(gates') /\ page'.cursor = bus'.seq
      BY <1>0, <1>7, <2>5, <2>7
    <2>9. Gated(run.step, run.status)' <=> Gated(run.step, run.status)
      BY <1>0 DEF Gated
    <2>10. QED
      BY <1>0, <2>2, <2>6, <2>7, <2>8, <2>9 DEF Asking
  <1>11. QED
    BY <1>1, <1>9, <1>10 DEF PageInv

LEMMA PageNext == ASSUME Types, PageInv, Next PROVE PageInv'
  <1>0. Shapes /\ Asking /\ Ended /\ Within
    BY DEF PageInv
  <1>1. Quiet /\ UNCHANGED visits => PageInv'
    <2>1. SUFFICES ASSUME Quiet, UNCHANGED visits PROVE PageInv'
      OBVIOUS
    <2>2. Within'
      BY <1>0, <2>1 DEF Within, Quiet
    <2>3. QED
      BY <1>0, <2>1, <2>2, QuietNext DEF PageInv
  <1>2. CASE StartRun \/ Reconcile \/ ConcludeAttempt \/ Revise \/ Route
    BY <1>0, <1>1, <1>2, StartRunQuiet, ReconcileQuiet, ConcludeAttemptQuiet, RoutingQuiet
  <1>3. CASE NextRound
    BY <1>0, <1>3, NextRoundQuiet, QuietNext DEF PageInv
  <1>4. CASE UNCHANGED <<wf, run, visits, gates, approval, bus, page, post>>
    <2>1. Shapes' /\ Ended' /\ Within'
      BY <1>0, <1>4 DEF Shapes, BusTypes, Ended, Within
    <2>2. Asking'
      BY <1>0, <1>4 DEF Asking, Asked, InHand, Ahead, Gated
    <2>3. QED
      BY <2>1, <2>2 DEF PageInv
  <1>5. CASE WriteResult \/ ContainerEnds
    BY <1>4, <1>5 DEF WriteResult, ContainerEnds
  <1>6. CASE Launch \/ AwaitApproval \/ Resolve \/ FinishRun
    BY <1>6, LaunchNext, AwaitApprovalNext, ResolveNext, FinishRunNext
  <1>7. CASE RequestThread \/ Poll \/ Decide \/ PostAnswered \/ Reload
    BY <1>7, RequestThreadNext, PollNext, DecideNext, PostAnsweredNext, ReloadNext
  <1>8. QED
    BY <1>2, <1>3, <1>5, <1>6, <1>7 DEF Next, Thread, Browser

LEMMA PageStep == OwnInv /\ PageInv /\ [Next]_vars => PageInv'
  <1> SUFFICES ASSUME OwnInv, PageInv, [Next]_vars PROVE PageInv'
    OBVIOUS
  <1>1. CASE UNCHANGED vars
    BY <1>1 DEF vars, PageInv, Shapes, BusTypes, Ended, Within, Asking, Asked, InHand, Ahead, Gated
  <1>2. QED
    BY <1>1, PageNext DEF OwnInv

LEMMA PageInit == Init => PageInv
  <1> SUFFICES ASSUME Init PROVE PageInv
    OBVIOUS
  <1>1. Shapes
    <2>1. bus = [seq |-> 0, history |-> <<>>] /\ gates = <<>> /\ Replay \in Nat
      BY LegacyAssumption DEF Init
    <2>2. BusTypes /\ DOMAIN bus.history = {} /\ bus.seq = 0 /\ Len(gates) = 0 /\ gates \in Seq(Steps)
      BY <2>1 DEF BusTypes
    <2>3. QED
      BY <2>2 DEF Init, Shapes, PageFields, Answers
  <1>2. Asking
    BY DEF Init, Asking, Asked, InHand
  <1>3. Ended /\ Within
    BY LegacyAssumption DEF Init, Ended, Within, Over
  <1>4. QED
    BY <1>1, <1>2, <1>3 DEF PageInv

LEMMA Always == Spec => []OwnInv /\ []PageInv
  BY OwnInit, OwnStep, PageInit, PageStep, PTL DEF Spec

\* The decision a gate passes on and the notes the next attempt gets are those given for
\* this gate, as long as the page was not reloaded, missed no event and lost no answer.
THEOREM DecisionsForTheirGate == Spec => []DecisionForGate
  <1>1. PageInv => DecisionForGate
    BY DEF PageInv, Asking, DecisionForGate
  <1>2. QED
    BY Always, <1>1, PTL

\* The types of all that the engine, its containers and the page share, the bound on the
\* visits of a step and that of the backlog among them.
THEOREM TypeCorrect == Spec => []TypeOK
  <1>1. OwnInv /\ PageInv => TypeOK
    <2> SUFFICES ASSUME OwnInv, PageInv PROVE TypeOK
      OBVIOUS
    <2>1. Types /\ Shapes /\ Within
      BY DEF OwnInv, PageInv
    <2>2. \A s \in Steps : visits[s] \in 0..MaxVisits + 1
      BY <2>1, LegacyAssumption DEF Types, Within
    <2>3. box.state \in {"running", "exited", "gone"}
      BY <2>1 DEF Types, BoxTypes
    <2>4. QED
      BY <2>1, <2>2, <2>3 DEF Types, Shapes, BusTypes, Started, TypeOK
  <1>2. QED
    BY Always, <1>1, PTL

\* A run ends where its workflow says or says that it did not: none halts after an approval
\* for want of a route, and only one that came to DONE is called completed, for the rounds
\* of the loop never run out before a step reaches its limit.
THEOREM RunsEndAsRouted == Spec => []EndsAsRouted
  <1>1. PageInv => CompletedReachedEnd
    BY DEF PageInv, Ended, Over, CompletedReachedEnd
  <1>2. QED
    BY Always, NoApprovalIntoDeadEnd, <1>1, PTL DEF EndsAsRouted
=============================================================================
