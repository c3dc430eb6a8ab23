--------------------------- MODULE StepLoop_proofs ---------------------------
(***************************************************************************)
(* What holds of StepLoop for every workflow, attempt budget, visit cap    *)
(* and number of crashes.                                                  *)
(*                                                                         *)
(* The lemmas named ...Says tell what an action does to each variable;     *)
(* every invariant is then preserved by what they say, without unfolding   *)
(* the records again.                                                      *)
(***************************************************************************)
EXTENDS StepLoop, FiniteSetTheorems, TLAPS

-----------------------------------------------------------------------------
\* The program counters of _run_step: before a container of the attempt is
\* known, and after.
Seeking == {"attempt", "attach", "prepare", "launch"}
Judged  == {"judge", "stopped", "cleanup", "settle"}
WithBox == {"commit", "watch"} \cup Judged
InStep  == Seeking \cup WithBox

\* What the types rest on: inside a step the engine's locals are set and the runs
\* row points at the step; a run waits only at a gate some verdict opened.
Flow ==
    /\ eng.pc \in InStep => eng.step \in Steps /\ eng.attempt \in Attempts
    /\ eng.pc \in InStep \cup {"loop"} =>
         run.step = eng.step /\ run.state \in {"running", "cancelled"}
    /\ Driving => token.state = "claimed"
    /\ eng.pc = "attach" => row[eng.step].arn \in Boxes
    /\ eng.pc \in WithBox => eng.h \in Boxes
    /\ eng.pc \in Judged => eng.status \in Statuses
    /\ run.state = "paused" => run.step \in Steps /\ row[run.step].result \in Verdicts
    /\ eng.pc = "finish" => run.state \notin Unfinished

TypeInv == TypeOK /\ Flow

-----------------------------------------------------------------------------
\* Lemmas about the records.

LEMMA Bounds ==
    /\ 1 \in Steps /\ DONE \in Nat /\ DONE \notin Steps /\ Steps \subseteq 1..DONE
    /\ 1 \in Attempts /\ Attempts \subseteq Nat /\ 1 \in 1..DONE /\ DONE \in 1..DONE
    /\ 1 \in 1..MaxAttempts + 1 /\ Attempts \subseteq 1..MaxAttempts + 1
    /\ VisitCap + 1 \in Nat /\ 0 \in 0..VisitCap + 1 /\ MaxAttempts \in Nat
  BY StepLoopAssumption DEF Steps, DONE, Attempts

LEMMA BoxParts ==
    /\ NoBox \notin Boxes
    /\ \A c \in Boxes : c[1] \in Steps /\ c[2] \in Attempts
    /\ \A s \in Steps, a \in Attempts, k \in 1..NumSlots :
         /\ <<s, a, k>> \in Boxes
         /\ <<s, a, k>>[1] = s /\ <<s, a, k>>[2] = a
  BY Bounds DEF Boxes, NoBox, Steps

LEMMA NoResultType == NoResult \in Results
  BY DEF Results

LEMMA MemoryType ==
    ASSUME NEW pc \in {"down", "idle", "loop", "finish"}
    PROVE  /\ Memory(pc) \in EngineRecord
           /\ Memory(pc).pc = pc /\ Memory(pc).event = FALSE
           /\ Memory(pc).status = "none"
           /\ Memory(pc).payload = NoResult /\ Memory(pc).verdict = NoResult
           /\ Memory(pc).visits = [s \in Steps |-> 0]
  BY Bounds, NoResultType DEF Memory, EngineRecord

\* A dispatch that enters a step begins with an empty memory.
LEMMA EnterSays ==
    ASSUME NEW step \in 1..DONE, Enter(step)
    PROVE  /\ eng' \in EngineRecord
           /\ eng'.pc = "loop" /\ eng'.step = step /\ eng'.event = FALSE
           /\ eng'.status = "none"
           /\ eng'.payload = NoResult /\ eng'.verdict = NoResult
           /\ eng'.visits = [s \in Steps |-> 0]
  BY Bounds, NoResultType DEF Enter, Memory, EngineRecord

\* A dispatch that ends the run keeps nothing but the stop signal.
LEMMA EndRunSays ==
    ASSUME TypeOK, NEW state \in Terminal \cup {"paused"}, EndRun(state)
    PROVE  /\ run' \in RunRecord /\ run'.state = state /\ run'.step = run.step
           /\ eng' \in EngineRecord
           /\ eng'.pc = "finish" /\ eng'.event = eng.event /\ eng'.status = "none"
           /\ eng'.payload = NoResult /\ eng'.verdict = NoResult
  <1>1. run' \in RunRecord /\ run'.state = state /\ run'.step = run.step
    BY DEF EndRun, TypeOK, RunRecord
  <1>2. eng.event \in BOOLEAN
    BY DEF TypeOK, EngineRecord
  <1>3. QED
    BY <1>1, <1>2, Bounds, NoResultType DEF EndRun, Memory, EngineRecord

\* The fields of the engine's memory and of the rows, without their records.
LEMMA EngFields ==
    ASSUME TypeOK
    PROVE  /\ eng.step \in 1..DONE /\ eng.attempt \in 1..MaxAttempts + 1
           /\ eng.resuming \in BOOLEAN /\ eng.event \in BOOLEAN
           /\ eng.payload \in Results /\ eng.verdict \in Results
           /\ eng.status \in Statuses \cup {"none"}
           /\ eng.h \in Boxes \cup {NoBox}
           /\ eng.visits \in [Steps -> 0..VisitCap + 1]
           /\ eng.pc \in {"down", "idle", "loop", "attempt", "attach", "prepare", "launch",
                          "commit", "watch", "judge", "stopped", "cleanup", "settle", "finish"}
  BY DEF TypeOK, EngineRecord

LEMMA RowFields ==
    ASSUME TypeOK, NEW s \in Steps
    PROVE  /\ row[s] \in RowRecord
           /\ row[s].exec \in {"pending", "running", "completed", "failed"}
           /\ row[s].attempt \in Attempts
           /\ row[s].result \in Statuses \cup {"none"}
           /\ row[s].arn \in Boxes \cup {NoBox}
  <1>1. row[s] \in RowRecord
    BY DEF TypeOK
  <1>2. QED
    BY <1>1 DEF RowRecord

LEMMA RunFields ==
    ASSUME TypeOK
    PROVE  /\ run.step \in 1..DONE
           /\ run.state \in Terminal \cup {"pending", "running", "paused"}
           /\ token.to \in Steps
           /\ token.state \in {"none", "pending", "claimed", "orphaned"}
           /\ token.kind \in {"start", "approve", "send_back"}
           /\ count.crashes \in Nat /\ count.decisions \in Nat
           /\ count.visits \in Nat /\ count.launches \in Nat
           /\ stop \in {"none", "requested", "done"}
  BY DEF TypeOK, RunRecord, TokenRecord

LEMMA BoxFields ==
    ASSUME TypeOK, NEW c \in Boxes
    PROVE  /\ box[c] \in BoxRecord /\ box[c].visit \in Nat
           /\ box[c].state \in {"gone", "running", "published", "exited", "crashed"}
  <1>1. box[c] \in BoxRecord
    BY DEF TypeOK
  <1>2. QED
    BY <1>1 DEF BoxRecord

LEMMA ChannelType ==
    ASSUME TypeOK, NEW s \in Steps, NEW a \in Attempts
    PROVE  channel[s][a] \in Results
  BY DEF TypeOK

\* A result that was published says who published it, and for which visit.
LEMMA ResultFields ==
    ASSUME NEW r \in Results, r # NoResult
    PROVE  r.status \in Reports /\ r.by \in Boxes /\ r.visit \in Nat
  BY DEF Results

-----------------------------------------------------------------------------
\* What each action does.

LEMMA ResetSays ==
    ASSUME TypeOK, NEW S
    PROVE  /\ ResetRows(S) \in [Steps -> RowRecord]
           /\ \A s \in Steps : ResetRows(S)[s] = row[s] \/ ResetRows(S)[s].exec = "pending"
  <1>1. [exec |-> "pending", attempt |-> 1, result |-> "none", arn |-> NoBox] \in RowRecord
    BY Bounds DEF RowRecord
  <1>2. \A s \in Steps : row[s] \in RowRecord
    BY RowFields
  <1>3. QED
    BY <1>1, <1>2 DEF ResetRows

LEMMA BeginSays ==
    ASSUME TypeInv, Begin
    PROVE  /\ eng.pc = "idle" /\ UNCHANGED <<box, channel, stop>>
           /\ eng' \in EngineRecord /\ eng'.event = FALSE /\ eng'.status = "none"
           /\ eng'.payload = NoResult /\ eng'.verdict = NoResult
           /\ token' \in TokenRecord /\ token'.state = "claimed"
           /\ row' \in [Steps -> RowRecord]
           /\ run' \in RunRecord
           /\ \/ /\ eng'.pc = "finish" /\ UNCHANGED <<row, count>>
                 /\ \/ run' = run /\ run.state \in Terminal \cup {"paused"}
                    \/ run.state = "paused" /\ run'.state = "failed" /\ run'.step = run.step
              \/ /\ eng'.pc = "loop" /\ run'.state = "running" /\ run'.step = eng'.step
                 /\ eng'.visits = [s \in Steps |-> 0]
                 /\ \/ /\ run.state \in Unfinished /\ run'.step = run.step
                       /\ UNCHANGED <<row, count>>
                    \/ run.state = "paused" /\ NewVisit
  <1>1. /\ eng.pc = "idle" /\ UNCHANGED <<box, channel, stop>>
        /\ token' \in TokenRecord /\ token'.state = "claimed"
    BY DEF Begin, TypeInv, TypeOK, TokenRecord
  <1>2. row \in [Steps -> RowRecord] /\ run \in RunRecord
    BY DEF TypeInv, TypeOK
  <1>3. CASE /\ run.state \in Terminal \/ (run.state = "paused" /\ token.kind = "start")
             /\ eng' = Memory("finish")
             /\ UNCHANGED <<run, row, count>>
    BY <1>1, <1>2, <1>3, MemoryType
  <1>4. CASE /\ run.state \in Unfinished
             /\ run' = [run EXCEPT !.state = "running"]
             /\ Enter(run.step)
             /\ UNCHANGED <<row, count>>
    <2>1. run' \in RunRecord /\ run'.state = "running" /\ run'.step = run.step
      BY <1>2, <1>4 DEF RunRecord
    <2>2. QED
      BY <1>1, <1>2, <1>4, <2>1, EnterSays, RunFields DEF TypeInv
  <1>5. CASE /\ run.state = "paused" /\ token.kind = "approve"
             /\ LET target == Route[<<run.step, row[run.step].result>>] IN
                  IF target = NoRoute
                  THEN /\ run' = [run EXCEPT !.state = "failed"]
                       /\ eng' = Memory("finish") /\ UNCHANGED count
                  ELSE /\ run' = [state |-> "running", step |-> target]
                       /\ Enter(target) /\ NewVisit
             /\ UNCHANGED row
    <2> DEFINE target == Route[<<run.step, row[run.step].result>>]
    <2>1. <<run.step, row[run.step].result>> \in Steps \X Verdicts
      BY <1>5 DEF TypeInv, Flow
    <2>2. target \in Steps \cup {DONE, NoRoute}
      BY <2>1, StepLoopAssumption
    <2>3. CASE target = NoRoute
      <3>1. run' \in RunRecord /\ run'.state = "failed" /\ run'.step = run.step
        BY <1>2, <1>5, <2>3 DEF RunRecord, Terminal
      <3>2. QED
        BY <1>1, <1>2, <1>5, <2>3, <3>1, MemoryType
    <2>4. CASE target # NoRoute
      <3>1. target \in 1..DONE
        BY <2>2, <2>4, Bounds
      <3>2. run' \in RunRecord /\ run'.state = "running" /\ run'.step = target
        BY <1>5, <2>4, <3>1 DEF RunRecord
      <3>3. Enter(target) /\ NewVisit
        BY <1>5, <2>4
      <3>4. QED
        BY <1>1, <1>2, <1>5, <3>1, <3>2, <3>3, EnterSays
    <2>5. QED
      BY <2>3, <2>4
  <1>6. CASE /\ run.state = "paused" /\ token.kind = "send_back"
             /\ row' = ResetRows(ResetSet(token.to))
             /\ run' = [state |-> "running", step |-> token.to]
             /\ Enter(token.to) /\ NewVisit
    <2>1. token.to \in 1..DONE
      BY RunFields, Bounds DEF TypeInv
    <2>2. run' \in RunRecord /\ run'.state = "running" /\ run'.step = token.to
      BY <1>6, <2>1 DEF RunRecord
    <2>3. row' \in [Steps -> RowRecord]
      BY <1>6, ResetSays DEF TypeInv
    <2>4. QED
      BY <1>1, <1>6, <2>1, <2>2, <2>3, EnterSays
  <1>7. QED
    BY <1>3, <1>4, <1>5, <1>6 DEF Begin

LEMMA NewVisitSays ==
    ASSUME TypeOK, NewVisit
    PROVE  /\ count' \in [crashes: Nat, decisions: Nat, visits: Nat, launches: Nat]
           /\ count'.launches = 0 /\ count'.crashes = count.crashes
           /\ count'.visits = count.visits + 1
  <1>1. count \in [crashes: Nat, decisions: Nat, visits: Nat, launches: Nat]
    BY DEF TypeOK
  <1>2. count.visits \in Nat /\ count.visits + 1 \in Nat
    BY RunFields
  <1> DEFINE next == count.visits + 1
  <1>3. count' = [count EXCEPT !.visits = next, !.launches = 0]
    BY DEF NewVisit
  <1> HIDE DEF next
  <1>4. next \in Nat
    BY <1>2 DEF next
  <1>5. /\ count' \in [crashes: Nat, decisions: Nat, visits: Nat, launches: Nat]
        /\ count'.launches = 0 /\ count'.crashes = count.crashes
        /\ count'.visits = next
    BY <1>1, <1>3, <1>4
  <1>6. QED
    BY <1>5 DEF next

LEMMA FirstAttemptType ==
    ASSUME TypeOK, NEW s \in Steps
    PROVE  FirstAttempt(s) \in Attempts
  BY RowFields, Bounds DEF FirstAttempt

LEMMA BumpSays ==
    ASSUME NEW f \in [Steps -> 0..VisitCap + 1], NEW s \in Steps
    PROVE  /\ [f EXCEPT ![s] = @ + 1][s] = f[s] + 1
           /\ f[s] + 1 <= VisitCap => [f EXCEPT ![s] = @ + 1] \in [Steps -> 0..VisitCap + 1]
  <1>1. f[s] \in 0..VisitCap + 1
    OBVIOUS
  <1>2. f[s] + 1 <= VisitCap => f[s] + 1 \in 0..VisitCap + 1
    BY <1>1, StepLoopAssumption
  <1>3. QED
    BY <1>2

LEMMA LoopSays ==
    ASSUME TypeInv, Loop
    PROVE  /\ eng.pc = "loop" /\ UNCHANGED <<row, box, channel, token, stop, count>>
           /\ \/ (eng.event \/ run.state = "cancelled") /\ EndRun("cancelled")
              \/ run.state = "running" /\ eng.step = DONE /\ EndRun("completed")
              \/ /\ run.state = "running" /\ eng.step \in Steps
                 /\ eng.visits[eng.step] + 1 > VisitCap /\ EndRun("failed")
              \/ /\ eng.step \in Steps /\ UNCHANGED run
                 /\ eng' \in EngineRecord /\ eng'.pc = "attempt" /\ eng'.step = eng.step
                 /\ eng'.attempt = FirstAttempt(eng.step)
                 /\ eng'.resuming = (row[eng.step].exec = "running")
                 /\ eng'.event = eng.event /\ eng'.status = eng.status
                 /\ eng'.payload = eng.payload /\ eng'.verdict = eng.verdict
                 /\ eng'.h = eng.h
  <1>1. /\ eng.pc = "loop" /\ UNCHANGED <<row, box, channel, token, stop, count>>
        /\ run.state \in {"running", "cancelled"}
    BY DEF Loop, TypeInv, Flow
  <1> DEFINE visits == [eng.visits EXCEPT ![eng.step] = @ + 1]
             entered == [eng EXCEPT !.pc = "attempt", !.visits = visits,
                                    !.resuming = row[eng.step].exec = "running",
                                    !.attempt = FirstAttempt(eng.step)]
  <1>2. CASE eng.step \in Steps /\ ~(visits[eng.step] > VisitCap) /\ eng' = entered
             /\ UNCHANGED run
    <2>1. eng.visits \in [Steps -> 0..VisitCap + 1]
      BY EngFields DEF TypeInv
    <2>2. visits \in [Steps -> 0..VisitCap + 1]
      <3>1. eng.step \in Steps /\ ~(visits[eng.step] > VisitCap)
        BY <1>2
      <3>2. visits[eng.step] = eng.visits[eng.step] + 1
        BY <2>1, <3>1, BumpSays
      <3>3. eng.visits[eng.step] \in 0..VisitCap + 1
        BY <2>1, <3>1
      <3>4. eng.visits[eng.step] + 1 <= VisitCap
        BY <3>1, <3>2, <3>3, StepLoopAssumption
      <3>5. QED
        BY <2>1, <3>1, <3>4, BumpSays
    <2>3. FirstAttempt(eng.step) \in 1..MaxAttempts + 1
      BY <1>2, FirstAttemptType, Bounds DEF TypeInv
    <2> HIDE DEF visits
    <2>4. entered \in EngineRecord
      BY <2>2, <2>3 DEF TypeInv, TypeOK, EngineRecord
    <2>5. QED
      BY <1>1, <1>2, <2>4 DEF TypeInv, TypeOK, EngineRecord
  <1>3. CASE eng.step \in Steps /\ visits[eng.step] > VisitCap /\ EndRun("failed")
             /\ run.state # "cancelled"
    <2>1. visits[eng.step] = eng.visits[eng.step] + 1
      BY <1>3, EngFields DEF TypeInv
    <2>2. QED
      BY <1>1, <1>3, <2>1
  <1>4. QED
    BY <1>1, <1>2, <1>3 DEF Loop

\* A write of some fields of one row.
LEMMA RowWriteSays ==
    ASSUME TypeOK, NEW s \in Steps, NEW new \in RowRecord, row' = [row EXCEPT ![s] = new]
    PROVE  /\ row' \in [Steps -> RowRecord] /\ row'[s] = new
           /\ \A t \in Steps \ {s} : row'[t] = row[t]
  BY DEF TypeOK

LEMMA StartAttemptSays ==
    ASSUME TypeInv, StartAttempt
    PROVE  /\ eng.pc = "attempt" /\ eng.step \in Steps /\ eng.attempt \in Attempts
           /\ UNCHANGED <<box, channel, token, stop, count>>
           /\ run' \in RunRecord /\ run'.step = eng.step /\ run'.state = run.state
           /\ row' \in [Steps -> RowRecord]
           /\ row'[eng.step].exec = "running" /\ row'[eng.step].attempt = eng.attempt
           /\ row'[eng.step].arn = row[eng.step].arn
           /\ \A t \in Steps \ {eng.step} : row'[t] = row[t]
           /\ eng' \in EngineRecord
           /\ \/ eng'.pc = "attach" /\ eng.resuming /\ row[eng.step].arn # NoBox
              \/ eng'.pc = "prepare" /\ ~(eng.resuming /\ row[eng.step].arn # NoBox)
           /\ eng'.step = eng.step /\ eng'.attempt = eng.attempt /\ eng'.event = eng.event
           /\ eng'.status = eng.status /\ eng'.h = eng.h
           /\ eng'.payload = eng.payload /\ eng'.verdict = eng.verdict
  <1>1. /\ eng.pc = "attempt" /\ eng.step \in Steps /\ eng.attempt \in Attempts
        /\ UNCHANGED <<box, channel, token, stop, count>>
    BY DEF StartAttempt, TypeInv, Flow, InStep, Seeking
  <1>2. ~(eng.attempt > MaxAttempts)
    BY <1>1, StepLoopAssumption DEF Attempts
  <1> DEFINE new == [row[eng.step] EXCEPT !.exec = "running", !.attempt = eng.attempt]
  <1>3. row[eng.step] \in RowRecord
    BY <1>1, RowFields DEF TypeInv
  <1>4. /\ new \in RowRecord /\ new.exec = "running" /\ new.attempt = eng.attempt
        /\ new.arn = row[eng.step].arn
    BY <1>1, <1>3 DEF RowRecord
  <1>5. /\ row' = [row EXCEPT ![eng.step].exec = "running", ![eng.step].attempt = eng.attempt]
        /\ run' = [run EXCEPT !.step = eng.step]
        /\ eng' = [eng EXCEPT !.pc = IF eng.resuming /\ row[eng.step].arn # NoBox
                                     THEN "attach" ELSE "prepare"]
    BY <1>2 DEF StartAttempt
  <1>6. row' = [row EXCEPT ![eng.step] = new]
    BY <1>1, <1>5 DEF TypeInv, TypeOK
  <1> HIDE DEF new
  <1>7. /\ row' \in [Steps -> RowRecord] /\ row'[eng.step] = new
        /\ \A t \in Steps \ {eng.step} : row'[t] = row[t]
    BY <1>1, <1>4, <1>6, RowWriteSays DEF TypeInv
  <1>8. run' \in RunRecord /\ run'.step = eng.step /\ run'.state = run.state
    BY <1>1, <1>5, Bounds DEF TypeInv, TypeOK, RunRecord
  <1>9. /\ eng' \in EngineRecord
        /\ \/ eng'.pc = "attach" /\ eng.resuming /\ row[eng.step].arn # NoBox
           \/ eng'.pc = "prepare" /\ ~(eng.resuming /\ row[eng.step].arn # NoBox)
        /\ eng'.step = eng.step /\ eng'.attempt = eng.attempt /\ eng'.event = eng.event
        /\ eng'.status = eng.status /\ eng'.h = eng.h
        /\ eng'.payload = eng.payload /\ eng'.verdict = eng.verdict
    BY <1>5 DEF TypeInv, TypeOK, EngineRecord
  <1>10. QED
    BY <1>1, <1>4, <1>7, <1>8, <1>9

LEMMA AttachSays ==
    ASSUME TypeInv, Attach
    PROVE  /\ eng.pc = "attach" /\ eng.step \in Steps /\ row[eng.step].arn \in Boxes
           /\ UNCHANGED <<run, row, box, channel, token, stop, count>>
           /\ eng' \in EngineRecord
           /\ eng'.step = eng.step /\ eng'.attempt = eng.attempt /\ eng'.event = eng.event
           /\ eng'.status = eng.status /\ eng'.verdict = eng.verdict
           /\ \/ /\ Lost(row[eng.step].arn) /\ eng'.pc = "prepare"
                 /\ eng'.payload = eng.payload /\ eng'.h = eng.h
              \/ /\ ~Lost(row[eng.step].arn) /\ eng'.pc = "watch"
                 /\ eng'.payload = NoResult /\ eng'.h = row[eng.step].arn
  <1>1. /\ eng.pc = "attach" /\ eng.step \in Steps /\ row[eng.step].arn \in Boxes
        /\ UNCHANGED <<run, row, box, channel, token, stop, count>>
    BY DEF Attach, TypeInv, Flow, InStep, Seeking
  <1>2. CASE Lost(row[eng.step].arn)
    <2>1. eng' = [eng EXCEPT !.pc = "prepare"]
      BY <1>2 DEF Attach
    <2>2. QED
      BY <1>1, <1>2, <2>1 DEF TypeInv, TypeOK, EngineRecord
  <1>3. CASE ~Lost(row[eng.step].arn)
    <2> DEFINE c == row[eng.step].arn
    <2>1. eng' = [eng EXCEPT !.pc = "watch", !.h = c, !.payload = NoResult,
                             !.resuming = FALSE]
      BY <1>3 DEF Attach
    <2> HIDE DEF c
    <2>2. c \in Boxes
      BY <1>1 DEF c
    <2>3. /\ eng' \in EngineRecord /\ eng'.pc = "watch" /\ eng'.payload = NoResult
          /\ eng'.h = c
          /\ eng'.step = eng.step /\ eng'.attempt = eng.attempt /\ eng'.event = eng.event
          /\ eng'.status = eng.status /\ eng'.verdict = eng.verdict
      BY <2>1, <2>2, NoResultType DEF TypeInv, TypeOK, EngineRecord
    <2>4. QED
      BY <1>1, <1>3, <2>3 DEF c
  <1>4. QED
    BY <1>2, <1>3

LEMMA NextAttemptType ==
    ASSUME NEW a \in Attempts, a < MaxAttempts
    PROVE  a + 1 \in Attempts /\ a + 1 \in 1..MaxAttempts + 1
  BY StepLoopAssumption DEF Attempts

Puts(s, a, r) == channel' = [channel EXCEPT ![s][a] = r]

LEMMA PutsSays ==
    ASSUME TypeOK, NEW s \in Steps, NEW a \in Attempts, NEW r \in Results, Puts(s, a, r)
    PROVE  /\ channel' \in [Steps -> [Attempts -> Results]] /\ channel'[s][a] = r
           /\ \A t \in Steps, b \in Attempts :
                t # s \/ b # a => channel'[t][b] = channel[t][b]
  <1>1. channel[s] \in [Attempts -> Results] /\ DOMAIN channel = Steps
    BY DEF TypeOK
  <1>2. channel' = [channel EXCEPT ![s] = [channel[s] EXCEPT ![a] = r]]
    BY DEF Puts
  <1>3. [channel[s] EXCEPT ![a] = r] \in [Attempts -> Results]
    BY <1>1
  <1>4. channel'[s] = [channel[s] EXCEPT ![a] = r]
    BY <1>1, <1>2
  <1>5. \A t \in Steps \ {s} : channel'[t] = channel[t]
    BY <1>1, <1>2
  <1>6. channel' \in [Steps -> [Attempts -> Results]]
    BY <1>2, <1>3 DEF TypeOK
  <1>7. channel'[s][a] = r /\ \A b \in Attempts \ {a} : channel'[s][b] = channel[s][b]
    BY <1>1, <1>4
  <1>8. QED
    BY <1>5, <1>6, <1>7

LEMMA PrepareSays ==
    ASSUME TypeInv, Prepare
    PROVE  /\ eng.pc = "prepare" /\ eng.step \in Steps /\ eng.attempt \in Attempts
           /\ UNCHANGED <<row, box, token, stop, count>>
           /\ \/ EndRun("failed") /\ UNCHANGED channel
              \/ /\ UNCHANGED run /\ eng' \in EngineRecord
                 /\ eng'.step = eng.step /\ eng'.event = eng.event /\ eng'.h = eng.h
                 /\ eng'.status = eng.status
                 /\ eng'.payload = eng.payload /\ eng'.verdict = eng.verdict
                 /\ \/ /\ eng'.pc = "attempt" /\ UNCHANGED channel
                       /\ eng'.attempt = eng.attempt + 1 /\ eng'.attempt \in Attempts
                    \/ /\ eng'.pc = "launch" /\ eng'.attempt = eng.attempt
                       /\ channel' \in [Steps -> [Attempts -> Results]]
                       /\ channel'[eng.step][eng.attempt] = NoResult
  <1>1. /\ eng.pc = "prepare" /\ eng.step \in Steps /\ eng.attempt \in Attempts
        /\ UNCHANGED <<row, box, token, stop, count>>
    BY DEF Prepare, TypeInv, Flow, InStep, Seeking
  <1>2. CASE /\ eng.attempt < MaxAttempts /\ UNCHANGED <<run, channel>>
             /\ eng' = [eng EXCEPT !.pc = "attempt", !.attempt = @ + 1]
    <2> DEFINE next == eng.attempt + 1
    <2>1. next \in Attempts /\ next \in 1..MaxAttempts + 1
      BY <1>1, <1>2, NextAttemptType
    <2>2. eng' = [eng EXCEPT !.pc = "attempt", !.attempt = next]
      BY <1>2
    <2> HIDE DEF next
    <2>3. /\ eng' \in EngineRecord /\ eng'.pc = "attempt" /\ eng'.attempt = next
          /\ eng'.step = eng.step /\ eng'.event = eng.event /\ eng'.h = eng.h
          /\ eng'.status = eng.status
          /\ eng'.payload = eng.payload /\ eng'.verdict = eng.verdict
      BY <2>1, <2>2 DEF TypeInv, TypeOK, EngineRecord
    <2>4. QED
      BY <1>1, <1>2, <2>1, <2>3 DEF next
  <1>3. CASE /\ channel' = Cleared /\ eng' = [eng EXCEPT !.pc = "launch"] /\ UNCHANGED run
    <2>1. /\ channel' \in [Steps -> [Attempts -> Results]]
          /\ channel'[eng.step][eng.attempt] = NoResult
      <3>1. Puts(eng.step, eng.attempt, NoResult)
        BY <1>3 DEF Cleared, Puts
      <3>2. QED
        BY <1>1, <3>1, PutsSays, NoResultType DEF TypeInv
    <2>2. /\ eng' \in EngineRecord /\ eng'.pc = "launch" /\ eng'.attempt = eng.attempt
          /\ eng'.step = eng.step /\ eng'.event = eng.event /\ eng'.h = eng.h
          /\ eng'.status = eng.status
          /\ eng'.payload = eng.payload /\ eng'.verdict = eng.verdict
      BY <1>3 DEF TypeInv, TypeOK, EngineRecord
    <2>3. QED
      BY <1>1, <1>3, <2>1, <2>2
  <1>4. QED
    BY <1>1, <1>2, <1>3 DEF Prepare

\* A write of one container.
LEMMA BoxWriteSays ==
    ASSUME TypeOK, NEW c \in Boxes, NEW new \in BoxRecord, box' = [box EXCEPT ![c] = new]
    PROVE  /\ box' \in [Boxes -> BoxRecord] /\ box'[c] = new
           /\ \A d \in Boxes \ {c} : box'[d] = box[d]
  BY DEF TypeOK

LEMMA RemoveSays ==
    ASSUME TypeOK, NEW c \in Boxes, box' = Remove(c)
    PROVE  /\ box' \in [Boxes -> BoxRecord] /\ box'[c].state = "gone"
           /\ \A d \in Boxes \ {c} : box'[d] = box[d]
  <1>1. GoneBox \in BoxRecord /\ GoneBox.state = "gone"
    BY DEF GoneBox, BoxRecord
  <1>2. QED
    BY <1>1, BoxWriteSays DEF Remove

\* What a cleanup leaves: nothing, unless containers are kept.
LEMMA CleanupSays ==
    ASSUME TypeOK, NEW c \in Boxes, box' = Cleanup(c)
    PROVE  /\ box' \in [Boxes -> BoxRecord]
           /\ KeepContainers \/ box'[c].state = "gone"
           /\ \A d \in Boxes \ {c} : box'[d] = box[d]
  <1>1. CASE KeepContainers
    BY <1>1 DEF Cleanup, TypeOK
  <1>2. CASE ~KeepContainers
    BY <1>2, RemoveSays DEF Cleanup
  <1>3. QED
    BY <1>1, <1>2

LEMMA LaunchSays ==
    ASSUME TypeInv, Launch
    PROVE  /\ eng.pc = "launch" /\ eng.step \in Steps /\ eng.attempt \in Attempts
           /\ UNCHANGED <<row, channel, token, stop>>
           /\ \/ EndRun("failed") /\ UNCHANGED <<box, count>>
              \/ /\ UNCHANGED run
                 /\ eng' \in EngineRecord /\ eng'.pc = "commit" /\ eng'.h \in Boxes
                 /\ eng'.h[1] = eng.step /\ eng'.h[2] = eng.attempt
                 /\ eng'.step = eng.step /\ eng'.attempt = eng.attempt
                 /\ eng'.event = eng.event /\ eng'.status = eng.status
                 /\ eng'.payload = eng.payload /\ eng'.verdict = eng.verdict
                 /\ box' \in [Boxes -> BoxRecord]
                 /\ box'[eng'.h].state = "running" /\ box'[eng'.h].visit = count.visits
                 /\ \A d \in Boxes \ {eng'.h} : box'[d] = box[d]
                 /\ count' \in [crashes: Nat, decisions: Nat, visits: Nat, launches: Nat]
                 /\ count'.launches = count.launches + 1
                 /\ count'.crashes = count.crashes /\ count'.visits = count.visits
  <1>1. /\ eng.pc = "launch" /\ eng.step \in Steps /\ eng.attempt \in Attempts
        /\ UNCHANGED <<row, channel, token, stop>>
    BY DEF Launch, TypeInv, Flow, InStep, Seeking
  <1>2. ASSUME NEW k \in FreeSlots(eng.step, eng.attempt),
               box' = [box EXCEPT ![<<eng.step, eng.attempt, k>>]
                                  = [state |-> "running", visit |-> count.visits]],
               eng' = [eng EXCEPT !.pc = "commit", !.h = <<eng.step, eng.attempt, k>>],
               count' = [count EXCEPT !.launches = @ + 1], UNCHANGED run
        PROVE  /\ eng' \in EngineRecord /\ eng'.pc = "commit" /\ eng'.h \in Boxes
               /\ eng'.h[1] = eng.step /\ eng'.h[2] = eng.attempt
               /\ eng'.step = eng.step /\ eng'.attempt = eng.attempt
               /\ eng'.event = eng.event /\ eng'.status = eng.status
               /\ eng'.payload = eng.payload /\ eng'.verdict = eng.verdict
               /\ box' \in [Boxes -> BoxRecord]
               /\ box'[eng'.h].state = "running" /\ box'[eng'.h].visit = count.visits
               /\ \A d \in Boxes \ {eng'.h} : box'[d] = box[d]
               /\ count' \in [crashes: Nat, decisions: Nat, visits: Nat, launches: Nat]
               /\ count'.launches = count.launches + 1
               /\ count'.crashes = count.crashes /\ count'.visits = count.visits
    <2> DEFINE c == <<eng.step, eng.attempt, k>>
               new == [state |-> "running", visit |-> count.visits]
               next == count.launches + 1
    <2>1. k \in 1..NumSlots
      BY <1>2 DEF FreeSlots
    <2>2. c \in Boxes /\ c[1] = eng.step /\ c[2] = eng.attempt
      BY <1>1, <2>1, BoxParts
    <2>3. new \in BoxRecord /\ new.state = "running" /\ new.visit = count.visits
      BY RunFields DEF TypeInv, BoxRecord
    <2>4. next \in Nat /\ count \in [crashes: Nat, decisions: Nat, visits: Nat, launches: Nat]
      BY RunFields DEF TypeInv, TypeOK
    <2>5. /\ box' = [box EXCEPT ![c] = new] /\ eng' = [eng EXCEPT !.pc = "commit", !.h = c]
          /\ count' = [count EXCEPT !.launches = next]
      BY <1>2
    <2> HIDE DEF c, new, next
    <2>6. /\ box' \in [Boxes -> BoxRecord] /\ box'[c] = new
          /\ \A d \in Boxes \ {c} : box'[d] = box[d]
      BY <2>2, <2>3, <2>5, BoxWriteSays DEF TypeInv
    <2>7. /\ eng' \in EngineRecord /\ eng'.pc = "commit" /\ eng'.h = c
          /\ eng'.step = eng.step /\ eng'.attempt = eng.attempt
          /\ eng'.event = eng.event /\ eng'.status = eng.status
          /\ eng'.payload = eng.payload /\ eng'.verdict = eng.verdict
      BY <2>2, <2>5 DEF TypeInv, TypeOK, EngineRecord
    <2>8. /\ count' \in [crashes: Nat, decisions: Nat, visits: Nat, launches: Nat]
          /\ count'.launches = next
          /\ count'.crashes = count.crashes /\ count'.visits = count.visits
      BY <2>4, <2>5
    <2>9. QED
      BY <2>2, <2>3, <2>6, <2>7, <2>8 DEF next
  <1>3. CASE EndRun("failed") /\ UNCHANGED <<box, count>>
    BY <1>1, <1>3
  <1>4. CASE UNCHANGED run /\ \E k \in FreeSlots(eng.step, eng.attempt) :
               /\ box' = [box EXCEPT ![<<eng.step, eng.attempt, k>>]
                                     = [state |-> "running", visit |-> count.visits]]
               /\ eng' = [eng EXCEPT !.pc = "commit", !.h = <<eng.step, eng.attempt, k>>]
               /\ count' = [count EXCEPT !.launches = @ + 1]
    BY <1>1, <1>2, <1>4
  <1>5. QED
    BY <1>3, <1>4 DEF Launch

LEMMA CommitHandleSays ==
    ASSUME TypeInv, CommitHandle
    PROVE  /\ eng.pc = "commit" /\ eng.step \in Steps /\ eng.h \in Boxes
           /\ UNCHANGED <<run, box, channel, token, stop, count>>
           /\ row' \in [Steps -> RowRecord] /\ row'[eng.step].arn = eng.h
           /\ row'[eng.step].exec = row[eng.step].exec
           /\ row'[eng.step].attempt = row[eng.step].attempt
           /\ \A t \in Steps \ {eng.step} : row'[t] = row[t]
           /\ eng' \in EngineRecord /\ eng'.pc = "watch" /\ eng'.payload = NoResult
           /\ eng'.step = eng.step /\ eng'.attempt = eng.attempt /\ eng'.event = eng.event
           /\ eng'.status = eng.status /\ eng'.h = eng.h /\ eng'.verdict = eng.verdict
  <1>1. /\ eng.pc = "commit" /\ eng.step \in Steps /\ eng.h \in Boxes
        /\ UNCHANGED <<run, box, channel, token, stop, count>>
    BY DEF CommitHandle, TypeInv, Flow, InStep, WithBox
  <1> DEFINE new == [row[eng.step] EXCEPT !.arn = eng.h]
  <1>2. row[eng.step] \in RowRecord
    BY <1>1, RowFields DEF TypeInv
  <1>3. /\ new \in RowRecord /\ new.arn = eng.h
        /\ new.exec = row[eng.step].exec /\ new.attempt = row[eng.step].attempt
    BY <1>1, <1>2 DEF RowRecord
  <1>4. row' = [row EXCEPT ![eng.step] = new]
    BY DEF CommitHandle
  <1> HIDE DEF new
  <1>5. /\ row' \in [Steps -> RowRecord] /\ row'[eng.step] = new
        /\ \A t \in Steps \ {eng.step} : row'[t] = row[t]
    BY <1>1, <1>3, <1>4, RowWriteSays DEF TypeInv
  <1>6. /\ eng' \in EngineRecord /\ eng'.pc = "watch" /\ eng'.payload = NoResult
        /\ eng'.step = eng.step /\ eng'.attempt = eng.attempt /\ eng'.event = eng.event
        /\ eng'.status = eng.status /\ eng'.h = eng.h /\ eng'.verdict = eng.verdict
    BY NoResultType DEF CommitHandle, TypeInv, TypeOK, EngineRecord
  <1>7. QED
    BY <1>1, <1>3, <1>5, <1>6

LEMMA ReadChannelSays ==
    ASSUME TypeInv, ReadChannel
    PROVE  /\ eng.pc = "watch" /\ eng.step \in Steps /\ eng.attempt \in Attempts
           /\ UNCHANGED <<run, row, box, channel, token, stop, count>>
           /\ eng' \in EngineRecord /\ eng'.pc = "watch"
           /\ eng'.payload = channel[eng.step][eng.attempt]
           /\ eng'.step = eng.step /\ eng'.attempt = eng.attempt /\ eng'.event = eng.event
           /\ eng'.status = eng.status /\ eng'.h = eng.h /\ eng'.verdict = eng.verdict
  <1>1. /\ eng.pc = "watch" /\ eng.step \in Steps /\ eng.attempt \in Attempts
        /\ UNCHANGED <<run, row, box, channel, token, stop, count>>
    BY DEF ReadChannel, TypeInv, Flow, InStep, WithBox
  <1> DEFINE r == channel[eng.step][eng.attempt]
  <1>2. r \in Results
    BY <1>1, ChannelType DEF TypeInv
  <1>3. eng' = [eng EXCEPT !.payload = r]
    BY DEF ReadChannel
  <1> HIDE DEF r
  <1>4. /\ eng' \in EngineRecord /\ eng'.pc = "watch" /\ eng'.payload = r
        /\ eng'.step = eng.step /\ eng'.attempt = eng.attempt /\ eng'.event = eng.event
        /\ eng'.status = eng.status /\ eng'.h = eng.h /\ eng'.verdict = eng.verdict
    BY <1>1, <1>2, <1>3 DEF TypeInv, TypeOK, EngineRecord
  <1>5. QED
    BY <1>1, <1>4 DEF r

LEMMA ClassifySays ==
    ASSUME TypeInv, NEW status \in Statuses, NEW verdict \in Results, Classify(status, verdict)
    PROVE  /\ eng' \in EngineRecord /\ eng'.pc = "judge" /\ eng'.payload = NoResult
           /\ eng'.status = status /\ eng'.verdict = verdict
           /\ eng'.step = eng.step /\ eng'.attempt = eng.attempt /\ eng'.event = eng.event
           /\ eng'.h = eng.h
  BY NoResultType DEF Classify, TypeInv, TypeOK, EngineRecord

\* The result a tick acts on: the payload in hand, or what the channel holds.
ResultAt == IF eng.payload # NoResult THEN eng.payload ELSE channel[eng.step][eng.attempt]

LEMMA ReconcileSays ==
    ASSUME TypeInv, Reconcile
    PROVE  /\ eng.pc = "watch" /\ eng.step \in Steps /\ eng.attempt \in Attempts
           /\ eng.h \in Boxes
           /\ UNCHANGED <<run, row, channel, token, stop, count>>
           /\ box' \in [Boxes -> BoxRecord]
           /\ \A d \in Boxes : d # eng.h => box'[d] = box[d]
           /\ \A d \in Boxes : box'[d] = box[d] \/ box'[d].state = "gone"
           /\ eng' \in EngineRecord /\ eng'.pc = "judge" /\ eng'.payload = NoResult
           /\ eng'.status \in Statuses
           /\ eng'.status = "__cancelled__" => eng.event
           /\ \/ eng'.verdict = NoResult
              \/ eng'.verdict = ResultAt /\ ResultAt # NoResult
           /\ eng'.step = eng.step /\ eng'.attempt = eng.attempt /\ eng'.event = eng.event
           /\ eng'.h = eng.h
  <1>1. /\ eng.pc = "watch" /\ eng.step \in Steps /\ eng.attempt \in Attempts
        /\ eng.h \in Boxes
        /\ UNCHANGED <<run, row, channel, token, stop, count>>
    BY DEF Reconcile, TypeInv, Flow, InStep, WithBox
  <1>2. ResultAt \in Results
    BY <1>1, EngFields, ChannelType DEF ResultAt, TypeInv
  <1>3. {"__cancelled__", "failed_infra", "failed_incomplete", "failed_execution",
         "failed_timeout"} \cup Reports \subseteq Statuses
        /\ "__cancelled__" \notin Reports
    BY DEF Statuses, Reports, Transient, Verdicts
  <1>4. box \in [Boxes -> BoxRecord]
    BY DEF TypeInv, TypeOK
  <1>5. CASE eng.event /\ Classify("__cancelled__", NoResult) /\ UNCHANGED box
    BY <1>1, <1>3, <1>4, <1>5, ClassifySays, NoResultType
  <1>6. CASE Classify("failed_infra", NoResult) /\ UNCHANGED box
    BY <1>1, <1>3, <1>4, <1>6, ClassifySays, NoResultType
  <1>7. CASE ResultAt = NoResult /\ Classify("failed_incomplete", NoResult) /\ UNCHANGED box
    BY <1>1, <1>3, <1>4, <1>7, ClassifySays, NoResultType
  <1>8. ASSUME NEW status, Classify(status, ResultAt), UNCHANGED box, ResultAt # NoResult,
               status = "failed_execution" \/ status = ResultAt.status
        PROVE  /\ box' \in [Boxes -> BoxRecord] /\ UNCHANGED box
               /\ eng' \in EngineRecord /\ eng'.pc = "judge" /\ eng'.payload = NoResult
               /\ eng'.status \in Statuses /\ eng'.status # "__cancelled__"
               /\ eng'.verdict = ResultAt /\ ResultAt # NoResult
               /\ eng'.step = eng.step /\ eng'.attempt = eng.attempt
               /\ eng'.event = eng.event /\ eng'.h = eng.h
    <2>1. ResultAt.status \in Reports
      BY <1>2, <1>8, ResultFields
    <2>2. status \in Statuses /\ status # "__cancelled__"
      BY <1>3, <1>8, <2>1
    <2>3. QED
      BY <1>2, <1>4, <1>8, <2>2, ClassifySays
  <1>9. CASE /\ ResultAt # NoResult /\ UNCHANGED box
             /\ Classify(IF box[eng.h].state = "crashed" /\ ResultAt.status = "completed"
                         THEN "failed_execution" ELSE ResultAt.status, ResultAt)
    BY <1>1, <1>8, <1>9
  <1>10. CASE Classify("failed_timeout", NoResult) /\ box' = Cleanup(eng.h)
    <2>1. /\ box' \in [Boxes -> BoxRecord]
          /\ \A d \in Boxes : d # eng.h => box'[d] = box[d]
          /\ box' = box \/ box'[eng.h].state = "gone"
      BY <1>1, <1>10, CleanupSays, RemoveSays DEF TypeInv, Cleanup
    <2>2. QED
      BY <1>1, <1>3, <1>10, <2>1, ClassifySays, NoResultType
  <1>11. QED
    BY <1>5, <1>6, <1>7, <1>9, <1>10 DEF Reconcile, ResultAt

LEMMA JudgeSays ==
    ASSUME TypeInv, Judge
    PROVE  /\ eng.pc = "judge" /\ eng.step \in Steps /\ eng.h \in Boxes
           /\ UNCHANGED <<run, row, channel, token, stop, count>>
           /\ box' \in [Boxes -> BoxRecord]
           /\ \A d \in Boxes \ {eng.h} : box'[d] = box[d]
           /\ \/ /\ eng'.pc = "stopped" /\ box'[eng.h].state = "gone"
                 /\ eng.status = "__cancelled__" \/ run.state = "cancelled"
              \/ eng'.pc = "cleanup" /\ UNCHANGED box
           /\ eng' \in EngineRecord /\ eng'.payload = eng.payload
           /\ eng'.status = eng.status /\ eng'.verdict = eng.verdict
           /\ eng'.step = eng.step /\ eng'.attempt = eng.attempt /\ eng'.event = eng.event
           /\ eng'.h = eng.h
  <1>1. /\ eng.pc = "judge" /\ eng.step \in Steps /\ eng.h \in Boxes
        /\ UNCHANGED <<run, row, channel, token, stop, count>>
        /\ box \in [Boxes -> BoxRecord]
    BY DEF Judge, TypeInv, TypeOK, Flow, InStep, WithBox, Judged
  <1>2. ASSUME NEW pc \in {"stopped", "cleanup"}, eng' = [eng EXCEPT !.pc = pc]
        PROVE  /\ eng' \in EngineRecord /\ eng'.payload = eng.payload /\ eng'.pc = pc
               /\ eng'.status = eng.status /\ eng'.verdict = eng.verdict
               /\ eng'.step = eng.step /\ eng'.attempt = eng.attempt
               /\ eng'.event = eng.event /\ eng'.h = eng.h
    BY <1>2 DEF TypeInv, TypeOK, EngineRecord
  <1>3. CASE eng.status = "__cancelled__" \/ run.state = "cancelled"
    <2>1. eng' = [eng EXCEPT !.pc = "stopped"] /\ box' = Remove(eng.h)
      BY <1>3 DEF Judge, Stopped
    <2>2. QED
      BY <1>1, <1>2, <1>3, <2>1, RemoveSays DEF TypeInv
  <1>4. CASE ~(eng.status = "__cancelled__" \/ run.state = "cancelled")
    <2>1. eng' = [eng EXCEPT !.pc = "cleanup"] /\ UNCHANGED box
      BY <1>4 DEF Judge
    <2>2. QED
      BY <1>1, <1>2, <2>1
  <1>5. QED
    BY <1>3, <1>4

LEMMA CancelStepSays ==
    ASSUME TypeInv, CancelStep
    PROVE  /\ eng.pc = "stopped" /\ eng.step \in Steps
           /\ UNCHANGED <<box, channel, token, stop, count>> /\ EndRun("cancelled")
           /\ row' \in [Steps -> RowRecord]
           /\ \A t \in Steps \ {eng.step} : row'[t] = row[t]
  <1>1. /\ eng.pc = "stopped" /\ eng.step \in Steps
        /\ UNCHANGED <<box, channel, token, stop, count>> /\ EndRun("cancelled")
    BY DEF CancelStep, TypeInv, Flow, InStep, WithBox, Judged
  <1> DEFINE new == [row[eng.step] EXCEPT !.exec = "failed", !.result = "__cancelled__"]
  <1>2. row[eng.step] \in RowRecord
    BY <1>1, RowFields DEF TypeInv
  <1>3. new \in RowRecord
    BY <1>2 DEF RowRecord, Statuses
  <1>4. row' = [row EXCEPT ![eng.step] = new]
    BY <1>1 DEF CancelStep, TypeInv, TypeOK
  <1> HIDE DEF new
  <1>5. QED
    BY <1>1, <1>3, <1>4, RowWriteSays DEF TypeInv

LEMMA RemoveContainerSays ==
    ASSUME TypeInv, RemoveContainer
    PROVE  /\ eng.pc = "cleanup" /\ eng.step \in Steps /\ eng.h \in Boxes
           /\ UNCHANGED <<run, row, channel, token, stop, count>>
           /\ box' \in [Boxes -> BoxRecord]
           /\ KeepContainers \/ box'[eng.h].state = "gone"
           /\ \A d \in Boxes \ {eng.h} : box'[d] = box[d]
           /\ eng' \in EngineRecord /\ eng'.pc = "settle" /\ eng'.payload = eng.payload
           /\ eng'.status = eng.status /\ eng'.verdict = eng.verdict
           /\ eng'.step = eng.step /\ eng'.attempt = eng.attempt /\ eng'.event = eng.event
           /\ eng'.h = eng.h
  <1>1. /\ eng.pc = "cleanup" /\ eng.step \in Steps /\ eng.h \in Boxes
        /\ UNCHANGED <<run, row, channel, token, stop, count>>
    BY DEF RemoveContainer, TypeInv, Flow, InStep, WithBox, Judged
  <1>2. /\ box' \in [Boxes -> BoxRecord]
        /\ KeepContainers \/ box'[eng.h].state = "gone"
        /\ \A d \in Boxes \ {eng.h} : box'[d] = box[d]
    BY <1>1, CleanupSays DEF RemoveContainer, TypeInv
  <1>3. eng' = [eng EXCEPT !.pc = "settle"]
    BY DEF RemoveContainer
  <1>4. /\ eng' \in EngineRecord /\ eng'.pc = "settle" /\ eng'.payload = eng.payload
        /\ eng'.status = eng.status /\ eng'.verdict = eng.verdict
        /\ eng'.step = eng.step /\ eng'.attempt = eng.attempt /\ eng'.event = eng.event
        /\ eng'.h = eng.h
    BY <1>3 DEF TypeInv, TypeOK, EngineRecord
  <1>5. QED
    BY <1>1, <1>2, <1>4

LEMMA SettleSays ==
    ASSUME TypeInv, Settle
    PROVE  /\ eng.pc = "settle" /\ eng.step \in Steps /\ eng.attempt \in Attempts
           /\ UNCHANGED <<box, channel, token, stop>>
           /\ row' \in [Steps -> RowRecord] /\ row'[eng.step].result = eng.status
           /\ \A t \in Steps \ {eng.step} : row'[t] = row[t]
           /\ \/ EndRun("failed") /\ UNCHANGED count
              \/ eng.status \in Verdicts /\ EndRun("paused") /\ UNCHANGED count
              \/ /\ eng' \in EngineRecord
                 /\ eng'.event = eng.event /\ eng'.status = "none"
                 /\ eng'.payload = NoResult /\ eng'.verdict = NoResult
                 /\ \/ /\ eng'.pc = "attempt" /\ eng'.step = eng.step
                       /\ eng'.attempt = eng.attempt + 1 /\ eng'.attempt \in Attempts
                       /\ UNCHANGED <<run, count>>
                    \/ /\ eng'.pc = "loop" /\ run'.step = eng'.step /\ run' \in RunRecord
                       /\ run'.state = run.state /\ NewVisit
  <1>1. /\ eng.pc = "settle" /\ eng.step \in Steps /\ eng.attempt \in Attempts
        /\ eng.status \in Statuses
        /\ UNCHANGED <<box, channel, token, stop>>
    BY DEF Settle, TypeInv, Flow, InStep, WithBox, Judged
  <1> DEFINE s == eng.step
             st == eng.status
             target == Route[<<s, st>>]
             new == [row[s] EXCEPT !.exec = IF st \in Verdicts THEN "completed" ELSE "failed",
                                   !.result = st]
  <1>2. row[eng.step] \in RowRecord
    BY <1>1, RowFields DEF TypeInv
  <1>3. new \in RowRecord /\ new.result = st
    BY <1>1, <1>2 DEF RowRecord
  <1>4. row' = [row EXCEPT ![s] = new]
    BY <1>1 DEF Settle, TypeInv, TypeOK
  <1>5. /\ row' \in [Steps -> RowRecord] /\ row'[eng.step].result = eng.status
        /\ \A t \in Steps \ {eng.step} : row'[t] = row[t]
    <2> HIDE DEF new
    <2>1. QED
      BY <1>1, <1>3, <1>4, RowWriteSays DEF TypeInv
  <1>6. CASE /\ eng.attempt < MaxAttempts /\ UNCHANGED <<run, count>>
             /\ eng' = [Forget EXCEPT !.pc = "attempt", !.attempt = @ + 1]
    <2> DEFINE next == eng.attempt + 1
    <2>1. next \in Attempts /\ next \in 1..MaxAttempts + 1
      BY <1>1, <1>6, NextAttemptType
    <2>2. Forget.attempt = eng.attempt
      BY DEF Forget, TypeInv, TypeOK, EngineRecord
    <2>3. eng' = [Forget EXCEPT !.pc = "attempt", !.attempt = next]
      BY <1>6, <2>2
    <2> HIDE DEF next
    <2>4. /\ eng' \in EngineRecord /\ eng'.pc = "attempt" /\ eng'.attempt = next
          /\ eng'.step = eng.step /\ eng'.event = eng.event /\ eng'.status = "none"
          /\ eng'.payload = NoResult /\ eng'.verdict = NoResult
      BY <2>1, <2>3, NoResultType DEF Forget, TypeInv, TypeOK, EngineRecord
    <2>5. QED
      BY <1>1, <1>5, <1>6, <2>1, <2>4 DEF next
  <1>7. CASE EndRun("failed") /\ UNCHANGED count
    BY <1>1, <1>5, <1>7
  <1>8. CASE <<s, st>> \in Gates /\ EndRun("paused") /\ UNCHANGED count
    <2>1. st \in Verdicts
      BY <1>8, StepLoopAssumption
    <2>2. QED
      BY <1>1, <1>5, <1>8, <2>1
  <1>9. CASE /\ st \in Verdicts /\ ~DeadEnd(target)
             /\ run' = [run EXCEPT !.step = target]
             /\ eng' = [Forget EXCEPT !.pc = "loop", !.step = target, !.attempt = 1]
             /\ NewVisit
    <2>1. <<s, st>> \in Steps \X Verdicts
      BY <1>1, <1>9
    <2>2. target \in Steps \cup {DONE, NoRoute}
      BY <2>1, StepLoopAssumption
    <2> HIDE DEF target
    <2>3. target \in 1..DONE
      BY <1>9, <2>2, Bounds DEF DeadEnd
    <2>4. run' \in RunRecord /\ run'.state = run.state /\ run'.step = target
      BY <1>9, <2>3 DEF RunRecord, TypeInv, TypeOK
    <2>5. /\ eng' \in EngineRecord /\ eng'.pc = "loop" /\ eng'.step = target
          /\ eng'.event = eng.event /\ eng'.status = "none"
          /\ eng'.payload = NoResult /\ eng'.verdict = NoResult
      BY <1>9, <2>3, Bounds, NoResultType DEF Forget, TypeInv, TypeOK, EngineRecord
    <2>6. QED
      BY <1>1, <1>5, <1>9, <2>4, <2>5
  <1>10. QED
    BY <1>6, <1>7, <1>8, <1>9 DEF Settle

LEMMA FinishSays ==
    ASSUME TypeInv, Finish
    PROVE  /\ eng.pc = "finish" /\ UNCHANGED <<run, row, box, channel, stop, count>>
           /\ eng' = Memory("idle")
           /\ token' \in TokenRecord
  BY DEF Finish, TypeInv, TypeOK, TokenRecord

LEMMA PublishSays ==
    ASSUME TypeInv, NEW c \in Boxes, Publish(c)
    PROVE  /\ box[c].state = "running" /\ UNCHANGED <<run, row, token, eng, stop, count>>
           /\ box' \in [Boxes -> BoxRecord] /\ box'[c].state = "published"
           /\ box'[c].visit = box[c].visit
           /\ \A d \in Boxes \ {c} : box'[d] = box[d]
           /\ channel' \in [Steps -> [Attempts -> Results]]
           /\ channel'[c[1]][c[2]] # NoResult
           /\ channel'[c[1]][c[2]].by = c /\ channel'[c[1]][c[2]].visit = box[c].visit
           /\ \A t \in Steps, b \in Attempts :
                t # c[1] \/ b # c[2] => channel'[t][b] = channel[t][b]
  <1>1. box[c].state = "running" /\ UNCHANGED <<run, row, token, eng, stop, count>>
    BY DEF Publish
  <1>2. box[c] \in BoxRecord /\ box[c].visit \in Nat
    BY BoxFields DEF TypeInv
  <1> DEFINE new == [box[c] EXCEPT !.state = "published"]
  <1>3. new \in BoxRecord /\ new.state = "published" /\ new.visit = box[c].visit
    BY <1>2 DEF BoxRecord
  <1>4. box' = [box EXCEPT ![c] = new]
    BY DEF Publish
  <1>5. /\ box' \in [Boxes -> BoxRecord] /\ box'[c] = new
        /\ \A d \in Boxes \ {c} : box'[d] = box[d]
    <2> HIDE DEF new
    <2>1. QED
      BY <1>3, <1>4, BoxWriteSays DEF TypeInv
  <1>6. PICK status \in Reports :
          channel' = [channel EXCEPT ![c[1]][c[2]] =
                        [status |-> status, by |-> c, visit |-> box[c].visit]]
    BY DEF Publish
  <1> DEFINE r == [status |-> status, by |-> c, visit |-> box[c].visit]
  <1>7. r \in Results /\ r # NoResult /\ r.by = c /\ r.visit = box[c].visit
    <2>1. r \in Results /\ r.by = c /\ r.visit = box[c].visit
      BY <1>2 DEF Results
    <2>2. NoResult.by = NoBox /\ c # NoBox
      BY BoxParts DEF NoResult
    <2>3. QED
      BY <2>1, <2>2
  <1>8. c[1] \in Steps /\ c[2] \in Attempts
    BY BoxParts
  <1>9. channel' = [channel EXCEPT ![c[1]][c[2]] = r]
    BY <1>6
  <1> HIDE DEF r, new
  <1>10. /\ channel' \in [Steps -> [Attempts -> Results]] /\ channel'[c[1]][c[2]] = r
         /\ \A t \in Steps, b \in Attempts :
              t # c[1] \/ b # c[2] => channel'[t][b] = channel[t][b]
    <2> DEFINE Shape(s, a) ==
          /\ channel' \in [Steps -> [Attempts -> Results]] /\ channel'[s][a] = r
          /\ \A t \in Steps, b \in Attempts :
               t # s \/ b # a => channel'[t][b] = channel[t][b]
    <2>1. ASSUME NEW s \in Steps, NEW a \in Attempts, channel' = [channel EXCEPT ![s][a] = r]
          PROVE  Shape(s, a)
      <3>1. TypeOK /\ r \in Results /\ Puts(s, a, r)
        BY <1>7, <2>1 DEF TypeInv, Puts
      <3>2. QED
        BY <3>1, PutsSays
    <2> HIDE DEF Shape
    <2>2. Shape(c[1], c[2])
      BY <1>8, <1>9, <2>1
    <2>3. QED
      BY <2>2 DEF Shape
  <1>11. QED
    BY <1>1, <1>3, <1>5, <1>7, <1>10

LEMMA ExitSays ==
    ASSUME TypeInv, NEW c \in Boxes, Exit(c)
    PROVE  /\ box[c].state \in {"running", "published"}
           /\ UNCHANGED <<run, row, channel, token, eng, stop, count>>
           /\ box' \in [Boxes -> BoxRecord]
           /\ box'[c].state \in {"exited", "crashed", "gone"}
           /\ box'[c].state # "gone" => box'[c].visit = box[c].visit
           /\ \A d \in Boxes \ {c} : box'[d] = box[d]
  <1>1. /\ box[c].state \in {"running", "published"}
        /\ UNCHANGED <<run, row, channel, token, eng, stop, count>>
    BY DEF Exit, Running
  <1>2. box[c] \in BoxRecord
    BY BoxFields DEF TypeInv
  <1>3. ASSUME NEW state \in {"exited", "crashed"}, box' = [box EXCEPT ![c].state = state]
        PROVE  /\ box' \in [Boxes -> BoxRecord] /\ box'[c].state = state
               /\ box'[c].visit = box[c].visit
               /\ \A d \in Boxes \ {c} : box'[d] = box[d]
    <2> DEFINE new == [box[c] EXCEPT !.state = state]
    <2>1. new \in BoxRecord /\ new.state = state /\ new.visit = box[c].visit
      BY <1>2 DEF BoxRecord
    <2>2. box' = [box EXCEPT ![c] = new]
      BY <1>3
    <2> HIDE DEF new
    <2>3. QED
      BY <2>1, <2>2, BoxWriteSays DEF TypeInv
  <1>4. CASE \E state \in {"exited", "crashed"} : box' = [box EXCEPT ![c].state = state]
    BY <1>1, <1>3, <1>4
  <1>5. CASE box' = Remove(c)
    BY <1>1, <1>5, RemoveSays DEF TypeInv
  <1>6. QED
    BY <1>4, <1>5 DEF Exit

LEMMA DecideSays ==
    ASSUME TypeInv, Decide
    PROVE  /\ run.state = "paused" /\ token.state = "none"
           /\ UNCHANGED <<run, row, box, channel, eng, stop>>
           /\ token' \in TokenRecord
           /\ count' \in [crashes: Nat, decisions: Nat, visits: Nat, launches: Nat]
           /\ count'.crashes = count.crashes /\ count'.visits = count.visits
           /\ count'.launches = count.launches
  <1>1. token' \in TokenRecord
    BY Bounds DEF Decide, TokenRecord
  <1> DEFINE next == count.decisions + 1
  <1>2. /\ next \in Nat
        /\ count \in [crashes: Nat, decisions: Nat, visits: Nat, launches: Nat]
    BY RunFields DEF TypeInv, TypeOK
  <1>3. count' = [count EXCEPT !.decisions = next]
    BY DEF Decide
  <1> HIDE DEF next
  <1>4. QED
    BY <1>1, <1>2, <1>3 DEF Decide

LEMMA SignalStopSays ==
    ASSUME TypeInv, SignalStop
    PROVE  /\ stop = "requested" /\ Driving
           /\ UNCHANGED <<run, row, box, channel, token, stop, count>>
           /\ eng' \in EngineRecord /\ eng'.event = TRUE
           /\ eng'.pc = eng.pc /\ eng'.step = eng.step /\ eng'.attempt = eng.attempt
           /\ eng'.resuming = eng.resuming /\ eng'.h = eng.h /\ eng'.payload = eng.payload
           /\ eng'.status = eng.status /\ eng'.verdict = eng.verdict
           /\ eng'.visits = eng.visits
  BY DEF SignalStop, TypeInv, TypeOK, EngineRecord

LEMMA ForceStopSays ==
    ASSUME TypeInv, ForceStop
    PROVE  /\ stop = "requested" /\ Driving /\ stop' = "done"
           /\ UNCHANGED <<row, box, channel, token, eng, count>>
           /\ run' \in RunRecord /\ run'.state = "cancelled" /\ run'.step = run.step
  BY DEF ForceStop, TypeInv, TypeOK, RunRecord, Terminal

LEMMA RecordStopSays ==
    ASSUME TypeInv, RecordStop
    PROVE  /\ stop = "requested" /\ eng.pc = "idle" /\ stop' = "done"
           /\ UNCHANGED <<row, box, channel, eng, count>>
           /\ token' \in TokenRecord /\ token'.state \in {token.state, "none"}
           /\ run' \in RunRecord /\ run'.step = run.step
           /\ \/ UNCHANGED run /\ run.state \in Terminal
              \/ run.state \notin Terminal /\ run'.state = "cancelled"
  <1>1. token' \in TokenRecord /\ token'.state \in {token.state, "none"}
    BY DEF RecordStop, TypeInv, TypeOK, TokenRecord
  <1>2. /\ run' \in RunRecord /\ run'.step = run.step
        /\ \/ UNCHANGED run /\ run.state \in Terminal
           \/ run.state \notin Terminal /\ run'.state = "cancelled"
    BY DEF RecordStop, Over, TypeInv, TypeOK, RunRecord, Terminal
  <1>3. QED
    BY <1>1, <1>2 DEF RecordStop

LEMMA CrashSays ==
    ASSUME TypeInv, Crash
    PROVE  /\ UNCHANGED <<run, row, box, channel, stop>>
           /\ eng.pc = "commit" => "window" \in Allowed
           /\ eng' = Memory("down") /\ token' \in TokenRecord
           /\ count' \in [crashes: Nat, decisions: Nat, visits: Nat, launches: Nat]
           /\ count'.crashes = count.crashes + 1 /\ count'.visits = count.visits
           /\ count'.launches = count.launches
  <1>1. token' \in TokenRecord
    BY DEF Crash, TypeInv, TypeOK, TokenRecord
  <1> DEFINE next == count.crashes + 1
  <1>2. /\ next \in Nat
        /\ count \in [crashes: Nat, decisions: Nat, visits: Nat, launches: Nat]
    BY RunFields DEF TypeInv, TypeOK
  <1>3. count' = [count EXCEPT !.crashes = next]
    BY DEF Crash
  <1> HIDE DEF next
  <1>4. /\ count' \in [crashes: Nat, decisions: Nat, visits: Nat, launches: Nat]
        /\ count'.crashes = next /\ count'.visits = count.visits
        /\ count'.launches = count.launches
    BY <1>2, <1>3
  <1>5. QED
    BY <1>1, <1>4 DEF Crash, next

LEMMA RestartSays ==
    ASSUME TypeInv, Restart
    PROVE  /\ eng.pc = "down" /\ UNCHANGED <<run, row, box, channel, stop, count>>
           /\ eng' = Memory("idle") /\ token' \in TokenRecord
  BY Bounds DEF Restart, TypeInv, TypeOK, TokenRecord

LEMMA ReapClaimSays ==
    ASSUME TypeInv, ReapClaim
    PROVE  /\ token.state = "orphaned" /\ UNCHANGED <<run, row, box, channel, eng, stop, count>>
           /\ token' \in TokenRecord
  BY DEF ReapClaim, TypeInv, TypeOK, TokenRecord

-----------------------------------------------------------------------------
\* Type correctness.

LEMMA TypeInit == Init => TypeInv
  <1> SUFFICES ASSUME Init PROVE TypeInv
    OBVIOUS
  <1>1. run \in RunRecord /\ run.state = "pending"
    BY Bounds DEF Init, RunRecord
  <1>2. row \in [Steps -> RowRecord]
    <2>1. [exec |-> "pending", attempt |-> 1, result |-> "none", arn |-> NoBox] \in RowRecord
      BY Bounds DEF RowRecord
    <2>2. QED
      BY <2>1 DEF Init
  <1>3. box \in [Boxes -> BoxRecord]
    <2>1. GoneBox \in BoxRecord
      BY DEF GoneBox, BoxRecord
    <2>2. QED
      BY <2>1 DEF Init
  <1>4. channel \in [Steps -> [Attempts -> Results]]
    BY NoResultType DEF Init
  <1>5. token \in TokenRecord
    BY Bounds DEF Init, TokenRecord
  <1>6. eng \in EngineRecord /\ eng.pc = "idle"
    BY MemoryType DEF Init
  <1>7. /\ stop \in {"none", "requested", "done"}
        /\ count \in [crashes: Nat, decisions: Nat, visits: Nat, launches: Nat]
    BY DEF Init
  <1>8. Flow
    BY <1>1, <1>6 DEF Flow, Driving, InStep, Seeking, WithBox, Judged
  <1>9. QED
    BY <1>1, <1>2, <1>3, <1>4, <1>5, <1>6, <1>7, <1>8 DEF TypeInv, TypeOK

\* A dispatch that has ended the run keeps the shape.
LEMMA EndRunType ==
    ASSUME TypeInv, NEW state \in Terminal \cup {"paused"}, EndRun(state),
           Driving, UNCHANGED <<token, stop>>,
           row' \in [Steps -> RowRecord], box' \in [Boxes -> BoxRecord],
           channel' \in [Steps -> [Attempts -> Results]],
           count' \in [crashes: Nat, decisions: Nat, visits: Nat, launches: Nat],
           state = "paused" => run.step \in Steps /\ row'[run.step].result \in Verdicts
    PROVE  TypeInv'
  <1>1. /\ run' \in RunRecord /\ run'.state = state /\ run'.step = run.step
        /\ eng' \in EngineRecord /\ eng'.pc = "finish"
    BY EndRunSays DEF TypeInv
  <1>2. Flow'
    BY <1>1 DEF TypeInv, Flow, Driving, InStep, Seeking, WithBox, Judged, Unfinished, Terminal
  <1>3. TypeOK'
    BY <1>1 DEF TypeInv, TypeOK
  <1>4. QED
    BY <1>2, <1>3 DEF TypeInv

LEMMA TypeNext == TypeInv /\ [Next]_vars => TypeInv'
  <1> SUFFICES ASSUME TypeInv, [Next]_vars PROVE TypeInv'
    OBVIOUS
  <1> USE DEF Driving, InStep, Seeking, WithBox, Judged, Unfinished
  <1>1. CASE Begin
    BY <1>1, BeginSays, NewVisitSays DEF TypeInv, TypeOK, Flow, Terminal
  <1>2. CASE Loop
    BY <1>2, LoopSays, EndRunType, FirstAttemptType DEF TypeInv, TypeOK, Flow, Terminal
  <1>3. CASE StartAttempt
    BY <1>3, StartAttemptSays, RowFields DEF TypeInv, TypeOK, Flow
  <1>4. CASE Attach
    BY <1>4, AttachSays DEF TypeInv, TypeOK, Flow
  <1>5. CASE Prepare
    BY <1>5, PrepareSays, EndRunType DEF TypeInv, TypeOK, Flow, Terminal
  <1>6. CASE Launch
    BY <1>6, LaunchSays, EndRunType DEF TypeInv, TypeOK, Flow, Terminal
  <1>7. CASE CommitHandle
    BY <1>7, CommitHandleSays DEF TypeInv, TypeOK, Flow
  <1>8. CASE Reconcile
    BY <1>8, ReconcileSays DEF TypeInv, TypeOK, Flow
  <1>9. CASE Judge
    BY <1>9, JudgeSays DEF TypeInv, TypeOK, Flow
  <1>10. CASE CancelStep
    BY <1>10, CancelStepSays, EndRunType DEF TypeInv, TypeOK, Flow, Terminal
  <1>11. CASE RemoveContainer
    BY <1>11, RemoveContainerSays DEF TypeInv, TypeOK, Flow
  <1>12. CASE Settle
    BY <1>12, SettleSays, EndRunType, NewVisitSays DEF TypeInv, TypeOK, Flow, Terminal
  <1>13. CASE Finish
    BY <1>13, FinishSays, MemoryType DEF TypeInv, TypeOK, Flow
  <1>14. CASE ReadChannel
    BY <1>14, ReadChannelSays DEF TypeInv, TypeOK, Flow
  <1>15. CASE SignalStop
    BY <1>15, SignalStopSays DEF TypeInv, TypeOK, Flow
  <1>16. CASE ForceStop
    BY <1>16, ForceStopSays DEF TypeInv, TypeOK, Flow
  <1>17. CASE RecordStop
    BY <1>17, RecordStopSays DEF TypeInv, TypeOK, Flow
  <1>18. CASE Restart
    BY <1>18, RestartSays, MemoryType DEF TypeInv, TypeOK, Flow
  <1>19. CASE ReapClaim
    BY <1>19, ReapClaimSays DEF TypeInv, TypeOK, Flow
  <1>20. ASSUME NEW c \in Boxes, Publish(c) PROVE TypeInv'
    BY <1>20, PublishSays DEF TypeInv, TypeOK, Flow
  <1>21. ASSUME NEW c \in Boxes, Exit(c) PROVE TypeInv'
    BY <1>21, ExitSays DEF TypeInv, TypeOK, Flow
  <1>22. CASE Decide
    BY <1>22, DecideSays DEF TypeInv, TypeOK, Flow
  <1>23. CASE RequestStop
    BY <1>23 DEF RequestStop, TypeInv, TypeOK, Flow
  <1>24. CASE Crash
    BY <1>24, CrashSays, MemoryType DEF TypeInv, TypeOK, Flow
  <1>25. CASE UNCHANGED vars
    BY <1>25 DEF vars, TypeInv, TypeOK, Flow
  <1>26. QED
    BY <1>1, <1>2, <1>3, <1>4, <1>5, <1>6, <1>7, <1>8, <1>9, <1>10, <1>11, <1>12, <1>13,
       <1>14, <1>15, <1>16, <1>17, <1>18, <1>19, <1>20, <1>21, <1>22, <1>23, <1>24, <1>25
       DEF Next, Engine, Worker, Agent, User

\* Rows, containers, result objects and the dispatch's memory keep their shape whatever
\* happens: inside a step the engine always has a step and an attempt within the budget,
\* and a container once one was launched or re-attached.
THEOREM TypeCorrect == Spec => []TypeOK
  <1>1. TypeInv => TypeOK
    BY DEF TypeInv
  <1>2. QED
    BY TypeInit, TypeNext, <1>1, PTL DEF Spec

-----------------------------------------------------------------------------
\* The refinement of RunLifecycle.

\* Whatever makes the engine cancel a run goes back to somebody's stop request: the
\* event, a verdict of reconcile, a step being stopped, a run already cancelled.
StopAsked ==
    eng.event \/ eng.status = "__cancelled__" \/ eng.pc = "stopped" \/ run.state = "cancelled"
    => stop # "none"

LEMMA StopInit == Init => StopAsked
  <1> SUFFICES ASSUME Init PROVE StopAsked
    OBVIOUS
  <1>1. eng.event = FALSE /\ eng.status = "none" /\ eng.pc = "idle"
    BY MemoryType DEF Init
  <1>2. run.state = "pending"
    BY DEF Init
  <1>3. QED
    BY <1>1, <1>2 DEF StopAsked

LEMMA StopNext == TypeInv /\ StopAsked /\ [Next]_vars => StopAsked'
  <1> SUFFICES ASSUME TypeInv, StopAsked, [Next]_vars PROVE StopAsked'
    OBVIOUS
  <1> USE DEF StopAsked
  <1>0. ASSUME NEW state \in Terminal \cup {"paused"}, EndRun(state), UNCHANGED stop,
               state = "cancelled" => stop # "none"
        PROVE  StopAsked'
    BY <1>0, EndRunSays DEF TypeInv
  <1>1. CASE Begin
    BY <1>1, BeginSays DEF Terminal, Unfinished
  <1>2. CASE Loop
    BY <1>2, <1>0, LoopSays DEF Terminal
  <1>3. CASE StartAttempt
    BY <1>3, StartAttemptSays
  <1>4. CASE Attach
    BY <1>4, AttachSays
  <1>5. CASE Prepare
    BY <1>5, <1>0, PrepareSays DEF Terminal
  <1>6. CASE Launch
    BY <1>6, <1>0, LaunchSays DEF Terminal
  <1>7. CASE CommitHandle
    BY <1>7, CommitHandleSays
  <1>8. CASE Reconcile
    BY <1>8, ReconcileSays
  <1>9. CASE Judge
    BY <1>9, JudgeSays
  <1>10. CASE CancelStep
    BY <1>10, <1>0, CancelStepSays DEF Terminal
  <1>11. CASE RemoveContainer
    BY <1>11, RemoveContainerSays
  <1>12. CASE Settle
    BY <1>12, <1>0, SettleSays DEF Terminal
  <1>13. CASE Finish
    BY <1>13, FinishSays, MemoryType
  <1>14. CASE ReadChannel
    BY <1>14, ReadChannelSays
  <1>15. CASE SignalStop
    BY <1>15, SignalStopSays
  <1>16. CASE ForceStop
    BY <1>16, ForceStopSays
  <1>17. CASE RecordStop
    BY <1>17, RecordStopSays
  <1>18. CASE Restart
    BY <1>18, RestartSays, MemoryType
  <1>19. CASE ReapClaim
    BY <1>19, ReapClaimSays
  <1>20. ASSUME NEW c \in Boxes, Publish(c) PROVE StopAsked'
    BY <1>20, PublishSays
  <1>21. ASSUME NEW c \in Boxes, Exit(c) PROVE StopAsked'
    BY <1>21, ExitSays
  <1>22. CASE Decide
    BY <1>22, DecideSays
  <1>23. CASE RequestStop
    BY <1>23 DEF RequestStop
  <1>24. CASE Crash
    BY <1>24, CrashSays, MemoryType
  <1>25. CASE UNCHANGED vars
    BY <1>25 DEF vars
  <1>26. QED
    BY <1>1, <1>2, <1>3, <1>4, <1>5, <1>6, <1>7, <1>8, <1>9, <1>10, <1>11, <1>12, <1>13,
       <1>14, <1>15, <1>16, <1>17, <1>18, <1>19, <1>20, <1>21, <1>22, <1>23, <1>24, <1>25
       DEF Next, Engine, Worker, Agent, User

\* The dispatch that has taken the run, as RunLifecycle sees it.
Holder == IF Driving /\ eng.pc # "finish" THEN "dispatch" ELSE NoDispatch

LEMMA HolderSays ==
    /\ eng.pc \in {"down", "idle", "finish"} => Holder = NoDispatch
    /\ eng.pc \notin {"down", "idle", "finish"} => Holder = "dispatch"
    /\ NoDispatch # "dispatch"
  BY DEF Holder, Driving, NoDispatch

\* A step that moves the run as a driver may, or leaves it alone.
LEMMA DriveStep ==
    ASSUME UNCHANGED stop, Holder \in {"dispatch", NoDispatch},
           Holder' \in {"dispatch", NoDispatch},
           \/ run'.state = run.state
           \/ <<run.state, run'.state>> \in Lifecycle!Moves,
           Holder = NoDispatch => run.state \notin Terminal,
           run'.state = "cancelled" => (stop # "none") \/ run.state = "cancelled"
    PROVE  Lifecycle!Drive
  BY HolderSays DEF Lifecycle!Drive, Lifecycle!Finished, Terminal, Holder, Dispatches, NoDispatch

LEMMA SameStep ==
    ASSUME UNCHANGED <<stop, Holder>>, run'.state = run.state
    PROVE  UNCHANGED Lifecycle!vars
  BY DEF Lifecycle!vars, Holder

\* Ending the run is a move of its driver.
LEMMA EndRunStep ==
    ASSUME TypeInv, StopAsked, NEW state \in Terminal \cup {"paused"}, EndRun(state),
           eng.pc \in InStep \cup {"loop"}, UNCHANGED stop,
           state = "cancelled" => stop # "none"
    PROVE  Lifecycle!Next
  <1>1. run'.state = state /\ eng'.pc = "finish"
    BY EndRunSays DEF TypeInv
  <1>2. run.state \in {"running", "cancelled"}
    BY DEF TypeInv, Flow
  <1>3. Holder = "dispatch" /\ Holder' = NoDispatch
    BY <1>1, HolderSays DEF Holder, Driving, InStep, Seeking, WithBox, Judged
  <1>4. <<run.state, run'.state>> \in Lifecycle!Moves \/ run'.state = run.state
    BY <1>1, <1>2 DEF Lifecycle!Moves, Terminal
  <1>5. Lifecycle!Drive
    BY <1>1, <1>3, <1>4, DriveStep, HolderSays
  <1>6. QED
    BY <1>5 DEF Lifecycle!Next

LEMMA LifecycleInit == Init => Lifecycle!Init
  <1> SUFFICES ASSUME Init PROVE Lifecycle!Init
    OBVIOUS
  <1>1. eng.pc = "idle" /\ run.state = "pending" /\ stop = "none"
    BY MemoryType DEF Init
  <1>2. QED
    BY <1>1 DEF Lifecycle!Init, Driving

LEMMA LifecycleNext == TypeInv /\ StopAsked /\ [Next]_vars => [Lifecycle!Next]_(Lifecycle!vars)
  <1> SUFFICES ASSUME TypeInv, StopAsked, [Next]_vars
               PROVE  Lifecycle!Next \/ UNCHANGED Lifecycle!vars
    OBVIOUS
  <1> USE DEF Holder, Driving, InStep, Seeking, WithBox, Judged
  \* Within a step the driver keeps the run, and the run keeps its state.
  <1>0. ASSUME UNCHANGED <<stop>>, run'.state = run.state,
               eng.pc \in InStep \cup {"loop"}, eng'.pc \in InStep \cup {"loop"}
        PROVE  UNCHANGED Lifecycle!vars
    BY <1>0, SameStep
  <1>1. CASE Begin
    <2>1. eng.pc = "idle" /\ UNCHANGED stop
      BY <1>1, BeginSays
    <2>2. CASE eng'.pc = "finish" /\ run' = run
      BY <2>1, <2>2, SameStep
    <2>3. CASE eng'.pc = "finish" /\ run.state = "paused" /\ run'.state = "failed"
      <3>1. <<run.state, run'.state>> \in Lifecycle!Moves
        BY <2>3 DEF Lifecycle!Moves
      <3>2. Lifecycle!Drive
        BY <2>1, <2>3, <3>1, DriveStep, HolderSays DEF Terminal
      <3>3. QED
        BY <3>2 DEF Lifecycle!Next
    <2>4. CASE /\ eng'.pc = "loop" /\ run'.state = "running"
               /\ run.state \in {"pending", "running", "paused"}
      <3>1. <<run.state, run'.state>> \in Lifecycle!Moves \/ run'.state = run.state
        BY <2>4 DEF Lifecycle!Moves
      <3>2. Lifecycle!Drive
        BY <2>1, <2>4, <3>1, DriveStep, HolderSays DEF Terminal
      <3>3. QED
        BY <3>2 DEF Lifecycle!Next
    <2>5. QED
      BY <1>1, <2>2, <2>3, <2>4, BeginSays DEF Unfinished
  <1>2. CASE Loop
    <2>1. CASE (eng.event \/ run.state = "cancelled") /\ EndRun("cancelled")
      BY <1>2, <2>1, LoopSays, EndRunStep DEF StopAsked, Terminal
    <2>2. CASE EndRun("completed") \/ EndRun("failed")
      BY <1>2, <2>2, LoopSays, EndRunStep DEF Terminal
    <2>3. CASE UNCHANGED run /\ eng'.pc = "attempt"
      BY <1>0, <1>2, <2>3, LoopSays
    <2>4. QED
      BY <1>2, <2>1, <2>2, <2>3, LoopSays
  <1>3. CASE StartAttempt
    BY <1>0, <1>3, StartAttemptSays
  <1>4. CASE Attach
    BY <1>0, <1>4, AttachSays
  <1>5. CASE Prepare
    <2>1. CASE EndRun("failed")
      BY <1>5, <2>1, PrepareSays, EndRunStep DEF Terminal
    <2>2. CASE ~EndRun("failed")
      BY <1>0, <1>5, <2>2, PrepareSays
    <2>3. QED
      BY <2>1, <2>2
  <1>6. CASE Launch
    <2>1. CASE EndRun("failed")
      BY <1>6, <2>1, LaunchSays, EndRunStep DEF Terminal
    <2>2. CASE ~EndRun("failed")
      BY <1>0, <1>6, <2>2, LaunchSays
    <2>3. QED
      BY <2>1, <2>2
  <1>7. CASE CommitHandle
    BY <1>0, <1>7, CommitHandleSays
  <1>8. CASE Reconcile
    BY <1>0, <1>8, ReconcileSays
  <1>9. CASE Judge
    BY <1>0, <1>9, JudgeSays
  <1>10. CASE CancelStep
    BY <1>10, CancelStepSays, EndRunStep DEF StopAsked, Terminal
  <1>11. CASE RemoveContainer
    BY <1>0, <1>11, RemoveContainerSays
  <1>12. CASE Settle
    <2>1. CASE EndRun("failed") \/ EndRun("paused")
      BY <1>12, <2>1, SettleSays, EndRunStep DEF Terminal
    <2>2. CASE ~(EndRun("failed") \/ EndRun("paused"))
      BY <1>0, <1>12, <2>2, SettleSays
    <2>3. QED
      BY <2>1, <2>2
  <1>13. CASE Finish
    BY <1>13, FinishSays, MemoryType, SameStep
  <1>14. CASE ReadChannel
    BY <1>0, <1>14, ReadChannelSays
  <1>15. CASE SignalStop
    BY <1>15, SignalStopSays, SameStep
  <1>16. CASE ForceStop
    BY <1>16, ForceStopSays DEF Lifecycle!Next, Lifecycle!RecordStop
  <1>17. CASE RecordStop
    <2>1. /\ stop # "none" /\ stop' # "none" /\ UNCHANGED eng
          /\ \/ UNCHANGED run
             \/ run'.state = "cancelled"
      BY <1>17, RecordStopSays
    <2>2. CASE UNCHANGED run
      BY <2>1, <2>2 DEF Lifecycle!vars
    <2>3. CASE run'.state = "cancelled"
      BY <2>1, <2>3 DEF Lifecycle!Next, Lifecycle!RecordStop
    <2>4. QED
      BY <2>1, <2>2, <2>3
  <1>18. CASE Restart
    BY <1>18, RestartSays, MemoryType, SameStep
  <1>19. CASE ReapClaim
    BY <1>19, ReapClaimSays, SameStep
  <1>20. ASSUME NEW c \in Boxes, Publish(c) PROVE UNCHANGED Lifecycle!vars
    BY <1>20, PublishSays, SameStep
  <1>21. ASSUME NEW c \in Boxes, Exit(c) PROVE UNCHANGED Lifecycle!vars
    BY <1>21, ExitSays, SameStep
  <1>22. CASE Decide
    BY <1>22, DecideSays, SameStep
  <1>23. CASE RequestStop
    BY <1>23 DEF RequestStop, Lifecycle!Next, Lifecycle!RequestStop
  <1>24. CASE Crash
    <2>1. UNCHANGED <<run, stop>> /\ Holder' = NoDispatch
      BY <1>24, CrashSays, MemoryType
    <2>2. CASE Holder = NoDispatch
      BY <2>1, <2>2, SameStep
    <2>3. CASE Holder = "dispatch"
      <3>1. Lifecycle!Drive
        BY <2>1, <2>3, DriveStep, HolderSays
      <3>2. QED
        BY <3>1 DEF Lifecycle!Next
    <2>4. QED
      BY <2>2, <2>3
  <1>25. CASE UNCHANGED vars
    BY <1>25, SameStep DEF vars
  <1>26. QED
    BY <1>1, <1>2, <1>3, <1>4, <1>5, <1>6, <1>7, <1>8, <1>9, <1>10, <1>11, <1>12, <1>13,
       <1>14, <1>15, <1>16, <1>17, <1>18, <1>19, <1>20, <1>21, <1>22, <1>23, <1>24, <1>25
       DEF Next, Engine, Worker, Agent, User

\* The step loop implements the abstract life of a run: its retries, gates, send-backs,
\* failures, stops and crashes move runs.state only as a single driver may, it never
\* cancels a run nobody asked to stop, and never takes up a finished one.
THEOREM LoopImplementsLifecycle == Spec => ImplementsLifecycle
  <1>1. Init => Lifecycle!Init
    BY LifecycleInit
  <1>2. QED
    BY <1>1, TypeInit, TypeNext, StopInit, StopNext, LifecycleNext, PTL
       DEF Spec, ImplementsLifecycle, Lifecycle!Spec

-----------------------------------------------------------------------------
\* The launch budget.

\* The row is ahead of the container: the attempt is committed before anything runs,
\* the handle before anything is reconciled.
RowFollows ==
    /\ eng.pc \in {"attach", "prepare", "launch"} \cup WithBox =>
         row[eng.step].exec = "running" /\ row[eng.step].attempt = eng.attempt
    /\ eng.pc \in WithBox \ {"commit"} => row[eng.step].arn = eng.h

LEMMA FollowsInit == Init => RowFollows
  <1> SUFFICES ASSUME Init PROVE RowFollows
    OBVIOUS
  <1>1. eng.pc = "idle"
    BY MemoryType DEF Init
  <1>2. QED
    BY <1>1 DEF RowFollows, WithBox, Judged

LEMMA FollowsNext == TypeInv /\ RowFollows /\ [Next]_vars => RowFollows'
  <1> SUFFICES ASSUME TypeInv, RowFollows, [Next]_vars PROVE RowFollows'
    OBVIOUS
  <1> USE DEF RowFollows, WithBox, Judged
  <1>0. ASSUME NEW state \in Terminal \cup {"paused"}, EndRun(state) PROVE RowFollows'
    BY <1>0, EndRunSays DEF TypeInv
  <1>1. CASE Begin
    BY <1>1, BeginSays
  <1>2. CASE Loop
    BY <1>0, <1>2, LoopSays DEF Terminal
  <1>3. CASE StartAttempt
    BY <1>3, StartAttemptSays
  <1>4. CASE Attach
    BY <1>4, AttachSays
  <1>5. CASE Prepare
    BY <1>0, <1>5, PrepareSays DEF Terminal
  <1>6. CASE Launch
    BY <1>0, <1>6, LaunchSays DEF Terminal
  <1>7. CASE CommitHandle
    BY <1>7, CommitHandleSays
  <1>8. CASE Reconcile
    BY <1>8, ReconcileSays
  <1>9. CASE Judge
    BY <1>9, JudgeSays
  <1>10. CASE CancelStep
    BY <1>0, <1>10, CancelStepSays DEF Terminal
  <1>11. CASE RemoveContainer
    BY <1>11, RemoveContainerSays
  <1>12. CASE Settle
    BY <1>0, <1>12, SettleSays DEF Terminal
  <1>13. CASE Finish
    BY <1>13, FinishSays, MemoryType
  <1>14. CASE ReadChannel
    BY <1>14, ReadChannelSays
  <1>15. CASE SignalStop
    BY <1>15, SignalStopSays
  <1>16. CASE ForceStop
    BY <1>16, ForceStopSays
  <1>17. CASE RecordStop
    BY <1>17, RecordStopSays
  <1>18. CASE Restart
    BY <1>18, RestartSays, MemoryType
  <1>19. CASE ReapClaim
    BY <1>19, ReapClaimSays
  <1>20. ASSUME NEW c \in Boxes, Publish(c) PROVE RowFollows'
    BY <1>20, PublishSays
  <1>21. ASSUME NEW c \in Boxes, Exit(c) PROVE RowFollows'
    BY <1>21, ExitSays
  <1>22. CASE Decide
    BY <1>22, DecideSays
  <1>23. CASE RequestStop
    BY <1>23 DEF RequestStop
  <1>24. CASE Crash
    BY <1>24, CrashSays, MemoryType
  <1>25. CASE UNCHANGED vars
    BY <1>25 DEF vars
  <1>26. QED
    BY <1>1, <1>2, <1>3, <1>4, <1>5, <1>6, <1>7, <1>8, <1>9, <1>10, <1>11, <1>12, <1>13,
       <1>14, <1>15, <1>16, <1>17, <1>18, <1>19, <1>20, <1>21, <1>22, <1>23, <1>24, <1>25
       DEF Next, Engine, Worker, Agent, User

\* What a crash may cost: the attempt it interrupts, or the count of the attempts.
PerCrash == Max({1, MaxAttempts - 1})
Slack == count.crashes * PerCrash

LEMMA PerCrashSays == PerCrash \in Nat /\ PerCrash >= 1 /\ PerCrash >= MaxAttempts - 1
  <1> DEFINE S == {1, MaxAttempts - 1}
  <1>1. MaxAttempts - 1 \in Nat
    BY StepLoopAssumption
  <1>2. \E x \in S : \A y \in S : x >= y
    <2>1. CASE 1 >= MaxAttempts - 1
      BY <1>1, <2>1
    <2>2. CASE ~(1 >= MaxAttempts - 1)
      BY <1>1, <2>2
    <2>3. QED
      BY <2>1, <2>2
  <1>3. PerCrash \in S /\ \A y \in S : PerCrash >= y
    BY <1>2 DEF PerCrash, Max
  <1>4. QED
    BY <1>1, <1>3

LEMMA SlackSays ==
    ASSUME TypeOK
    PROVE  /\ Slack \in Nat
           /\ count'.crashes = count.crashes => Slack' = Slack
           /\ count'.crashes = count.crashes + 1 => Slack' = Slack + PerCrash
  <1>1. count.crashes \in Nat /\ PerCrash \in Nat
    BY RunFields, PerCrashSays
  <1>2. \A n, k \in Nat : n * k \in Nat /\ (n + 1) * k = n * k + k
    OBVIOUS
  <1>3. PerCrash' = PerCrash
    BY DEF PerCrash
  <1>4. QED
    BY <1>1, <1>2, <1>3 DEF Slack

\* Between dispatches, and at the top of the loop, what the next entry of the step has
\* already used.
Resting == eng.pc = "loop" \/ (eng.pc \in {"down", "idle"} /\ run.state \in Unfinished)

BudgetInv ==
    /\ eng.pc \in Seeking => count.launches <= eng.attempt - 1 + Slack
    /\ eng.pc \in WithBox => count.launches <= eng.attempt + Slack
    /\ Resting /\ run.step \in Steps =>
         count.launches <= FirstAttempt(run.step) - 1 + Slack
    /\ count.launches <= MaxAttempts + Slack

LEMMA BudgetInit == Init => BudgetInv
  <1> SUFFICES ASSUME Init PROVE BudgetInv
    OBVIOUS
  <1>1. TypeOK
    BY TypeInit DEF TypeInv
  <1>2. eng.pc = "idle" /\ run.step \in Steps /\ count.launches = 0
    BY MemoryType, Bounds DEF Init
  <1>3. FirstAttempt(run.step) \in Nat /\ FirstAttempt(run.step) >= 1
    <2>1. FirstAttempt(run.step) \in Attempts
      BY <1>1, <1>2, FirstAttemptType
    <2>2. QED
      BY <2>1, Bounds DEF Attempts
  <1>4. Slack \in Nat /\ MaxAttempts \in Nat
    BY <1>1, SlackSays, Bounds
  <1>5. QED
    BY <1>2, <1>3, <1>4 DEF BudgetInv, Seeking, WithBox, Judged

\* The next visit starts with the whole budget.
LEMMA BudgetOfNewVisit ==
    ASSUME TypeInv, TypeInv', NewVisit, eng'.pc = "loop"
    PROVE  BudgetInv'
  <1>1. count'.launches = 0 /\ Slack' = Slack /\ Slack \in Nat /\ MaxAttempts \in Nat
    BY NewVisitSays, SlackSays, Bounds DEF TypeInv
  <1>2. ASSUME NEW s \in Steps
        PROVE  FirstAttempt(s)' \in Nat /\ FirstAttempt(s)' >= 1
    <2>1. row'[s] \in RowRecord
      BY DEF TypeInv, TypeOK
    <2>2. row'[s].attempt \in Attempts
      BY <2>1 DEF RowRecord
    <2>3. QED
      BY <2>2, Bounds DEF FirstAttempt, Attempts
  <1>3. QED
    BY <1>1, <1>2 DEF BudgetInv, Seeking, WithBox, Judged

\* A run that is over needs none of it.
LEMMA BudgetOfEnd ==
    ASSUME TypeInv, BudgetInv, NEW state \in Terminal \cup {"paused"}, EndRun(state),
           UNCHANGED count
    PROVE  BudgetInv'
  <1>1. eng'.pc = "finish"
    BY EndRunSays DEF TypeInv
  <1>2. Slack' = Slack /\ count'.launches = count.launches
    BY SlackSays DEF TypeInv
  <1>3. QED
    BY <1>1, <1>2 DEF BudgetInv, Seeking, WithBox, Judged, Resting

\* A crash wherever the dispatch is: the next entry of the step is paid by it.
LEMMA BudgetOfCrash ==
    ASSUME TypeInv, RowFollows, BudgetInv, Crash
    PROVE  BudgetInv'
  <1>1. /\ Slack' = Slack + PerCrash /\ Slack \in Nat /\ PerCrash \in Nat
        /\ PerCrash >= 1 /\ PerCrash >= MaxAttempts - 1
        /\ count'.launches = count.launches /\ count.launches \in Nat
        /\ UNCHANGED <<run, row>> /\ eng'.pc = "down"
        /\ MaxAttempts \in Nat
    BY CrashSays, SlackSays, PerCrashSays, RunFields, MemoryType, Bounds DEF TypeInv
  <1>2. count.launches <= MaxAttempts + Slack + PerCrash
    BY <1>1 DEF BudgetInv
  <1>3. ASSUME run.state \in Unfinished, run.step \in Steps
        PROVE  count.launches <= FirstAttempt(run.step) - 1 + Slack + PerCrash
    <2>1. /\ FirstAttempt(run.step) \in Nat /\ FirstAttempt(run.step) >= 1
          /\ FirstAttempt(run.step) <= MaxAttempts
      <3>1. FirstAttempt(run.step) \in Attempts
        BY <1>3, FirstAttemptType DEF TypeInv
      <3>2. QED
        BY <3>1, Bounds DEF Attempts
    <2>2. CASE eng.pc \in Seeking
      <3>1. eng.attempt \in Nat /\ eng.attempt <= MaxAttempts
        BY <2>2, Bounds DEF TypeInv, Flow, InStep, Attempts
      <3>2. count.launches <= eng.attempt - 1 + Slack
        BY <2>2 DEF BudgetInv
      <3>3. QED
        BY <1>1, <2>1, <3>1, <3>2
    <2>3. CASE eng.pc \in WithBox
      <3>1. eng.attempt \in Nat /\ eng.step = run.step
        BY <2>3, Bounds DEF TypeInv, Flow, InStep, Attempts
      <3>2. FirstAttempt(run.step) = eng.attempt
        BY <2>3, <3>1 DEF RowFollows, FirstAttempt
      <3>3. count.launches <= eng.attempt + Slack
        BY <2>3 DEF BudgetInv
      <3>4. QED
        BY <1>1, <3>1, <3>2, <3>3
    <2>4. CASE eng.pc \in {"loop", "down", "idle"}
      <3>1. count.launches <= FirstAttempt(run.step) - 1 + Slack
        BY <1>3, <2>4 DEF BudgetInv, Resting
      <3>2. QED
        BY <1>1, <2>1, <3>1
    <2>5. eng.pc # "finish"
      BY <1>3 DEF TypeInv, Flow
    <2>6. QED
      BY <2>2, <2>3, <2>4, <2>5, EngFields DEF TypeInv, Seeking, WithBox, Judged
  <1>4. count'.launches <= MaxAttempts + Slack'
    BY <1>1, <1>2
  <1>5. run'.state \in Unfinished /\ run'.step \in Steps =>
          count'.launches <= FirstAttempt(run.step)' - 1 + Slack'
    <2> SUFFICES ASSUME run.state \in Unfinished, run.step \in Steps
                 PROVE  count'.launches <= FirstAttempt(run.step)' - 1 + Slack'
      BY <1>1
    <2>1. FirstAttempt(run.step)' = FirstAttempt(run.step)
      BY <1>1 DEF FirstAttempt
    <2>2. FirstAttempt(run.step) \in Nat
      BY FirstAttemptType, Bounds DEF TypeInv
    <2>3. QED
      BY <1>1, <1>3, <2>1, <2>2
  <1>6. QED
    BY <1>1, <1>4, <1>5 DEF BudgetInv, Resting, Seeking, WithBox, Judged

LEMMA BudgetNext ==
    TypeInv /\ TypeInv' /\ RowFollows /\ BudgetInv /\ [Next]_vars => BudgetInv'
  <1> SUFFICES ASSUME TypeInv, TypeInv', RowFollows, BudgetInv, [Next]_vars
               PROVE  BudgetInv'
    OBVIOUS
  <1>a. /\ count.launches \in Nat /\ Slack \in Nat /\ MaxAttempts \in Nat
        /\ eng.attempt \in Nat
    BY RunFields, SlackSays, EngFields, Bounds DEF TypeInv
  <1>b. UNCHANGED count => Slack' = Slack /\ count'.launches = count.launches
    BY SlackSays DEF TypeInv
  <1> USE DEF Seeking, WithBox, Judged
  \* Steps after which the engine is where it was, with the same rows and counts.
  <1>c. ASSUME UNCHANGED row, count'.launches = count.launches, Slack' = Slack,
               eng'.pc = eng.pc, eng'.attempt = eng.attempt, run'.step = run.step,
               run'.state = run.state \/ run'.state \notin Unfinished
        PROVE  BudgetInv'
    BY <1>c DEF BudgetInv, Resting, FirstAttempt
  \* Steps from attempt to attempt that launch nothing.
  <1>d. ASSUME UNCHANGED count, eng.pc \in Seeking \cup WithBox, eng'.pc \in Seeking \cup WithBox,
               eng'.pc \in Seeking => IF eng.pc \in Seeking
                                      THEN eng'.attempt \in {eng.attempt, eng.attempt + 1}
                                      ELSE eng'.attempt = eng.attempt + 1,
               eng'.pc \in WithBox => eng'.attempt = eng.attempt
        PROVE  BudgetInv'
    <2>1. count'.launches = count.launches /\ Slack' = Slack
      BY <1>b, <1>d
    <2>2. count.launches <= MaxAttempts + Slack
      BY DEF BudgetInv
    <2>3. eng'.pc \in Seeking => count.launches <= eng'.attempt - 1 + Slack
      BY <1>a, <1>d DEF BudgetInv
    <2>4. eng'.pc \in WithBox => count.launches <= eng'.attempt + Slack
      BY <1>a, <1>d DEF BudgetInv
    <2>5. QED
      BY <1>d, <2>1, <2>2, <2>3, <2>4 DEF BudgetInv, Resting
  <1>1. CASE Begin
    <2>1. CASE eng'.pc = "finish" /\ UNCHANGED <<row, count>>
      BY <1>b, <2>1 DEF BudgetInv, Resting
    <2>2. CASE eng'.pc = "loop" /\ NewVisit
      BY <2>2, BudgetOfNewVisit
    <2>3. CASE /\ eng'.pc = "loop" /\ run.state \in Unfinished /\ run'.step = run.step
               /\ UNCHANGED <<row, count>>
      <3>1. eng.pc = "idle"
        BY <1>1, BeginSays
      <3>2. QED
        BY <1>b, <2>3, <3>1 DEF BudgetInv, Resting, FirstAttempt
    <2>4. QED
      BY <1>1, <2>1, <2>2, <2>3, BeginSays
  <1>2. CASE Loop
    <2>1. UNCHANGED count
      BY <1>2, LoopSays
    <2>2. CASE EndRun("cancelled") \/ EndRun("completed") \/ EndRun("failed")
      BY <2>1, <2>2, BudgetOfEnd DEF Terminal
    <2>3. CASE /\ eng'.pc = "attempt" /\ eng.step \in Steps
               /\ eng'.attempt = FirstAttempt(eng.step)
      <3>1. eng.pc = "loop" /\ run.step = eng.step
        BY <1>2, LoopSays DEF TypeInv, Flow
      <3>2. QED
        BY <1>b, <2>1, <2>3, <3>1 DEF BudgetInv, Resting
    <2>4. QED
      BY <1>2, <2>2, <2>3, LoopSays
  <1>3. CASE StartAttempt
    BY <1>3, <1>d, StartAttemptSays
  <1>4. CASE Attach
    <2>1. CASE eng'.pc = "prepare"
      BY <1>4, <1>d, <2>1, AttachSays
    <2>2. CASE eng'.pc = "watch"
      BY <1>4, <1>d, <2>2, AttachSays
    <2>3. QED
      BY <1>4, <2>1, <2>2, AttachSays
  <1>5. CASE Prepare
    <2>1. CASE EndRun("failed")
      BY <1>5, <2>1, BudgetOfEnd, PrepareSays DEF Terminal
    <2>2. CASE ~EndRun("failed")
      BY <1>5, <1>d, <2>2, PrepareSays
    <2>3. QED
      BY <2>1, <2>2
  <1>6. CASE Launch
    <2>1. CASE EndRun("failed") /\ UNCHANGED count
      BY <1>6, <2>1, BudgetOfEnd DEF Terminal
    <2>2. CASE /\ eng'.pc = "commit" /\ eng'.attempt = eng.attempt
               /\ count'.launches = count.launches + 1 /\ count'.crashes = count.crashes
      <3>1. Slack' = Slack
        BY <2>2, SlackSays DEF TypeInv
      <3>2. eng.pc = "launch" /\ eng.attempt \in Attempts
        BY <1>6, LaunchSays
      <3>3. count.launches <= eng.attempt - 1 + Slack /\ eng.attempt <= MaxAttempts
        BY <3>2, Bounds DEF BudgetInv, Attempts
      <3>4. QED
        BY <1>a, <2>2, <3>1, <3>3 DEF BudgetInv, Resting
    <2>3. QED
      BY <1>6, <2>1, <2>2, LaunchSays
  <1>7. CASE CommitHandle
    BY <1>7, <1>d, CommitHandleSays
  <1>8. CASE Reconcile
    BY <1>8, <1>d, ReconcileSays
  <1>9. CASE Judge
    BY <1>9, <1>d, JudgeSays
  <1>10. CASE CancelStep
    BY <1>10, CancelStepSays, BudgetOfEnd DEF Terminal
  <1>11. CASE RemoveContainer
    BY <1>11, <1>d, RemoveContainerSays
  <1>12. CASE Settle
    <2>1. CASE (EndRun("failed") \/ EndRun("paused")) /\ UNCHANGED count
      BY <2>1, BudgetOfEnd DEF Terminal
    <2>2. CASE eng'.pc = "attempt" /\ eng'.attempt = eng.attempt + 1 /\ UNCHANGED count
      BY <1>12, <1>d, <2>2, SettleSays
    <2>3. CASE eng'.pc = "loop" /\ NewVisit
      BY <2>3, BudgetOfNewVisit
    <2>4. QED
      BY <1>12, <2>1, <2>2, <2>3, SettleSays
  <1>13. CASE Finish
    <2>1. /\ eng'.pc = "idle" /\ run.state \notin Unfinished
          /\ UNCHANGED <<run, count>>
      BY <1>13, FinishSays, MemoryType DEF TypeInv, Flow
    <2>2. QED
      BY <1>b, <2>1 DEF BudgetInv, Resting
  <1>14. CASE ReadChannel
    BY <1>14, <1>b, <1>c, ReadChannelSays
  <1>15. CASE SignalStop
    BY <1>15, <1>b, <1>c, SignalStopSays
  <1>16. CASE ForceStop
    BY <1>16, <1>b, <1>c, ForceStopSays DEF Unfinished
  <1>17. CASE RecordStop
    BY <1>17, <1>b, <1>c, RecordStopSays DEF Unfinished
  <1>18. CASE Restart
    BY <1>18, <1>b, RestartSays, MemoryType DEF BudgetInv, Resting, FirstAttempt
  <1>19. CASE ReapClaim
    BY <1>19, <1>b, <1>c, ReapClaimSays
  <1>20. ASSUME NEW c \in Boxes, Publish(c) PROVE BudgetInv'
    BY <1>20, <1>b, <1>c, PublishSays
  <1>21. ASSUME NEW c \in Boxes, Exit(c) PROVE BudgetInv'
    BY <1>21, <1>b, <1>c, ExitSays
  <1>22. CASE Decide
    BY <1>22, <1>c, DecideSays, SlackSays DEF TypeInv
  <1>23. CASE RequestStop
    BY <1>23, <1>b, <1>c DEF RequestStop
  <1>24. CASE Crash
    BY <1>24, BudgetOfCrash
  <1>25. CASE UNCHANGED vars
    BY <1>25, <1>b, <1>c DEF vars
  <1>26. QED
    BY <1>1, <1>2, <1>3, <1>4, <1>5, <1>6, <1>7, <1>8, <1>9, <1>10, <1>11, <1>12, <1>13,
       <1>14, <1>15, <1>16, <1>17, <1>18, <1>19, <1>20, <1>21, <1>22, <1>23, <1>24, <1>25
       DEF Next, Engine, Worker, Agent, User

\* However often the engine crashes, and wherever, one visit of a step costs at most
\* MaxAttempts containers and PerCrash more for every crash.
THEOREM LaunchesBounded == Spec => []LaunchBudget
  <1>1. BudgetInv => LaunchBudget
    BY DEF BudgetInv, LaunchBudget, Slack, PerCrash
  <1>2. QED
    BY TypeInit, TypeNext, FollowsInit, FollowsNext, BudgetInit, BudgetNext, <1>1, PTL DEF Spec

-----------------------------------------------------------------------------
\* Whose containers are there.

\* The deployment the ownership results are about.  Each part is needed: a container
\* kept after its deadline, one launched by an engine that died before it committed the
\* handle, or one given up because docker did not answer, goes on publishing under the
\* key of the attempt that replaces it.
Tidy == ~KeepContainers /\ "window" \notin Allowed /\ "reattach" \notin Allowed

Alive(c) == box[c].state # "gone"
Vacant == \A c \in Boxes : ~Alive(c)

\* The engine holds a container in hand.
Watching == eng.pc \in {"commit", "watch", "judge", "cleanup"}

\* A container no engine holds is the one the row of the current step recorded.
Recorded(c) ==
    /\ run.step \in Steps /\ c = row[run.step].arn /\ c[1] = run.step
    /\ row[run.step].exec = "running" /\ row[run.step].attempt = c[2]

Watched ==
    Watching => /\ eng.h[1] = eng.step /\ eng.h[2] = eng.attempt
                /\ \A c \in Boxes : Alive(c) => c = eng.h

Unwatched == ~Watching => \A c \in Boxes : Alive(c) => Recorded(c)

\* Where no container is left at all.
Cleaned ==
    /\ eng.pc \in {"prepare", "launch", "stopped", "settle"} => Vacant
    /\ run.state \in {"pending", "paused", "completed", "failed"} => Vacant
    /\ count.crashes = 0 /\ ~Watching => Vacant

\* A dispatch that finds a container resumes the attempt it belongs to.
Resumed ==
    \A c \in Boxes : Alive(c) =>
        /\ eng.pc = "attempt" => eng.resuming /\ eng.attempt = row[eng.step].attempt
        /\ eng.pc = "loop" => \A s \in Steps : eng.visits[s] = 0

OwnInv == Watched /\ Unwatched /\ Cleaned /\ Resumed

LEMMA OwnInit == Init => OwnInv
  <1> SUFFICES ASSUME Init PROVE OwnInv
    OBVIOUS
  <1>1. eng.pc = "idle"
    BY MemoryType DEF Init
  <1>2. Vacant
    BY DEF Init, Vacant, Alive, GoneBox
  <1>3. QED
    BY <1>1, <1>2 DEF OwnInv, Watched, Unwatched, Cleaned, Resumed, Watching, Vacant

\* An empty house stays in order.
LEMMA OwnVacant ==
    ASSUME Vacant', ~Watching'
    PROVE  OwnInv'
  BY DEF OwnInv, Watched, Unwatched, Cleaned, Resumed, Vacant

\* Steps that touch neither the engine nor the rows, and start no container.
LEMMA OwnIdle ==
    ASSUME OwnInv, UNCHANGED <<eng, row>>, run'.step = run.step,
           run'.state = run.state \/ run'.state = "cancelled",
           count'.crashes = count.crashes,
           \A c \in Boxes : Alive(c)' => Alive(c)
    PROVE  OwnInv'
  <1>1. Vacant => Vacant'
    BY DEF Vacant
  <1>2. Watching' = Watching
    BY DEF Watching
  <1>3. \A c \in Boxes : Recorded(c) => Recorded(c)'
    BY DEF Recorded
  <1>4. Watched'
    BY <1>2 DEF OwnInv, Watched
  <1>5. Unwatched'
    BY <1>2, <1>3 DEF OwnInv, Unwatched
  <1>6. Cleaned'
    BY <1>1, <1>2 DEF OwnInv, Cleaned
  <1>7. Resumed'
    BY DEF OwnInv, Resumed
  <1>8. QED
    BY <1>4, <1>5, <1>6, <1>7 DEF OwnInv

\* The dispatch lets go of a run; the containers and the rows stay as they are.
LEMMA OwnReleased ==
    ASSUME OwnInv, ~Watching, UNCHANGED <<row, box>>, run'.step = run.step,
           eng'.pc \in {"finish", "idle", "down"},
           run'.state \in {"pending", "paused", "completed", "failed"} => Vacant,
           count'.crashes = count.crashes \/ count'.crashes # 0
    PROVE  OwnInv'
  <1>1. /\ \A c \in Boxes : Alive(c)' = Alive(c)
        /\ \A c \in Boxes : Recorded(c)' = Recorded(c)
    BY DEF Alive, Recorded
  <1>2. ~Watching'
    BY DEF Watching
  <1>3. Vacant' = Vacant
    BY <1>1 DEF Vacant
  <1>4. Watched'
    BY <1>2 DEF Watched
  <1>5. Unwatched'
    BY <1>1 DEF OwnInv, Unwatched
  <1>6. Cleaned'
    BY <1>3 DEF OwnInv, Cleaned
  <1>7. Resumed'
    BY DEF Resumed
  <1>8. QED
    BY <1>4, <1>5, <1>6, <1>7 DEF OwnInv

LEMMA OwnEndRun ==
    ASSUME TypeInv, OwnInv, ~Watching, NEW state \in Terminal \cup {"paused"}, EndRun(state),
           UNCHANGED <<row, box, count>>, state # "cancelled" => Vacant
    PROVE  OwnInv'
  BY EndRunSays, OwnReleased DEF TypeInv, Terminal

\* The same when nothing is left and the row of the step is settled.
LEMMA OwnEndVacant ==
    ASSUME TypeInv, Vacant, UNCHANGED box, NEW state \in Terminal \cup {"paused"}, EndRun(state)
    PROVE  OwnInv'
  <1>1. eng'.pc = "finish"
    BY EndRunSays DEF TypeInv
  <1>2. QED
    BY <1>1, OwnVacant DEF Watching, Vacant, Alive

LEMMA OwnNext ==
    ASSUME Tidy, TypeInv, TypeInv', RowFollows, OwnInv, [Next]_vars
    PROVE  OwnInv'
  <1> USE DEF Watching
  \* Steps between two points where the engine holds its container.
  <1>a. ASSUME Watching, Watching', eng'.h = eng.h, eng'.step = eng.step,
               eng'.attempt = eng.attempt, run'.state = run.state,
               \A c \in Boxes : Alive(c)' => Alive(c)
        PROVE  OwnInv'
    <2>1. Watched'
      BY <1>a DEF OwnInv, Watched
    <2>2. run'.state \in {"running", "cancelled"}
      BY <1>a DEF TypeInv, Flow, InStep, WithBox, Judged
    <2>3. QED
      BY <1>a, <2>1, <2>2 DEF OwnInv, Unwatched, Cleaned, Resumed
  \* Steps after which no container is left.
  <1>b. ASSUME \A c \in Boxes : Alive(c)' => Alive(c), ~Watching',
               Vacant \/ (Watching /\ box'[eng.h].state = "gone")
        PROVE  OwnInv'
    <2>1. Vacant'
      BY <1>b DEF Vacant, Alive, OwnInv, Watched
    <2>2. QED
      BY <1>b, <2>1, OwnVacant
  <1>1. CASE Begin
    <2>1. eng.pc = "idle" /\ UNCHANGED box
      BY <1>1, BeginSays
    <2>2. CASE eng'.pc = "finish" /\ UNCHANGED <<row, count>> /\ run' = run
      BY <2>1, <2>2, OwnReleased DEF OwnInv, Cleaned
    <2>3. CASE run.state = "paused" /\ eng'.pc \in {"finish", "loop"}
      <3>1. Vacant
        BY <2>3 DEF OwnInv, Cleaned
      <3>2. QED
        BY <1>b, <2>1, <2>3, <3>1 DEF Alive
    <2>4. CASE /\ eng'.pc = "loop" /\ UNCHANGED <<row, count>> /\ run'.state = "running"
               /\ run'.step = run.step /\ eng'.visits = [s \in Steps |-> 0]
      <3>1. \A c \in Boxes : Alive(c)' = Alive(c) /\ Recorded(c)' = Recorded(c)
        BY <2>1, <2>4 DEF Alive, Recorded
      <3>2. QED
        BY <2>1, <2>4, <3>1 DEF OwnInv, Watched, Unwatched, Cleaned, Resumed, Vacant
    <2>5. QED
      BY <1>1, <2>2, <2>3, <2>4, BeginSays
  <1>2. CASE Loop
    <2>1. /\ eng.pc = "loop" /\ UNCHANGED <<row, box, channel, token, stop, count>>
          /\ run.step = eng.step
      BY <1>2, LoopSays DEF TypeInv, Flow
    <2>2. CASE EndRun("cancelled")
      BY <2>1, <2>2, OwnEndRun DEF Terminal
    <2>3. CASE eng.step = DONE /\ EndRun("completed")
      <3>1. Vacant
        BY <2>1, <2>3, Bounds DEF Vacant, OwnInv, Unwatched, Recorded
      <3>2. QED
        BY <2>1, <2>3, <3>1, OwnEndRun DEF Terminal
    <2>4. CASE /\ eng.step \in Steps /\ EndRun("failed")
               /\ eng.visits[eng.step] + 1 > VisitCap
      <3>1. ASSUME NEW c \in Boxes, Alive(c) PROVE FALSE
        <4>1. eng.visits[eng.step] = 0
          BY <2>1, <2>4, <3>1 DEF OwnInv, Resumed
        <4>2. QED
          BY <2>4, <4>1, StepLoopAssumption
      <3>2. QED
        BY <2>1, <2>4, <3>1, OwnEndRun DEF Terminal, Vacant
    <2>5. CASE /\ eng.step \in Steps /\ UNCHANGED run /\ eng'.pc = "attempt"
               /\ eng'.step = eng.step /\ eng'.attempt = FirstAttempt(eng.step)
               /\ eng'.resuming = (row[eng.step].exec = "running")
      <3>1. \A c \in Boxes : Alive(c)' = Alive(c) /\ Recorded(c)' = Recorded(c)
        BY <2>1, <2>5 DEF Alive, Recorded
      <3>2. \A c \in Boxes : Alive(c) => Recorded(c)
        BY <2>1 DEF OwnInv, Unwatched
      <3>3. Resumed'
        BY <2>1, <2>5, <3>1, <3>2 DEF Resumed, Recorded, FirstAttempt
      <3>4. QED
        BY <2>1, <2>5, <3>1, <3>3 DEF OwnInv, Watched, Unwatched, Cleaned, Vacant
    <2>6. QED
      BY <1>2, <2>2, <2>3, <2>4, <2>5, LoopSays
  <1>3. CASE StartAttempt
    <2>1. eng.pc = "attempt" /\ run.step = eng.step /\ run.state \in {"running", "cancelled"}
      BY <1>3, StartAttemptSays DEF TypeInv, Flow, InStep, Seeking
    <2>2. \A c \in Boxes : Alive(c)' = Alive(c)
      BY <1>3, StartAttemptSays DEF Alive
    <2>3. \A c \in Boxes : Alive(c) =>
            /\ Recorded(c) /\ eng.resuming /\ eng.attempt = row[eng.step].attempt
      BY <2>1 DEF OwnInv, Unwatched, Resumed
    <2>4. \A c \in Boxes : Alive(c) => Recorded(c)' /\ eng'.pc = "attach"
      BY <1>3, <2>1, <2>3, StartAttemptSays, BoxParts DEF Recorded
    <2>5. Vacant' = Vacant /\ (Vacant \/ eng'.pc = "attach")
      BY <2>2, <2>4 DEF Vacant
    <2>6. eng'.pc \in {"attach", "prepare"} /\ UNCHANGED count /\ run'.state = run.state
      BY <1>3, StartAttemptSays
    <2>7. Cleaned'
      BY <2>1, <2>5, <2>6 DEF OwnInv, Cleaned
    <2>8. QED
      BY <2>2, <2>4, <2>6, <2>7 DEF OwnInv, Watched, Unwatched, Resumed
  <1>4. CASE Attach
    <2> DEFINE c == row[eng.step].arn
    <2>1. /\ eng.pc = "attach" /\ run.step = eng.step /\ c \in Boxes
          /\ UNCHANGED <<run, row, box, count>>
          /\ row[eng.step].attempt = eng.attempt
      BY <1>4, AttachSays DEF TypeInv, Flow, InStep, Seeking, RowFollows
    <2>2. \A d \in Boxes : Alive(d) => Recorded(d) /\ d = c
      BY <2>1 DEF OwnInv, Unwatched, Recorded
    <2>3. CASE Lost(c) /\ eng'.pc = "prepare"
      <3>1. ~Alive(c)
        BY <2>3 DEF Lost, Tidy, Alive
      <3>2. Vacant
        BY <2>2, <3>1 DEF Vacant
      <3>3. QED
        BY <1>b, <2>1, <2>3, <3>2 DEF Alive
    <2>4. CASE /\ ~Lost(c) /\ eng'.pc = "watch" /\ eng'.h = c
               /\ eng'.step = eng.step /\ eng'.attempt = eng.attempt
      <3>1. Alive(c)
        BY <2>4 DEF Lost, Alive
      <3>2. c[1] = eng.step /\ c[2] = eng.attempt
        BY <2>1, <2>2, <3>1 DEF Recorded
      <3>3. \A d \in Boxes : Alive(d)' = Alive(d)
        BY <2>1 DEF Alive
      <3>4. Watched'
        BY <2>2, <2>4, <3>2, <3>3 DEF Watched
      <3>5. run.state \in {"running", "cancelled"}
        BY <2>1 DEF TypeInv, Flow, InStep, Seeking
      <3>6. QED
        BY <2>1, <2>4, <3>4, <3>5 DEF OwnInv, Unwatched, Cleaned, Resumed
    <2>5. QED
      BY <1>4, <2>3, <2>4, AttachSays
  <1>5. CASE Prepare
    <2>1. Vacant /\ UNCHANGED box
      BY <1>5, PrepareSays DEF OwnInv, Cleaned
    <2>2. eng'.pc \in {"attempt", "launch", "finish"}
      BY <1>5, PrepareSays, EndRunSays DEF Terminal, TypeInv
    <2>3. QED
      BY <1>b, <2>1, <2>2 DEF Alive
  <1>6. CASE Launch
    <2>1. Vacant /\ eng.pc = "launch" /\ run.state \in {"running", "cancelled"}
      BY <1>6, LaunchSays DEF OwnInv, Cleaned, TypeInv, Flow, InStep, Seeking
    <2>2. CASE EndRun("failed") /\ UNCHANGED box
      BY <2>1, <2>2, OwnEndVacant DEF Terminal
    <2>3. CASE /\ UNCHANGED run /\ eng'.pc = "commit"
               /\ eng'.h[1] = eng.step /\ eng'.h[2] = eng.attempt
               /\ eng'.step = eng.step /\ eng'.attempt = eng.attempt
               /\ \A d \in Boxes \ {eng'.h} : box'[d] = box[d]
      <3>1. \A d \in Boxes : Alive(d)' => d = eng'.h
        BY <2>1, <2>3 DEF Vacant, Alive
      <3>2. QED
        BY <2>1, <2>3, <3>1 DEF OwnInv, Watched, Unwatched, Cleaned, Resumed
    <2>4. QED
      BY <1>6, <2>2, <2>3, LaunchSays
  <1>7. CASE CommitHandle
    BY <1>7, <1>a, CommitHandleSays DEF Alive
  <1>8. CASE Reconcile
    BY <1>8, <1>a, ReconcileSays DEF Alive
  <1>9. CASE Judge
    <2>1. CASE eng'.pc = "stopped" /\ box'[eng.h].state = "gone"
      BY <1>9, <1>b, <2>1, JudgeSays DEF Alive
    <2>2. CASE eng'.pc = "cleanup" /\ UNCHANGED box
      BY <1>9, <1>a, <2>2, JudgeSays DEF Alive
    <2>3. QED
      BY <1>9, <2>1, <2>2, JudgeSays
  <1>10. CASE CancelStep
    <2>1. Vacant /\ UNCHANGED box /\ EndRun("cancelled")
      BY <1>10, CancelStepSays DEF OwnInv, Cleaned
    <2>2. QED
      BY <2>1, OwnEndVacant DEF Terminal
  <1>11. CASE RemoveContainer
    BY <1>11, <1>b, RemoveContainerSays DEF Tidy, Alive
  <1>12. CASE Settle
    <2>1. Vacant /\ UNCHANGED box
      BY <1>12, SettleSays DEF OwnInv, Cleaned
    <2>2. eng'.pc \in {"attempt", "loop", "finish"}
      BY <1>12, SettleSays, EndRunSays DEF Terminal, TypeInv
    <2>3. QED
      BY <1>b, <2>1, <2>2 DEF Alive
  <1>13. CASE Finish
    BY <1>13, FinishSays, MemoryType, OwnReleased DEF OwnInv, Cleaned
  <1>14. CASE ReadChannel
    BY <1>14, <1>a, ReadChannelSays DEF Alive
  <1>15. CASE SignalStop
    <2>1. /\ UNCHANGED <<run, row, box, count>> /\ eng'.pc = eng.pc /\ eng'.step = eng.step
          /\ eng'.attempt = eng.attempt /\ eng'.resuming = eng.resuming /\ eng'.h = eng.h
          /\ eng'.visits = eng.visits
      BY <1>15, SignalStopSays
    <2>2. \A c \in Boxes : Alive(c)' = Alive(c) /\ Recorded(c)' = Recorded(c)
      BY <2>1 DEF Alive, Recorded
    <2>3. QED
      BY <2>1, <2>2 DEF OwnInv, Watched, Unwatched, Cleaned, Resumed, Vacant
  <1>16. CASE ForceStop
    BY <1>16, ForceStopSays, OwnIdle DEF Alive
  <1>17. CASE RecordStop
    BY <1>17, RecordStopSays, OwnIdle DEF Alive
  <1>18. CASE Restart
    BY <1>18, RestartSays, MemoryType, OwnReleased DEF OwnInv, Cleaned
  <1>19. CASE ReapClaim
    BY <1>19, ReapClaimSays, OwnIdle DEF Alive
  <1>20. ASSUME NEW c \in Boxes, Publish(c) PROVE OwnInv'
    BY <1>20, PublishSays, OwnIdle DEF Alive
  <1>21. ASSUME NEW c \in Boxes, Exit(c) PROVE OwnInv'
    BY <1>21, ExitSays, OwnIdle DEF Alive
  <1>22. CASE Decide
    BY <1>22, DecideSays, OwnIdle DEF Alive
  <1>23. CASE RequestStop
    BY <1>23, OwnIdle DEF RequestStop, Alive
  <1>24. CASE Crash
    <2>1. /\ UNCHANGED <<run, row, box>> /\ eng'.pc = "down" /\ eng.pc # "commit"
          /\ count'.crashes # 0
      BY <1>24, CrashSays, MemoryType, RunFields DEF Tidy, TypeInv
    <2>2. CASE ~Watching
      BY <2>1, <2>2, OwnReleased DEF OwnInv, Cleaned
    <2>3. CASE Watching
      <3>1. /\ run.step = eng.step /\ eng.step \in Steps
            /\ run.state \in {"running", "cancelled"}
            /\ row[eng.step].exec = "running" /\ row[eng.step].attempt = eng.attempt
            /\ row[eng.step].arn = eng.h
        BY <2>1, <2>3 DEF TypeInv, Flow, RowFollows, InStep, WithBox, Judged
      <3>2. \A c \in Boxes : Alive(c) => Recorded(c)
        BY <2>3, <3>1 DEF OwnInv, Watched, Recorded
      <3>3. \A c \in Boxes : Alive(c)' = Alive(c) /\ Recorded(c)' = Recorded(c)
        BY <2>1 DEF Alive, Recorded
      <3>4. QED
        BY <2>1, <3>1, <3>2, <3>3 DEF OwnInv, Watched, Unwatched, Cleaned, Resumed
    <2>4. QED
      BY <2>2, <2>3
  <1>25. CASE UNCHANGED vars
    BY <1>25, OwnIdle DEF vars, Alive
  <1>26. QED
    BY <1>1, <1>2, <1>3, <1>4, <1>5, <1>6, <1>7, <1>8, <1>9, <1>10, <1>11, <1>12, <1>13,
       <1>14, <1>15, <1>16, <1>17, <1>18, <1>19, <1>20, <1>21, <1>22, <1>23, <1>24, <1>25
       DEF Next, Engine, Worker, Agent, User

\* At most one container is there at all, so at most one agent works.
LEMMA AtMostOne ==
    ASSUME OwnInv
    PROVE  OneAgent
  <1>1. \E h : Running \subseteq {h}
    <2>1. CASE Watching
      <3>1. Running \subseteq {eng.h}
        BY <2>1 DEF OwnInv, Watched, Running, Alive
      <3>2. QED
        BY <3>1
    <2>2. CASE ~Watching
      <3>1. Running \subseteq {row[run.step].arn}
        BY <2>2 DEF OwnInv, Unwatched, Recorded, Running, Alive
      <3>2. QED
        BY <3>1
    <2>3. QED
      BY <2>1, <2>2
  <1>2. PICK h : Running \subseteq {h}
    BY <1>1
  <1>3. Running = {} \/ Running = {h}
    BY <1>2
  <1>4. Cardinality({}) = 0 /\ Cardinality({h}) = 1
    BY FS_EmptySet, FS_Singleton
  <1>5. Cardinality(Running) = 0 \/ Cardinality(Running) = 1
    BY <1>3, <1>4
  <1>6. QED
    BY <1>5 DEF OneAgent

LEMMA NoneLeft ==
    ASSUME TypeInv, OwnInv
    PROVE  NoAgentLeft
  <1>1. Vacant => Running = {}
    BY DEF Vacant, Alive, Running
  <1>2. token.state = "none" => ~Watching
    BY DEF TypeInv, Flow, Driving, Watching
  <1>3. QED
    BY <1>1, <1>2 DEF OwnInv, Cleaned, NoAgentLeft

\* In a tidy deployment the agents of a run are accounted for, however often the engine
\* crashes and containers vanish: one works at a time, none is left for a run that
\* waits or is over, and no more are launched than attempts and crashes explain.
THEOREM AgentsAreAccountedFor == Tidy => (Spec => []AgentsAccounted)
  <1> SUFFICES ASSUME Tidy PROVE Spec => []AgentsAccounted
    OBVIOUS
  <1>1. TypeInv /\ TypeInv' /\ RowFollows /\ OwnInv /\ [Next]_vars => OwnInv'
    BY OwnNext
  <1>2. TypeInv /\ OwnInv /\ LaunchBudget => AgentsAccounted
    BY AtMostOne, NoneLeft DEF AgentsAccounted
  <1>3. QED
    BY TypeInit, TypeNext, FollowsInit, FollowsNext, OwnInit, LaunchesBounded, <1>1, <1>2, PTL
       DEF Spec

-----------------------------------------------------------------------------
\* Whose verdict is acted on.

\* A result says it was published by this container, for this visit.
Own(r, c) == r # NoResult => r.by = c /\ r.visit = count.visits

\* What a container has published, or will, is its own and of this visit ...
Published ==
    \A c \in Boxes : Alive(c) =>
        box[c].visit = count.visits /\ Own(channel[c[1]][c[2]], c)

\* ... the key is clear when its container is launched, and holds only what that one
\* published as long as it is watched, although it may have vanished meanwhile ...
Channelled ==
    /\ eng.pc \in {"commit", "watch"} => Own(channel[eng.step][eng.attempt], eng.h)
    /\ eng.pc = "launch" => channel[eng.step][eng.attempt] = NoResult

\* ... and so does what the engine has read.
Read ==
    /\ eng.payload # NoResult => eng.pc = "watch" /\ Own(eng.payload, eng.h)
    /\ eng.verdict # NoResult => eng.pc \in Judged /\ Own(eng.verdict, eng.h)

ResultInv == Published /\ Channelled /\ Read

LEMMA ResultInit == Init => ResultInv
  <1> SUFFICES ASSUME Init PROVE ResultInv
    OBVIOUS
  <1>1. eng.pc = "idle" /\ eng.payload = NoResult /\ eng.verdict = NoResult
    BY MemoryType DEF Init
  <1>2. \A c \in Boxes : ~Alive(c)
    BY DEF Init, Alive, GoneBox
  <1>3. QED
    BY <1>1, <1>2 DEF ResultInv, Published, Channelled, Read

\* Steps that leave the result objects alone and start no container, and after which
\* the engine has read nothing.
LEMMA ResultKept ==
    ASSUME Published, UNCHANGED channel,
           \A c \in Boxes : Alive(c)' => Alive(c) /\ box'[c].visit = box[c].visit,
           count'.visits = count.visits \/ Vacant,
           eng'.pc \notin {"launch", "commit", "watch"},
           eng'.payload = NoResult, eng'.verdict = NoResult
    PROVE  ResultInv'
  <1>1. Published'
    BY DEF Published, Own, Vacant
  <1>2. QED
    BY <1>1 DEF ResultInv, Channelled, Read

LEMMA ResultEndRun ==
    ASSUME TypeInv, ResultInv, NEW state \in Terminal \cup {"paused"}, EndRun(state),
           UNCHANGED <<box, channel, count>>
    PROVE  ResultInv'
  BY EndRunSays, ResultKept DEF TypeInv, ResultInv, Alive

\* Steps that change neither the engine, the containers nor their results.
LEMMA ResultIdle ==
    ASSUME ResultInv, UNCHANGED <<eng, box, channel>>, count'.visits = count.visits
    PROVE  ResultInv'
  BY DEF ResultInv, Published, Channelled, Read, Own, Alive

LEMMA ResultNext ==
    ASSUME Tidy, TypeInv, TypeInv', RowFollows, OwnInv, ResultInv, [Next]_vars
    PROVE  ResultInv'
  <1> USE DEF Judged
  \* Steps of a dispatch that has read nothing, and reads nothing.
  <1>a. ASSUME eng.pc \notin Judged \cup {"watch"}, UNCHANGED <<channel, box, count>>,
               eng'.payload = eng.payload, eng'.verdict = eng.verdict,
               eng'.pc \notin {"launch", "commit", "watch"}
        PROVE  ResultInv'
    BY <1>a, ResultKept DEF ResultInv, Read, Alive
  <1>1. CASE Begin
    <2>1. count'.visits = count.visits \/ Vacant
      BY <1>1, BeginSays DEF OwnInv, Cleaned, Unfinished
    <2>2. UNCHANGED <<box, channel>> /\ eng'.payload = NoResult /\ eng'.verdict = NoResult
      BY <1>1, BeginSays
    <2>3. eng'.pc \in {"finish", "loop"}
      BY <1>1, BeginSays
    <2>4. QED
      BY <2>1, <2>2, <2>3, ResultKept DEF ResultInv, Alive
  <1>2. CASE Loop
    <2>1. UNCHANGED <<channel, box, count>> /\ eng.pc = "loop"
      BY <1>2, LoopSays
    <2>2. CASE EndRun("cancelled") \/ EndRun("completed") \/ EndRun("failed")
      BY <2>1, <2>2, ResultEndRun DEF Terminal
    <2>3. CASE /\ eng'.pc = "attempt" /\ eng'.payload = eng.payload
               /\ eng'.verdict = eng.verdict
      BY <1>a, <2>1, <2>3
    <2>4. QED
      BY <1>2, <2>2, <2>3, LoopSays
  <1>3. CASE StartAttempt
    BY <1>3, <1>a, StartAttemptSays
  <1>4. CASE Attach
    <2> DEFINE c == row[eng.step].arn
    <2>1. /\ eng.pc = "attach" /\ run.step = eng.step /\ c \in Boxes
          /\ UNCHANGED <<run, row, box, channel, count>>
          /\ row[eng.step].attempt = eng.attempt
      BY <1>4, AttachSays DEF TypeInv, Flow, InStep, Seeking, RowFollows
    <2>2. CASE eng'.pc = "prepare"
      BY <1>4, <1>a, <2>1, <2>2, AttachSays
    <2>3. CASE ~Lost(c) /\ eng'.pc = "watch" /\ eng'.h = c /\ eng'.payload = NoResult
      <3>1. Alive(c)
        BY <2>3 DEF Lost, Alive
      <3>2. c[1] = eng.step /\ c[2] = eng.attempt
        BY <2>1, <3>1 DEF OwnInv, Unwatched, Recorded, Watching
      <3>3. Own(channel[eng.step][eng.attempt], c)
        BY <2>1, <3>1, <3>2 DEF ResultInv, Published
      <3>4. eng'.step = eng.step /\ eng'.attempt = eng.attempt /\ eng'.verdict = eng.verdict
        BY <1>4, AttachSays
      <3>5. Channelled'
        BY <2>1, <2>3, <3>3, <3>4 DEF Channelled, Own
      <3>6. Published'
        BY <2>1 DEF ResultInv, Published, Own, Alive
      <3>7. Read'
        BY <2>1, <2>3, <3>4 DEF ResultInv, Read
      <3>8. QED
        BY <3>5, <3>6, <3>7 DEF ResultInv
    <2>4. QED
      BY <1>4, <2>2, <2>3, AttachSays
  <1>5. CASE Prepare
    <2>1. /\ Vacant /\ eng.pc = "prepare" /\ UNCHANGED <<box, count>>
          /\ eng.payload = NoResult /\ eng.verdict = NoResult
      BY <1>5, PrepareSays DEF OwnInv, Cleaned, ResultInv, Read
    <2>2. Published'
      BY <2>1 DEF Vacant, Published, Alive
    <2>3. CASE EndRun("failed")
      <3>1. eng'.pc = "finish" /\ eng'.payload = NoResult /\ eng'.verdict = NoResult
        BY <2>3, EndRunSays DEF TypeInv, Terminal
      <3>2. QED
        BY <2>2, <3>1 DEF ResultInv, Channelled, Read
    <2>4. CASE eng'.pc = "attempt" /\ eng'.payload = eng.payload /\ eng'.verdict = eng.verdict
      BY <2>1, <2>2, <2>4 DEF ResultInv, Channelled, Read
    <2>5. CASE /\ eng'.pc = "launch" /\ eng'.payload = eng.payload
               /\ eng'.verdict = eng.verdict
               /\ eng'.step = eng.step /\ eng'.attempt = eng.attempt
               /\ channel'[eng.step][eng.attempt] = NoResult
      BY <2>1, <2>2, <2>5 DEF ResultInv, Channelled, Read
    <2>6. QED
      BY <1>5, <2>3, <2>4, <2>5, PrepareSays
  <1>6. CASE Launch
    <2>1. /\ Vacant /\ eng.pc = "launch" /\ UNCHANGED channel
          /\ eng.payload = NoResult /\ eng.verdict = NoResult
          /\ channel[eng.step][eng.attempt] = NoResult
      BY <1>6, LaunchSays DEF OwnInv, Cleaned, ResultInv, Read, Channelled
    <2>2. CASE EndRun("failed") /\ UNCHANGED <<box, count>>
      BY <2>1, <2>2, ResultEndRun DEF Terminal
    <2>3. CASE /\ eng'.pc = "commit" /\ eng'.h \in Boxes
               /\ eng'.h[1] = eng.step /\ eng'.h[2] = eng.attempt
               /\ eng'.step = eng.step /\ eng'.attempt = eng.attempt
               /\ eng'.payload = eng.payload /\ eng'.verdict = eng.verdict
               /\ box'[eng'.h].visit = count.visits
               /\ \A d \in Boxes \ {eng'.h} : box'[d] = box[d]
               /\ count'.visits = count.visits
      <3>1. ASSUME NEW d \in Boxes, Alive(d)' PROVE d = eng'.h
        BY <2>1, <2>3, <3>1 DEF Vacant, Alive
      <3>2. Published'
        BY <2>1, <2>3, <3>1 DEF Published, Own
      <3>3. QED
        BY <2>1, <2>3, <3>2 DEF ResultInv, Channelled, Read, Own
    <2>4. QED
      BY <1>6, <2>2, <2>3, LaunchSays
  <1>7. CASE CommitHandle
    <2>1. /\ eng.pc = "commit" /\ UNCHANGED <<box, channel, count>> /\ eng'.pc = "watch"
          /\ eng'.step = eng.step /\ eng'.attempt = eng.attempt /\ eng'.h = eng.h
          /\ eng'.payload = NoResult /\ eng'.verdict = eng.verdict
      BY <1>7, CommitHandleSays
    <2>2. QED
      BY <2>1 DEF ResultInv, Published, Channelled, Read, Own, Alive
  <1>8. CASE Reconcile
    <2>1. /\ eng.pc = "watch" /\ UNCHANGED <<channel, count>> /\ eng'.pc = "judge"
          /\ eng'.payload = NoResult /\ eng'.h = eng.h
          /\ eng'.verdict = NoResult \/ eng'.verdict = ResultAt
          /\ \A d \in Boxes : box'[d] = box[d] \/ box'[d].state = "gone"
      BY <1>8, ReconcileSays
    <2>2. Own(ResultAt, eng.h)
      BY <2>1 DEF ResultAt, ResultInv, Channelled, Read
    <2>3. Published'
      BY <2>1 DEF ResultInv, Published, Own, Alive
    <2>4. Read'
      BY <2>1, <2>2 DEF Read, Own
    <2>5. QED
      BY <2>1, <2>3, <2>4 DEF ResultInv, Channelled
  <1>9. CASE Judge
    <2>1. /\ eng.pc = "judge" /\ UNCHANGED <<channel, count>>
          /\ eng'.pc \in {"stopped", "cleanup"}
          /\ eng'.payload = eng.payload /\ eng'.verdict = eng.verdict /\ eng'.h = eng.h
          /\ \A d \in Boxes : box'[d] = box[d] \/ box'[d].state = "gone"
      BY <1>9, JudgeSays
    <2>2. QED
      BY <2>1 DEF ResultInv, Published, Channelled, Read, Own, Alive
  <1>10. CASE CancelStep
    BY <1>10, CancelStepSays, ResultEndRun DEF Terminal
  <1>11. CASE RemoveContainer
    <2>1. /\ eng.pc = "cleanup" /\ UNCHANGED <<channel, count>> /\ eng'.pc = "settle"
          /\ eng'.payload = eng.payload /\ eng'.verdict = eng.verdict /\ eng'.h = eng.h
          /\ \A d \in Boxes : box'[d] = box[d] \/ box'[d].state = "gone"
      BY <1>11, RemoveContainerSays DEF Tidy
    <2>2. QED
      BY <2>1 DEF ResultInv, Published, Channelled, Read, Own, Alive
  <1>12. CASE Settle
    <2>1. Vacant /\ UNCHANGED <<box, channel>>
      BY <1>12, SettleSays DEF OwnInv, Cleaned
    <2>2. /\ eng'.pc \in {"attempt", "loop", "finish"}
          /\ eng'.payload = NoResult /\ eng'.verdict = NoResult
      BY <1>12, SettleSays, EndRunSays DEF Terminal, TypeInv
    <2>3. QED
      BY <2>1, <2>2, ResultKept DEF ResultInv, Alive
  <1>13. CASE Finish
    BY <1>13, FinishSays, MemoryType, ResultKept DEF ResultInv, Alive
  <1>14. CASE ReadChannel
    <2>1. /\ eng.pc = "watch" /\ UNCHANGED <<box, channel, count>> /\ eng'.pc = "watch"
          /\ eng'.step = eng.step /\ eng'.attempt = eng.attempt /\ eng'.h = eng.h
          /\ eng'.payload = channel[eng.step][eng.attempt] /\ eng'.verdict = eng.verdict
      BY <1>14, ReadChannelSays
    <2>2. QED
      BY <2>1 DEF ResultInv, Published, Channelled, Read, Own, Alive
  <1>15. CASE SignalStop
    <2>1. /\ UNCHANGED <<box, channel, count>> /\ eng'.pc = eng.pc
          /\ eng'.step = eng.step /\ eng'.attempt = eng.attempt /\ eng'.h = eng.h
          /\ eng'.payload = eng.payload /\ eng'.verdict = eng.verdict
      BY <1>15, SignalStopSays
    <2>2. QED
      BY <2>1 DEF ResultInv, Published, Channelled, Read, Own, Alive
  <1>16. CASE ForceStop
    BY <1>16, ForceStopSays, ResultIdle
  <1>17. CASE RecordStop
    BY <1>17, RecordStopSays, ResultIdle
  <1>18. CASE Restart
    BY <1>18, RestartSays, MemoryType, ResultKept DEF ResultInv, Alive
  <1>19. CASE ReapClaim
    BY <1>19, ReapClaimSays, ResultIdle
  <1>20. ASSUME NEW c \in Boxes, Publish(c) PROVE ResultInv'
    <2>1. /\ Alive(c) /\ UNCHANGED <<row, run, eng, count>>
          /\ \A d \in Boxes : Alive(d)' => Alive(d) /\ box'[d].visit = box[d].visit
          /\ channel'[c[1]][c[2]].by = c /\ channel'[c[1]][c[2]].visit = box[c].visit
          /\ \A t \in Steps, b \in Attempts :
               t # c[1] \/ b # c[2] => channel'[t][b] = channel[t][b]
      BY <1>20, PublishSays DEF Alive
    <2>2. box[c].visit = count.visits
      BY <2>1 DEF ResultInv, Published
    <2>3. \A d \in Boxes : Alive(d) => d = c
      BY <2>1 DEF OwnInv, Watched, Unwatched, Recorded
    <2>4. Published'
      BY <2>1, <2>2, <2>3 DEF ResultInv, Published, Own
    <2>5. eng.pc # "launch"
      BY <2>1 DEF OwnInv, Cleaned, Vacant
    <2>6. Channelled'
      <3>1. CASE eng.pc \in {"commit", "watch"}
        <4>1. c = eng.h /\ c[1] = eng.step /\ c[2] = eng.attempt
          BY <2>1, <3>1 DEF OwnInv, Watched, Watching
        <4>2. QED
          BY <2>1, <2>2, <3>1, <4>1 DEF Channelled, Own
      <3>2. CASE eng.pc \notin {"commit", "watch"}
        BY <2>1, <2>5, <3>2 DEF Channelled
      <3>3. QED
        BY <3>1, <3>2
    <2>7. Read'
      BY <2>1 DEF ResultInv, Read, Own
    <2>8. QED
      BY <2>4, <2>6, <2>7 DEF ResultInv
  <1>21. ASSUME NEW c \in Boxes, Exit(c) PROVE ResultInv'
    <2>1. /\ UNCHANGED <<eng, channel, count>>
          /\ \A d \in Boxes : Alive(d)' => Alive(d) /\ box'[d].visit = box[d].visit
      BY <1>21, ExitSays DEF Alive
    <2>2. QED
      BY <2>1 DEF ResultInv, Published, Channelled, Read, Own
  <1>22. CASE Decide
    BY <1>22, DecideSays, ResultIdle
  <1>23. CASE RequestStop
    BY <1>23, ResultIdle DEF RequestStop
  <1>24. CASE Crash
    BY <1>24, CrashSays, MemoryType, ResultKept DEF ResultInv, Alive
  <1>25. CASE UNCHANGED vars
    BY <1>25, ResultIdle DEF vars
  <1>26. QED
    BY <1>1, <1>2, <1>3, <1>4, <1>5, <1>6, <1>7, <1>8, <1>9, <1>10, <1>11, <1>12, <1>13,
       <1>14, <1>15, <1>16, <1>17, <1>18, <1>19, <1>20, <1>21, <1>22, <1>23, <1>24, <1>25
       DEF Next, Engine, Worker, Agent, User

\* In a tidy deployment every verdict the engine acts on was published by the container
\* it watches, launched for this visit of the step, although an earlier visit, and a
\* container lost in a crash, used the same key.
THEOREM VerdictsAreOwn == Tidy => (Spec => []VerdictIsOwn)
  <1> SUFFICES ASSUME Tidy PROVE Spec => []VerdictIsOwn
    OBVIOUS
  <1>1. TypeInv /\ TypeInv' /\ RowFollows /\ OwnInv /\ [Next]_vars => OwnInv'
    BY OwnNext
  <1>2. TypeInv /\ TypeInv' /\ RowFollows /\ OwnInv /\ ResultInv /\ [Next]_vars => ResultInv'
    BY ResultNext
  <1>3. ResultInv => VerdictIsOwn
    BY DEF ResultInv, Read, Own, VerdictIsOwn
  <1>4. QED
    BY TypeInit, TypeNext, FollowsInit, FollowsNext, OwnInit, ResultInit, <1>1, <1>2, <1>3, PTL
       DEF Spec
=============================================================================
