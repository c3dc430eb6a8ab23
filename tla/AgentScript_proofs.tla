------------------------- MODULE AgentScript_proofs -------------------------
(* What the containers' script keeps safe, proved for any number of steps or  *)
(* turns, of attempts, of containers alive at once and of mishaps.            *)
EXTENDS AgentScript, SequenceTheorems, TLAPS

\* The outbox answers turns and not the end; a step's container works on a step,
\* and has nothing to do with turns.
Turns == {"preamble", "await", "turn", "outbox"}
InRange(c) ==
    /\ At(c, "outbox") => box[c].item # End
    /\ mode = "step" /\ ~At(c, "absent") => box[c].item \in Items /\ box[c].pc \notin Turns

\* Costs: the baseline has caught up with what was charged.
Uncharged == {"absent", "clone", "skill", "preamble"}
Baseline(c) ==
    /\ box[c].base <= box[c].spent
    /\ box[c].charged + box[c].first <= box[c].base
    /\ box[c].pc \in Uncharged => box[c].charged = 0

TypeInv ==
    /\ TypeOK
    /\ \A c \in Boxes : InRange(c) /\ Baseline(c)
    /\ mode = "step" /\ job.state = "running" => job.item \in Items

-----------------------------------------------------------------------------
\* Logs: every commit restores the repository's own .claude.
LogClean(log) == \A i \in DOMAIN log : log[i].claude = Clean
LogsClean == LogClean(remote.log) /\ \A c \in Boxes : LogClean(box[c].log)

\* A branch that does not exist is empty.
NoBranch == ~remote.exists => remote.log = <<>>

PlumbingInv == TypeInv /\ LogsClean

-----------------------------------------------------------------------------
\* Messages of a session are numbered upwards: what a container works on, what
\* was last written to its inbox, what the engine is at.
Upwards ==
    mode = "session" =>
        /\ \A c \in Boxes : box[c].item <= inbox[c]
        /\ job.box # NoBox => inbox[job.box] <= job.item

\* A container that has not committed its item yet.
Uncommitted == {"absent", "clone", "skill", "agent", "preamble", "turn", "commit"}

\* What a container committed is of earlier items, or of the present one.
LogOfPast(log) ==
    \A i \in DOMAIN log :
        /\ log[i].item <= box[log[i].by].item
        /\ box[log[i].by].pc \in Uncommitted => log[i].item < box[log[i].by].item

LogOnce(log) ==
    \A i, j \in DOMAIN log : log[i].item = log[j].item /\ log[i].by = log[j].by => i = j

Numbered ==
    /\ LogOfPast(remote.log) /\ LogOnce(remote.log)
    /\ \A c \in Boxes : LogOfPast(box[c].log) /\ LogOnce(box[c].log)
    /\ \A c \in Boxes : At(c, "absent") => box[c].item = 0

OnceInv == TypeInv /\ Upwards /\ Numbered

-----------------------------------------------------------------------------
\* Answers lag behind the item in hand until the push has landed.
Answered(c) ==
    /\ outbox[c] <= box[c].item
    /\ box[c].pc \in {"agent", "turn", "commit", "push"} => outbox[c] < box[c].item
    /\ box[c].pc \in Uncharged => outbox[c] = 0

\* A verdict object is there when the container has exited and was not killed.
Stored(c) == store[c] # "none" => At(c, "exited")

OnRemote(c, i) == i \in DOMAIN remote.log /\ remote.log[i] = box[c].log[i]

\* The one commit that may be missing on the branch: nobody has been told of it.
Doubtful == {"push", "upload", "exited", "killed"}
Untold(c, i) ==
    /\ box[c].log[i].item = box[c].item /\ outbox[c] < box[c].item
    /\ box[c].pc \in Doubtful
    /\ At(c, "upload") => box[c].verdict \notin Outcomes
    /\ store[c] \notin Outcomes

Kept(c) == \A i \in DOMAIN box[c].log : OnRemote(c, i) \/ Untold(c, i)

Standing(c) == Answered(c) /\ Stored(c) /\ Kept(c)

\* What the engine accepted, it was told of.
Told ==
    \A a \in job.accepted :
        IF mode = "step" THEN store[a.by] \in Outcomes ELSE a.item <= outbox[a.by]

AcceptInv == OnceInv /\ NoBranch /\ (\A c \in Boxes : Standing(c)) /\ Told
-----------------------------------------------------------------------------
(* Types. *)

LEMMA Ranges ==
    /\ End \in Nat /\ End = NumItems + 1 /\ NumItems \in Nat \ {0} /\ Items = 1..NumItems
    /\ NoBox = 0 /\ NoBox \notin Boxes /\ MaxAttempts \in Nat \ {0} /\ MaxMishaps \in Nat
    /\ Clean \in {"none", "repo"}
  BY AgentAssumption DEF End, Items, NoBox, Boxes, Clean

\* A step changes container c and no other: where its script is, what it works
\* on, its log; and, in most steps, nothing but where its script is.
BoxMoves(c, pc, item, log) ==
    /\ box' = [box EXCEPT ![c] = box'[c]] /\ box'[c] \in Containers
    /\ box'[c].pc = pc /\ box'[c].item = item /\ box'[c].log = log
SameCosts(c) == /\ box'[c].spent = box[c].spent /\ box'[c].base = box[c].base
                /\ box'[c].first = box[c].first /\ box'[c].charged = box[c].charged
Quietly(c, pc) == BoxMoves(c, pc, box[c].item, box[c].log) /\ SameCosts(c)

\* The script fails: its verdict is no outcome.
Failed(c) == Quietly(c, "upload") /\ box'[c].verdict \notin Outcomes

LEMMA BoxType == ASSUME TypeInv, NEW c \in Boxes PROVE DOMAIN box = Boxes /\ box[c] \in Containers
  BY DEF TypeInv, TypeOK

LEMMA PcChanges ==
    ASSUME TypeInv, NEW c \in Boxes, NEW pc \in Pcs, box' = [box EXCEPT ![c].pc = pc]
    PROVE  Quietly(c, pc) /\ box'[c].verdict = box[c].verdict
  <1> DEFINE old == box[c]
             new == [old EXCEPT !.pc = pc]
  <1>1. old \in Containers
    BY BoxType
  <1>2. box' = [box EXCEPT ![c] = new]
    OBVIOUS
  <1> HIDE DEF old
  <1>3. /\ new \in Containers
        /\ new.pc = pc /\ new.item = old.item /\ new.log = old.log /\ new.verdict = old.verdict
        /\ new.spent = old.spent /\ new.base = old.base /\ new.first = old.first
        /\ new.charged = old.charged
    BY <1>1 DEF Containers, Pcs
  <1> HIDE DEF new
  <1>4. box'[c] = new
    BY <1>2, BoxType
  <1>5. QED
    BY <1>2, <1>3, <1>4 DEF old, Quietly, BoxMoves, SameCosts

LEMMA BoxFails ==
    ASSUME TypeInv, NEW c \in Boxes, NEW v \in Verdicts, NEW rc \in 0..4, NEW pc \in Pcs,
          box' = [box EXCEPT ![c].pc = pc, ![c].verdict = v, ![c].rc = rc]
    PROVE  Quietly(c, pc) /\ box'[c].verdict = v
  <1> DEFINE old == box[c]
             new == [old EXCEPT !.pc = pc, !.verdict = v, !.rc = rc]
  <1>1. old \in Containers
    BY BoxType
  <1>2. box' = [box EXCEPT ![c] = new]
    OBVIOUS
  <1> HIDE DEF old
  <1>3. /\ new \in Containers
        /\ new.pc = pc /\ new.item = old.item /\ new.log = old.log /\ new.verdict = v
        /\ new.spent = old.spent /\ new.base = old.base /\ new.first = old.first
        /\ new.charged = old.charged
    BY <1>1 DEF Containers, Pcs
  <1> HIDE DEF new
  <1>4. box'[c] = new
    BY <1>2, BoxType
  <1>5. QED
    BY <1>2, <1>3, <1>4 DEF old, Quietly, BoxMoves, SameCosts

LEMMA BoxFails2 ==
    ASSUME TypeInv, NEW c \in Boxes, NEW v \in Verdicts, NEW rc \in 0..4, NEW pc \in Pcs,
          box' = [box EXCEPT ![c].pc = pc, ![c].rc = rc, ![c].verdict = v]
    PROVE  Quietly(c, pc) /\ box'[c].verdict = v
  <1> DEFINE old == box[c]
             new == [old EXCEPT !.pc = pc, !.rc = rc, !.verdict = v]
  <1>1. old \in Containers
    BY BoxType
  <1>2. box' = [box EXCEPT ![c] = new]
    OBVIOUS
  <1> HIDE DEF old
  <1>3. /\ new \in Containers
        /\ new.pc = pc /\ new.item = old.item /\ new.log = old.log /\ new.verdict = v
        /\ new.spent = old.spent /\ new.base = old.base /\ new.first = old.first
        /\ new.charged = old.charged
    BY <1>1 DEF Containers, Pcs
  <1> HIDE DEF new
  <1>4. box'[c] = new
    BY <1>2, BoxType
  <1>5. QED
    BY <1>2, <1>3, <1>4 DEF old, Quietly, BoxMoves, SameCosts

LEMMA BoxClones ==
    ASSUME TypeInv, NEW c \in Boxes, NEW log \in Seq(Commits), NEW claude \in {"none", "repo", "bundle"},
           box' = [box EXCEPT ![c].pc = "skill", ![c].log = log, ![c].claude = claude]
    PROVE  BoxMoves(c, "skill", box[c].item, log) /\ SameCosts(c)
  <1> DEFINE old == box[c]
             new == [old EXCEPT !.pc = "skill", !.log = log, !.claude = claude]
  <1>1. old \in Containers
    BY BoxType
  <1>2. box' = [box EXCEPT ![c] = new]
    OBVIOUS
  <1> HIDE DEF old
  <1>3. /\ new \in Containers
        /\ new.pc = "skill" /\ new.item = old.item /\ new.log = log
        /\ new.spent = old.spent /\ new.base = old.base /\ new.first = old.first
        /\ new.charged = old.charged
    BY <1>1 DEF Containers, Pcs
  <1> HIDE DEF new
  <1>4. box'[c] = new
    BY <1>2, BoxType
  <1>5. QED
    BY <1>2, <1>3, <1>4 DEF old, BoxMoves, SameCosts

LEMMA BoxDelivers ==
    ASSUME TypeInv, NEW c \in Boxes, NEW pc \in Pcs,
           box' = [box EXCEPT ![c].pc = pc, ![c].claude = "bundle"]
    PROVE  Quietly(c, pc)
  <1> DEFINE old == box[c]
             new == [old EXCEPT !.pc = pc, !.claude = "bundle"]
  <1>1. old \in Containers
    BY BoxType
  <1>2. box' = [box EXCEPT ![c] = new]
    OBVIOUS
  <1> HIDE DEF old
  <1>3. /\ new \in Containers
        /\ new.pc = pc /\ new.item = old.item /\ new.log = old.log
        /\ new.spent = old.spent /\ new.base = old.base /\ new.first = old.first
        /\ new.charged = old.charged
    BY <1>1 DEF Containers, Pcs
  <1> HIDE DEF new
  <1>4. box'[c] = new
    BY <1>2, BoxType
  <1>5. QED
    BY <1>2, <1>3, <1>4 DEF old, Quietly, BoxMoves, SameCosts

LEMMA BoxWorks ==
    ASSUME TypeInv, NEW c \in Boxes, NEW work \in BOOLEAN, NEW v \in Verdicts,
           box' = [box EXCEPT ![c].pc = "commit", ![c].work = work, ![c].verdict = v]
    PROVE  Quietly(c, "commit")
  <1> DEFINE old == box[c]
             new == [old EXCEPT !.pc = "commit", !.work = work, !.verdict = v]
  <1>1. old \in Containers
    BY BoxType
  <1>2. box' = [box EXCEPT ![c] = new]
    OBVIOUS
  <1> HIDE DEF old
  <1>3. /\ new \in Containers
        /\ new.pc = "commit" /\ new.item = old.item /\ new.log = old.log
        /\ new.spent = old.spent /\ new.base = old.base /\ new.first = old.first
        /\ new.charged = old.charged
    BY <1>1 DEF Containers, Pcs
  <1> HIDE DEF new
  <1>4. box'[c] = new
    BY <1>2, BoxType
  <1>5. QED
    BY <1>2, <1>3, <1>4 DEF old, Quietly, BoxMoves, SameCosts

LEMMA BoxCommits ==
    ASSUME TypeInv, NEW c \in Boxes, NEW log \in Seq(Commits), NEW claude \in {"none", "repo", "bundle"},
           box' = [box EXCEPT ![c] = [[box[c] EXCEPT !.claude = claude] EXCEPT
                                        !.pc = "push", !.work = FALSE, !.log = log]]
    PROVE  BoxMoves(c, "push", box[c].item, log) /\ SameCosts(c)
  <1> DEFINE old == box[c]
             new == [[old EXCEPT !.claude = claude] EXCEPT !.pc = "push", !.work = FALSE, !.log = log]
  <1>1. old \in Containers
    BY BoxType
  <1>2. box' = [box EXCEPT ![c] = new]
    OBVIOUS
  <1> HIDE DEF old
  <1>3. /\ new \in Containers
        /\ new.pc = "push" /\ new.item = old.item /\ new.log = log
        /\ new.spent = old.spent /\ new.base = old.base /\ new.first = old.first
        /\ new.charged = old.charged
    BY <1>1 DEF Containers, Pcs
  <1> HIDE DEF new
  <1>4. box'[c] = new
    BY <1>2, BoxType
  <1>5. QED
    BY <1>2, <1>3, <1>4 DEF old, BoxMoves, SameCosts

LEMMA BoxSeeds ==
    ASSUME TypeInv, NEW c \in Boxes, box' = [box EXCEPT ![c] = Seeded(box[c])]
    PROVE  /\ BoxMoves(c, "await", box[c].item, box[c].log)
           /\ box'[c].spent = 1 /\ box'[c].first = 1 /\ box'[c].base = 1
           /\ box'[c].charged = box[c].charged
  <1> DEFINE old == box[c]
             new == Seeded(old)
  <1>1. old \in Containers
    BY BoxType
  <1>2. box' = [box EXCEPT ![c] = new]
    OBVIOUS
  <1> HIDE DEF old
  <1>3. /\ new \in Containers
        /\ new.pc = "await" /\ new.item = old.item /\ new.log = old.log
        /\ new.spent = 1 /\ new.first = 1 /\ new.base = 1 /\ new.charged = old.charged
    BY <1>1 DEF Containers, Pcs, Seeded
  <1> HIDE DEF new
  <1>4. box'[c] = new
    BY <1>2, BoxType
  <1>5. QED
    BY <1>2, <1>3, <1>4 DEF old, BoxMoves

LEMMA BoxReads ==
    ASSUME TypeInv, NEW c \in Boxes, NEW item \in 0..End, NEW pc \in Pcs,
           box' = [box EXCEPT ![c].item = item, ![c].verdict = "completed", ![c].pc = pc]
    PROVE  BoxMoves(c, pc, item, box[c].log) /\ SameCosts(c)
  <1> DEFINE old == box[c]
             new == [old EXCEPT !.item = item, !.verdict = "completed", !.pc = pc]
  <1>1. old \in Containers
    BY BoxType
  <1>2. box' = [box EXCEPT ![c] = new]
    OBVIOUS
  <1> HIDE DEF old
  <1>3. /\ new \in Containers
        /\ new.pc = pc /\ new.item = item /\ new.log = old.log
        /\ new.spent = old.spent /\ new.base = old.base /\ new.first = old.first
        /\ new.charged = old.charged
    BY <1>1 DEF Containers, Pcs, Verdicts, Outcomes
  <1> HIDE DEF new
  <1>4. box'[c] = new
    BY <1>2, BoxType
  <1>5. QED
    BY <1>2, <1>3, <1>4 DEF old, BoxMoves, SameCosts

LEMMA BoxAnswers ==
    ASSUME TypeInv, NEW c \in Boxes, NEW work \in BOOLEAN, NEW reported \in BOOLEAN,
           NEW spent, spent = box[c].spent + 1,
           box' = [box EXCEPT ![c].pc = "commit", ![c].work = work, ![c].spent = spent,
                              ![c].charged = IF reported THEN @ + spent - box[c].base ELSE @,
                              ![c].base = IF reported THEN spent ELSE @]
    PROVE  /\ BoxMoves(c, "commit", box[c].item, box[c].log)
           /\ box'[c].spent = box[c].spent + 1 /\ box'[c].first = box[c].first
           /\ \/ /\ box'[c].charged = box[c].charged + box'[c].spent - box[c].base
                 /\ box'[c].base = box'[c].spent
              \/ /\ box'[c].charged = box[c].charged
                 /\ box'[c].base = box[c].base
  <1> DEFINE charged == IF reported THEN box[c].charged + spent - box[c].base ELSE box[c].charged
             base == IF reported THEN spent ELSE box[c].base
             new == [box[c] EXCEPT !.pc = "commit", !.work = work, !.spent = spent,
                                   !.charged = charged, !.base = base]
  <1>1. box[c] \in Containers /\ DOMAIN box = Boxes
    BY BoxType
  <1>2. box'[c] = new /\ box' = [box EXCEPT ![c] = new]
    BY <1>1 DEF Containers
  <1>3. /\ box[c].charged \in Nat /\ box[c].base \in Nat /\ box[c].spent \in Nat
        /\ box[c].base <= box[c].spent
    BY <1>1 DEF Containers, TypeInv, Baseline
  <1>4. spent \in Nat /\ charged \in Nat /\ base \in Nat
    BY <1>3
  <1> HIDE DEF charged, base
  <1>5. /\ new \in Containers /\ new.pc = "commit" /\ new.item = box[c].item /\ new.log = box[c].log
        /\ new.spent = spent /\ new.first = box[c].first /\ new.charged = charged /\ new.base = base
    BY <1>1, <1>4 DEF Containers, Pcs
  <1> HIDE DEF new
  <1>6. QED
    BY <1>2, <1>5 DEF BoxMoves, charged, base

LEMMA BoxBreaks ==
    ASSUME TypeInv, NEW c \in Boxes, box' = [box EXCEPT ![c].cli = "dead"]
    PROVE  Quietly(c, box[c].pc) /\ box'[c].verdict = box[c].verdict
  <1> DEFINE old == box[c]
             new == [old EXCEPT !.cli = "dead"]
  <1>1. old \in Containers
    BY BoxType
  <1>2. box' = [box EXCEPT ![c] = new]
    OBVIOUS
  <1> HIDE DEF old
  <1>3. /\ new \in Containers
        /\ new.pc = old.pc /\ new.item = old.item /\ new.log = old.log /\ new.verdict = old.verdict
        /\ new.spent = old.spent /\ new.base = old.base /\ new.first = old.first
        /\ new.charged = old.charged
    BY <1>1 DEF Containers, Pcs
  <1> HIDE DEF new
  <1>4. box'[c] = new
    BY <1>2, BoxType
  <1>5. QED
    BY <1>2, <1>3, <1>4 DEF old, Quietly, BoxMoves, SameCosts

LEMMA BoxStarts ==
    ASSUME TypeInv, NEW c \in Boxes, NEW item \in 0..End,
           box' = [box EXCEPT ![c].pc = "clone", ![c].item = item]
    PROVE  BoxMoves(c, "clone", item, box[c].log) /\ SameCosts(c)
  <1> DEFINE old == box[c]
             new == [old EXCEPT !.pc = "clone", !.item = item]
  <1>1. old \in Containers
    BY BoxType
  <1>2. box' = [box EXCEPT ![c] = new]
    OBVIOUS
  <1> HIDE DEF old
  <1>3. /\ new \in Containers
        /\ new.pc = "clone" /\ new.item = item /\ new.log = old.log
        /\ new.spent = old.spent /\ new.base = old.base /\ new.first = old.first
        /\ new.charged = old.charged
    BY <1>1 DEF Containers, Pcs
  <1> HIDE DEF new
  <1>4. box'[c] = new
    BY <1>2, BoxType
  <1>5. QED
    BY <1>2, <1>3, <1>4 DEF old, BoxMoves, SameCosts

-----------------------------------------------------------------------------
(* What each step of the script does to its container. *)

LEMMA FailSays ==
    ASSUME TypeInv, NEW c \in Boxes, NEW v, v \in {"failed_init", "failed_infra", "failed_execution"},
           NEW rc \in 0..4, Fail(c, v, rc)
    PROVE  Failed(c)
  <1>1. v \in Verdicts /\ v \notin Outcomes
    BY DEF Verdicts, Transient, Outcomes
  <1>2. "upload" \in Pcs
    BY DEF Pcs
  <1>3. Quietly(c, "upload") /\ box'[c].verdict = v
    BY <1>1, <1>2, BoxFails DEF Fail
  <1>4. QED
    BY <1>1, <1>3 DEF Failed

LEMMA CloneSays ==
    ASSUME TypeInv, NEW c \in Boxes, Clone(c)
    PROVE  /\ At(c, "clone")
           /\ \/ \E log \in {remote.log, <<>>} :
                    BoxMoves(c, "skill", box[c].item, log) /\ SameCosts(c)
              \/ Failed(c)
  <1>1. CASE Fail(c, "failed_init", 3)
    BY <1>1, FailSays DEF Clone
  <1>2. ASSUME NEW log \in {remote.log, <<>>},
               box' = [box EXCEPT ![c].pc = "skill", ![c].log = log, ![c].claude = Clean]
        PROVE  BoxMoves(c, "skill", box[c].item, log) /\ SameCosts(c)
    <2>1. remote \in [exists : BOOLEAN, log : Seq(Commits)]
      BY DEF TypeInv, TypeOK
    <2>2. remote.log \in Seq(Commits) /\ <<>> \in Seq(Commits)
      BY <2>1
    <2>3. log \in Seq(Commits) /\ Clean \in {"none", "repo", "bundle"}
      BY <2>2, Ranges
    <2>4. QED
      BY <1>2, <2>3, BoxClones
  <1>3. QED
    BY <1>1, <1>2 DEF Clone

LEMMA DeliverSkillSays ==
    ASSUME TypeInv, NEW c \in Boxes, DeliverSkill(c)
    PROVE  /\ At(c, "skill")
           /\ \/ Quietly(c, IF mode = "step" THEN "agent" ELSE "preamble")
              \/ Failed(c)
  <1>1. CASE Fail(c, "failed_infra", 4)
    BY <1>1, FailSays DEF DeliverSkill
  <1>2. ASSUME NEW pc \in {"agent", "preamble"}, box' = [box EXCEPT ![c].pc = pc, ![c].claude = "bundle"]
        PROVE  Quietly(c, pc)
    BY <1>2, BoxDelivers DEF Pcs
  <1>3. QED
    BY <1>1, <1>2 DEF DeliverSkill

LEMMA RunAgentSays ==
    ASSUME TypeInv, NEW c \in Boxes, RunAgent(c)
    PROVE  At(c, "agent") /\ (Quietly(c, "commit") \/ Failed(c))
  <1>1. CASE Fail(c, "failed_execution", 1)
    <2>1. Failed(c)
      BY <1>1, FailSays
    <2>2. QED
      BY <2>1 DEF RunAgent
  <1>2. ASSUME NEW work \in BOOLEAN, NEW v \in Outcomes,
               box' = [box EXCEPT ![c].pc = "commit", ![c].work = work, ![c].verdict = v]
        PROVE  Quietly(c, "commit")
    BY <1>2, BoxWorks DEF Verdicts
  <1>3. QED
    BY <1>1, <1>2 DEF RunAgent

LEMMA CommitSays ==
    ASSUME TypeInv, NEW c \in Boxes, Commit(c)
    PROVE  /\ At(c, "commit") /\ SameCosts(c)
           /\ \E log \in {box[c].log,
                           Append(box[c].log, [item |-> box[c].item, by |-> c, claude |-> Clean])} :
                 BoxMoves(c, "push", box[c].item, log)
  <1> DEFINE commit == [item |-> box[c].item, by |-> c, claude |-> Clean]
             old == box[c].log
             new == Append(old, commit)
  <1>1. box[c] \in Containers
    BY BoxType
  <1>2. commit \in Commits /\ old \in Seq(Commits) /\ new \in Seq(Commits)
    BY <1>1, Ranges DEF Containers, Commits
  <1>3. Stage(c) = [box[c] EXCEPT !.claude = Clean]
    BY DEF Stage
  <1>4. Stage(c).item = box[c].item /\ Stage(c).claude = Clean /\ Stage(c).log = box[c].log
    BY <1>1, <1>3 DEF Containers
  <1>5. \E log \in {old, new} :
           box' = [box EXCEPT ![c] = [Stage(c) EXCEPT !.pc = "push", !.work = FALSE, !.log = log]]
    BY <1>4 DEF Commit
  <1>6. QED
    BY <1>2, <1>3, <1>5, BoxCommits, Ranges DEF Commit

LEMMA PushSays ==
    ASSUME TypeInv, NEW c \in Boxes, Push(c)
    PROVE  /\ At(c, "push")
           /\ \/ /\ FastForward(c) /\ Landed(c)
                 /\ Quietly(c, IF mode = "step" \/ box[c].item = End THEN "emit" ELSE "outbox")
              \/ Failed(c) /\ ((FastForward(c) /\ Landed(c)) \/ UNCHANGED remote)
  <1>1. CASE Fail(c, "failed_infra", 4)
    <2>1. Failed(c)
      BY <1>1, FailSays
    <2>2. (FastForward(c) /\ Landed(c)) \/ UNCHANGED remote
      BY DEF Push
    <2>3. QED
      BY <2>1, <2>2 DEF Push
  <1>2. CASE FastForward(c) /\ Landed(c) /\ Pushed(c)
    BY <1>2, PcChanges DEF Push, Pushed, Pcs
  <1>3. QED
    BY <1>1, <1>2 DEF Push

LEMMA PreambleSays ==
    ASSUME TypeInv, NEW c \in Boxes, Preamble(c)
    PROVE  /\ At(c, "preamble")
           /\ \/ /\ BoxMoves(c, "await", box[c].item, box[c].log)
                 /\ box'[c].spent = 1 /\ box'[c].first = 1 /\ box'[c].base = 1
                 /\ box'[c].charged = box[c].charged
              \/ Failed(c)
  <1>1. CASE Fail(c, "failed_execution", 1)
    BY <1>1, FailSays DEF Preamble
  <1>2. CASE box' = [box EXCEPT ![c] = Seeded(box[c])]
    BY <1>2, BoxSeeds DEF Preamble
  <1>3. QED
    BY <1>1, <1>2 DEF Preamble

LEMMA SessionLoopSays ==
    ASSUME TypeInv, NEW c \in Boxes, SessionLoop(c)
    PROVE  /\ At(c, "await")
           /\ \/ /\ NewTurn(c) /\ SameCosts(c)
                 /\ BoxMoves(c, IF inbox[c] = End THEN "commit" ELSE "turn", inbox[c], box[c].log)
              \/ Failed(c)
  <1>1. inbox[c] \in 0..End
    BY DEF TypeInv, TypeOK
  <1>2. CASE Fail(c, "failed_execution", 1)
    BY <1>2, FailSays DEF SessionLoop, Await
  <1>3. ASSUME NEW pc \in {"commit", "turn"},
               box' = [box EXCEPT ![c].item = inbox[c], ![c].verdict = "completed", ![c].pc = pc]
        PROVE  BoxMoves(c, pc, inbox[c], box[c].log) /\ SameCosts(c)
    BY <1>1, <1>3, BoxReads DEF Pcs
  <1>4. QED
    BY <1>2, <1>3 DEF SessionLoop, Await

LEMMA AnswerTurnSays ==
    ASSUME TypeInv, NEW c \in Boxes, AnswerTurn(c)
    PROVE  /\ At(c, "turn")
           /\ \/ /\ BoxMoves(c, "commit", box[c].item, box[c].log)
                 /\ box'[c].spent = box[c].spent + 1 /\ box'[c].first = box[c].first
                 /\ \/ /\ box'[c].charged = box[c].charged + box'[c].spent - box[c].base
                       /\ box'[c].base = box'[c].spent
                    \/ /\ box'[c].charged = box[c].charged
                       /\ box'[c].base = box[c].base
              \/ Failed(c)
  <1>1. CASE box[c].cli = "dead"
    BY <1>1, FailSays DEF AnswerTurn
  <1>2. CASE box[c].cli # "dead"
    BY <1>2, BoxAnswers DEF AnswerTurn
  <1>3. QED
    BY <1>1, <1>2

LEMMA PublishOutboxSays ==
    ASSUME TypeInv, NEW c \in Boxes, PublishOutbox(c)
    PROVE  /\ At(c, "outbox")
           /\ \/ Quietly(c, "await") /\ outbox' = [outbox EXCEPT ![c] = box[c].item]
              \/ Failed(c) /\ outbox' \in {outbox, [outbox EXCEPT ![c] = box[c].item]}
  <1>1. CASE Fail(c, "failed_infra", 4)
    <2>1. Failed(c)
      BY <1>1, FailSays
    <2>2. QED
      BY <2>1 DEF PublishOutbox
  <1>2. CASE Go(c, "await") /\ outbox' = [outbox EXCEPT ![c] = box[c].item]
    BY <1>2, PcChanges DEF PublishOutbox, Go, Pcs
  <1>3. QED
    BY <1>1, <1>2 DEF PublishOutbox

LEMMA EmitSays ==
    ASSUME TypeInv, NEW c \in Boxes, Emit(c)
    PROVE  At(c, "emit") /\ Quietly(c, "upload")
  BY PcChanges DEF Emit, Go, Pcs

LEMMA OnExitSays ==
    ASSUME TypeInv, NEW c \in Boxes, OnExit(c)
    PROVE  /\ At(c, "upload") /\ Quietly(c, "exited")
           /\ store' \in {store, [store EXCEPT ![c] = box[c].verdict]}
  <1>1. "exited" \in Pcs /\ "failed_infra" \in Verdicts /\ 4 \in 0..4
    BY DEF Pcs, Verdicts, Transient
  <1>2. CASE Go(c, "exited")
    BY <1>1, <1>2, PcChanges DEF OnExit, Go
  <1>3. CASE box' = [box EXCEPT ![c].pc = "exited", ![c].rc = 4, ![c].verdict = "failed_infra"]
    <2>1. Quietly(c, "exited")
      BY <1>1, <1>3, BoxFails2
    <2>2. QED
      BY <2>1 DEF OnExit
  <1>4. QED
    BY <1>2, <1>3 DEF OnExit

LEMMA DieSays ==
    ASSUME TypeInv, NEW c \in Boxes, Die(c)
    PROVE  /\ Alive(c)
           /\ \/ Quietly(c, "killed")
              \/ Quietly(c, box[c].pc) /\ box'[c].verdict = box[c].verdict
  BY PcChanges, BoxBreaks DEF Die, Go, Pcs

-----------------------------------------------------------------------------
(* Every step keeps the types. *)

LEMMA BoxAfter ==
    ASSUME TypeInv, NEW c \in Boxes, NEW pc, NEW item, NEW log, BoxMoves(c, pc, item, log)
    PROVE  box' \in [Boxes -> Containers] /\ \A d \in Boxes \ {c} : box'[d] = box[d]
  BY BoxType DEF TypeInv, TypeOK, BoxMoves

LEMMA SameCostsType ==
    ASSUME TypeInv, NEW c \in Boxes, SameCosts(c), box'[c].pc \in Uncharged => box[c].pc \in Uncharged
    PROVE  Baseline(c)'
  BY DEF TypeInv, Baseline, SameCosts

\* What a step of container c leaves to be shown.
LEMMA ScriptTypes ==
    ASSUME TypeInv, NEW c \in Boxes, NEW pc, NEW item, NEW log, BoxMoves(c, pc, item, log),
           InRange(c)', Baseline(c)', UNCHANGED <<mode, tracked, inbox, job>>,
           remote' \in [exists : BOOLEAN, log : Seq(Commits)], store' \in [Boxes -> Verdicts],
           outbox' \in [Boxes -> 0..NumItems], mishaps' \in 0..MaxMishaps
    PROVE  TypeInv'
  <1>1. TypeOK'
    BY BoxAfter DEF TypeInv, TypeOK
  <1>2. \A d \in Boxes : InRange(d)' /\ Baseline(d)'
    BY BoxAfter DEF TypeInv, InRange, Baseline, At
  <1>3. QED
    BY <1>1, <1>2 DEF TypeInv

\* What holds of the other variables in all steps.
LEMMA OtherTypes ==
    ASSUME TypeInv
    PROVE  /\ remote \in [exists : BOOLEAN, log : Seq(Commits)] /\ store \in [Boxes -> Verdicts]
           /\ outbox \in [Boxes -> 0..NumItems] /\ inbox \in [Boxes -> 0..End]
           /\ mishaps \in 0..MaxMishaps /\ (Mishap \/ NoMishap => mishaps' \in 0..MaxMishaps)
  BY Ranges DEF TypeInv, TypeOK, Mishap, NoMishap

\* A quiet step to a pc that is not about turns.
LEMMA QuietTypes ==
    ASSUME TypeInv, NEW c \in Boxes, ~At(c, "absent"), NEW pc \in Pcs \ (Turns \cup Uncharged),
           Quietly(c, pc), mode' = mode
    PROVE  InRange(c)' /\ Baseline(c)'
  <1>1. Baseline(c)'
    BY SameCostsType DEF Quietly, BoxMoves
  <1>2. InRange(c)'
    BY DEF TypeInv, InRange, At, Quietly, BoxMoves, Turns
  <1>3. QED
    BY <1>1, <1>2

LEMMA FailedTypes ==
    ASSUME TypeInv, NEW c \in Boxes, ~At(c, "absent"), Failed(c), mode' = mode
    PROVE  InRange(c)' /\ Baseline(c)'
  BY QuietTypes DEF Failed, Pcs, Turns, Uncharged

LEMMA CloneType == ASSUME TypeInv, NEW c \in Boxes, Clone(c) PROVE TypeInv'
  <1>1. UNCHANGED <<mode, tracked, remote, store, inbox, outbox, job>> /\ (Mishap \/ NoMishap)
    BY DEF Clone
  <1>2. CASE Failed(c)
    BY <1>1, <1>2, CloneSays, FailedTypes, ScriptTypes, OtherTypes DEF Failed, Quietly, At
  <1>3. ASSUME NEW log, BoxMoves(c, "skill", box[c].item, log), SameCosts(c)
        PROVE  TypeInv'
    <2>1. At(c, "clone")
      BY CloneSays
    <2>2. Baseline(c)'
      BY <1>3, <2>1, SameCostsType DEF BoxMoves, Uncharged, At
    <2>3. InRange(c)'
      BY <1>1, <1>3, <2>1 DEF TypeInv, InRange, At, BoxMoves, Turns
    <2>4. QED
      BY <1>1, <1>3, <2>2, <2>3, ScriptTypes, OtherTypes
  <1>4. QED
    BY <1>2, <1>3, CloneSays

LEMMA DeliverSkillType == ASSUME TypeInv, NEW c \in Boxes, DeliverSkill(c) PROVE TypeInv'
  <1>1. UNCHANGED <<mode, tracked, remote, store, inbox, outbox, job>> /\ (Mishap \/ NoMishap)
    BY DEF DeliverSkill
  <1>2. At(c, "skill")
    BY DeliverSkillSays
  <1>3. CASE Failed(c)
    BY <1>1, <1>2, <1>3, FailedTypes, ScriptTypes, OtherTypes DEF Failed, Quietly, At
  <1>4. CASE Quietly(c, IF mode = "step" THEN "agent" ELSE "preamble")
    <2>1. Baseline(c)'
      BY <1>2, <1>4, SameCostsType DEF Quietly, BoxMoves, Uncharged, At
    <2>2. InRange(c)'
      BY <1>1, <1>2, <1>4 DEF TypeInv, InRange, At, Quietly, BoxMoves, Turns
    <2>3. QED
      BY <1>1, <1>4, <2>1, <2>2, ScriptTypes, OtherTypes DEF Quietly
  <1>5. QED
    BY <1>3, <1>4, DeliverSkillSays

LEMMA RunAgentType == ASSUME TypeInv, NEW c \in Boxes, RunAgent(c) PROVE TypeInv'
  <1>1. UNCHANGED <<mode, tracked, remote, store, inbox, outbox, job>> /\ (Mishap \/ NoMishap)
    BY DEF RunAgent
  <1>2. PICK pc \in {"commit", "upload"} : Quietly(c, pc)
    BY RunAgentSays DEF Failed
  <1>3. pc \in Pcs \ (Turns \cup Uncharged) /\ ~At(c, "absent")
    BY RunAgentSays DEF Pcs, Turns, Uncharged, At
  <1>4. InRange(c)' /\ Baseline(c)'
    BY <1>1, <1>2, <1>3, QuietTypes
  <1>5. QED
    BY <1>1, <1>2, <1>4, ScriptTypes, OtherTypes DEF Quietly

LEMMA CommitType == ASSUME TypeInv, NEW c \in Boxes, Commit(c) PROVE TypeInv'
  <1>1. UNCHANGED <<mode, tracked, remote, store, inbox, outbox, job, mishaps>>
    BY DEF Commit
  <1>2. PICK log : BoxMoves(c, "push", box[c].item, log)
    BY CommitSays
  <1>3. Baseline(c)'
    BY <1>2, CommitSays, SameCostsType DEF BoxMoves, Uncharged
  <1>4. InRange(c)'
    BY <1>1, <1>2, CommitSays DEF TypeInv, InRange, At, BoxMoves, Turns
  <1>5. QED
    BY <1>1, <1>2, <1>3, <1>4, ScriptTypes, OtherTypes

LEMMA PushType == ASSUME TypeInv, NEW c \in Boxes, Push(c) PROVE TypeInv'
  <1>1. UNCHANGED <<mode, tracked, store, inbox, outbox, job>> /\ (Mishap \/ NoMishap)
    BY DEF Push
  <1>2. At(c, "push")
    BY PushSays
  <1>3. remote' \in [exists : BOOLEAN, log : Seq(Commits)]
    <2>1. UNCHANGED remote \/ Landed(c)
      BY PushSays
    <2>2. box[c].log \in Seq(Commits)
      BY BoxType DEF Containers
    <2>3. Landed(c) => remote' \in [exists : BOOLEAN, log : Seq(Commits)]
      BY <2>2 DEF Landed
    <2>4. QED
      BY <2>1, <2>3, OtherTypes
  <1>4. CASE Failed(c)
    BY <1>1, <1>2, <1>3, <1>4, FailedTypes, ScriptTypes, OtherTypes DEF Failed, Quietly, At
  <1>5. CASE Quietly(c, IF mode = "step" \/ box[c].item = End THEN "emit" ELSE "outbox")
    <2>1. Baseline(c)'
      BY <1>5, SameCostsType DEF Quietly, BoxMoves, Uncharged
    <2>2. InRange(c)'
      BY <1>1, <1>2, <1>5 DEF TypeInv, InRange, At, Quietly, BoxMoves, Turns
    <2>3. QED
      BY <1>1, <1>3, <1>5, <2>1, <2>2, ScriptTypes, OtherTypes DEF Quietly
  <1>6. QED
    BY <1>4, <1>5, PushSays

LEMMA PreambleType == ASSUME TypeInv, NEW c \in Boxes, Preamble(c) PROVE TypeInv'
  <1>1. UNCHANGED <<mode, tracked, remote, store, inbox, outbox, job>> /\ (Mishap \/ NoMishap)
    BY DEF Preamble
  <1>2. At(c, "preamble")
    BY PreambleSays
  <1>3. CASE Failed(c)
    BY <1>1, <1>2, <1>3, FailedTypes, ScriptTypes, OtherTypes DEF Failed, Quietly, At
  <1>4. CASE /\ BoxMoves(c, "await", box[c].item, box[c].log)
             /\ box'[c].spent = 1 /\ box'[c].first = 1 /\ box'[c].base = 1
             /\ box'[c].charged = box[c].charged
    <2>1. box[c].charged = 0
      BY <1>2 DEF TypeInv, Baseline, Uncharged, At
    <2>2. Baseline(c)'
      BY <1>4, <2>1 DEF Baseline, BoxMoves, Uncharged
    <2>3. InRange(c)'
      BY <1>1, <1>2, <1>4 DEF TypeInv, InRange, At, BoxMoves, Turns
    <2>4. QED
      BY <1>1, <1>4, <2>2, <2>3, ScriptTypes, OtherTypes
  <1>5. QED
    BY <1>3, <1>4, PreambleSays

LEMMA SessionLoopType == ASSUME TypeInv, NEW c \in Boxes, SessionLoop(c) PROVE TypeInv'
  <1>1. UNCHANGED <<mode, tracked, remote, store, inbox, outbox, job, mishaps>>
    BY DEF SessionLoop
  <1>2. At(c, "await")
    BY SessionLoopSays
  <1>3. CASE Failed(c)
    BY <1>1, <1>2, <1>3, FailedTypes, ScriptTypes, OtherTypes DEF Failed, Quietly, At
  <1>4. CASE /\ SameCosts(c)
             /\ BoxMoves(c, IF inbox[c] = End THEN "commit" ELSE "turn", inbox[c], box[c].log)
    <2>1. Baseline(c)'
      BY <1>4, SameCostsType DEF BoxMoves, Uncharged
    <2>2. InRange(c)'
      BY <1>1, <1>2, <1>4 DEF TypeInv, InRange, At, BoxMoves, Turns
    <2>3. QED
      BY <1>1, <1>4, <2>1, <2>2, ScriptTypes, OtherTypes
  <1>5. QED
    BY <1>3, <1>4, SessionLoopSays

LEMMA AnswerTurnType == ASSUME TypeInv, NEW c \in Boxes, AnswerTurn(c) PROVE TypeInv'
  <1>1. UNCHANGED <<mode, tracked, remote, store, inbox, outbox, job, mishaps>>
    BY DEF AnswerTurn
  <1>2. At(c, "turn")
    BY AnswerTurnSays
  <1>3. CASE Failed(c)
    BY <1>1, <1>2, <1>3, FailedTypes, ScriptTypes, OtherTypes DEF Failed, Quietly, At
  <1>4. CASE ~Failed(c)
    <2>1. BoxMoves(c, "commit", box[c].item, box[c].log)
      BY <1>4, AnswerTurnSays
    <2>2. /\ box[c].charged \in Nat /\ box[c].base \in Nat /\ box[c].spent \in Nat
          /\ box[c].first \in Nat
      BY BoxType DEF Containers
    <2>3. /\ box'[c].base <= box'[c].spent
          /\ box'[c].charged + box'[c].first <= box'[c].base
      BY <1>4, <2>2, AnswerTurnSays DEF TypeInv, Baseline
    <2>4. Baseline(c)'
      BY <2>1, <2>3 DEF Baseline, BoxMoves, Uncharged
    <2>5. InRange(c)'
      BY <1>1, <1>2, <2>1 DEF TypeInv, InRange, At, BoxMoves, Turns
    <2>6. QED
      BY <1>1, <2>1, <2>4, <2>5, ScriptTypes, OtherTypes
  <1>5. QED
    BY <1>3, <1>4

LEMMA PublishOutboxType == ASSUME TypeInv, NEW c \in Boxes, PublishOutbox(c) PROVE TypeInv'
  <1>1. UNCHANGED <<mode, tracked, remote, store, inbox, job>> /\ (Mishap \/ NoMishap)
    BY DEF PublishOutbox
  <1>2. At(c, "outbox")
    BY PublishOutboxSays
  <1>3. outbox' \in [Boxes -> 0..NumItems]
    <2>1. box[c].item \in 0..End /\ box[c].item # End
      BY <1>2, BoxType DEF Containers, TypeInv, InRange
    <2>2. box[c].item \in 0..NumItems
      BY <2>1, Ranges
    <2>3. QED
      BY <2>2, OtherTypes, PublishOutboxSays
  <1>4. CASE Failed(c)
    BY <1>1, <1>2, <1>3, <1>4, FailedTypes, ScriptTypes, OtherTypes DEF Failed, Quietly, At
  <1>5. CASE Quietly(c, "await")
    <2>1. Baseline(c)'
      BY <1>5, SameCostsType DEF Quietly, BoxMoves, Uncharged
    <2>2. InRange(c)'
      BY <1>1, <1>2, <1>5 DEF TypeInv, InRange, At, Quietly, BoxMoves, Turns
    <2>3. QED
      BY <1>1, <1>3, <1>5, <2>1, <2>2, ScriptTypes, OtherTypes DEF Quietly
  <1>6. QED
    BY <1>4, <1>5, PublishOutboxSays

LEMMA EmitType == ASSUME TypeInv, NEW c \in Boxes, Emit(c) PROVE TypeInv'
  <1>1. UNCHANGED <<mode, tracked, remote, store, inbox, outbox, job, mishaps>>
    BY DEF Emit
  <1>2. "upload" \in Pcs \ (Turns \cup Uncharged) /\ ~At(c, "absent")
    BY EmitSays DEF Pcs, Turns, Uncharged, At
  <1>3. InRange(c)' /\ Baseline(c)'
    BY <1>1, <1>2, EmitSays, QuietTypes
  <1>4. QED
    BY <1>1, <1>3, EmitSays, ScriptTypes, OtherTypes DEF Quietly

LEMMA OnExitType == ASSUME TypeInv, NEW c \in Boxes, OnExit(c) PROVE TypeInv'
  <1>1. UNCHANGED <<mode, tracked, remote, inbox, outbox, job>> /\ (Mishap \/ NoMishap)
    BY DEF OnExit
  <1>2. "exited" \in Pcs \ (Turns \cup Uncharged) /\ ~At(c, "absent")
    BY OnExitSays DEF Pcs, Turns, Uncharged, At
  <1>3. InRange(c)' /\ Baseline(c)'
    BY <1>1, <1>2, OnExitSays, QuietTypes
  <1>4. store' \in [Boxes -> Verdicts]
    <2>1. box[c].verdict \in Verdicts
      BY BoxType DEF Containers
    <2>2. QED
      BY <2>1, OnExitSays, OtherTypes
  <1>5. QED
    BY <1>1, <1>3, <1>4, OnExitSays, ScriptTypes, OtherTypes DEF Quietly

LEMMA DieType == ASSUME TypeInv, NEW c \in Boxes, Die(c) PROVE TypeInv'
  <1>1. UNCHANGED <<mode, tracked, remote, store, inbox, outbox, job>> /\ Mishap
    BY DEF Die
  <1>2. Alive(c)
    BY DieSays
  <1>3. PICK pc \in {"killed", box[c].pc} : Quietly(c, pc)
    BY DieSays
  <1>4. Baseline(c)'
    BY <1>3, SameCostsType DEF Quietly, BoxMoves, Uncharged
  <1>5. InRange(c)'
    BY <1>1, <1>2, <1>3 DEF TypeInv, InRange, At, Alive, Quietly, BoxMoves, Turns
  <1>6. QED
    BY <1>1, <1>3, <1>4, <1>5, ScriptTypes, OtherTypes DEF Quietly

LEMMA ScriptType == ASSUME TypeInv, NEW c \in Boxes, Script(c) PROVE TypeInv'
  BY CloneType, DeliverSkillType, RunAgentType, CommitType, PushType, PreambleType,
     SessionLoopType, AnswerTurnType, PublishOutboxType, EmitType, OnExitType DEF Script

-----------------------------------------------------------------------------
(* The engine's steps. *)

Jobs == [state : {"running", "done", "failed"}, item : 1..End, attempt : 1..MaxAttempts,
         box : Boxes \cup {NoBox}, asked : BOOLEAN,
         accepted : SUBSET [item : Items, by : Boxes]]

LEMMA JobType == ASSUME TypeInv PROVE job \in Jobs
  BY DEF TypeInv, TypeOK, Jobs

\* What a step of the engine leaves to be shown, when it leaves the containers alone.
LEMMA EngineTypes ==
    ASSUME TypeInv, UNCHANGED <<mode, tracked, remote, box, store, outbox>>, job' \in Jobs,
           mode = "step" /\ job'.state = "running" => job'.item \in Items,
           inbox' \in [Boxes -> 0..End], mishaps' \in 0..MaxMishaps
    PROVE  TypeInv'
  <1>1. TypeOK'
    BY DEF TypeInv, TypeOK, Jobs
  <1>2. \A d \in Boxes : InRange(d)' /\ Baseline(d)'
    BY DEF TypeInv, InRange, Baseline, At
  <1>3. QED
    BY <1>1, <1>2 DEF TypeInv

LEMMA RetrySays ==
    ASSUME TypeInv, Retry
    PROVE  /\ job' \in Jobs /\ job'.item = job.item /\ job'.accepted = job.accepted
           /\ job'.state \in {job.state, "failed"} /\ job'.box \in {NoBox, job.box}
           /\ job'.asked = job.asked
  <1>1. job \in Jobs
    BY JobType
  <1>2. CASE job.attempt < MaxAttempts
    <2>1. job' = [job EXCEPT !.attempt = @ + 1, !.box = NoBox]
      BY <1>2 DEF Retry
    <2>2. job.attempt + 1 \in 1..MaxAttempts
      BY <1>1, <1>2, Ranges DEF Jobs
    <2>3. QED
      BY <1>1, <2>1, <2>2 DEF Jobs
  <1>3. CASE ~(job.attempt < MaxAttempts)
    BY <1>1, <1>3 DEF Retry, Jobs
  <1>4. QED
    BY <1>2, <1>3

LEMMA AdvanceSays ==
    ASSUME TypeInv, NEW accepted \in BOOLEAN, Advance(accepted), job.item \in Items, job.box # NoBox
    PROVE  /\ job' \in Jobs /\ job'.item = job.item + 1 /\ job'.box \in {NoBox, job.box}
           /\ job'.state \in {job.state, "done"}
           /\ mode = "step" /\ job'.state = job.state /\ job.state = "running" => job'.item \in Items
           /\ job'.accepted = IF accepted THEN job.accepted \cup {[item |-> job.item, by |-> job.box]}
                              ELSE job.accepted
  <1> DEFINE acc == IF accepted THEN job.accepted \cup {[item |-> job.item, by |-> job.box]}
                    ELSE job.accepted
             bx == IF accepted /\ mode = "session" THEN job.box ELSE NoBox
             st == IF mode = "step" /\ job.item = NumItems THEN "done" ELSE job.state
             new == [job EXCEPT !.item = job.item + 1, !.attempt = 1, !.asked = FALSE,
                                !.box = bx, !.accepted = acc, !.state = st]
  <1>1. job \in Jobs
    BY JobType
  <1>2. job' = new
    BY DEF Advance
  <1>3. acc \in SUBSET [item : Items, by : Boxes]
    BY <1>1 DEF Jobs
  <1>4. bx \in Boxes \cup {NoBox} /\ bx \in {NoBox, job.box} /\ st \in {"running", "done", "failed"}
        /\ st \in {job.state, "done"}
    BY <1>1 DEF Jobs
  <1>5. job.item + 1 \in 1..End /\ 1 \in 1..MaxAttempts
    BY Ranges
  <1>6. mode = "step" /\ st = job.state /\ job.state = "running" => job.item + 1 \in Items
    BY Ranges
  <1>7. acc = IF accepted THEN job.accepted \cup {[item |-> job.item, by |-> job.box]}
              ELSE job.accepted
    OBVIOUS
  <1> HIDE DEF acc, bx, st
  <1>8. /\ new \in Jobs /\ new.item = job.item + 1 /\ new.box = bx /\ new.state = st
        /\ new.accepted = acc
    BY <1>1, <1>3, <1>4, <1>5 DEF Jobs
  <1> HIDE DEF new
  <1>9. QED
    BY <1>2, <1>4, <1>6, <1>7, <1>8

LEMMA AskSays ==
    ASSUME TypeInv, Ask
    PROVE  /\ mode = "session" /\ job' \in Jobs /\ job'.item \in {job.item, End}
           /\ job'.box = job.box /\ job'.accepted = job.accepted
           /\ inbox' = IF job.box = NoBox THEN inbox ELSE [inbox EXCEPT ![job.box] = job'.item]
  <1>1. job \in Jobs
    BY JobType
  <1>2. PICK item \in {job.item, End} :
           /\ job' = [job EXCEPT !.asked = TRUE, !.item = item]
           /\ inbox' = IF job.box = NoBox THEN inbox ELSE [inbox EXCEPT ![job.box] = item]
    BY DEF Ask
  <1>3. item \in 1..End
    BY <1>1, Ranges DEF Jobs
  <1>4. job' \in Jobs /\ job'.item = item /\ job'.box = job.box /\ job'.accepted = job.accepted
    BY <1>1, <1>2, <1>3 DEF Jobs
  <1>5. QED
    BY <1>2, <1>4 DEF Ask

LEMMA AskType == ASSUME TypeInv, Ask PROVE TypeInv'
  <1>1. job'.item \in 0..End
    BY JobType, AskSays, Ranges DEF Jobs
  <1>2. inbox' \in [Boxes -> 0..End]
    BY <1>1, AskSays, OtherTypes
  <1>3. QED
    BY <1>2, AskSays, OtherTypes, EngineTypes DEF Ask

LEMMA LaunchSays ==
    ASSUME TypeInv, Launch
    PROVE  /\ job.state = "running" /\ job.box = NoBox
           /\ \E c \in Boxes :
                 /\ At(c, "absent") /\ job' = [job EXCEPT !.box = c] /\ SameCosts(c)
                 /\ BoxMoves(c, "clone", IF mode = "step" THEN job.item ELSE 0, box[c].log)
                 /\ inbox' = [inbox EXCEPT ![c] = IF mode = "step" THEN 0 ELSE job.item]
  <1>1. PICK c \in Boxes :
           /\ At(c, "absent")
           /\ box' = [box EXCEPT ![c].pc = "clone",
                                 ![c].item = IF mode = "step" THEN job.item ELSE 0]
           /\ inbox' = [inbox EXCEPT ![c] = IF mode = "step" THEN 0 ELSE job.item]
           /\ job' = [job EXCEPT !.box = c]
    BY DEF Launch
  <1>2. (IF mode = "step" THEN job.item ELSE 0) \in 0..End
    BY JobType, Ranges DEF Jobs
  <1>3. /\ BoxMoves(c, "clone", IF mode = "step" THEN job.item ELSE 0, box[c].log)
        /\ SameCosts(c)
    BY <1>1, <1>2, BoxStarts
  <1>4. QED
    BY <1>1, <1>3 DEF Launch

LEMMA LaunchType == ASSUME TypeInv, Launch PROVE TypeInv'
  <1>1. PICK c \in Boxes :
           /\ At(c, "absent") /\ job' = [job EXCEPT !.box = c] /\ SameCosts(c)
           /\ BoxMoves(c, "clone", IF mode = "step" THEN job.item ELSE 0, box[c].log)
           /\ inbox' = [inbox EXCEPT ![c] = IF mode = "step" THEN 0 ELSE job.item]
    BY LaunchSays
  <1>2. UNCHANGED <<mode, tracked, remote, store, outbox, mishaps>>
    BY DEF Launch
  <1>3. job \in Jobs
    BY JobType
  <1>4. job' \in Jobs /\ job'.state = job.state /\ job'.item = job.item
    BY <1>1, <1>3 DEF Jobs
  <1>5. inbox' \in [Boxes -> 0..End]
    BY <1>1, <1>3, OtherTypes, Ranges DEF Jobs
  <1>6. Baseline(c)'
    BY <1>1, SameCostsType DEF At, Uncharged
  <1>7. InRange(c)'
    <2>1. mode = "step" => job.item \in Items
      BY LaunchSays DEF TypeInv
    <2>2. QED
      BY <1>1, <1>2, <2>1 DEF InRange, At, BoxMoves, Turns
  <1>8. \A d \in Boxes : InRange(d)' /\ Baseline(d)'
    BY <1>1, <1>2, <1>6, <1>7, BoxAfter DEF TypeInv, InRange, Baseline, At
  <1>9. TypeOK'
    BY <1>1, <1>2, <1>4, <1>5, BoxAfter DEF TypeInv, TypeOK, Jobs
  <1>10. QED
    BY <1>2, <1>4, <1>8, <1>9 DEF TypeInv

LEMMA JudgeStepSays ==
    ASSUME TypeInv, JudgeStep
    PROVE  /\ mode = "step" /\ job.state = "running" /\ job.box \in Boxes /\ ~Alive(job.box)
           /\ job.item \in Items
           /\ \/ VerdictOf(job.box) \in Outcomes /\ Advance(TRUE)
              \/ Retry
              \/ job' = [job EXCEPT !.state = "failed"]
  <1>1. job \in Jobs
    BY JobType
  <1>2. job.box \in Boxes
    BY <1>1 DEF Jobs, JudgeStep
  <1>3. QED
    BY <1>2 DEF JudgeStep, TypeInv

LEMMA JudgeStepType == ASSUME TypeInv, JudgeStep PROVE TypeInv'
  <1>1. UNCHANGED <<mode, tracked, remote, box, store, inbox, outbox, mishaps>>
    BY DEF JudgeStep
  <1>2. job' \in Jobs /\ (mode = "step" /\ job'.state = "running" => job'.item \in Items)
    <2>1. CASE Advance(TRUE)
      BY <2>1, JudgeStepSays, AdvanceSays, Ranges
    <2>2. CASE Retry
      BY <2>2, JudgeStepSays, RetrySays
    <2>3. CASE job' = [job EXCEPT !.state = "failed"]
      BY <2>3, JobType DEF Jobs
    <2>4. QED
      BY <2>1, <2>2, <2>3, JudgeStepSays
  <1>3. QED
    BY <1>1, <1>2, EngineTypes, OtherTypes

LEMMA JudgeTurnSays ==
    ASSUME TypeInv, JudgeTurn
    PROVE  /\ mode = "session" /\ job.state = "running"
           /\ \/ /\ job.box \in Boxes /\ job.item \in Items
                 /\ \/ outbox[job.box] = job.item /\ Advance(TRUE)
                    \/ Advance(FALSE)
              \/ job' = [job EXCEPT !.state = "done"]
  <1>1. job \in Jobs
    BY JobType
  <1>2. job.box # NoBox => job.box \in Boxes
    BY <1>1 DEF Jobs
  <1>3. job.item # End => job.item \in Items
    BY <1>1, Ranges DEF Jobs
  <1>4. QED
    BY <1>2, <1>3 DEF JudgeTurn

LEMMA JudgeTurnType == ASSUME TypeInv, JudgeTurn PROVE TypeInv'
  <1>1. UNCHANGED <<mode, tracked, remote, box, store, inbox, outbox, mishaps>> /\ mode = "session"
    BY DEF JudgeTurn
  <1>2. job' \in Jobs
    <2>1. ASSUME NEW accepted \in BOOLEAN, Advance(accepted), job.box \in Boxes, job.item \in Items
          PROVE  job' \in Jobs
      BY <2>1, AdvanceSays, Ranges
    <2>2. CASE job' = [job EXCEPT !.state = "done"]
      BY <2>2, JobType DEF Jobs
    <2>3. QED
      BY <2>1, <2>2, JudgeTurnSays
  <1>3. QED
    BY <1>1, <1>2, EngineTypes, OtherTypes

LEMMA GiveUpSays ==
    ASSUME TypeInv, GiveUp
    PROVE  /\ job.state = "running" /\ job.box \in Boxes /\ Alive(job.box) /\ job.item \in Items
           /\ Quietly(job.box, "killed") \/ UNCHANGED box
           /\ (mode = "step" /\ Retry) \/ (mode = "session" /\ Advance(FALSE))
  <1>1. job \in Jobs
    BY JobType
  <1>2. job.box \in Boxes
    BY <1>1 DEF Jobs, GiveUp
  <1>3. (mode = "step" /\ Retry) \/ (mode = "session" /\ job.item # End /\ Advance(FALSE))
    <2>1. mode \in {"step", "session"}
      BY DEF TypeInv, TypeOK
    <2>2. CASE mode = "step"
      BY <2>2 DEF GiveUp
    <2>3. CASE mode = "session"
      BY <2>3 DEF GiveUp
    <2>4. QED
      BY <2>1, <2>2, <2>3
  <1>4. job.item \in Items
    <2>1. job.state = "running"
      BY DEF GiveUp
    <2>2. CASE mode = "step"
      BY <2>1, <2>2 DEF TypeInv
    <2>3. CASE job.item # End
      BY <1>1, <2>3, Ranges DEF Jobs
    <2>4. QED
      BY <1>3, <2>2, <2>3
  <1>5. Quietly(job.box, "killed") \/ UNCHANGED box
    BY <1>2, PcChanges DEF GiveUp, Pcs
  <1>6. QED
    BY <1>2, <1>3, <1>4, <1>5 DEF GiveUp

LEMMA GiveUpType == ASSUME TypeInv, GiveUp PROVE TypeInv'
  <1>1. UNCHANGED <<mode, tracked, remote, store, inbox, outbox>> /\ mishaps' \in 0..MaxMishaps
    BY OtherTypes DEF GiveUp
  <1>2. job' \in Jobs /\ (mode = "step" /\ job'.state = "running" => job'.item \in Items)
    BY GiveUpSays, AdvanceSays, RetrySays, Ranges
  <1>3. CASE UNCHANGED box
    BY <1>1, <1>2, <1>3, EngineTypes, OtherTypes
  <1>4. CASE Quietly(job.box, "killed")
    <2>0. PICK c \in Boxes : c = job.box
      BY GiveUpSays
    <2>1. ~At(c, "absent") /\ "killed" \in Pcs \ (Turns \cup Uncharged)
      BY <2>0, GiveUpSays DEF Alive, At, Pcs, Turns, Uncharged
    <2>2. BoxMoves(c, "killed", box[c].item, box[c].log) /\ Quietly(c, "killed")
      BY <1>4, <2>0 DEF Quietly
    <2>3. InRange(c)' /\ Baseline(c)'
      BY <1>1, <2>1, <2>2, QuietTypes
    <2>4. TypeOK'
      BY <1>1, <1>2, <2>1, <2>2, BoxAfter DEF TypeInv, TypeOK, Jobs
    <2>5. \A d \in Boxes : InRange(d)' /\ Baseline(d)'
      BY <1>1, <2>1, <2>2, <2>3, BoxAfter DEF TypeInv, InRange, Baseline, At
    <2>6. QED
      BY <1>1, <1>2, <2>4, <2>5 DEF TypeInv
  <1>5. QED
    BY <1>3, <1>4, GiveUpSays

-----------------------------------------------------------------------------
LEMMA TypeInit == Init => TypeInv
  <1> SUFFICES ASSUME Init PROVE TypeInv
    OBVIOUS
  <1>1. Absent \in Containers
    BY Ranges DEF Absent, Containers, Pcs, Verdicts, Transient
  <1>2. \A c \in Boxes : box[c] = Absent
    BY DEF Init
  <1>3. \A c \in Boxes : InRange(c) /\ Baseline(c)
    BY <1>2 DEF InRange, Baseline, At, Absent, Turns
  <1>4. remote \in [exists : BOOLEAN, log : Seq(Commits)]
    BY DEF Init
  <1>5. job \in Jobs /\ job.item = 1 /\ 1 \in Items
    BY Ranges DEF Init, Jobs
  <1>6. TypeOK
    BY <1>1, <1>4, <1>5, Ranges DEF Init, TypeOK, Jobs, Verdicts, Transient
  <1>7. QED
    BY <1>3, <1>5, <1>6 DEF TypeInv

LEMMA TypeNext == TypeInv /\ [Next]_vars => TypeInv'
  <1> SUFFICES ASSUME TypeInv, [Next]_vars PROVE TypeInv'
    OBVIOUS
  <1>1. CASE UNCHANGED vars
    BY <1>1 DEF vars, TypeInv, TypeOK, InRange, Baseline, At
  <1>2. CASE Next
    BY <1>2, ScriptType, DieType, LaunchType, JudgeStepType, JudgeTurnType, AskType, GiveUpType
       DEF Next, Engine
  <1>3. QED
    BY <1>1, <1>2

\* The types of the whole model, whatever the bounds.
THEOREM TypeCorrect == Spec => []TypeOK
  <1>1. TypeInv => TypeOK
    BY DEF TypeInv
  <1>2. QED
    BY <1>1, TypeInit, TypeNext, PTL DEF Spec

-----------------------------------------------------------------------------
(* The run branch. *)

\* How a step treats the logs: the branch moves to what a container pushes, if
\* that extends it; a container takes over the branch, starts a new one, or adds
\* a commit of its own, with the repository's .claude, for what it works on.
Committed(d) ==
    /\ At(d, "commit") /\ box'[d].pc = "push" /\ box'[d].item = box[d].item
    /\ box'[d].log = Append(box[d].log, [item |-> box[d].item, by |-> d, claude |-> Clean])
LogMoves(d) == box'[d].log \in {box[d].log, remote.log, <<>>} \/ Committed(d)
RemoteMoves ==
    \/ UNCHANGED remote
    \/ \E c \in Boxes : FastForward(c) /\ Landed(c) /\ box'[c].log = box[c].log

\* A step is about container c, and leaves it with this log.
LeavesLog(c, log) == box' = [box EXCEPT ![c] = box'[c]] /\ box'[c].log = log

LEMMA BoxLogs ==
    ASSUME TypeInv, NEW c \in Boxes, NEW log, LeavesLog(c, log),
           log \in {box[c].log, remote.log, <<>>} \/ Committed(c)
    PROVE  \A d \in Boxes : LogMoves(d)
  BY BoxType DEF LogMoves, LeavesLog

LEMMA BoxKeepsLog ==
    ASSUME TypeInv, NEW c \in Boxes, LeavesLog(c, box[c].log)
    PROVE  \A d \in Boxes : box'[d].log = box[d].log
  BY BoxType DEF LeavesLog

LEMMA ScriptLogs ==
    ASSUME TypeInv, NEW c \in Boxes, Script(c) \/ Die(c)
    PROVE  /\ UNCHANGED <<mode, tracked, inbox, job>> /\ RemoteMoves
           /\ \A d \in Boxes : LogMoves(d)
  <1>1. UNCHANGED <<mode, tracked, inbox, job>>
    BY DEF Script, Clone, DeliverSkill, RunAgent, Commit, Push, Preamble, SessionLoop, AnswerTurn,
           PublishOutbox, Emit, OnExit, Die
  <1>2. ASSUME ~Push(c) PROVE RemoteMoves
    BY <1>2 DEF Script, Clone, DeliverSkill, RunAgent, Commit, Preamble, SessionLoop, AnswerTurn,
           PublishOutbox, Emit, OnExit, Die, RemoteMoves
  <1>3. ASSUME Push(c) PROVE RemoteMoves
    BY <1>3, PushSays DEF RemoteMoves, Failed, Quietly, BoxMoves
  <1>4. CASE Clone(c)
    <2>1. \E log \in {box[c].log, remote.log, <<>>} : LeavesLog(c, log)
      BY <1>4, CloneSays DEF Failed, Quietly, BoxMoves, LeavesLog
    <2>2. QED
      BY <2>1, <1>1, <1>2, <1>3, BoxLogs
  <1>5. CASE Commit(c)
    <2>1. LeavesLog(c, box'[c].log) /\ (box'[c].log = box[c].log \/ Committed(c))
      BY <1>5, CommitSays DEF BoxMoves, LeavesLog, Committed
    <2>2. QED
      BY <2>1, <1>1, <1>2, <1>3, BoxLogs
  <1>6. ASSUME ~Clone(c), ~Commit(c) PROVE LeavesLog(c, box[c].log)
    <2>1. CASE DeliverSkill(c)
      BY <2>1, DeliverSkillSays DEF Failed, Quietly, BoxMoves, LeavesLog
    <2>2. CASE RunAgent(c)
      BY <2>2, RunAgentSays DEF Failed, Quietly, BoxMoves, LeavesLog
    <2>3. CASE Push(c)
      BY <2>3, PushSays DEF Failed, Quietly, BoxMoves, LeavesLog
    <2>4. CASE Preamble(c)
      BY <2>4, PreambleSays DEF Failed, Quietly, BoxMoves, LeavesLog
    <2>5. CASE SessionLoop(c)
      BY <2>5, SessionLoopSays DEF Failed, Quietly, BoxMoves, LeavesLog
    <2>6. CASE AnswerTurn(c)
      BY <2>6, AnswerTurnSays DEF Failed, Quietly, BoxMoves, LeavesLog
    <2>7. CASE PublishOutbox(c)
      BY <2>7, PublishOutboxSays DEF Failed, Quietly, BoxMoves, LeavesLog
    <2>8. CASE Emit(c)
      BY <2>8, EmitSays DEF Quietly, BoxMoves, LeavesLog
    <2>9. CASE OnExit(c)
      BY <2>9, OnExitSays DEF Quietly, BoxMoves, LeavesLog
    <2>10. CASE Die(c)
      BY <2>10, DieSays DEF Quietly, BoxMoves, LeavesLog
    <2>11. QED
      BY <1>6, <2>1, <2>2, <2>3, <2>4, <2>5, <2>6, <2>7, <2>8, <2>9, <2>10 DEF Script
  <1>7. ASSUME ~Clone(c), ~Commit(c) PROVE \A d \in Boxes : LogMoves(d)
    BY <1>6, <1>7, BoxLogs
  <1>8. QED
    BY <1>1, <1>2, <1>3, <1>4, <1>5, <1>7

LEMMA EngineLogs ==
    ASSUME TypeInv, Engine \/ Ask \/ GiveUp
    PROVE  /\ UNCHANGED <<mode, tracked, remote, store, outbox>>
           /\ \A d \in Boxes : box'[d].log = box[d].log
  <1>1. UNCHANGED <<mode, tracked, remote, store, outbox>>
    BY DEF Engine, Launch, JudgeStep, JudgeTurn, Ask, GiveUp
  <1>2. UNCHANGED box \/ \E c \in Boxes : LeavesLog(c, box[c].log)
    <2>1. CASE Launch
      BY <2>1, LaunchSays DEF BoxMoves, LeavesLog
    <2>2. CASE GiveUp
      BY <2>2, GiveUpSays DEF Quietly, BoxMoves, LeavesLog
    <2>3. QED
      BY <2>1, <2>2 DEF Engine, JudgeStep, JudgeTurn, Ask
  <1>3. QED
    BY <1>1, <1>2, BoxKeepsLog

LEMMA NextLogs ==
    ASSUME TypeInv, [Next]_vars
    PROVE  UNCHANGED <<mode, tracked>> /\ RemoteMoves /\ \A d \in Boxes : LogMoves(d)
  <1>1. CASE UNCHANGED vars
    BY <1>1 DEF vars, RemoteMoves, LogMoves
  <1>2. CASE Engine \/ Ask \/ GiveUp
    BY <1>2, EngineLogs DEF RemoteMoves, LogMoves
  <1>3. CASE \E c \in Boxes : Script(c) \/ Die(c)
    BY <1>3, ScriptLogs
  <1>4. QED
    BY <1>1, <1>2, <1>3 DEF Next

\* Whatever is on an existing branch stays on it, whoever pushes.
THEOREM WorkStays == Spec => WorkKept
  <1>1. ASSUME TypeInv, [Next]_vars
        PROVE  [remote.exists => remote'.exists /\ IsPrefix(remote.log, remote'.log)]_vars
    <2>1. CASE UNCHANGED remote
      <3>0. remote \in [exists : BOOLEAN, log : Seq(Commits)]
        BY <1>1, OtherTypes
      <3>1. remote.log \in Seq(Commits)
        BY <3>0
      <3>2. IsPrefix(remote.log, remote.log)
        BY <3>1 DEF IsPrefix
      <3>3. QED
        BY <2>1, <3>2
    <2>2. ASSUME NEW c \in Boxes, FastForward(c), Landed(c)
          PROVE  remote.exists => remote'.exists /\ IsPrefix(remote.log, remote'.log)
      BY <2>2 DEF FastForward, Landed
    <2>3. QED
      BY <1>1, <2>1, <2>2, NextLogs DEF RemoteMoves
  <1>2. QED
    BY <1>1, TypeInit, TypeNext, PTL DEF Spec, WorkKept

LEMMA AppendClean ==
    ASSUME NEW log \in Seq(Commits), NEW commit \in Commits, commit.claude = Clean, LogClean(log)
    PROVE  LogClean(Append(log, commit))
  BY DEF LogClean

LEMMA PlumbingNext == PlumbingInv /\ [Next]_vars => PlumbingInv'
  <1> SUFFICES ASSUME PlumbingInv, [Next]_vars PROVE PlumbingInv'
    OBVIOUS
  <1>1. TypeInv /\ TypeInv'
    BY TypeNext DEF PlumbingInv
  <1>2. UNCHANGED <<mode, tracked>> /\ RemoteMoves /\ \A d \in Boxes : LogMoves(d)
    BY <1>1, NextLogs
  <1>3. Clean' = Clean
    BY <1>2 DEF Clean
  <1>4. \A c \in Boxes : LogClean(box[c].log) /\ box[c].log \in Seq(Commits) /\ box[c].item \in 0..End
    BY <1>1, BoxType DEF PlumbingInv, LogsClean, Containers
  <1>5. ASSUME NEW d \in Boxes PROVE LogClean(box'[d].log)
    <2>1. [item |-> box[d].item, by |-> d, claude |-> Clean] \in Commits
      BY <1>4, Ranges DEF Commits
    <2>2. LogClean(Append(box[d].log, [item |-> box[d].item, by |-> d, claude |-> Clean]))
      BY <1>4, <2>1, AppendClean
    <2>3. LogClean(<<>>) /\ LogClean(remote.log) /\ LogClean(box[d].log)
      BY <1>4 DEF LogClean, PlumbingInv, LogsClean
    <2>4. QED
      BY <1>2, <2>2, <2>3 DEF LogMoves, Committed
  <1>6. LogClean(remote'.log)
    BY <1>2, <1>4 DEF PlumbingInv, LogsClean, RemoteMoves, Landed
  <1>7. QED
    BY <1>1, <1>3, <1>5, <1>6 DEF PlumbingInv, LogsClean, LogClean

\* The run branch carries no delivered skills and keeps the repository's own, however
\* many containers push to it.
THEOREM PlumbingKeptOut == Spec => []PlumbingStaysOut
  <1>1. Init => PlumbingInv
    BY TypeInit DEF PlumbingInv, LogsClean, LogClean, Init, Absent
  <1>2. PlumbingInv => PlumbingStaysOut
    BY DEF PlumbingInv, LogsClean, LogClean, PlumbingStaysOut
  <1>3. QED
    BY <1>1, <1>2, PlumbingNext, PTL DEF Spec

-----------------------------------------------------------------------------
(* Nothing is worked on, or charged, twice. *)

\* What a container is at never goes back, and it only starts over on something later.
Forward(d) ==
    /\ box[d].item <= box'[d].item
    /\ box'[d].pc \in Uncommitted => box[d].pc \in Uncommitted \/ box[d].item < box'[d].item

LEMMA ScriptForward ==
    ASSUME TypeInv, Upwards, NEW c \in Boxes, Script(c) \/ Die(c)
    PROVE  /\ ~At(c, "absent") /\ box'[c].pc # "absent"
           /\ box' = [box EXCEPT ![c] = box'[c]] /\ Forward(c)
           /\ box'[c].item \in {box[c].item, inbox[c]}
  <1> DEFINE Goal == /\ ~At(c, "absent") /\ box'[c].pc # "absent"
                     /\ box' = [box EXCEPT ![c] = box'[c]] /\ Forward(c)
                     /\ box'[c].item \in {box[c].item, inbox[c]}
  <1>1. box[c].item \in Nat /\ inbox[c] \in Nat
    BY BoxType, OtherTypes, Ranges DEF Containers
  <1>2. ASSUME NEW pc, NEW log, BoxMoves(c, pc, box[c].item, log), ~At(c, "absent"), pc # "absent",
               pc \in Uncommitted => box[c].pc \in Uncommitted
        PROVE  Goal
    BY <1>1, <1>2 DEF BoxMoves, Forward
  <1>3. CASE Clone(c)
    BY <1>2, <1>3, CloneSays DEF Failed, Quietly, Uncommitted, At
  <1>4. CASE DeliverSkill(c)
    BY <1>2, <1>4, DeliverSkillSays DEF Failed, Quietly, Uncommitted, At
  <1>5. CASE RunAgent(c)
    BY <1>2, <1>5, RunAgentSays DEF Failed, Quietly, Uncommitted, At
  <1>6. CASE Commit(c)
    BY <1>2, <1>6, CommitSays DEF Uncommitted, At
  <1>7. CASE Push(c)
    BY <1>2, <1>7, PushSays DEF Failed, Quietly, Uncommitted, At
  <1>8. CASE Preamble(c)
    BY <1>2, <1>8, PreambleSays DEF Failed, Quietly, Uncommitted, At
  <1>9. CASE SessionLoop(c)
    <2>1. CASE Failed(c)
      BY <1>2, <1>9, <2>1, SessionLoopSays DEF Failed, Quietly, Uncommitted, At
    <2>2. CASE /\ NewTurn(c)
               /\ BoxMoves(c, IF inbox[c] = End THEN "commit" ELSE "turn", inbox[c], box[c].log)
      <3>1. mode = "session"
        BY <1>9, SessionLoopSays DEF TypeInv, TypeOK, InRange, At, Turns
      <3>2. box[c].item < inbox[c]
        BY <1>1, <2>2, <3>1 DEF Upwards, NewTurn
      <3>3. QED
        BY <1>1, <1>9, <2>2, <3>2, SessionLoopSays DEF BoxMoves, Forward, At
    <2>3. QED
      BY <1>9, <2>1, <2>2, SessionLoopSays
  <1>10. CASE AnswerTurn(c)
    BY <1>2, <1>10, AnswerTurnSays DEF Failed, Quietly, Uncommitted, At
  <1>11. CASE PublishOutbox(c)
    BY <1>2, <1>11, PublishOutboxSays DEF Failed, Quietly, Uncommitted, At
  <1>12. CASE Emit(c)
    BY <1>2, <1>12, EmitSays DEF Quietly, Uncommitted, At
  <1>13. CASE OnExit(c)
    BY <1>2, <1>13, OnExitSays DEF Quietly, Uncommitted, At
  <1>14. CASE Die(c)
    BY <1>2, <1>14, DieSays DEF Quietly, Uncommitted, At, Alive
  <1>15. QED
    BY <1>3, <1>4, <1>5, <1>6, <1>7, <1>8, <1>9, <1>10, <1>11, <1>12, <1>13, <1>14 DEF Script

\* An engine's step launches a container, kills one, or leaves them alone.
LEMMA EngineForward ==
    ASSUME TypeInv, Numbered, Engine \/ Ask \/ GiveUp
    PROVE  \A d \in Boxes : Forward(d) /\ (box'[d].pc = "absent" => box'[d].item = 0)
  <1>1. \A d \in Boxes : box[d].item \in 0..End /\ (At(d, "absent") => box[d].item = 0)
    BY BoxType DEF Containers, Numbered
  <1>2. CASE UNCHANGED box
    BY <1>1, <1>2 DEF Forward, At
  <1>3. CASE Launch
    <2>1. PICK c \in Boxes : /\ At(c, "absent")
                             /\ BoxMoves(c, "clone", IF mode = "step" THEN job.item ELSE 0, box[c].log)
      BY <1>3, LaunchSays
    <2>2. \A d \in Boxes \ {c} : box'[d] = box[d]
      BY <2>1, BoxAfter
    <2>3. 0 <= (IF mode = "step" THEN job.item ELSE 0)
      BY JobType DEF Jobs
    <2>4. Forward(c) /\ box'[c].pc = "clone"
      BY <1>1, <2>1, <2>3 DEF BoxMoves, Forward, Uncommitted, At
    <2>5. QED
      BY <1>1, <2>2, <2>4 DEF Forward, At
  <1>4. CASE GiveUp
    <2>1. CASE Quietly(job.box, "killed")
      <3>1. PICK c \in Boxes : BoxMoves(c, "killed", box[c].item, box[c].log)
        BY <1>4, <2>1, GiveUpSays DEF Quietly
      <3>2. \A d \in Boxes \ {c} : box'[d] = box[d]
        BY <3>1, BoxAfter
      <3>3. Forward(c) /\ box'[c].pc = "killed"
        BY <1>1, <3>1 DEF BoxMoves, Forward, Uncommitted
      <3>4. QED
        BY <1>1, <3>2, <3>3 DEF Forward, At
    <2>2. QED
      BY <1>2, <1>4, <2>1, GiveUpSays
  <1>5. QED
    BY <1>2, <1>3, <1>4 DEF Engine, JudgeStep, JudgeTurn, Ask

LEMMA NextForward ==
    ASSUME TypeInv, Upwards, Numbered, [Next]_vars
    PROVE  \A d \in Boxes : Forward(d) /\ (box'[d].pc = "absent" => box'[d].item = 0)
  <1>1. \A d \in Boxes : box[d].item \in 0..End /\ (At(d, "absent") => box[d].item = 0)
    BY BoxType DEF Containers, Numbered
  <1>2. CASE UNCHANGED vars
    BY <1>1, <1>2 DEF vars, Forward, At
  <1>3. CASE \E c \in Boxes : Script(c) \/ Die(c)
    <2>1. PICK c \in Boxes : Script(c) \/ Die(c)
      BY <1>3
    <2>2. Forward(c) /\ box'[c].pc # "absent" /\ \A d \in Boxes \ {c} : box'[d] = box[d]
      BY <2>1, ScriptForward, BoxType
    <2>3. QED
      BY <1>1, <2>2 DEF Forward, At
  <1>4. QED
    BY <1>2, <1>3, EngineForward DEF Next

LEMMA UpwardsNext ==
    ASSUME TypeInv, Upwards, Numbered, [Next]_vars
    PROVE  Upwards'
  <1>1. \A d \in Boxes : box[d].item \in 0..End /\ inbox[d] \in 0..End
    BY BoxType, OtherTypes DEF Containers
  <1>2. job \in Jobs
    BY JobType
  <1>3. mode' = mode
    BY NextLogs
  <1>4. CASE UNCHANGED vars
    BY <1>4 DEF vars, Upwards
  <1>5. CASE \E c \in Boxes : Script(c) \/ Die(c)
    <2>1. PICK c \in Boxes : Script(c) \/ Die(c)
      BY <1>5
    <2>2. UNCHANGED <<inbox, job>>
      BY <2>1, ScriptLogs
    <2>3. /\ box'[c].item \in {box[c].item, inbox[c]}
          /\ \A d \in Boxes \ {c} : box'[d] = box[d]
      BY <2>1, ScriptForward, BoxType
    <2>4. QED
      BY <1>1, <1>3, <2>2, <2>3 DEF Upwards
  <1>6. CASE Launch
    <2>1. PICK c \in Boxes :
             /\ job' = [job EXCEPT !.box = c]
             /\ BoxMoves(c, "clone", IF mode = "step" THEN job.item ELSE 0, box[c].log)
             /\ inbox' = [inbox EXCEPT ![c] = IF mode = "step" THEN 0 ELSE job.item]
      BY <1>6, LaunchSays
    <2>2. \A d \in Boxes \ {c} : box'[d] = box[d]
      BY <2>1, BoxAfter
    <2>3. mode = "session" => box'[c].item = 0
      BY <2>1 DEF BoxMoves
    <2>4. job'.box = c /\ job'.item = job.item /\ job.item \in Nat
      BY <1>2, <2>1, Ranges DEF Jobs
    <2>5. \A d \in Boxes : inbox'[d] = IF d # c THEN inbox[d] ELSE IF mode = "step" THEN 0 ELSE job.item
      BY <2>1, OtherTypes
    <2>6. QED
      BY <1>3, <2>2, <2>3, <2>4, <2>5 DEF Upwards
  <1>7. CASE Ask
    <2>1. UNCHANGED box /\ mode = "session"
      BY <1>7 DEF Ask
    <2>2. job.item <= job'.item /\ job'.box = job.box
      BY <1>2, <1>7, AskSays, Ranges DEF Jobs
    <2>3. CASE job.box = NoBox
      BY <1>7, <2>1, <2>2, <2>3, AskSays DEF Upwards
    <2>4. CASE job.box \in Boxes
      <3>1. \A d \in Boxes : inbox'[d] = IF d = job.box THEN job'.item ELSE inbox[d]
        BY <1>7, <2>4, AskSays, OtherTypes, Ranges
      <3>2. \A d \in Boxes : box'[d].item <= inbox'[d]
        <4>1. inbox[job.box] <= job.item /\ \A d \in Boxes : box[d].item <= inbox[d]
          BY <2>1, <2>4, Ranges DEF Upwards
        <4>2. job.item \in Int /\ job'.item \in Int
          BY <1>2, <1>7, AskSays, Ranges DEF Jobs
        <4>3. QED
          BY <1>1, <2>1, <2>2, <2>4, <3>1, <4>1, <4>2
      <3>3. inbox'[job'.box] <= job'.item
        BY <1>2, <1>7, <2>2, <2>4, <3>1, AskSays, Ranges DEF Jobs
      <3>4. QED
        BY <3>2, <3>3 DEF Upwards
    <2>5. QED
      BY <1>2, <2>3, <2>4 DEF Jobs
  <1>8. CASE JudgeStep \/ JudgeTurn \/ GiveUp
    <2>1. UNCHANGED inbox /\ \A d \in Boxes : box'[d].item = box[d].item
      <3>1. CASE JudgeStep \/ JudgeTurn
        BY <3>1 DEF JudgeStep, JudgeTurn
      <3>2. CASE GiveUp
        <4>1. CASE Quietly(job.box, "killed")
          BY <3>2, <4>1, GiveUpSays, BoxType DEF GiveUp, Quietly, BoxMoves
        <4>2. QED
          BY <3>2, <4>1, GiveUpSays DEF GiveUp
      <3>3. QED
        BY <1>8, <3>1, <3>2
    <2>2. mode = "session" => job.item <= job'.item /\ job'.box \in {NoBox, job.box}
      <3>1. job.item <= job.item /\ job.item <= job.item + 1
        BY <1>2 DEF Jobs
      <3>2. CASE JudgeStep
        BY <3>2 DEF JudgeStep
      <3>3. CASE JudgeTurn
        <4>1. CASE job' = [job EXCEPT !.state = "done"]
          BY <1>2, <3>1, <4>1 DEF Jobs
        <4>2. QED
          BY <3>1, <3>3, <4>1, JudgeTurnSays, AdvanceSays, Ranges
      <3>4. CASE GiveUp
        BY <3>1, <3>4, GiveUpSays, AdvanceSays, Ranges
      <3>5. QED
        BY <1>8, <3>2, <3>3, <3>4
    <2>3. job.item \in Int /\ job'.item \in Int
      <3>1. job' \in Jobs
        BY TypeNext DEF TypeInv, TypeOK, Jobs
      <3>2. QED
        BY <1>2, <3>1 DEF Jobs
    <2>4. QED
      BY <1>1, <1>2, <1>3, <2>1, <2>2, <2>3, Ranges DEF Upwards, Jobs
  <1>9. QED
    BY <1>4, <1>5, <1>6, <1>7, <1>8 DEF Next, Engine

LEMMA PastStays ==
    ASSUME TypeInv, TypeInv', \A d \in Boxes : Forward(d), NEW log \in Seq(Commits), LogOfPast(log)
    PROVE  LogOfPast(log)'
  <1> SUFFICES ASSUME NEW i \in DOMAIN log
               PROVE  /\ log[i].item <= box'[log[i].by].item
                      /\ box'[log[i].by].pc \in Uncommitted => log[i].item < box'[log[i].by].item
    BY DEF LogOfPast
  <1>1. log[i] \in Commits
    OBVIOUS
  <1>2. log[i].by \in Boxes /\ log[i].item \in 0..End
    BY <1>1 DEF Commits
  <1>3. /\ log[i].item <= box[log[i].by].item
        /\ box[log[i].by].pc \in Uncommitted => log[i].item < box[log[i].by].item
    BY DEF LogOfPast
  <1>4. box[log[i].by].item \in 0..End /\ box'[log[i].by].item \in 0..End
    BY <1>2 DEF TypeInv, TypeOK, Containers
  <1>5. Forward(log[i].by)
    BY <1>2
  <1>6. QED
    BY <1>2, <1>3, <1>4, <1>5, Ranges DEF Forward

\* A commit is newer than what its container has on its log.
LEMMA AppendOnce ==
    ASSUME TypeInv, TypeInv', \A d \in Boxes : Forward(d), NEW c \in Boxes, Committed(c),
           NEW old \in Seq(Commits), old = box[c].log, LogOfPast(old), LogOnce(old),
           NEW commit \in Commits, commit = [item |-> box[c].item, by |-> c, claude |-> Clean]
    PROVE  LogOfPast(Append(old, commit))' /\ LogOnce(Append(old, commit))
  <1> DEFINE new == Append(old, commit)
  <1>1. commit.item = box[c].item /\ commit.by = c /\ box[c].item \in Nat
    BY BoxType, Ranges DEF Containers
  <1>2. box'[c].pc = "push" /\ box'[c].item = box[c].item
    BY DEF Committed
  <1>3. \A i \in DOMAIN old : old[i].by = c => old[i].item < box[c].item
    BY DEF LogOfPast, Committed, At, Uncommitted
  <1>4. DOMAIN new = 1..(Len(old) + 1) /\ new[Len(old) + 1] = commit /\ DOMAIN old = 1..Len(old)
        /\ \A i \in DOMAIN old : new[i] = old[i]
    OBVIOUS
  <1>5. \A i \in DOMAIN new : i = Len(old) + 1 \/ i \in DOMAIN old
    BY <1>4
  <1> HIDE DEF new
  <1>6. LogOfPast(old)'
    BY PastStays
  <1>7. LogOfPast(new)'
    <2> SUFFICES ASSUME NEW i \in DOMAIN new
                 PROVE  /\ new[i].item <= box'[new[i].by].item
                        /\ box'[new[i].by].pc \in Uncommitted => new[i].item < box'[new[i].by].item
      BY DEF LogOfPast
    <2>1. CASE i = Len(old) + 1
      <3>1. new[i] = commit
        BY <1>4, <2>1
      <3>2. QED
        BY <1>1, <1>2, <3>1 DEF Uncommitted
    <2>2. CASE i \in DOMAIN old
      BY <1>4, <1>6, <2>2 DEF LogOfPast
    <2>3. QED
      BY <1>5, <2>1, <2>2
  <1>8. LogOnce(new)
    <2> SUFFICES ASSUME NEW i \in DOMAIN new, NEW j \in DOMAIN new,
                        new[i].item = new[j].item, new[i].by = new[j].by
                 PROVE  i = j
      BY DEF LogOnce
    <2>1. CASE i \in DOMAIN old /\ j \in DOMAIN old
      BY <1>4, <2>1 DEF LogOnce
    <2>2. \A k \in DOMAIN old : ~(new[k].item = commit.item /\ new[k].by = commit.by)
      BY <1>1, <1>3, <1>4
    <2>3. QED
      BY <1>4, <1>5, <2>1, <2>2
  <1>9. QED
    BY <1>7, <1>8 DEF new

LEMMA OnceNext == OnceInv /\ [Next]_vars => OnceInv'
  <1> SUFFICES ASSUME OnceInv, [Next]_vars PROVE OnceInv'
    OBVIOUS
  <1>1. TypeInv /\ TypeInv' /\ Upwards /\ Numbered
    BY TypeNext DEF OnceInv
  <1>2. Upwards'
    BY <1>1, UpwardsNext
  <1>3. \A d \in Boxes : Forward(d) /\ (box'[d].pc = "absent" => box'[d].item = 0)
    BY <1>1, NextForward
  <1>4. RemoteMoves /\ \A d \in Boxes : LogMoves(d)
    BY <1>1, NextLogs
  <1>5. remote.log \in Seq(Commits) /\ \A c \in Boxes : box[c].log \in Seq(Commits)
    <2>1. remote \in [exists : BOOLEAN, log : Seq(Commits)]
      BY <1>1, OtherTypes
    <2>2. QED
      BY <1>1, <2>1, BoxType DEF Containers
  <1>6. ASSUME NEW log, log \in {remote.log, <<>>} \/ \E c \in Boxes : log = box[c].log
        PROVE  LogOfPast(log)' /\ LogOnce(log)
    <2>1. log \in Seq(Commits) /\ LogOfPast(log) /\ LogOnce(log)
      <3>1. <<>> \in Seq(Commits) /\ LogOfPast(<<>>) /\ LogOnce(<<>>)
        BY DEF LogOfPast, LogOnce
      <3>2. QED
        BY <1>1, <1>5, <1>6, <3>1 DEF Numbered
    <2>2. QED
      BY <1>1, <1>3, <2>1, PastStays
  <1>7. ASSUME NEW c \in Boxes, NEW log, log = box'[c].log PROVE LogOfPast(log)' /\ LogOnce(log)
    <2>1. CASE Committed(c)
      <3>1. PICK old \in Seq(Commits) : old = box[c].log
        BY <1>5
      <3>2. PICK commit : commit = [item |-> box[c].item, by |-> c, claude |-> Clean]
        OBVIOUS
      <3>3. commit \in Commits
        BY <1>1, <3>2, BoxType, Ranges DEF Containers, Commits
      <3>4. LogOfPast(old) /\ LogOnce(old)
        BY <1>1, <3>1 DEF Numbered
      <3>5. log = Append(old, commit)
        BY <1>7, <2>1, <3>1, <3>2 DEF Committed
      <3>6. LogOfPast(Append(old, commit))' /\ LogOnce(Append(old, commit))
        BY <1>1, <1>3, <2>1, <3>1, <3>2, <3>3, <3>4, AppendOnce
      <3>7. QED
        BY <3>5, <3>6
    <2>2. QED
      BY <1>4, <1>6, <1>7, <2>1 DEF LogMoves
  <1>8. ASSUME NEW log, log = remote'.log PROVE LogOfPast(log)' /\ LogOnce(log)
    BY <1>4, <1>6, <1>8 DEF RemoteMoves, Landed
  <1>9. Numbered'
    <2>1. LogOfPast(remote.log)' /\ LogOnce(remote.log)'
      BY <1>8 DEF LogOfPast, LogOnce
    <2>2. \A c \in Boxes : LogOfPast(box[c].log)' /\ LogOnce(box[c].log)'
      BY <1>7 DEF LogOfPast, LogOnce
    <2>3. QED
      BY <1>3, <2>1, <2>2 DEF Numbered, At
  <1>10. QED
    BY <1>1, <1>2, <1>9 DEF OnceInv

LEMMA OnceInit == Init => OnceInv
  <1> SUFFICES ASSUME Init PROVE OnceInv
    OBVIOUS
  <1>1. remote.log = <<>> /\ \A c \in Boxes : box[c].log = <<>> /\ box[c].item = 0 /\ inbox[c] = 0
    BY DEF Init, Absent
  <1>2. Upwards
    BY <1>1 DEF Init, Upwards
  <1>3. Numbered
    BY <1>1 DEF Numbered, LogOfPast, LogOnce
  <1>4. QED
    BY <1>2, <1>3, TypeInit DEF OnceInv

\* A container's work for an item is on the branch at most once, and turns are charged
\* at most what they cost.
THEOREM NothingIsDoneTwice == Spec => []NothingTwice
  <1>1. OnceInv => NothingTwice
    <2> SUFFICES ASSUME OnceInv PROVE NothingTwice
      OBVIOUS
    <2>1. WorkedOnce
      BY DEF OnceInv, Numbered, LogOnce, WorkedOnce
    <2>2. ASSUME NEW c \in Boxes PROVE box[c].charged <= box[c].spent - box[c].first
      <3>1. box[c].charged \in Nat /\ box[c].spent \in Nat /\ box[c].base \in Nat /\ box[c].first \in Nat
        BY BoxType DEF OnceInv, Containers
      <3>2. QED
        BY <3>1 DEF OnceInv, TypeInv, Baseline
    <2>3. QED
      BY <2>1, <2>2 DEF NothingTwice, ChargedOnce
  <1>2. QED
    BY <1>1, OnceInit, OnceNext, PTL DEF Spec

-----------------------------------------------------------------------------
(* What the engine accepted is on the run branch. *)

\* The branch only grows: what a container has on it stays at its place.
RemoteGrows == \A i \in DOMAIN remote.log : i \in DOMAIN remote'.log /\ remote'.log[i] = remote.log[i]

LEMMA PrefixGrows ==
    ASSUME NEW s \in Seq(Commits), NEW t \in Seq(Commits), IsPrefix(s, t)
    PROVE  \A i \in DOMAIN s : i \in DOMAIN t /\ t[i] = s[i]
  <1>1. Len(s) <= Len(t) /\ SubSeq(s, 1, Len(s)) = SubSeq(t, 1, Len(s))
    BY DEF IsPrefix
  <1>2. \A i \in 1..Len(s) : SubSeq(s, 1, Len(s))[i] = s[i] /\ SubSeq(t, 1, Len(s))[i] = t[i]
    BY <1>1
  <1>3. QED
    BY <1>1, <1>2

LEMMA LandedGrows ==
    ASSUME TypeInv, NoBranch, NEW c \in Boxes, FastForward(c), Landed(c)
    PROVE  RemoteGrows /\ NoBranch' /\ remote'.log = box[c].log
  <1>1. remote.log \in Seq(Commits) /\ box[c].log \in Seq(Commits)
    <2>1. remote \in [exists : BOOLEAN, log : Seq(Commits)]
      BY OtherTypes
    <2>2. QED
      BY <2>1, BoxType DEF Containers
  <1>2. remote'.log = box[c].log /\ remote'.exists
    BY DEF Landed
  <1>3. CASE ~remote.exists
    BY <1>2, <1>3 DEF NoBranch, RemoteGrows
  <1>4. CASE IsPrefix(remote.log, box[c].log)
    BY <1>1, <1>2, <1>4, PrefixGrows DEF RemoteGrows, NoBranch
  <1>5. QED
    BY <1>2, <1>3, <1>4 DEF FastForward

LEMMA RemoteNext ==
    ASSUME TypeInv, NoBranch, RemoteMoves
    PROVE  RemoteGrows /\ NoBranch'
  BY LandedGrows DEF RemoteMoves, RemoteGrows, NoBranch

LEMMA StandingSame ==
    ASSUME NEW c \in Boxes, Standing(c), RemoteGrows, box'[c] = box[c], outbox'[c] = outbox[c],
           store'[c] = store[c]
    PROVE  Standing(c)'
  <1>1. ASSUME NEW i \in DOMAIN box[c].log PROVE OnRemote(c, i)' \/ Untold(c, i)'
    <2>1. CASE OnRemote(c, i)
      BY <2>1 DEF OnRemote, RemoteGrows
    <2>2. CASE Untold(c, i)
      BY <2>2 DEF Untold, At
    <2>3. QED
      BY <2>1, <2>2 DEF Standing, Kept
  <1>2. Kept(c)'
    BY <1>1 DEF Kept
  <1>3. QED
    BY <1>2 DEF Standing, Answered, Stored, At

\* A container that keeps its log: what is in doubt stays in doubt.
LEMMA KeptStays ==
    ASSUME NEW c \in Boxes, Standing(c), RemoteGrows, box'[c].log = box[c].log,
           box[c].pc \in Doubtful =>
              /\ box'[c].item = box[c].item /\ outbox'[c] = outbox[c] /\ box'[c].pc \in Doubtful
              /\ box'[c].pc = "upload" => box'[c].verdict \notin Outcomes
              /\ store[c] \notin Outcomes /\ (At(c, "upload") => box[c].verdict \notin Outcomes)
                    => store'[c] \notin Outcomes
    PROVE  Kept(c)'
  <1> SUFFICES ASSUME NEW i \in DOMAIN box[c].log PROVE OnRemote(c, i)' \/ Untold(c, i)'
    BY DEF Kept
  <1>1. CASE OnRemote(c, i)
    BY <1>1 DEF OnRemote, RemoteGrows
  <1>2. CASE Untold(c, i)
    BY <1>2 DEF Untold, At
  <1>3. QED
    BY <1>1, <1>2 DEF Standing, Kept

\* A step of a living container that answers and stores nothing.
LEMMA QuietStanding ==
    ASSUME NEW c \in Boxes, Standing(c), RemoteGrows, Alive(c), UNCHANGED <<outbox, store>>,
           NEW pc, Quietly(c, pc),
           pc \in {"agent", "turn", "commit", "push"} => outbox[c] < box[c].item,
           pc \in Uncharged => outbox[c] = 0,
           box[c].pc \in Doubtful => pc \in Doubtful /\ (pc = "upload" => box'[c].verdict \notin Outcomes)
    PROVE  Standing(c)'
  <1>1. box'[c].pc = pc /\ box'[c].item = box[c].item /\ box'[c].log = box[c].log
    BY DEF Quietly, BoxMoves
  <1>2. store[c] = "none" /\ "none" \notin Outcomes
    BY DEF Standing, Stored, Alive, At, Outcomes
  <1>3. Kept(c)'
    BY <1>1, <1>2, KeptStays
  <1>4. Answered(c)' /\ Stored(c)'
    BY <1>1, <1>2 DEF Standing, Answered, Stored
  <1>5. QED
    BY <1>3, <1>4 DEF Standing

LEMMA FailedStanding ==
    ASSUME NEW c \in Boxes, Standing(c), RemoteGrows, Alive(c), UNCHANGED <<outbox, store>>, Failed(c)
    PROVE  Standing(c)'
  BY QuietStanding DEF Failed, Uncharged, Doubtful

LEMMA CloneStanding ==
    ASSUME TypeInv, NEW c \in Boxes, Standing(c), RemoteGrows, Clone(c)
    PROVE  Standing(c)'
  <1>1. UNCHANGED <<remote, outbox, store>> /\ At(c, "clone") /\ Alive(c)
    BY CloneSays DEF Clone, At, Alive
  <1>2. CASE Failed(c)
    BY <1>1, <1>2, FailedStanding
  <1>3. ASSUME NEW log \in {remote.log, <<>>}, BoxMoves(c, "skill", box[c].item, log)
        PROVE  Standing(c)'
    <2>1. box'[c].pc = "skill" /\ box'[c].item = box[c].item /\ box'[c].log = log
      BY <1>3 DEF BoxMoves
    <2>2. Kept(c)'
      BY <1>1, <1>3, <2>1 DEF Kept, OnRemote
    <2>3. Answered(c)' /\ Stored(c)'
      BY <1>1, <2>1 DEF Standing, Answered, Stored, At, Uncharged
    <2>4. QED
      BY <2>2, <2>3 DEF Standing
  <1>4. QED
    BY <1>2, <1>3, CloneSays

LEMMA CommitStanding ==
    ASSUME TypeInv, NEW c \in Boxes, Standing(c), RemoteGrows, Commit(c)
    PROVE  Standing(c)'
  <1>1. UNCHANGED <<remote, outbox, store>> /\ At(c, "commit")
    BY CommitSays DEF Commit
  <1>2. PICK log \in {box[c].log,
                      Append(box[c].log, [item |-> box[c].item, by |-> c, claude |-> Clean])} :
           BoxMoves(c, "push", box[c].item, log)
    BY CommitSays
  <1>3. box'[c].pc = "push" /\ box'[c].item = box[c].item /\ box'[c].log = log
    BY <1>2 DEF BoxMoves
  <1>4. outbox[c] < box[c].item /\ store[c] = "none" /\ "none" \notin Outcomes
    BY <1>1 DEF Standing, Answered, Stored, At, Outcomes
  <1>5. Answered(c)' /\ Stored(c)'
    BY <1>1, <1>3, <1>4 DEF Standing, Answered, Stored, Uncharged
  <1>6. ASSUME NEW i \in DOMAIN log PROVE OnRemote(c, i)' \/ Untold(c, i)'
    <2>1. box[c].log \in Seq(Commits)
      BY BoxType DEF Containers
    <2>2. CASE i \in DOMAIN box[c].log
      <3>1. log[i] = box[c].log[i]
        <4> DEFINE old == box[c].log
                   new == [item |-> box[c].item, by |-> c, claude |-> Clean]
        <4>1. log \in {old, Append(old, new)} /\ old \in Seq(Commits) /\ i \in DOMAIN old
          BY <1>2, <2>1, <2>2
        <4> HIDE DEF old, new
        <4>2. log[i] = old[i]
          BY <4>1
        <4>3. QED
          BY <4>2 DEF old
      <3>2. OnRemote(c, i)
        BY <1>1, <2>2 DEF Standing, Kept, Untold, Doubtful, At
      <3>3. QED
        BY <1>1, <1>3, <3>1, <3>2 DEF OnRemote
    <2>3. CASE i \notin DOMAIN box[c].log
      <3>1. log[i].item = box[c].item
        BY <2>1, <2>3
      <3>2. QED
        BY <1>1, <1>3, <1>4, <3>1 DEF Untold, Doubtful, At
    <2>4. QED
      BY <2>2, <2>3
  <1>7. Kept(c)'
    BY <1>3, <1>6 DEF Kept
  <1>8. QED
    BY <1>5, <1>7 DEF Standing

LEMMA PushStanding ==
    ASSUME TypeInv, NoBranch, NEW c \in Boxes, Standing(c), RemoteGrows, Push(c)
    PROVE  Standing(c)'
  <1>1. UNCHANGED <<outbox, store>> /\ At(c, "push") /\ Alive(c)
    BY PushSays DEF Push, At, Alive
  <1>2. CASE Failed(c)
    BY <1>1, <1>2, FailedStanding
  <1>3. CASE /\ FastForward(c) /\ Landed(c)
             /\ Quietly(c, IF mode = "step" \/ box[c].item = End THEN "emit" ELSE "outbox")
    <2>1. PICK pc \in {"emit", "outbox"} :
             box'[c].pc = pc /\ box'[c].item = box[c].item /\ box'[c].log = box[c].log
      BY <1>3 DEF Quietly, BoxMoves
    <2>2. Kept(c)'
      BY <1>3, <2>1, LandedGrows DEF Kept, OnRemote
    <2>3. Answered(c)' /\ Stored(c)'
      BY <1>1, <2>1 DEF Standing, Answered, Stored, At, Uncharged
    <2>4. QED
      BY <2>2, <2>3 DEF Standing
  <1>4. QED
    BY <1>2, <1>3, PushSays

LEMMA SessionLoopStanding ==
    ASSUME TypeInv, Upwards, NEW c \in Boxes, Standing(c), RemoteGrows, SessionLoop(c)
    PROVE  Standing(c)'
  <1>1. UNCHANGED <<outbox, store>> /\ At(c, "await") /\ Alive(c)
    BY SessionLoopSays DEF SessionLoop, At, Alive
  <1>2. CASE Failed(c)
    BY <1>1, <1>2, FailedStanding
  <1>3. CASE /\ NewTurn(c)
             /\ BoxMoves(c, IF inbox[c] = End THEN "commit" ELSE "turn", inbox[c], box[c].log)
    <2>1. PICK pc \in {"commit", "turn"} :
             box'[c].pc = pc /\ box'[c].item = inbox[c] /\ box'[c].log = box[c].log
      BY <1>3 DEF BoxMoves
    <2>2. Kept(c)'
      BY <1>1, <2>1, KeptStays DEF At, Doubtful
    <2>3. mode = "session"
      BY <1>1 DEF TypeInv, TypeOK, InRange, At, Turns
    <2>4. outbox[c] < inbox[c]
      <3>1. outbox[c] \in 0..NumItems /\ box[c].item \in 0..End /\ inbox[c] \in 0..End
        BY BoxType, OtherTypes DEF Containers
      <3>2. box[c].item < inbox[c]
        BY <1>3, <2>3, <3>1, Ranges DEF Upwards, NewTurn
      <3>3. QED
        BY <3>1, <3>2, Ranges DEF Standing, Answered
    <2>5. Answered(c)' /\ Stored(c)'
      <3>1. outbox[c] \in Int /\ inbox[c] \in Int
        BY OtherTypes, Ranges
      <3>2. QED
        BY <1>1, <2>1, <2>4, <3>1 DEF Standing, Answered, Stored, At, Uncharged
    <2>6. QED
      BY <2>2, <2>5 DEF Standing
  <1>4. QED
    BY <1>2, <1>3, SessionLoopSays

LEMMA PublishOutboxStanding ==
    ASSUME TypeInv, NEW c \in Boxes, Standing(c), RemoteGrows, PublishOutbox(c)
    PROVE  Standing(c)' /\ outbox[c] <= outbox'[c] /\ \A d \in Boxes \ {c} : outbox'[d] = outbox[d]
  <1>1. UNCHANGED store /\ At(c, "outbox") /\ Alive(c)
    BY PublishOutboxSays DEF PublishOutbox, At, Alive
  <1>2. PICK pc \in {"await", "upload"} : Quietly(c, pc)
    BY PublishOutboxSays DEF Failed
  <1>3. box'[c].pc = pc /\ box'[c].item = box[c].item /\ box'[c].log = box[c].log
    BY <1>2 DEF Quietly, BoxMoves
  <1>4. outbox'[c] \in {outbox[c], box[c].item} /\ \A d \in Boxes \ {c} : outbox'[d] = outbox[d]
    BY PublishOutboxSays, OtherTypes
  <1>5. outbox[c] \in 0..NumItems /\ box[c].item \in 0..End
    BY BoxType, OtherTypes DEF Containers
  <1>6. outbox[c] <= outbox'[c] /\ outbox'[c] <= box[c].item
    BY <1>4, <1>5, Ranges DEF Standing, Answered
  <1>7. Kept(c)'
    BY <1>1, <1>3, KeptStays DEF At, Doubtful
  <1>8. Answered(c)' /\ Stored(c)'
    BY <1>1, <1>3, <1>6 DEF Standing, Answered, Stored, At, Uncharged
  <1>9. QED
    BY <1>4, <1>6, <1>7, <1>8 DEF Standing

LEMMA OnExitStanding ==
    ASSUME TypeInv, NEW c \in Boxes, Standing(c), RemoteGrows, OnExit(c)
    PROVE  Standing(c)' /\ store[c] = "none" /\ \A d \in Boxes \ {c} : store'[d] = store[d]
  <1>1. UNCHANGED outbox /\ At(c, "upload")
    BY OnExitSays DEF OnExit
  <1>2. box'[c].pc = "exited" /\ box'[c].item = box[c].item /\ box'[c].log = box[c].log
    BY OnExitSays DEF Quietly, BoxMoves
  <1>3. store'[c] \in {store[c], box[c].verdict} /\ \A d \in Boxes \ {c} : store'[d] = store[d]
    BY OnExitSays, OtherTypes
  <1>4. Kept(c)'
    BY <1>1, <1>2, <1>3, KeptStays DEF At, Doubtful
  <1>5. Answered(c)' /\ Stored(c)'
    BY <1>1, <1>2 DEF Standing, Answered, Stored, At, Uncharged
  <1>6. QED
    BY <1>1, <1>3, <1>4, <1>5 DEF Standing, Stored, At

\* A script's step keeps its container's standing; what was answered stays answered,
\* what was stored stays stored.
LEMMA ScriptStanding ==
    ASSUME TypeInv, Upwards, NoBranch, NEW c \in Boxes, Standing(c), RemoteGrows, Script(c) \/ Die(c)
    PROVE  /\ Standing(c)' /\ outbox[c] <= outbox'[c] /\ (store[c] # "none" => store'[c] = store[c])
           /\ \A d \in Boxes \ {c} : outbox'[d] = outbox[d] /\ store'[d] = store[d]
  <1>1. outbox[c] <= outbox[c] /\ outbox[c] \in Nat /\ box[c].item \in 0..End
    BY OtherTypes, BoxType, Ranges DEF Containers
  <1>2. CASE PublishOutbox(c)
    BY <1>1, <1>2, PublishOutboxStanding DEF PublishOutbox
  <1>3. CASE OnExit(c)
    BY <1>1, <1>3, OnExitStanding DEF OnExit
  <1>4. ASSUME ~PublishOutbox(c), ~OnExit(c) PROVE UNCHANGED <<outbox, store>>
    BY <1>4 DEF Script, Clone, DeliverSkill, RunAgent, Commit, Push, Preamble, SessionLoop,
                AnswerTurn, Emit, Die
  <1>5. ASSUME ~PublishOutbox(c), ~OnExit(c) PROVE Standing(c)'
    <2>1. UNCHANGED <<outbox, store>>
      BY <1>4, <1>5
    <2>2. CASE Clone(c)
      BY <2>2, CloneStanding
    <2>3. CASE DeliverSkill(c)
      <3>1. At(c, "skill") /\ Alive(c) /\ outbox[c] = 0
        BY <2>3, DeliverSkillSays DEF At, Alive, Standing, Answered, Uncharged
      <3>2. mode = "step" => box[c].item \in Items
        BY <3>1 DEF TypeInv, InRange, At
      <3>3. CASE Quietly(c, IF mode = "step" THEN "agent" ELSE "preamble")
        BY <2>1, <3>1, <3>2, <3>3, QuietStanding, Ranges DEF At, Doubtful, Uncharged
      <3>4. QED
        BY <2>1, <2>3, <3>1, <3>3, DeliverSkillSays, FailedStanding
    <2>4. CASE RunAgent(c)
      <3>1. At(c, "agent") /\ Alive(c) /\ outbox[c] < box[c].item
        BY <2>4, RunAgentSays DEF At, Alive, Standing, Answered
      <3>2. QED
        BY <2>1, <2>4, <3>1, RunAgentSays, QuietStanding, FailedStanding DEF At, Doubtful, Uncharged
    <2>5. CASE Commit(c)
      BY <2>5, CommitStanding
    <2>6. CASE Push(c)
      BY <2>6, PushStanding
    <2>7. CASE Preamble(c)
      <3>1. At(c, "preamble") /\ Alive(c)
        BY <2>7, PreambleSays DEF At, Alive
      <3>2. CASE BoxMoves(c, "await", box[c].item, box[c].log)
        <4>1. box'[c].pc = "await" /\ box'[c].item = box[c].item /\ box'[c].log = box[c].log
          BY <3>2 DEF BoxMoves
        <4>2. Kept(c)'
          BY <3>1, <4>1, KeptStays DEF At, Doubtful
        <4>3. QED
          BY <2>1, <3>1, <4>1, <4>2 DEF Standing, Answered, Stored, At, Uncharged
      <3>3. QED
        BY <2>1, <2>7, <3>1, <3>2, PreambleSays, FailedStanding
    <2>8. CASE SessionLoop(c)
      BY <2>8, SessionLoopStanding
    <2>9. CASE AnswerTurn(c)
      <3>1. At(c, "turn") /\ Alive(c)
        BY <2>9, AnswerTurnSays DEF At, Alive
      <3>2. CASE BoxMoves(c, "commit", box[c].item, box[c].log)
        <4>1. box'[c].pc = "commit" /\ box'[c].item = box[c].item /\ box'[c].log = box[c].log
          BY <3>2 DEF BoxMoves
        <4>2. Kept(c)'
          BY <3>1, <4>1, KeptStays DEF At, Doubtful
        <4>3. QED
          BY <2>1, <3>1, <4>1, <4>2 DEF Standing, Answered, Stored, At, Uncharged
      <3>3. QED
        BY <2>1, <2>9, <3>1, <3>2, AnswerTurnSays, FailedStanding
    <2>10. CASE Emit(c)
      <3>1. At(c, "emit") /\ Alive(c) /\ Quietly(c, "upload")
        BY <2>10, EmitSays DEF At, Alive
      <3>2. QED
        BY <2>1, <3>1, QuietStanding DEF At, Doubtful, Uncharged
    <2>11. CASE Die(c)
      <3>1. Alive(c)
        BY <2>11, DieSays
      <3>2. CASE Quietly(c, "killed")
        BY <2>1, <3>1, <3>2, QuietStanding DEF Doubtful, Uncharged
      <3>3. CASE Quietly(c, box[c].pc) /\ box'[c].verdict = box[c].verdict
        <4>1. /\ box'[c].pc = box[c].pc /\ box'[c].item = box[c].item /\ box'[c].log = box[c].log
              /\ box'[c].verdict = box[c].verdict
          BY <3>3 DEF Quietly, BoxMoves
        <4>2. ASSUME NEW i \in DOMAIN box[c].log PROVE OnRemote(c, i)' \/ Untold(c, i)'
          <5>1. CASE OnRemote(c, i)
            BY <4>1, <5>1 DEF OnRemote, RemoteGrows
          <5>2. CASE Untold(c, i)
            BY <2>1, <4>1, <5>2 DEF Untold, At
          <5>3. QED
            BY <5>1, <5>2 DEF Standing, Kept
        <4>3. Kept(c)'
          BY <4>1, <4>2 DEF Kept
        <4>4. QED
          BY <2>1, <4>1, <4>3 DEF Standing, Answered, Stored, At
      <3>4. QED
        BY <2>11, <3>2, <3>3, DieSays
    <2>12. QED
      BY <1>5, <2>2, <2>3, <2>4, <2>5, <2>6, <2>7, <2>8, <2>9, <2>10, <2>11 DEF Script
  <1>6. QED
    BY <1>1, <1>2, <1>3, <1>4, <1>5

LEMMA EngineStanding ==
    ASSUME TypeInv, \A d \in Boxes : Standing(d), RemoteGrows, Engine \/ Ask \/ GiveUp
    PROVE  \A d \in Boxes : Standing(d)'
  <1>1. UNCHANGED <<outbox, store>>
    BY EngineLogs
  <1>2. CASE UNCHANGED box
    BY <1>1, <1>2, StandingSame
  <1>3. CASE Launch
    <2>1. PICK c \in Boxes : /\ At(c, "absent")
                             /\ BoxMoves(c, "clone", IF mode = "step" THEN job.item ELSE 0, box[c].log)
      BY <1>3, LaunchSays
    <2>2. \A d \in Boxes \ {c} : Standing(d)'
      BY <1>1, <2>1, BoxAfter, StandingSame
    <2>3. box'[c].pc = "clone" /\ box'[c].log = box[c].log /\ 0 <= box'[c].item
      <3>1. 0 <= (IF mode = "step" THEN job.item ELSE 0)
        BY JobType DEF Jobs
      <3>2. QED
        BY <2>1, <3>1 DEF BoxMoves
    <2>4. Kept(c)'
      BY <2>1, <2>3, KeptStays DEF At, Doubtful
    <2>5. Answered(c)' /\ Stored(c)'
      BY <1>1, <2>1, <2>3 DEF Standing, Answered, Stored, At, Uncharged
    <2>6. QED
      BY <2>2, <2>4, <2>5 DEF Standing
  <1>4. CASE GiveUp
    <2>1. CASE Quietly(job.box, "killed")
      <3>1. PICK c \in Boxes : Quietly(c, "killed") /\ Alive(c)
        BY <1>4, <2>1, GiveUpSays
      <3>2. \A d \in Boxes \ {c} : Standing(d)'
        BY <1>1, <3>1, BoxAfter, StandingSame DEF Quietly
      <3>3. Standing(c)'
        BY <1>1, <3>1, QuietStanding DEF Doubtful, Uncharged
      <3>4. QED
        BY <3>2, <3>3
    <2>2. QED
      BY <1>2, <1>4, <2>1, GiveUpSays
  <1>5. QED
    BY <1>2, <1>3, <1>4 DEF Engine, JudgeStep, JudgeTurn, Ask

\* The engine accepts what it was told of, and forgets nothing.
LEMMA EngineTold ==
    ASSUME TypeInv, Told, Engine \/ Ask \/ GiveUp
    PROVE  Told'
  <1>1. UNCHANGED <<mode, store, outbox>>
    BY EngineLogs
  <1>2. job \in Jobs
    BY JobType
  <1>3. CASE job'.accepted = job.accepted
    BY <1>1, <1>3 DEF Told
  <1>4. CASE Launch
    <2>1. job'.accepted = job.accepted
      BY <1>2, <1>4, LaunchSays DEF Jobs
    <2>2. QED
      BY <1>3, <2>1
  <1>5. CASE Ask
    BY <1>3, <1>5, AskSays
  <1>6. CASE GiveUp
    BY <1>3, <1>6, GiveUpSays, RetrySays, AdvanceSays, Ranges
  <1>7. CASE JudgeStep
    <2>1. CASE VerdictOf(job.box) \in Outcomes /\ Advance(TRUE)
      <3>1. store[job.box] \in Outcomes
        BY <2>1 DEF VerdictOf, Outcomes
      <3>2. job'.accepted = job.accepted \cup {[item |-> job.item, by |-> job.box]} /\ mode = "step"
        BY <1>7, <2>1, JudgeStepSays, AdvanceSays, Ranges
      <3>3. QED
        BY <1>1, <3>1, <3>2 DEF Told
    <2>2. CASE Retry
      BY <1>3, <2>2, RetrySays
    <2>3. CASE job' = [job EXCEPT !.state = "failed"]
      BY <1>2, <1>3, <2>3 DEF Jobs
    <2>4. QED
      BY <1>7, <2>1, <2>2, <2>3, JudgeStepSays
  <1>8. CASE JudgeTurn
    <2>1. CASE /\ job.box \in Boxes /\ job.item \in Items
               /\ outbox[job.box] = job.item /\ Advance(TRUE)
      <3>1. job'.accepted = job.accepted \cup {[item |-> job.item, by |-> job.box]} /\ mode = "session"
        BY <1>8, <2>1, JudgeTurnSays, AdvanceSays, Ranges
      <3>2. job.item <= outbox[job.box]
        BY <1>2, <2>1 DEF Jobs
      <3>3. QED
        BY <1>1, <3>1, <3>2 DEF Told
    <2>2. CASE job.box \in Boxes /\ job.item \in Items /\ Advance(FALSE)
      BY <1>3, <2>2, AdvanceSays, Ranges
    <2>3. CASE job' = [job EXCEPT !.state = "done"]
      BY <1>2, <1>3, <2>3 DEF Jobs
    <2>4. QED
      BY <1>8, <2>1, <2>2, <2>3, JudgeTurnSays
  <1>9. QED
    BY <1>4, <1>5, <1>6, <1>7, <1>8 DEF Engine

LEMMA AcceptNext == AcceptInv /\ [Next]_vars => AcceptInv'
  <1> SUFFICES ASSUME AcceptInv, [Next]_vars PROVE AcceptInv'
    OBVIOUS
  <1>1. TypeInv /\ Upwards /\ NoBranch /\ Told /\ (\A c \in Boxes : Standing(c))
    BY DEF AcceptInv, OnceInv
  <1>2. OnceInv'
    BY OnceNext DEF AcceptInv
  <1>3. RemoteGrows /\ NoBranch'
    BY <1>1, NextLogs, RemoteNext
  <1>4. CASE UNCHANGED vars
    <2>1. Told'
      BY <1>1, <1>4 DEF vars, Told
    <2>2. QED
      BY <1>1, <1>2, <1>3, <1>4, <2>1, StandingSame DEF vars, AcceptInv
  <1>5. CASE Engine \/ Ask \/ GiveUp
    BY <1>1, <1>2, <1>3, <1>5, EngineStanding, EngineTold DEF AcceptInv
  <1>6. CASE \E c \in Boxes : Script(c) \/ Die(c)
    <2>1. PICK c \in Boxes : Script(c) \/ Die(c)
      BY <1>6
    <2>2. UNCHANGED <<mode, job>>
      BY <1>1, <2>1, ScriptLogs
    <2>3. /\ Standing(c)' /\ outbox[c] <= outbox'[c] /\ (store[c] # "none" => store'[c] = store[c])
          /\ \A d \in Boxes \ {c} : outbox'[d] = outbox[d] /\ store'[d] = store[d]
      BY <1>1, <1>3, <2>1, ScriptStanding
    <2>4. \A d \in Boxes \ {c} : box'[d] = box[d]
      BY <1>1, <2>1, ScriptForward, BoxType
    <2>5. \A d \in Boxes : Standing(d)'
      BY <1>1, <1>3, <2>3, <2>4, StandingSame
    <2>6. Told'
      <3> SUFFICES ASSUME NEW a \in job.accepted
                   PROVE  IF mode = "step" THEN store'[a.by] \in Outcomes ELSE a.item <= outbox'[a.by]
        BY <2>2 DEF Told
      <3>1. a.by \in Boxes /\ a.item \in Items
        BY <1>1, JobType DEF Jobs
      <3>2. IF mode = "step" THEN store[a.by] \in Outcomes ELSE a.item <= outbox[a.by]
        BY <1>1 DEF Told
      <3>3. outbox[a.by] \in Int /\ outbox'[a.by] \in Int /\ a.item \in Int
        <4>1. outbox' \in [Boxes -> 0..NumItems]
          BY <1>2 DEF OnceInv, TypeInv, TypeOK
        <4>2. QED
          BY <1>1, <3>1, <4>1, OtherTypes, Ranges
      <3>4. outbox[a.by] <= outbox'[a.by]
        BY <2>3, <3>1, <3>3
      <3>5. store[a.by] \in Outcomes => store'[a.by] = store[a.by]
        BY <2>3, <3>1 DEF Outcomes
      <3>6. QED
        BY <3>2, <3>3, <3>4, <3>5
    <2>7. QED
      BY <1>2, <1>3, <2>5, <2>6 DEF AcceptInv
  <1>7. QED
    BY <1>4, <1>5, <1>6 DEF Next

LEMMA AcceptInit == Init => AcceptInv
  <1> SUFFICES ASSUME Init PROVE AcceptInv
    OBVIOUS
  <1>1. OnceInv
    BY OnceInit
  <1>2. NoBranch /\ Told
    BY DEF Init, NoBranch, Told
  <1>3. ASSUME NEW c \in Boxes PROVE Standing(c)
    <2>1. box[c] = Absent /\ outbox[c] = 0 /\ store[c] = "none"
      BY DEF Init
    <2>2. QED
      BY <2>1 DEF Absent, Standing, Answered, Stored, Kept
  <1>4. QED
    BY <1>1, <1>2, <1>3 DEF AcceptInv

\* "A step counts only when its push lands": what the engine accepted of a container is
\* on the run branch, wherever scripts and containers die and whoever else pushes.
THEOREM AcceptedWorkIsPushed == Spec => []AcceptedIsPushed
  <1>1. AcceptInv => AcceptedIsPushed
    <2> SUFFICES ASSUME AcceptInv, NEW a \in job.accepted, NEW i \in DOMAIN box[a.by].log,
                        box[a.by].log[i].item = a.item
                 PROVE  OnRemote(a.by, i)
      BY DEF AcceptedIsPushed, OnRemote
    <2>1. TypeInv /\ a.by \in Boxes /\ a.item \in Items
      BY JobType DEF AcceptInv, OnceInv, Jobs
    <2>2. SUFFICES ASSUME Untold(a.by, i) PROVE FALSE
      BY <2>1 DEF AcceptInv, Standing, Kept
    <2>3. store[a.by] \notin Outcomes /\ outbox[a.by] < a.item
      BY <2>2 DEF Untold
    <2>4. store[a.by] \in Outcomes \/ a.item <= outbox[a.by]
      BY DEF AcceptInv, Told
    <2>5. outbox[a.by] \in Int /\ a.item \in Int
      BY <2>1, OtherTypes, Ranges
    <2>6. QED
      BY <2>3, <2>4, <2>5
  <1>2. QED
    BY <1>1, AcceptInit, AcceptNext, PTL DEF Spec

=============================================================================
