--------------------------- MODULE Session_proofs ---------------------------
(***************************************************************************)
(* What holds of Session for any number of tabs, requests, incarnations of *)
(* the container, reaps, crashes and mishaps.                              *)
(*                                                                         *)
(* The lemmas named ...Says tell what an action does to the fields of the  *)
(* rows, tasks and containers; the invariants are preserved by what they   *)
(* say, without unfolding the records again.                               *)
(***************************************************************************)
EXTENDS Session, FiniteSetTheorems, TLAPS

-----------------------------------------------------------------------------
\* A dispatch of a turn, or of an end, that has committed it; and one that has a
\* container in hand.
Asking  == TurnPcs \ {"turn"}
Closing == EndPcs \ {"end"}
Holding == {"commit", "inbox", "await", "conclude", "endinbox", "endwait"}
ReapPcs == {"idle", "load", "mark", "resolve", "write", "check", "poll", "final"}

\* What a dispatch may take for granted at its place in the code.
Flow ==
    /\ eng.pc \in Holding => eng.h \in Boxes
    /\ Driving => queue[eng.item].state = "claimed"
    /\ eng.pc \in {"turn", "end"} => run.state \in {"running", "paused", "cancelled"}
    /\ eng.pc \in Asking \cup Closing => run.state \in {"running", "cancelled"}
    /\ eng.pc \in EndPcs => queue[eng.item].kind = "end"
    /\ eng.pc \notin {"conclude", "endfinal"} => eng.result = "none"

\* Cancelled runs, and dispatches that were signalled, go back to a stop request.
Asked == eng.event \/ eng.result = "cancelled" \/ run.state = "cancelled" => stop # "none"

TypeInv == TypeOK /\ Flow /\ Asked

-----------------------------------------------------------------------------
\* Lemmas about the records.

LEMMA Bounds ==
    /\ MaxItems \in Nat /\ 1 \in Items /\ Items \subseteq Nat
    /\ MaxBoxes \in Nat /\ Boxes \subseteq Nat \ {0} /\ NoBox \notin Boxes /\ NoBox = 0
  BY SessionAssumption DEF MaxItems, Items, Boxes, NoBox

LEMMA GoneType ==
    /\ NoReply \in Reply /\ NoMessage \in Message
    /\ Gone \in BoxRecord /\ Gone.state = "gone" /\ Gone.busy = NoReply
    /\ \A state \in {"running", "exited", "crashed"} :
         LET g == [Gone EXCEPT !.state = state] IN
         g \in BoxRecord /\ g.state = state /\ g.busy = NoReply /\ g.seen = 0
  BY Bounds DEF NoReply, Reply, NoMessage, Message, Gone, BoxRecord

LEMMA DispatcherType ==
    ASSUME NEW pc \in {"down", "idle", "finish"} \cup TurnPcs \cup EndPcs
    PROVE  /\ Dispatcher(pc) \in EngineRecord /\ Dispatcher(pc).pc = pc
           /\ Dispatcher(pc).event = FALSE /\ Dispatcher(pc).result = "none"
           /\ Dispatcher(pc).h = NoBox
  BY Bounds DEF Dispatcher, EngineRecord, NoBox

LEMMA ReaperType ==
    ASSUME NEW pc \in ReapPcs
    PROVE  Reaper(pc) \in ReapRecord /\ Reaper(pc).pc = pc /\ Reaper(pc).h = NoBox
  BY Bounds DEF Reaper, ReapRecord, ReapPcs

LEMMA EngFields ==
    ASSUME TypeOK
    PROVE  /\ eng.pc \in {"down", "idle", "finish"} \cup TurnPcs \cup EndPcs
           /\ eng.item \in Items /\ eng.query \in Items /\ eng.seq \in Nat /\ eng.h \in Nat
           /\ eng.event \in BOOLEAN
  BY DEF TypeOK, EngineRecord

LEMMA RowFields ==
    ASSUME TypeOK
    PROVE  /\ run.state \in Terminal \cup {"pending", "running", "paused"}
           /\ run.phase \in {"pending", "active", "reaping", "ended"} /\ run.idle \in BOOLEAN
           /\ row.exec \in {"pending", "running", "completed", "failed"}
           /\ row.attempt \in Nat \ {0} /\ row.turn \in Nat /\ row.arn \in Boxes \cup {NoBox}
           /\ reap.pc \in ReapPcs /\ reap.seq \in Nat /\ reap.h \in Boxes \cup {NoBox}
           /\ count.crashes \in Nat /\ count.reaps \in Nat
  BY DEF TypeOK, RunRecord, RowRecord, ReapRecord, ReapPcs

LEMMA ItemFields ==
    ASSUME TypeOK, NEW i \in Items
    PROVE  /\ queue[i] \in ItemRecord
           /\ queue[i].kind \in {"start", "turn", "end", "resume"}
           /\ queue[i].state \in {"absent", "pending", "claimed", "orphaned", "done"}
  <1>1. queue[i] \in ItemRecord
    BY DEF TypeOK
  <1>2. QED
    BY <1>1 DEF ItemRecord

LEMMA BoxFields ==
    ASSUME TypeOK, NEW b \in Boxes
    PROVE  /\ box[b] \in BoxRecord /\ box[b].seen \in Nat /\ box[b].busy \in Reply
           /\ box[b].state \in {"gone", "running", "closing", "exited", "crashed"}
           /\ inbox[b] \in Message /\ inbox[b].seq \in Nat /\ inbox[b].query \in Items \cup {0}
           /\ inbox[b].kind \in {"none", "turn", "end"}
           /\ outbox[b] \in Reply
  <1>1. box[b] \in BoxRecord /\ inbox[b] \in Message /\ outbox[b] \in Reply
    BY DEF TypeOK
  <1>2. QED
    BY <1>1 DEF BoxRecord, Message

LEMMA ReplyFields ==
    ASSUME NEW r \in Reply
    PROVE  r.seq \in Nat /\ r.query \in Items \cup {0}
  BY DEF Reply

-----------------------------------------------------------------------------
\* What a step does to the containers.

\* It stops some, and leaves the others as they are.
Stops(S) == \A b \in Boxes :
    \/ b \notin S /\ box'[b] = box[b]
    \/ box'[b].state \notin {"running", "closing"} /\ box'[b].busy = NoReply
Shrinks(S) == box' \in [Boxes -> BoxRecord] /\ Stops(S)

LEMMA SameBoxes ==
    ASSUME TypeOK, UNCHANGED box
    PROVE  Shrinks({})
  BY DEF Shrinks, Stops, TypeOK

LEMMA RemoveSays ==
    ASSUME TypeOK, NEW b, box' = Remove(b)
    PROVE  Shrinks({b})
  BY GoneType DEF Shrinks, Stops, Remove, TypeOK

\* An exited container was at rest.
LEMMA WithoutSays ==
    ASSUME TypeOK, NEW b \in Boxes \cup {NoBox}, box' = WithoutExited(b)
    PROVE  Shrinks({})
  <1>1. CASE b # NoBox /\ box[b].state \in {"exited", "crashed"}
    <2>1. box' = [box EXCEPT ![b] = Gone] /\ b \in Boxes
      BY <1>1 DEF WithoutExited, Remove
    <2>2. QED
      BY <2>1, GoneType DEF Shrinks, Stops, TypeOK
  <1>2. CASE ~(b # NoBox /\ box[b].state \in {"exited", "crashed"})
    BY <1>2, SameBoxes DEF WithoutExited
  <1>3. QED
    BY <1>1, <1>2

LEMMA ShrinkAlive ==
    ASSUME NEW S, Shrinks(S)
    PROVE  Alive' \subseteq Alive \ S
  BY DEF Shrinks, Stops, Alive

-----------------------------------------------------------------------------
\* What each action does.

Goes(pc, seq, h, result) ==
    /\ eng' \in EngineRecord /\ eng'.pc = pc
    /\ eng'.item = eng.item /\ eng'.query = eng.query /\ eng'.event = eng.event
    /\ eng'.seq = seq /\ eng'.h = h /\ eng'.result = result
Returns ==
    /\ eng' \in EngineRecord /\ eng'.pc = "finish" /\ eng'.result = "none"
    /\ eng'.item = eng.item /\ eng'.event = eng.event
RunGoes(state, phase) ==
    run' \in RunRecord /\ run'.state = state /\ run'.phase = phase
RowGoes(turn, arn) ==
    row' \in RowRecord /\ row'.turn = turn /\ row'.arn = arn
ReapGoes(pc, h) ==
    reap' \in ReapRecord /\ reap'.pc = pc /\ reap'.h = h

LEMMA ReturnSays == ASSUME TypeOK, eng' = Returned PROVE Returns
  <1> DEFINE d == Dispatcher("finish")
  <1>1. d \in EngineRecord /\ d.pc = "finish" /\ d.result = "none"
    BY DispatcherType
  <1>2. eng' = [d EXCEPT !.item = eng.item, !.event = eng.event]
    BY DEF Returned
  <1> HIDE DEF d
  <1>3. QED
    BY <1>1, <1>2, EngFields DEF Returns, EngineRecord

\* The transcript gets the dispatch's turn, with that answer.
Record(answer) == [item |-> eng.item, seq |-> eng.seq, query |-> eng.query, answer |-> answer]
TurnRecord == [item: Items, seq: Nat, query: Items, answer: Items \cup {0}]

LEMMA PauseSays ==
    ASSUME TypeOK, NEW answer \in Items \cup {0}, PauseTurn(answer)
    PROVE  /\ RunGoes("paused", "active") /\ Returns
           /\ turns' = turns \cup {Record(answer)} /\ turns' \in SUBSET TurnRecord
  <1>1. Record(answer) \in TurnRecord
    BY EngFields DEF Record, TurnRecord
  <1>2. turns' \in SUBSET TurnRecord
    BY <1>1 DEF PauseTurn, Record, TypeOK, TurnRecord
  <1>3. QED
    BY <1>2, ReturnSays DEF PauseTurn, RunGoes, RunRecord, Record

LEMMA ClaimSays ==
    ASSUME TypeOK, Claim
    PROVE  /\ \E i \in Items :
                /\ queue[i].state = "pending" /\ queue'[i].state = "claimed"
                /\ queue' \in [Items -> ItemRecord]
                /\ \A j \in Items : queue'[j].kind = queue[j].kind
                /\ \A j \in Items : j # i => queue'[j] = queue[j]
                /\ eng' \in EngineRecord /\ eng'.item = i /\ eng'.event = FALSE
                /\ eng'.pc = Way(queue[i].kind)
                /\ queue[i].kind = "turn" => eng'.query = i
           /\ Way(queue[eng'.item].kind) \in {"turn", "end", "finish"}
           /\ eng'.result = "none" /\ eng.pc = "idle"
           /\ RunGoes(IF run.state = "pending" THEN "running" ELSE run.state, run.phase)
           /\ UNCHANGED <<row, tab, reap, box, inbox, outbox, stop, turns, count>>
  <1>1. PICK i \in Items :
           /\ queue[i].state = "pending"
           /\ queue' = [queue EXCEPT ![i].state = "claimed"]
           /\ eng' = [Dispatcher(Way(queue[i].kind)) EXCEPT
                       !.item = i, !.query = IF queue[i].kind = "turn" THEN i ELSE UserQuery]
    BY DEF Claim
  <1>2. queue[i] \in ItemRecord
    BY ItemFields
  <1>3. /\ Way(queue[i].kind) \in {"turn", "end", "finish"}
        /\ Way(queue[i].kind) \in {"finish"} \cup TurnPcs \cup EndPcs
    BY <1>2, RowFields DEF Way, TurnPcs, EndPcs
  <1>4. UserQuery \in Items
    BY Bounds DEF UserQuery
  <1>5. /\ eng' \in EngineRecord /\ eng'.item = i /\ eng'.event = FALSE
        /\ eng'.pc = Way(queue[i].kind) /\ eng'.result = "none"
        /\ queue[i].kind = "turn" => eng'.query = i
    <2> DEFINE way == Way(queue[i].kind)
               d   == Dispatcher(way)
               q   == IF queue[i].kind = "turn" THEN i ELSE UserQuery
    <2>1. d \in EngineRecord /\ d.pc = way /\ d.result = "none" /\ d.event = FALSE
      <3> HIDE DEF way
      <3> QED BY <1>3, DispatcherType DEF way
    <2>2. eng' = [d EXCEPT !.item = i, !.query = q] /\ q \in Items
      BY <1>1, <1>4
    <2>3. queue[i].kind = "turn" => q = i
      OBVIOUS
    <2> HIDE DEF d, way, q
    <2>4. /\ eng' \in EngineRecord /\ eng'.item = i /\ eng'.event = FALSE
          /\ eng'.pc = way /\ eng'.result = "none" /\ eng'.query = q
      BY <2>1, <2>2 DEF EngineRecord
    <2>5. QED
      BY <2>3, <2>4 DEF way
  <1>6. /\ queue' \in [Items -> ItemRecord] /\ queue'[i].state = "claimed"
        /\ \A j \in Items : queue'[j].kind = queue[j].kind
        /\ \A j \in Items : j # i => queue'[j] = queue[j]
    BY <1>1, <1>2 DEF ItemRecord, TypeOK
  <1>7. RunGoes(IF run.state = "pending" THEN "running" ELSE run.state, run.phase)
    BY DEF Claim, RunGoes, RunRecord, TypeOK
  <1>8. QED
    BY <1>1, <1>3, <1>5, <1>6, <1>7 DEF Claim

\* A turn is taken up unless the run is over, an end if the run is paused.
LEMMA ClaimWay ==
    ASSUME TypeOK, Claim
    PROVE  LET kind == queue[eng'.item].kind IN
           /\ eng'.item \in Items /\ queue[eng'.item].state = "pending"
           /\ queue'[eng'.item].state = "claimed" /\ queue'[eng'.item].kind = kind
           /\ \/ eng'.pc = "turn" /\ run.state \in {"pending", "running", "paused"}
              \/ eng'.pc = "end" /\ run.state = "paused" /\ kind = "end"
              \/ eng'.pc = "finish" /\ (run.state \in Terminal \/ kind # "turn")
           /\ run.state = "pending" => run'.state = "running"
           /\ run.state # "pending" => run'.state = run.state
  <1>1. PICK i \in Items :
           /\ queue[i].state = "pending" /\ queue'[i].state = "claimed"
           /\ queue'[i].kind = queue[i].kind
           /\ eng'.item = i /\ eng'.pc = Way(queue[i].kind)
    BY ClaimSays
  <1>2. \/ eng'.pc = "turn" /\ run.state \in {"pending", "running", "paused"}
        \/ eng'.pc = "end" /\ run.state = "paused" /\ queue[i].kind = "end"
        \/ eng'.pc = "finish" /\ (run.state \in Terminal \/ queue[i].kind # "turn")
    BY <1>1, RowFields, ItemFields DEF Way, Terminal
  <1>3. QED
    BY <1>1, <1>2, ClaimSays DEF RunGoes

LEMMA CommitTurnSays ==
    ASSUME TypeOK, CommitTurn
    PROVE  /\ eng.pc = "turn" /\ Goes("resolve", row.turn + 1, eng.h, eng.result)
           /\ RunGoes("running", "active") /\ RowGoes(row.turn + 1, row.arn)
           /\ UNCHANGED <<queue, tab, reap, box, inbox, outbox, stop, turns, count>>
  <1>1. row.turn \in Nat /\ row.turn + 1 \in Nat
    BY RowFields
  <1>2. Goes("resolve", row.turn + 1, eng.h, eng.result)
    BY <1>1 DEF CommitTurn, TypeOK, Goes, EngineRecord, TurnPcs
  <1>3. RowGoes(row.turn + 1, row.arn)
    BY <1>1 DEF CommitTurn, TypeOK, RowGoes, RowRecord
  <1>4. QED
    BY <1>2, <1>3 DEF CommitTurn, RunGoes, RunRecord

LEMMA ResolveTurnSays ==
    ASSUME TypeOK, ResolveTurn
    PROVE  /\ eng.pc = "resolve" /\ Shrinks({})
           /\ \/ row.arn \in Boxes /\ Goes("inbox", eng.seq, row.arn, eng.result)
              \/ row.arn \notin Alive /\ \E h \in Nat : Goes("launch", eng.seq, h, eng.result)
           /\ UNCHANGED <<run, row, queue, tab, reap, inbox, outbox, stop, turns, count>>
  <1>1. Shrinks({})
    BY WithoutSays, RowFields DEF ResolveTurn
  <1>2. CASE LiveHandle # NoBox
    <2>1. LiveHandle = row.arn /\ row.arn \in Boxes
      BY <1>2, RowFields DEF LiveHandle
    <2>2. Goes("inbox", eng.seq, row.arn, eng.result)
      BY <1>2, <2>1, Bounds DEF ResolveTurn, TypeOK, Goes, EngineRecord, TurnPcs
    <2>3. QED
      BY <1>1, <2>1, <2>2 DEF ResolveTurn
  <1>3. CASE LiveHandle = NoBox
    <2>1. row.arn \notin Alive
      BY <1>3, Bounds DEF LiveHandle, Alive
    <2>2. Incarnation \in Nat
      BY RowFields DEF Incarnation
    <2>3. Goes("launch", eng.seq, Incarnation, eng.result)
      BY <1>3, <2>2 DEF ResolveTurn, TypeOK, Goes, EngineRecord, TurnPcs
    <2>4. QED
      BY <1>1, <2>1, <2>2, <2>3 DEF ResolveTurn
  <1>4. QED
    BY <1>2, <1>3

LEMMA LaunchSessionSays ==
    ASSUME TypeOK, LaunchSession
    PROVE  /\ eng.pc = "launch" /\ eng.h \in Boxes
           /\ \/ /\ RowGoes(row.turn, NoBox) /\ RunGoes("paused", "active") /\ Returns
                 /\ turns' = turns \cup {Record(0)} /\ turns' \in SUBSET TurnRecord
                 /\ UNCHANGED <<box, inbox, outbox>>
              \/ /\ Goes("commit", eng.seq, eng.h, eng.result)
                 /\ box' \in [Boxes -> BoxRecord]
                 /\ box'[eng.h].busy = NoReply
                 /\ inbox' \in [Boxes -> Message] /\ inbox'[eng.h] = NoMessage
                 /\ outbox' \in [Boxes -> Reply] /\ outbox'[eng.h] = NoReply
                 /\ \A b \in Boxes \ {eng.h} : /\ box'[b] = box[b] /\ inbox'[b] = inbox[b]
                                               /\ outbox'[b] = outbox[b]
                 /\ UNCHANGED <<run, row, turns>>
           /\ UNCHANGED <<queue, tab, reap, stop, count>>
  <1>1. CASE PauseTurn(0) /\ row' = [row EXCEPT !.exec = "running", !.attempt = eng.h, !.arn = NoBox]
             /\ UNCHANGED <<box, inbox, outbox>>
    <2>1. RowGoes(row.turn, NoBox)
      BY <1>1, Bounds DEF LaunchSession, TypeOK, RowGoes, RowRecord
    <2>2. QED
      BY <1>1, <2>1, PauseSays DEF LaunchSession
  <1>2. CASE /\ box' = [box EXCEPT ![eng.h] = [Gone EXCEPT !.state = "running"]]
             /\ inbox' = [inbox EXCEPT ![eng.h] = NoMessage]
             /\ outbox' = [outbox EXCEPT ![eng.h] = NoReply]
             /\ eng' = [eng EXCEPT !.pc = "commit"]
             /\ UNCHANGED <<run, row, turns>>
    <2>1. Goes("commit", eng.seq, eng.h, eng.result)
      BY <1>2 DEF TypeOK, Goes, EngineRecord, TurnPcs
    <2> DEFINE fresh == [Gone EXCEPT !.state = "running"]
    <2>2. fresh \in BoxRecord /\ fresh.busy = NoReply
      BY GoneType
    <2>3. box' = [box EXCEPT ![eng.h] = fresh]
      BY <1>2
    <2> HIDE DEF fresh
    <2>4. QED
      BY <1>2, <2>1, <2>2, <2>3, GoneType DEF LaunchSession, TypeOK
  <1>3. QED
    BY <1>1, <1>2 DEF LaunchSession

LEMMA CommitSessionSays ==
    ASSUME TypeInv, CommitSession
    PROVE  /\ eng.pc = "commit" /\ eng.h \in Boxes
           /\ Goes("inbox", eng.seq, eng.h, eng.result) /\ RowGoes(row.turn, eng.h)
           /\ UNCHANGED <<run, queue, tab, reap, box, inbox, outbox, stop, turns, count>>
  <1>1. eng.pc = "commit" /\ eng.h \in Boxes
    BY DEF CommitSession, TypeInv, Flow, Holding
  <1>2. QED
    BY <1>1, Bounds DEF CommitSession, TypeInv, TypeOK, Goes, EngineRecord, TurnPcs, RowGoes, RowRecord

LEMMA WriteInboxSays ==
    ASSUME TypeInv, WriteInbox
    PROVE  /\ eng.pc = "inbox" /\ eng.h \in Boxes /\ Goes("await", eng.seq, eng.h, eng.result)
           /\ inbox' \in [Boxes -> Message]
           /\ inbox'[eng.h] = [seq |-> eng.seq, kind |-> "turn", query |-> eng.query]
           /\ \A b \in Boxes \ {eng.h} : inbox'[b] = inbox[b]
           /\ UNCHANGED <<run, row, queue, tab, reap, box, outbox, stop, turns, count>>
  <1>1. eng.pc = "inbox" /\ eng.h \in Boxes
    BY DEF WriteInbox, TypeInv, Flow, Holding
  <1> DEFINE m == [seq |-> eng.seq, kind |-> "turn", query |-> eng.query]
  <1>2. m \in Message
    BY EngFields DEF Message, TypeInv
  <1>3. inbox' = [inbox EXCEPT ![eng.h] = m]
    BY DEF WriteInbox
  <1>4. Goes("await", eng.seq, eng.h, eng.result)
    BY DEF WriteInbox, TypeInv, TypeOK, Goes, EngineRecord, TurnPcs
  <1>5. inbox'[eng.h] = m /\ inbox' \in [Boxes -> Message]
        /\ \A b \in Boxes \ {eng.h} : inbox'[b] = inbox[b]
    <2> HIDE DEF m
    <2> QED BY <1>1, <1>2, <1>3 DEF TypeInv, TypeOK
  <1>6. QED
    BY <1>1, <1>4, <1>5 DEF WriteInbox

LEMMA AwaitReplySays ==
    ASSUME TypeInv, AwaitReply
    PROVE  /\ eng.pc = "await" /\ eng.h \in Boxes /\ Shrinks({})
           /\ \/ eng.event /\ Goes("conclude", eng.seq, eng.h, "cancelled")
              \/ outbox[eng.h].seq = eng.seq /\ Goes("conclude", eng.seq, eng.h, "completed")
              \/ Goes("conclude", eng.seq, eng.h, "failed")
           /\ UNCHANGED <<run, row, queue, tab, reap, inbox, outbox, stop, turns, count>>
  <1>1. eng.pc = "await" /\ eng.h \in Boxes
    BY DEF AwaitReply, TypeInv, Flow, Holding
  <1>2. \A r \in {"completed", "failed", "cancelled"} :
           eng' = [eng EXCEPT !.pc = "conclude", !.result = r] => Goes("conclude", eng.seq, eng.h, r)
    BY DEF TypeInv, TypeOK, Goes, EngineRecord, TurnPcs
  <1>3. Shrinks({})
    <2>1. CASE UNCHANGED box
      BY <2>1, SameBoxes DEF TypeInv
    <2>2. CASE box' = Remove(eng.h)
      BY <2>2, RemoveSays DEF TypeInv, Shrinks, Stops
    <2>3. QED
      BY <2>1, <2>2 DEF AwaitReply
  <1>4. QED
    BY <1>1, <1>2, <1>3 DEF AwaitReply, IsReply

LEMMA ConcludeTurnSays ==
    ASSUME TypeInv, ConcludeTurn
    PROVE  /\ eng.pc = "conclude" /\ eng.h \in Boxes /\ Returns
           /\ \/ /\ eng.result = "cancelled" \/ run.state = "cancelled"
                 /\ Shrinks({eng.h}) /\ RowGoes(row.turn, NoBox)
                 /\ RunGoes("cancelled", run.phase) /\ UNCHANGED turns
              \/ /\ eng.result = "completed" /\ Shrinks({})
                 /\ RunGoes("paused", "active") /\ UNCHANGED row
                 /\ turns' = turns \cup {Record(outbox[eng.h].query)}
                 /\ turns' \in SUBSET TurnRecord
              \/ /\ Shrinks({eng.h}) /\ RunGoes("paused", "active") /\ RowGoes(row.turn, NoBox)
                 /\ turns' = turns \cup {Record(0)} /\ turns' \in SUBSET TurnRecord
           /\ UNCHANGED <<queue, tab, reap, inbox, outbox, stop, count>>
  <1>1. eng.pc = "conclude" /\ eng.h \in Boxes /\ TypeOK
    BY DEF ConcludeTurn, TypeInv, Flow, Holding
  <1>2. outbox[eng.h].query \in Items \cup {0}
    BY <1>1, BoxFields, ReplyFields
  <1>3. CASE /\ eng.result = "cancelled" \/ run.state = "cancelled"
             /\ box' = Remove(eng.h)
             /\ row' = [row EXCEPT !.exec = "failed", !.arn = NoBox]
             /\ run' = [run EXCEPT !.state = "cancelled"]
             /\ eng' = Returned
             /\ UNCHANGED turns
    <2>1. Shrinks({eng.h}) /\ Returns
      BY <1>1, <1>3, RemoveSays, ReturnSays
    <2>2. RowGoes(row.turn, NoBox) /\ RunGoes("cancelled", run.phase)
      BY <1>1, <1>3 DEF TypeOK, RowGoes, RowRecord, RunGoes, RunRecord, Terminal
    <2>3. QED
      BY <1>1, <1>3, <2>1, <2>2 DEF ConcludeTurn
  <1>4. CASE /\ eng.result = "completed" /\ PauseTurn(outbox[eng.h].query)
             /\ UNCHANGED <<row, box>>
    BY <1>1, <1>2, <1>4, PauseSays, SameBoxes DEF ConcludeTurn
  <1>5. CASE /\ box' = Remove(eng.h) /\ row' = [row EXCEPT !.arn = NoBox] /\ PauseTurn(0)
    <2>1. Shrinks({eng.h}) /\ RowGoes(row.turn, NoBox)
      BY <1>1, <1>5, RemoveSays DEF TypeOK, RowGoes, RowRecord
    <2>2. QED
      BY <1>1, <1>5, <2>1, PauseSays DEF ConcludeTurn
  <1>6. QED
    BY <1>3, <1>4, <1>5 DEF ConcludeTurn
LEMMA CommitEndSays ==
    ASSUME TypeOK, CommitEnd
    PROVE  /\ eng.pc = "end" /\ Goes("endresolve", row.turn + 1, eng.h, eng.result)
           /\ RunGoes("running", run.phase)
           /\ UNCHANGED <<row, queue, tab, reap, box, inbox, outbox, stop, turns, count>>
  <1>1. row.turn + 1 \in Nat
    BY RowFields
  <1>2. Goes("endresolve", row.turn + 1, eng.h, eng.result)
    BY <1>1 DEF CommitEnd, TypeOK, Goes, EngineRecord, EndPcs
  <1>3. QED
    BY <1>2 DEF CommitEnd, TypeOK, RunGoes, RunRecord

LEMMA ResolveEndSays ==
    ASSUME TypeOK, ResolveEnd
    PROVE  /\ eng.pc = "endresolve" /\ Shrinks({})
           /\ \/ row.arn \in Boxes /\ Goes("endinbox", eng.seq, row.arn, eng.result)
              \/ row.arn \notin Alive /\ Goes("endfinal", eng.seq, eng.h, "gone")
           /\ UNCHANGED <<run, row, queue, tab, reap, inbox, outbox, stop, turns, count>>
  <1>1. Shrinks({})
    BY WithoutSays, RowFields DEF ResolveEnd
  <1>2. CASE LiveHandle # NoBox
    <2>1. LiveHandle = row.arn /\ row.arn \in Boxes
      BY <1>2, RowFields DEF LiveHandle
    <2>2. Goes("endinbox", eng.seq, row.arn, eng.result)
      BY <1>2, <2>1, Bounds DEF ResolveEnd, TypeOK, Goes, EngineRecord, EndPcs
    <2>3. QED
      BY <1>1, <2>1, <2>2 DEF ResolveEnd
  <1>3. CASE LiveHandle = NoBox
    <2>1. row.arn \notin Alive
      BY <1>3, Bounds DEF LiveHandle, Alive
    <2>2. Goes("endfinal", eng.seq, eng.h, "gone")
      BY <1>3 DEF ResolveEnd, TypeOK, Goes, EngineRecord, EndPcs
    <2>3. QED
      BY <1>1, <2>1, <2>2 DEF ResolveEnd
  <1>4. QED
    BY <1>2, <1>3

LEMMA WriteEndSays ==
    ASSUME TypeInv, WriteEnd
    PROVE  /\ eng.pc = "endinbox" /\ eng.h \in Boxes /\ Goes("endwait", eng.seq, eng.h, eng.result)
           /\ inbox' \in [Boxes -> Message] /\ inbox'[eng.h].kind = "end"
           /\ \A b \in Boxes \ {eng.h} : inbox'[b] = inbox[b]
           /\ UNCHANGED <<run, row, queue, tab, reap, box, outbox, stop, turns, count>>
  <1>1. eng.pc = "endinbox" /\ eng.h \in Boxes
    BY DEF WriteEnd, TypeInv, Flow, Holding
  <1> DEFINE m == [seq |-> eng.seq, kind |-> "end", query |-> 0]
  <1>2. m \in Message /\ m.kind = "end"
    BY EngFields DEF Message, TypeInv
  <1>3. inbox' = [inbox EXCEPT ![eng.h] = m]
    BY DEF WriteEnd
  <1>4. Goes("endwait", eng.seq, eng.h, eng.result)
    BY DEF WriteEnd, TypeInv, TypeOK, Goes, EngineRecord, EndPcs
  <1>5. inbox'[eng.h].kind = "end" /\ inbox' \in [Boxes -> Message]
        /\ \A b \in Boxes \ {eng.h} : inbox'[b] = inbox[b]
    <2> HIDE DEF m
    <2> QED BY <1>1, <1>2, <1>3 DEF TypeInv, TypeOK
  <1>6. QED
    BY <1>1, <1>4, <1>5 DEF WriteEnd

LEMMA AwaitExitSays ==
    ASSUME TypeInv, AwaitExit
    PROVE  /\ eng.pc = "endwait" /\ eng.h \in Boxes
           /\ \E r \in {"cancelled", "hung", "gone", "exited", "crashed"} :
                /\ Goes("endfinal", eng.seq, eng.h, r)
                /\ r = "cancelled" => eng.event
           /\ UNCHANGED <<run, row, queue, tab, reap, box, inbox, outbox, stop, turns, count>>
  <1>1. eng.pc = "endwait" /\ eng.h \in Boxes
    BY DEF AwaitExit, TypeInv, Flow, Holding
  <1> DEFINE r == IF eng.event THEN "cancelled"
                  ELSE IF box[eng.h].state \in {"running", "closing"} THEN "hung"
                  ELSE box[eng.h].state
  <1>2. r \in {"cancelled", "hung", "gone", "exited", "crashed"} /\ (r = "cancelled" => eng.event)
    BY <1>1, BoxFields DEF TypeInv
  <1>3. eng' = [eng EXCEPT !.pc = "endfinal", !.result = r]
    BY DEF AwaitExit
  <1>4. Goes("endfinal", eng.seq, eng.h, r)
    <2> HIDE DEF r
    <2> QED BY <1>2, <1>3 DEF TypeInv, TypeOK, Goes, EngineRecord, EndPcs
  <1>5. QED
    BY <1>1, <1>2, <1>4 DEF AwaitExit

LEMMA ConcludeEndSays ==
    ASSUME TypeOK, ConcludeEnd
    PROVE  /\ eng.pc = "endfinal" /\ Returns
           /\ \/ UNCHANGED <<run, row, box>>
              \/ /\ Shrinks({eng.h}) /\ RowGoes(row.turn, NoBox)
                 /\ \E s \in {"completed", "paused"} : RunGoes(s, "ended")
           /\ UNCHANGED <<queue, tab, reap, inbox, outbox, stop, turns, count>>
  <1>1. Returns
    BY ReturnSays DEF ConcludeEnd
  <1>2. CASE /\ box' = IF eng.h # NoBox THEN Remove(eng.h) ELSE box
             /\ run' = [state |-> EndState(eng.result), phase |-> "ended", idle |-> FALSE]
             /\ row' = [row EXCEPT !.arn = NoBox,
                                   !.exec = IF EndClean(eng.result) THEN "completed" ELSE @]
    <2>1. EndState(eng.result) \in {"completed", "paused"}
      BY DEF EndState
    <2>2. RunGoes(EndState(eng.result), "ended")
      BY <1>2, <2>1 DEF RunGoes, RunRecord, Terminal
    <2>3. RowGoes(row.turn, NoBox)
      BY <1>2 DEF TypeOK, RowGoes, RowRecord
    <2>4. Shrinks({eng.h})
      <3>1. CASE eng.h # NoBox
        BY <1>2, <3>1, RemoveSays
      <3>2. CASE eng.h = NoBox
        <4>1. Shrinks({})
          BY <1>2, <3>2, SameBoxes
        <4>2. QED
          BY <4>1, <3>2, Bounds DEF Shrinks, Stops
      <3>3. QED
        BY <3>1, <3>2
    <2>5. QED
      BY <1>1, <2>1, <2>2, <2>3, <2>4 DEF ConcludeEnd
  <1>3. CASE UNCHANGED <<run, row, box>>
    BY <1>1, <1>3 DEF ConcludeEnd
  <1>4. QED
    BY <1>2, <1>3 DEF ConcludeEnd

LEMMA FinishSays ==
    ASSUME TypeOK, Finish
    PROVE  /\ eng.pc = "finish"
           /\ eng' \in EngineRecord /\ eng'.pc = "idle" /\ eng'.event = FALSE /\ eng'.result = "none"
           /\ queue' \in [Items -> ItemRecord]
           /\ \A j \in Items : queue'[j].kind = queue[j].kind
           /\ \A j \in Items \ {eng.item} : queue'[j] = queue[j]
           /\ UNCHANGED <<run, row, tab, reap, box, inbox, outbox, stop, turns, count>>
  <1>1. eng.item \in Items /\ queue[eng.item] \in ItemRecord
    BY EngFields, ItemFields
  <1>2. /\ queue' \in [Items -> ItemRecord]
        /\ \A j \in Items : queue'[j].kind = queue[j].kind
        /\ \A j \in Items \ {eng.item} : queue'[j] = queue[j]
    BY <1>1 DEF Finish, TypeOK, ItemRecord
  <1>3. QED
    BY <1>2, DispatcherType DEF Finish

-----------------------------------------------------------------------------
LEMMA StartReapSays ==
    ASSUME TypeOK, StartReap
    PROVE  /\ reap.pc = "idle" /\ run.state = "paused"
           /\ ReapGoes("load", NoBox) /\ RunGoes("paused", "reaping")
           /\ count' \in [crashes: Nat, reaps: Nat]
           /\ UNCHANGED <<row, queue, tab, eng, box, inbox, outbox, stop, turns>>
  BY ReaperType DEF StartReap, TypeOK, ReapGoes, RunGoes, RunRecord, ReapPcs

\* Steps of the reaper but its last and its first.
LEMMA ReaperSays ==
    ASSUME TypeOK, LoadReap \/ MarkReap \/ ResolveReap \/ WriteReap \/ CheckReap \/ PollReap
    PROVE  /\ \/ LoadReap /\ \E pc \in {"mark", "idle"} : \E h \in Boxes \cup {NoBox} : ReapGoes(pc, h)
              \/ MarkReap /\ ReapGoes("resolve", row.arn)
              \/ ResolveReap /\ reap.pc = "resolve" /\ reap.h \in Alive /\ ReapGoes("write", reap.h)
              \/ ResolveReap /\ reap.pc = "resolve" /\ reap.h \notin Alive /\ ReapGoes("final", NoBox)
              \/ WriteReap /\ reap.pc = "write" /\ ReapGoes("check", reap.h)
              \/ CheckReap /\ reap.pc = "check" /\ run.phase = "reaping" /\ ReapGoes("poll", reap.h)
              \/ CheckReap /\ run.phase # "reaping" /\ ReapGoes("final", NoBox)
              \/ PollReap /\ reap.pc = "poll" /\ ReapGoes("check", reap.h)
              \/ PollReap /\ reap.pc = "poll" /\ reap.h \notin Alive' /\ ReapGoes("final", NoBox)
           /\ Shrinks({}) /\ RunGoes(run.state, run.phase)
           /\ UNCHANGED <<row, queue, tab, eng, outbox, stop, turns, count>>
  <1>1. /\ reap \in ReapRecord /\ reap.h \in Boxes \cup {NoBox} /\ reap.seq \in Nat
        /\ row.arn \in Boxes \cup {NoBox} /\ row.turn + 1 \in Nat
    BY RowFields DEF TypeOK
  <1>2. \A pc \in ReapPcs : reap' = [reap EXCEPT !.pc = pc] => ReapGoes(pc, reap.h)
    BY <1>1 DEF ReapGoes, ReapRecord, ReapPcs
  <1>3. \A pc \in ReapPcs : reap' = Reaper(pc) => ReapGoes(pc, NoBox)
    BY ReaperType DEF ReapGoes
  <1>4. UNCHANGED run => RunGoes(run.state, run.phase)
    BY DEF RunGoes, TypeOK
  <1>5. \A b \in Boxes \cup {NoBox} : box' = WithoutExited(b) => Shrinks({})
    BY WithoutSays
  <1>6. UNCHANGED box => Shrinks({})
    BY SameBoxes
  <1>7. CASE LoadReap
    BY <1>1, <1>2, <1>3, <1>4, <1>6, <1>7, Bounds DEF LoadReap, ReapPcs
  <1>8. CASE MarkReap
    <2>1. ReapGoes("resolve", row.arn)
      BY <1>1, <1>8 DEF MarkReap, ReapGoes, ReapRecord
    <2>2. RunGoes(run.state, run.phase)
      BY <1>8 DEF MarkReap, TypeOK, RunGoes, RunRecord
    <2>3. QED
      BY <1>6, <1>8, <2>1, <2>2 DEF MarkReap
  <1>9. CASE ResolveReap
    BY <1>1, <1>2, <1>3, <1>4, <1>5, <1>9 DEF ResolveReap, ReapPcs
  <1>10. CASE WriteReap
    BY <1>2, <1>4, <1>6, <1>10 DEF WriteReap, ReapPcs
  <1>11. CASE CheckReap
    BY <1>2, <1>3, <1>4, <1>6, <1>11 DEF CheckReap, ReapPcs
  <1>12. CASE PollReap
    <2>1. CASE /\ reap.h \notin Alive /\ box' = WithoutExited(reap.h) /\ reap' = Reaper("final")
      <3>1. Shrinks({}) /\ reap.h \notin Alive'
        BY <1>1, <1>5, <2>1, ShrinkAlive
      <3>2. QED
        BY <1>3, <1>4, <1>12, <2>1, <3>1 DEF PollReap, ReapPcs
    <2>2. CASE reap' = [reap EXCEPT !.pc = "check"] /\ UNCHANGED box
      BY <1>2, <1>4, <1>6, <1>12, <2>2 DEF PollReap, ReapPcs
    <2>3. CASE box' = Remove(reap.h) /\ reap' = Reaper("final")
      <3>1. Shrinks({reap.h}) /\ reap.h \notin Alive' /\ Shrinks({})
        BY <2>3, RemoveSays, ShrinkAlive DEF Shrinks, Stops
      <3>2. QED
        BY <1>3, <1>4, <1>12, <2>3, <3>1 DEF PollReap, ReapPcs
    <2>4. QED
      BY <1>12, <2>1, <2>2, <2>3 DEF PollReap
  <1>13. QED
    BY <1>7, <1>8, <1>9, <1>10, <1>11, <1>12

\* The reaper writes an end and nothing else.
LEMMA ReapInbox ==
    ASSUME TypeOK, LoadReap \/ MarkReap \/ ResolveReap \/ WriteReap \/ CheckReap \/ PollReap
    PROVE  /\ inbox' \in [Boxes -> Message]
           /\ \A b \in Boxes : inbox'[b] = inbox[b] \/ inbox'[b].kind = "end"
  <1>1. CASE WriteReap
    <2> DEFINE m == [seq |-> reap.seq, kind |-> "end", query |-> 0]
    <2>1. m \in Message /\ m.kind = "end"
      BY RowFields DEF Message
    <2>2. inbox' = [inbox EXCEPT ![reap.h] = m]
      BY <1>1 DEF WriteReap
    <2> HIDE DEF m
    <2>3. QED
      BY <2>1, <2>2 DEF TypeOK
  <1>2. CASE UNCHANGED inbox
    BY <1>2 DEF TypeOK
  <1>3. QED
    BY <1>1, <1>2 DEF LoadReap, MarkReap, ResolveReap, CheckReap, PollReap

LEMMA FinishReapSays ==
    ASSUME TypeOK, FinishReap
    PROVE  /\ reap.pc = "final" /\ ReapGoes("idle", NoBox)
           /\ \/ run.phase = "reaping" /\ RunGoes(run.state, "ended") /\ RowGoes(row.turn, NoBox)
              \/ run.phase # "reaping" /\ UNCHANGED <<run, row>>
           /\ UNCHANGED <<queue, tab, eng, box, inbox, outbox, stop, turns, count>>
  <1>1. ReapGoes("idle", NoBox)
    BY ReaperType DEF FinishReap, ReapGoes, ReapPcs
  <1>2. CASE run.phase = "reaping"
    <2>1. RunGoes(run.state, "ended")
      BY <1>2 DEF FinishReap, TypeOK, RunGoes, RunRecord
    <2>2. RowGoes(row.turn, NoBox)
      BY <1>2 DEF FinishReap, TypeOK, RowGoes, RowRecord
    <2>3. QED
      BY <1>1, <1>2, <2>1, <2>2 DEF FinishReap
  <1>3. CASE run.phase # "reaping"
    BY <1>1, <1>3 DEF FinishReap
  <1>4. QED
    BY <1>2, <1>3
-----------------------------------------------------------------------------
LEMMA HandleStopSays ==
    ASSUME TypeOK, HandleStop
    PROVE  /\ stop = "requested" /\ stop' = "waiting"
           /\ eng' \in EngineRecord /\ eng'.pc = eng.pc /\ eng'.item = eng.item
           /\ eng'.query = eng.query /\ eng'.seq = eng.seq /\ eng'.h = eng.h
           /\ eng'.result = eng.result
           /\ queue' \in [Items -> ItemRecord]
           /\ \A i \in Items : /\ queue'[i].kind = queue[i].kind
                               /\ queue[i].state # "pending" => queue'[i] = queue[i]
           /\ UNCHANGED <<run, row, tab, reap, box, inbox, outbox, turns, count>>
  <1>1. ASSUME NEW i \in Items
        PROVE  /\ [queue[i] EXCEPT !.state = "done"] \in ItemRecord
               /\ [queue[i] EXCEPT !.state = "done"].kind = queue[i].kind
    <2>1. queue[i] \in ItemRecord
      BY ItemFields
    <2>2. QED
      BY <2>1 DEF ItemRecord
  <1>2. /\ queue' \in [Items -> ItemRecord]
        /\ \A i \in Items : /\ queue'[i].kind = queue[i].kind
                            /\ queue[i].state # "pending" => queue'[i] = queue[i]
    BY <1>1, ItemFields DEF HandleStop
  <1>3. /\ eng' \in EngineRecord /\ eng'.pc = eng.pc /\ eng'.item = eng.item
        /\ eng'.query = eng.query /\ eng'.seq = eng.seq /\ eng'.h = eng.h
        /\ eng'.result = eng.result
    BY DEF HandleStop, TypeOK, EngineRecord
  <1>4. QED
    BY <1>2, <1>3 DEF HandleStop

LEMMA RecordStopSays ==
    ASSUME TypeOK, RecordStop
    PROVE  /\ stop = "waiting" /\ stop' = "done"
           /\ \/ run.state \in Terminal /\ UNCHANGED <<run, row>> /\ Shrinks({})
              \/ /\ run.state = "paused" /\ RunGoes("cancelled", "ended")
                 /\ RowGoes(row.turn, NoBox) /\ Shrinks({row.arn})
              \/ /\ run.state \notin Terminal \cup {"paused"} /\ RunGoes("cancelled", run.phase)
                 /\ UNCHANGED row /\ Shrinks({})
           /\ UNCHANGED <<queue, tab, eng, reap, inbox, outbox, turns, count>>
  <1>1. CASE run.state \in Terminal
    BY <1>1, SameBoxes DEF RecordStop
  <1>2. CASE run.state = "paused"
    <2>0. /\ run' = [run EXCEPT !.state = "cancelled", !.phase = "ended"]
          /\ row' = [row EXCEPT !.arn = NoBox]
      BY <1>2 DEF RecordStop, Terminal
    <2>1. RunGoes("cancelled", "ended") /\ RowGoes(row.turn, NoBox)
      <3>1. RunGoes("cancelled", "ended")
        BY <2>0 DEF Terminal, TypeOK, RunGoes, RunRecord
      <3>2. RowGoes(row.turn, NoBox)
        BY <2>0 DEF TypeOK, RowGoes, RowRecord
      <3>3. QED
        BY <3>1, <3>2
    <2>2. Shrinks({row.arn})
      <3>1. CASE row.arn # NoBox
        BY <1>2, <3>1, RemoveSays DEF RecordStop, Terminal
      <3>2. CASE row.arn = NoBox
        <4>1. Shrinks({})
          BY <1>2, <3>2, SameBoxes DEF RecordStop, Terminal
        <4>2. QED
          BY <4>1, <3>2, Bounds DEF Shrinks, Stops
      <3>3. QED
        BY <3>1, <3>2
    <2>3. QED
      BY <1>2, <2>1, <2>2 DEF RecordStop
  <1>3. CASE run.state \notin Terminal \cup {"paused"}
    <2>1. RunGoes("cancelled", run.phase)
      BY <1>3 DEF RecordStop, Terminal, TypeOK, RunGoes, RunRecord
    <2>2. QED
      BY <1>3, <2>1, SameBoxes DEF RecordStop
  <1>4. QED
    BY <1>1, <1>2, <1>3

\* The container takes a message, or answers one; nobody else's messages change.
LEMMA TakeSays ==
    ASSUME TypeOK, NEW b \in Boxes, Take(b)
    PROVE  /\ box[b].state = "running" /\ inbox[b].seq # 0
           /\ box' \in [Boxes -> BoxRecord]
           /\ \/ box'[b].state = "closing" /\ box'[b].busy = NoReply
              \/ /\ inbox[b].kind # "end"
                 /\ box'[b].busy = [seq |-> inbox[b].seq, query |-> inbox[b].query]
           /\ \A c \in Boxes \ {b} : box'[c] = box[c]
           /\ UNCHANGED <<run, row, queue, tab, eng, reap, inbox, outbox, stop, turns, count>>
  <1> DEFINE reply == [seq |-> inbox[b].seq, query |-> inbox[b].query]
             new == IF inbox[b].kind = "end"
                    THEN [state |-> "closing", seen |-> inbox[b].seq, busy |-> NoReply]
                    ELSE [state |-> "running", seen |-> inbox[b].seq, busy |-> reply]
  <1>1. reply \in Reply
    BY BoxFields DEF Reply
  <1>2. inbox[b].seq \in Nat
    BY BoxFields
  <1> HIDE DEF reply
  <1>3. /\ new \in BoxRecord
        /\ \/ new.state = "closing" /\ new.busy = NoReply
           \/ inbox[b].kind # "end" /\ new.busy = reply
    BY <1>1, <1>2, GoneType DEF BoxRecord
  <1>4. box' = [box EXCEPT ![b] = new]
    BY DEF Take, reply
  <1> HIDE DEF new
  <1>5. box' \in [Boxes -> BoxRecord] /\ box'[b] = new /\ \A c \in Boxes \ {b} : box'[c] = box[c]
    BY <1>3, <1>4 DEF TypeOK
  <1>6. QED
    BY <1>3, <1>5 DEF Take, reply

LEMMA AnswerSays ==
    ASSUME TypeOK, NEW b \in Boxes, Answer(b)
    PROVE  /\ box[b].busy # NoReply /\ outbox' \in [Boxes -> Reply] /\ outbox'[b] = box[b].busy
           /\ box' \in [Boxes -> BoxRecord] /\ box'[b].state = box[b].state
           /\ box'[b].busy = NoReply
           /\ \A c \in Boxes \ {b} : box'[c] = box[c] /\ outbox'[c] = outbox[c]
           /\ UNCHANGED <<run, row, queue, tab, eng, reap, inbox, stop, turns, count>>
  <1>1. box[b] \in BoxRecord /\ box[b].busy \in Reply
    BY BoxFields
  <1> DEFINE new == [box[b] EXCEPT !.busy = NoReply]
  <1>2. new \in BoxRecord /\ new.state = box[b].state /\ new.busy = NoReply
    BY <1>1, GoneType DEF BoxRecord
  <1>3. box' = [box EXCEPT ![b] = new]
    BY DEF Answer
  <1> HIDE DEF new
  <1>4. QED
    BY <1>1, <1>2, <1>3 DEF Answer, TypeOK

LEMMA ExitSays ==
    ASSUME TypeOK, NEW b \in Boxes, Exit(b)
    PROVE  /\ Shrinks({})
           /\ UNCHANGED <<run, row, queue, tab, eng, reap, inbox, outbox, stop, turns, count>>
  <1>1. PICK state \in {"exited", "crashed"} : box' = [box EXCEPT ![b] = [Gone EXCEPT !.state = state]]
    BY DEF Exit
  <1> DEFINE new == [Gone EXCEPT !.state = state]
  <1>2. new \in BoxRecord /\ new.state = state /\ new.busy = NoReply
    BY GoneType
  <1>3. box' = [box EXCEPT ![b] = new]
    BY <1>1
  <1> HIDE DEF new
  <1>4. Shrinks({})
    BY <1>2, <1>3 DEF Shrinks, Stops, TypeOK
  <1>5. QED
    BY <1>4 DEF Exit

\* New rows only: the platform's, and the resume of the next boot.
Adds == /\ queue' \in [Items -> ItemRecord]
        /\ \A i \in Items : \/ queue'[i] = queue[i]
                            \/ queue[i].state = "absent" /\ queue'[i].state = "pending"

LEMMA AddsSays ==
    ASSUME TypeOK, NEW i \in Items, IsNextRow(i), NEW kind \in {"turn", "end", "resume"},
           queue' = [queue EXCEPT ![i] = [kind |-> kind, state |-> "pending"]]
    PROVE  Adds
  <1> DEFINE new == [kind |-> kind, state |-> "pending"]
  <1>1. new \in ItemRecord /\ new.state = "pending"
    BY DEF ItemRecord
  <1>2. queue' = [queue EXCEPT ![i] = new]
    OBVIOUS
  <1> HIDE DEF new
  <1>3. QED
    BY <1>1, <1>2 DEF Adds, IsNextRow, TypeOK

LEMMA PlatformSays ==
    ASSUME TypeOK, Platform
    PROVE  /\ Adds /\ tab' \in [Users -> {"none", "turn", "end"}]
           /\ stop' = stop \/ stop' = "requested"
           /\ UNCHANGED <<run, row, eng, reap, box, inbox, outbox, turns, count>>
  <1>1. CASE RequestStop
    BY <1>1 DEF RequestStop, Adds, TypeOK
  <1>2. ASSUME NEW u \in Users, Submit(u)
        PROVE  /\ Adds /\ tab' \in [Users -> {"none", "turn", "end"}]
               /\ UNCHANGED <<run, row, eng, reap, box, inbox, outbox, turns, count, stop>>
    BY <1>2 DEF Submit, Adds, TypeOK
  <1>3. ASSUME NEW u \in Users, Insert(u)
        PROVE  /\ Adds /\ tab' \in [Users -> {"none", "turn", "end"}]
               /\ UNCHANGED <<run, row, eng, reap, box, inbox, outbox, turns, count, stop>>
    <2>1. tab[u] \in {"turn", "end", "resume"}
      BY <1>3 DEF Insert, TypeOK
    <2>2. Adds
      BY <1>3, <2>1, AddsSays DEF Insert
    <2>3. QED
      BY <1>3, <2>2 DEF Insert, TypeOK
  <1>4. QED
    BY <1>1, <1>2, <1>3 DEF Platform

LEMMA GoIdleSays ==
    ASSUME TypeOK, GoIdle
    PROVE  /\ RunGoes(run.state, run.phase)
           /\ UNCHANGED <<row, queue, tab, eng, reap, box, inbox, outbox, stop, turns, count>>
  BY DEF GoIdle, TypeOK, RunGoes, RunRecord

LEMMA CrashSays ==
    ASSUME TypeOK, Crash
    PROVE  /\ eng.pc \notin {"down", "commit"}
           /\ eng' \in EngineRecord /\ eng'.pc = "down" /\ eng'.event = FALSE /\ eng'.result = "none"
           /\ ReapGoes("idle", NoBox)
           /\ queue' \in [Items -> ItemRecord]
           /\ \A i \in Items : /\ queue'[i].kind = queue[i].kind
                               /\ queue[i].state # "claimed" => queue'[i] = queue[i]
                               /\ queue'[i].state = "done" => queue[i].state = "done"
           /\ stop' \in {"none", "requested", "waiting", "done"} /\ (stop' = "none" <=> stop = "none")
           /\ count' \in [crashes: Nat, reaps: Nat]
           /\ UNCHANGED <<run, row, tab, box, inbox, outbox, turns>>
  <1>1. ASSUME NEW i \in Items
        PROVE  LET o == [queue[i] EXCEPT !.state = "orphaned"] IN
               o \in ItemRecord /\ o.kind = queue[i].kind /\ o.state = "orphaned"
    <2>1. queue[i] \in ItemRecord
      BY ItemFields
    <2>2. QED
      BY <2>1 DEF ItemRecord
  <1>2. /\ queue' \in [Items -> ItemRecord]
        /\ \A i \in Items : /\ queue'[i].kind = queue[i].kind
                            /\ queue[i].state # "claimed" => queue'[i] = queue[i]
                            /\ queue'[i].state = "done" => queue[i].state = "done"
    BY <1>1, ItemFields DEF Crash
  <1>3. /\ eng' \in EngineRecord /\ eng'.pc = "down" /\ eng'.event = FALSE /\ eng'.result = "none"
        /\ ReapGoes("idle", NoBox)
    BY DispatcherType, ReaperType DEF Crash, ReapGoes, ReapPcs
  <1>4. /\ count' \in [crashes: Nat, reaps: Nat]
        /\ stop' \in {"none", "requested", "waiting", "done"} /\ (stop' = "none" <=> stop = "none")
    BY DEF Crash, TypeOK
  <1>5. QED
    BY <1>2, <1>3, <1>4 DEF Crash

LEMMA RestartSays ==
    ASSUME TypeOK, Restart
    PROVE  /\ eng.pc = "down"
           /\ eng' \in EngineRecord /\ eng'.pc = "idle" /\ eng'.event = FALSE /\ eng'.result = "none"
           /\ Adds
           /\ UNCHANGED <<run, row, tab, reap, box, inbox, outbox, stop, turns, count>>
  <1>1. Adds
    <2>1. CASE UNCHANGED queue
      BY <2>1 DEF Adds, TypeOK
    <2>2. CASE \E i \in Items : /\ IsNextRow(i)
                                /\ queue' = [queue EXCEPT ![i] = [kind |-> "resume", state |-> "pending"]]
      BY <2>2, AddsSays
    <2>3. QED
      BY <2>1, <2>2 DEF Restart
  <1>2. QED
    BY <1>1, DispatcherType DEF Restart

LEMMA ReapClaimSays ==
    ASSUME TypeOK, ReapClaim
    PROVE  /\ queue' \in [Items -> ItemRecord]
           /\ \A i \in Items : /\ queue'[i].kind = queue[i].kind
                               /\ queue[i].state # "orphaned" => queue'[i] = queue[i]
                               /\ queue'[i].state = "done" => queue[i].state = "done"
           /\ UNCHANGED <<run, row, tab, eng, reap, box, inbox, outbox, stop, turns, count>>
  <1>1. PICK i \in Items : queue[i].state = "orphaned" /\ queue' = [queue EXCEPT ![i].state = "pending"]
    BY DEF ReapClaim
  <1>2. queue[i] \in ItemRecord
    BY ItemFields
  <1>3. QED
    BY <1>1, <1>2 DEF ReapClaim, TypeOK, ItemRecord
-----------------------------------------------------------------------------
(* Types. *)

\* The actions, by what is said of them.
LEMMA TypeNext == ASSUME TypeInv, Next PROVE TypeOK'
  <1> USE DEF TypeOK, Shrinks, Adds, TurnRecord, Goes, Returns, RunGoes, RowGoes, ReapGoes
  <1>0. TypeOK
    BY DEF TypeInv
  <1>1. CASE Claim
    BY <1>0, <1>1, ClaimSays
  <1>2. CASE CommitTurn
    BY <1>0, <1>2, CommitTurnSays
  <1>3. CASE ResolveTurn
    BY <1>0, <1>3, ResolveTurnSays
  <1>4. CASE LaunchSession
    BY <1>0, <1>4, LaunchSessionSays
  <1>5. CASE CommitSession
    BY <1>0, <1>5, CommitSessionSays
  <1>6. CASE WriteInbox
    BY <1>0, <1>6, WriteInboxSays
  <1>7. CASE AwaitReply
    BY <1>0, <1>7, AwaitReplySays
  <1>8. CASE ConcludeTurn
    BY <1>0, <1>8, ConcludeTurnSays
  <1>9. CASE CommitEnd
    BY <1>0, <1>9, CommitEndSays
  <1>10. CASE ResolveEnd
    BY <1>0, <1>10, ResolveEndSays
  <1>11. CASE WriteEnd
    BY <1>0, <1>11, WriteEndSays
  <1>12. CASE AwaitExit
    BY <1>0, <1>12, AwaitExitSays
  <1>13. CASE ConcludeEnd
    BY <1>0, <1>13, ConcludeEndSays
  <1>14. CASE Finish
    BY <1>0, <1>14, FinishSays
  <1>15. CASE StartReap
    BY <1>0, <1>15, StartReapSays
  <1>16. CASE LoadReap \/ MarkReap \/ ResolveReap \/ WriteReap \/ CheckReap \/ PollReap
    BY <1>0, <1>16, ReaperSays, ReapInbox
  <1>17. CASE FinishReap
    BY <1>0, <1>17, FinishReapSays
  <1>18. CASE HandleStop
    BY <1>0, <1>18, HandleStopSays
  <1>19. CASE RecordStop
    BY <1>0, <1>19, RecordStopSays
  <1>20. ASSUME NEW b \in Boxes, Take(b) PROVE TypeOK'
    BY <1>0, <1>20, TakeSays DEF TypeOK, Shrinks
  <1>21. ASSUME NEW b \in Boxes, Answer(b) PROVE TypeOK'
    BY <1>0, <1>21, AnswerSays DEF TypeOK, Shrinks
  <1>22. ASSUME NEW b \in Boxes, Exit(b) PROVE TypeOK'
    BY <1>0, <1>22, ExitSays DEF TypeOK, Shrinks
  <1>23. CASE Platform
    BY <1>0, <1>23, PlatformSays
  <1>24. CASE GoIdle
    BY <1>0, <1>24, GoIdleSays
  <1>25. CASE Crash
    BY <1>0, <1>25, CrashSays
  <1>26. CASE Restart
    BY <1>0, <1>26, RestartSays
  <1>27. CASE ReapClaim
    BY <1>0, <1>27, ReapClaimSays
  <1>40. QED
    BY <1>1, <1>2, <1>3, <1>4, <1>5, <1>6, <1>7, <1>8, <1>9, <1>10, <1>11, <1>12, <1>13, <1>14, <1>15, <1>16, <1>17, <1>18, <1>19, <1>20, <1>21, <1>22, <1>23, <1>24, <1>25, <1>26, <1>27
       DEF Next, Engine, Turn, End, Reap, Agent

LEMMA FlowNext == ASSUME TypeInv, Next PROVE Flow' /\ Asked'
  <1> USE DEF Flow, Asked, Driving, Shrinks, Adds, Holding, Asking, Closing, TurnPcs, EndPcs,
              Terminal, Goes, Returns, RunGoes, RowGoes, ReapGoes
  <1>0. TypeOK /\ Flow /\ Asked /\ eng.item \in Items
    BY EngFields DEF TypeInv
  <1>1. CASE Claim
    BY <1>0, <1>1, ClaimSays, ClaimWay
       DEF Flow, Asked, Driving, Holding, Asking, Closing, TurnPcs, EndPcs
  <1>2. CASE CommitTurn
    BY <1>0, <1>2, CommitTurnSays
  <1>3. CASE ResolveTurn
    BY <1>0, <1>3, ResolveTurnSays
  <1>4. CASE LaunchSession
    BY <1>0, <1>4, LaunchSessionSays
  <1>5. CASE CommitSession
    BY <1>0, <1>5, CommitSessionSays
  <1>6. CASE WriteInbox
    BY <1>0, <1>6, WriteInboxSays
  <1>7. CASE AwaitReply
    BY <1>0, <1>7, AwaitReplySays
  <1>8. CASE ConcludeTurn
    BY <1>0, <1>8, ConcludeTurnSays
  <1>9. CASE CommitEnd
    BY <1>0, <1>9, CommitEndSays
  <1>10. CASE ResolveEnd
    BY <1>0, <1>10, ResolveEndSays
  <1>11. CASE WriteEnd
    BY <1>0, <1>11, WriteEndSays
  <1>12. CASE AwaitExit
    BY <1>0, <1>12, AwaitExitSays
  <1>13. CASE ConcludeEnd
    BY <1>0, <1>13, ConcludeEndSays
  <1>14. CASE Finish
    BY <1>0, <1>14, FinishSays
  <1>15. CASE StartReap
    BY <1>0, <1>15, StartReapSays
  <1>16. CASE LoadReap \/ MarkReap \/ ResolveReap \/ WriteReap \/ CheckReap \/ PollReap
    BY <1>0, <1>16, ReaperSays
  <1>17. CASE FinishReap
    BY <1>0, <1>17, FinishReapSays
  <1>18. CASE HandleStop
    BY <1>0, <1>18, HandleStopSays
  <1>19. CASE RecordStop
    BY <1>0, <1>19, RecordStopSays
  <1>20. ASSUME NEW b \in Boxes, Take(b) PROVE Flow' /\ Asked'
    BY <1>0, <1>20, TakeSays DEF Flow, Asked, Driving
  <1>21. ASSUME NEW b \in Boxes, Answer(b) PROVE Flow' /\ Asked'
    BY <1>0, <1>21, AnswerSays DEF Flow, Asked, Driving
  <1>22. ASSUME NEW b \in Boxes, Exit(b) PROVE Flow' /\ Asked'
    BY <1>0, <1>22, ExitSays DEF Flow, Asked, Driving
  <1>23. CASE Platform
    BY <1>0, <1>23, PlatformSays
  <1>24. CASE GoIdle
    BY <1>0, <1>24, GoIdleSays
  <1>25. CASE Crash
    BY <1>0, <1>25, CrashSays
  <1>26. CASE Restart
    BY <1>0, <1>26, RestartSays
  <1>27. CASE ReapClaim
    BY <1>0, <1>27, ReapClaimSays
  <1>40. QED
    BY <1>1, <1>2, <1>3, <1>4, <1>5, <1>6, <1>7, <1>8, <1>9, <1>10, <1>11, <1>12, <1>13, <1>14, <1>15, <1>16, <1>17, <1>18, <1>19, <1>20, <1>21, <1>22, <1>23, <1>24, <1>25, <1>26, <1>27
       DEF Next, Engine, Turn, End, Reap, Agent
LEMMA TypeInit == Init => TypeInv
  <1> SUFFICES ASSUME Init PROVE TypeInv
    OBVIOUS
  <1>1. eng \in EngineRecord /\ eng.pc = "idle" /\ eng.event = FALSE /\ eng.result = "none"
    BY DispatcherType DEF Init
  <1>2. reap \in ReapRecord
    BY ReaperType DEF Init, ReapPcs
  <1>3. run \in RunRecord /\ row \in RowRecord /\ run.state = "pending"
    BY Bounds DEF Init, RunRecord, RowRecord
  <1>4. queue \in [Items -> ItemRecord]
    BY DEF Init, ItemRecord
  <1>5. box \in [Boxes -> BoxRecord] /\ inbox \in [Boxes -> Message] /\ outbox \in [Boxes -> Reply]
    BY GoneType DEF Init
  <1>6. count \in [crashes: Nat, reaps: Nat]
    BY DEF Init
  <1>7. TypeOK
    BY <1>1, <1>2, <1>3, <1>4, <1>5, <1>6 DEF Init, TypeOK
  <1>8. Flow /\ Asked
    BY <1>1, <1>3 DEF Flow, Asked, Driving, Holding, Asking, Closing, TurnPcs, EndPcs
  <1>9. QED
    BY <1>7, <1>8 DEF TypeInv

LEMMA TypeStep == TypeInv /\ [Next]_vars => TypeInv'
  <1> SUFFICES ASSUME TypeInv, [Next]_vars PROVE TypeInv'
    OBVIOUS
  <1>1. CASE Next
    BY <1>1, TypeNext, FlowNext DEF TypeInv
  <1>2. CASE UNCHANGED vars
    BY <1>2 DEF vars, TypeInv, TypeOK, Flow, Asked, Driving
  <1>3. QED
    BY <1>1, <1>2

\* The rows, objects, tasks and containers of a session keep their types.
THEOREM TypeCorrect == Spec => []TypeOK
  <1>1. TypeInv => TypeOK
    BY DEF TypeInv
  <1>2. QED
    BY TypeInit, TypeStep, <1>1, PTL DEF Spec

-----------------------------------------------------------------------------
(* The container. *)

\* Whose container may run: the dispatch's, and the one the row names.
Hers  == eng.pc \in Holding \cup {"endfinal"} => Alive \subseteq {eng.h}
Kept  == eng.pc # "commit" => Alive \subseteq {row.arn}
Clear == eng.pc = "launch" \/ run.state = "completed" => Alive = {}

\* While nobody has taken the session from the reaper, its container is the one
\* the row names, and is gone when the reaper is about to clear the handle.
Reaped == run.phase = "reaping" =>
    /\ eng.pc \notin Asking
    /\ reap.pc \in {"resolve", "write", "check", "poll"} => row.arn \in {reap.h, NoBox}
    /\ reap.pc = "final" => row.arn \notin Alive

BoxInv == Hers /\ Kept /\ Clear /\ Reaped
LEMMA BoxNext == ASSUME TypeInv, BoxInv, Next PROVE BoxInv'
  <1> USE DEF BoxInv, Hers, Kept, Clear, Reaped, Alive, Adds, Holding, Asking, Closing, TurnPcs,
              EndPcs, Terminal, Goes, Returns, RunGoes, RowGoes, ReapGoes
  <1>0. /\ TypeOK /\ Flow /\ Hers /\ Kept /\ Clear /\ Reaped /\ NoBox \notin Boxes
        /\ Alive \subseteq Boxes /\ row.arn \in Boxes \cup {NoBox}
    BY Bounds, RowFields DEF TypeInv, BoxInv, Alive
  <1>1. CASE Claim
    BY <1>0, <1>1, ClaimSays, ShrinkAlive
  <1>2. CASE CommitTurn
    BY <1>0, <1>2, CommitTurnSays, ShrinkAlive
  <1>3. CASE ResolveTurn
    BY <1>0, <1>3, ResolveTurnSays, ShrinkAlive
  <1>4. CASE LaunchSession
    <2>1. CASE /\ RowGoes(row.turn, NoBox) /\ RunGoes("paused", "active") /\ Returns
               /\ UNCHANGED box
      <3>1. Alive = {} /\ Alive' = {}
        BY <1>0, <1>4, <2>1, LaunchSessionSays DEF Alive, Clear
      <3>2. QED
        BY <2>1, <3>1 DEF BoxInv, Hers, Kept, Clear, Reaped, RunGoes, RowGoes, Returns, Holding
    <2>2. CASE Goes("commit", eng.seq, eng.h, eng.result) /\ UNCHANGED run
               /\ \A b \in Boxes \ {eng.h} : box'[b] = box[b]
      <3>1. Alive = {} /\ run.state # "completed" /\ run.phase # "reaping"
        BY <1>0, <1>4, LaunchSessionSays DEF Clear, Flow, Reaped, Asking, TurnPcs
      <3>2. Alive' \subseteq {eng.h}
        BY <2>2, <3>1 DEF Alive
      <3>3. QED
        BY <2>2, <3>1, <3>2 DEF BoxInv, Hers, Kept, Clear, Reaped, Goes
    <2>3. QED
      BY <1>0, <1>4, <2>1, <2>2, LaunchSessionSays
  <1>5. CASE CommitSession
    BY <1>0, <1>5, CommitSessionSays, ShrinkAlive
  <1>6. CASE WriteInbox
    BY <1>0, <1>6, WriteInboxSays, ShrinkAlive
  <1>7. CASE AwaitReply
    BY <1>0, <1>7, AwaitReplySays, ShrinkAlive
  <1>8. CASE ConcludeTurn
    BY <1>0, <1>8, ConcludeTurnSays, ShrinkAlive
  <1>9. CASE CommitEnd
    BY <1>0, <1>9, CommitEndSays, ShrinkAlive
  <1>10. CASE ResolveEnd
    BY <1>0, <1>10, ResolveEndSays, ShrinkAlive
  <1>11. CASE WriteEnd
    BY <1>0, <1>11, WriteEndSays, ShrinkAlive
  <1>12. CASE AwaitExit
    BY <1>0, <1>12, AwaitExitSays, ShrinkAlive
  <1>13. CASE ConcludeEnd
    BY <1>0, <1>13, ConcludeEndSays, ShrinkAlive
  <1>14. CASE Finish
    BY <1>0, <1>14, FinishSays, ShrinkAlive
  <1>15. CASE StartReap
    <2>1. eng.pc \notin Asking
      BY <1>0, <1>15, StartReapSays DEF Flow
    <2>2. QED
      BY <1>0, <1>15, <2>1, StartReapSays
         DEF BoxInv, Hers, Kept, Clear, Reaped, Alive, RunGoes, ReapGoes
  <1>16. CASE LoadReap \/ MarkReap \/ ResolveReap \/ WriteReap \/ CheckReap \/ PollReap
    BY <1>0, <1>16, ReaperSays, ShrinkAlive
  <1>17. CASE FinishReap
    BY <1>0, <1>17, FinishReapSays, ShrinkAlive
  <1>18. CASE HandleStop
    BY <1>0, <1>18, HandleStopSays, ShrinkAlive
  <1>19. CASE RecordStop
    BY <1>0, <1>19, RecordStopSays, ShrinkAlive
  <1>20. ASSUME NEW b \in Boxes, Take(b) PROVE BoxInv'
    <2>1. b \in Alive /\ UNCHANGED <<run, row, eng, reap>>
      BY <1>0, <1>20, TakeSays DEF Alive
    <2>2. Alive' \subseteq Alive
      BY <1>0, <1>20, <2>1, TakeSays DEF Alive
    <2>3. QED
      BY <1>0, <2>1, <2>2 DEF Hers, Kept, Clear, Reaped, BoxInv
  <1>21. ASSUME NEW b \in Boxes, Answer(b) PROVE BoxInv'
    BY <1>0, <1>21, AnswerSays DEF Hers, Kept, Clear, Reaped, BoxInv, Alive
  <1>22. ASSUME NEW b \in Boxes, Exit(b) PROVE BoxInv'
    BY <1>0, <1>22, ExitSays, ShrinkAlive DEF Hers, Kept, Clear, Reaped, BoxInv, Alive
  <1>23. CASE Platform
    BY <1>0, <1>23, PlatformSays, ShrinkAlive
  <1>24. CASE GoIdle
    BY <1>0, <1>24, GoIdleSays, ShrinkAlive
  <1>25. CASE Crash
    BY <1>0, <1>25, CrashSays, ShrinkAlive
  <1>26. CASE Restart
    BY <1>0, <1>26, RestartSays, ShrinkAlive
  <1>27. CASE ReapClaim
    BY <1>0, <1>27, ReapClaimSays, ShrinkAlive
  <1>40. QED
    BY <1>1, <1>2, <1>3, <1>4, <1>5, <1>6, <1>7, <1>8, <1>9, <1>10, <1>11, <1>12, <1>13, <1>14, <1>15, <1>16, <1>17, <1>18, <1>19, <1>20, <1>21, <1>22, <1>23, <1>24, <1>25, <1>26, <1>27
       DEF Next, Engine, Turn, End, Reap, Agent
LEMMA BoxStep == TypeInv /\ BoxInv /\ [Next]_vars => BoxInv'
  <1> SUFFICES ASSUME TypeInv, BoxInv, [Next]_vars PROVE BoxInv'
    OBVIOUS
  <1>1. CASE UNCHANGED vars
    BY <1>1 DEF vars, BoxInv, Hers, Kept, Clear, Reaped, Alive
  <1>2. QED
    BY <1>1, BoxNext

\* A session owns one container while it is open and none once it was ended.
THEOREM ContainerIsOwned == Spec => []ContainerOwned
  <1>1. Init => BoxInv
    <2> SUFFICES ASSUME Init PROVE BoxInv
      OBVIOUS
    <2>1. Alive = {}
      BY DEF Init, Gone, Alive
    <2>2. eng.pc = "idle" /\ run.phase = "pending"
      BY DispatcherType DEF Init
    <2>3. QED
      BY <2>1, <2>2 DEF BoxInv, Hers, Kept, Clear, Reaped
  <1>2. TypeInv /\ BoxInv => ContainerOwned
    <2> SUFFICES ASSUME TypeInv, BoxInv PROVE ContainerOwned
      OBVIOUS
    <2>1. Alive = {} \/ \E b \in Boxes : Alive = {b}
      <3>1. \E b \in {eng.h, row.arn} : Alive \subseteq {b}
        BY DEF BoxInv, Hers, Kept, Holding
      <3>2. Alive \subseteq Boxes
        BY DEF Alive
      <3>3. QED
        BY <3>1, <3>2
    <2>2. Cardinality(Alive) <= 1
      <3>1. CASE Alive = {}
        BY <3>1, FS_EmptySet
      <3>2. ASSUME NEW b \in Boxes, Alive = {b} PROVE Cardinality(Alive) <= 1
        <4>1. Cardinality({b}) = 1
          BY FS_Singleton
        <4>2. QED
          BY <3>2, <4>1
      <3>3. QED
        BY <2>1, <3>1, <3>2
    <2>3. QED
      BY <2>2 DEF ContainerOwned, OneContainer, CompletedIsClean, BoxInv, Clear
  <1>3. QED
    BY TypeInit, TypeStep, BoxStep, <1>1, <1>2, PTL DEF Spec
-----------------------------------------------------------------------------
(* The abstract run. *)

\* The dispatch that has taken the run, as RunLifecycle sees it.
Holder == IF Driving /\ eng.pc # "finish" THEN "dispatch" ELSE NoDispatch
Asleep == {"down", "idle", "finish"}
SameStop == (stop' # "none") <=> (stop # "none")

LEMMA HolderSays ==
    /\ eng.pc \in Asleep => Holder = NoDispatch
    /\ eng.pc \notin Asleep => Holder = "dispatch"
    /\ NoDispatch # "dispatch"
  BY DEF Holder, Driving, NoDispatch, Asleep

\* A step that moves the run as a driver may, or leaves it alone.
LEMMA DriveStep ==
    ASSUME SameStop, Holder \in {"dispatch", NoDispatch}, Holder' \in {"dispatch", NoDispatch},
           \/ run'.state = run.state
           \/ <<run.state, run'.state>> \in Lifecycle!Moves,
           Holder = NoDispatch => run.state \notin Terminal,
           run'.state = "cancelled" => stop # "none" \/ run.state = "cancelled"
    PROVE  Lifecycle!Next
  <1>1. Lifecycle!Drive
    BY HolderSays
       DEF Lifecycle!Drive, Lifecycle!Finished, Terminal, Holder, Dispatches, NoDispatch, SameStop
  <1>2. QED
    BY <1>1 DEF Lifecycle!Next

LEMMA SameStep ==
    ASSUME SameStop, run'.state = run.state, Holder' = Holder
    PROVE  UNCHANGED Lifecycle!vars
  BY DEF Lifecycle!vars, Holder, SameStop

\* A dispatch that goes on, with the run as it was.
LEMMA GoStep ==
    ASSUME SameStop, run'.state = run.state, eng.pc \notin Asleep, eng'.pc \notin Asleep
    PROVE  UNCHANGED Lifecycle!vars
  BY SameStep, HolderSays DEF Holder, Driving, Asleep

\* A dispatch that takes or ends a turn, or ends the session.
LEMMA ServeStep ==
    ASSUME SameStop, eng.pc \notin Asleep, Holder' \in {"dispatch", NoDispatch},
           run.state \in {"running", "paused", "cancelled"},
           \/ run'.state = "running"
           \/ run'.state \in {"paused", "completed", "cancelled"} /\ run.state # "paused",
           run'.state = "cancelled" => stop # "none" \/ run.state = "cancelled"
    PROVE  Lifecycle!Next
  <1>1. <<run.state, run'.state>> \in Lifecycle!Moves \/ run'.state = run.state
    BY DEF Lifecycle!Moves
  <1>2. QED
    BY <1>1, HolderSays, DriveStep

LEMMA LifecycleInit == Init => Lifecycle!Init
  <1> SUFFICES ASSUME Init PROVE Lifecycle!Init
    OBVIOUS
  <1>1. eng.pc = "idle" /\ run.state = "pending" /\ stop = "none"
    BY DispatcherType DEF Init
  <1>2. QED
    BY <1>1 DEF Lifecycle!Init, Driving

LEMMA LifecycleNext == TypeInv /\ TypeInv' /\ [Next]_vars => [Lifecycle!Next]_(Lifecycle!vars)
  <1> SUFFICES ASSUME TypeInv, TypeInv', [Next]_vars
               PROVE  Lifecycle!Next \/ UNCHANGED Lifecycle!vars
    OBVIOUS
  <1>0. TypeOK /\ Flow /\ Asked /\ Holder' \in {"dispatch", NoDispatch}
    BY DEF TypeInv, Holder
  <1>1. CASE Claim
    <2>1. eng.pc = "idle" /\ Holder = NoDispatch /\ SameStop
      BY <1>0, <1>1, ClaimSays, HolderSays DEF SameStop, Asleep
    <2>2. CASE run.state \in Terminal
      <3>1. eng'.pc = "finish" /\ run'.state = run.state
        BY <1>0, <1>1, <2>2, ClaimWay DEF Terminal
      <3>2. QED
        BY <2>1, <3>1, SameStep DEF Holder
    <2>3. CASE run.state \notin Terminal
      <3>1. run'.state = run.state \/ <<run.state, run'.state>> \in Lifecycle!Moves
        BY <1>0, <1>1, ClaimWay DEF Lifecycle!Moves
      <3>2. run'.state # "cancelled"
        BY <1>0, <1>1, <2>3, ClaimWay DEF Terminal
      <3>3. QED
        BY <1>0, <2>1, <2>3, <3>1, <3>2, DriveStep
    <2>4. QED
      BY <2>2, <2>3
  <1>2. CASE CommitTurn
    BY <1>0, <1>2, CommitTurnSays, ServeStep DEF Flow, RunGoes, Asleep, SameStop
  <1>3. CASE ResolveTurn
    BY <1>0, <1>3, ResolveTurnSays, GoStep DEF Goes, Asleep, SameStop
  <1>4. CASE LaunchSession
    <2>1. CASE RunGoes("paused", "active")
      BY <1>0, <1>4, <2>1, LaunchSessionSays, ServeStep
         DEF Flow, Asking, TurnPcs, RunGoes, Asleep, SameStop
    <2>2. CASE UNCHANGED run /\ Goes("commit", eng.seq, eng.h, eng.result)
      BY <1>0, <1>4, <2>2, LaunchSessionSays, GoStep DEF Goes, Asleep, SameStop
    <2>3. QED
      BY <1>0, <1>4, <2>1, <2>2, LaunchSessionSays
  <1>5. CASE CommitSession
    BY <1>5, CommitSessionSays, GoStep DEF Goes, Asleep, SameStop
  <1>6. CASE WriteInbox
    BY <1>6, WriteInboxSays, GoStep DEF Goes, Asleep, SameStop
  <1>7. CASE AwaitReply
    BY <1>7, AwaitReplySays, GoStep DEF Goes, Asleep, SameStop
  <1>8. CASE ConcludeTurn
    <2>1. run.state \in {"running", "cancelled"} /\ SameStop /\ eng.pc = "conclude"
      BY <1>0, <1>8, ConcludeTurnSays DEF Flow, Asking, TurnPcs, SameStop
    <2>2. \/ run'.state = "paused"
          \/ run'.state = "cancelled" /\ stop # "none"
      BY <1>0, <1>8, ConcludeTurnSays DEF Asked, RunGoes
    <2>3. QED
      BY <1>0, <2>1, <2>2, ServeStep DEF Asleep
  <1>9. CASE CommitEnd
    BY <1>0, <1>9, CommitEndSays, ServeStep DEF Flow, RunGoes, Asleep, SameStop
  <1>10. CASE ResolveEnd
    BY <1>0, <1>10, ResolveEndSays, GoStep DEF Goes, Asleep, SameStop
  <1>11. CASE WriteEnd
    BY <1>11, WriteEndSays, GoStep DEF Goes, Asleep, SameStop
  <1>12. CASE AwaitExit
    BY <1>12, AwaitExitSays, GoStep DEF Goes, Asleep, SameStop
  <1>13. CASE ConcludeEnd
    <2>1. run.state \in {"running", "cancelled"} /\ SameStop /\ eng.pc = "endfinal"
      BY <1>0, <1>13, ConcludeEndSays DEF Flow, Closing, EndPcs, SameStop
    <2>2. CASE run'.state = run.state
      BY <1>0, <2>1, <2>2, DriveStep, HolderSays DEF Asleep
    <2>3. CASE run'.state \in {"completed", "paused"}
      BY <1>0, <2>1, <2>3, ServeStep DEF Asleep
    <2>4. QED
      BY <1>0, <1>13, <2>2, <2>3, ConcludeEndSays DEF RunGoes
  <1>14. CASE Finish
    BY <1>0, <1>14, FinishSays, SameStep DEF Holder, Driving, SameStop
  <1>15. CASE StartReap
    BY <1>0, <1>15, StartReapSays, SameStep DEF Holder, Driving, SameStop, RunGoes
  <1>16. CASE LoadReap \/ MarkReap \/ ResolveReap \/ WriteReap \/ CheckReap \/ PollReap
    BY <1>0, <1>16, ReaperSays, SameStep DEF Holder, Driving, SameStop, RunGoes
  <1>17. CASE FinishReap
    BY <1>0, <1>17, FinishReapSays, SameStep DEF Holder, Driving, SameStop, RunGoes
  <1>18. CASE HandleStop
    BY <1>0, <1>18, HandleStopSays, SameStep DEF Holder, Driving, SameStop
  <1>19. CASE RecordStop
    <2>1. stop # "none" /\ stop' # "none" /\ UNCHANGED eng
      BY <1>0, <1>19, RecordStopSays
    <2>2. CASE UNCHANGED run
      BY <2>1, <2>2, SameStep DEF Holder, Driving, SameStop
    <2>3. CASE run'.state = "cancelled"
      BY <2>1, <2>3 DEF Lifecycle!Next, Lifecycle!RecordStop, Driving
    <2>4. QED
      BY <1>0, <1>19, <2>2, <2>3, RecordStopSays DEF RunGoes
  <1>20. ASSUME NEW b \in Boxes, Take(b) \/ Answer(b) \/ Exit(b) PROVE UNCHANGED Lifecycle!vars
    BY <1>20, SameStep DEF Take, Answer, Exit, Holder, Driving, SameStop
  <1>21. CASE Platform
    <2>1. UNCHANGED <<run, eng>>
      BY <1>0, <1>21, PlatformSays
    <2>2. CASE stop' = stop
      BY <2>1, <2>2, SameStep DEF Holder, Driving, SameStop
    <2>3. CASE stop' = "requested"
      BY <2>1, <2>3 DEF Lifecycle!Next, Lifecycle!RequestStop, Driving
    <2>4. QED
      BY <1>0, <1>21, <2>2, <2>3, PlatformSays
  <1>22. CASE GoIdle
    BY <1>0, <1>22, GoIdleSays, SameStep DEF Holder, Driving, SameStop, RunGoes
  <1>23. CASE Crash
    <2>1. UNCHANGED run /\ SameStop /\ Holder' = NoDispatch
      BY <1>0, <1>23, CrashSays DEF Holder, Driving, SameStop
    <2>2. CASE Holder = NoDispatch
      BY <2>1, <2>2, SameStep
    <2>3. CASE Holder = "dispatch"
      BY <2>1, <2>3, DriveStep, HolderSays
    <2>4. QED
      BY <2>2, <2>3 DEF Holder
  <1>24. CASE Restart
    BY <1>0, <1>24, RestartSays, SameStep DEF Holder, Driving, SameStop
  <1>25. CASE ReapClaim
    BY <1>0, <1>25, ReapClaimSays, SameStep DEF Holder, Driving, SameStop
  <1>26. CASE UNCHANGED vars
    BY <1>26, SameStep DEF vars, Holder, Driving, SameStop
  <1>27. QED
    BY <1>1, <1>2, <1>3, <1>4, <1>5, <1>6, <1>7, <1>8, <1>9, <1>10, <1>11, <1>12, <1>13, <1>14,
       <1>15, <1>16, <1>17, <1>18, <1>19, <1>20, <1>21, <1>22, <1>23, <1>24, <1>25, <1>26
       DEF Next, Engine, Turn, End, Reap, Agent

\* Turns, ends, reaps, stops and crashes move the run as the abstract run may move:
\* a redelivered turn or end never reopens a finished session.
THEOREM SessionImplementsLifecycle == Spec => ImplementsLifecycle
  <1>1. QED
    BY LifecycleInit, LifecycleNext, TypeInit, TypeStep, PTL
       DEF Spec, ImplementsLifecycle, Lifecycle!Spec
-----------------------------------------------------------------------------
(* The transcript. *)

Waiting == {"await", "conclude"}

\* A message of a past turn, or of the one the dispatch waits for.
Said(m) ==
    /\ m.seq # 0 /\ m.seq <= row.turn
    /\ eng.pc \in Asking /\ m.seq = row.turn => eng.pc \in Waiting /\ m.query = eng.query

\* The dispatch asks under the number the row holds, nobody has heard of it before
\* the inbox is written, and every turn of the transcript has an earlier one.
Numbered == eng.pc \in Asking => eng.seq = row.turn /\ row.turn # 0
Spoken   == \A b \in Boxes :
    /\ inbox[b].kind = "turn" => Said(inbox[b])
    /\ inbox[b].kind = "none" => inbox[b].seq = 0
    /\ box[b].busy # NoReply => Said(box[b].busy)
    /\ outbox[b] # NoReply => Said(outbox[b])
Answered ==
    /\ eng.pc \in Waiting =>
         /\ inbox[eng.h].kind = "turn" => inbox[eng.h].seq = eng.seq
         /\ outbox[eng.h].seq = eng.seq => box[eng.h].busy.seq \in {0, eng.seq}
    /\ eng.pc = "conclude" /\ eng.result = "completed" => outbox[eng.h].seq = eng.seq
Written  == \A t \in turns : t.seq <= row.turn /\ (eng.pc \in Asking => t.seq < row.turn)

AskInv == Numbered /\ Spoken /\ Answered /\ Written /\ AnswerIsOwn /\ TurnNumbersUnique

\* Steps that neither number a turn nor write a message of one: an end may replace a
\* message, a container may lose its turn, a dispatch may give up.
Hushed == \A b \in Boxes :
    /\ inbox'[b] = inbox[b] \/ inbox'[b].kind = "end"
    /\ box'[b].busy = box[b].busy \/ box'[b].busy = NoReply
    /\ outbox'[b] = outbox[b]
Holds ==
    /\ eng.pc \in Asking /\ eng'.seq = eng.seq /\ eng'.query = eng.query
    /\ \/ eng.pc \notin Waiting /\ eng'.pc \notin Waiting
       \/ /\ eng.pc \in Waiting /\ eng'.pc \in Waiting /\ eng'.h = eng.h
          /\ eng'.pc = "conclude" /\ eng'.result = "completed" => outbox[eng.h].seq = eng.seq

LEMMA Hearing ==
    ASSUME TypeInv, AskInv, row'.turn = row.turn, turns' = turns, Hushed,
           eng'.pc \notin Asking \/ Holds
    PROVE  AskInv'
  <1>0. TypeOK /\ Numbered /\ Spoken /\ Answered /\ Written /\ AnswerIsOwn /\ TurnNumbersUnique
    BY DEF TypeInv, AskInv
  <1>w. Waiting \subseteq Asking
    BY DEF Waiting, Asking, TurnPcs
  <1>1. Numbered'
    BY <1>0 DEF Numbered, Holds
  <1>2. \A m : Said(m) => /\ m.seq # 0 /\ m.seq <= row'.turn
                          /\ eng'.pc \in Asking /\ m.seq = row'.turn =>
                               eng'.pc \in Waiting /\ m.query = eng'.query
    BY <1>w DEF Said, Holds
  <1>3. Spoken'
    <2> SUFFICES ASSUME NEW b \in Boxes
                 PROVE  /\ inbox'[b].kind = "turn" => Said(inbox[b])'
                        /\ inbox'[b].kind = "none" => inbox'[b].seq = 0
                        /\ box'[b].busy # NoReply => Said(box[b].busy)'
                        /\ outbox'[b] # NoReply => Said(outbox[b])'
      BY DEF Spoken
    <2>1. /\ inbox'[b] = inbox[b] \/ inbox'[b].kind = "end"
          /\ box'[b].busy = box[b].busy \/ box'[b].busy = NoReply
          /\ outbox'[b] = outbox[b]
      BY DEF Hushed
    <2>2. /\ inbox[b].kind = "turn" => Said(inbox[b])
          /\ inbox[b].kind = "none" => inbox[b].seq = 0
          /\ box[b].busy # NoReply => Said(box[b].busy)
          /\ outbox[b] # NoReply => Said(outbox[b])
      BY <1>0 DEF Spoken
    <2>3. inbox'[b].kind = "turn" => Said(inbox[b])'
      BY <1>2, <2>1, <2>2 DEF Said
    <2>4. box'[b].busy # NoReply => Said(box[b].busy)'
      BY <1>2, <2>1, <2>2 DEF Said
    <2>5. outbox'[b] # NoReply => Said(outbox[b])'
      BY <1>2, <2>1, <2>2 DEF Said
    <2>6. QED
      BY <2>1, <2>2, <2>3, <2>4, <2>5
  <1>4. Answered'
    <2>1. eng'.pc \in Waiting => /\ eng.pc \in Waiting /\ eng.h \in Boxes /\ eng'.h = eng.h
                                 /\ eng'.seq = eng.seq
      BY <1>0, <1>w DEF Holds, TypeInv, Flow, Holding, Waiting
    <2>2. eng'.pc = "conclude" /\ eng'.result = "completed" => outbox[eng.h].seq = eng.seq
      BY <1>w, <2>1 DEF Holds, Waiting
    <2>3. CASE eng'.pc \in Waiting
      <3>1. /\ inbox'[eng.h] = inbox[eng.h] \/ inbox'[eng.h].kind = "end"
            /\ box'[eng.h].busy = box[eng.h].busy \/ box'[eng.h].busy = NoReply
            /\ outbox'[eng.h] = outbox[eng.h]
        BY <2>1, <2>3 DEF Hushed
      <3>2. QED
        BY <1>0, <2>1, <2>2, <2>3, <3>1 DEF Answered, NoReply
    <2>4. CASE eng'.pc \notin Waiting
      BY <2>4 DEF Answered, Waiting
    <2>5. QED
      BY <2>3, <2>4
  <1>5. Written' /\ AnswerIsOwn' /\ TurnNumbersUnique'
    BY <1>0 DEF Written, Holds, AnswerIsOwn, TurnNumbersUnique
  <1>6. QED
    BY <1>1, <1>3, <1>4, <1>5 DEF AskInv

\* The dispatch returns with its turn recorded.
LEMMA Recording ==
    ASSUME TypeInv, AskInv, eng.pc \in Asking, row'.turn = row.turn, Returns, Hushed \/ UNCHANGED <<box, inbox, outbox>>,
           NEW answer \in {0, eng.query}, turns' = turns \cup {Record(answer)}
    PROVE  AskInv'
  <1>0. TypeOK /\ Numbered /\ Spoken /\ Written /\ AnswerIsOwn /\ TurnNumbersUnique
    BY DEF TypeInv, AskInv
  <1>1. eng'.pc = "finish" /\ "finish" \notin Asking /\ "finish" \notin Waiting
    BY DEF Returns, Asking, Waiting, TurnPcs
  <1>2. \A m : Said(m) => m.seq # 0 /\ m.seq <= row'.turn
    BY DEF Said
  <1>3. Hushed
    BY DEF Hushed
  <1>4. Spoken'
    BY <1>0, <1>1, <1>2, <1>3 DEF Spoken, Said, Hushed
  <1>5. Numbered' /\ Answered'
    BY <1>1 DEF Numbered, Answered, Waiting
  <1> DEFINE r == Record(answer)
  <1>6. /\ r.seq = row.turn /\ r.answer \in {0, r.query} /\ row.turn \in Nat
        /\ \A t \in turns : t.seq < row.turn
    BY <1>0, RowFields DEF Record, Numbered, Written
  <1>7. turns' = turns \cup {r}
    OBVIOUS
  <1>8. \A t \in turns : t.seq \in Nat
    BY <1>0 DEF TypeOK
  <1> HIDE DEF r
  <1>9. Written' /\ AnswerIsOwn' /\ TurnNumbersUnique'
    BY <1>0, <1>1, <1>6, <1>7, <1>8 DEF Written, AnswerIsOwn, TurnNumbersUnique
  <1>10. QED
    BY <1>4, <1>5, <1>9 DEF AskInv

LEMMA AskNext == ASSUME TypeInv, AskInv, Next PROVE AskInv'
  <1>0. /\ TypeOK /\ Flow /\ TypeInv /\ AskInv
        /\ Numbered /\ Spoken /\ Answered /\ Written /\ AnswerIsOwn /\ TurnNumbersUnique
    BY DEF TypeInv, AskInv
  <1>r. /\ eng'.pc = eng.pc /\ eng'.seq = eng.seq /\ eng'.query = eng.query
        /\ eng'.h = eng.h /\ eng'.result = eng.result
        => eng'.pc \notin Asking \/ Holds
    BY <1>0 DEF Holds, Answered
  <1>1. CASE Claim
    <2>1. Hushed /\ row'.turn = row.turn /\ turns' = turns
      BY <1>0, <1>1, ClaimSays DEF Hushed, Shrinks, Stops, RowGoes
    <2>2. eng'.pc \notin Asking \/ Holds
      BY <1>0, <1>1, ClaimSays DEF Holds, Asking, Waiting, TurnPcs, EndPcs, Goes, Returns
    <2>3. QED
      BY <1>0, <2>1, <2>2, Hearing
  <1>2. CASE CommitTurn
    <2>0. CommitTurn
      BY <1>2
    <2>1. /\ eng'.pc = "resolve" /\ eng'.seq = row.turn + 1 /\ row'.turn = row.turn + 1
          /\ row.turn \in Nat /\ UNCHANGED <<box, inbox, outbox, turns>>
      BY <1>0, <2>0, CommitTurnSays, RowFields DEF Goes, RowGoes
    <2>2. \A m : m.seq \in Nat /\ Said(m) => m.seq # 0 /\ m.seq <= row'.turn /\ m.seq # row'.turn
      BY <2>1 DEF Said
    <2>3. \A b \in Boxes : /\ inbox[b].seq \in Nat /\ box[b].busy.seq \in Nat
                           /\ outbox[b].seq \in Nat
      BY <1>0, BoxFields, ReplyFields
    <2>4. Spoken'
      BY <1>0, <2>1, <2>2, <2>3 DEF Spoken, Said
    <2>5. \A t \in turns : t.seq \in Nat
      BY <1>0 DEF TypeOK
    <2>6. Numbered' /\ Answered' /\ Written'
      BY <1>0, <2>1, <2>5 DEF Numbered, Answered, Written, Waiting
    <2>7. QED
      BY <1>0, <2>1, <2>4, <2>6 DEF AskInv, AnswerIsOwn, TurnNumbersUnique
  <1>3. CASE ResolveTurn
    <2>1. Hushed /\ row'.turn = row.turn /\ turns' = turns
      BY <1>0, <1>3, ResolveTurnSays DEF Hushed, Shrinks, Stops, RowGoes
    <2>2. eng'.pc \notin Asking \/ Holds
      BY <1>0, <1>3, ResolveTurnSays DEF Holds, Asking, Waiting, TurnPcs, EndPcs, Goes, Returns
    <2>3. QED
      BY <1>0, <2>1, <2>2, Hearing
  <1>4. CASE LaunchSession
    <2>1. eng.pc = "launch" /\ eng.h \in Boxes /\ eng.pc \in Asking
      BY <1>0, <1>4, LaunchSessionSays DEF Asking, TurnPcs
    <2>2. CASE /\ RowGoes(row.turn, NoBox) /\ Returns /\ turns' = turns \cup {Record(0)}
               /\ UNCHANGED <<box, inbox, outbox>>
      BY <1>0, <2>1, <2>2, Recording DEF RowGoes, Returns
    <2>3. CASE /\ Goes("commit", eng.seq, eng.h, eng.result) /\ UNCHANGED <<row, turns>>
               /\ box'[eng.h].busy = NoReply /\ inbox'[eng.h] = NoMessage
               /\ outbox'[eng.h] = NoReply
               /\ \A b \in Boxes \ {eng.h} : /\ box'[b] = box[b] /\ inbox'[b] = inbox[b]
                                             /\ outbox'[b] = outbox[b]
      <3>1. /\ eng'.pc = "commit" /\ eng'.seq = eng.seq /\ eng'.query = eng.query
            /\ "commit" \notin Waiting /\ eng.pc \notin Waiting
        BY <2>1, <2>3 DEF Goes, Waiting
      <3>2. \A m : Said(m) => /\ m.seq # 0 /\ m.seq <= row'.turn /\ m.seq # row'.turn
        BY <2>1, <2>3, <3>1 DEF Said
      <3>3. NoMessage.kind = "none" /\ NoMessage.seq = 0
        BY DEF NoMessage
      <3>4. Spoken'
        BY <1>0, <2>3, <3>2, <3>3 DEF Spoken, Said
      <3>5. Numbered' /\ Answered' /\ Written' /\ AnswerIsOwn' /\ TurnNumbersUnique'
        BY <1>0, <2>1, <2>3, <3>1
           DEF Numbered, Answered, Written, Waiting, AnswerIsOwn, TurnNumbersUnique
      <3>6. QED
        BY <3>4, <3>5 DEF AskInv
    <2>4. QED
      BY <1>0, <1>4, <2>2, <2>3, LaunchSessionSays
  <1>5. CASE CommitSession
    <2>1. Hushed /\ row'.turn = row.turn /\ turns' = turns
      BY <1>0, <1>5, CommitSessionSays DEF Hushed, Shrinks, Stops, RowGoes
    <2>2. eng'.pc \notin Asking \/ Holds
      BY <1>0, <1>5, CommitSessionSays DEF Holds, Asking, Waiting, TurnPcs, EndPcs, Goes, Returns
    <2>3. QED
      BY <1>0, <2>1, <2>2, Hearing
  <1>6. CASE WriteInbox
    <2>1. /\ eng.pc = "inbox" /\ eng.h \in Boxes /\ eng.pc \in Asking /\ eng'.pc = "await"
          /\ eng'.h = eng.h /\ eng'.seq = eng.seq /\ eng'.query = eng.query
          /\ "await" \in Waiting /\ eng.pc \notin Waiting
          /\ UNCHANGED <<row, box, outbox, turns>>
      BY <1>6, WriteInboxSays DEF Goes, Asking, TurnPcs, Waiting
    <2>2. /\ inbox'[eng.h].seq = eng.seq /\ inbox'[eng.h].kind = "turn"
          /\ inbox'[eng.h].query = eng.query
          /\ \A b \in Boxes \ {eng.h} : inbox'[b] = inbox[b]
      BY <1>6, WriteInboxSays
    <2>3. eng.seq = row.turn /\ row.turn # 0 /\ row.turn \in Nat
      BY <1>0, <2>1, RowFields DEF Numbered
    <2>4. \A m : Said(m) => /\ m.seq # 0 /\ m.seq <= row'.turn /\ m.seq # row'.turn
      BY <2>1 DEF Said
    <2>5. Said(inbox[eng.h])'
      BY <2>1, <2>2, <2>3 DEF Said
    <2>6. Spoken'
      BY <1>0, <2>1, <2>2, <2>4, <2>5 DEF Spoken, Said
    <2>7. outbox[eng.h].seq # eng.seq
      BY <1>0, <2>1, <2>3, <2>4 DEF Spoken, NoReply
    <2>8. Numbered' /\ Answered' /\ Written' /\ AnswerIsOwn' /\ TurnNumbersUnique'
      BY <1>0, <2>1, <2>2, <2>3, <2>7
         DEF Numbered, Answered, Written, AnswerIsOwn, TurnNumbersUnique
    <2>9. QED
      BY <2>6, <2>8 DEF AskInv
  <1>7. CASE AwaitReply
    <2>1. Hushed /\ row'.turn = row.turn /\ turns' = turns
      BY <1>0, <1>7, AwaitReplySays DEF Hushed, Shrinks, Stops, RowGoes
    <2>2. eng'.pc \notin Asking \/ Holds
      BY <1>0, <1>7, AwaitReplySays DEF Holds, Asking, Waiting, TurnPcs, EndPcs, Goes, Returns
    <2>3. QED
      BY <1>0, <2>1, <2>2, Hearing
  <1>8. CASE ConcludeTurn
    <2>1. /\ eng.pc = "conclude" /\ eng.h \in Boxes /\ eng.pc \in Asking /\ Returns
          /\ UNCHANGED <<inbox, outbox>>
      BY <1>8, ConcludeTurnSays DEF Asking, TurnPcs
    <2>2. row'.turn = row.turn /\ \E S : Shrinks(S)
      BY <1>8, ConcludeTurnSays DEF RowGoes
    <2>3. Hushed /\ eng'.pc \notin Asking
      BY <2>1, <2>2 DEF Hushed, Shrinks, Stops, Returns, Asking, TurnPcs
    <2>4. CASE turns' = turns
      BY <1>0, <2>2, <2>3, <2>4, Hearing
    <2>5. CASE turns' = turns \cup {Record(0)}
      BY <1>0, <2>1, <2>2, <2>3, <2>5, Recording
    <2>6. CASE eng.result = "completed" /\ turns' = turns \cup {Record(outbox[eng.h].query)}
      <3>1. outbox[eng.h].seq = row.turn /\ row.turn # 0
        BY <1>0, <2>1, <2>6 DEF Answered, Numbered
      <3>2. outbox[eng.h].query = eng.query
        BY <1>0, <2>1, <3>1 DEF Spoken, Said, NoReply
      <3>3. QED
        BY <1>0, <2>1, <2>2, <2>3, <2>6, <3>2, Recording
    <2>7. QED
      BY <1>8, <2>4, <2>5, <2>6, ConcludeTurnSays
  <1>9. CASE CommitEnd
    <2>1. Hushed /\ row'.turn = row.turn /\ turns' = turns
      BY <1>0, <1>9, CommitEndSays DEF Hushed, Shrinks, Stops, RowGoes
    <2>2. eng'.pc \notin Asking \/ Holds
      BY <1>0, <1>9, CommitEndSays DEF Holds, Asking, Waiting, TurnPcs, EndPcs, Goes, Returns
    <2>3. QED
      BY <1>0, <2>1, <2>2, Hearing
  <1>10. CASE ResolveEnd
    <2>1. Hushed /\ row'.turn = row.turn /\ turns' = turns
      BY <1>0, <1>10, ResolveEndSays DEF Hushed, Shrinks, Stops, RowGoes
    <2>2. eng'.pc \notin Asking \/ Holds
      BY <1>0, <1>10, ResolveEndSays DEF Holds, Asking, Waiting, TurnPcs, EndPcs, Goes, Returns
    <2>3. QED
      BY <1>0, <2>1, <2>2, Hearing
  <1>11. CASE WriteEnd
    <2>1. Hushed /\ row'.turn = row.turn /\ turns' = turns
      BY <1>0, <1>11, WriteEndSays DEF Hushed, Shrinks, Stops, RowGoes
    <2>2. eng'.pc \notin Asking \/ Holds
      BY <1>0, <1>11, WriteEndSays DEF Holds, Asking, Waiting, TurnPcs, EndPcs, Goes, Returns
    <2>3. QED
      BY <1>0, <2>1, <2>2, Hearing
  <1>12. CASE AwaitExit
    <2>1. Hushed /\ row'.turn = row.turn /\ turns' = turns
      BY <1>0, <1>12, AwaitExitSays DEF Hushed, Shrinks, Stops, RowGoes
    <2>2. eng'.pc \notin Asking \/ Holds
      BY <1>0, <1>12, AwaitExitSays DEF Holds, Asking, Waiting, TurnPcs, EndPcs, Goes, Returns
    <2>3. QED
      BY <1>0, <2>1, <2>2, Hearing
  <1>13. CASE ConcludeEnd
    <2>1. Hushed /\ row'.turn = row.turn /\ turns' = turns
      BY <1>0, <1>13, ConcludeEndSays DEF Hushed, Shrinks, Stops, RowGoes
    <2>2. eng'.pc \notin Asking \/ Holds
      BY <1>0, <1>13, ConcludeEndSays DEF Holds, Asking, Waiting, TurnPcs, EndPcs, Goes, Returns
    <2>3. QED
      BY <1>0, <2>1, <2>2, Hearing
  <1>14. CASE Finish
    <2>1. Hushed /\ row'.turn = row.turn /\ turns' = turns
      BY <1>0, <1>14, FinishSays DEF Hushed, Shrinks, Stops, RowGoes
    <2>2. eng'.pc \notin Asking \/ Holds
      BY <1>0, <1>14, FinishSays DEF Holds, Asking, Waiting, TurnPcs, EndPcs, Goes, Returns
    <2>3. QED
      BY <1>0, <2>1, <2>2, Hearing
  <1>15. CASE StartReap
    <2>1. Hushed /\ row'.turn = row.turn /\ turns' = turns
      BY <1>0, <1>15, StartReapSays DEF Hushed, Shrinks, Stops, RowGoes
    <2>2. eng'.pc \notin Asking \/ Holds
      BY <1>0, <1>15, <1>r, StartReapSays
    <2>3. QED
      BY <1>0, <2>1, <2>2, Hearing
  <1>16. CASE LoadReap \/ MarkReap \/ ResolveReap \/ WriteReap \/ CheckReap \/ PollReap
    <2>1. Hushed /\ row'.turn = row.turn /\ turns' = turns
      BY <1>0, <1>16, ReaperSays, ReapInbox DEF Hushed, Shrinks, Stops, RowGoes
    <2>2. eng'.pc \notin Asking \/ Holds
      BY <1>0, <1>16, <1>r, ReaperSays
    <2>3. QED
      BY <1>0, <2>1, <2>2, Hearing
  <1>17. CASE FinishReap
    <2>1. Hushed /\ row'.turn = row.turn /\ turns' = turns
      BY <1>0, <1>17, FinishReapSays DEF Hushed, Shrinks, Stops, RowGoes
    <2>2. eng'.pc \notin Asking \/ Holds
      BY <1>0, <1>17, <1>r, FinishReapSays
    <2>3. QED
      BY <1>0, <2>1, <2>2, Hearing
  <1>18. CASE HandleStop
    <2>1. Hushed /\ row'.turn = row.turn /\ turns' = turns
      BY <1>0, <1>18, HandleStopSays DEF Hushed, Shrinks, Stops, RowGoes
    <2>2. eng'.pc \notin Asking \/ Holds
      BY <1>0, <1>18, <1>r, HandleStopSays
    <2>3. QED
      BY <1>0, <2>1, <2>2, Hearing
  <1>19. CASE RecordStop
    <2>1. Hushed /\ row'.turn = row.turn /\ turns' = turns
      BY <1>0, <1>19, RecordStopSays DEF Hushed, Shrinks, Stops, RowGoes
    <2>2. eng'.pc \notin Asking \/ Holds
      BY <1>0, <1>19, <1>r, RecordStopSays
    <2>3. QED
      BY <1>0, <2>1, <2>2, Hearing
  <1>20. ASSUME NEW b \in Boxes, Take(b) PROVE AskInv'
    <2>1. /\ UNCHANGED <<row, eng, inbox, outbox, turns>> /\ inbox[b].seq # 0
          /\ \A c \in Boxes \ {b} : box'[c] = box[c]
      BY <1>0, <1>20, TakeSays
    <2>2. CASE box'[b].busy = NoReply
      <3>1. Numbered' /\ Written' /\ AnswerIsOwn' /\ TurnNumbersUnique'
        BY <1>0, <2>1 DEF Numbered, Written, AnswerIsOwn, TurnNumbersUnique
      <3>2. Spoken'
        BY <1>0, <2>1, <2>2 DEF Spoken, Said
      <3>3. eng.pc \in Waiting => eng.h \in Boxes
        BY <1>0 DEF Flow, Holding, Waiting
      <3>4. Answered'
        BY <1>0, <2>1, <2>2, <3>3 DEF Answered, NoReply
      <3>5. QED
        BY <3>1, <3>2, <3>4 DEF AskInv
    <2>3. CASE /\ inbox[b].kind # "end"
               /\ box'[b].busy = [seq |-> inbox[b].seq, query |-> inbox[b].query]
      <3>1. inbox[b].kind = "turn" /\ Said(inbox[b])
        BY <1>0, <2>1, <2>3, BoxFields DEF Spoken
      <3>2. box'[b].busy.seq = inbox[b].seq /\ box'[b].busy.query = inbox[b].query
        BY <2>3
      <3>3. Said(box[b].busy)'
        BY <2>1, <3>1, <3>2 DEF Said
      <3>4. Spoken'
        BY <1>0, <2>1, <3>3 DEF Spoken, Said
      <3>5. Numbered' /\ Written' /\ AnswerIsOwn' /\ TurnNumbersUnique'
        BY <1>0, <2>1 DEF Numbered, Written, AnswerIsOwn, TurnNumbersUnique
      <3>6. eng.pc \in Waiting => eng.h \in Boxes
        BY <1>0 DEF Flow, Holding, Waiting
      <3>7. Answered'
        BY <1>0, <2>1, <3>1, <3>2, <3>6 DEF Answered
      <3>8. QED
        BY <3>4, <3>5, <3>7 DEF AskInv
    <2>4. QED
      BY <1>0, <1>20, <2>2, <2>3, TakeSays
  <1>21. ASSUME NEW b \in Boxes, Answer(b) PROVE AskInv'
    <2>1. /\ UNCHANGED <<row, eng, inbox, turns>> /\ box[b].busy # NoReply
          /\ outbox'[b] = box[b].busy /\ box'[b].busy = NoReply
          /\ \A c \in Boxes \ {b} : box'[c] = box[c] /\ outbox'[c] = outbox[c]
      BY <1>0, <1>21, AnswerSays
    <2>2. Said(box[b].busy)
      BY <1>0, <2>1 DEF Spoken
    <2>3. Spoken'
      BY <1>0, <2>1, <2>2 DEF Spoken, Said
    <2>4. Numbered' /\ Written' /\ AnswerIsOwn' /\ TurnNumbersUnique'
      BY <1>0, <2>1 DEF Numbered, Written, AnswerIsOwn, TurnNumbersUnique
    <2>5. eng.pc \in Waiting => eng.h \in Boxes
      BY <1>0 DEF Flow, Holding, Waiting
    <2>6. "conclude" \in Waiting /\ box[b].busy.seq # 0
      BY <2>2 DEF Waiting, Said
    <2>7. Answered'
      BY <1>0, <2>1, <2>5, <2>6 DEF Answered, NoReply
    <2>8. QED
      BY <2>3, <2>4, <2>7 DEF AskInv
  <1>22. ASSUME NEW b \in Boxes, Exit(b) PROVE AskInv'
    <2>1. Hushed /\ row'.turn = row.turn /\ turns' = turns
      BY <1>0, <1>22, ExitSays DEF Hushed, Shrinks, Stops, RowGoes
    <2>2. eng'.pc \notin Asking \/ Holds
      BY <1>0, <1>22, <1>r, ExitSays
    <2>3. QED
      BY <1>0, <2>1, <2>2, Hearing
  <1>23. CASE Platform
    <2>1. Hushed /\ row'.turn = row.turn /\ turns' = turns
      BY <1>0, <1>23, PlatformSays DEF Hushed, Shrinks, Stops, RowGoes
    <2>2. eng'.pc \notin Asking \/ Holds
      BY <1>0, <1>23, <1>r, PlatformSays
    <2>3. QED
      BY <1>0, <2>1, <2>2, Hearing
  <1>24. CASE GoIdle
    <2>1. Hushed /\ row'.turn = row.turn /\ turns' = turns
      BY <1>0, <1>24, GoIdleSays DEF Hushed, Shrinks, Stops, RowGoes
    <2>2. eng'.pc \notin Asking \/ Holds
      BY <1>0, <1>24, <1>r, GoIdleSays
    <2>3. QED
      BY <1>0, <2>1, <2>2, Hearing
  <1>25. CASE Crash
    <2>1. Hushed /\ row'.turn = row.turn /\ turns' = turns
      BY <1>0, <1>25, CrashSays DEF Hushed, Shrinks, Stops, RowGoes
    <2>2. eng'.pc \notin Asking \/ Holds
      BY <1>0, <1>25, CrashSays DEF Holds, Asking, Waiting, TurnPcs, EndPcs, Goes, Returns
    <2>3. QED
      BY <1>0, <2>1, <2>2, Hearing
  <1>26. CASE Restart
    <2>1. Hushed /\ row'.turn = row.turn /\ turns' = turns
      BY <1>0, <1>26, RestartSays DEF Hushed, Shrinks, Stops, RowGoes
    <2>2. eng'.pc \notin Asking \/ Holds
      BY <1>0, <1>26, RestartSays DEF Holds, Asking, Waiting, TurnPcs, EndPcs, Goes, Returns
    <2>3. QED
      BY <1>0, <2>1, <2>2, Hearing
  <1>27. CASE ReapClaim
    <2>1. Hushed /\ row'.turn = row.turn /\ turns' = turns
      BY <1>0, <1>27, ReapClaimSays DEF Hushed, Shrinks, Stops, RowGoes
    <2>2. eng'.pc \notin Asking \/ Holds
      BY <1>0, <1>27, <1>r, ReapClaimSays
    <2>3. QED
      BY <1>0, <2>1, <2>2, Hearing
  <1>40. QED
    BY <1>1, <1>2, <1>3, <1>4, <1>5, <1>6, <1>7, <1>8, <1>9, <1>10, <1>11, <1>12, <1>13, <1>14, <1>15, <1>16, <1>17, <1>18, <1>19, <1>20, <1>21, <1>22, <1>23, <1>24, <1>25, <1>26, <1>27
       DEF Next, Engine, Turn, End, Reap, Agent

\* A turn whose token is worked off, or about to be, is on record, unless the run
\* is over or asked to be.
Worked(i)  == queue[i].state = "done" \/ (eng.pc = "finish" /\ i = eng.item)
Settled(i) == run.state \in Terminal \/ stop # "none" \/ \E t \in turns : t.item = i
Recorded   == \A i \in Items : queue[i].kind = "turn" /\ Worked(i) => Settled(i)

\* A dispatch that asked returns to a queue and a transcript that grew by its turn.
LEMMA Returning ==
    ASSUME TypeInv, Recorded, eng.pc \in Asking, Returns, UNCHANGED <<queue, stop>>,
           NEW answer, turns' = turns \cup {Record(answer)}
    PROVE  Recorded'
  <1>1. /\ run.state \in Terminal => stop # "none"
        /\ eng'.item = eng.item /\ eng.pc # "finish"
    BY DEF TypeInv, Flow, Asked, Asking, TurnPcs, Terminal, Returns
  <1>2. Record(answer) \in turns' /\ Record(answer).item = eng.item
    BY DEF Record
  <1>3. \A i \in Items : Settled(i) => Settled(i)'
    BY <1>1 DEF Settled
  <1>4. Settled(eng.item)'
    BY <1>1, <1>2 DEF Settled
  <1>5. QED
    BY <1>1, <1>3, <1>4 DEF Recorded, Worked

LEMMA RecordNext == ASSUME TypeInv, Recorded, Next PROVE Recorded'
  <1> USE DEF Recorded, Worked, Settled, Flow, Asked, Driving, Goes, RunGoes, Adds, Asking,
              Closing, TurnPcs, EndPcs, Terminal
  <1>0. TypeOK /\ Flow /\ Asked /\ TypeInv /\ Recorded /\ eng.item \in Items
    BY EngFields DEF TypeInv
  <1>1. CASE Claim
    <2>1. /\ eng'.item \in Items /\ queue'[eng'.item].state = "claimed" /\ eng.pc = "idle"
          /\ eng'.pc = "finish" => run.state \in Terminal \/ queue'[eng'.item].kind # "turn"
          /\ \A j \in Items : queue'[j].kind = queue[j].kind
          /\ \A j \in Items : j # eng'.item => queue'[j] = queue[j]
          /\ UNCHANGED <<stop, turns>>
      BY <1>0, <1>1, ClaimSays, ClaimWay
    <2>2. run.state \in Terminal => run'.state \in Terminal
      BY <1>0, <1>1, ClaimWay DEF Terminal
    <2>3. QED
      BY <1>0, <2>1, <2>2 DEF Recorded, Worked, Settled
  <1>2. CASE CommitTurn
    BY <1>0, <1>2, CommitTurnSays
  <1>3. CASE ResolveTurn
    BY <1>0, <1>3, ResolveTurnSays
  <1>4. CASE LaunchSession
    <2>1. eng.pc = "launch" /\ UNCHANGED <<queue, stop>>
      BY <1>0, <1>4, LaunchSessionSays
    <2>2. CASE RunGoes("paused", "active") /\ Returns /\ turns' = turns \cup {Record(0)}
      BY <1>0, <2>1, <2>2, Returning DEF Asking, TurnPcs
    <2>3. CASE Goes("commit", eng.seq, eng.h, eng.result) /\ UNCHANGED <<run, turns>>
      BY <1>0, <2>1, <2>3 DEF Recorded, Worked, Settled, Goes
    <2>4. QED
      BY <1>0, <1>4, <2>2, <2>3, LaunchSessionSays
  <1>5. CASE CommitSession
    BY <1>0, <1>5, CommitSessionSays
  <1>6. CASE WriteInbox
    BY <1>0, <1>6, WriteInboxSays
  <1>7. CASE AwaitReply
    BY <1>0, <1>7, AwaitReplySays
  <1>8. CASE ConcludeTurn
    <2>1. eng.pc = "conclude" /\ Returns /\ UNCHANGED <<queue, stop>>
      BY <1>8, ConcludeTurnSays
    <2>2. CASE stop # "none"
      BY <2>1, <2>2 DEF Recorded, Settled
    <2>3. ASSUME NEW answer, RunGoes("paused", "active"), turns' = turns \cup {Record(answer)}
          PROVE  Recorded'
      BY <1>0, <2>1, <2>3, Returning DEF Asking, TurnPcs
    <2>4. QED
      BY <1>0, <1>8, <2>2, <2>3, ConcludeTurnSays DEF Asked
  <1>9. CASE CommitEnd
    BY <1>0, <1>9, CommitEndSays
  <1>10. CASE ResolveEnd
    BY <1>0, <1>10, ResolveEndSays
  <1>11. CASE WriteEnd
    BY <1>0, <1>11, WriteEndSays
  <1>12. CASE AwaitExit
    BY <1>0, <1>12, AwaitExitSays
  <1>13. CASE ConcludeEnd
    <2>1. /\ eng.pc = "endfinal" /\ Returns /\ UNCHANGED <<queue, stop, turns>>
          /\ queue[eng.item].kind = "end"
      BY <1>0, <1>13, ConcludeEndSays DEF Flow, EndPcs
    <2>2. run'.state = run.state \/ run.state \notin Terminal \/ run.state = "cancelled"
      BY <1>0, <1>13, ConcludeEndSays DEF Flow, Closing, EndPcs, Terminal
    <2>3. QED
      BY <1>0, <2>1, <2>2 DEF Recorded, Worked, Settled, Returns, Asked
  <1>14. CASE Finish
    <2>1. eng.pc = "finish" /\ eng'.pc = "idle" /\ UNCHANGED <<run, stop, turns>>
      BY <1>0, <1>14, FinishSays
    <2>2. /\ \A j \in Items : queue'[j].kind = queue[j].kind
          /\ \A j \in Items \ {eng.item} : queue'[j] = queue[j]
      BY <1>0, <1>14, FinishSays
    <2>3. QED
      BY <1>0, <2>1, <2>2 DEF Recorded, Worked, Settled
  <1>15. CASE StartReap
    BY <1>0, <1>15, StartReapSays
  <1>16. CASE LoadReap \/ MarkReap \/ ResolveReap \/ WriteReap \/ CheckReap \/ PollReap
    BY <1>0, <1>16, ReaperSays
  <1>17. CASE FinishReap
    BY <1>0, <1>17, FinishReapSays
  <1>18. CASE HandleStop
    BY <1>0, <1>18, HandleStopSays DEF Recorded, Settled
  <1>19. CASE RecordStop
    BY <1>0, <1>19, RecordStopSays DEF Recorded, Settled
  <1>20. ASSUME NEW b \in Boxes, Take(b) PROVE Recorded'
    <2>1. UNCHANGED <<run, queue, eng, stop, turns>>
      BY <1>0, <1>20, TakeSays
    <2>2. QED
      BY <1>0, <2>1
  <1>21. ASSUME NEW b \in Boxes, Answer(b) PROVE Recorded'
    <2>1. UNCHANGED <<run, queue, eng, stop, turns>>
      BY <1>0, <1>21, AnswerSays
    <2>2. QED
      BY <1>0, <2>1
  <1>22. ASSUME NEW b \in Boxes, Exit(b) PROVE Recorded'
    <2>1. UNCHANGED <<run, queue, eng, stop, turns>>
      BY <1>0, <1>22, ExitSays
    <2>2. QED
      BY <1>0, <2>1
  <1>23. CASE Platform
    BY <1>0, <1>23, PlatformSays
  <1>24. CASE GoIdle
    BY <1>0, <1>24, GoIdleSays
  <1>25. CASE Crash
    BY <1>0, <1>25, CrashSays
  <1>26. CASE Restart
    BY <1>0, <1>26, RestartSays
  <1>27. CASE ReapClaim
    BY <1>0, <1>27, ReapClaimSays
  <1>40. QED
    BY <1>1, <1>2, <1>3, <1>4, <1>5, <1>6, <1>7, <1>8, <1>9, <1>10, <1>11, <1>12, <1>13, <1>14, <1>15, <1>16, <1>17, <1>18, <1>19, <1>20, <1>21, <1>22, <1>23, <1>24, <1>25, <1>26, <1>27
       DEF Next, Engine, Turn, End, Reap, Agent


LEMMA TranscriptStep == TypeInv /\ AskInv /\ Recorded /\ [Next]_vars => AskInv' /\ Recorded'
  <1> SUFFICES ASSUME TypeInv, AskInv, Recorded, [Next]_vars PROVE AskInv' /\ Recorded'
    OBVIOUS
  <1>1. CASE UNCHANGED vars
    BY <1>1 DEF vars, AskInv, Numbered, Spoken, Said, Answered, Written, AnswerIsOwn,
                TurnNumbersUnique, Recorded, Worked, Settled
  <1>2. QED
    BY <1>1, AskNext, RecordNext

\* The transcript is what was said: every turn that was worked off is in it once, with
\* its own answer.
THEOREM TranscriptIsTrue == Spec => []TranscriptTrue
  <1>1. Init => AskInv /\ Recorded
    <2> SUFFICES ASSUME Init PROVE AskInv /\ Recorded
      OBVIOUS
    <2>1. eng.pc = "idle" /\ "idle" \notin Asking \cup Waiting
      BY DispatcherType DEF Init, Asking, Waiting, TurnPcs
    <2>2. NoMessage.kind = "none" /\ NoMessage.seq = 0
      BY DEF NoMessage
    <2>3. Spoken
      BY <2>2, GoneType DEF Init, Spoken
    <2>4. AskInv
      BY <2>1, <2>3 DEF Init, AskInv, Numbered, Answered, Written, AnswerIsOwn,
                        TurnNumbersUnique, Waiting
    <2>5. \A i \in Items : queue[i].kind = "start"
      BY DEF Init
    <2>6. QED
      BY <2>4, <2>5 DEF Recorded
  <1>2. AskInv /\ Recorded => TranscriptTrue
    BY DEF AskInv, Recorded, Worked, Settled, TranscriptTrue, TurnRecorded
  <1>3. QED
    BY TypeInit, TypeStep, TranscriptStep, <1>1, <1>2, PTL DEF Spec
=============================================================================
