-------------------------- MODULE Platform_proofs --------------------------
(***************************************************************************)
(* What holds of Platform for any users, projects and tables, any number   *)
(* of requests in flight, and any settled start.                           *)
(*                                                                         *)
(* Every commit is described by what it may do to each table (Moves); the  *)
(* invariants of the rows, and what the requests in flight rely on, follow *)
(* from that and from the constraints the database checks.                 *)
(***************************************************************************)
EXTENDS Platform, FiniteSetTheorems, FunctionTheorems, TLAPS

-----------------------------------------------------------------------------
Fields == {"users", "roster", "projects", "categories", "skills", "workflows",
           "policies", "integrations", "variables", "runs"}
Marks  == {"behind", "torn", "loose", "gone", "duel"}
Ops    == {"arrive", "role", "enable", "member", "publish", "store", "init"}

-----------------------------------------------------------------------------
(* The rows, beyond their types. *)

\* Whose texts a skill holds, and has its stamp promise.
OwnText(row) ==
    /\ row.text[1] \in {row.scope, Platform}
    /\ row.stamp # None => row.stamp.sha.text[1] \in {row.scope, Platform}

\* A row refers to the one place its secret has.
IntegrationAt(row) == row.ref \in {None, IntegrationRef(row.project, row.kind)}
VariableAt(row) == row.ref = IF row.secret THEN env_var_ref(row.scope, row.name) ELSE None

Texts(d)     == \A k \in Live(d.skills) : OwnText(d.skills[k])
Policied(d)  == \A q \in Live(d.policies) :
    d.policies[q].scope \in {Platform, d.workflows[d.policies[q].workflow].scope}
Addressed(d) ==
    /\ \A i \in Live(d.integrations) : IntegrationAt(d.integrations[i])
    /\ \A e \in Live(d.variables) : VariableAt(d.variables[e])
Unpinned(d)  == \A n \in Live(d.runs) : d.runs[n].state = "pending" => d.runs[n].pins = NoPins

Sane(d) == Typed(d) /\ Sound(d) /\ Texts(d) /\ Policied(d) /\ Addressed(d) /\ Unpinned(d) /\ OwnParts(d)

-----------------------------------------------------------------------------
(* The requests in flight: what each carries, and how it agrees with the    *)
(* rows it holds as long as they are there.                                 *)

IntegrationJob(j) == j.table = "integrations" /\ j.id \in Integration
                     /\ j.row \in Maybe(IntegrationRow) /\ (j.row # None => IntegrationAt(j.row))
VariableJob(j)    == j.table = "variables" /\ j.id \in Variable
                     /\ j.row \in Maybe(VariableRow) /\ (j.row # None => VariableAt(j.row))

Carries(j) ==
    /\ j.op \in Ops
    /\ j.op \in {"arrive", "role"} => j.user \in User /\ j.role \in {"ADMIN", "USER"}
    /\ j.op = "enable" => j.user \in User /\ j.on \in BOOLEAN
    /\ j.op = "member" => j.user \in User /\ j.project \in Project /\ j.role \in Maybe(Role)
    /\ j.op = "publish" =>
         /\ DOMAIN j = {"op", "rows", "skill", "stamp"} /\ j.rows = {j.skill}
         /\ j.skill \in Skill /\ j.stamp \in Maybe(Stamps)
    /\ j.op = "store" =>
         /\ j.rows = {j.id} /\ j.new \in BOOLEAN /\ j.refs \subseteq Ref
         /\ IntegrationJob(j) \/ VariableJob(j)
    /\ j.op = "init" =>
         /\ j.run \in Run /\ j.heals \subseteq Skill /\ j.rows = j.heals \cup {j.run}
         /\ j.skill_bundle \in [SkillName -> Maybe(Stamps)] /\ j.healed \in [j.heals -> Stamps]

Agrees(j, d) ==
    /\ j.op \in {"role", "enable"} => d.users[j.user] # None
    /\ j.op = "publish" /\ d.skills[j.skill] # None /\ j.stamp # None =>
         j.stamp.sha.text[1] \in {d.skills[j.skill].scope, Platform}
    /\ j.op = "init" =>
         /\ \A k \in j.heals : d.skills[k] # None =>
               j.healed[k].sha.text[1] \in {d.skills[k].scope, Platform}
         /\ d.runs[j.run] # None => \A s \in SkillName : j.skill_bundle[s] # None =>
               j.skill_bundle[s].sha.text[1] \in {d.runs[j.run].project, Platform}
    /\ j.op = "store" /\ j.table = "integrations" =>
         /\ j.new => d.integrations[j.id] = None /\ j.row # None
         /\ j.row # None /\ d.integrations[j.id] # None =>
              j.row.project = d.integrations[j.id].project /\ j.row.kind = d.integrations[j.id].kind
    /\ j.op = "store" /\ j.table = "variables" =>
         /\ j.new => d.variables[j.id] = None /\ j.row # None
         /\ j.row # None /\ d.variables[j.id] # None =>
              j.row.scope = d.variables[j.id].scope

\* A row that is about to be made is nobody else's business.
OnRow(j, table, i) == j # Idle /\ j.op = "store" /\ j.table = table /\ j.id = i
Apart == \A r, s \in Request :
    /\ r # s /\ req[r] # Idle /\ req[r].op = "store" /\ req[r].new
    => ~OnRow(req[s], req[r].table, req[r].id)

Requests ==
    /\ DOMAIN req = Request /\ Apart
    /\ \A r \in Request : req[r] # Idle => Carries(req[r]) /\ Agrees(req[r], db)

Stores ==
    /\ DOMAIN objects \subseteq SkillName \X Bundle /\ vault \subseteq Ref /\ DOMAIN marks = Marks

Inv == Sane(db) /\ Requests /\ Stores

-----------------------------------------------------------------------------
(* Free rows. *)

LEMMA FreeRow ==
    ASSUME NEW t, Room(t, 1)
    PROVE  NewId(t) \in DOMAIN t /\ t[NewId(t)] = None /\ NewId(t) \notin Held
  <1>1. Free(t) # {}
    BY FS_EmptySet DEF Room
  <1>2. NewId(t) \in Free(t)
    BY <1>1 DEF NewId
  <1>3. QED
    BY <1>2 DEF Free, Live

\* Where there is room, AddAll has a row of its own for every member.
LEMMA Seats ==
    ASSUME NEW t, NEW S, IsFiniteSet(S), IsFiniteSet(DOMAIN t), Room(t, Cardinality(S))
    PROVE  (CHOOSE f \in Injection(S, Free(t)) : TRUE) \in [S -> Free(t)]
  <1> DEFINE m == Cardinality(S)
             n == Cardinality(Free(t))
  <1>1. IsFiniteSet(Free(t))
    BY FS_Subset DEF Free
  <1>2. m \in Nat /\ n \in Nat /\ m <= n
    BY <1>1, FS_CardinalityType DEF Room
  <1>3. ExistsBijection(1..m, S) /\ ExistsBijection(1..n, Free(t))
    BY <1>1, FS_CardinalityType
  <1>4. ExistsInjection(S, 1..m)
    BY <1>3, Fun_ExistsBijSymmetric DEF ExistsBijection, ExistsInjection, Bijection
  <1>5. ExistsInjection(1..n, Free(t))
    BY <1>3 DEF ExistsBijection, ExistsInjection, Bijection
  <1>6. ExistsInjection(1..m, 1..n)
    BY <1>2, Fun_NatInjLeq
  <1>7. ExistsInjection(S, Free(t))
    BY <1>4, <1>5, <1>6, Fun_ExistsInjTransitive
  <1>8. QED
    BY <1>7 DEF ExistsInjection, Injection

-----------------------------------------------------------------------------
(* What a commit may do to the tables. *)

\* No request that goes on is at work on row i.
Unclaimed(table, i) == \A r \in Request : ~OnRow(req'[r], table, i)

UsersMove(d) == \A u \in User : db.users[u] # None => d.users[u] # None

SkillsMove(d) == \A k \in Skill : d.skills[k] # None =>
    /\ OwnText(d.skills[k])
    /\ IF db.skills[k] = None THEN k \notin Held ELSE d.skills[k].scope = db.skills[k].scope

WorkflowsMove(d) == \A w \in Workflow :
    d.workflows[w] # None /\ db.workflows[w] # None =>
        d.workflows[w].scope = db.workflows[w].scope

PoliciesMove(d) == \A q \in Policy : d.policies[q] # None =>
    IF db.policies[q] = None
    THEN d.policies[q].scope \in {Platform, d.workflows[d.policies[q].workflow].scope}
    ELSE /\ d.policies[q].scope = db.policies[q].scope
         /\ d.policies[q].workflow = db.policies[q].workflow

IntegrationsMove(d) == \A i \in Integration : d.integrations[i] # None =>
    /\ IntegrationAt(d.integrations[i])
    /\ IF db.integrations[i] = None THEN Unclaimed("integrations", i)
       ELSE /\ d.integrations[i].project = db.integrations[i].project
            /\ d.integrations[i].kind = db.integrations[i].kind

VariablesMove(d) == \A e \in Variable : d.variables[e] # None =>
    /\ VariableAt(d.variables[e])
    /\ IF db.variables[e] = None THEN Unclaimed("variables", e)
       ELSE d.variables[e].scope = db.variables[e].scope

NewRun(d, row) ==
    /\ d.workflows[row.workflow].scope = row.project
    /\ d.policies[row.policy].workflow = row.workflow
    /\ \A kind \in Kind : row.uses[kind] # None =>
          d.integrations[row.uses[kind]].project = row.project
    /\ row.pins = NoPins

SameRun(old, new) ==
    /\ new.project = old.project /\ new.workflow = old.workflow /\ new.policy = old.policy
    /\ \A kind \in Kind : new.uses[kind] \in {None, old.uses[kind]}
    /\ \/ new.pins = old.pins
       \/ /\ old.state = "pending"
          /\ \A s \in SkillName : new.pins[s] # None =>
                new.pins[s].sha.text[1] \in {old.project, Platform}
    /\ new.state = "pending" => old.state = "pending" /\ new.pins = old.pins

RunsMove(d) == \A n \in Run : d.runs[n] # None =>
    IF db.runs[n] = None THEN n \notin Held /\ NewRun(d, d.runs[n])
    ELSE SameRun(db.runs[n], d.runs[n])

Moves(d) ==
    /\ Typed(d) /\ UsersMove(d) /\ SkillsMove(d) /\ WorkflowsMove(d) /\ PoliciesMove(d)
    /\ IntegrationsMove(d) /\ VariablesMove(d) /\ RunsMove(d)

LEMMA PolicyOwner ==
    ASSUME Sane(db), NEW d, Sound(d), Moves(d), NEW q \in Live(d.policies)
    PROVE  d.policies[q].scope \in {Platform, d.workflows[d.policies[q].workflow].scope}
  <1> DEFINE w == d.policies[q].workflow
  <1>1. q \in Policy /\ d.policies[q] # None /\ w \in Workflow
    BY DEF Live, Moves, Typed, PolicyRow, Maybe
  <1>2. d.workflows[w] # None
    BY DEF Sound, PoliciesSound
  <1>3. CASE db.policies[q] = None
    BY <1>1, <1>3 DEF Moves, PoliciesMove
  <1>4. CASE db.policies[q] # None
    <2>1. q \in Live(db.policies)
      BY <1>1, <1>4 DEF Live, Sane, Typed
    <2>2. /\ d.policies[q].scope = db.policies[q].scope
          /\ w = db.policies[q].workflow
      BY <1>1, <1>4 DEF Moves, PoliciesMove
    <2>3. db.workflows[w] # None
      BY <2>1, <2>2 DEF Sane, Sound, PoliciesSound
    <2>4. d.workflows[w].scope = db.workflows[w].scope
      BY <1>1, <1>2, <2>3 DEF Moves, WorkflowsMove
    <2>5. QED
      BY <2>1, <2>2, <2>4 DEF Sane, Policied
  <1>5. QED
    BY <1>3, <1>4

LEMMA RunKeeps ==
    ASSUME Sane(db), NEW d, Sound(d), Moves(d), Policied(d), NEW n \in Live(d.runs)
    PROVE  LET run == d.runs[n]
               ours == {run.project, Platform}
           IN /\ d.workflows[run.workflow].scope = run.project
              /\ d.policies[run.policy].workflow = run.workflow
              /\ d.policies[run.policy].scope \in ours
              /\ \A kind \in Kind : run.uses[kind] # None =>
                    d.integrations[run.uses[kind]].project = run.project
              /\ \A s \in SkillName : run.pins[s] # None => run.pins[s].sha.text[1] \in ours
              /\ run.state = "pending" => run.pins = NoPins
  <1> DEFINE run == d.runs[n]
             old == db.runs[n]
  <1>1. /\ n \in Run /\ run # None /\ run.workflow \in Workflow /\ run.policy \in Policy
        /\ run.uses \in [Kind -> Maybe(Integration)]
    BY DEF Live, Moves, Typed, RunRow, Maybe
  <1>2. /\ d.workflows[run.workflow] # None /\ d.policies[run.policy] # None
        /\ \A kind \in Kind : run.uses[kind] # None => d.integrations[run.uses[kind]] # None
    BY DEF Sound, RunsSound
  <1>3. run.policy \in Live(d.policies)
    BY <1>1, <1>2 DEF Live, Moves, Typed
  <1>4. CASE old = None
    <2>1. NewRun(d, run)
      BY <1>1, <1>4 DEF Moves, RunsMove
    <2>2. QED
      BY <1>3, <2>1 DEF NewRun, NoPins, Policied
  <1>5. CASE old # None
    <2>1. n \in Live(db.runs)
      BY <1>1, <1>5 DEF Live, Sane, Typed
    <2>2. SameRun(old, run)
      BY <1>1, <1>5 DEF Moves, RunsMove
    <2>3. /\ db.workflows[run.workflow] # None /\ db.policies[run.policy] # None
          /\ \A kind \in Kind : run.uses[kind] # None => db.integrations[run.uses[kind]] # None
      BY <2>1, <2>2 DEF Sane, Sound, RunsSound, SameRun
    <2>4. /\ d.workflows[run.workflow].scope = db.workflows[run.workflow].scope
          /\ d.policies[run.policy].workflow = db.policies[run.policy].workflow
      BY <1>1, <1>2, <2>3 DEF Moves, WorkflowsMove, PoliciesMove
    <2>5. ASSUME NEW kind \in Kind, run.uses[kind] # None
          PROVE  d.integrations[run.uses[kind]].project = db.integrations[run.uses[kind]].project
      <3>1. run.uses[kind] \in Integration
        BY <1>1, <2>5 DEF Maybe
      <3>2. QED
        BY <1>2, <2>3, <2>5, <3>1 DEF Moves, IntegrationsMove
    <2>6. /\ db.workflows[old.workflow].scope = old.project
          /\ db.policies[old.policy].workflow = old.workflow
          /\ \A kind \in Kind : old.uses[kind] # None =>
                db.integrations[old.uses[kind]].project = old.project
          /\ \A s \in SkillName : old.pins[s] # None =>
                old.pins[s].sha.text[1] \in {old.project, Platform}
          /\ old.state = "pending" => old.pins = NoPins
      BY <2>1 DEF Sane, OwnParts, Unpinned
    <2>7. d.workflows[run.workflow].scope = run.project /\ d.policies[run.policy].workflow = run.workflow
      BY <2>2, <2>4, <2>6 DEF SameRun
    <2>8. d.policies[run.policy].scope \in {run.project, Platform}
      BY <1>3, <2>7 DEF Policied
    <2>9. \A kind \in Kind : run.uses[kind] # None =>
             d.integrations[run.uses[kind]].project = run.project
      BY <2>2, <2>5, <2>6 DEF SameRun
    <2>10. QED
      BY <2>2, <2>6, <2>7, <2>8, <2>9 DEF SameRun
  <1>6. QED
    BY <1>4, <1>5

\* Moves that the database's constraints admit keep the rows as they should be.
LEMMA MovesKeep ==
    ASSUME Sane(db), NEW d, Sound(d), Moves(d)
    PROVE  Sane(d)
  <1>1. Policied(d)
    BY PolicyOwner DEF Policied
  <1>2. Texts(d)
    BY DEF Texts, Moves, SkillsMove, Typed, Live
  <1>3. Addressed(d)
    BY DEF Addressed, Moves, IntegrationsMove, VariablesMove, Typed, Live
  <1>4. OwnParts(d) /\ Unpinned(d)
    BY <1>1, RunKeeps DEF OwnParts, Unpinned
  <1>5. QED
    BY <1>1, <1>2, <1>3, <1>4 DEF Sane, Moves

\* A request that goes on still agrees with the rows it holds.
LEMMA JobKeeps ==
    ASSUME Inv, NEW d, Moves(d), NEW r \in Request, req[r] # Idle, req'[r] = req[r]
    PROVE  Agrees(req[r], d)
  <1> DEFINE j == req[r]
  <1>1. Carries(j) /\ Agrees(j, db)
    BY DEF Inv, Requests
  <1>2. j.rows \subseteq Held
    BY DEF Held
  <1>3. ASSUME j.op = "publish", d.skills[j.skill] # None, j.stamp # None
        PROVE  j.stamp.sha.text[1] \in {d.skills[j.skill].scope, Platform}
    <2>1. j.skill \in Skill /\ j.skill \in Held
      BY <1>1, <1>2, <1>3 DEF Carries
    <2>2. db.skills[j.skill] # None /\ d.skills[j.skill].scope = db.skills[j.skill].scope
      BY <1>3, <2>1 DEF Moves, SkillsMove
    <2>3. QED
      BY <1>1, <1>3, <2>2 DEF Agrees
  <1>4. ASSUME j.op = "init", NEW k \in j.heals, d.skills[k] # None
        PROVE  j.healed[k].sha.text[1] \in {d.skills[k].scope, Platform}
    <2>1. k \in Skill /\ k \in Held
      BY <1>1, <1>2, <1>4 DEF Carries
    <2>2. db.skills[k] # None /\ d.skills[k].scope = db.skills[k].scope
      BY <1>4, <2>1 DEF Moves, SkillsMove
    <2>3. QED
      BY <1>1, <1>4, <2>2 DEF Agrees
  <1>5. ASSUME j.op = "init", d.runs[j.run] # None, NEW s \in SkillName, j.skill_bundle[s] # None
        PROVE  j.skill_bundle[s].sha.text[1] \in {d.runs[j.run].project, Platform}
    <2>1. j.run \in Run /\ j.run \in Held
      BY <1>1, <1>2, <1>5 DEF Carries
    <2>2. db.runs[j.run] # None /\ d.runs[j.run].project = db.runs[j.run].project
      BY <1>5, <2>1 DEF Moves, RunsMove, SameRun
    <2>3. QED
      BY <1>1, <1>5, <2>2 DEF Agrees
  <1>6. ASSUME j.op = "store", j.table = "integrations"
        PROVE  /\ j.new => d.integrations[j.id] = None /\ j.row # None
               /\ j.row # None /\ d.integrations[j.id] # None =>
                    /\ j.row.project = d.integrations[j.id].project
                    /\ j.row.kind = d.integrations[j.id].kind
    <2>1. j.id \in Integration /\ OnRow(req'[r], "integrations", j.id)
      BY <1>1, <1>6 DEF Carries, IntegrationJob, VariableJob, OnRow
    <2>2. d.integrations[j.id] # None =>
             /\ db.integrations[j.id] # None
             /\ d.integrations[j.id].project = db.integrations[j.id].project
             /\ d.integrations[j.id].kind = db.integrations[j.id].kind
      BY <2>1 DEF Moves, IntegrationsMove, Unclaimed
    <2>3. QED
      BY <1>1, <1>6, <2>2 DEF Agrees
  <1>7. ASSUME j.op = "store", j.table = "variables"
        PROVE  /\ j.new => d.variables[j.id] = None /\ j.row # None
               /\ j.row # None /\ d.variables[j.id] # None =>
                    j.row.scope = d.variables[j.id].scope
    <2>1. j.id \in Variable /\ OnRow(req'[r], "variables", j.id)
      BY <1>1, <1>7 DEF Carries, IntegrationJob, VariableJob, OnRow
    <2>2. d.variables[j.id] # None =>
             db.variables[j.id] # None /\ d.variables[j.id].scope = db.variables[j.id].scope
      BY <2>1 DEF Moves, VariablesMove, Unclaimed
    <2>3. QED
      BY <1>1, <1>7, <2>2 DEF Agrees
  <1>8. j.op \in {"role", "enable"} => d.users[j.user] # None
    BY <1>1 DEF Carries, Agrees, Moves, UsersMove
  <1>9. QED
    BY <1>3, <1>4, <1>5, <1>6, <1>7, <1>8 DEF Agrees

-----------------------------------------------------------------------------
(* The steps of a request. *)

\* What every step does.
Kept == Inv' /\ (db' = db \/ Moves(db'))

\* A step that commits moves, and lets the other requests be, keeps the invariant.
LEMMA InvStep ==
    ASSUME Inv, Stores', DOMAIN req' = Request, Apart',
           db' = db \/ (Sound(db') /\ Moves(db')),
           \A r \in Request : req'[r] # Idle =>
               req'[r] = req[r] \/ (Carries(req'[r]) /\ Agrees(req'[r], db'))
    PROVE  Kept
  <1>1. Sane(db')
    BY MovesKeep DEF Inv
  <1>2. ASSUME NEW r \in Request, req'[r] # Idle
        PROVE  Carries(req'[r]) /\ Agrees(req'[r], db')
    <2>1. CASE db' = db
      BY <1>2, <2>1 DEF Inv, Requests
    <2>2. CASE Moves(db') /\ req'[r] = req[r]
      BY <1>2, <2>2, JobKeeps DEF Inv, Requests
    <2>3. QED
      BY <1>2, <2>1, <2>2
  <1>3. QED
    BY <1>1, <1>2 DEF Inv, Requests, Kept

LEMMA CommitKeeps ==
    ASSUME Inv, Stores', NEW area, NEW d, Commit(area, d), Moves(d)
    PROVE  Kept
  <1>1. db' = d /\ req' = req /\ Sound(d)
    BY DEF Commit
  <1>2. Apart' /\ DOMAIN req' = Request
    BY <1>1 DEF Inv, Requests, Apart
  <1>3. QED
    BY <1>1, <1>2, InvStep

LEMMA FinishKeeps ==
    ASSUME Inv, Stores', NEW r \in Request, NEW d, Finish(r, d), Moves(d)
    PROVE  Kept
  <1>1. db' = db \/ (db' = d /\ Sound(d))
    BY DEF Finish
  <1>2. req' = [req EXCEPT ![r] = Idle]
    BY DEF Finish, Close
  <1>3. DOMAIN req' = Request /\ \A s \in Request : req'[s] # Idle => req'[s] = req[s]
    BY <1>2 DEF Inv, Requests
  <1>4. Apart'
    BY <1>3 DEF Inv, Requests, Apart, OnRow
  <1>5. QED
    BY <1>1, <1>3, <1>4, InvStep

\* A request that is taken up, and holds nothing in the secure storage.
LEMMA OpenKeeps ==
    ASSUME Inv, Stores', NEW r \in Request, NEW area, NEW job, Open(r, area, job),
           job.op # "store", Carries(job), Agrees(job, db'),
           db' = db \/ (Sound(db') /\ Moves(db'))
    PROVE  Kept
  <1>1. req' = [req EXCEPT ![r] = job]
    BY DEF Open
  <1>2. /\ DOMAIN req' = Request /\ req'[r] = job
        /\ \A s \in Request \ {r} : req'[s] = req[s]
    BY <1>1 DEF Inv, Requests
  <1>3. Apart'
    BY <1>2 DEF Inv, Requests, Apart, OnRow
  <1>4. QED
    BY <1>2, <1>3, InvStep

\* Whom the row belongs to that a request is to write.
Heir(table, id, row) ==
    IF db[table][id] = None THEN id \notin Held /\ row # None
    ELSE row # None =>
           /\ table = "integrations" => row.project = db.integrations[id].project
                                        /\ row.kind = db.integrations[id].kind
           /\ table = "variables" => row.scope = db.variables[id].scope

LEMMA StoreKeeps ==
    ASSUME Inv, NEW r \in Request, NEW table, NEW id, NEW row, NEW refs, NEW secrets,
           Store(r, table, id, row, refs, secrets),
           secrets \subseteq Ref, refs \subseteq Ref, Heir(table, id, row),
           \/ /\ table = "integrations" /\ id \in Integration /\ row \in Maybe(IntegrationRow)
              /\ row # None => IntegrationAt(row)
           \/ /\ table = "variables" /\ id \in Variable /\ row \in Maybe(VariableRow)
              /\ row # None => VariableAt(row)
    PROVE  Kept
  <1> DEFINE job == [op |-> "store", rows |-> {id}, table |-> table, id |-> id,
                     new |-> db[table][id] = None, row |-> row, refs |-> refs]
  <1>1. /\ req' = [req EXCEPT ![r] = job] /\ db' = db /\ objects' = objects
        /\ vault' = secrets /\ marks' = Torn(refs) /\ req[r] = Idle
    BY DEF Store, Open
  <1>2. Stores'
    BY <1>1 DEF Inv, Stores, Torn
  <1>3. job.op = "store" /\ job.rows = {id} /\ job.table = table /\ job.id = id
        /\ job.row = row /\ job.refs = refs /\ (job.new <=> db[table][id] = None) /\ job.new \in BOOLEAN
    OBVIOUS
  <1> HIDE DEF job
  <1>4. /\ DOMAIN req' = Request /\ req'[r] = job
        /\ \A s \in Request \ {r} : req'[s] = req[s]
    BY <1>1 DEF Inv, Requests
  <1>5. Carries(job)
    BY <1>3 DEF Carries, IntegrationJob, VariableJob, Ops
  <1>6. Agrees(job, db)
    BY <1>3 DEF Agrees, Heir
  <1>7. ASSUME NEW s \in Request, req[s] # Idle, req[s].op = "store", req[s].table = table,
               req[s].id = id
        PROVE  ~job.new /\ ~req[s].new
    <2>1. id \in Held
      BY <1>7 DEF Held, Inv, Requests, Carries
    <2>2. db[table][id] # None
      BY <2>1 DEF Heir
    <2>3. QED
      BY <1>3, <1>7, <2>2 DEF Inv, Requests, Agrees
  <1>8. Apart'
    <2> SUFFICES ASSUME NEW s \in Request, NEW t \in Request, s # t, req'[s] # Idle,
                        req'[s].op = "store", req'[s].new, 
                        OnRow(req'[t], req'[s].table, req'[s].id)
                 PROVE  FALSE
      BY DEF Apart
    <2>1. CASE s = r
      BY <1>3, <1>4, <1>7, <2>1 DEF OnRow
    <2>2. CASE t = r
      BY <1>3, <1>4, <1>7, <2>2 DEF OnRow
    <2>3. CASE s # r /\ t # r
      BY <1>4, <2>3 DEF Inv, Requests, Apart
    <2>4. QED
      BY <2>1, <2>2, <2>3
  <1>9. QED
    BY <1>1, <1>2, <1>4, <1>5, <1>6, <1>8, InvStep

-----------------------------------------------------------------------------
(* Commits that touch few tables. *)

LEMMA StillMoves ==
    ASSUME Inv, NEW d
    PROVE  /\ d.users = db.users => UsersMove(d)
           /\ d.skills = db.skills => SkillsMove(d)
           /\ d.workflows = db.workflows => WorkflowsMove(d)
           /\ d.policies = db.policies => PoliciesMove(d)
           /\ d.integrations = db.integrations => IntegrationsMove(d)
           /\ d.variables = db.variables => VariablesMove(d)
           /\ d.runs = db.runs => RunsMove(d)
  <1>1. Sane(db)
    BY DEF Inv
  <1>2. d.users = db.users => UsersMove(d)
    BY DEF UsersMove
  <1>3. d.skills = db.skills => SkillsMove(d)
    BY <1>1 DEF SkillsMove, Sane, Texts, Live, Typed
  <1>4. d.workflows = db.workflows => WorkflowsMove(d)
    BY DEF WorkflowsMove
  <1>5. d.policies = db.policies => PoliciesMove(d)
    BY DEF PoliciesMove
  <1>6. d.integrations = db.integrations => IntegrationsMove(d)
    BY <1>1 DEF IntegrationsMove, Sane, Addressed, Live, Typed
  <1>7. d.variables = db.variables => VariablesMove(d)
    BY <1>1 DEF VariablesMove, Sane, Addressed, Live, Typed
  <1>8. d.runs = db.runs => RunsMove(d)
    BY DEF RunsMove, SameRun
  <1>9. QED
    BY <1>2, <1>3, <1>4, <1>5, <1>6, <1>7, <1>8

LEMMA NoMoves == ASSUME Inv PROVE Moves(db)
  BY StillMoves DEF Moves, Inv, Sane

LEMMA MoveUsers ==
    ASSUME Inv, NEW t \in [User -> Maybe(UserRow)],
           \A u \in User : db.users[u] # None => t[u] # None
    PROVE  Moves([db EXCEPT !.users = t])
  <1> DEFINE d == [db EXCEPT !.users = t]
  <1>1. Typed(d)
    BY DEF Inv, Sane, Typed
  <1>2. d.users = t
    BY DEF Inv, Sane, Typed
  <1>3. /\ d.skills = db.skills /\ d.workflows = db.workflows /\ d.policies = db.policies
        /\ d.integrations = db.integrations /\ d.variables = db.variables /\ d.runs = db.runs
    BY DEF Inv, Sane, Typed
  <1> HIDE DEF d
  <1>4. Moves(d)
    BY <1>1, <1>2, <1>3, StillMoves DEF Moves, UsersMove
  <1>5. QED
    BY <1>4 DEF d

\* The other tables, projects, roster and categories, are in no move's way.
LEMMA MoveMembers ==
    ASSUME Inv, NEW d, Typed(d), d.users = db.users, d.skills = db.skills,
           d.workflows = db.workflows, d.policies = db.policies,
           d.integrations = db.integrations, d.variables = db.variables, d.runs = db.runs
    PROVE  Moves(d)
  BY StillMoves DEF Moves

LEMMA MoveSkills ==
    ASSUME Inv, NEW t \in [Skill -> Maybe(SkillRow)],
           \A k \in Skill : t[k] # None =>
               /\ OwnText(t[k])
               /\ IF db.skills[k] = None THEN k \notin Held ELSE t[k].scope = db.skills[k].scope
    PROVE  Moves([db EXCEPT !.skills = t])
  <1> DEFINE d == [db EXCEPT !.skills = t]
  <1>1. Typed(d)
    BY DEF Inv, Sane, Typed
  <1>2. d.skills = t
    BY DEF Inv, Sane, Typed
  <1>3. /\ d.users = db.users /\ d.workflows = db.workflows /\ d.policies = db.policies
        /\ d.integrations = db.integrations /\ d.variables = db.variables /\ d.runs = db.runs
    BY DEF Inv, Sane, Typed
  <1> HIDE DEF d
  <1>4. Moves(d)
    BY <1>1, <1>2, <1>3, StillMoves DEF Moves, SkillsMove
  <1>5. QED
    BY <1>4 DEF d

LEMMA MoveIntegrations ==
    ASSUME Inv, NEW t \in [Integration -> Maybe(IntegrationRow)],
           \A i \in Integration : t[i] # None =>
               /\ IntegrationAt(t[i])
               /\ IF db.integrations[i] = None THEN Unclaimed("integrations", i)
                  ELSE /\ t[i].project = db.integrations[i].project
                       /\ t[i].kind = db.integrations[i].kind
    PROVE  Moves([db EXCEPT !.integrations = t])
  <1> DEFINE d == [db EXCEPT !.integrations = t]
  <1>1. Typed(d)
    BY DEF Inv, Sane, Typed
  <1>2. d.integrations = t
    BY DEF Inv, Sane, Typed
  <1>3. /\ d.users = db.users /\ d.workflows = db.workflows /\ d.policies = db.policies
        /\ d.skills = db.skills /\ d.variables = db.variables /\ d.runs = db.runs
    BY DEF Inv, Sane, Typed
  <1> HIDE DEF d
  <1>4. Moves(d)
    BY <1>1, <1>2, <1>3, StillMoves DEF Moves, IntegrationsMove
  <1>5. QED
    BY <1>4 DEF d

LEMMA MoveVariables ==
    ASSUME Inv, NEW t \in [Variable -> Maybe(VariableRow)],
           \A e \in Variable : t[e] # None =>
               /\ VariableAt(t[e])
               /\ IF db.variables[e] = None THEN Unclaimed("variables", e)
                  ELSE t[e].scope = db.variables[e].scope
    PROVE  Moves([db EXCEPT !.variables = t])
  <1> DEFINE d == [db EXCEPT !.variables = t]
  <1>1. Typed(d)
    BY DEF Inv, Sane, Typed
  <1>2. d.variables = t
    BY DEF Inv, Sane, Typed
  <1>3. /\ d.users = db.users /\ d.workflows = db.workflows /\ d.policies = db.policies
        /\ d.skills = db.skills /\ d.integrations = db.integrations /\ d.runs = db.runs
    BY DEF Inv, Sane, Typed
  <1> HIDE DEF d
  <1>4. Moves(d)
    BY <1>1, <1>2, <1>3, StillMoves DEF Moves, VariablesMove
  <1>5. QED
    BY <1>4 DEF d

LEMMA MoveWorkflows ==
    ASSUME Inv, NEW t \in [Workflow -> Maybe(WorkflowRow)],
           \A w \in Workflow : t[w] # None /\ db.workflows[w] # None =>
               t[w].scope = db.workflows[w].scope
    PROVE  Moves([db EXCEPT !.workflows = t])
  <1> DEFINE d == [db EXCEPT !.workflows = t]
  <1>1. Typed(d)
    BY DEF Inv, Sane, Typed
  <1>2. d.workflows = t
    BY DEF Inv, Sane, Typed
  <1>3. /\ d.users = db.users /\ d.variables = db.variables /\ d.policies = db.policies
        /\ d.skills = db.skills /\ d.integrations = db.integrations /\ d.runs = db.runs
    BY DEF Inv, Sane, Typed
  <1> HIDE DEF d
  <1>4. Moves(d)
    BY <1>1, <1>2, <1>3, StillMoves DEF Moves, WorkflowsMove
  <1>5. QED
    BY <1>4 DEF d

LEMMA MovePolicies ==
    ASSUME Inv, NEW t \in [Policy -> Maybe(PolicyRow)],
           \A q \in Policy : t[q] # None =>
               IF db.policies[q] = None
               THEN t[q].scope \in {Platform, db.workflows[t[q].workflow].scope}
               ELSE t[q].scope = db.policies[q].scope /\ t[q].workflow = db.policies[q].workflow
    PROVE  Moves([db EXCEPT !.policies = t])
  <1> DEFINE d == [db EXCEPT !.policies = t]
  <1>1. Typed(d)
    BY DEF Inv, Sane, Typed
  <1>2. d.policies = t /\ d.workflows = db.workflows
    BY DEF Inv, Sane, Typed
  <1>3. /\ d.users = db.users /\ d.variables = db.variables
        /\ d.skills = db.skills /\ d.integrations = db.integrations /\ d.runs = db.runs
    BY DEF Inv, Sane, Typed
  <1> HIDE DEF d
  <1>4. Moves(d)
    BY <1>1, <1>2, <1>3, StillMoves DEF Moves, PoliciesMove
  <1>5. QED
    BY <1>4 DEF d

-----------------------------------------------------------------------------
(* Accounts. *)

LEMMA StoresStand == ASSUME Inv, UNCHANGED <<objects, vault>>, DOMAIN marks' = Marks PROVE Stores'
  BY DEF Inv, Stores

LEMMA ArriveKeeps == ASSUME Inv, NEW r \in Request, Arrive(r) PROVE Kept
  <1>1. PICK u \in User :
           /\ Open(r, "accounts",
                [op |-> "arrive", rows |-> {}, user |-> u,
                 role |-> IF Live(db.users) = {} THEN "ADMIN" ELSE "USER"])
           /\ UNCHANGED <<db, objects, vault, marks, faults>>
    BY DEF Arrive
  <1> DEFINE job == [op |-> "arrive", rows |-> {}, user |-> u,
                     role |-> IF Live(db.users) = {} THEN "ADMIN" ELSE "USER"]
  <1>2. Carries(job) /\ Agrees(job, db) /\ job.op # "store"
    BY DEF Carries, Agrees, Ops
  <1> HIDE DEF job
  <1>3. Open(r, "accounts", job)
    BY <1>1 DEF job
  <1>4. Stores'
    BY <1>1, StoresStand DEF Inv, Stores
  <1>5. QED
    BY <1>1, <1>2, <1>3, <1>4, OpenKeeps

LEMMA EnterUserKeeps == ASSUME Inv, NEW r \in Request, EnterUser(r) PROVE Kept
  <1> DEFINE u == req[r].user
             row == [role |-> req[r].role, enabled |-> TRUE]
             t == [db.users EXCEPT ![u] = row]
             d == IF db.users[u] # None THEN db ELSE [db EXCEPT !.users = t]
  <1>1. Finish(r, d) /\ Doing(r, "arrive") /\ UNCHANGED <<objects, vault, marks>>
    BY DEF EnterUser
  <1>2. u \in User /\ row \in UserRow
    BY <1>1 DEF Doing, Inv, Requests, Carries, UserRow
  <1>3. db.users \in [User -> Maybe(UserRow)]
    BY DEF Inv, Sane, Typed
  <1>4. /\ t \in [User -> Maybe(UserRow)]
        /\ \A v \in User : db.users[v] # None => t[v] # None
    <2> HIDE DEF row
    <2>1. row # None
      BY <1>2, NoneAssumption
    <2>2. QED
      BY <1>2, <1>3, <2>1 DEF Maybe
  <1>5. Moves(d)
    BY <1>4, MoveUsers, NoMoves
  <1>6. Stores'
    BY <1>1, StoresStand DEF Inv, Stores
  <1> HIDE DEF d
  <1>7. QED
    BY <1>1, <1>5, <1>6, FinishKeeps

LEMMA AskRoleKeeps == ASSUME Inv, NEW r \in Request, AskRole(r) PROVE Kept
  <1>1. PICK u \in User, role \in {"ADMIN", "USER"} :
           /\ db.users[u] # None
           /\ Open(r, "accounts", [op |-> "role", rows |-> {}, user |-> u, role |-> role])
           /\ marks' = Duel(r)
           /\ UNCHANGED <<db, objects, vault, faults>>
    BY DEF AskRole
  <1> DEFINE job == [op |-> "role", rows |-> {}, user |-> u, role |-> role]
  <1>2. Carries(job) /\ Agrees(job, db) /\ job.op # "store"
    BY <1>1 DEF Carries, Agrees, Ops
  <1> HIDE DEF job
  <1>3. Open(r, "accounts", job)
    BY <1>1 DEF job
  <1>4. Stores'
    BY <1>1, StoresStand DEF Inv, Stores, Duel
  <1>5. QED
    BY <1>1, <1>2, <1>3, <1>4, OpenKeeps

LEMMA AskEnabledKeeps == ASSUME Inv, NEW r \in Request, AskEnabled(r) PROVE Kept
  <1>1. PICK u \in User, on \in BOOLEAN :
           /\ db.users[u] # None
           /\ Open(r, "accounts", [op |-> "enable", rows |-> {}, user |-> u, on |-> on])
           /\ marks' = Duel(r)
           /\ UNCHANGED <<db, objects, vault, faults>>
    BY DEF AskEnabled
  <1> DEFINE job == [op |-> "enable", rows |-> {}, user |-> u, on |-> on]
  <1>2. Carries(job) /\ Agrees(job, db) /\ job.op # "store"
    BY <1>1 DEF Carries, Agrees, Ops
  <1> HIDE DEF job
  <1>3. Open(r, "accounts", job)
    BY <1>1 DEF job
  <1>4. Stores'
    BY <1>1, StoresStand DEF Inv, Stores, Duel
  <1>5. QED
    BY <1>1, <1>2, <1>3, <1>4, OpenKeeps

\* A role or a flag is written into a row that is there.
LEMMA SetUser ==
    ASSUME Inv, NEW r \in Request, NEW row \in UserRow, NEW d,
           Doing(r, "role") \/ Doing(r, "enable"),
           d = [db EXCEPT !.users = [db.users EXCEPT ![req[r].user] = row]],
           Finish(r, d), UNCHANGED <<objects, vault, marks>>
    PROVE  Kept
  <1> DEFINE t == [db.users EXCEPT ![req[r].user] = row]
  <1>1. req[r].user \in User
    BY DEF Doing, Inv, Requests, Carries
  <1>2. db.users \in [User -> Maybe(UserRow)] /\ row # None
    BY NoneAssumption DEF Inv, Sane, Typed
  <1>3. /\ t \in [User -> Maybe(UserRow)]
        /\ \A v \in User : db.users[v] # None => t[v] # None
    BY <1>1, <1>2 DEF Maybe
  <1>4. Moves(d)
    BY <1>3, MoveUsers
  <1>5. Stores'
    BY StoresStand DEF Inv, Stores
  <1>6. QED
    BY <1>4, <1>5, FinishKeeps

LEMMA UserThere ==
    ASSUME Inv, NEW r \in Request, Doing(r, "role") \/ Doing(r, "enable")
    PROVE  req[r].user \in User /\ db.users[req[r].user] \in UserRow
  BY DEF Doing, Inv, Requests, Carries, Agrees, Sane, Typed, Maybe

LEMMA SetRoleKeeps == ASSUME Inv, NEW r \in Request, SetRole(r) PROVE Kept
  <1> DEFINE u == req[r].user
             row == [db.users[u] EXCEPT !.role = req[r].role]
             d == [db EXCEPT !.users = [db.users EXCEPT ![u] = row]]
  <1>1. Finish(r, d) /\ Doing(r, "role") /\ UNCHANGED <<objects, vault, marks>>
    BY DEF SetRole
  <1>2. row \in UserRow
    BY <1>1, UserThere DEF Doing, Inv, Requests, Carries, UserRow
  <1> HIDE DEF row
  <1>3. QED
    BY <1>1, <1>2, SetUser

LEMMA SetEnabledKeeps == ASSUME Inv, NEW r \in Request, SetEnabled(r) PROVE Kept
  <1> DEFINE u == req[r].user
             row == [db.users[u] EXCEPT !.enabled = req[r].on]
             d == [db EXCEPT !.users = [db.users EXCEPT ![u] = row]]
  <1>1. Finish(r, d) /\ Doing(r, "enable") /\ UNCHANGED <<objects, vault, marks>>
    BY DEF SetEnabled
  <1>2. row \in UserRow
    BY <1>1, UserThere DEF Doing, Inv, Requests, Carries, UserRow
  <1> HIDE DEF row
  <1>3. QED
    BY <1>1, <1>2, SetUser

LEMMA MoveRoster ==
    ASSUME Inv, NEW t \in [User \X Project -> Maybe(Role)]
    PROVE  Moves([db EXCEPT !.roster = t])
  <1> DEFINE d == [db EXCEPT !.roster = t]
  <1>1. Typed(d)
    BY DEF Inv, Sane, Typed
  <1>2. /\ d.users = db.users /\ d.skills = db.skills /\ d.workflows = db.workflows
        /\ d.policies = db.policies /\ d.integrations = db.integrations
        /\ d.variables = db.variables /\ d.runs = db.runs
    BY DEF Inv, Sane, Typed
  <1> HIDE DEF d
  <1>3. Moves(d)
    BY <1>1, <1>2, MoveMembers
  <1>4. QED
    BY <1>3 DEF d

LEMMA RosterType ==
    ASSUME Inv, NEW u \in User, NEW p \in Project, NEW role \in Maybe(Role)
    PROVE  [db.roster EXCEPT ![<<u, p>>] = role] \in [User \X Project -> Maybe(Role)]
  BY DEF Inv, Sane, Typed

LEMMA ManagerIsRole == Manager \in Role /\ Role \subseteq Maybe(Role) /\ None \in Maybe(Role)
  BY DEF Role, Maybe

LEMMA CreateProjectKeeps == ASSUME Inv, CreateProject PROVE Kept
  <1>1. PICK u \in User, p \in Project :
           /\ Commit("accounts", [db EXCEPT !.projects = @ \cup {p}, !.roster[<<u, p>>] = Manager])
           /\ UNCHANGED <<objects, vault, marks>>
    BY DEF CreateProject
  <1> DEFINE t == [db.roster EXCEPT ![<<u, p>>] = Manager]
             d == [db EXCEPT !.projects = db.projects \cup {p}, !.roster = t]
  <1>2. t \in [User \X Project -> Maybe(Role)]
    BY RosterType, ManagerIsRole
  <1> HIDE DEF t
  <1>3. Typed(d)
    BY <1>2 DEF Inv, Sane, Typed
  <1>4. /\ d.users = db.users /\ d.skills = db.skills /\ d.workflows = db.workflows
        /\ d.policies = db.policies /\ d.integrations = db.integrations
        /\ d.variables = db.variables /\ d.runs = db.runs
    BY DEF Inv, Sane, Typed
  <1>5. Commit("accounts", d)
    BY <1>1 DEF t
  <1> HIDE DEF d
  <1>6. Moves(d)
    BY <1>3, <1>4, MoveMembers
  <1>7. Stores'
    BY <1>1, StoresStand DEF Inv, Stores
  <1>8. QED
    BY <1>5, <1>6, <1>7, CommitKeeps

LEMMA CascadeSays ==
    ASSUME Inv, NEW p \in Project
    PROVE  LET d == Cascade(db, p)
           IN /\ DOMAIN d = Fields /\ d.users = db.users /\ d.projects = db.projects \ {p}
              /\ d.categories = db.categories
              /\ d.roster = [m \in DOMAIN db.roster |-> IF m[2] = p THEN None ELSE db.roster[m]]
              /\ d.skills \in [Skill -> Maybe(SkillRow)] /\ \A k \in Skill : d.skills[k] \in {None, db.skills[k]}
              /\ d.workflows \in [Workflow -> Maybe(WorkflowRow)]
              /\ \A w \in Workflow : d.workflows[w] \in {None, db.workflows[w]}
              /\ d.policies \in [Policy -> Maybe(PolicyRow)]
              /\ \A q \in Policy : d.policies[q] \in {None, db.policies[q]}
              /\ d.integrations \in [Integration -> Maybe(IntegrationRow)]
              /\ \A i \in Integration : d.integrations[i] \in {None, db.integrations[i]}
              /\ d.variables \in [Variable -> Maybe(VariableRow)]
              /\ \A e \in Variable : d.variables[e] \in {None, db.variables[e]}
              /\ d.runs \in [Run -> Maybe(RunRow)] /\ \A n \in Run : d.runs[n] \in {None, db.runs[n]}
  <1> USE DEF Inv, Sane, Typed, Cascade, Fields, Maybe
  <1>1. DOMAIN Cascade(db, p) = Fields /\ Cascade(db, p).users = db.users
        /\ Cascade(db, p).projects = db.projects \ {p}
        /\ Cascade(db, p).categories = db.categories
    OBVIOUS
  <1>2. Cascade(db, p).roster
          = [m \in DOMAIN db.roster |-> IF m[2] = p THEN None ELSE db.roster[m]]
    OBVIOUS
  <1>3. /\ Cascade(db, p).skills \in [Skill -> Maybe(SkillRow)]
        /\ \A k \in Skill : Cascade(db, p).skills[k] \in {None, db.skills[k]}
    OBVIOUS
  <1>4. /\ Cascade(db, p).workflows \in [Workflow -> Maybe(WorkflowRow)]
        /\ \A k \in Workflow : Cascade(db, p).workflows[k] \in {None, db.workflows[k]}
    OBVIOUS
  <1>5. /\ Cascade(db, p).policies \in [Policy -> Maybe(PolicyRow)]
        /\ \A k \in Policy : Cascade(db, p).policies[k] \in {None, db.policies[k]}
    OBVIOUS
  <1>6. /\ Cascade(db, p).integrations \in [Integration -> Maybe(IntegrationRow)]
        /\ \A k \in Integration : Cascade(db, p).integrations[k] \in {None, db.integrations[k]}
    OBVIOUS
  <1>7. /\ Cascade(db, p).variables \in [Variable -> Maybe(VariableRow)]
        /\ \A k \in Variable : Cascade(db, p).variables[k] \in {None, db.variables[k]}
    OBVIOUS
  <1>8. /\ Cascade(db, p).runs \in [Run -> Maybe(RunRow)]
        /\ \A k \in Run : Cascade(db, p).runs[k] \in {None, db.runs[k]}
    OBVIOUS
  <1>9. QED
    BY <1>1, <1>2, <1>3, <1>4, <1>5, <1>6, <1>7, <1>8 DEF Fields

LEMMA CascadeMoves == ASSUME Inv, NEW p \in Project PROVE Moves(Cascade(db, p))
  <1> DEFINE d == Cascade(db, p)
  <1> HIDE DEF d
  <1>1. /\ DOMAIN d = Fields /\ d.users = db.users /\ d.projects = db.projects \ {p}
        /\ d.categories = db.categories
        /\ d.roster = [m \in DOMAIN db.roster |-> IF m[2] = p THEN None ELSE db.roster[m]]
    BY CascadeSays DEF d
  <1>2. /\ d.skills \in [Skill -> Maybe(SkillRow)] /\ \A k \in Skill : d.skills[k] \in {None, db.skills[k]}
        /\ d.workflows \in [Workflow -> Maybe(WorkflowRow)]
        /\ \A w \in Workflow : d.workflows[w] \in {None, db.workflows[w]}
        /\ d.policies \in [Policy -> Maybe(PolicyRow)]
        /\ \A q \in Policy : d.policies[q] \in {None, db.policies[q]}
    BY CascadeSays DEF d
  <1>3. /\ d.integrations \in [Integration -> Maybe(IntegrationRow)]
        /\ \A i \in Integration : d.integrations[i] \in {None, db.integrations[i]}
        /\ d.variables \in [Variable -> Maybe(VariableRow)]
        /\ \A e \in Variable : d.variables[e] \in {None, db.variables[e]}
        /\ d.runs \in [Run -> Maybe(RunRow)] /\ \A n \in Run : d.runs[n] \in {None, db.runs[n]}
    BY CascadeSays DEF d
  <1>4. Moves(db) /\ Typed(db)
    BY NoMoves DEF Inv, Sane
  <1>5. UsersMove(d)
    BY <1>1 DEF UsersMove
  <1>6. SkillsMove(d) /\ WorkflowsMove(d)
    BY <1>2, <1>4 DEF Moves, SkillsMove, WorkflowsMove
  <1>7. PoliciesMove(d)
    BY <1>2 DEF PoliciesMove
  <1>8. IntegrationsMove(d) /\ VariablesMove(d)
    BY <1>3, <1>4 DEF Moves, IntegrationsMove, VariablesMove
  <1>9. RunsMove(d)
    BY <1>3, <1>4 DEF Moves, RunsMove
  <1>10. d.roster \in [User \X Project -> Maybe(Role)]
    BY <1>1, <1>4 DEF Typed, Maybe
  <1>11. Typed(d)
    BY <1>1, <1>2, <1>3, <1>4, <1>10 DEF Typed, Fields
  <1>12. QED
    BY <1>5, <1>6, <1>7, <1>8, <1>9, <1>11 DEF Moves, d

LEMMA DeleteProjectKeeps == ASSUME Inv, DeleteProject PROVE Kept
  <1>1. PICK p \in db.projects, area \in Area \ {"engine"} :
           /\ Commit(area, Cascade(db, p))
           /\ marks' = [marks EXCEPT !.gone = @ \cup {p}, !.torn = @ \cup RefsOf(p),
                                  !.behind = @ \cap Live(db'.skills)]
           /\ UNCHANGED <<objects, vault>>
    BY DEF DeleteProject
  <1>2. p \in Project
    BY DEF Inv, Sane, Typed
  <1>3. Stores'
    BY <1>1, StoresStand DEF Inv, Stores
  <1>4. QED
    BY <1>1, <1>2, <1>3, CascadeMoves, CommitKeeps

\* The handlers that give a member a role, or take him off.
LEMMA MemberKeeps ==
    ASSUME Inv, NEW u \in User, NEW p \in Project, NEW role \in Maybe(Role),
           Commit("accounts", [db EXCEPT !.roster[<<u, p>>] = role]),
           UNCHANGED <<objects, vault>>, DOMAIN marks' = Marks
    PROVE  Kept
  <1> DEFINE t == [db.roster EXCEPT ![<<u, p>>] = role]
  <1>1. Moves([db EXCEPT !.roster = t])
    BY RosterType, MoveRoster
  <1>2. QED
    BY <1>1, StoresStand, CommitKeeps

LEMMA AddMemberKeeps == ASSUME Inv, AddMember PROVE Kept
  BY MemberKeeps, ManagerIsRole DEF AddMember, Inv, Stores, Sane, Typed

LEMMA UpdateMemberRoleKeeps == ASSUME Inv, UpdateMemberRole PROVE Kept
  BY MemberKeeps, ManagerIsRole DEF UpdateMemberRole, Loosen, Inv, Stores, Sane, Typed

LEMMA RemoveMemberKeeps == ASSUME Inv, RemoveMember PROVE Kept
  BY MemberKeeps, ManagerIsRole DEF RemoveMember, Loosen, Inv, Stores, Sane, Typed

LEMMA ManagerAddsMemberKeeps == ASSUME Inv, ManagerAddsMember PROVE Kept
  BY MemberKeeps, ManagerIsRole DEF ManagerAddsMember, Inv, Stores, Sane, Typed

LEMMA AskMemberKeeps ==
    ASSUME Inv, NEW r \in Request, NEW p \in Project, NEW u \in User, NEW role \in Maybe(Role),
           AskMember(r, p, u, role)
    PROVE  Kept
  <1> DEFINE job == [op |-> "member", rows |-> {}, user |-> u, project |-> p, role |-> role]
  <1>1. Carries(job) /\ Agrees(job, db) /\ job.op # "store"
    BY DEF Carries, Agrees, Ops
  <1>2. Open(r, "accounts", job) /\ db' = db
    BY DEF AskMember
  <1> HIDE DEF job
  <1>3. Stores'
    BY StoresStand DEF AskMember, Inv, Stores, Race
  <1>4. QED
    BY <1>1, <1>2, <1>3, OpenKeeps

LEMMA SetMemberKeeps == ASSUME Inv, NEW r \in Request, SetMember(r) PROVE Kept
  <1> DEFINE u == req[r].user
             p == req[r].project
             t == [db.roster EXCEPT ![<<u, p>>] = req[r].role]
             d == IF db.roster[<<u, p>>] = None THEN db ELSE [db EXCEPT !.roster = t]
  <1>1. Finish(r, d) /\ Doing(r, "member") /\ UNCHANGED <<objects, vault>>
        /\ marks' \in {Race(r, p), marks}
    BY DEF SetMember
  <1>2. u \in User /\ p \in Project /\ req[r].role \in Maybe(Role)
    BY <1>1 DEF Doing, Inv, Requests, Carries
  <1>3. Moves(d)
    BY <1>2, RosterType, MoveRoster, NoMoves
  <1>4. Stores'
    BY <1>1, StoresStand DEF Inv, Stores, Race
  <1> HIDE DEF d
  <1>5. QED
    BY <1>1, <1>3, <1>4, FinishKeeps

LEMMA AccountsKeep == ASSUME Inv, AccountsNext PROVE Kept
  <1>1. db.projects \subseteq Project
    BY DEF Inv, Sane, Typed
  <1>2. ASSUME NEW r \in Request, ManagerAsksRole(r) \/ ManagerAsksRemoval(r) PROVE Kept
    BY <1>1, <1>2, AskMemberKeeps, ManagerIsRole DEF ManagerAsksRole, ManagerAsksRemoval
  <1>3. QED
    BY <1>2, ArriveKeeps, EnterUserKeeps, AskRoleKeeps, SetRoleKeeps, AskEnabledKeeps,
       SetEnabledKeeps, SetMemberKeeps, CreateProjectKeeps, DeleteProjectKeeps,
       AddMemberKeeps, UpdateMemberRoleKeeps, RemoveMemberKeeps, ManagerAddsMemberKeeps
       DEF AccountsNext

-----------------------------------------------------------------------------
(* The vault. *)

LEMMA RefsIn ==
    /\ \A p \in Project, kind \in Kind : IntegrationRef(p, kind) \in Ref
    /\ \A scope \in Scope, name \in VarName : env_var_ref(scope, name) \in Ref
  BY DEF Ref, RefsOf, Scope

LEMMA IntegrationsType ==
    ASSUME Inv, NEW i \in Live(db.integrations)
    PROVE  /\ i \in Integration /\ db.integrations[i] # None
           /\ db.integrations[i] \in IntegrationRow /\ IntegrationAt(db.integrations[i])
  BY DEF Inv, Sane, Typed, Live, Maybe, Addressed

LEMMA VariablesType ==
    ASSUME Inv, NEW e \in Live(db.variables)
    PROVE  /\ e \in Variable /\ db.variables[e] # None
           /\ db.variables[e] \in VariableRow /\ VariableAt(db.variables[e])
  BY DEF Inv, Sane, Typed, Live, Maybe, Addressed

LEMMA VaultType == ASSUME Inv PROVE vault \subseteq Ref /\ db.projects \subseteq Project
  BY DEF Inv, Stores, Sane, Typed

LEMMA SaveKeeps ==
    ASSUME Inv, NEW r \in Request, NEW p \in db.projects, NEW kind \in Kind, NEW label \in Label,
           NEW credential \in BOOLEAN, Save(r, p, kind, label, credential)
    PROVE  Kept
  <1> DEFINE ref == IntegrationRef(p, kind)
             fresh == [project |-> p, kind |-> kind, label |-> label, verified |-> FALSE,
                       ref |-> IF credential THEN ref ELSE None]
             secrets == IF credential THEN vault \cup {ref} ELSE vault
             changed(i) == [db.integrations[i] EXCEPT !.label = label,
                                                  !.ref = IF credential THEN ref ELSE @]
  <1>1. p \in Project /\ ref \in Ref /\ {ref} \subseteq Ref
    BY RefsIn, VaultType
  <1>2. secrets \subseteq Ref
    BY <1>1, VaultType
  <1>3. CASE OfKind(p, kind) = {}
    <2>1. Room(db.integrations, 1)
          /\ Store(r, "integrations", NewId(db.integrations), fresh, {ref}, secrets)
      BY <1>3 DEF Save
    <2>2. fresh \in IntegrationRow /\ IntegrationAt(fresh)
      BY <1>1 DEF IntegrationRow, IntegrationAt, Maybe
    <2>3. fresh \in Maybe(IntegrationRow) /\ fresh # None
      BY <2>2, NoneAssumption DEF Maybe
    <2>4. NewId(db.integrations) \in Integration /\ db.integrations[NewId(db.integrations)] = None
          /\ NewId(db.integrations) \notin Held
      BY <2>1, FreeRow DEF Inv, Sane, Typed
    <2> HIDE DEF fresh, secrets, ref
    <2>5. Heir("integrations", NewId(db.integrations), fresh)
      BY <2>3, <2>4 DEF Heir
    <2>6. QED
      BY <1>1, <1>2, <2>1, <2>2, <2>3, <2>4, <2>5, StoreKeeps
  <1>4. CASE OfKind(p, kind) # {}
    <2>1. PICK i \in OfKind(p, kind) :
             Store(r, "integrations", i, changed(i), {ref}, secrets)
      BY <1>4 DEF Save
    <2>2. /\ i \in Live(db.integrations) /\ db.integrations[i].project = p
          /\ db.integrations[i].kind = kind
      BY DEF OfKind
    <2>3. changed(i) \in IntegrationRow /\ IntegrationAt(changed(i))
          /\ changed(i).project = p /\ changed(i).kind = kind
      BY <1>1, <2>2, IntegrationsType DEF IntegrationRow, IntegrationAt, Maybe
    <2>4. changed(i) \in Maybe(IntegrationRow)
      BY <2>3 DEF Maybe
    <2> HIDE DEF changed, secrets, ref
    <2>5. Heir("integrations", i, changed(i))
      BY <2>2, <2>3, IntegrationsType DEF Heir
    <2>6. QED
      BY <1>1, <1>2, <2>1, <2>2, <2>3, <2>4, <2>5, StoreKeeps, IntegrationsType
  <1>5. QED
    BY <1>3, <1>4

LEMMA RefusedKeeps ==
    ASSUME Inv, NEW refs, NEW secrets, Refused(refs, secrets), secrets \subseteq Ref
    PROVE  Kept
  <1>1. Stores'
    BY DEF Refused, Inv, Stores
  <1>2. db' = db /\ req' = req
    BY DEF Refused
  <1>3. Apart' /\ DOMAIN req' = Request
    BY <1>2 DEF Inv, Requests, Apart
  <1>4. QED
    BY <1>1, <1>2, <1>3, InvStep

LEMMA RotateKeeps ==
    ASSUME Inv, NEW r \in Request, NEW i \in Live(db.integrations),
           NEW credential \in BOOLEAN, NEW valid \in BOOLEAN, Rotate(r, i, credential, valid)
    PROVE  Kept
  <1> DEFINE row == db.integrations[i]
             ref == IntegrationRef(row.project, row.kind)
             secrets == IF credential THEN vault \cup {ref} ELSE vault
             changed == [row EXCEPT !.ref = IF credential THEN ref ELSE @]
  <1>1. i \in Integration /\ row # None /\ row \in IntegrationRow /\ IntegrationAt(row)
    BY IntegrationsType
  <1>2. ref \in Ref /\ {ref} \subseteq Ref
    BY <1>1, RefsIn DEF IntegrationRow
  <1>3. secrets \subseteq Ref
    BY <1>2, VaultType
  <1>4. CASE ~valid
    <2>1. Refused({ref}, secrets)
      BY <1>4 DEF Rotate
    <2>2. QED
      BY <1>3, <2>1, RefusedKeeps
  <1>5. CASE valid
    <2>1. Store(r, "integrations", i, changed, {ref}, secrets)
      BY <1>5 DEF Rotate
    <2>2. changed \in IntegrationRow /\ IntegrationAt(changed)
          /\ changed.project = row.project /\ changed.kind = row.kind
      BY <1>1, <1>2 DEF IntegrationRow, IntegrationAt, Maybe
    <2>3. changed \in Maybe(IntegrationRow)
      BY <2>2 DEF Maybe
    <2> HIDE DEF changed, secrets, ref
    <2>4. Heir("integrations", i, changed)
      BY <1>1, <2>2 DEF Heir
    <2>5. QED
      BY <1>1, <1>2, <1>3, <2>1, <2>2, <2>3, <2>4, StoreKeeps
  <1>6. QED
    BY <1>4, <1>5

LEMMA WipeKeeps ==
    ASSUME Inv, NEW r \in Request, NEW i \in Live(db.integrations), Wipe(r, i)
    PROVE  Kept
  <1> DEFINE row == db.integrations[i]
             ref == IntegrationRef(row.project, row.kind)
  <1>1. i \in Integration /\ row # None /\ row \in IntegrationRow
    BY IntegrationsType
  <1>2. {ref} \subseteq Ref /\ vault \ {row.ref} \subseteq Ref
    BY <1>1, RefsIn, VaultType DEF IntegrationRow
  <1>3. None \in Maybe(IntegrationRow) /\ Heir("integrations", i, None)
    BY <1>1 DEF Maybe, Heir
  <1>4. Store(r, "integrations", i, None, {ref}, vault \ {row.ref})
    BY DEF Wipe
  <1> HIDE DEF ref
  <1>5. QED
    BY <1>1, <1>2, <1>3, <1>4, StoreKeeps

LEMMA VerifyKeeps == ASSUME Inv, NEW i \in Live(db.integrations), Verify(i) PROVE Kept
  <1> DEFINE row == [db.integrations[i] EXCEPT !.verified = TRUE]
             t == [db.integrations EXCEPT ![i] = row]
  <1>1. Commit("vault", [db EXCEPT !.integrations = t]) /\ UNCHANGED <<objects, vault, marks>>
    BY DEF Verify
  <1>2. row \in IntegrationRow /\ IntegrationAt(row)
        /\ row.project = db.integrations[i].project /\ row.kind = db.integrations[i].kind
    BY IntegrationsType DEF IntegrationRow, IntegrationAt
  <1>3. \A j \in Live(db.integrations) : IntegrationAt(db.integrations[j])
    BY IntegrationsType
  <1> HIDE DEF row
  <1>4. t \in [Integration -> Maybe(IntegrationRow)]
    BY <1>2, IntegrationsType DEF Maybe, Inv, Sane, Typed
  <1>5. \A j \in Integration : t[j] # None =>
               /\ IntegrationAt(t[j])
               /\ IF db.integrations[j] = None THEN Unclaimed("integrations", j)
                  ELSE /\ t[j].project = db.integrations[j].project
                       /\ t[j].kind = db.integrations[j].kind
    BY <1>2, <1>3, IntegrationsType DEF Inv, Sane, Typed, Live
  <1>6. Moves([db EXCEPT !.integrations = t])
    BY <1>4, <1>5, MoveIntegrations
  <1>7. Stores'
    BY <1>1, StoresStand DEF Inv, Stores
  <1>8. QED
    BY <1>1, <1>6, <1>7, CommitKeeps

LEMMA NewVariableKeeps ==
    ASSUME Inv, NEW r \in Request, NEW scope \in Scope, NEW name \in VarName,
           NEW secret \in BOOLEAN, NewVariable(r, scope, name, secret)
    PROVE  Kept
  <1> DEFINE ref == env_var_ref(scope, name)
             row == [scope |-> scope, name |-> name, secret |-> secret,
                     ref |-> IF secret THEN ref ELSE None]
             secrets == _store_secret(scope, name, secret)
             e == NewId(db.variables)
  <1>1. Room(db.variables, 1) /\ Store(r, "variables", e, row, {ref}, secrets)
    BY DEF NewVariable
  <1>2. ref \in Ref /\ {ref} \subseteq Ref /\ secrets \subseteq Ref
    BY RefsIn, VaultType DEF _store_secret
  <1>3. row \in VariableRow /\ VariableAt(row)
    BY <1>2 DEF VariableRow, VariableAt, Maybe
  <1>4. row \in Maybe(VariableRow) /\ row # None
    BY <1>3, NoneAssumption DEF Maybe
  <1>5. e \in Variable /\ db.variables[e] = None /\ e \notin Held
    BY <1>1, FreeRow DEF Inv, Sane, Typed
  <1> HIDE DEF row, secrets, ref, e
  <1>6. Heir("variables", e, row)
    BY <1>4, <1>5 DEF Heir
  <1>7. QED
    BY <1>1, <1>2, <1>3, <1>4, <1>5, <1>6, StoreKeeps

LEMMA RenamedSays ==
    ASSUME NEW row \in VariableRow, VariableAt(row), NEW name \in VarName
    PROVE  /\ Renamed(row, name) \in VariableRow /\ VariableAt(Renamed(row, name))
           /\ Renamed(row, name).scope = row.scope
           /\ row.secret => Renamed(row, name).ref = env_var_ref(row.scope, name)
  <1>1. env_var_ref(row.scope, name) \in Ref /\ env_var_ref(row.scope, row.name) \in Ref
    BY RefsIn DEF VariableRow
  <1>2. QED
    BY <1>1 DEF Renamed, VariableRow, VariableAt, Maybe

LEMMA ChangeVariableKeeps ==
    ASSUME Inv, NEW r \in Request, NEW e \in Live(db.variables), NEW name \in VarName,
           NEW value \in BOOLEAN, NEW valid \in BOOLEAN, ChangeVariable(r, e, name, value, valid)
    PROVE  Kept
  <1> DEFINE row == db.variables[e]
             refs == {env_var_ref(row.scope, row.name), env_var_ref(row.scope, name)}
             moved == _rename_row(row, name)
             secrets == IF value /\ row.secret THEN moved \cup {Renamed(row, name).ref} ELSE moved
             new == Renamed(row, name)
  <1>1. e \in Variable /\ row # None /\ row \in VariableRow /\ VariableAt(row)
    BY VariablesType
  <1>2. refs \subseteq Ref /\ env_var_ref(row.scope, name) \in Ref
    BY <1>1, RefsIn DEF VariableRow
  <1>3. moved \subseteq Ref
    BY <1>2, VaultType DEF _rename_row
  <1>4. secrets \subseteq Ref
    BY <1>1, <1>2, <1>3, RenamedSays
  <1>5. IF valid THEN Store(r, "variables", e, new, refs, secrets) ELSE Refused(refs, moved)
    BY DEF ChangeVariable
  <1>6. new \in VariableRow /\ VariableAt(new) /\ new.scope = row.scope
    BY <1>1, RenamedSays
  <1> HIDE DEF new, secrets, refs, moved
  <1>7. new \in Maybe(VariableRow) /\ Heir("variables", e, new)
    BY <1>1, <1>6 DEF Maybe, Heir
  <1>8. QED
    BY <1>1, <1>2, <1>3, <1>4, <1>5, <1>6, <1>7, StoreKeeps, RefusedKeeps

LEMMA DropVariableKeeps ==
    ASSUME Inv, NEW r \in Request, NEW e \in Live(db.variables), DropVariable(r, e)
    PROVE  Kept
  <1> DEFINE row == db.variables[e]
             ref == env_var_ref(row.scope, row.name)
  <1>1. e \in Variable /\ row # None /\ row \in VariableRow
    BY VariablesType
  <1>2. {ref} \subseteq Ref /\ vault \ {row.ref} \subseteq Ref
    BY <1>1, RefsIn, VaultType DEF VariableRow
  <1>3. None \in Maybe(VariableRow) /\ Heir("variables", e, None)
    BY <1>1 DEF Maybe, Heir
  <1>4. Store(r, "variables", e, None, {ref}, vault \ {row.ref})
    BY DEF DropVariable
  <1> HIDE DEF ref
  <1>5. QED
    BY <1>1, <1>2, <1>3, <1>4, StoreKeeps

LEMMA VaultRequestKeeps == ASSUME Inv, VaultRequest PROVE Kept
  <1>1. db.projects \subseteq Scope /\ Platform \in Scope
    BY VaultType DEF Scope
  <1>2. ASSUME NEW r \in Request, create_integration(r) \/ admin_create_integration(r) PROVE Kept
    BY <1>2, SaveKeeps DEF create_integration, admin_create_integration
  <1>3. ASSUME NEW r \in Request, update_integration(r) \/ admin_update_integration(r) PROVE Kept
    BY <1>3, RotateKeeps DEF update_integration, admin_update_integration
  <1>4. ASSUME NEW r \in Request, delete_integration(r) \/ admin_delete_integration(r) PROVE Kept
    BY <1>4, WipeKeeps DEF delete_integration, admin_delete_integration
  <1>5. ASSUME NEW r \in Request,
               create_environment_variable(r) \/ create_platform_environment_variable(r)
        PROVE  Kept
    BY <1>1, <1>5, NewVariableKeeps
       DEF create_environment_variable, create_platform_environment_variable
  <1>6. ASSUME NEW r \in Request,
               update_environment_variable(r) \/ update_platform_environment_variable(r)
        PROVE  Kept
    BY <1>6, ChangeVariableKeeps
       DEF update_environment_variable, update_platform_environment_variable
  <1>7. ASSUME NEW r \in Request,
               delete_environment_variable(r) \/ delete_platform_environment_variable(r)
        PROVE  Kept
    BY <1>7, DropVariableKeeps
       DEF delete_environment_variable, delete_platform_environment_variable
  <1>8. ASSUME test_integration \/ admin_test_integration PROVE Kept
    BY <1>8, VerifyKeeps DEF test_integration, admin_test_integration
  <1>9. QED
    BY <1>2, <1>3, <1>4, <1>5, <1>6, <1>7, <1>8 DEF VaultRequest

\* The row of a request that has changed the secure storage is written.
LEMMA CommitIntegration ==
    ASSUME Inv, NEW r \in Request, Doing(r, "store"), req[r].table = "integrations",
           req' = [req EXCEPT ![r] = Idle], req[r].new \/ db.integrations[req[r].id] # None
    PROVE  LET t == [db.integrations EXCEPT ![req[r].id] = req[r].row]
           IN /\ t \in [Integration -> Maybe(IntegrationRow)]
              /\ \A i \in Integration : t[i] # None =>
                   /\ IntegrationAt(t[i])
                   /\ IF db.integrations[i] = None THEN Unclaimed("integrations", i)
                      ELSE /\ t[i].project = db.integrations[i].project
                           /\ t[i].kind = db.integrations[i].kind
  <1> DEFINE j == req[r]
             t == [db.integrations EXCEPT ![j.id] = j.row]
  <1>1. /\ j.id \in Integration /\ j.row \in Maybe(IntegrationRow)
        /\ j.row # None => IntegrationAt(j.row)
        /\ Agrees(j, db) /\ j # Idle /\ j.op = "store"
    BY DEF Doing, Inv, Requests, Carries, IntegrationJob, VariableJob
  <1>2. /\ db.integrations \in [Integration -> Maybe(IntegrationRow)]
        /\ \A i \in Live(db.integrations) : IntegrationAt(db.integrations[i])
    BY IntegrationsType DEF Inv, Sane, Typed
  <1>3. t \in [Integration -> Maybe(IntegrationRow)]
    BY <1>1, <1>2
  <1>4. ASSUME NEW i \in Integration, t[i] # None, i # j.id
        PROVE  /\ IntegrationAt(t[i]) /\ db.integrations[i] # None
               /\ t[i] = db.integrations[i]
    BY <1>2, <1>4 DEF Live
  <1>5. ASSUME t[j.id] # None
        PROVE  /\ IntegrationAt(t[j.id])
               /\ IF db.integrations[j.id] = None THEN Unclaimed("integrations", j.id)
                  ELSE /\ t[j.id].project = db.integrations[j.id].project
                       /\ t[j.id].kind = db.integrations[j.id].kind
    <2>1. t[j.id] = j.row
      BY <1>1, <1>2
    <2>2. CASE db.integrations[j.id] # None
      BY <1>1, <1>5, <2>1, <2>2 DEF Agrees
    <2>3. CASE db.integrations[j.id] = None
      <3>1. \A s \in Request \ {r} : ~OnRow(req[s], "integrations", j.id)
        BY <1>1, <2>3 DEF Inv, Requests, Apart
      <3>2. Unclaimed("integrations", j.id)
        BY <3>1 DEF Unclaimed, OnRow, Inv, Requests
      <3>3. QED
        BY <1>1, <1>5, <2>1, <2>3, <3>2
    <2>4. QED
      BY <2>2, <2>3
  <1>6. QED
    BY <1>3, <1>4, <1>5

LEMMA CommitVariable ==
    ASSUME Inv, NEW r \in Request, Doing(r, "store"), req[r].table = "variables",
           req' = [req EXCEPT ![r] = Idle], req[r].new \/ db.variables[req[r].id] # None
    PROVE  LET t == [db.variables EXCEPT ![req[r].id] = req[r].row]
           IN /\ t \in [Variable -> Maybe(VariableRow)]
              /\ \A e \in Variable : t[e] # None =>
                   /\ VariableAt(t[e])
                   /\ IF db.variables[e] = None THEN Unclaimed("variables", e)
                      ELSE t[e].scope = db.variables[e].scope
  <1> DEFINE j == req[r]
             t == [db.variables EXCEPT ![j.id] = j.row]
  <1>1. /\ j.id \in Variable /\ j.row \in Maybe(VariableRow)
        /\ j.row # None => VariableAt(j.row)
        /\ Agrees(j, db) /\ j # Idle /\ j.op = "store"
    BY DEF Doing, Inv, Requests, Carries, IntegrationJob, VariableJob
  <1>2. /\ db.variables \in [Variable -> Maybe(VariableRow)]
        /\ \A e \in Live(db.variables) : VariableAt(db.variables[e])
    BY VariablesType DEF Inv, Sane, Typed
  <1>3. t \in [Variable -> Maybe(VariableRow)]
    BY <1>1, <1>2
  <1>4. ASSUME NEW e \in Variable, t[e] # None, e # j.id
        PROVE  /\ VariableAt(t[e]) /\ db.variables[e] # None
               /\ t[e] = db.variables[e]
    BY <1>2, <1>4 DEF Live
  <1>5. ASSUME t[j.id] # None
        PROVE  /\ VariableAt(t[j.id])
               /\ IF db.variables[j.id] = None THEN Unclaimed("variables", j.id)
                  ELSE t[j.id].scope = db.variables[j.id].scope
    <2>1. t[j.id] = j.row
      BY <1>1, <1>2
    <2>2. CASE db.variables[j.id] # None
      BY <1>1, <1>5, <2>1, <2>2 DEF Agrees
    <2>3. CASE db.variables[j.id] = None
      <3>1. \A s \in Request \ {r} : ~OnRow(req[s], "variables", j.id)
        BY <1>1, <2>3 DEF Inv, Requests, Apart
      <3>2. Unclaimed("variables", j.id)
        BY <3>1 DEF Unclaimed, OnRow, Inv, Requests
      <3>3. QED
        BY <1>1, <1>5, <2>1, <2>3, <3>2
    <2>4. QED
      BY <2>2, <2>3
  <1>6. QED
    BY <1>3, <1>4, <1>5

\* The runs that name a deleted integration lose it.
LEMMA LoseSays ==
    ASSUME Inv, NEW i
    PROVE  LET t == SetNull(db.runs, i)
           IN /\ t \in [Run -> Maybe(RunRow)]
              /\ \A n \in Run : t[n] # None =>
                    db.runs[n] # None /\ SameRun(db.runs[n], t[n])
              /\ \A n \in Run : db.runs[n] # None =>
                    t[n].pins = db.runs[n].pins /\ t[n].state = db.runs[n].state
  <1> DEFINE lose(u) == [t \in Kind |-> IF u[t] = i THEN None ELSE u[t]]
             t == SetNull(db.runs, i)
  <1>1. db.runs \in [Run -> Maybe(RunRow)]
    BY DEF Inv, Sane, Typed
  <1>2. ASSUME NEW row \in RunRow
        PROVE  LET new == Lose(row, i)
               IN new \in RunRow /\ SameRun(row, new) /\ new.pins = row.pins /\ new.state = row.state
    <2> DEFINE new == [row EXCEPT !.uses = lose(row.uses)]
    <2>1. lose(row.uses) \in [Kind -> Maybe(Integration)]
      BY DEF RunRow, Maybe
    <2>2. \A kind \in Kind : lose(row.uses)[kind] \in {None, row.uses[kind]}
      OBVIOUS
    <2> HIDE DEF lose
    <2>3. new \in RunRow
      BY <2>1 DEF RunRow
    <2>4. new.uses = lose(row.uses) /\ new.project = row.project /\ new.workflow = row.workflow
          /\ new.policy = row.policy /\ new.pins = row.pins /\ new.state = row.state
      BY DEF RunRow
    <2> HIDE DEF new
    <2>5. SameRun(row, new)
      BY <2>2, <2>4 DEF SameRun
    <2>6. Lose(row, i) = new
      BY DEF new, lose, Lose
    <2>7. QED
      BY <2>3, <2>4, <2>5, <2>6
  <1>3. ASSUME NEW n \in Run
        PROVE  /\ t[n] \in Maybe(RunRow)
               /\ db.runs[n] = None => t[n] = None
               /\ db.runs[n] # None => SameRun(db.runs[n], t[n]) /\ t[n].pins = db.runs[n].pins
                                       /\ t[n].state = db.runs[n].state
    <2>1. CASE db.runs[n] = None
      BY <1>1, <2>1 DEF Maybe, SetNull
    <2>2. CASE db.runs[n] # None
      <3>1. db.runs[n] \in RunRow
        BY <1>1, <2>2 DEF Maybe
      <3>2. t[n] = Lose(db.runs[n], i)
        BY <1>1, <2>2 DEF SetNull
      <3>3. QED
        BY <1>2, <2>2, <3>1, <3>2 DEF Maybe
    <2>3. QED
      BY <2>1, <2>2
  <1>4. DOMAIN t = Run
    BY <1>1 DEF SetNull
  <1> HIDE DEF t
  <1>5. t \in [Run -> Maybe(RunRow)]
    <2>1. t = [n \in Run |-> t[n]]
      BY <1>4 DEF t, SetNull
    <2>2. QED
      BY <1>3, <2>1
  <1>6. QED
    BY <1>3, <1>5 DEF t

LEMMA CommitStoreMoves ==
    ASSUME Inv, NEW r \in Request, Doing(r, "store"), req' = [req EXCEPT ![r] = Idle],
           req[r].new \/ db[req[r].table][req[r].id] # None
    PROVE  LET job == req[r]
               set == [db EXCEPT ![job.table][job.id] = job.row]
               d == IF job.row # None \/ job.table # "integrations" THEN set
                    ELSE [set EXCEPT !.runs = SetNull(@, job.id)]
           IN Moves(d)
  <1> DEFINE job == req[r]
             set == [db EXCEPT ![job.table][job.id] = job.row]
             runs == SetNull(db.runs, job.id)
             d == IF job.row # None \/ job.table # "integrations" THEN set
                  ELSE [set EXCEPT !.runs = SetNull(@, job.id)]
  <1>1. job.table \in {"integrations", "variables"}
    BY DEF Doing, Inv, Requests, Carries, IntegrationJob, VariableJob
  <1>2. CASE job.table = "variables"
    <2> DEFINE t == [db.variables EXCEPT ![job.id] = job.row]
    <2>1. d = [db EXCEPT !.variables = t]
      BY <1>2
    <2>2. db.variables[job.id] # None \/ job.new
      BY <1>2
    <2>3. Moves([db EXCEPT !.variables = t])
      BY <1>2, <2>2, CommitVariable, MoveVariables
    <2>4. QED
      BY <2>1, <2>3
  <1>3. CASE job.table = "integrations"
    <2> DEFINE t == [db.integrations EXCEPT ![job.id] = job.row]
    <2>1. set = [db EXCEPT !.integrations = t]
      BY <1>3
    <2>2. db.integrations[job.id] # None \/ job.new
      BY <1>3
    <2>3. /\ t \in [Integration -> Maybe(IntegrationRow)]
          /\ \A i \in Integration : t[i] # None =>
               /\ IntegrationAt(t[i])
               /\ IF db.integrations[i] = None THEN Unclaimed("integrations", i)
                  ELSE /\ t[i].project = db.integrations[i].project
                       /\ t[i].kind = db.integrations[i].kind
      BY <1>3, <2>2, CommitIntegration
    <2>4. Moves(set)
      BY <2>1, <2>3, MoveIntegrations
    <2>5. CASE job.row # None
      BY <2>4, <2>5
    <2>6. CASE job.row = None
      <3>1. set.runs = db.runs
        BY <2>1 DEF Inv, Sane, Typed
      <3>2. d = [set EXCEPT !.runs = runs]
        BY <1>3, <2>6, <3>1
      <3>3. runs \in [Run -> Maybe(RunRow)] /\ \A n \in Run : runs[n] # None =>
                db.runs[n] # None /\ SameRun(db.runs[n], runs[n])
        BY LoseSays
      <3> HIDE DEF runs, set, d, t
      <3>4. /\ DOMAIN d = DOMAIN set /\ d.runs = runs /\ d.users = set.users
            /\ d.roster = set.roster /\ d.projects = set.projects
            /\ d.categories = set.categories /\ d.skills = set.skills
            /\ d.workflows = set.workflows /\ d.policies = set.policies
            /\ d.integrations = set.integrations /\ d.variables = set.variables
        BY <2>4, <3>2 DEF Moves, Typed
      <3>5. Typed(d)
        BY <2>4, <3>3, <3>4 DEF Moves, Typed
      <3>6. RunsMove(d)
        BY <3>3, <3>4 DEF RunsMove
      <3>7. Moves(d)
        BY <2>4, <3>4, <3>5, <3>6, SMTT(30)
           DEF Moves, UsersMove, SkillsMove, WorkflowsMove, PoliciesMove, IntegrationsMove, VariablesMove
      <3>8. QED
        BY <3>7 DEF d, set
    <2>7. QED
      BY <2>5, <2>6
  <1>4. QED
    BY <1>1, <1>2, <1>3

LEMMA CommitStoreKeeps == ASSUME Inv, NEW r \in Request, CommitStore(r) PROVE Kept
  <1> DEFINE job == req[r]
             set == [db EXCEPT ![job.table][job.id] = job.row]
             d == IF job.row # None \/ job.table # "integrations" THEN set
                  ELSE [set EXCEPT !.runs = SetNull(@, job.id)]
             gone == ~job.new /\ db[job.table][job.id] = None
  <1>1. Doing(r, "store") /\ Finish(r, IF gone THEN db ELSE d) /\ UNCHANGED <<objects, vault, marks>>
    BY DEF CommitStore
  <1>2. req' = [req EXCEPT ![r] = Idle]
    BY <1>1 DEF Finish, Close
  <1>3. ~gone => Moves(d)
    BY <1>1, <1>2, CommitStoreMoves
  <1>4. Stores'
    BY <1>1, StoresStand DEF Inv, Stores
  <1> HIDE DEF d, gone
  <1>5. Moves(IF gone THEN db ELSE d)
    BY <1>3, NoMoves
  <1>6. QED
    BY <1>1, <1>4, <1>5, FinishKeeps

LEMMA VaultKeeps == ASSUME Inv, VaultNext PROVE Kept
  BY VaultRequestKeeps, CommitStoreKeeps DEF VaultNext

-----------------------------------------------------------------------------
(* Skills. *)

\* A table of skills that a request may leave behind.
SkillTable(t) ==
    /\ t \in [Skill -> Maybe(SkillRow)]
    /\ \A k \in Skill : t[k] # None =>
         /\ OwnText(t[k])
         /\ IF db.skills[k] = None THEN k \notin Held ELSE t[k].scope = db.skills[k].scope

LEMMA SkillsType ==
    ASSUME Inv
    PROVE  /\ db.skills \in [Skill -> Maybe(SkillRow)]
           /\ \A k \in Live(db.skills) :
                k \in Skill /\ db.skills[k] # None /\ db.skills[k] \in SkillRow /\ OwnText(db.skills[k])
           /\ \A k \in Skill : db.skills[k] # None => OwnText(db.skills[k])
           /\ SkillTable(db.skills)
  <1>1. db.skills \in [Skill -> Maybe(SkillRow)]
    BY DEF Inv, Sane, Typed
  <1>2. \A k \in Live(db.skills) :
           k \in Skill /\ db.skills[k] # None /\ db.skills[k] \in SkillRow /\ OwnText(db.skills[k])
    BY <1>1 DEF Inv, Sane, Texts, Live, Maybe
  <1>3. QED
    BY <1>1, <1>2 DEF SkillTable, Live

LEMMA StampType ==
    ASSUME NEW row \in SkillRow
    PROVE  /\ StampOf(row) \in Stamps /\ StampOf(row).sha.text = row.text
           /\ StampOf(row).key \in SkillName \X Bundle
  <1>1. pack_skill(row) \in Bundle
    BY DEF SkillRow, pack_skill, Bundle
  <1>2. row.name \in SkillName
    BY DEF SkillRow
  <1>3. StampOf(row).sha.text = row.text
    BY DEF StampOf, pack_skill
  <1>4. QED
    BY <1>1, <1>2, <1>3 DEF StampOf, skill_object_key, Stamps

LEMMA PublishedType ==
    ASSUME Inv, NEW rows \in SUBSET SkillRow
    PROVE  DOMAIN publish_skill(rows) \subseteq SkillName \X Bundle
  BY StampType DEF publish_skill, Inv, Stores

LEMMA ScopesIn == ASSUME Inv PROVE db.projects \subseteq Scope /\ Platform \in Scope
  BY VaultType DEF Scope

\* The row an import or a seed writes.
Blank(scope, name, v)   == [NewSkill(scope, name) EXCEPT !.text = <<scope, v>>]
Stamped(scope, name, v) == [Blank(scope, name, v) EXCEPT !.stamp = StampOf(Blank(scope, name, v))]

LEMMA NewSkillType ==
    ASSUME NEW scope \in Scope, NEW name \in SkillName, NEW v \in {0, 1}
    PROVE  /\ NewSkill(scope, name) \in SkillRow /\ OwnText(NewSkill(scope, name))
           /\ Stamped(scope, name, v) \in SkillRow /\ OwnText(Stamped(scope, name, v))
           /\ Stamped(scope, name, v).scope = scope /\ Stamped(scope, name, v).name = name
           /\ Stamped(scope, name, v).stamp = StampOf(Stamped(scope, name, v))
  <1> DEFINE blank == Blank(scope, name, v)
             row == Stamped(scope, name, v)
  <1>1. <<scope, 0>> \in Text /\ <<scope, v>> \in Text
    BY DEF Text
  <1>2. NewSkill(scope, name) \in SkillRow /\ OwnText(NewSkill(scope, name))
    BY <1>1 DEF NewSkill, SkillRow, Maybe, OwnText
  <1>3. /\ blank \in SkillRow /\ blank.text = <<scope, v>> /\ blank.scope = scope
        /\ blank.name = name
    BY <1>1 DEF Blank, NewSkill, SkillRow, Maybe
  <1>4. StampOf(blank) \in Stamps /\ StampOf(blank).sha.text = <<scope, v>>
    BY <1>3, StampType
  <1>5. /\ row \in SkillRow /\ row.scope = scope /\ row.text = <<scope, v>>
        /\ row.stamp = StampOf(blank) /\ row.name = name
    BY <1>3, <1>4 DEF Stamped, SkillRow, Maybe
  <1>6. OwnText(row)
    BY <1>4, <1>5 DEF OwnText
  <1>7. StampOf(row) = StampOf(blank)
    BY <1>3, <1>5 DEF StampOf, pack_skill, skill_object_key
  <1>8. QED
    BY <1>2, <1>5, <1>6, <1>7

LEMMA AddSkill ==
    ASSUME Inv, Room(db.skills, 1), NEW row \in SkillRow, OwnText(row)
    PROVE  SkillTable(Add(db.skills, row)) /\ NewId(db.skills) \in Skill
  <1> DEFINE k == NewId(db.skills)
  <1>1. k \in Skill /\ db.skills[k] = None /\ k \notin Held
    BY FreeRow, SkillsType
  <1> HIDE DEF k
  <1>2. Add(db.skills, row) = [db.skills EXCEPT ![k] = row]
    BY DEF Add, k
  <1>3. QED
    BY <1>1, <1>2, SkillsType DEF SkillTable, Maybe, k

LEMMA PutSkill ==
    ASSUME Inv, NEW k \in Live(db.skills), NEW row \in Maybe(SkillRow),
           row # None => OwnText(row) /\ row.scope = db.skills[k].scope
    PROVE  SkillTable([db.skills EXCEPT ![k] = row])
  BY SkillsType DEF SkillTable

LEMMA SkillTableMoves == ASSUME Inv, NEW t, SkillTable(t) PROVE Moves([db EXCEPT !.skills = t])
  BY MoveSkills DEF SkillTable

\* The text of a skill is committed, and its publication follows.
LEMMA WriteTextKeeps ==
    ASSUME Inv, NEW r \in Request, NEW k \in Skill, NEW t, SkillTable(t),
           WriteText(r, k, [db EXCEPT !.skills = t])
    PROVE  Kept
  <1> DEFINE d == [db EXCEPT !.skills = t]
             job == [op |-> "publish", rows |-> {k}, skill |-> k, stamp |-> None]
  <1>1. /\ Sound(d) /\ db' = d /\ Open(r, "skills", job)
        /\ marks' = Overtaken(k) /\ UNCHANGED <<objects, vault, faults>>
    BY DEF WriteText
  <1>2. Moves(d)
    BY SkillTableMoves
  <1>3. Carries(job) /\ Agrees(job, d) /\ job.op # "store"
    BY DEF Carries, Agrees, Ops, Maybe
  <1>4. Stores'
    BY <1>1, StoresStand DEF Overtaken, Inv, Stores
  <1> HIDE DEF d, job
  <1>5. QED
    BY <1>1, <1>2, <1>3, <1>4, OpenKeeps

LEMMA CreateSkillKeeps ==
    ASSUME Inv, NEW r \in Request, CreateSkill(r) \/ CreateProjectSkill(r)
    PROVE  Kept
  <1>1. PICK scope \in Scope, name \in SkillName :
           /\ Room(db.skills, 1)
           /\ WriteText(r, NewId(db.skills),
                        [db EXCEPT !.skills = Add(@, NewSkill(scope, name))])
    BY ScopesIn DEF CreateSkill, CreateProjectSkill
  <1>2. SkillTable(Add(db.skills, NewSkill(scope, name))) /\ NewId(db.skills) \in Skill
    BY <1>1, NewSkillType, AddSkill
  <1>3. QED
    BY <1>1, <1>2, WriteTextKeeps

LEMMA EditSkillKeeps ==
    ASSUME Inv, NEW r \in Request, EditSkill(r) \/ EditProjectSkill(r)
    PROVE  Kept
  <1>1. PICK k \in Live(db.skills), v \in {0, 1} :
           WriteText(r, k, [db EXCEPT !.skills[k].text = NewText(k, v)])
    BY DEF EditSkill, EditProjectSkill
  <1> DEFINE row == [db.skills[k] EXCEPT !.text = NewText(k, v)]
             t == [db.skills EXCEPT ![k] = row]
  <1>2. k \in Skill /\ db.skills[k] \in SkillRow /\ OwnText(db.skills[k])
    BY SkillsType
  <1>3. NewText(k, v) \in Text /\ NewText(k, v)[1] = db.skills[k].scope
    BY <1>2 DEF NewText, Text, SkillRow
  <1>4. row \in SkillRow /\ row.scope = db.skills[k].scope /\ row.text = NewText(k, v)
        /\ row.stamp = db.skills[k].stamp
    BY <1>2, <1>3 DEF SkillRow
  <1>5. WriteText(r, k, [db EXCEPT !.skills = t])
    BY <1>1
  <1> HIDE DEF row
  <1>6. OwnText(row) /\ row \in Maybe(SkillRow)
    BY <1>2, <1>3, <1>4 DEF OwnText, Maybe
  <1>7. SkillTable(t)
    BY <1>4, <1>6, PutSkill
  <1>8. QED
    BY <1>2, <1>5, <1>7, WriteTextKeeps

LEMMA RepublishKeeps == ASSUME Inv, NEW r \in Request, republish_skill(r) PROVE Kept
  <1> DEFINE j == req[r]
             k == j.skill
             row == db.skills[k]
             new == [j EXCEPT !.stamp = StampOf(row)]
  <1>1. /\ Doing(r, "publish") /\ j.stamp = None
        /\ objects' = IF row = None THEN objects ELSE publish_skill({row})
        /\ req' = [req EXCEPT ![r] = IF row = None \/ row.stamp = StampOf(row) THEN Idle ELSE new]
        /\ UNCHANGED <<db, vault, marks, left, faults>>
    BY DEF republish_skill
  <1>2. k \in Skill /\ DOMAIN j = {"op", "rows", "skill", "stamp"} /\ j.op = "publish" /\ j.rows = {k}
    BY <1>1 DEF Doing, Inv, Requests, Carries
  <1>3. row # None => row \in SkillRow /\ OwnText(row)
    BY <1>2, SkillsType DEF Maybe
  <1>4. Stores'
    BY <1>1, <1>3, PublishedType DEF Inv, Stores
  <1>5. DOMAIN req' = Request /\ \A s \in Request \ {r} : req'[s] = req[s]
    BY <1>1 DEF Inv, Requests
  <1>6. req'[r] = Idle \/ (row # None /\ req'[r] = new)
    BY <1>1 DEF Inv, Requests
  <1>7. /\ DOMAIN new = {"op", "rows", "skill", "stamp"} /\ new.op = "publish"
        /\ new.skill = k /\ new.rows = {k} /\ new.stamp = StampOf(row)
    BY <1>2
  <1> HIDE DEF new
  <1>8. row # None => Carries(new) /\ Agrees(new, db)
    BY <1>2, <1>3, <1>7, StampType DEF Carries, Agrees, Ops, Maybe, OwnText
  <1>9. Apart'
    BY <1>1, <1>5, <1>6, <1>7 DEF Inv, Requests, Apart, OnRow
  <1>10. QED
    BY <1>1, <1>4, <1>5, <1>6, <1>8, <1>9, InvStep

LEMMA StampSkillKeeps == ASSUME Inv, NEW r \in Request, StampSkill(r) PROVE Kept
  <1> DEFINE j == req[r]
             k == j.skill
             row == [db.skills[k] EXCEPT !.stamp = j.stamp]
             t == [db.skills EXCEPT ![k] = row]
             d == IF db.skills[k] = None THEN db ELSE [db EXCEPT !.skills = t]
  <1>1. Doing(r, "publish") /\ j.stamp # None /\ Finish(r, d) /\ UNCHANGED <<objects, vault, marks>>
    BY DEF StampSkill
  <1>2. k \in Skill /\ j.stamp \in Stamps /\ Agrees(j, db) /\ j.op = "publish"
    BY <1>1 DEF Doing, Inv, Requests, Carries, Maybe
  <1>3. ASSUME db.skills[k] # None PROVE SkillTable(t)
    <2>1. k \in Live(db.skills) /\ db.skills[k] \in SkillRow /\ OwnText(db.skills[k])
      BY <1>2, <1>3, SkillsType DEF Live, Maybe
    <2>2. row \in SkillRow /\ row.scope = db.skills[k].scope /\ row.text = db.skills[k].text
          /\ row.stamp = j.stamp
      BY <1>2, <2>1 DEF SkillRow, Maybe
    <2> HIDE DEF row
    <2>3. OwnText(row) /\ row \in Maybe(SkillRow)
      BY <1>1, <1>2, <1>3, <2>1, <2>2 DEF OwnText, Maybe, Agrees
    <2>4. QED
      BY <2>1, <2>2, <2>3, PutSkill
  <1>4. Moves(d)
    BY <1>3, SkillTableMoves, NoMoves
  <1>5. Stores'
    BY <1>1, StoresStand DEF Inv, Stores
  <1> HIDE DEF d
  <1>6. QED
    BY <1>1, <1>4, <1>5, FinishKeeps

LEMMA UpdateSkillKeeps == ASSUME Inv, UpdateSkill PROVE Kept
  <1>1. PICK k \in Live(db.skills), name \in SkillName :
           /\ Commit("skills", [db EXCEPT !.skills[k].name = name])
           /\ marks' = [marks EXCEPT !.behind = @ \cup {k}]
           /\ UNCHANGED <<objects, vault>>
    BY DEF UpdateSkill
  <1> DEFINE row == [db.skills[k] EXCEPT !.name = name]
             t == [db.skills EXCEPT ![k] = row]
  <1>2. k \in Skill /\ db.skills[k] \in SkillRow /\ OwnText(db.skills[k])
    BY SkillsType
  <1>3. row \in SkillRow /\ row.scope = db.skills[k].scope /\ row.text = db.skills[k].text
        /\ row.stamp = db.skills[k].stamp
    BY <1>2 DEF SkillRow
  <1>4. Commit("skills", [db EXCEPT !.skills = t])
    BY <1>1
  <1> HIDE DEF row
  <1>5. OwnText(row) /\ row \in Maybe(SkillRow)
    BY <1>2, <1>3 DEF OwnText, Maybe
  <1>6. Moves([db EXCEPT !.skills = t])
    BY <1>3, <1>5, PutSkill, SkillTableMoves
  <1>7. Stores'
    BY <1>1, StoresStand DEF Inv, Stores
  <1>8. QED
    BY <1>4, <1>6, <1>7, CommitKeeps

LEMMA RemoveSkillKeeps == ASSUME Inv, DeleteSkill \/ DeleteProjectSkill PROVE Kept
  <1>1. PICK k \in Live(db.skills) : RemoveSkill(k)
    BY DEF DeleteSkill, DeleteProjectSkill
  <1> DEFINE t == [db.skills EXCEPT ![k] = None]
  <1>2. Commit("skills", [db EXCEPT !.skills = t])
    BY <1>1 DEF RemoveSkill
  <1>3. Moves([db EXCEPT !.skills = t])
    BY PutSkill, SkillTableMoves DEF Maybe
  <1>4. Stores'
    BY <1>1, StoresStand DEF RemoveSkill, Inv, Stores
  <1>5. QED
    BY <1>2, <1>3, <1>4, CommitKeeps

\* The row of an import or a seed is put in the place of the one that is there.
Skilled(e, d, t) == e = [d EXCEPT !.skills = t]

\* Every other row stays as it was; this one is stamped.
Upserted(t, scope, name) ==
    LET there == Named(db.skills, scope, name)
    IN \A k \in Skill : t[k] # None =>
          \/ t[k] = db.skills[k] /\ (there # {} => k # CHOOSE i \in there : TRUE)
          \/ /\ k \in Named(t, scope, name) /\ t[k].stamp = StampOf(t[k])
             /\ IF there = {} THEN db.skills[k] = None ELSE k = CHOOSE i \in there : TRUE

LEMMA UpsertSays ==
    ASSUME Inv, NEW d, d.skills = db.skills, NEW scope \in Scope, NEW name \in SkillName,
           NEW v \in {0, 1}, Named(db.skills, scope, name) = {} => Room(db.skills, 1)
    PROVE  \E t : /\ SkillTable(t) /\ Upserted(t, scope, name)
                  /\ Skilled(UpsertSkill(d, scope, name, v), d, t)
  <1> DEFINE row == Stamped(scope, name, v)
             there == Named(db.skills, scope, name)
             k == CHOOSE k \in there : TRUE
  <1>1. /\ row \in SkillRow /\ OwnText(row) /\ row.scope = scope
        /\ row.name = name /\ row.stamp = StampOf(row)
    BY NewSkillType
  <1>2. UpsertSkill(d, scope, name, v) =
          IF there = {} THEN [d EXCEPT !.skills = Add(db.skills, row)]
          ELSE [d EXCEPT !.skills = [db.skills EXCEPT ![k] = row]]
    BY DEF UpsertSkill, Stamped, Blank
  <1> HIDE DEF row
  <1>3. DOMAIN db.skills = Skill /\ row # None
    BY <1>1, SkillsType, NoneAssumption
  <1>4. ASSUME NEW i \in Skill, NEW t, t = [db.skills EXCEPT ![i] = row]
        PROVE  /\ t[i] = row /\ i \in Named(t, scope, name)
               /\ \A j \in Skill \ {i} : t[j] = db.skills[j]
    <2>1. t[i] = row /\ DOMAIN t = Skill /\ \A j \in Skill \ {i} : t[j] = db.skills[j]
      BY <1>3, <1>4
    <2>2. QED
      BY <1>1, <1>3, <2>1 DEF Named, Live
  <1>5. CASE there = {}
    <2> DEFINE n == NewId(db.skills)
               t == Add(db.skills, row)
    <2>1. SkillTable(t) /\ n \in Skill /\ db.skills[n] = None
      BY <1>1, <1>3, <1>5, AddSkill, FreeRow
    <2>2. t = [db.skills EXCEPT ![n] = row]
      BY DEF Add
    <2> HIDE DEF n, t
    <2>3. Upserted(t, scope, name)
      BY <1>1, <1>4, <1>5, <2>1, <2>2 DEF Upserted
    <2>4. QED
      BY <1>2, <1>5, <2>1, <2>3 DEF Skilled, t
  <1>6. CASE there # {}
    <2> DEFINE t == [db.skills EXCEPT ![k] = row]
    <2>1. k \in there
      BY <1>6
    <2>2. k \in Live(db.skills) /\ db.skills[k].scope = scope /\ k \in Skill
      BY <2>1, SkillsType DEF Named
    <2>3. SkillTable(t)
      BY <1>1, <2>2, PutSkill DEF Maybe
    <2>4. /\ t[k] = row /\ k \in Named(t, scope, name)
          /\ \A j \in Skill \ {k} : t[j] = db.skills[j]
      <3>1. t = [db.skills EXCEPT ![k] = row] /\ k \in Skill
        BY <2>2
      <3> HIDE DEF t, k
      <3>2. t[k] = row /\ DOMAIN t = Skill /\ \A j \in Skill \ {k} : t[j] = db.skills[j]
        BY <1>3, <3>1
      <3>3. QED
        BY <1>1, <1>3, <3>1, <3>2 DEF Named, Live
    <2> HIDE DEF t
    <2>5. Upserted(t, scope, name)
      BY <1>1, <1>6, <2>4 DEF Upserted
    <2>6. QED
      BY <1>2, <1>6, <2>3, <2>5 DEF Skilled, t
  <1>7. QED
    BY <1>5, <1>6

LEMMA RowsLive ==
    ASSUME NEW t \in [Skill -> Maybe(SkillRow)]
    PROVE  {t[k] : k \in Live(t)} \subseteq SkillRow
  BY DEF Live, Maybe

LEMMA ImportSkillKeeps == ASSUME Inv, ImportSkill \/ seed_default_skills PROVE Kept
  <1>1. PICK name \in SkillName, v \in {0, 1} :
           LET there == Named(db.skills, Platform, name)
               d == UpsertSkill(db, Platform, name, v)
           IN /\ there = {} => Room(db.skills, 1)
              /\ Commit("skills", d)
              /\ objects' = publish_skill({d.skills[k] : k \in Named(d.skills, Platform, name)})
              /\ marks' = IF there = {} THEN marks ELSE Overtaken(CHOOSE k \in there : TRUE)
              /\ UNCHANGED vault
    BY DEF ImportSkill, seed_default_skills
  <1>2. PICK t : SkillTable(t) /\ UpsertSkill(db, Platform, name, v) = [db EXCEPT !.skills = t]
    <2>1. Platform \in Scope /\ (Named(db.skills, Platform, name) = {} => Room(db.skills, 1))
      BY <1>1, ScopesIn
    <2>2. \E t : SkillTable(t) /\ Skilled(UpsertSkill(db, Platform, name, v), db, t)
      BY <2>1, UpsertSays
    <2>3. QED
      BY <2>2 DEF Skilled
  <1> DEFINE d == [db EXCEPT !.skills = t]
  <1>3. d.skills = t
    BY DEF Inv, Sane, Typed
  <1>4. {t[k] : k \in Named(t, Platform, name)} \subseteq SkillRow
    BY <1>2, RowsLive DEF SkillTable, Named
  <1>5. objects' = publish_skill({t[k] : k \in Named(t, Platform, name)})
    BY <1>1, <1>2, <1>3
  <1>6. DOMAIN marks' = Marks
    BY <1>1 DEF Overtaken, Inv, Stores
  <1>7. Stores'
    BY <1>1, <1>4, <1>5, <1>6, PublishedType DEF Inv, Stores
  <1>8. Moves(d)
    BY <1>2, SkillTableMoves
  <1>9. QED
    BY <1>1, <1>2, <1>7, <1>8, CommitKeeps

LEMMA SkillRequestKeeps == ASSUME Inv, SkillRequest PROVE Kept
  BY CreateSkillKeeps, EditSkillKeeps, UpdateSkillKeeps, RemoveSkillKeeps, ImportSkillKeeps
     DEF SkillRequest

-----------------------------------------------------------------------------
(* Workflows and policies. *)

WorkflowTable(t) ==
    /\ t \in [Workflow -> Maybe(WorkflowRow)]
    /\ \A w \in Workflow : t[w] # None /\ db.workflows[w] # None =>
         t[w].scope = db.workflows[w].scope

PolicyTable(t, workflows) ==
    /\ t \in [Policy -> Maybe(PolicyRow)]
    /\ \A q \in Policy : t[q] # None =>
         IF db.policies[q] = None
         THEN t[q].scope \in {Platform, workflows[t[q].workflow].scope}
         ELSE t[q].scope = db.policies[q].scope /\ t[q].workflow = db.policies[q].workflow

LEMMA MoveCatalogue ==
    ASSUME Inv, NEW d, DOMAIN d = Fields, d.users = db.users, d.roster = db.roster,
           d.projects = db.projects, d.integrations = db.integrations,
           d.variables = db.variables, d.runs = db.runs, d.categories \subseteq Category,
           SkillTable(d.skills), WorkflowTable(d.workflows), PolicyTable(d.policies, d.workflows)
    PROVE  Moves(d)
  <1>1. Typed(d)
    BY DEF Typed, Fields, SkillTable, WorkflowTable, PolicyTable, Inv, Sane
  <1>2. SkillsMove(d) /\ WorkflowsMove(d) /\ PoliciesMove(d)
    BY DEF SkillsMove, SkillTable, WorkflowsMove, WorkflowTable, PoliciesMove, PolicyTable
  <1>3. QED
    BY <1>1, <1>2, StillMoves DEF Moves

LEMMA CatalogueType ==
    ASSUME Inv
    PROVE  /\ db.workflows \in [Workflow -> Maybe(WorkflowRow)]
           /\ db.policies \in [Policy -> Maybe(PolicyRow)]
           /\ \A w \in Live(db.workflows) :
                w \in Workflow /\ db.workflows[w] # None /\ db.workflows[w] \in WorkflowRow
           /\ \A q \in Live(db.policies) :
                /\ q \in Policy /\ db.policies[q] # None /\ db.policies[q] \in PolicyRow
                /\ db.policies[q].workflow \in Live(db.workflows)
           /\ WorkflowTable(db.workflows) /\ PolicyTable(db.policies, db.workflows)
           /\ \A ws : PolicyTable(db.policies, ws)
           /\ db.categories \subseteq Category /\ DOMAIN db = Fields
  <1>1. /\ db.workflows \in [Workflow -> Maybe(WorkflowRow)]
        /\ db.policies \in [Policy -> Maybe(PolicyRow)]
        /\ db.categories \subseteq Category /\ DOMAIN db = Fields
    BY DEF Inv, Sane, Typed, Fields
  <1>2. \A w \in Live(db.workflows) :
                w \in Workflow /\ db.workflows[w] # None /\ db.workflows[w] \in WorkflowRow
    BY <1>1 DEF Live, Maybe
  <1>3. ASSUME NEW q \in Live(db.policies)
        PROVE  /\ q \in Policy /\ db.policies[q] # None /\ db.policies[q] \in PolicyRow
               /\ db.policies[q].workflow \in Live(db.workflows)
    <2>1. q \in Policy /\ db.policies[q] # None /\ db.policies[q] \in PolicyRow
      BY <1>1 DEF Live, Maybe
    <2>2. db.workflows[db.policies[q].workflow] # None
      BY DEF Inv, Sane, Sound, PoliciesSound
    <2>3. db.policies[q].workflow \in Workflow
      BY <2>1 DEF PolicyRow
    <2>4. QED
      BY <1>1, <2>1, <2>2, <2>3 DEF Live
  <1>4. QED
    BY <1>1, <1>2, <1>3 DEF WorkflowTable, PolicyTable

\* Copies of the skills S, under their own stamps, in rows that were free.
Clones(t, S) ==
    \A i \in Skill : t[i] # None /\ t[i] # db.skills[i] =>
        /\ db.skills[i] = None /\ t[i].stamp = StampOf(t[i])
        /\ \E k \in S : StampOf(t[i]) = StampOf(db.skills[k])

LEMMA ClonesSay ==
    ASSUME Inv, NEW w \in Live(db.workflows), NEW p \in Project,
           Room(db.skills, Cardinality(Cloned(db, w, p)))
    PROVE  \E t : /\ SkillTable(t) /\ Clones(t, Cloned(db, w, p))
                  /\ clone_referenced_skills(db, w, p) = [db EXCEPT !.skills = t]
  <1> DEFINE S == Cloned(db, w, p)
             at == CHOOSE f \in Injection(S, Free(db.skills)) : TRUE
             clone(k) == [db.skills[k] EXCEPT !.scope = p, !.stamp = StampOf(db.skills[k])]
             from(i) == CHOOSE s \in S : at[s] = i
             t == [i \in DOMAIN db.skills |-> IF \E s \in S : at[s] = i
                                              THEN clone(from(i)) ELSE db.skills[i]]
  <1>1. clone_referenced_skills(db, w, p) = [db EXCEPT !.skills = t]
    BY DEF clone_referenced_skills, AddAll
  <1>2. S \subseteq Live(db.skills) /\ \A k \in S : db.skills[k].scope = Platform
    BY DEF Cloned
  <1>3. db.skills \in [Skill -> Maybe(SkillRow)] /\ SkillTable(db.skills)
    BY SkillsType
  <1>4. IsFiniteSet(Skill) /\ IsFiniteSet(S)
    <2>1. S \subseteq Skill
      BY <1>2, <1>3 DEF Live
    <2>2. QED
      BY <2>1, IdsAssumption, FS_Subset
  <1>5. at \in [S -> Free(db.skills)]
    <2>1. IsFiniteSet(DOMAIN db.skills) /\ Room(db.skills, Cardinality(S))
      BY <1>3, <1>4
    <2> HIDE DEF S
    <2>2. QED
      BY <1>4, <2>1, Seats
  <1>6. ASSUME NEW k \in S
        PROVE  /\ clone(k) \in SkillRow /\ OwnText(clone(k))
               /\ clone(k).stamp = StampOf(clone(k)) /\ StampOf(clone(k)) = StampOf(db.skills[k])
    <2>1. db.skills[k] \in SkillRow /\ OwnText(db.skills[k]) /\ db.skills[k].scope = Platform
      BY <1>2, SkillsType
    <2>2. StampOf(db.skills[k]) \in Stamps /\ StampOf(db.skills[k]).sha.text = db.skills[k].text
      BY <2>1, StampType
    <2>3. /\ clone(k) \in SkillRow /\ clone(k).scope = p /\ clone(k).text = db.skills[k].text
          /\ clone(k).stamp = StampOf(db.skills[k]) /\ clone(k).name = db.skills[k].name
      BY <2>1, <2>2 DEF SkillRow, Scope, Maybe
    <2> HIDE DEF clone
    <2>4. OwnText(clone(k))
      BY <2>1, <2>2, <2>3 DEF OwnText
    <2>5. StampOf(clone(k)) = StampOf(db.skills[k])
      BY <2>3 DEF StampOf, pack_skill, skill_object_key
    <2>6. QED
      BY <2>3, <2>4, <2>5
  <1>7. \A i \in Skill : (\E s \in S : at[s] = i) =>
            from(i) \in S /\ i \in Free(db.skills)
    BY <1>5
  <1> HIDE DEF clone, from, at, S
  <1>8. ASSUME NEW i \in Skill
        PROVE  /\ t[i] \in Maybe(SkillRow)
               /\ t[i] # None => /\ OwnText(t[i])
                                 /\ IF db.skills[i] = None THEN i \notin Held
                                    ELSE t[i].scope = db.skills[i].scope
               /\ t[i] # None /\ t[i] # db.skills[i] =>
                     /\ db.skills[i] = None /\ t[i].stamp = StampOf(t[i])
                     /\ \E k \in S : StampOf(t[i]) = StampOf(db.skills[k])
    <2>1. CASE \E s \in S : at[s] = i
      <3>1. t[i] = clone(from(i)) /\ from(i) \in S /\ i \in Free(db.skills)
        BY <1>3, <1>7, <2>1
      <3>2. db.skills[i] = None /\ i \notin Held
        BY <1>3, <3>1 DEF Free, Live
      <3>3. QED
        BY <1>6, <3>1, <3>2 DEF Maybe
    <2>2. CASE ~\E s \in S : at[s] = i
      <3>1. t[i] = db.skills[i]
        BY <1>3, <2>2
      <3>2. QED
        BY <1>3, <3>1, SkillsType
    <2>3. QED
      BY <2>1, <2>2
  <1>9. SkillTable(t) /\ Clones(t, S)
    <2>1. t = [i \in Skill |-> t[i]]
      BY <1>3
    <2> HIDE DEF t
    <2>2. SkillTable(t)
      BY <1>8, <2>1 DEF SkillTable
    <2>3. Clones(t, S)
      BY <1>8 DEF Clones
    <2>4. QED
      BY <2>2, <2>3
  <1>10. QED
    BY <1>1, <1>9 DEF S

LEMMA MoveCategories ==
    ASSUME Inv, NEW c \in SUBSET Category
    PROVE  Moves([db EXCEPT !.categories = c])
  <1> DEFINE d == [db EXCEPT !.categories = c]
  <1>1. Typed(d)
    BY DEF Inv, Sane, Typed
  <1>2. /\ d.users = db.users /\ d.skills = db.skills /\ d.workflows = db.workflows
        /\ d.policies = db.policies /\ d.integrations = db.integrations
        /\ d.variables = db.variables /\ d.runs = db.runs
    BY DEF Inv, Sane, Typed
  <1> HIDE DEF d
  <1>3. Moves(d)
    BY <1>1, <1>2, MoveMembers
  <1>4. QED
    BY <1>3 DEF d

LEMMA CategoriesKeep ==
    ASSUME Inv, create_workflow_category \/ delete_workflow_category \/ seed_default_categories
    PROVE  Kept
  <1>1. PICK c \in SUBSET Category :
           Commit("workflows", [db EXCEPT !.categories = c]) /\ UNCHANGED <<objects, vault, marks>>
    <2>1. ASSUME NEW c \in Category PROVE db.categories \cup {c} \in SUBSET Category
                                          /\ db.categories \ {c} \in SUBSET Category
      BY CatalogueType
    <2>2. CASE create_workflow_category
      BY <2>1, <2>2 DEF create_workflow_category
    <2>3. CASE delete_workflow_category
      BY <2>1, <2>3, CatalogueType DEF delete_workflow_category
    <2>4. CASE seed_default_categories
      BY <2>4 DEF seed_default_categories
    <2>5. QED
      BY <2>2, <2>3, <2>4
  <1>2. Stores'
    BY <1>1, StoresStand DEF Inv, Stores
  <1>3. QED
    BY <1>1, <1>2, MoveCategories, CommitKeeps

LEMMA WorkflowTableMoves == ASSUME Inv, NEW t, WorkflowTable(t) PROVE Moves([db EXCEPT !.workflows = t])
  BY MoveWorkflows DEF WorkflowTable

LEMMA PolicyTableMoves ==
    ASSUME Inv, NEW t, PolicyTable(t, db.workflows)
    PROVE  Moves([db EXCEPT !.policies = t])
  BY MovePolicies DEF PolicyTable

LEMMA AddWorkflow ==
    ASSUME Inv, Room(db.workflows, 1), NEW row \in WorkflowRow
    PROVE  WorkflowTable(Add(db.workflows, row)) /\ NewId(db.workflows) \in Workflow
  <1> DEFINE w == NewId(db.workflows)
  <1>1. w \in Workflow /\ db.workflows[w] = None
    BY FreeRow, CatalogueType
  <1> HIDE DEF w
  <1>2. Add(db.workflows, row) = [db.workflows EXCEPT ![w] = row]
    BY DEF Add, w
  <1>3. QED
    BY <1>1, <1>2, CatalogueType DEF WorkflowTable, Maybe, w

LEMMA CreateWorkflowKeeps == ASSUME Inv, CreateWorkflow PROVE Kept
  <1>1. PICK name \in WorkflowName, uses \in SUBSET SkillName, c \in db.categories :
           /\ Room(db.workflows, 1)
           /\ Commit("workflows",
                  [db EXCEPT !.workflows = Add(@, [scope |-> Platform, name |-> name,
                                                   uses |-> uses, category |-> c])])
           /\ UNCHANGED <<objects, vault, marks>>
    BY DEF CreateWorkflow
  <1> DEFINE row == [scope |-> Platform, name |-> name, uses |-> uses, category |-> c]
  <1>2. row \in WorkflowRow
    BY ScopesIn, CatalogueType DEF WorkflowRow, Maybe
  <1>3. Moves([db EXCEPT !.workflows = Add(db.workflows, row)])
    BY <1>1, <1>2, AddWorkflow, WorkflowTableMoves
  <1>4. Stores'
    BY <1>1, StoresStand DEF Inv, Stores
  <1>5. QED
    BY <1>1, <1>3, <1>4, CommitKeeps

LEMMA RewriteKeeps ==
    ASSUME Inv, UpdateWorkflow \/ UpdateProjectWorkflow
    PROVE  Kept
  <1>1. PICK w \in Live(db.workflows), name \in WorkflowName, uses \in SUBSET SkillName,
             c \in db.categories : Rewrite(w, name, uses, c)
    BY DEF UpdateWorkflow, UpdateProjectWorkflow
  <1> DEFINE row == [db.workflows[w] EXCEPT !.name = name, !.uses = uses, !.category = c]
             t == [db.workflows EXCEPT ![w] = row]
  <1>2. w \in Workflow /\ db.workflows[w] \in WorkflowRow /\ c \in Category
    BY CatalogueType
  <1>3. row \in WorkflowRow /\ row.scope = db.workflows[w].scope
    BY <1>2 DEF WorkflowRow, Maybe
  <1>4. Commit("workflows", [db EXCEPT !.workflows = t]) /\ UNCHANGED <<objects, vault, marks>>
    BY <1>1 DEF Rewrite
  <1> HIDE DEF row
  <1>5. WorkflowTable(t)
    BY <1>2, <1>3, CatalogueType DEF WorkflowTable, Maybe
  <1>6. Stores'
    BY <1>4, StoresStand DEF Inv, Stores
  <1>7. QED
    BY <1>4, <1>5, <1>6, WorkflowTableMoves, CommitKeeps

LEMMA RemoveWorkflowKeeps ==
    ASSUME Inv, DeleteWorkflow \/ DeleteProjectWorkflow
    PROVE  Kept
  <1>1. PICK w \in Live(db.workflows) : RemoveWorkflow(w)
    BY DEF DeleteWorkflow, DeleteProjectWorkflow
  <1> DEFINE left_runs == [n \in DOMAIN db.runs |->
                 IF db.runs[n] # None /\ db.runs[n].workflow = w THEN None ELSE db.runs[n]]
             left_policies == [q \in DOMAIN db.policies |->
                 IF db.policies[q] # None /\ db.policies[q].workflow = w THEN None ELSE db.policies[q]]
             left_flows == [db.workflows EXCEPT ![w] = None]
             d == [db EXCEPT !.runs = left_runs, !.policies = left_policies,
                             !.workflows = left_flows]
  <1>2. Commit("workflows", d) /\ UNCHANGED <<objects, vault, marks>>
    BY <1>1 DEF RemoveWorkflow, Without
  <1>3. /\ left_policies \in [Policy -> Maybe(PolicyRow)]
        /\ \A q \in Policy : left_policies[q] # None => left_policies[q] = db.policies[q]
    BY CatalogueType DEF Maybe
  <1>4. /\ left_runs \in [Run -> Maybe(RunRow)]
        /\ \A n \in Run : left_runs[n] # None => left_runs[n] = db.runs[n]
    BY DEF Maybe, Inv, Sane, Typed
  <1>5. /\ left_flows \in [Workflow -> Maybe(WorkflowRow)]
        /\ \A x \in Workflow : left_flows[x] # None => left_flows[x] = db.workflows[x]
    BY CatalogueType DEF Maybe
  <1> HIDE DEF left_runs, left_policies, left_flows
  <1>6. /\ DOMAIN d = Fields /\ d.users = db.users /\ d.roster = db.roster /\ d.projects = db.projects
        /\ d.categories = db.categories /\ d.skills = db.skills
        /\ d.integrations = db.integrations /\ d.variables = db.variables
        /\ d.workflows = left_flows /\ d.policies = left_policies /\ d.runs = left_runs
    BY CatalogueType DEF Fields
  <1> HIDE DEF d
  <1>7. Typed(d)
    BY <1>3, <1>4, <1>5, <1>6 DEF Inv, Sane, Typed, Fields
  <1>8. WorkflowsMove(d) /\ PoliciesMove(d)
    BY <1>3, <1>5, <1>6 DEF WorkflowsMove, PoliciesMove
  <1>9. RunsMove(d)
    BY <1>4, <1>6 DEF RunsMove, SameRun
  <1>10. Moves(d)
    BY <1>6, <1>7, <1>8, <1>9, StillMoves DEF Moves
  <1>11. Stores'
    BY <1>2, StoresStand DEF Inv, Stores
  <1>12. QED
    BY <1>2, <1>10, <1>11, CommitKeeps

LEMMA CopiesSay ==
    ASSUME Inv, NEW w \in Live(db.workflows), NEW p \in Project, NEW x \in Workflow,
           NEW flows, flows[x] # None, flows[x].scope = p,
           Room(db.policies, Cardinality({q \in Live(db.policies) : db.policies[q].workflow = w}))
    PROVE  LET its == {q \in Live(db.policies) : db.policies[q].workflow = w}
               copy(q) == [db.policies[q] EXCEPT !.scope = p, !.workflow = x]
           IN PolicyTable(AddAll(db.policies, its, copy), flows)
  <1> DEFINE S == {q \in Live(db.policies) : db.policies[q].workflow = w}
             at == CHOOSE f \in Injection(S, Free(db.policies)) : TRUE
             copy(q) == [db.policies[q] EXCEPT !.scope = p, !.workflow = x]
             from(i) == CHOOSE s \in S : at[s] = i
             t == [i \in DOMAIN db.policies |-> IF \E s \in S : at[s] = i
                                                THEN copy(from(i)) ELSE db.policies[i]]
  <1>1. AddAll(db.policies, S, copy) = t
    BY DEF AddAll
  <1>2. db.policies \in [Policy -> Maybe(PolicyRow)]
    BY CatalogueType
  <1>3. IsFiniteSet(Policy) /\ IsFiniteSet(S)
    <2>1. S \subseteq Policy
      BY CatalogueType
    <2>2. QED
      BY <2>1, IdsAssumption, FS_Subset
  <1>4. at \in [S -> Free(db.policies)]
    <2>1. IsFiniteSet(DOMAIN db.policies) /\ Room(db.policies, Cardinality(S))
      BY <1>2, <1>3
    <2> HIDE DEF S
    <2>2. QED
      BY <1>3, <2>1, Seats
  <1>5. ASSUME NEW q \in S
        PROVE  copy(q) \in PolicyRow /\ copy(q).scope = p /\ copy(q).workflow = x
    <2>1. db.policies[q] \in PolicyRow
      BY CatalogueType
    <2>2. QED
      BY <2>1 DEF PolicyRow, Scope
  <1>6. \A i \in Policy : (\E s \in S : at[s] = i) =>
            from(i) \in S /\ i \in Free(db.policies)
    BY <1>4
  <1> HIDE DEF copy, from, at, S
  <1>7. ASSUME NEW i \in Policy
        PROVE  /\ t[i] \in Maybe(PolicyRow)
               /\ t[i] # None =>
                    IF db.policies[i] = None
                    THEN t[i].scope \in {Platform, flows[t[i].workflow].scope}
                    ELSE t[i].scope = db.policies[i].scope /\ t[i].workflow = db.policies[i].workflow
    <2>1. CASE \E s \in S : at[s] = i
      <3>1. t[i] = copy(from(i)) /\ from(i) \in S /\ i \in Free(db.policies)
        BY <1>2, <1>6, <2>1
      <3>2. db.policies[i] = None
        BY <1>2, <3>1 DEF Free, Live
      <3>3. QED
        BY <1>5, <3>1, <3>2 DEF Maybe
    <2>2. CASE ~\E s \in S : at[s] = i
      BY <1>2, <2>2
    <2>3. QED
      BY <2>1, <2>2
  <1>8. t = [i \in Policy |-> t[i]]
    BY <1>2
  <1>9. PolicyTable(t, flows)
    <2> HIDE DEF t
    <2>1. QED
      BY <1>7, <1>8 DEF PolicyTable
  <1>10. AddAll(db.policies, S, copy) = AddAll(db.policies, {q \in Live(db.policies) : db.policies[q].workflow = w}, copy)
    BY DEF S
  <1>11. QED
    BY <1>1, <1>9 DEF S, copy

LEMMA CopySays ==
    ASSUME Inv, NEW w \in Live(db.workflows), NEW p \in Project, RoomForCopy(w, p)
    PROVE  \E s, f, q :
             /\ SkillTable(s) /\ WorkflowTable(f) /\ PolicyTable(q, f)
             /\ Clones(s, Cloned(db, w, p)) /\ Named(f, p, db.workflows[w].name) # {}
             /\ CopyOf(db, w, p) = [db EXCEPT !.skills = s, !.workflows = f, !.policies = q]
  <1> DEFINE x == NewId(db.workflows)
             row == [db.workflows[w] EXCEPT !.scope = p]
             f == [db.workflows EXCEPT ![x] = row]
             its == {q \in Live(db.policies) : db.policies[q].workflow = w}
             copy(q) == [db.policies[q] EXCEPT !.scope = p, !.workflow = x]
             new == AddAll(db.policies, its, copy)
             c == clone_referenced_skills(db, w, p)
  <1>1. /\ Room(db.workflows, 1) /\ Room(db.skills, Cardinality(Cloned(db, w, p)))
        /\ Room(db.policies, Cardinality(its))
    BY DEF RoomForCopy
  <1>2. row \in WorkflowRow /\ row.scope = p /\ row.name = db.workflows[w].name
    <2>1. db.workflows[w] \in WorkflowRow
      BY CatalogueType
    <2>2. QED
      BY <2>1 DEF WorkflowRow, Scope
  <1>3. x \in Workflow /\ WorkflowTable(Add(db.workflows, row))
    BY <1>1, <1>2, AddWorkflow
  <1>4. Add(db.workflows, row) = f
    BY DEF Add
  <1>5. row # None
    BY <1>2, NoneAssumption
  <1>6. f[x] = row
    BY <1>3, CatalogueType
  <1>7. PICK s : SkillTable(s) /\ Clones(s, Cloned(db, w, p)) /\ c = [db EXCEPT !.skills = s]
    BY <1>1, ClonesSay
  <1>8. CopyOf(db, w, p) = [c EXCEPT !.workflows[x] = row, !.policies = AddAll(c.policies, its, copy)]
    BY DEF CopyOf
  <1>9. c.workflows = db.workflows /\ c.policies = db.policies
    BY <1>7, CatalogueType DEF Fields
  <1>10. CopyOf(db, w, p) = [c EXCEPT !.workflows = f, !.policies = new]
    BY <1>8, <1>9
  <1> HIDE DEF row, x
  <1>11. PolicyTable(new, f)
    BY <1>1, <1>2, <1>3, <1>5, <1>6, CopiesSay
  <1>12. Named(f, p, db.workflows[w].name) # {}
    <2>1. x \in Named(f, p, db.workflows[w].name)
      BY <1>2, <1>3, <1>5, <1>6, CatalogueType DEF Named, Live
    <2>2. QED
      BY <2>1
  <1> HIDE DEF f, new, c
  <1>13. CopyOf(db, w, p) = [db EXCEPT !.skills = s, !.workflows = f, !.policies = new]
    BY <1>7, <1>10
  <1>14. QED
    BY <1>3, <1>4, <1>7, <1>11, <1>12, <1>13

LEMMA CopyMoves ==
    ASSUME Inv, NEW w \in Live(db.workflows), NEW p \in Project, RoomForCopy(w, p)
    PROVE  /\ Moves(CopyOf(db, w, p)) /\ CopyOf(db, w, p).runs = db.runs
           /\ CopyOf(db, w, p).integrations = db.integrations
           /\ Named(CopyOf(db, w, p).workflows, p, db.workflows[w].name) # {}
           /\ Clones(CopyOf(db, w, p).skills, Cloned(db, w, p))
  <1>1. PICK s, f, q :
             /\ SkillTable(s) /\ WorkflowTable(f) /\ PolicyTable(q, f)
             /\ Clones(s, Cloned(db, w, p)) /\ Named(f, p, db.workflows[w].name) # {}
             /\ CopyOf(db, w, p) = [db EXCEPT !.skills = s, !.workflows = f, !.policies = q]
    BY CopySays
  <1> DEFINE d == [db EXCEPT !.skills = s, !.workflows = f, !.policies = q]
  <1>2. /\ DOMAIN d = Fields /\ d.users = db.users /\ d.roster = db.roster
        /\ d.projects = db.projects /\ d.integrations = db.integrations
        /\ d.variables = db.variables /\ d.runs = db.runs /\ d.categories = db.categories
        /\ d.skills = s /\ d.workflows = f /\ d.policies = q
    BY CatalogueType DEF Fields
  <1> HIDE DEF d
  <1>3. Moves(d)
    BY <1>1, <1>2, MoveCatalogue, CatalogueType
  <1>4. CopyOf(db, w, p) = d
    BY <1>1 DEF d
  <1>5. QED
    BY <1>1, <1>2, <1>3, <1>4

LEMMA CopyKeeps == ASSUME Inv, CopyToProject \/ ManagerCopiesToProject PROVE Kept
  <1>1. PICK w \in Live(db.workflows), p \in db.projects : CopyTo(w, p)
    BY DEF CopyToProject, ManagerCopiesToProject
  <1>2. p \in Project
    BY DEF Inv, Sane, Typed
  <1>3. /\ RoomForCopy(w, p) /\ Commit("workflows", CopyOf(db, w, p))
        /\ objects' = publish_skill({db.skills[k] : k \in Cloned(db, w, p)})
        /\ UNCHANGED <<vault, marks>>
    BY <1>1 DEF CopyTo
  <1>4. {db.skills[k] : k \in Cloned(db, w, p)} \subseteq SkillRow
    BY SkillsType DEF Cloned
  <1>5. Stores'
    BY <1>3, <1>4, PublishedType DEF Inv, Stores
  <1>6. QED
    BY <1>2, <1>3, <1>5, CopyMoves, CommitKeeps

LEMMA AddedPolicy ==
    ASSUME Inv, Room(db.policies, 1), NEW flows, NEW scope \in Scope, NEW w \in Workflow,
           NEW on \in BOOLEAN, scope \in {Platform, flows[w].scope}
    PROVE  PolicyTable(Add(db.policies, [scope |-> scope, workflow |-> w, active |-> on]), flows)
  <1> DEFINE q == NewId(db.policies)
             row == [scope |-> scope, workflow |-> w, active |-> on]
  <1>1. q \in Policy /\ db.policies[q] = None
    BY FreeRow, CatalogueType
  <1>2. row \in PolicyRow /\ row.scope = scope /\ row.workflow = w
    BY DEF PolicyRow
  <1> HIDE DEF q, row
  <1>3. Add(db.policies, row) = [db.policies EXCEPT ![q] = row]
    BY DEF Add, q
  <1>4. PolicyTable(Add(db.policies, row), flows)
    BY <1>1, <1>2, <1>3, CatalogueType DEF PolicyTable, Maybe
  <1>5. QED
    BY <1>4 DEF row

LEMMA CreatePolicyKeeps == ASSUME Inv, CreatePolicy \/ CreateProjectPolicy PROVE Kept
  <1>1. PICK w \in Live(db.workflows) :
           \E scope \in {Platform, db.workflows[w].scope} : AddPolicy(scope, w)
    BY DEF CreatePolicy, CreateProjectPolicy
  <1>2. PICK scope \in {Platform, db.workflows[w].scope} : AddPolicy(scope, w)
    BY <1>1
  <1> w \in Workflow /\ scope \in Scope
    BY CatalogueType, ScopesIn DEF WorkflowRow
  <1>3. PolicyTable(Add(db.policies, [scope |-> scope, workflow |-> w, active |-> TRUE]), db.workflows)
    BY <1>2, AddedPolicy DEF AddPolicy
  <1>4. Stores'
    BY <1>2, StoresStand DEF AddPolicy, Inv, Stores
  <1>5. QED
    BY <1>2, <1>3, <1>4, PolicyTableMoves, CommitKeeps DEF AddPolicy

LEMMA SetActiveKeeps == ASSUME Inv, UpdatePolicy \/ UpdateProjectPolicy PROVE Kept
  <1>1. PICK q \in Live(db.policies), on \in BOOLEAN : SetActive(q, on)
    BY DEF UpdatePolicy, UpdateProjectPolicy
  <1> DEFINE row == [db.policies[q] EXCEPT !.active = on]
             t == [db.policies EXCEPT ![q] = row]
  <1>2. q \in Policy /\ db.policies[q] \in PolicyRow /\ db.policies[q] # None
    BY CatalogueType
  <1>3. row \in PolicyRow /\ row.scope = db.policies[q].scope /\ row.workflow = db.policies[q].workflow
    BY <1>2 DEF PolicyRow
  <1>4. Commit("workflows", [db EXCEPT !.policies = t]) /\ UNCHANGED <<objects, vault, marks>>
    BY <1>1 DEF SetActive
  <1> HIDE DEF row
  <1>5. PolicyTable(t, db.workflows)
    BY <1>2, <1>3, CatalogueType DEF PolicyTable, Maybe
  <1>6. Stores'
    BY <1>4, StoresStand DEF Inv, Stores
  <1>7. QED
    BY <1>4, <1>5, <1>6, PolicyTableMoves, CommitKeeps

LEMMA RemovePolicyKeeps == ASSUME Inv, DeletePolicy \/ DeleteProjectPolicy PROVE Kept
  <1>1. PICK q \in Live(db.policies) : RemovePolicy(q)
    BY DEF DeletePolicy, DeleteProjectPolicy
  <1> DEFINE t == [db.policies EXCEPT ![q] = None]
  <1>2. Commit("workflows", [db EXCEPT !.policies = t]) /\ UNCHANGED <<objects, vault, marks>>
    BY <1>1 DEF RemovePolicy
  <1>3. PolicyTable(t, db.workflows)
    BY CatalogueType DEF PolicyTable, Maybe
  <1>4. Stores'
    BY <1>2, StoresStand DEF Inv, Stores
  <1>5. QED
    BY <1>2, <1>3, <1>4, PolicyTableMoves, CommitKeeps

-----------------------------------------------------------------------------
(* Archives and seeds. *)

Flowed(d, cs, f) == d = [db EXCEPT !.categories = cs, !.workflows = f]

LEMMA FlowSays ==
    ASSUME Inv, Room(db.workflows, 1), NEW scope \in Scope, NEW name \in WorkflowName,
           NEW uses \in SUBSET SkillName, NEW c \in Maybe(Category)
    PROVE  \E f, cs :
             /\ WorkflowTable(f) /\ cs \subseteq Category /\ Named(f, scope, name) # {}
             /\ Flowed(ImportOneWorkflow(db, scope, name, uses, c), cs, f)
  <1> DEFINE there == Named(db.workflows, scope, name)
             cs == db.categories \cup ({c} \ {None})
             row == [scope |-> scope, name |-> name, uses |-> uses, category |-> c]
             k == CHOOSE w \in there : TRUE
             new == Overwrite(db.workflows[k], uses, c)
             f == IF there = {} THEN Add(db.workflows, row) ELSE [db.workflows EXCEPT ![k] = new]
  <1>1. Flowed(ImportOneWorkflow(db, scope, name, uses, c), cs, f)
    <2> HIDE DEF row
    <2>1. CASE there = {}
      BY <2>1, CatalogueType DEF ImportOneWorkflow, Fields, row, Flowed
    <2>2. CASE there # {}
      BY <2>2, CatalogueType DEF ImportOneWorkflow, Fields, Flowed
    <2>3. QED
      BY <2>1, <2>2
  <1>2. cs \subseteq Category
    BY CatalogueType DEF Maybe
  <1>3. CASE there = {}
    <2>1. row \in WorkflowRow /\ row.scope = scope /\ row.name = name
      BY DEF WorkflowRow
    <2> HIDE DEF row
    <2>2. WorkflowTable(f) /\ NewId(db.workflows) \in Workflow
      BY <1>3, <2>1, AddWorkflow
    <2>3. f[NewId(db.workflows)] = row /\ row # None /\ DOMAIN f = Workflow
      BY <1>3, <2>1, <2>2, CatalogueType, NoneAssumption DEF Add
    <2>4. Named(f, scope, name) # {}
      BY <2>1, <2>2, <2>3 DEF Named, Live
    <2>5. QED
      BY <1>1, <1>2, <2>2, <2>4
  <1>4. CASE there # {}
    <2>1. k \in Live(db.workflows) /\ db.workflows[k].scope = scope /\ db.workflows[k].name = name
      BY <1>4 DEF Named
    <2>2. k \in Workflow /\ db.workflows[k] \in WorkflowRow /\ db.workflows[k] # None
      BY <2>1, CatalogueType
    <2>3. new \in WorkflowRow /\ new.scope = scope /\ new.name = name
      BY <2>1, <2>2 DEF Overwrite, WorkflowRow, Maybe
    <2> HIDE DEF new, k
    <2>4. f = [db.workflows EXCEPT ![k] = new] /\ new # None
      BY <1>4, <2>3, NoneAssumption
    <2> HIDE DEF f, there
    <2>5. WorkflowTable(f)
      BY <2>1, <2>2, <2>3, <2>4, CatalogueType DEF WorkflowTable, Maybe
    <2>6. f[k] = new /\ DOMAIN f = Workflow
      BY <2>2, <2>4, CatalogueType
    <2>7. Named(f, scope, name) # {}
      BY <2>2, <2>3, <2>4, <2>6 DEF Named, Live
    <2>8. QED
      BY <1>1, <1>2, <2>5, <2>7
  <1>5. QED
    BY <1>3, <1>4

\* The tables of an archive's rows.
Filed(d, cs, f, s, q) ==
    d = [db EXCEPT !.categories = cs, !.workflows = f, !.skills = s, !.policies = q]

LEMMA FiledMoves ==
    ASSUME Inv, NEW d, NEW cs \in SUBSET Category, NEW f, NEW s, NEW q, WorkflowTable(f),
           SkillTable(s), PolicyTable(q, f), Filed(d, cs, f, s, q)
    PROVE  Moves(d) /\ d.skills = s
  <1>1. /\ DOMAIN d = Fields /\ d.users = db.users /\ d.roster = db.roster
        /\ d.projects = db.projects /\ d.integrations = db.integrations
        /\ d.variables = db.variables /\ d.runs = db.runs /\ d.categories = cs
        /\ d.skills = s /\ d.workflows = f /\ d.policies = q
    BY CatalogueType DEF Fields, Filed
  <1>2. QED
    BY <1>1, MoveCatalogue

LEMMA ImportWorkflowKeeps == ASSUME Inv, ImportWorkflow PROVE Kept
  <1>1. PICK scope \in {Platform} \cup db.projects, name \in WorkflowName, k \in SkillName,
             c \in Category \cup {None}, v \in {0, 1}, skill \in BOOLEAN, policy \in BOOLEAN :
           LET had == Named(db.skills, scope, k)
               d == Imported(scope, name, k, c, v, skill, policy)
           IN /\ AnAdmin
              /\ Room(db.workflows, 1) /\ Room(db.skills, 1) /\ Room(db.policies, 1)
              /\ Commit("workflows", d)
              /\ objects' = IF skill THEN publish_skill({d.skills[i] : i \in Named(d.skills, scope, k)})
                            ELSE objects
              /\ marks' = IF skill /\ had # {} THEN Overtaken(CHOOSE i \in had : TRUE) ELSE marks
              /\ UNCHANGED vault
    BY DEF ImportWorkflow
  <1>2. scope \in Scope /\ {k} \in SUBSET SkillName /\ c \in Maybe(Category)
    BY ScopesIn DEF Maybe
  <1> DEFINE flow == ImportOneWorkflow(db, scope, name, {k}, c)
             skilled == IF skill THEN ImportOneSkill(flow, scope, k, v) ELSE flow
             d == IF policy THEN ImportOnePolicy(skilled, scope, name) ELSE skilled
  <1>3. PICK f, cs :
           /\ WorkflowTable(f) /\ cs \subseteq Category /\ Named(f, scope, name) # {}
           /\ Flowed(flow, cs, f)
    <2>1. Room(db.workflows, 1)
      BY <1>1
    <2>2. QED
      BY <1>2, <2>1, FlowSays
  <1> HIDE DEF flow
  <1>4. /\ flow = [db EXCEPT !.categories = cs, !.workflows = f]
        /\ flow.skills = db.skills /\ flow.workflows = f /\ flow.policies = db.policies
    BY <1>3, CatalogueType DEF Fields, Flowed
  <1>5. PICK s : SkillTable(s) /\ skilled = [flow EXCEPT !.skills = s]
    <2>1. CASE skill
      <3>1. Room(db.skills, 1)
        BY <1>1
      <3>2. skilled = UpsertSkill(flow, scope, k, v)
        BY <2>1 DEF ImportOneSkill
      <3>3. \E s : SkillTable(s) /\ Skilled(UpsertSkill(flow, scope, k, v), flow, s)
        BY <1>2, <1>4, <3>1, UpsertSays
      <3>4. QED
        BY <3>2, <3>3 DEF Skilled
    <2>2. CASE ~skill
      <3>1. flow = [flow EXCEPT !.skills = db.skills]
        BY <1>4, CatalogueType DEF Fields
      <3>2. QED
        BY <2>2, <3>1, SkillsType
    <2>3. QED
      BY <2>1, <2>2
  <1> HIDE DEF skilled
  <1>6. /\ skilled.skills = s /\ skilled.workflows = f /\ skilled.policies = db.policies
        /\ skilled = [db EXCEPT !.categories = cs, !.workflows = f, !.skills = s]
    BY <1>4, <1>5, CatalogueType DEF Fields
  <1>7. PICK q : PolicyTable(q, f) /\ d = [skilled EXCEPT !.policies = q]
    <2> DEFINE w == CHOOSE w \in Named(f, scope, name) : TRUE
               row == [scope |-> scope, workflow |-> w, active |-> FALSE]
    <2>1. PolicyTable(db.policies, f) /\ skilled = [skilled EXCEPT !.policies = db.policies]
      BY <1>6, CatalogueType DEF Fields
    <2>2. w \in Workflow /\ f[w].scope = scope
      BY <1>3 DEF Named, Live, WorkflowTable
    <2>3. PolicyTable(Add(db.policies, row), f)
      BY <1>1, <1>2, <2>2, AddedPolicy
    <2>4. policy => d \in {skilled, [skilled EXCEPT !.policies = Add(db.policies, row)]}
      BY <1>6 DEF ImportOnePolicy
    <2> HIDE DEF row
    <2>5. QED
      BY <2>1, <2>3, <2>4
  <1> HIDE DEF d
  <1>8. Filed(d, cs, f, s, q)
    BY <1>6, <1>7 DEF Filed
  <1>9. Moves(d) /\ d.skills = s
    BY <1>3, <1>5, <1>7, <1>8, FiledMoves
  <1>10. /\ Commit("workflows", d) /\ UNCHANGED vault
         /\ objects' = IF skill THEN publish_skill({d.skills[i] : i \in Named(d.skills, scope, k)})
                       ELSE objects
         /\ marks' = IF skill /\ Named(db.skills, scope, k) # {}
                     THEN Overtaken(CHOOSE i \in Named(db.skills, scope, k) : TRUE) ELSE marks
    BY <1>1 DEF Imported, d, skilled, flow
  <1>11. {s[i] : i \in Named(s, scope, k)} \subseteq SkillRow
    BY <1>5, RowsLive DEF SkillTable, Named
  <1>12. DOMAIN marks' = Marks
    BY <1>10 DEF Overtaken, Inv, Stores
  <1>13. Stores'
    BY <1>9, <1>10, <1>11, <1>12, PublishedType DEF Inv, Stores
  <1>14. QED
    BY <1>9, <1>10, <1>13, CommitKeeps

LEMMA SeedWorkflowsKeep == ASSUME Inv, seed_default_workflows PROVE Kept
  <1>1. PICK name \in WorkflowName, uses \in SUBSET SkillName, c \in Category :
           LET flow == ImportOneWorkflow(db, Platform, name, uses, c)
               w == CHOOSE w \in Named(flow.workflows, Platform, name) : TRUE
               its == {q \in Live(flow.policies) : flow.policies[q].workflow = w}
               policy == [scope |-> Platform, workflow |-> w, active |-> TRUE]
           IN /\ Room(db.workflows, 1) /\ Room(db.policies, 1)
              /\ Commit("workflows", IF its # {} THEN flow
                                     ELSE [flow EXCEPT !.policies = Add(@, policy)])
              /\ UNCHANGED <<objects, vault, marks>>
    BY DEF seed_default_workflows
  <1> DEFINE flow == ImportOneWorkflow(db, Platform, name, uses, c)
             w == CHOOSE w \in Named(flow.workflows, Platform, name) : TRUE
             its == {q \in Live(flow.policies) : flow.policies[q].workflow = w}
             row == [scope |-> Platform, workflow |-> w, active |-> TRUE]
             d == IF its # {} THEN flow ELSE [flow EXCEPT !.policies = Add(flow.policies, row)]
  <1>2. PICK f, cs :
           /\ WorkflowTable(f) /\ cs \subseteq Category /\ Named(f, Platform, name) # {}
           /\ Flowed(flow, cs, f)
    <2>1. Room(db.workflows, 1) /\ c \in Maybe(Category) /\ Platform \in Scope
      BY <1>1, ScopesIn DEF Maybe
    <2>2. QED
      BY <2>1, FlowSays
  <1>3. Commit("workflows", d) /\ UNCHANGED <<objects, vault, marks>>
    BY <1>1
  <1> HIDE DEF flow
  <1>4. /\ flow = [db EXCEPT !.categories = cs, !.workflows = f]
        /\ flow.skills = db.skills /\ flow.workflows = f /\ flow.policies = db.policies
    BY <1>2, CatalogueType DEF Fields, Flowed
  <1>5. w \in Workflow
    BY <1>2, <1>4 DEF Named, Live, WorkflowTable
  <1>6. PolicyTable(Add(db.policies, row), f)
    BY <1>1, <1>5, ScopesIn, AddedPolicy
  <1>7. PolicyTable(db.policies, f)
    BY CatalogueType
  <1> HIDE DEF its, row
  <1>8. PICK q : PolicyTable(q, f) /\ d = [flow EXCEPT !.policies = q]
    <2>1. flow = [flow EXCEPT !.policies = db.policies]
      BY <1>4, CatalogueType DEF Fields
    <2>2. QED
      BY <1>4, <1>6, <1>7, <2>1
  <1> HIDE DEF d
  <1>9. Filed(d, cs, f, db.skills, q)
    BY <1>4, <1>8, CatalogueType DEF Filed, Fields
  <1>10. Moves(d)
    BY <1>2, <1>8, <1>9, FiledMoves, SkillsType
  <1>11. Stores'
    BY <1>3, StoresStand DEF Inv, Stores
  <1>12. QED
    BY <1>3, <1>10, <1>11, CommitKeeps

LEMMA WorkflowRequestKeeps == ASSUME Inv, WorkflowRequest PROVE Kept
  <1>1. CASE \/ create_workflow_category \/ delete_workflow_category \/ seed_default_categories
             \/ CreateWorkflow \/ UpdateWorkflow \/ UpdateProjectWorkflow
             \/ DeleteWorkflow \/ DeleteProjectWorkflow
    BY <1>1, CategoriesKeep, CreateWorkflowKeeps, RewriteKeeps, RemoveWorkflowKeeps
  <1>2. CASE \/ CopyToProject \/ ManagerCopiesToProject
             \/ CreatePolicy \/ UpdatePolicy \/ DeletePolicy
             \/ CreateProjectPolicy \/ UpdateProjectPolicy \/ DeleteProjectPolicy
    BY <1>2, CopyKeeps, CreatePolicyKeeps, SetActiveKeeps, RemovePolicyKeeps
  <1>3. CASE ImportWorkflow \/ seed_default_workflows
    BY <1>3, ImportWorkflowKeeps, SeedWorkflowsKeep
  <1>4. QED
    BY <1>1, <1>2, <1>3 DEF WorkflowRequest

LEMMA CatalogueKeeps == ASSUME Inv, CatalogueNext PROVE Kept
  BY SkillRequestKeeps, WorkflowRequestKeeps, RepublishKeeps, StampSkillKeeps DEF CatalogueNext

-----------------------------------------------------------------------------
(* Runs. *)

LEMMA ProvisionSays ==
    ASSUME Inv, NEW w \in Live(db.workflows), NEW p \in db.projects, NEW adhoc \in BOOLEAN,
           MayBack(w, p, adhoc), RoomForCopy(w, p)
    PROVE  LET d == Provision(w, p)
               x == Backing(d, w, p)
           IN /\ Moves(d) /\ d.runs = db.runs /\ d.integrations = db.integrations
              /\ x \in Workflow /\ d.workflows[x].scope = p /\ Clones(d.skills, Live(db.skills))
  <1> DEFINE d == Provision(w, p)
             x == Backing(d, w, p)
  <1>1. p \in Project /\ w \in Workflow /\ \A S : Clones(db.skills, S)
    BY CatalogueType DEF Inv, Sane, Typed, Clones
  <1>2. CASE db.workflows[w].scope = p
    <2>1. d = db
      BY <1>2 DEF Provision
    <2>2. x = w
      BY <1>2, <2>1 DEF Backing
    <2>3. QED
      BY <1>1, <1>2, <2>1, <2>2, NoMoves
  <1>3. CASE db.workflows[w].scope # p /\ Named(db.workflows, p, AdHoc) # {}
    <2>1. d = db
      BY <1>3 DEF Provision
    <2>2. x \in Named(db.workflows, p, AdHoc)
      BY <1>3, <2>1 DEF Backing
    <2>3. x \in Workflow /\ db.workflows[x].scope = p
      BY <2>2, CatalogueType DEF Named
    <2>4. QED
      BY <1>1, <2>1, <2>3, NoMoves
  <1>4. CASE db.workflows[w].scope # p /\ Named(db.workflows, p, AdHoc) = {}
    <2>1. d = CopyOf(db, w, p)
      BY <1>4 DEF Provision
    <2>2. db.workflows[w].name = AdHoc
      BY <1>4 DEF MayBack
    <2>3. /\ Moves(d) /\ d.runs = db.runs /\ d.integrations = db.integrations
          /\ Named(d.workflows, p, AdHoc) # {} /\ Clones(d.skills, Cloned(db, w, p))
      BY <1>1, <2>1, <2>2, CopyMoves
    <2>0. Clones(d.skills, Live(db.skills))
      BY <2>3 DEF Clones, Cloned
    <2> HIDE DEF d
    <2>4. DOMAIN d.workflows = Workflow
      BY <2>3 DEF Moves, Typed
    <2>5. (x = w /\ d.workflows[w].scope = p) \/ x \in Named(d.workflows, p, AdHoc)
      BY <2>3 DEF Backing
    <2>6. x \in Workflow /\ d.workflows[x].scope = p
      BY <1>1, <2>4, <2>5 DEF Named, Live
    <2>7. QED
      BY <2>0, <2>3, <2>6 DEF d
  <1>5. QED
    BY <1>2, <1>3, <1>4

LEMMA EngineMoves ==
    ASSUME Inv, NEW t, SkillTable(t), NEW n \in Live(db.runs), NEW row \in RunRow,
           SameRun(db.runs[n], row)
    PROVE  Moves([db EXCEPT !.runs = [db.runs EXCEPT ![n] = row], !.skills = t])
  <1> DEFINE runs == [db.runs EXCEPT ![n] = row]
             d == [db EXCEPT !.runs = runs, !.skills = t]
  <1>1. db.runs \in [Run -> Maybe(RunRow)] /\ n \in Run /\ db.runs[n] # None
    BY DEF Inv, Sane, Typed, Live
  <1>2. /\ runs \in [Run -> Maybe(RunRow)]
        /\ \A m \in Run : runs[m] = IF m = n THEN row ELSE db.runs[m]
    BY <1>1 DEF Maybe
  <1> HIDE DEF runs
  <1>3. /\ DOMAIN d = Fields /\ d.users = db.users /\ d.roster = db.roster
        /\ d.projects = db.projects /\ d.integrations = db.integrations
        /\ d.variables = db.variables /\ d.runs = runs /\ d.categories = db.categories
        /\ d.skills = t /\ d.workflows = db.workflows /\ d.policies = db.policies
    BY CatalogueType DEF Fields
  <1> HIDE DEF d
  <1>4. Typed(d)
    BY <1>2, <1>3 DEF Typed, Fields, SkillTable, Inv, Sane
  <1>5. SkillsMove(d)
    BY <1>3 DEF SkillsMove, SkillTable
  <1>6. \A m \in Run : SameRun(db.runs[m], db.runs[m])
    BY DEF SameRun
  <1>7. RunsMove(d)
    BY <1>1, <1>2, <1>3, <1>6 DEF RunsMove
  <1>8. Moves(d)
    BY <1>3, <1>4, <1>5, <1>7, StillMoves DEF Moves
  <1>9. QED
    BY <1>8 DEF d, runs

LEMMA CreateRunKeeps == ASSUME Inv, create_run PROVE Kept
  <1>1. PICK u \in User, p \in db.projects, w \in Live(db.workflows), adhoc \in BOOLEAN,
             uses \in [Kind -> {None} \cup Live(db.integrations)] :
          /\ IsMember(u, p) /\ Room(db.runs, 1)
          /\ MayBack(w, p, adhoc) /\ RoomForCopy(w, p)
          /\ \A kind \in Kind : _require_verified_integration(p, kind, uses[kind])
          /\ LET d == Provision(w, p)
                 x == Backing(d, w, p)
             IN \E q \in Live(d.policies) :
                  /\ PolicyFits(d, q, x)
                  /\ Commit("engine",
                       [d EXCEPT !.runs = Add(@, [project |-> p, workflow |-> x, policy |-> q,
                                                  uses |-> uses, state |-> "pending",
                                                  pins |-> NoPins])])
                  /\ objects' = publish_skill({d.skills[k] : k \in Live(d.skills) \ Live(db.skills)})
          /\ UNCHANGED <<vault, marks>>
    BY DEF create_run
  <1> DEFINE d == Provision(w, p)
             x == Backing(d, w, p)
  <1>2. PICK q \in Live(d.policies) :
          /\ PolicyFits(d, q, x)
          /\ Commit("engine",
               [d EXCEPT !.runs = Add(@, [project |-> p, workflow |-> x, policy |-> q,
                                          uses |-> uses, state |-> "pending",
                                          pins |-> NoPins])])
          /\ objects' = publish_skill({d.skills[k] : k \in Live(d.skills) \ Live(db.skills)})
    BY <1>1
  <1>3. /\ Moves(d) /\ d.runs = db.runs /\ d.integrations = db.integrations
        /\ x \in Workflow /\ d.workflows[x].scope = p
    BY <1>1, ProvisionSays
  <1> DEFINE row == [project |-> p, workflow |-> x, policy |-> q, uses |-> uses,
                     state |-> "pending", pins |-> NoPins]
             n == NewId(db.runs)
             runs == [db.runs EXCEPT ![n] = row]
             e == [d EXCEPT !.runs = runs]
  <1> HIDE DEF d, x
  <1>4. p \in Project /\ q \in Policy /\ d.policies[q].workflow = x
    BY <1>2, <1>3 DEF Inv, Sane, Typed, Live, Moves, PolicyFits
  <1>5. db.integrations \in [Integration -> Maybe(IntegrationRow)]
        /\ db.runs \in [Run -> Maybe(RunRow)]
    BY DEF Inv, Sane, Typed
  <1>6. uses \in [Kind -> Maybe(Integration)]
    BY <1>5 DEF Maybe, Live
  <1>7. \A kind \in Kind : uses[kind] # None => db.integrations[uses[kind]].project = p
    BY <1>1 DEF _require_verified_integration
  <1>8. row \in RunRow
    BY <1>3, <1>4, <1>6 DEF RunRow, NoPins, Maybe
  <1>9. n \in Run /\ db.runs[n] = None /\ n \notin Held
    BY <1>1, <1>5, FreeRow
  <1>10. row.project = p /\ row.workflow = x /\ row.policy = q /\ row.uses = uses /\ row.pins = NoPins
    OBVIOUS
  <1>11. Commit("engine", e)
    BY <1>2, <1>3 DEF Add
  <1> HIDE DEF row, n
  <1>12. /\ runs \in [Run -> Maybe(RunRow)]
         /\ \A m \in Run : runs[m] = IF m = n THEN row ELSE db.runs[m]
    BY <1>5, <1>8, <1>9 DEF Maybe
  <1> HIDE DEF runs
  <1>13. /\ DOMAIN e = DOMAIN d /\ e.users = d.users /\ e.roster = d.roster
         /\ e.projects = d.projects /\ e.categories = d.categories /\ e.skills = d.skills
         /\ e.workflows = d.workflows /\ e.policies = d.policies
         /\ e.integrations = d.integrations /\ e.variables = d.variables /\ e.runs = runs
    BY <1>3 DEF Moves, Typed
  <1> HIDE DEF e
  <1>14. Typed(e)
    BY <1>3, <1>12, <1>13 DEF Moves, Typed
  <1>15. NewRun(e, row)
    BY <1>3, <1>4, <1>7, <1>10, <1>13 DEF NewRun
  <1>16. RunsMove(e)
    BY <1>9, <1>12, <1>13, <1>15 DEF RunsMove, SameRun
  <1>17. Moves(e)
    BY <1>3, <1>13, <1>14, <1>16
       DEF Moves, UsersMove, SkillsMove, WorkflowsMove, PoliciesMove, IntegrationsMove, VariablesMove
  <1>18. {d.skills[k] : k \in Live(d.skills) \ Live(db.skills)} \subseteq SkillRow
    BY <1>3, RowsLive DEF Moves, Typed
  <1>19. Stores'
    BY <1>1, <1>2, <1>18, PublishedType DEF Inv, Stores
  <1>20. QED
    BY <1>11, <1>17, <1>19, CommitKeeps

\* The skills a run of p is given are p's or the platform's.
LEMMA EffectiveSays ==
    ASSUME Inv, NEW p
    PROVE  LET skill == effective_skill_map(p)
           IN \A s \in DOMAIN skill :
                skill[s] \in Live(db.skills) /\ db.skills[skill[s]].scope \in {p, Platform}
  <1> DEFINE skill == effective_skill_map(p)
  <1>1. ASSUME NEW s \in DOMAIN skill
        PROVE  skill[s] \in Live(db.skills) /\ db.skills[skill[s]].scope \in {p, Platform}
    <2>1. Effective(p, s) # {} /\ skill[s] = CHOOSE k \in Effective(p, s) : TRUE
      BY DEF effective_skill_map
    <2>2. skill[s] \in Effective(p, s)
      BY <2>1
    <2>3. QED
      BY <2>2 DEF Effective, Named
  <1>2. QED
    BY <1>1

\* The skills without a stamp, and the stamps they are to have.
LEMMA UnstampedSays ==
    ASSUME Inv, NEW n \in Live(db.runs), Ready(n)
    PROVE  /\ Unstamped(n) \subseteq Live(db.skills)
           /\ {db.skills[k] : k \in Unstamped(n)} \subseteq SkillRow
           /\ \A k \in Unstamped(n) : db.skills[k].scope \in {db.runs[n].project, Platform}
  <1> DEFINE p == db.runs[n].project
             skill == effective_skill_map(p)
  <1>1. ASSUME NEW k \in Unstamped(n)
        PROVE  k \in Live(db.skills) /\ db.skills[k].scope \in {p, Platform}
    <2>1. PICK s \in Used(n) : k = skill[s]
      BY DEF Unstamped
    <2>2. s \in DOMAIN skill
      BY DEF Ready
    <2>3. QED
      BY <2>1, <2>2, EffectiveSays
  <1>2. QED
    BY <1>1, SkillsType

LEMMA StampingType ==
    ASSUME Inv, NEW S \in SUBSET Live(db.skills)
    PROVE  /\ Stamping(S) \in [S -> Stamps]
           /\ \A k \in S : Stamping(S)[k].sha.text[1] \in {db.skills[k].scope, Platform}
  <1>1. ASSUME NEW k \in S
        PROVE  /\ StampOf(db.skills[k]) \in Stamps
               /\ StampOf(db.skills[k]).sha.text[1] \in {db.skills[k].scope, Platform}
    <2>1. db.skills[k] \in SkillRow /\ OwnText(db.skills[k])
      BY SkillsType
    <2>2. QED
      BY <2>1, StampType DEF OwnText
  <1>2. QED
    BY <1>1 DEF Stamping

LEMMA HealedSays ==
    ASSUME Inv, NEW S \in SUBSET Live(db.skills), NEW stamps \in [S -> Stamps],
           \A k \in S : stamps[k].sha.text[1] \in {db.skills[k].scope, Platform}
    PROVE  SkillTable(Healed(db.skills, stamps))
  <1> DEFINE new(k) == [db.skills[k] EXCEPT !.stamp = stamps[k]]
             t == Healed(db.skills, stamps)
  <1>1. ASSUME NEW k \in S
        PROVE  new(k) \in SkillRow /\ new(k).scope = db.skills[k].scope /\ OwnText(new(k))
    <2>1. db.skills[k] \in SkillRow /\ OwnText(db.skills[k])
      BY SkillsType
    <2>2. stamps[k] \in Stamps
      OBVIOUS
    <2>3. new(k) \in SkillRow /\ new(k).scope = db.skills[k].scope
          /\ new(k).text = db.skills[k].text /\ new(k).stamp = stamps[k]
      BY <2>1, <2>2 DEF SkillRow, Maybe
    <2> HIDE DEF new
    <2>4. QED
      BY <2>1, <2>3 DEF OwnText
  <1>2. DOMAIN db.skills = Skill /\ SkillTable(db.skills)
    BY SkillsType
  <1>3. t = [k \in Skill |-> IF k \in S THEN new(k) ELSE db.skills[k]]
    BY <1>2 DEF Healed
  <1> HIDE DEF new, t
  <1>4. ASSUME NEW k \in Skill
        PROVE  /\ t[k] \in Maybe(SkillRow)
               /\ t[k] # None =>
                   /\ OwnText(t[k])
                   /\ IF db.skills[k] = None THEN k \notin Held ELSE t[k].scope = db.skills[k].scope
    <2>1. CASE k \in S
      <3>1. t[k] = new(k) /\ db.skills[k] # None
        BY <1>3, <2>1 DEF Live
      <3>2. QED
        BY <1>1, <2>1, <3>1 DEF Maybe
    <2>2. CASE k \notin S
      BY <1>2, <1>3, <2>2 DEF SkillTable
    <2>3. QED
      BY <2>1, <2>2
  <1>5. t \in [Skill -> Maybe(SkillRow)]
    BY <1>3, <1>4
  <1>6. QED
    BY <1>4, <1>5 DEF SkillTable, t

LEMMA RunType ==
    ASSUME Inv
    PROVE  /\ db.runs \in [Run -> Maybe(RunRow)]
           /\ \A n \in Live(db.runs) : n \in Run /\ db.runs[n] # None /\ db.runs[n] \in RunRow
  BY DEF Inv, Sane, Typed, Live, Maybe

LEMMA FailInitKeeps == ASSUME Inv, FailInit PROVE Kept
  <1>1. PICK n \in Live(db.runs) :
           LET heals == IF Ready(n) THEN Unstamped(n) ELSE {}
           IN /\ Dispatched(n)
              /\ ~(Ready(n) /\ _resolve_env_vars(db.runs[n].project))
              /\ Commit("engine", [db EXCEPT !.runs[n].state = "failed",
                                             !.skills = Healed(@, Stamping(heals))])
              /\ objects' = publish_skill({db.skills[k] : k \in heals})
              /\ marks' = Overtake(heals)
              /\ UNCHANGED vault
    BY DEF FailInit
  <1> DEFINE heals == IF Ready(n) THEN Unstamped(n) ELSE {}
             row == [db.runs[n] EXCEPT !.state = "failed"]
             t == Healed(db.skills, Stamping(heals))
             d == [db EXCEPT !.runs = [db.runs EXCEPT ![n] = row], !.skills = t]
  <1>2. heals \in SUBSET Live(db.skills) /\ {db.skills[k] : k \in heals} \in SUBSET SkillRow
    BY UnstampedSays
  <1>3. Commit("engine", d) /\ UNCHANGED vault /\ marks' = Overtake(heals)
        /\ objects' = publish_skill({db.skills[k] : k \in heals})
    BY <1>1
  <1> HIDE DEF heals
  <1>4. SkillTable(t)
    BY <1>2, StampingType, HealedSays
  <1>5. db.runs[n] \in RunRow
    BY RunType
  <1>6. row \in RunRow /\ row.project = db.runs[n].project /\ row.workflow = db.runs[n].workflow
        /\ row.policy = db.runs[n].policy /\ row.uses = db.runs[n].uses
        /\ row.pins = db.runs[n].pins /\ row.state = "failed"
    BY <1>5 DEF RunRow
  <1> HIDE DEF row, t
  <1>7. SameRun(db.runs[n], row)
    BY <1>6 DEF SameRun
  <1>8. Moves(d)
    BY <1>4, <1>6, <1>7, EngineMoves
  <1>9. Stores'
    BY <1>2, <1>3, PublishedType DEF Overtake, Inv, Stores
  <1>10. QED
    BY <1>3, <1>8, <1>9, CommitKeeps

LEMMA LoadRunKeeps == ASSUME Inv, NEW r \in Request, LoadRun(r) PROVE Kept
  <1> DEFINE skill(n) == effective_skill_map(db.runs[n].project)
             heals(n) == Unstamped(n)
             bundle(n, s) == IF skill(n)[s] \in heals(n) THEN StampOf(db.skills[skill(n)[s]])
                             ELSE db.skills[skill(n)[s]].stamp
             bundles(n) == [s \in SkillName |-> IF s \in Used(n) THEN bundle(n, s) ELSE None]
             job(n) == [op |-> "init", rows |-> heals(n) \cup {n}, run |-> n, heals |-> heals(n),
                        skill_bundle |-> bundles(n), healed |-> Stamping(heals(n))]
  <1>1. PICK n \in Live(db.runs) :
           /\ Ready(n) /\ Open(r, "engine", job(n))
           /\ objects' = publish_skill({db.skills[k] : k \in heals(n)})
           /\ marks' = Overtake(heals(n))
           /\ UNCHANGED <<db, vault, faults>>
    BY DEF LoadRun
  <1>2. /\ heals(n) \in SUBSET Live(db.skills)
        /\ {db.skills[k] : k \in heals(n)} \in SUBSET SkillRow
        /\ heals(n) \subseteq Skill
    BY <1>1, UnstampedSays, SkillsType DEF Live
  <1>3. n \in Run /\ db.runs[n] # None
    BY RunType
  <1>4. ASSUME NEW s \in Used(n)
        PROVE  /\ bundle(n, s) \in Maybe(Stamps)
               /\ bundle(n, s) # None =>
                     bundle(n, s).sha.text[1] \in {db.runs[n].project, Platform}
    <2> DEFINE k == skill(n)[s]
    <2>1. k \in Live(db.skills) /\ db.skills[k].scope \in {db.runs[n].project, Platform}
      BY <1>1, EffectiveSays DEF Ready
    <2> HIDE DEF k
    <2>2. db.skills[k] \in SkillRow /\ OwnText(db.skills[k])
      BY <2>1, SkillsType
    <2>3. /\ StampOf(db.skills[k]) \in Stamps
          /\ StampOf(db.skills[k]).sha.text[1] \in {db.skills[k].scope, Platform}
      BY <2>2, StampType DEF OwnText
    <2>4. /\ db.skills[k].stamp \in Maybe(Stamps)
          /\ db.skills[k].stamp # None =>
               db.skills[k].stamp.sha.text[1] \in {db.skills[k].scope, Platform}
      BY <2>2 DEF SkillRow, OwnText
    <2>5. bundle(n, s) \in {StampOf(db.skills[k]), db.skills[k].stamp}
      BY DEF k
    <2> HIDE DEF bundle
    <2>6. QED
      BY <2>1, <2>3, <2>4, <2>5 DEF Maybe
  <1>5. /\ bundles(n) \in [SkillName -> Maybe(Stamps)]
        /\ \A s \in SkillName : bundles(n)[s] # None =>
              bundles(n)[s].sha.text[1] \in {db.runs[n].project, Platform}
    <2> HIDE DEF bundle
    <2>1. QED
      BY <1>4 DEF Maybe
  <1>6. /\ Stamping(heals(n)) \in [heals(n) -> Stamps]
        /\ \A k \in heals(n) : Stamping(heals(n))[k].sha.text[1] \in {db.skills[k].scope, Platform}
    BY <1>2, StampingType
  <1> HIDE DEF heals, bundle, bundles
  <1>7. /\ job(n).op = "init" /\ job(n).rows = heals(n) \cup {n} /\ job(n).run = n
        /\ job(n).heals = heals(n) /\ job(n).skill_bundle = bundles(n)
        /\ job(n).healed = Stamping(heals(n))
    OBVIOUS
  <1> HIDE DEF job
  <1>8. Carries(job(n))
    BY <1>2, <1>3, <1>5, <1>6, <1>7 DEF Carries, Ops
  <1>9. Agrees(job(n), db)
    BY <1>5, <1>6, <1>7 DEF Agrees
  <1>10. Stores'
    BY <1>1, <1>2, PublishedType DEF Overtake, Inv, Stores
  <1>11. QED
    BY <1>1, <1>7, <1>8, <1>9, <1>10, OpenKeeps

LEMMA PinSays ==
    ASSUME NEW run \in RunRow, NEW bundle \in [SkillName -> Maybe(Stamps)],
           \A s \in SkillName : bundle[s] # None =>
               bundle[s].sha.text[1] \in {run.project, Platform}
    PROVE  Pin(run, bundle) \in RunRow /\ SameRun(run, Pin(run, bundle))
  <1> DEFINE new == Pin(run, bundle)
  <1>1. /\ new \in RunRow /\ new.project = run.project /\ new.workflow = run.workflow
        /\ new.policy = run.policy /\ new.uses = run.uses /\ new.state = "running"
        /\ new.pins = IF run.state = "pending" THEN bundle ELSE run.pins
    BY DEF RunRow, Pin
  <1> HIDE DEF new
  <1>2. SameRun(run, new)
    BY <1>1 DEF SameRun
  <1>3. QED
    BY <1>1, <1>2 DEF new

LEMMA InitRunKeeps == ASSUME Inv, NEW r \in Request, init_run(r) PROVE Kept
  <1> DEFINE job == req[r]
             n == job.run
             row == Pin(db.runs[n], job.skill_bundle)
             t == Healed(db.skills, job.healed)
             d == [db EXCEPT !.runs = [db.runs EXCEPT ![n] = row], !.skills = t]
             lost == \E k \in job.heals : db.skills[k] = None
             e == IF lost THEN db ELSE IF db.runs[n] = None THEN db ELSE d
  <1>1. /\ Doing(r, "init") /\ Finish(r, e) /\ UNCHANGED <<objects, vault>>
        /\ marks' \in {marks, [marks EXCEPT !.behind = @ \cup (job.heals \cap Live(db.skills))]}
    <2>1. [db EXCEPT !.runs[n] = Pin(@, job.skill_bundle), !.skills = Healed(@, job.healed)] = d
      OBVIOUS
    <2>2. QED
      BY <2>1 DEF init_run
  <1>2. /\ n \in Run /\ job.heals \subseteq Skill
        /\ job.skill_bundle \in [SkillName -> Maybe(Stamps)] /\ job.healed \in [job.heals -> Stamps]
        /\ Agrees(job, db) /\ job.op = "init"
    BY <1>1 DEF Doing, Inv, Requests, Carries
  <1>3. ASSUME ~lost, db.runs[n] # None PROVE Moves(d)
    <2>1. job.heals \in SUBSET Live(db.skills)
      BY <1>2, <1>3, SkillsType DEF Live
    <2>2. \A k \in job.heals : job.healed[k].sha.text[1] \in {db.skills[k].scope, Platform}
      BY <1>2, <1>3 DEF Agrees
    <2>3. SkillTable(t)
      BY <1>2, <2>1, <2>2, HealedSays
    <2>4. n \in Live(db.runs) /\ db.runs[n] \in RunRow
      BY <1>2, <1>3, RunType DEF Live, Maybe
    <2>5. \A s \in SkillName : job.skill_bundle[s] # None =>
             job.skill_bundle[s].sha.text[1] \in {db.runs[n].project, Platform}
      BY <1>2, <1>3 DEF Agrees
    <2>6. row \in RunRow /\ SameRun(db.runs[n], row)
      BY <1>2, <2>4, <2>5, PinSays
    <2>7. QED
      BY <2>3, <2>4, <2>6, EngineMoves
  <1>4. Stores'
    BY <1>1, StoresStand DEF Inv, Stores
  <1> HIDE DEF d, lost
  <1>5. Moves(e)
    BY <1>3, NoMoves
  <1> HIDE DEF e
  <1>6. QED
    BY <1>1, <1>4, <1>5, FinishKeeps

LEMMA AbortKeeps == ASSUME Inv, NEW r \in Request, Abort(r) PROVE Kept
  <1>1. req' = [req EXCEPT ![r] = Idle] /\ UNCHANGED <<db, objects, vault>>
    BY DEF Abort, Close
  <1>2. DOMAIN marks' = Marks
    BY DEF Abort, Inv, Stores
  <1>3. Stores'
    BY <1>1, <1>2, StoresStand
  <1>4. DOMAIN req' = Request /\ \A s \in Request : req'[s] # Idle => req'[s] = req[s]
    BY <1>1 DEF Inv, Requests
  <1>5. Apart'
    BY <1>4 DEF Inv, Requests, Apart, OnRow
  <1>6. QED
    BY <1>1, <1>3, <1>4, <1>5, InvStep

LEMMA NextKeeps == ASSUME Inv, [Next]_vars PROVE Kept
  <1>1. CASE AccountsNext \/ CatalogueNext \/ VaultNext
    BY <1>1, AccountsKeep, CatalogueKeeps, VaultKeeps
  <1>2. CASE create_run \/ FailInit \/ \E r \in Request : LoadRun(r) \/ init_run(r) \/ Abort(r)
    BY <1>2, CreateRunKeeps, FailInitKeeps, LoadRunKeeps, InitRunKeeps, AbortKeeps
  <1>3. CASE UNCHANGED vars
    <2>1. UNCHANGED <<db, objects, vault, req, marks>>
      BY <1>3 DEF vars
    <2>2. Requests'
      BY <2>1 DEF Inv, Requests, Apart, OnRow
    <2>3. QED
      BY <2>1, <2>2 DEF Inv, Stores, Kept
  <1>4. QED
    BY <1>1, <1>2, <1>3 DEF Next

LEMMA InitHolds == Init => Inv
  <1> SUFFICES ASSUME Init PROVE Inv
    OBVIOUS
  <1>1. PICK s \in Start : db = s.db /\ objects = s.objects /\ vault = s.vault
    BY DEF Init
  <1>2. req = [r \in Request |-> Idle]
        /\ marks = [behind |-> {}, torn |-> {}, loose |-> {}, gone |-> {}, duel |-> FALSE]
    BY DEF Init
  <1>3. Settled(s)
    BY StartAssumption
  <1>4. Typed(db) /\ Sound(db) /\ OwnParts(db)
    BY <1>1, <1>3 DEF Settled
  <1>5. Texts(db)
    <2>1. ASSUME NEW k \in Live(db.skills) PROVE OwnText(db.skills[k])
      <3>1. db.skills[k].text[1] \in {db.skills[k].scope, Platform}
            /\ db.skills[k].stamp = StampOf(db.skills[k])
        BY <1>1, <1>3 DEF Settled
      <3>2. db.skills[k] \in SkillRow
        BY <1>4 DEF Typed, Live, Maybe
      <3>3. QED
        BY <3>1, <3>2, StampType DEF OwnText
    <2>2. QED
      BY <2>1 DEF Texts
  <1>6. Policied(db)
    BY <1>1, <1>3 DEF Settled, Policied
  <1>7. Addressed(db)
    BY <1>1, <1>3 DEF Settled, Addressed, IntegrationAt, VariableAt
  <1>8. Unpinned(db)
    BY <1>1, <1>3 DEF Settled, Unpinned
  <1>9. Requests
    BY <1>2 DEF Requests, Apart
  <1>10. vault \subseteq Ref
    <2>1. vault = Referring(db) \ {None}
      BY <1>1, <1>3 DEF Settled
    <2>2. \A i \in Live(db.integrations) : db.integrations[i].ref \in Maybe(Ref)
      BY <1>4 DEF Typed, Live, Maybe, IntegrationRow
    <2>3. \A e \in Live(db.variables) : db.variables[e].ref \in Maybe(Ref)
      BY <1>4 DEF Typed, Live, Maybe, VariableRow
    <2>4. QED
      BY <2>1, <2>2, <2>3 DEF Referring, Maybe
  <1>11. Stores
    BY <1>1, <1>2, <1>3, <1>10 DEF Settled, Stores, Marks
  <1>12. QED
    BY <1>4, <1>5, <1>6, <1>7, <1>8, <1>9, <1>11 DEF Inv, Sane

THEOREM Invariant == Spec => []Inv
  <1>1. Init => Inv
    BY InitHolds
  <1>2. Inv /\ [Next]_vars => Inv'
    BY NextKeeps DEF Kept
  <1>3. QED
    BY <1>1, <1>2, PTL DEF Spec

\* The tables keep their types and the database's constraints, and the stores
\* and the requests are what the handlers take them for.
THEOREM TypeCorrect == Spec => []TypeOK
  <1>1. Inv => TypeOK
    <2> SUFFICES ASSUME Inv PROVE TypeOK
      OBVIOUS
    <2>1. Typed(db) /\ Sound(db) /\ DOMAIN objects \subseteq SkillName \X Bundle /\ vault \subseteq Ref
      BY DEF Inv, Sane, Stores
    <2>2. \A r \in Request : req[r] = Idle \/ req[r].op \in Ops
      BY DEF Inv, Requests, Carries
    <2>3. QED
      BY <2>1, <2>2 DEF TypeOK, Ops
  <1>2. QED
    BY <1>1, Invariant, PTL

\* No edit, copy, import, rename or deletion, and no order of them with the
\* initialisations under way, makes a run use what belongs to another project.
THEOREM RunsOwnTheirParts == Spec => []RunOwnsItsParts
  <1>1. Inv => RunOwnsItsParts
    BY DEF Inv, Sane, RunOwnsItsParts
  <1>2. QED
    BY <1>1, Invariant, PTL

\* Once a run is pinned, what its agents are given stays as it is: the pins
\* change at the first initialisation only, and before it there are none.
THEOREM PinsAreFrozen == Spec => PinsFrozen
  <1> DEFINE Frozen == \A n \in Run :
                 db.runs[n] # None /\ db.runs[n].pins # NoPins /\ db'.runs[n] # None
                     => db'.runs[n].pins = db.runs[n].pins
  <1>1. Inv /\ [Next]_vars => Frozen
    <2> SUFFICES ASSUME Inv, [Next]_vars, NEW n \in Run, db.runs[n] # None,
                        db.runs[n].pins # NoPins, db'.runs[n] # None
                 PROVE  db'.runs[n].pins = db.runs[n].pins
      OBVIOUS
    <2>1. db' = db \/ Moves(db')
      BY NextKeeps DEF Kept
    <2>2. CASE db' = db
      BY <2>2
    <2>3. CASE Moves(db')
      <3>1. SameRun(db.runs[n], db'.runs[n])
        BY <2>3 DEF Moves, RunsMove
      <3>2. n \in Live(db.runs)
        BY RunType DEF Live
      <3>3. db.runs[n].state # "pending"
        BY <3>2 DEF Inv, Sane, Unpinned
      <3>4. QED
        BY <3>1, <3>3 DEF SameRun
    <2>4. QED
      BY <2>1, <2>2, <2>3
  <1>2. Inv /\ [Next]_vars => [Frozen]_vars
    BY <1>1
  <1>3. QED
    BY <1>2, Invariant, PTL DEF Spec, PinsFrozen

-----------------------------------------------------------------------------
(* Who is in charge.  Requests outside the accounts leave users, members    *)
(* and projects alone, and only those about secrets touch the secure        *)
(* storage.                                                                 *)

Asking == {"arrive", "role", "enable", "member"}

Aside(d) ==
    DOMAIN d = Fields /\ d.users = db.users /\ d.roster = db.roster /\ d.projects = db.projects

MarksAside ==
    marks'.duel = marks.duel /\ marks'.loose = marks.loose /\ marks'.gone = marks.gone

AccountsStand ==
    /\ db'.users = db.users /\ db'.roster = db.roster /\ db'.projects = db.projects
    /\ MarksAside
    /\ \A r \in Request : req'[r] # Idle /\ req'[r].op \in Asking => req'[r] = req[r]

\* Nor, unless they are about secrets, do they touch the rows that have one.
Beside(d) ==
    /\ DOMAIN d = Fields /\ d.users = db.users /\ d.roster = db.roster /\ d.projects = db.projects
    /\ d.integrations = db.integrations /\ d.variables = db.variables

SecretsAside ==
    /\ marks'.duel = marks.duel /\ marks'.loose = marks.loose /\ marks'.gone = marks.gone
    /\ marks'.torn = marks.torn /\ vault' = vault

Storing(j) == j # Idle /\ j.op = "store"

SecretsStand ==
    /\ db'.integrations = db.integrations /\ db'.variables = db.variables
    /\ marks'.torn = marks.torn /\ vault' = vault
    /\ \A r \in Request : Storing(req'[r]) \/ Storing(req[r]) => req'[r] = req[r]

Elsewhere == AccountsStand /\ SecretsStand

LEMMA AsideSays ==
    ASSUME Inv
    PROVE  /\ Aside(db) /\ DOMAIN req = Request /\ DOMAIN marks = Marks
           /\ \A t : Aside([db EXCEPT !.integrations = t])
  BY DEF Inv, Sane, Typed, Requests, Stores, Aside, Fields

LEMMA BesideSays ==
    ASSUME Inv
    PROVE  /\ Beside(db) /\ DOMAIN req = Request /\ DOMAIN marks = Marks
           /\ \A t : Beside([db EXCEPT !.skills = t])
           /\ \A t : Beside([db EXCEPT !.workflows = t])
           /\ \A t : Beside([db EXCEPT !.policies = t])
  BY DEF Inv, Sane, Typed, Requests, Stores, Beside, Fields

LEMMA CommitStands ==
    ASSUME NEW area, NEW d, Commit(area, d), Aside(d), MarksAside
    PROVE  AccountsStand
  BY DEF Commit, Aside, AccountsStand

LEMMA FinishStands ==
    ASSUME Inv, NEW r \in Request, NEW d, Finish(r, d), Aside(d), MarksAside
    PROVE  AccountsStand
  BY AsideSays DEF Finish, Close, Aside, AccountsStand

LEMMA OpenStands ==
    ASSUME Inv, NEW r \in Request, NEW area, NEW job, Open(r, area, job), job.op \notin Asking,
           Aside(db'), MarksAside
    PROVE  AccountsStand
  BY AsideSays DEF Open, Aside, AccountsStand

LEMMA CommitElsewhere ==
    ASSUME NEW area, NEW d, Commit(area, d), Beside(d), SecretsAside
    PROVE  Elsewhere
  BY DEF Commit, Beside, SecretsAside, Elsewhere, AccountsStand, SecretsStand, MarksAside

LEMMA FinishElsewhere ==
    ASSUME Inv, NEW r \in Request, NEW d, Finish(r, d), Beside(d), SecretsAside, ~Storing(req[r])
    PROVE  Elsewhere
  <1>1. db'.integrations = db.integrations /\ db'.variables = db.variables
    BY DEF Finish, Beside
  <1>2. \A s \in Request : Storing(req'[s]) \/ Storing(req[s]) => req'[s] = req[s]
    BY BesideSays DEF Finish, Close, Storing
  <1>3. AccountsStand
    BY FinishStands DEF Beside, Aside, SecretsAside, MarksAside
  <1>4. QED
    BY <1>1, <1>2, <1>3 DEF SecretsAside, Elsewhere, SecretsStand

LEMMA OpenElsewhere ==
    ASSUME Inv, NEW r \in Request, NEW area, NEW job, Open(r, area, job), job.op \notin Asking,
           job.op # "store", Beside(db'), SecretsAside
    PROVE  Elsewhere
  <1>1. \A s \in Request : Storing(req'[s]) \/ Storing(req[s]) => req'[s] = req[s]
    BY BesideSays DEF Open, Storing
  <1>2. AccountsStand
    BY OpenStands DEF Beside, Aside, SecretsAside, MarksAside
  <1>3. QED
    BY <1>1, <1>2 DEF Beside, SecretsAside, Elsewhere, SecretsStand

LEMMA SkillRequestStands ==
    ASSUME Inv, SkillRequest
    PROVE  Elsewhere
  <1>1. ASSUME NEW r \in Request, NEW k, NEW t, WriteText(r, k, [db EXCEPT !.skills = t])
        PROVE  Elsewhere
    <2> DEFINE job == [op |-> "publish", rows |-> {k}, skill |-> k, stamp |-> None]
    <2>1. job.op \notin Asking /\ job.op # "store"
      BY DEF Asking
    <2>2. /\ Open(r, "skills", job) /\ db' = [db EXCEPT !.skills = t] /\ marks' = Overtaken(k)
          /\ vault' = vault
      BY <1>1 DEF WriteText
    <2> HIDE DEF job
    <2>3. SecretsAside
      BY <2>2, BesideSays DEF SecretsAside, Overtaken, Marks
    <2>4. QED
      BY <2>1, <2>2, <2>3, BesideSays, OpenElsewhere
  <1>2. ASSUME NEW r \in Request, CreateSkill(r) \/ CreateProjectSkill(r) PROVE Elsewhere
    BY <1>1, <1>2 DEF CreateSkill, CreateProjectSkill
  <1>3. ASSUME NEW r \in Request, EditSkill(r) \/ EditProjectSkill(r) PROVE Elsewhere
    BY <1>1, <1>3 DEF EditSkill, EditProjectSkill
  <1>4. ASSUME NEW d, NEW scope, NEW name, NEW v, Beside(d)
        PROVE  Beside(UpsertSkill(d, scope, name, v))
    BY <1>4 DEF Beside, UpsertSkill, Fields
  <1>5. CASE UpdateSkill \/ DeleteSkill \/ DeleteProjectSkill
    <2>1. SecretsAside
      BY <1>5, BesideSays DEF UpdateSkill, DeleteSkill, DeleteProjectSkill, RemoveSkill, SecretsAside, Marks
    <2>2. PICK t : Commit("skills", [db EXCEPT !.skills = t])
      BY <1>5 DEF UpdateSkill, DeleteSkill, DeleteProjectSkill, RemoveSkill
    <2>3. QED
      BY <2>1, <2>2, BesideSays, CommitElsewhere
  <1>6. CASE ImportSkill \/ seed_default_skills
    <2>1. SecretsAside
      BY <1>6, BesideSays DEF ImportSkill, seed_default_skills, Overtaken, SecretsAside, Marks
    <2>2. PICK name, v : Commit("skills", UpsertSkill(db, Platform, name, v))
      BY <1>6 DEF ImportSkill, seed_default_skills
    <2>3. QED
      BY <1>4, <2>1, <2>2, BesideSays, CommitElsewhere
  <1>7. QED
    BY <1>2, <1>3, <1>5, <1>6 DEF SkillRequest

LEMMA WorkflowRequestStands ==
    ASSUME Inv, WorkflowRequest
    PROVE  Elsewhere
  <1>1. ASSUME NEW d, NEW scope, NEW name, NEW uses, NEW c, Beside(d)
        PROVE  Beside(ImportOneWorkflow(d, scope, name, uses, c))
    BY <1>1 DEF Beside, ImportOneWorkflow, Fields
  <1>2. ASSUME NEW d, NEW scope, NEW name, NEW v, Beside(d)
        PROVE  Beside(ImportOneSkill(d, scope, name, v))
    BY <1>2 DEF Beside, ImportOneSkill, UpsertSkill, Fields
  <1>3. ASSUME NEW d, NEW scope, NEW name, Beside(d)
        PROVE  Beside(ImportOnePolicy(d, scope, name))
    BY <1>3 DEF Beside, ImportOnePolicy, Fields
  <1>4. ASSUME NEW d, NEW t, Beside(d)
        PROVE  Beside([d EXCEPT !.policies = t])
    BY <1>4 DEF Beside, Fields
  <1>5. \A w, p : Beside(CopyOf(db, w, p))
    BY BesideSays DEF CopyOf, clone_referenced_skills, Beside, Fields
  <1>6. \A t : Beside([db EXCEPT !.categories = t])
    BY BesideSays DEF Beside, Fields
  <1>7. CASE create_workflow_category \/ delete_workflow_category \/ seed_default_categories
    <2>1. PICK t : Commit("workflows", [db EXCEPT !.categories = t]) /\ UNCHANGED <<vault, marks>>
      BY <1>7 DEF create_workflow_category, delete_workflow_category, seed_default_categories
    <2>2. QED
      BY <1>6, <2>1, CommitElsewhere DEF SecretsAside
  <1>8. CASE CreateWorkflow \/ UpdateWorkflow \/ UpdateProjectWorkflow
    <2>1. PICK t : Commit("workflows", [db EXCEPT !.workflows = t]) /\ UNCHANGED <<vault, marks>>
      BY <1>8 DEF CreateWorkflow, UpdateWorkflow, UpdateProjectWorkflow, Rewrite
    <2>2. QED
      BY <2>1, BesideSays, CommitElsewhere DEF SecretsAside
  <1>9. CASE DeleteWorkflow \/ DeleteProjectWorkflow
    <2>1. PICK w : RemoveWorkflow(w)
      BY <1>9 DEF DeleteWorkflow, DeleteProjectWorkflow
    <2>2. PICK runs, policies, flows :
             /\ UNCHANGED <<vault, marks>>
             /\ Commit("workflows", [db EXCEPT !.runs = runs, !.policies = policies,
                                               !.workflows = flows])
      BY <2>1 DEF RemoveWorkflow
    <2>3. Beside([db EXCEPT !.runs = runs, !.policies = policies, !.workflows = flows])
      BY BesideSays DEF Beside, Fields
    <2>4. QED
      BY <2>2, <2>3, CommitElsewhere DEF SecretsAside
  <1>10. CASE CopyToProject \/ ManagerCopiesToProject
    <2>1. PICK w, p : Commit("workflows", CopyOf(db, w, p)) /\ UNCHANGED <<vault, marks>>
      BY <1>10 DEF CopyToProject, ManagerCopiesToProject, CopyTo
    <2>2. QED
      BY <1>5, <2>1, CommitElsewhere DEF SecretsAside
  <1>11. CASE CreatePolicy \/ CreateProjectPolicy \/ UpdatePolicy \/ UpdateProjectPolicy
              \/ DeletePolicy \/ DeleteProjectPolicy
    <2>1. PICK t : Commit("workflows", [db EXCEPT !.policies = t]) /\ UNCHANGED <<vault, marks>>
      BY <1>11 DEF CreatePolicy, CreateProjectPolicy, AddPolicy, UpdatePolicy, UpdateProjectPolicy,
                   SetActive, DeletePolicy, DeleteProjectPolicy, RemovePolicy
    <2>2. QED
      BY <2>1, BesideSays, CommitElsewhere DEF SecretsAside
  <1>12. CASE ImportWorkflow
    <2>1. SecretsAside
      BY <1>12, BesideSays DEF ImportWorkflow, Overtaken, SecretsAside, Marks
    <2>2. PICK d : Commit("workflows", d) /\ Beside(d)
      <3>1. PICK scope, name, k, c, v, skill, policy :
                Commit("workflows", Imported(scope, name, k, c, v, skill, policy))
        BY <1>12 DEF ImportWorkflow
      <3> DEFINE flow == ImportOneWorkflow(db, scope, name, {k}, c)
                 skilled == IF skill THEN ImportOneSkill(flow, scope, k, v) ELSE flow
      <3>2. Beside(flow)
        BY <1>1, BesideSays
      <3>3. Imported(scope, name, k, c, v, skill, policy)
              = IF policy THEN ImportOnePolicy(skilled, scope, name) ELSE skilled
        BY DEF Imported
      <3> HIDE DEF flow
      <3>4. Beside(skilled)
        BY <1>2, <3>2
      <3> HIDE DEF skilled
      <3>5. QED
        BY <1>3, <3>1, <3>3, <3>4
    <2>3. QED
      BY <2>1, <2>2, CommitElsewhere
  <1>13. CASE seed_default_workflows
    <2>1. UNCHANGED <<vault, marks>>
      BY <1>13 DEF seed_default_workflows
    <2>2. PICK name, uses, c, t :
             LET flow == ImportOneWorkflow(db, Platform, name, uses, c)
             IN Commit("workflows", flow) \/ Commit("workflows", [flow EXCEPT !.policies = t])
      BY <1>13 DEF seed_default_workflows
    <2>3. QED
      BY <1>1, <1>4, <2>1, <2>2, BesideSays, CommitElsewhere DEF SecretsAside
  <1>14. QED
    BY <1>7, <1>8, <1>9, <1>10, <1>11, <1>12, <1>13 DEF WorkflowRequest

LEMMA PublicationStands ==
    ASSUME Inv, NEW r \in Request, republish_skill(r) \/ StampSkill(r)
    PROVE  Elsewhere
  <1>1. CASE republish_skill(r)
    <2> DEFINE new == [req[r] EXCEPT !.stamp = StampOf(db.skills[req[r].skill])]
    <2>1. req' = [req EXCEPT ![r] = IF \/ db.skills[req[r].skill] = None
                                       \/ db.skills[req[r].skill].stamp = StampOf(db.skills[req[r].skill])
                                    THEN Idle ELSE new]
          /\ UNCHANGED <<db, vault, marks>>
      BY <1>1 DEF republish_skill
    <2>2. new.op = "publish" /\ req[r].op = "publish"
      BY <1>1 DEF republish_skill, Doing, Inv, Requests, Carries
    <2> HIDE DEF new
    <2>3. \A s \in Request : req'[s] # Idle /\ req'[s].op \in Asking => req'[s] = req[s]
      BY <2>1, <2>2, BesideSays DEF Asking
    <2>4. \A s \in Request : Storing(req'[s]) \/ Storing(req[s]) => req'[s] = req[s]
      BY <2>1, <2>2, BesideSays DEF Storing
    <2>5. QED
      BY <2>1, <2>3, <2>4 DEF Elsewhere, AccountsStand, SecretsStand, MarksAside
  <1>2. CASE StampSkill(r)
    <2>1. PICK d : Finish(r, d) /\ UNCHANGED <<vault, marks>> /\ Beside(d)
      <3>1. PICK t : Finish(r, db) \/ Finish(r, [db EXCEPT !.skills = t])
        BY <1>2 DEF StampSkill
      <3>2. QED
        BY <1>2, <3>1, BesideSays DEF StampSkill
    <2>2. ~Storing(req[r])
      BY <1>2 DEF StampSkill, Doing, Storing
    <2>3. QED
      BY <2>1, <2>2, FinishElsewhere DEF SecretsAside
  <1>3. QED
    BY <1>1, <1>2

LEMMA VaultStands ==
    ASSUME Inv, VaultNext
    PROVE  AccountsStand
  <1>1. ASSUME NEW r \in Request, NEW table, NEW id, NEW row, NEW refs, NEW secrets,
               Store(r, table, id, row, refs, secrets)
        PROVE  AccountsStand
    <2> DEFINE job == [op |-> "store", rows |-> {id}, table |-> table, id |-> id,
                       new |-> db[table][id] = None, row |-> row, refs |-> refs]
    <2>1. Open(r, "vault", job) /\ db' = db /\ marks' = Torn(refs)
      BY <1>1 DEF Store
    <2>2. job.op \notin Asking
      BY DEF Asking
    <2> HIDE DEF job
    <2>3. MarksAside
      BY <2>1, AsideSays DEF MarksAside, Torn, Marks
    <2>4. QED
      BY <2>1, <2>2, <2>3, AsideSays, OpenStands
  <1>2. ASSUME NEW refs, NEW secrets, Refused(refs, secrets) PROVE AccountsStand
    BY <1>2, AsideSays DEF Refused, AccountsStand, MarksAside, Marks
  <1>3. ASSUME NEW i, Verify(i) PROVE AccountsStand
    <2>1. PICK t : Commit("vault", [db EXCEPT !.integrations = t]) /\ marks' = marks
      BY <1>3 DEF Verify
    <2>2. QED
      BY <2>1, AsideSays, CommitStands DEF MarksAside
  <1>4. ASSUME NEW r \in Request, NEW p, NEW kind, NEW label, NEW credential,
               Save(r, p, kind, label, credential)
        PROVE  AccountsStand
    BY <1>1, <1>4 DEF Save
  <1>5. ASSUME NEW r \in Request, NEW i, NEW credential, NEW valid, Rotate(r, i, credential, valid)
        PROVE  AccountsStand
    BY <1>1, <1>2, <1>5 DEF Rotate
  <1>6. ASSUME NEW r \in Request, NEW i, Wipe(r, i) PROVE AccountsStand
    BY <1>1, <1>6 DEF Wipe
  <1>7. ASSUME NEW r \in Request, NEW scope, NEW name, NEW secret, NewVariable(r, scope, name, secret)
        PROVE  AccountsStand
    BY <1>1, <1>7 DEF NewVariable
  <1>8. ASSUME NEW r \in Request, NEW e, NEW name, NEW value, NEW valid,
               ChangeVariable(r, e, name, value, valid)
        PROVE  AccountsStand
    BY <1>1, <1>2, <1>8 DEF ChangeVariable
  <1>9. ASSUME NEW r \in Request, NEW e, DropVariable(r, e) PROVE AccountsStand
    BY <1>1, <1>9 DEF DropVariable
  <1>10. ASSUME NEW r \in Request, CommitStore(r) PROVE AccountsStand
    <2> DEFINE job == req[r]
               set == [db EXCEPT ![job.table][job.id] = job.row]
               d == IF job.row # None \/ job.table # "integrations" THEN set
                    ELSE [set EXCEPT !.runs = SetNull(@, job.id)]
               gone == ~job.new /\ db[job.table][job.id] = None
    <2>1. Doing(r, "store") /\ Finish(r, IF gone THEN db ELSE d) /\ marks' = marks
      BY <1>10 DEF CommitStore
    <2>2. job.table \in {"integrations", "variables"}
      BY <2>1 DEF Doing, Inv, Requests, Carries, IntegrationJob, VariableJob
    <2>3. Aside(set)
      BY <2>2, AsideSays DEF Aside, Fields
    <2> HIDE DEF set
    <2>4. Aside(d)
      BY <2>3 DEF Aside, Fields
    <2> HIDE DEF d, gone
    <2>5. QED
      BY <2>1, <2>4, AsideSays, FinishStands DEF MarksAside
  <1>11. ASSUME NEW r \in Request,
                \/ create_integration(r) \/ admin_create_integration(r)
                \/ update_integration(r) \/ admin_update_integration(r)
                \/ delete_integration(r) \/ admin_delete_integration(r)
         PROVE  AccountsStand
    BY <1>4, <1>5, <1>6, <1>11
       DEF create_integration, admin_create_integration, update_integration,
           admin_update_integration, delete_integration, admin_delete_integration
  <1>12. ASSUME NEW r \in Request,
                \/ create_environment_variable(r) \/ create_platform_environment_variable(r)
                \/ update_environment_variable(r) \/ update_platform_environment_variable(r)
                \/ delete_environment_variable(r) \/ delete_platform_environment_variable(r)
         PROVE  AccountsStand
    BY <1>7, <1>8, <1>9, <1>12
       DEF create_environment_variable, create_platform_environment_variable,
           update_environment_variable, update_platform_environment_variable,
           delete_environment_variable, delete_platform_environment_variable
  <1>13. ASSUME test_integration \/ admin_test_integration PROVE AccountsStand
    BY <1>3, <1>13 DEF test_integration, admin_test_integration
  <1>14. QED
    BY <1>10, <1>11, <1>12, <1>13 DEF VaultNext, VaultRequest

LEMMA EngineStands ==
    ASSUME Inv, NEW r,
           \/ create_run \/ FailInit
           \/ r \in Request /\ (LoadRun(r) \/ init_run(r))
    PROVE  Elsewhere
  <1>1. CASE create_run
    <2>1. PICK w, p, row :
             LET d == Provision(w, p)
             IN Commit("engine", [d EXCEPT !.runs = Add(@, row)]) /\ UNCHANGED <<vault, marks>>
      BY <1>1, ZenonT(30) DEF create_run
    <2> DEFINE d == Provision(w, p)
    <2>2. Beside(d)
      BY BesideSays DEF Provision, CopyOf, clone_referenced_skills, Beside, Fields
    <2>3. PICK t : Commit("engine", [d EXCEPT !.runs = t]) /\ UNCHANGED <<vault, marks>>
      BY <2>1
    <2> HIDE DEF d
    <2>4. Beside([d EXCEPT !.runs = t])
      BY <2>2 DEF Beside, Fields
    <2>5. QED
      BY <2>3, <2>4, CommitElsewhere DEF SecretsAside
  <1>2. ASSUME NEW S, marks' = Overtake(S), vault' = vault PROVE SecretsAside
    BY <1>2, BesideSays DEF Overtake, SecretsAside, Marks
  <1>3. \A runs, skills : Beside([db EXCEPT !.runs = runs, !.skills = skills])
    BY BesideSays DEF Beside, Fields
  <1>4. CASE FailInit
    <2>1. PICK runs, skills, S :
             /\ Commit("engine", [db EXCEPT !.runs = runs, !.skills = skills])
             /\ marks' = Overtake(S) /\ vault' = vault
      BY <1>4 DEF FailInit
    <2>2. QED
      BY <1>2, <1>3, <2>1, CommitElsewhere
  <1>5. CASE r \in Request /\ LoadRun(r)
    <2>1. PICK rows, run, heals, bundles, healed :
             /\ Open(r, "engine", [op |-> "init", rows |-> rows, run |-> run, heals |-> heals,
                                   skill_bundle |-> bundles, healed |-> healed])
             /\ db' = db /\ marks' = Overtake(heals) /\ vault' = vault
      BY <1>5 DEF LoadRun
    <2> DEFINE job == [op |-> "init", rows |-> rows, run |-> run, heals |-> heals,
                       skill_bundle |-> bundles, healed |-> healed]
    <2>2. job.op \notin Asking /\ job.op # "store"
      BY DEF Asking
    <2> HIDE DEF job
    <2>3. QED
      BY <1>2, <1>5, <2>1, <2>2, BesideSays, OpenElsewhere DEF job
  <1>6. CASE r \in Request /\ init_run(r)
    <2>1. SecretsAside
      BY <1>6, BesideSays DEF init_run, SecretsAside, Marks
    <2>2. PICK runs, skills : Finish(r, db) \/ Finish(r, [db EXCEPT !.runs = runs, !.skills = skills])
      BY <1>6 DEF init_run
    <2>3. ~Storing(req[r])
      BY <1>6 DEF init_run, Doing, Storing
    <2>4. QED
      BY <1>3, <1>6, <2>1, <2>2, <2>3, BesideSays, FinishElsewhere
  <1>7. QED
    BY <1>1, <1>4, <1>5, <1>6

LEMMA AbortStands == ASSUME Inv, NEW r \in Request, Abort(r) PROVE AccountsStand
  <1>1. MarksAside
    BY AsideSays DEF Abort, MarksAside, Marks
  <1>2. QED
    BY <1>1, AsideSays DEF Abort, Close, AccountsStand

-----------------------------------------------------------------------------
(* The accounts.  A request that takes somebody's right away relies on      *)
(* somebody else who has it, and two such requests at once leave a mark.    *)

OtherAdmin(u) == \E v \in User : v # u /\ IsAdmin(v)
OtherManager(u, p) == \E v \in User : v # u /\ db.roster[<<v, p>>] = Manager

Demotes(j)   == (j.op = "role" /\ j.role # "ADMIN") \/ (j.op = "enable" /\ ~j.on)
Leaves(j, p) == j.op = "member" /\ j.project = p /\ j.role # Manager

Ruling(r)  == req[r] # Idle /\ req[r].op \in {"role", "enable"}
Seating(r) == req[r] # Idle /\ req[r].op = "member"

Admins ==
    /\ AdminRemains
    /\ \A r \in Request : Doing(r, "arrive") /\ req[r].role = "USER" => Live(db.users) # {}
    /\ \A r \in Request :
         Ruling(r) /\ Demotes(req[r]) /\ ~marks.duel => OtherAdmin(req[r].user)
    /\ \A r, s \in Request : r # s /\ Ruling(r) /\ Ruling(s) => marks.duel

Managers ==
    /\ ManagerRemains
    /\ db.projects \cap marks.gone = {}
    /\ \A r \in Request : Seating(r) => req[r].project \in db.projects \cup marks.gone
    /\ \A r \in Request, p \in db.projects \ marks.loose :
         Seating(r) /\ Leaves(req[r], p) => OtherManager(req[r].user, p)
    /\ \A r, s \in Request :
         r # s /\ Seating(r) /\ Seating(s) /\ req[r].project = req[s].project
         => req[r].project \in marks.loose

LEMMA AdminsStand ==
    ASSUME Admins, db'.users = db.users, marks'.duel = marks.duel,
           \A r \in Request : req'[r] # Idle /\ req'[r].op \in {"arrive", "role", "enable"}
               => req'[r] = req[r]
    PROVE  Admins'
  BY DEF Admins, AdminRemains, AnAdmin, IsAdmin, Enabled, OtherAdmin, Doing, Ruling, Demotes, Live

LEMMA ManagersStand ==
    ASSUME Managers, db'.roster = db.roster, db'.projects = db.projects,
           marks'.loose = marks.loose, marks'.gone = marks.gone,
           \A r \in Request : req'[r] # Idle /\ req'[r].op = "member" => req'[r] = req[r]
    PROVE  Managers'
  <1>1. \A u, p : OtherManager(u, p) => OtherManager(u, p)'
    BY DEF OtherManager
  <1>2. \A r \in Request : Seating(r)' => Seating(r) /\ req'[r] = req[r]
    BY DEF Seating
  <1>3. ManagerRemains' /\ db'.projects \cap marks'.gone = {}
    BY DEF Managers, ManagerRemains
  <1>4. \A r \in Request, p \in db'.projects \ marks'.loose :
          Seating(r)' /\ Leaves(req'[r], p) => OtherManager(req[r].user, p)'
    BY <1>1, <1>2 DEF Managers
  <1>5. QED
    BY <1>2, <1>3, <1>4 DEF Managers, Leaves

LEMMA OthersStand == ASSUME Admins, Managers, AccountsStand PROVE Admins' /\ Managers'
  BY AdminsStand, ManagersStand DEF AccountsStand, MarksAside, Asking

LEMMA UserRows ==
    ASSUME Inv
    PROVE  /\ db.users \in [User -> Maybe(UserRow)] /\ DOMAIN db = Fields
           /\ \A u \in User : db.users[u] # None => db.users[u] \in UserRow
  BY DEF Inv, Sane, Typed, Fields, Maybe

LEMMA ArriveRules == ASSUME Inv, Admins, Managers, NEW r \in Request, Arrive(r) PROVE Admins' /\ Managers'
  <1>1. PICK job : /\ Open(r, "accounts", job) /\ job.op = "arrive"
                   /\ job.role = IF Live(db.users) = {} THEN "ADMIN" ELSE "USER"
                   /\ UNCHANGED <<db, objects, vault, marks, faults>>
    <2>1. PICK u \in User :
           /\ Open(r, "accounts",
                [op |-> "arrive", rows |-> {}, user |-> u,
                 role |-> IF Live(db.users) = {} THEN "ADMIN" ELSE "USER"])
           /\ UNCHANGED <<db, objects, vault, marks, faults>>
      BY DEF Arrive
    <2>2. QED
      BY <2>1
  <1>2. req'[r] = job /\ \A s \in Request \ {r} : req'[s] = req[s]
    BY <1>1, AsideSays DEF Open
  <1>3. Managers'
    BY <1>1, <1>2, ManagersStand
  <1>4. Admins'
    BY <1>1, <1>2 DEF Admins, AdminRemains, AnAdmin, IsAdmin, Enabled, OtherAdmin, Doing, Ruling,
                      Demotes, Live
  <1>5. QED
    BY <1>3, <1>4

LEMMA FinishSays ==
    ASSUME Inv, NEW r \in Request, NEW d, Finish(r, d)
    PROVE  /\ req'[r] = Idle /\ \A s \in Request \ {r} : req'[s] = req[s]
           /\ db' = d \/ db' = db
  BY AsideSays DEF Finish, Close

LEMMA EnterUserRules ==
    ASSUME Inv, Admins, Managers, NEW r \in Request, EnterUser(r)
    PROVE  Admins' /\ Managers'
  <1> DEFINE u == req[r].user
             row == [role |-> req[r].role, enabled |-> TRUE]
             d == IF db.users[u] # None THEN db ELSE [db EXCEPT !.users[u] = row]
  <1>1. Finish(r, d) /\ Doing(r, "arrive") /\ UNCHANGED <<objects, vault, marks>>
    BY DEF EnterUser
  <1>2. u \in User /\ req[r].role \in {"ADMIN", "USER"}
    BY <1>1 DEF Doing, Inv, Requests, Carries
  <1>3. req'[r] = Idle /\ \A s \in Request \ {r} : req'[s] = req[s]
    BY <1>1, FinishSays
  <1>4. db' = db \/ (db.users[u] = None /\ db' = [db EXCEPT !.users[u] = row])
    BY <1>1, FinishSays
  <1>5. db'.roster = db.roster /\ db'.projects = db.projects
    BY <1>4, UserRows DEF Fields
  <1>6. Managers'
    BY <1>1, <1>3, <1>5, ManagersStand
  <1>7. CASE db' = db
    <2>1. db'.users = db.users /\ marks'.duel = marks.duel
      BY <1>1, <1>7
    <2>2. \A s \in Request : req'[s] # Idle /\ req'[s].op \in {"arrive", "role", "enable"}
                                 => req'[s] = req[s]
      BY <1>3
    <2>3. QED
      BY <1>6, <2>1, <2>2, AdminsStand
  <1>8. CASE db.users[u] = None /\ db' = [db EXCEPT !.users[u] = row]
    <2>1. /\ DOMAIN db'.users = User /\ db'.users[u] = row
          /\ \A v \in User \ {u} : db'.users[v] = db.users[v]
      BY <1>2, <1>8, UserRows DEF Fields
    <2>2. row \in UserRow
      BY <1>2 DEF UserRow
    <2>3. row # None /\ row.role = req[r].role /\ row.enabled
      BY <2>2, NoneAssumption
    <2> HIDE DEF row
    <2>4. \A v \in User : IsAdmin(v) => IsAdmin(v)'
      BY <1>8, <2>1 DEF IsAdmin, Enabled
    <2>5. AnAdmin' \/ marks.duel
      <3>1. CASE req[r].role = "ADMIN"
        BY <1>2, <2>1, <2>3, <3>1 DEF AnAdmin, IsAdmin, Enabled
      <3>2. CASE req[r].role = "USER"
        BY <1>1, <2>4, <3>2 DEF Admins, AdminRemains, AnAdmin
      <3>3. QED
        BY <1>2, <3>1, <3>2
    <2>6. Live(db.users) # {} => Live(db'.users) # {}
      BY <1>2, <2>1, <2>3 DEF Live
    <2>7. \A v : OtherAdmin(v) => OtherAdmin(v)'
      BY <2>4 DEF OtherAdmin
    <2>8. QED
      BY <1>1, <1>3, <1>6, <2>5, <2>6, <2>7 DEF Admins, AdminRemains, Doing, Ruling, Demotes
  <1>9. QED
    BY <1>4, <1>6, <1>7, <1>8

\* A demotion or a disabling is asked for.
LEMMA AskRules ==
    ASSUME Inv, Admins, Managers, NEW r \in Request, NEW job, NEW a \in User,
           Open(r, "accounts", job), job.op \in {"role", "enable"},
           IsAdmin(a), Demotes(job) => a # job.user,
           marks' = Duel(r), UNCHANGED <<db, objects, vault, faults>>
    PROVE  Admins' /\ Managers'
  <1>1. req'[r] = job /\ req[r] = Idle /\ \A s \in Request \ {r} : req'[s] = req[s]
    BY AsideSays DEF Open
  <1>2. /\ marks'.duel = (marks.duel \/ \E j \in Others(r) : j.op \in {"role", "enable"})
        /\ marks'.loose = marks.loose /\ marks'.gone = marks.gone
    BY AsideSays DEF Duel, Marks
  <1>3. Managers'
    BY <1>1, <1>2, ManagersStand
  <1>4. \A s \in Request \ {r} : Ruling(s) => marks'.duel
    BY <1>2 DEF Ruling, Others
  <1>5. OtherAdmin(job.user)' \/ ~Demotes(job)
    BY DEF OtherAdmin, IsAdmin, Enabled
  <1>6. AdminRemains' /\ \A u : OtherAdmin(u) => OtherAdmin(u)'
    BY <1>2 DEF Admins, AdminRemains, AnAdmin, OtherAdmin, IsAdmin, Enabled, Live
  <1>7. ASSUME NEW s \in Request, NEW t \in Request, s # t, Ruling(s)', Ruling(t)'
        PROVE  marks'.duel
    BY <1>1, <1>2, <1>4, <1>7 DEF Ruling, Admins
  <1>8. \A s \in Request : Doing(s, "arrive")' /\ req'[s].role = "USER" => Live(db'.users) # {}
    BY <1>1 DEF Admins, Doing
  <1>9. \A s \in Request :
          Ruling(s)' /\ Demotes(req'[s]) /\ ~marks'.duel => OtherAdmin(req[s].user)'
    <2> SUFFICES ASSUME NEW s \in Request, Ruling(s)', Demotes(req'[s]), ~marks'.duel
                 PROVE  OtherAdmin(req[s].user)'
      OBVIOUS
    <2>1. CASE s = r
      BY <1>1, <1>5, <2>1
    <2>2. CASE s # r
      <3>1. req'[s] = req[s] /\ Ruling(s) /\ ~marks.duel
        BY <1>1, <1>2, <2>2 DEF Ruling
      <3>2. OtherAdmin(req[s].user)
        BY <3>1 DEF Admins
      <3>3. QED
        BY <1>6, <3>1, <3>2
    <2>3. QED
      BY <2>1, <2>2
  <1>10. Admins'
    BY <1>6, <1>7, <1>8, <1>9 DEF Admins, Demotes
  <1>11. QED
    BY <1>3, <1>10

LEMMA AskRoleRules ==
    ASSUME Inv, Admins, Managers, NEW r \in Request, AskRole(r)
    PROVE  Admins' /\ Managers'
  <1>1. PICK a \in User, u \in User, role \in {"ADMIN", "USER"} :
           /\ IsAdmin(a) /\ (a = u => role = "ADMIN")
           /\ Open(r, "accounts", [op |-> "role", rows |-> {}, user |-> u, role |-> role])
           /\ marks' = Duel(r)
           /\ UNCHANGED <<db, objects, vault, faults>>
    BY DEF AskRole
  <1> DEFINE job == [op |-> "role", rows |-> {}, user |-> u, role |-> role]
  <1>2. job.op \in {"role", "enable"} /\ (Demotes(job) => a # job.user)
    BY <1>1 DEF Demotes
  <1> HIDE DEF job
  <1>3. Open(r, "accounts", job)
    BY <1>1 DEF job
  <1>4. QED
    BY <1>1, <1>2, <1>3, AskRules

LEMMA AskEnabledRules ==
    ASSUME Inv, Admins, Managers, NEW r \in Request, AskEnabled(r)
    PROVE  Admins' /\ Managers'
  <1>1. PICK a \in User, u \in User, on \in BOOLEAN :
           /\ IsAdmin(a) /\ (a = u => on)
           /\ Open(r, "accounts", [op |-> "enable", rows |-> {}, user |-> u, on |-> on])
           /\ marks' = Duel(r)
           /\ UNCHANGED <<db, objects, vault, faults>>
    BY DEF AskEnabled
  <1> DEFINE job == [op |-> "enable", rows |-> {}, user |-> u, on |-> on]
  <1>2. job.op \in {"role", "enable"} /\ (Demotes(job) => a # job.user)
    BY <1>1 DEF Demotes
  <1> HIDE DEF job
  <1>3. Open(r, "accounts", job)
    BY <1>1 DEF job
  <1>4. QED
    BY <1>1, <1>2, <1>3, AskRules

\* A role or a flag is written: unless two of these overlap, the one who
\* stays an administrator is somebody else.
LEMMA SetUserRules ==
    ASSUME Inv, Admins, Managers, NEW r \in Request, NEW row \in UserRow,
           Doing(r, "role") \/ Doing(r, "enable"),
           Finish(r, [db EXCEPT !.users[req[r].user] = row]), UNCHANGED marks,
           ~Demotes(req[r]) /\ IsAdmin(req[r].user) => row.enabled /\ row.role = "ADMIN"
    PROVE  Admins' /\ Managers'
  <1> DEFINE u == req[r].user
  <1>1. u \in User /\ db.users[u] \in UserRow
    BY UserThere
  <1>2. req'[r] = Idle /\ \A s \in Request \ {r} : req'[s] = req[s]
    BY FinishSays
  <1>3. db' = db \/ db' = [db EXCEPT !.users[u] = row]
    BY FinishSays
  <1>4. db'.roster = db.roster /\ db'.projects = db.projects
    BY <1>3, UserRows DEF Fields
  <1>5. Managers'
    BY <1>2, <1>4, ManagersStand
  <1>6. DOMAIN db'.users = User /\ \A v \in User \ {u} : db'.users[v] = db.users[v]
    BY <1>1, <1>3, UserRows DEF Fields
  <1>7. db'.users[u] \in {row, db.users[u]}
    BY <1>1, <1>3, UserRows DEF Fields
  <1>8. Live(db'.users) # {}
    <2>1. row # None /\ db.users[u] # None
      BY <1>1, NoneAssumption
    <2>2. QED
      BY <1>1, <1>6, <1>7, <2>1 DEF Live
  <1>9. \A s \in Request \ {r} : Ruling(s) => marks.duel
    BY DEF Admins, Ruling, Doing
  <1>10. ASSUME ~marks.duel PROVE AnAdmin'
    <2>1. CASE Demotes(req[r])
      <3>1. OtherAdmin(u)
        BY <1>10, <2>1 DEF Admins, Ruling, Doing
      <3>2. QED
        BY <1>6, <3>1 DEF OtherAdmin, AnAdmin, IsAdmin, Enabled
    <2>2. CASE ~Demotes(req[r])
      <3>1. u \in Live(db.users)
        BY <1>1, NoneAssumption, UserRows DEF Live
      <3>2. PICK v \in User : IsAdmin(v)
        BY <1>10, <3>1 DEF Admins, AdminRemains, AnAdmin
      <3>3. CASE v = u
        <4>1. row # None
          BY NoneAssumption
        <4>2. db'.users[u] = row \/ db'.users[u] = db.users[u]
          BY <1>7
        <4>3. QED
          BY <1>1, <2>2, <3>2, <3>3, <4>1, <4>2 DEF AnAdmin, IsAdmin, Enabled
      <3>4. CASE v # u
        BY <1>6, <3>2, <3>4 DEF AnAdmin, IsAdmin, Enabled
      <3>5. QED
        BY <3>3, <3>4
    <2>3. QED
      BY <2>1, <2>2
  <1>11. Admins'
    <2>1. AdminRemains'
      BY <1>10 DEF AdminRemains
    <2>2. \A s \in Request : Ruling(s)' => s # r /\ Ruling(s) /\ marks'.duel
      BY <1>2, <1>9 DEF Ruling
    <2>3. \A s, t \in Request : s # t /\ Ruling(s)' /\ Ruling(t)' => marks'.duel
      BY <2>2
    <2>4. QED
      BY <1>8, <2>1, <2>2, <2>3 DEF Admins
  <1>12. QED
    BY <1>5, <1>11

LEMMA SetRoleRules ==
    ASSUME Inv, Admins, Managers, NEW r \in Request, SetRole(r)
    PROVE  Admins' /\ Managers'
  <1> DEFINE u == req[r].user
             row == [db.users[u] EXCEPT !.role = req[r].role]
  <1>1. Doing(r, "role") /\ Finish(r, [db EXCEPT !.users[u] = row]) /\ UNCHANGED marks
    BY DEF SetRole
  <1>2. db.users[u] \in UserRow
    BY <1>1, UserThere
  <1>3. req[r].role \in {"ADMIN", "USER"} /\ req[r].op = "role"
    BY <1>1 DEF Doing, Inv, Requests, Carries
  <1>4. row \in UserRow /\ row.role = req[r].role /\ row.enabled = db.users[u].enabled
    BY <1>2, <1>3 DEF UserRow
  <1> HIDE DEF row
  <1>5. ~Demotes(req[r]) /\ IsAdmin(u) => row.enabled /\ row.role = "ADMIN"
    BY <1>3, <1>4 DEF Demotes, IsAdmin, Enabled
  <1>6. QED
    BY <1>1, <1>4, <1>5, SetUserRules

LEMMA SetEnabledRules ==
    ASSUME Inv, Admins, Managers, NEW r \in Request, SetEnabled(r)
    PROVE  Admins' /\ Managers'
  <1> DEFINE u == req[r].user
             row == [db.users[u] EXCEPT !.enabled = req[r].on]
  <1>1. Doing(r, "enable") /\ Finish(r, [db EXCEPT !.users[u] = row]) /\ UNCHANGED marks
    BY DEF SetEnabled
  <1>2. db.users[u] \in UserRow
    BY <1>1, UserThere
  <1>3. req[r].on \in BOOLEAN /\ req[r].op = "enable"
    BY <1>1 DEF Doing, Inv, Requests, Carries
  <1>4. row \in UserRow /\ row.enabled = req[r].on /\ row.role = db.users[u].role
    BY <1>2, <1>3 DEF UserRow
  <1> HIDE DEF row
  <1>5. ~Demotes(req[r]) /\ IsAdmin(u) => row.enabled /\ row.role = "ADMIN"
    BY <1>3, <1>4 DEF Demotes, IsAdmin, Enabled
  <1>6. QED
    BY <1>1, <1>4, <1>5, SetUserRules

\* Members come and go; the accounts stay.
LEMMA RosterAdmins ==
    ASSUME Admins, db'.users = db.users, marks'.duel = marks.duel,
           \A r \in Request : req'[r] # Idle => req'[r] = req[r] \/ req'[r].op = "member"
    PROVE  Admins'
  <1>1. \A r \in Request : req'[r] # Idle /\ req'[r].op \in {"arrive", "role", "enable"}
                               => req'[r] = req[r]
    OBVIOUS
  <1>2. QED
    BY <1>1, AdminsStand

LEMMA RosterRows ==
    ASSUME Inv
    PROVE  /\ DOMAIN db = Fields /\ DOMAIN db.roster = User \X Project
           /\ db.projects \subseteq Project
  <1>1. DOMAIN db = Fields /\ db.roster \in [User \X Project -> Maybe(Role)]
        /\ db.projects \subseteq Project
    BY DEF Inv, Sane, Typed, Fields
  <1>2. QED
    BY <1>1

\* What the one row of a member that is written leaves alone.
LEMMA RosterSays ==
    ASSUME Inv, NEW u \in User, NEW p \in Project, NEW role
    PROVE  LET d == [db EXCEPT !.roster[<<u, p>>] = role]
           IN /\ d.users = db.users /\ d.projects = db.projects
              /\ d.roster[<<u, p>>] = role
              /\ \A v \in User, x \in Project :
                   v # u \/ x # p => d.roster[<<v, x>>] = db.roster[<<v, x>>]
  <1> DEFINE roster == [db.roster EXCEPT ![<<u, p>>] = role]
             d == [db EXCEPT !.roster[<<u, p>>] = role]
  <1>1. <<u, p>> \in DOMAIN db.roster
    BY RosterRows
  <1>2. roster[<<u, p>>] = role
    BY <1>1
  <1>3. \A v \in User, x \in Project :
          v # u \/ x # p => roster[<<v, x>>] = db.roster[<<v, x>>]
    <2> TAKE v \in User, x \in Project
    <2>1. <<v, x>> \in DOMAIN db.roster
      BY RosterRows
    <2>2. v # u \/ x # p => <<v, x>> # <<u, p>>
      OBVIOUS
    <2>3. QED
      BY <2>1, <2>2
  <1>4. d = [db EXCEPT !.roster = roster]
    OBVIOUS
  <1> HIDE DEF roster
  <1>5. d.roster = roster /\ d.users = db.users /\ d.projects = db.projects
    BY <1>4, RosterRows DEF Fields
  <1>6. QED
    BY <1>2, <1>3, <1>5

LEMMA CreateProjectRules ==
    ASSUME Inv, Admins, Managers, CreateProject
    PROVE  Admins' /\ Managers'
  <1>1. PICK u \in User, p \in Project \ (db.projects \cup marks.gone) :
           /\ Commit("accounts", [db EXCEPT !.projects = @ \cup {p}, !.roster[<<u, p>>] = Manager])
           /\ UNCHANGED <<objects, vault, marks>>
    BY DEF CreateProject
  <1>2. /\ db'.users = db.users /\ req' = req /\ db'.projects = db.projects \cup {p}
        /\ db'.roster[<<u, p>>] = Manager
        /\ \A v \in User, x \in Project \ {p} : db'.roster[<<v, x>>] = db.roster[<<v, x>>]
    <2> DEFINE roster == [db.roster EXCEPT ![<<u, p>>] = Manager]
    <2>1. db' = [db EXCEPT !.projects = @ \cup {p}, !.roster = roster] /\ req' = req
      BY <1>1 DEF Commit
    <2>2. roster[<<u, p>>] = Manager
      BY <1>1, RosterRows
    <2>3. \A v \in User, x \in Project \ {p} : roster[<<v, x>>] = db.roster[<<v, x>>]
      <3> TAKE v \in User, x \in Project \ {p}
      <3>1. <<v, x>> \in DOMAIN db.roster /\ <<v, x>> # <<u, p>>
        BY RosterRows
      <3>2. QED
        BY <3>1
    <2> HIDE DEF roster
    <2>4. db'.users = db.users /\ db'.projects = db.projects \cup {p} /\ db'.roster = roster
      BY <2>1, RosterRows DEF Fields
    <2>5. QED
      BY <2>1, <2>2, <2>3, <2>4
  <1>3. db.projects \subseteq Project
    BY DEF Inv, Sane, Typed
  <1>4. Admins'
    BY <1>1, <1>2, RosterAdmins
  <1>5. ManagerRemains'
    BY <1>1, <1>2, <1>3 DEF Managers, ManagerRemains
  <1>6. db'.projects \cap marks'.gone = {}
    BY <1>1, <1>2 DEF Managers
  <1>7. \A r \in Request : Seating(r)' => Seating(r) /\ req'[r] = req[r]
                                         /\ req[r].project \in db.projects \cup marks.gone
    BY <1>2 DEF Seating, Managers
  <1>8. ASSUME NEW r \in Request, NEW x \in db'.projects \ marks'.loose, Seating(r)', Leaves(req'[r], x)
        PROVE  OtherManager(req[r].user, x)'
    <2>1. x # p /\ x \in db.projects \ marks.loose /\ Leaves(req[r], x) /\ Seating(r)
      BY <1>1, <1>2, <1>7, <1>8 DEF Leaves
    <2>2. OtherManager(req[r].user, x)
      BY <2>1 DEF Managers
    <2>3. QED
      BY <1>2, <1>3, <2>1, <2>2 DEF OtherManager
  <1>9. Managers'
    BY <1>1, <1>2, <1>5, <1>6, <1>7, <1>8 DEF Managers
  <1>10. QED
    BY <1>4, <1>9

LEMMA DeleteProjectRules ==
    ASSUME Inv, Admins, Managers, DeleteProject
    PROVE  Admins' /\ Managers'
  <1>1. PICK p \in db.projects, area \in Area \ {"engine"} :
           /\ Commit(area, Cascade(db, p))
           /\ marks' = [marks EXCEPT !.gone = @ \cup {p}, !.torn = @ \cup RefsOf(p),
                                     !.behind = @ \cap Live(db'.skills)]
    BY DEF DeleteProject
  <1>2. db.projects \subseteq Project
    BY DEF Inv, Sane, Typed
  <1>3. /\ db' = Cascade(db, p) /\ req' = req
        /\ db'.users = db.users /\ db'.projects = db.projects \ {p}
        /\ db'.roster = [m \in DOMAIN db.roster |-> IF m[2] = p THEN None ELSE db.roster[m]]
    BY <1>1, <1>2, CascadeSays DEF Commit
  <1>4. marks'.duel = marks.duel /\ marks'.loose = marks.loose /\ marks'.gone = marks.gone \cup {p}
    BY <1>1, AsideSays DEF Marks
  <1>5. \A v \in User, x \in Project \ {p} : db'.roster[<<v, x>>] = db.roster[<<v, x>>]
    BY <1>3, RosterRows
  <1>6. Admins'
    BY <1>3, <1>4, RosterAdmins
  <1>7. ManagerRemains' /\ db'.projects \cap marks'.gone = {}
    BY <1>2, <1>3, <1>4, <1>5 DEF Managers, ManagerRemains
  <1>8. \A r \in Request : Seating(r)' => Seating(r) /\ req'[r] = req[r]
                                         /\ req[r].project \in db'.projects \cup marks'.gone
    BY <1>3, <1>4 DEF Seating, Managers
  <1>9. ASSUME NEW r \in Request, NEW x \in db'.projects \ marks'.loose, Seating(r)', Leaves(req'[r], x)
        PROVE  OtherManager(req[r].user, x)'
    <2>1. OtherManager(req[r].user, x)
      BY <1>3, <1>4, <1>8, <1>9 DEF Managers
    <2>2. QED
      BY <1>2, <1>3, <1>5, <2>1 DEF OtherManager
  <1>10. Managers'
    BY <1>3, <1>4, <1>7, <1>8, <1>9 DEF Managers
  <1>11. QED
    BY <1>6, <1>10

LEMMA CommitMemberSays ==
    ASSUME Inv, NEW u \in User, NEW p \in Project, NEW role,
           Commit("accounts", [db EXCEPT !.roster[<<u, p>>] = role])
    PROVE  /\ db'.users = db.users /\ req' = req /\ db'.projects = db.projects
           /\ db'.roster[<<u, p>>] = role
           /\ \A v \in User, x \in Project :
                v # u \/ x # p => db'.roster[<<v, x>>] = db.roster[<<v, x>>]
  BY RosterSays DEF Commit

\* A new member takes nobody's place.
LEMMA NewMemberRules ==
    ASSUME Inv, Admins, Managers, NEW p \in db.projects, NEW u \in User, NEW role,
           db.roster[<<u, p>>] = None, UNCHANGED marks,
           Commit("accounts", [db EXCEPT !.roster[<<u, p>>] = role])
    PROVE  Admins' /\ Managers'
  <1>1. db.projects \subseteq Project /\ None # Manager
    BY NoneAssumption DEF Inv, Sane, Typed, Role
  <1>2. /\ db'.users = db.users /\ req' = req /\ db'.projects = db.projects
        /\ \A v \in User, x \in Project :
             db.roster[<<v, x>>] = Manager => db'.roster[<<v, x>>] = Manager
    BY <1>1, CommitMemberSays
  <1>3. Admins'
    BY <1>2, RosterAdmins
  <1>4. ASSUME NEW v, NEW x \in Project, OtherManager(v, x)
        PROVE  OtherManager(v, x)'
    BY <1>2, <1>4 DEF OtherManager
  <1>5. ManagerRemains'
    BY <1>1, <1>2 DEF Managers, ManagerRemains
  <1>6. \A r \in Request : Seating(r)' => Seating(r) /\ req'[r] = req[r]
    BY <1>2 DEF Seating
  <1>7. \A r \in Request, x \in db'.projects \ marks'.loose :
          Seating(r)' /\ Leaves(req'[r], x) => OtherManager(req[r].user, x)'
    BY <1>1, <1>2, <1>4, <1>6 DEF Managers
  <1>8. Managers'
    BY <1>2, <1>5, <1>6, <1>7 DEF Managers
  <1>9. QED
    BY <1>3, <1>8

\* An administrator's change: nobody is asked, but it leaves its mark.
LEMMA LoosenRules ==
    ASSUME Inv, Admins, Managers, NEW p \in db.projects, NEW u \in User, NEW role,
           Commit("accounts", [db EXCEPT !.roster[<<u, p>>] = role]),
           marks' = Loosen(p, db')
    PROVE  Admins' /\ Managers'
  <1>1. db.projects \subseteq Project
    BY DEF Inv, Sane, Typed
  <1>2. /\ db'.users = db.users /\ req' = req /\ db'.projects = db.projects
        /\ \A v \in User, x \in Project \ {p} : db'.roster[<<v, x>>] = db.roster[<<v, x>>]
    BY <1>1, CommitMemberSays
  <1>3. /\ marks'.duel = marks.duel /\ marks'.gone = marks.gone /\ marks.loose \subseteq marks'.loose
        /\ p \notin marks'.loose => ~Asked(p) /\ \E v \in User : db'.roster[<<v, p>>] = Manager
    BY AsideSays DEF Loosen, Marks
  <1>4. Admins'
    BY <1>2, <1>3, RosterAdmins
  <1>5. ManagerRemains'
    BY <1>1, <1>2, <1>3 DEF Managers, ManagerRemains
  <1>6. \A r \in Request : Seating(r)' => Seating(r) /\ req'[r] = req[r]
    BY <1>2 DEF Seating
  <1>7. ASSUME NEW r \in Request, NEW x \in db'.projects \ marks'.loose, Seating(r)', Leaves(req'[r], x)
        PROVE  OtherManager(req[r].user, x)'
    <2>1. x # p
      BY <1>3, <1>6, <1>7 DEF Asked, Doing, Seating, Leaves
    <2>2. OtherManager(req[r].user, x)
      BY <1>2, <1>3, <1>6, <1>7 DEF Managers
    <2>3. QED
      BY <1>1, <1>2, <2>1, <2>2 DEF OtherManager
  <1>8. Managers'
    BY <1>2, <1>3, <1>5, <1>6, <1>7 DEF Managers
  <1>9. QED
    BY <1>4, <1>8

LEMMA AskMemberRules ==
    ASSUME Inv, Admins, Managers, NEW r \in Request, NEW p \in db.projects, NEW u \in User,
           NEW role, AskMember(r, p, u, role)
    PROVE  Admins' /\ Managers'
  <1> DEFINE job == [op |-> "member", rows |-> {}, user |-> u, project |-> p, role |-> role]
  <1>1. /\ Open(r, "accounts", job) /\ marks' = Race(r, p) /\ db' = db
        /\ role # Manager => ~LastManager(u, p)
    BY DEF AskMember
  <1>2. job.op = "member" /\ job.user = u /\ job.project = p /\ job.role = role
    OBVIOUS
  <1> HIDE DEF job
  <1>3. req'[r] = job /\ req[r] = Idle /\ \A s \in Request \ {r} : req'[s] = req[s]
    BY <1>1, AsideSays DEF Open
  <1>4. /\ marks'.duel = marks.duel /\ marks'.gone = marks.gone /\ marks.loose \subseteq marks'.loose
        /\ \A s \in Request \ {r} : Seating(s) /\ req[s].project = p => p \in marks'.loose
    BY <1>1, AsideSays DEF Race, Marks, Others, Seating
  <1>5. Admins'
    BY <1>1, <1>2, <1>3, <1>4, RosterAdmins
  <1>6. role # Manager /\ p \notin marks'.loose => OtherManager(u, p)'
    <2> SUFFICES ASSUME role # Manager, p \notin marks'.loose PROVE OtherManager(u, p)
      BY <1>1 DEF OtherManager
    <2> DEFINE S == {v \in User : db.roster[<<v, p>>] = Manager}
    <2>1. PICK m \in S : TRUE
      BY <1>4 DEF Managers, ManagerRemains
    <2>2. CASE u \in S
      <3>1. ~(Cardinality(S) <= 1)
        BY <1>1, <2>2 DEF LastManager
      <3>2. Cardinality({u}) = 1
        BY FS_Singleton
      <3>3. S # {u}
        <4> HIDE DEF S
        <4>1. S = {u} => Cardinality(S) <= 1
          BY <3>2
        <4>2. QED
          BY <3>1, <4>1
      <3>4. QED
        BY <2>2, <3>3 DEF OtherManager
    <2>3. CASE u \notin S
      BY <2>1, <2>3 DEF OtherManager
    <2>4. QED
      BY <2>2, <2>3
  <1>7. ManagerRemains' /\ db'.projects \cap marks'.gone = {}
    BY <1>1, <1>4 DEF Managers, ManagerRemains
  <1>8. \A s \in Request \ {r} : Seating(s)' => Seating(s) /\ req'[s] = req[s]
    BY <1>3 DEF Seating
  <1>9. \A s \in Request : Seating(s)' => req'[s].project \in db'.projects \cup marks'.gone
    BY <1>1, <1>2, <1>3, <1>4, <1>8 DEF Managers
  <1>10. ASSUME NEW s \in Request, NEW x \in db'.projects \ marks'.loose, Seating(s)', Leaves(req'[s], x)
         PROVE  OtherManager(req[s].user, x)'
    <2>1. CASE s = r
      BY <1>2, <1>3, <1>6, <1>10, <2>1 DEF Leaves
    <2>2. CASE s # r
      <3>1. OtherManager(req[s].user, x)
        BY <1>1, <1>4, <1>8, <1>10, <2>2 DEF Managers
      <3>2. QED
        BY <1>1, <1>8, <1>10, <2>2, <3>1 DEF OtherManager
    <2>3. QED
      BY <2>1, <2>2
  <1>11. \A s, t \in Request :
           s # t /\ Seating(s)' /\ Seating(t)' /\ req'[s].project = req'[t].project
           => req'[s].project \in marks'.loose
    BY <1>2, <1>3, <1>4, <1>8 DEF Managers
  <1>12. Managers'
    BY <1>7, <1>9, <1>10, <1>11 DEF Managers
  <1>13. QED
    BY <1>5, <1>12

LEMMA SetMemberRules ==
    ASSUME Inv, Admins, Managers, NEW r \in Request, SetMember(r)
    PROVE  Admins' /\ Managers'
  <1> DEFINE u == req[r].user
             p == req[r].project
             role == req[r].role
             new == [db EXCEPT !.roster[<<u, p>>] = role]
             d == IF db.roster[<<u, p>>] = None THEN db ELSE new
  <1>1. Doing(r, "member") /\ Finish(r, d) /\ marks' \in {Race(r, p), marks}
    BY DEF SetMember
  <1>2. u \in User /\ p \in Project
    BY <1>1 DEF Doing, Inv, Requests, Carries
  <1>3. req'[r] = Idle /\ \A s \in Request \ {r} : req'[s] = req[s]
    BY <1>1, FinishSays
  <1>4. db' = db \/ db' = new
    BY <1>1, FinishSays
  <1>5. /\ db'.users = db.users /\ db'.projects = db.projects
        /\ \A v \in User, x \in Project :
             v # u \/ x # p => db'.roster[<<v, x>>] = db.roster[<<v, x>>]
        /\ db'.roster[<<u, p>>] \in {role, db.roster[<<u, p>>]}
    <2>1. CASE db' = db
      BY <2>1
    <2>2. CASE db' = new
      BY <1>2, <2>2, RosterSays
    <2>3. QED
      BY <1>4, <2>1, <2>2
  <1>6. marks'.duel = marks.duel /\ marks'.gone = marks.gone /\ marks.loose \subseteq marks'.loose
    BY <1>1, AsideSays DEF Race, Marks
  <1>7. Admins'
    BY <1>3, <1>5, <1>6, RosterAdmins
  <1>8. db.projects \subseteq Project
    BY DEF Inv, Sane, Typed
  <1>9. role # Manager /\ p \in db.projects \ marks.loose => OtherManager(u, p)
    BY <1>1 DEF Managers, Doing, Seating, Leaves
  <1>10. ManagerRemains'
    <2> SUFFICES ASSUME NEW x \in db.projects \ marks.loose
                 PROVE  \E v \in User : db'.roster[<<v, x>>] = Manager
      BY <1>5, <1>6 DEF ManagerRemains
    <2>1. PICK v \in User : db.roster[<<v, x>>] = Manager
      BY DEF Managers, ManagerRemains
    <2>2. CASE x # p \/ v # u
      BY <1>5, <1>8, <2>1, <2>2
    <2>3. CASE x = p /\ role = Manager
      BY <1>2, <1>5, <2>1, <2>3
    <2>4. CASE x = p /\ role # Manager
      BY <1>2, <1>5, <1>9, <2>4 DEF OtherManager
    <2>5. QED
      BY <2>2, <2>3, <2>4
  <1>11. \A s \in Request : Seating(s)' => s # r /\ Seating(s) /\ req'[s] = req[s]
    BY <1>3 DEF Seating
  <1>12. ASSUME NEW s \in Request, NEW x \in db'.projects \ marks'.loose, Seating(s)', Leaves(req'[s], x)
         PROVE  OtherManager(req[s].user, x)'
    <2>1. /\ s # r /\ Seating(s) /\ req'[s] = req[s] /\ Leaves(req[s], x)
          /\ x \in db.projects \ marks.loose /\ x \in Project
      BY <1>5, <1>6, <1>8, <1>11, <1>12
    <2>2. x # p
      BY <1>1, <2>1 DEF Managers, Doing, Seating, Leaves
    <2>3. OtherManager(req[s].user, x)
      BY <2>1 DEF Managers
    <2>4. QED
      BY <1>5, <2>1, <2>2, <2>3 DEF OtherManager
  <1>13. Managers'
    BY <1>5, <1>6, <1>10, <1>11, <1>12 DEF Managers
  <1>14. QED
    BY <1>7, <1>13

LEMMA MemberRules ==
    ASSUME Inv, Admins, Managers,
           AddMember \/ ManagerAddsMember \/ UpdateMemberRole \/ RemoveMember
    PROVE  Admins' /\ Managers'
  <1>1. CASE AddMember
    <2>1. PICK p \in db.projects, u \in User, role \in Role :
            /\ db.roster[<<u, p>>] = None
            /\ Commit("accounts", [db EXCEPT !.roster[<<u, p>>] = role])
            /\ UNCHANGED marks
      BY <1>1 DEF AddMember
    <2>2. QED
      BY <2>1, NewMemberRules
  <1>2. CASE ManagerAddsMember
    <2>1. PICK p \in db.projects, u \in User, role \in Role :
            /\ db.roster[<<u, p>>] = None
            /\ Commit("accounts", [db EXCEPT !.roster[<<u, p>>] = role])
            /\ UNCHANGED marks
      BY <1>2 DEF ManagerAddsMember
    <2>2. QED
      BY <2>1, NewMemberRules
  <1>3. CASE UpdateMemberRole
    <2>1. PICK p \in db.projects, u \in User, role \in Role :
            /\ Commit("accounts", [db EXCEPT !.roster[<<u, p>>] = role])
            /\ marks' = Loosen(p, db')
      BY <1>3 DEF UpdateMemberRole
    <2>2. QED
      BY <2>1, LoosenRules
  <1>4. CASE RemoveMember
    <2>1. PICK p \in db.projects, u \in User :
            /\ Commit("accounts", [db EXCEPT !.roster[<<u, p>>] = None])
            /\ marks' = Loosen(p, db')
      BY <1>4 DEF RemoveMember
    <2>2. QED
      BY <2>1, LoosenRules
  <1>5. QED
    BY <1>1, <1>2, <1>3, <1>4

LEMMA AccountsRule == ASSUME Inv, Admins, Managers, AccountsNext PROVE Admins' /\ Managers'
  <1>1. ASSUME NEW r \in Request,
               \/ Arrive(r) \/ EnterUser(r) \/ AskRole(r) \/ SetRole(r)
               \/ AskEnabled(r) \/ SetEnabled(r)
        PROVE  Admins' /\ Managers'
    BY <1>1, ArriveRules, EnterUserRules, AskRoleRules, SetRoleRules, AskEnabledRules, SetEnabledRules
  <1>2. ASSUME NEW r \in Request, ManagerAsksRole(r) \/ ManagerAsksRemoval(r) \/ SetMember(r)
        PROVE  Admins' /\ Managers'
    <2>1. CASE ManagerAsksRole(r)
      BY <2>1, AskMemberRules DEF ManagerAsksRole
    <2>2. CASE ManagerAsksRemoval(r)
      BY <2>2, AskMemberRules DEF ManagerAsksRemoval
    <2>3. QED
      BY <1>2, <2>1, <2>2, SetMemberRules
  <1>3. CASE CreateProject \/ DeleteProject
    BY <1>3, CreateProjectRules, DeleteProjectRules
  <1>4. CASE AddMember \/ UpdateMemberRole \/ RemoveMember \/ ManagerAddsMember
    BY <1>4, MemberRules
  <1>5. QED
    BY <1>1, <1>2, <1>3, <1>4 DEF AccountsNext

LEMMA CatalogueStands == ASSUME Inv, CatalogueNext PROVE Elsewhere
  <1>1. QED
    BY SkillRequestStands, WorkflowRequestStands, PublicationStands DEF CatalogueNext

LEMMA NextRules == ASSUME Inv, Admins, Managers, [Next]_vars PROVE Admins' /\ Managers'
  <1>1. CASE AccountsNext
    BY <1>1, AccountsRule
  <1>2. CASE CatalogueNext
    BY <1>2, CatalogueStands, OthersStand DEF Elsewhere
  <1>3. CASE VaultNext
    BY <1>3, VaultStands, OthersStand
  <1>4. CASE create_run \/ FailInit
    BY <1>4, EngineStands, OthersStand DEF Elsewhere
  <1>5. ASSUME NEW r \in Request, LoadRun(r) \/ init_run(r) \/ Abort(r)
        PROVE  Admins' /\ Managers'
    BY <1>5, EngineStands, AbortStands, OthersStand DEF Elsewhere
  <1>6. CASE UNCHANGED vars
    <2>1. AccountsStand
      BY <1>6 DEF vars, AccountsStand, MarksAside
    <2>2. QED
      BY <2>1, OthersStand
  <1>7. QED
    BY <1>1, <1>2, <1>3, <1>4, <1>5, <1>6 DEF Next

LEMMA InitRules == Init => Admins /\ Managers
  <1> SUFFICES ASSUME Init PROVE Admins /\ Managers
    OBVIOUS
  <1>1. PICK s \in Start : db = s.db
    BY DEF Init
  <1>2. /\ Live(db.users) # {} => \E u \in Live(db.users) :
               db.users[u].enabled /\ db.users[u].role = "ADMIN"
        /\ \A p \in db.projects : \E u \in User : db.roster[<<u, p>>] = Manager
        /\ db.users \in [User -> Maybe(UserRow)]
    <2>1. Settled(s)
      BY StartAssumption
    <2>2. Typed(s.db)
      BY <2>1 DEF Settled
    <2>3. db.users \in [User -> Maybe(UserRow)]
      BY <1>1, <2>2 DEF Typed
    <2>4. Live(db.users) # {} => \E u \in Live(db.users) :
               db.users[u].enabled /\ db.users[u].role = "ADMIN"
      BY <1>1, <2>1 DEF Settled
    <2>5. \A p \in db.projects : \E u \in User : db.roster[<<u, p>>] = Manager
      BY <1>1, <2>1 DEF Settled
    <2>6. QED
      BY <2>3, <2>4, <2>5
  <1>3. /\ \A r \in Request : req[r] = Idle
        /\ marks.loose = {} /\ marks.gone = {}
    BY DEF Init
  <1>4. AdminRemains
    BY <1>2, NoneAssumption DEF AdminRemains, AnAdmin, IsAdmin, Enabled, Live
  <1>5. Admins
    BY <1>3, <1>4 DEF Admins, Doing, Ruling
  <1>6. Managers
    BY <1>2, <1>3 DEF Managers, ManagerRemains, Seating
  <1>7. QED
    BY <1>5, <1>6

\* Somebody can always administer the platform, as long as no two requests
\* that change roles or disable accounts overlap, and every project keeps a
\* manager as long as only its managers edit the members, one at a time;
\* although no handler counts administrators (users.py, projects.py).
THEOREM SomeoneIsInCharge == Spec => []SomeoneInCharge
  <1>1. Init => Admins /\ Managers
    BY InitRules
  <1>2. Inv /\ Admins /\ Managers /\ [Next]_vars => Admins' /\ Managers'
    BY NextRules
  <1>3. Admins /\ Managers => SomeoneInCharge
    BY DEF Admins, Managers, SomeoneInCharge
  <1>4. QED
    BY <1>1, <1>2, <1>3, Invariant, PTL DEF Spec
-----------------------------------------------------------------------------
(* The bundles.  A stamp that a row, a pin or a request holds names a       *)
(* stored bundle; and the stamp a request is about to write is that of the  *)
(* text the row has, unless the row was marked meanwhile.                   *)

Publishes(j) == j # Idle /\ j.op \in {"publish", "init"}

\* A stamp is found in a store.
Found(o, s)  == s # None => s.key \in DOMAIN o /\ o[s.key] = s.sha
Digests(o)   == \A key \in DOMAIN o : o[key] = key[2]

JobFound(o, j) ==
    /\ j.op = "publish" => Found(o, j.stamp)
    /\ j.op = "init" => /\ \A k \in j.heals : Found(o, j.healed[k])
                        /\ \A s \in SkillName : Found(o, j.skill_bundle[s])

Stocked ==
    /\ Digests(objects)
    /\ \A k \in Live(db.skills) : Found(objects, db.skills[k].stamp)
    /\ \A n \in Live(db.runs), s \in SkillName : Found(objects, db.runs[n].pins[s])
    /\ \A r \in Request : Publishes(req[r]) => JobFound(objects, req[r])

Fits(d, behind, k, stamp) ==
    d.skills[k] # None => stamp = StampOf(d.skills[k]) \/ k \in behind

JobFits(d, behind, j) ==
    /\ j.op = "publish" /\ j.stamp # None => Fits(d, behind, j.skill, j.stamp)
    /\ j.op = "init" => \A k \in j.heals : Fits(d, behind, k, j.healed[k])

Upto(k) == db.skills[k].stamp = StampOf(db.skills[k]) \/ Publishing(k) \/ k \in marks.behind

Fresh ==
    /\ \A k \in Live(db.skills) : Upto(k)
    /\ \A r \in Request : Publishes(req[r]) => JobFits(db, marks.behind, req[r])
-----------------------------------------------------------------------------
(* What a step does to the object store: bundles are added, none is ever    *)
(* changed or taken away.                                                   *)

Grown == \A key \in DOMAIN objects : key \in DOMAIN objects' /\ objects'[key] = objects[key]

LEMMA FoundStays == ASSUME Grown, NEW s, Found(objects, s) PROVE Found(objects', s)
  BY DEF Grown, Found

LEMMA StillGrown == ASSUME Stocked, objects' = objects PROVE Grown /\ Digests(objects')
  BY DEF Grown, Stocked, Digests

\* Published bundles are found under the stamps of their rows.
LEMMA PublishedFound ==
    ASSUME Stocked, NEW rows, objects' = publish_skill(rows)
    PROVE  Grown /\ Digests(objects') /\ \A row \in rows : Found(objects', StampOf(row))
  <1> DEFINE new == {StampOf(row).key : row \in rows} \ DOMAIN objects
             from(key) == CHOOSE row \in rows : StampOf(row).key = key
  <1>1. \A row : StampOf(row).key[2] = pack_skill(row) /\ StampOf(row).sha = pack_skill(row)
    BY DEF StampOf, skill_object_key
  <1>2. objects' = [key \in DOMAIN objects \cup new |->
                       IF key \in new THEN pack_skill(from(key)) ELSE objects[key]]
    BY DEF publish_skill
  <1>3. \A key \in new : from(key) \in rows /\ StampOf(from(key)).key = key
    OBVIOUS
  <1> HIDE DEF from
  <1>4. \A key \in new : key \notin DOMAIN objects
    OBVIOUS
  <1>5. \A row \in rows : StampOf(row).key \in DOMAIN objects \cup new
    OBVIOUS
  <1> HIDE DEF new
  <1>6. Grown
    BY <1>2, <1>4 DEF Grown
  <1>7. Digests(objects')
    BY <1>1, <1>2, <1>3 DEF Digests, Stocked
  <1>8. ASSUME NEW row \in rows PROVE Found(objects', StampOf(row))
    <2>1. StampOf(row).key \in DOMAIN objects'
      BY <1>2, <1>5
    <2>2. objects'[StampOf(row).key] = StampOf(row).sha
      BY <1>1, <1>7, <2>1 DEF Digests
    <2>3. QED
      BY <2>1, <2>2 DEF Found
  <1>9. QED
    BY <1>6, <1>7, <1>8

-----------------------------------------------------------------------------
(* Steps, by what they do to the skills, the pins and the requests. *)

\* A skill's row after a step: its stamp is the old one, or found.
StampStays(k) == db.skills[k] # None /\ db'.skills[k].stamp = db.skills[k].stamp
PinsStay(n)   == db.runs[n] # None /\ db'.runs[n].pins = db.runs[n].pins

LEMMA StockedStep ==
    ASSUME Inv, Inv', Stocked, Grown, Digests(objects'),
           \A k \in Skill : db'.skills[k] # None =>
               StampStays(k) \/ Found(objects', db'.skills[k].stamp),
           \A n \in Run : db'.runs[n] # None =>
               PinsStay(n) \/ \A s \in SkillName : Found(objects', db'.runs[n].pins[s]),
           \A r \in Request : Publishes(req'[r]) =>
               req'[r] = req[r] \/ JobFound(objects', req'[r])
    PROVE  Stocked'
  <1>1. /\ DOMAIN db.skills = Skill /\ DOMAIN db.runs = Run
        /\ DOMAIN db'.skills = Skill /\ DOMAIN db'.runs = Run
    BY DEF Inv, Sane, Typed
  <1>2. ASSUME NEW k \in Live(db'.skills) PROVE Found(objects', db'.skills[k].stamp)
    <2>1. k \in Skill /\ db'.skills[k] # None
      BY <1>1 DEF Live
    <2>2. CASE StampStays(k)
      <3>1. k \in Live(db.skills)
        BY <1>1, <2>1, <2>2 DEF Live, StampStays
      <3>2. Found(objects, db.skills[k].stamp)
        BY <3>1 DEF Stocked
      <3>3. QED
        BY <2>2, <3>2, FoundStays DEF StampStays
    <2>3. QED
      BY <2>1, <2>2
  <1>3. ASSUME NEW n \in Live(db'.runs), NEW s \in SkillName PROVE Found(objects', db'.runs[n].pins[s])
    <2>1. n \in Run /\ db'.runs[n] # None
      BY <1>1 DEF Live
    <2>2. CASE PinsStay(n)
      <3>1. n \in Live(db.runs)
        BY <1>1, <2>1, <2>2 DEF Live, PinsStay
      <3>2. Found(objects, db.runs[n].pins[s])
        BY <3>1 DEF Stocked
      <3>3. QED
        BY <2>2, <3>2, FoundStays DEF PinsStay
    <2>3. QED
      BY <2>1, <2>2
  <1>4. ASSUME NEW r \in Request, Publishes(req'[r]) PROVE JobFound(objects', req'[r])
    <2>1. CASE req'[r] = req[r]
      <3>1. JobFound(objects, req[r])
        BY <1>4, <2>1 DEF Stocked
      <3>2. JobFound(objects', req[r])
        BY <3>1, FoundStays DEF JobFound
      <3>3. QED
        BY <2>1, <3>2
    <2>2. QED
      BY <1>4, <2>1
  <1>5. QED
    BY <1>2, <1>3, <1>4 DEF Stocked

\* A skill that a request is about to stamp: it goes, it is marked, or it
\* keeps its text.
Steady(k) ==
    \/ db'.skills[k] = None \/ k \in marks'.behind
    \/ /\ db.skills[k] # None /\ StampOf(db'.skills[k]) = StampOf(db.skills[k])
       /\ k \notin marks.behind

LEMMA FreshStep ==
    ASSUME Inv, Inv', Fresh,
           \A k \in Skill : db'.skills[k] # None =>
               \/ db'.skills[k].stamp = StampOf(db'.skills[k])
               \/ Publishing(k)' \/ k \in marks'.behind
               \/ /\ db'.skills[k] = db.skills[k] /\ k \notin marks.behind
                  /\ Publishing(k) => Publishing(k)',
           \A r \in Request : Publishes(req'[r]) => req'[r] = req[r] \/ JobFits(db', marks'.behind, req'[r]),
           \A r \in Request : Publishes(req'[r]) /\ req'[r] = req[r] =>
               \A k \in Skill : Publishing(k) => Steady(k)
    PROVE  Fresh'
  <1>1. DOMAIN db.skills = Skill /\ DOMAIN db'.skills = Skill
    BY DEF Inv, Sane, Typed
  <1>2. ASSUME NEW k \in Live(db'.skills) PROVE Upto(k)'
    <2>1. k \in Skill /\ db'.skills[k] # None
      BY <1>1 DEF Live
    <2>2. CASE db'.skills[k] = db.skills[k] /\ k \notin marks.behind /\ (Publishing(k) => Publishing(k)')
      <3>1. Upto(k)
        BY <1>1, <2>1, <2>2 DEF Live, Fresh
      <3>2. StampOf(db'.skills[k]) = StampOf(db.skills[k])
        BY <2>2
      <3>3. QED
        BY <2>2, <3>1, <3>2 DEF Upto
    <2>3. CASE db'.skills[k].stamp = StampOf(db'.skills[k]) \/ Publishing(k)' \/ k \in marks'.behind
      <3>1. StampOf(db.skills[k])' = StampOf(db'.skills[k])
        BY DEF StampOf, pack_skill, skill_object_key
      <3>2. QED
        BY <2>3, <3>1 DEF Upto
    <2>4. QED
      BY <2>1, <2>2, <2>3
  <1>3. ASSUME NEW r \in Request, Publishes(req'[r]) PROVE JobFits(db', marks'.behind, req'[r])
    <2>1. CASE req'[r] = req[r]
      <3>1. JobFits(db, marks.behind, req[r]) /\ Carries(req[r])
        BY <1>3, <2>1 DEF Fresh, Inv, Requests, Publishes
      <3>2. \A k \in Skill : Publishing(k) => Steady(k)
        BY <1>3, <2>1
      <3>3. ASSUME NEW k \in Skill, Publishing(k), NEW s, Fits(db, marks.behind, k, s)
            PROVE  Fits(db', marks'.behind, k, s)
        BY <3>2, <3>3 DEF Steady, Fits
      <3>4. ASSUME req[r].op = "publish", req[r].stamp # None
            PROVE  Fits(db', marks'.behind, req[r].skill, req[r].stamp)
        <4>1. req[r].skill \in Skill /\ Publishing(req[r].skill)
          BY <1>3, <2>1, <3>1, <3>4 DEF Carries, Publishing, Doing, Publishes
        <4>2. QED
          BY <3>1, <3>3, <3>4, <4>1 DEF JobFits
      <3>5. ASSUME req[r].op = "init", NEW k \in req[r].heals
            PROVE  Fits(db', marks'.behind, k, req[r].healed[k])
        <4>1. k \in Skill /\ Publishing(k)
          BY <1>3, <2>1, <3>1, <3>5 DEF Carries, Publishing, Doing, Publishes
        <4>2. QED
          BY <3>1, <3>3, <3>5, <4>1 DEF JobFits
      <3>6. QED
        BY <2>1, <3>4, <3>5 DEF JobFits
    <2>2. QED
      BY <1>3, <2>1
  <1>4. QED
    BY <1>2, <1>3 DEF Fresh

-----------------------------------------------------------------------------
(* Most steps leave texts, stamps, pins and bundles as they are, or take    *)
(* whole rows away.                                                         *)

TextsStand ==
    /\ objects' = objects
    /\ \A k \in Skill : db'.skills[k] # None =>
          db'.skills[k] = db.skills[k] /\ (k \in marks.behind => k \in marks'.behind)
    /\ \A n \in Run : db'.runs[n] # None => PinsStay(n)
    /\ \A r \in Request : Publishes(req'[r]) \/ Publishes(req[r]) => req'[r] = req[r]

LEMMA TextsStandKeep ==
    ASSUME Inv, Inv', Stocked, Fresh, TextsStand
    PROVE  Stocked' /\ Fresh'
  <1>1. \A k : Publishing(k) => Publishing(k)'
    BY DEF TextsStand, Publishing, Doing, Publishes
  <1>2. \A k \in Skill : db'.skills[k] # None => db'.skills[k] = db.skills[k]
    BY DEF TextsStand
  <1>3. Fresh'
    <2>1. \A k \in Skill : db'.skills[k] # None =>
             \/ k \in marks'.behind
             \/ db'.skills[k] = db.skills[k] /\ k \notin marks.behind /\ (Publishing(k) => Publishing(k)')
      BY <1>1 DEF TextsStand
    <2>2. \A k \in Skill : Steady(k)
      BY DEF TextsStand, Steady
    <2>3. \A r \in Request : Publishes(req'[r]) => req'[r] = req[r]
      BY DEF TextsStand
    <2>4. QED
      BY <2>1, <2>2, <2>3, FreshStep
  <1>4. Stocked'
    <2>1. Grown /\ Digests(objects')
      BY StillGrown DEF TextsStand
    <2>2. \A k \in Skill : db'.skills[k] # None => StampStays(k)
      BY <1>2 DEF StampStays
    <2>3. QED
      BY <2>1, <2>2, StockedStep DEF TextsStand
  <1>5. QED
    BY <1>3, <1>4

\* Tables with the skills and runs of db, and tables where some are gone.
Quiet(d) == DOMAIN d = Fields /\ d.skills = db.skills /\ d.runs = db.runs
Still(d) ==
    /\ \A k \in Skill : d.skills[k] # None => d.skills[k] = db.skills[k]
    /\ \A n \in Run : d.runs[n] # None => db.runs[n] # None /\ d.runs[n].pins = db.runs[n].pins

LEMMA QuietSays ==
    ASSUME Inv
    PROVE  /\ Quiet(db) /\ DOMAIN req = Request /\ DOMAIN marks = Marks
           /\ \A d : Quiet(d) => Still(d)
           /\ \A t : Quiet([db EXCEPT !.users = t])
           /\ \A t : Quiet([db EXCEPT !.roster = t])
           /\ \A t : Quiet([db EXCEPT !.categories = t])
           /\ \A t : Quiet([db EXCEPT !.workflows = t])
           /\ \A t : Quiet([db EXCEPT !.policies = t])
           /\ \A t : Quiet([db EXCEPT !.integrations = t])
           /\ \A t : Quiet([db EXCEPT !.variables = t])
           /\ \A s, t : Quiet([db EXCEPT !.projects = s, !.roster = t])
  <1>1. DOMAIN db = Fields /\ DOMAIN req = Request /\ DOMAIN marks = Marks
    BY DEF Inv, Sane, Typed, Requests, Stores, Fields
  <1>2. \A d : Quiet(d) => Still(d)
    BY DEF Quiet, Still
  <1>3. QED
    BY <1>1, <1>2 DEF Quiet, Fields

\* The skills that stay marked.
BehindStays(d) == \A k \in Skill : k \in marks.behind /\ d.skills[k] # None => k \in marks'.behind

LEMMA CommitStill ==
    ASSUME NEW area, NEW d, Commit(area, d), Still(d), objects' = objects, BehindStays(d)
    PROVE  TextsStand
  BY DEF Commit, Still, TextsStand, PinsStay, BehindStays

LEMMA FinishStill ==
    ASSUME Inv, NEW r \in Request, NEW d, Finish(r, d), ~Publishes(req[r]), Still(d),
           objects' = objects, marks'.behind = marks.behind
    PROVE  TextsStand
  <1>1. Still(db) /\ DOMAIN req = Request
    BY QuietSays
  <1>2. \A s \in Request : Publishes(req'[s]) \/ Publishes(req[s]) => req'[s] = req[s]
    BY <1>1 DEF Finish, Close, Publishes
  <1>3. Still(db')
    BY <1>1 DEF Finish
  <1>4. QED
    BY <1>2, <1>3 DEF Still, TextsStand, PinsStay

LEMMA OpenStill ==
    ASSUME Inv, NEW r \in Request, NEW area, NEW job, Open(r, area, job),
           job.op \notin {"publish", "init"}, db' = db, objects' = objects,
           marks'.behind = marks.behind
    PROVE  TextsStand
  <1>1. Still(db) /\ DOMAIN req = Request
    BY QuietSays
  <1>2. \A s \in Request : Publishes(req'[s]) \/ Publishes(req[s]) => req'[s] = req[s]
    BY <1>1 DEF Open, Publishes
  <1>3. QED
    BY <1>1, <1>2 DEF Still, TextsStand, PinsStay

LEMMA AccountsTextsStand == ASSUME Inv, AccountsNext PROVE TextsStand
  <1>1. ASSUME NEW r \in Request,
               Arrive(r) \/ AskRole(r) \/ AskEnabled(r) \/ ManagerAsksRole(r) \/ ManagerAsksRemoval(r)
        PROVE  TextsStand
    <2>1. PICK job : /\ Open(r, "accounts", job) /\ job.op \notin {"publish", "init"}
                     /\ UNCHANGED <<db, objects>> /\ marks'.behind = marks.behind
      <3>1. CASE Arrive(r)
        BY <3>1 DEF Arrive
      <3>2. CASE AskRole(r) \/ AskEnabled(r)
        BY <3>2, QuietSays DEF AskRole, AskEnabled, Duel, Marks
      <3>3. CASE ManagerAsksRole(r) \/ ManagerAsksRemoval(r)
        BY <3>3, QuietSays DEF ManagerAsksRole, ManagerAsksRemoval, AskMember, Race, Marks
      <3>4. QED
        BY <1>1, <3>1, <3>2, <3>3
    <2>2. QED
      BY <2>1, OpenStill
  <1>2. ASSUME NEW r \in Request, EnterUser(r) \/ SetRole(r) \/ SetEnabled(r) PROVE TextsStand
    <2>1. PICK t : /\ Finish(r, db) \/ Finish(r, [db EXCEPT !.users = t])
                   /\ UNCHANGED <<objects, marks>>
      BY <1>2 DEF EnterUser, SetRole, SetEnabled
    <2>2. ~Publishes(req[r])
      BY <1>2 DEF EnterUser, SetRole, SetEnabled, Doing, Publishes
    <2>3. QED
      BY <2>1, <2>2, QuietSays, FinishStill
  <1>3. ASSUME NEW r \in Request, SetMember(r) PROVE TextsStand
    <2>1. PICK t : /\ Finish(r, db) \/ Finish(r, [db EXCEPT !.roster = t])
                   /\ objects' = objects
      BY <1>3 DEF SetMember
    <2>2. marks'.behind = marks.behind
      BY <1>3, QuietSays DEF SetMember, Race, Marks
    <2>3. ~Publishes(req[r])
      BY <1>3 DEF SetMember, Doing, Publishes
    <2>4. QED
      BY <2>1, <2>2, <2>3, QuietSays, FinishStill
  <1>4. CASE CreateProject
    <2>1. PICK s, t : /\ Commit("accounts", [db EXCEPT !.projects = s, !.roster = t])
                      /\ UNCHANGED <<objects, marks>>
      BY <1>4 DEF CreateProject
    <2>2. QED
      BY <2>1, QuietSays, CommitStill DEF BehindStays
  <1>5. CASE AddMember \/ UpdateMemberRole \/ RemoveMember \/ ManagerAddsMember
    <2>1. PICK t : Commit("accounts", [db EXCEPT !.roster = t]) /\ objects' = objects
      BY <1>5 DEF AddMember, UpdateMemberRole, RemoveMember, ManagerAddsMember
    <2>2. marks'.behind = marks.behind
      BY <1>5, QuietSays
         DEF AddMember, UpdateMemberRole, RemoveMember, ManagerAddsMember, Loosen, Marks
    <2>3. QED
      BY <2>1, <2>2, QuietSays, CommitStill DEF BehindStays
  <1>6. CASE DeleteProject
    <2>1. PICK p \in db.projects, area \in Area :
             /\ Commit(area, Cascade(db, p)) /\ objects' = objects
             /\ marks' = [marks EXCEPT !.gone = @ \cup {p}, !.torn = @ \cup RefsOf(p),
                                       !.behind = @ \cap Live(db'.skills)]
      BY <1>6 DEF DeleteProject
    <2> DEFINE d == Cascade(db, p)
    <2>2. p \in Project
      BY DEF Inv, Sane, Typed
    <2>3. /\ d.skills \in [Skill -> Maybe(SkillRow)] /\ \A k \in Skill : d.skills[k] \in {None, db.skills[k]}
          /\ \A n \in Run : d.runs[n] \in {None, db.runs[n]}
      BY <2>2, CascadeSays
    <2>4. db' = d /\ marks'.behind = marks.behind \cap Live(db'.skills)
      BY <2>1, QuietSays DEF Commit, Marks
    <2> HIDE DEF d
    <2>5. Still(d) /\ BehindStays(d)
      BY <2>3, <2>4 DEF Still, BehindStays, Live
    <2>6. QED
      BY <2>1, <2>5, CommitStill DEF d
  <1>7. QED
    BY <1>1, <1>2, <1>3, <1>4, <1>5, <1>6 DEF AccountsNext

LEMMA VaultTextsStand == ASSUME Inv, VaultNext PROVE TextsStand
  <1>1. ASSUME NEW r \in Request, NEW table, NEW id, NEW row, NEW refs, NEW secrets,
               Store(r, table, id, row, refs, secrets)
        PROVE  TextsStand
    <2> DEFINE job == [op |-> "store", rows |-> {id}, table |-> table, id |-> id,
                       new |-> db[table][id] = None, row |-> row, refs |-> refs]
    <2>1. Open(r, "vault", job) /\ db' = db /\ objects' = objects /\ marks' = Torn(refs)
      BY <1>1 DEF Store
    <2>2. job.op \notin {"publish", "init"}
      OBVIOUS
    <2> HIDE DEF job
    <2>3. marks'.behind = marks.behind
      BY <2>1, QuietSays DEF Torn, Marks
    <2>4. QED
      BY <2>1, <2>2, <2>3, OpenStill
  <1>2. ASSUME NEW refs, NEW secrets, Refused(refs, secrets) PROVE TextsStand
    <2>1. UNCHANGED <<db, objects, req>> /\ marks'.behind = marks.behind
      BY <1>2, QuietSays DEF Refused, Marks
    <2>2. QED
      BY <2>1, QuietSays DEF TextsStand, Still, PinsStay
  <1>3. ASSUME NEW i, Verify(i) PROVE TextsStand
    <2>1. PICK t : Commit("vault", [db EXCEPT !.integrations = t]) /\ UNCHANGED <<objects, marks>>
      BY <1>3 DEF Verify
    <2>2. QED
      BY <2>1, QuietSays, CommitStill DEF BehindStays
  <1>4. ASSUME NEW r \in Request, NEW p, NEW kind, NEW label, NEW credential,
               Save(r, p, kind, label, credential)
        PROVE  TextsStand
    BY <1>1, <1>4 DEF Save
  <1>5. ASSUME NEW r \in Request, NEW i, NEW credential, NEW valid, Rotate(r, i, credential, valid)
        PROVE  TextsStand
    BY <1>1, <1>2, <1>5 DEF Rotate
  <1>6. ASSUME NEW r \in Request, NEW i, Wipe(r, i) PROVE TextsStand
    BY <1>1, <1>6 DEF Wipe
  <1>7. ASSUME NEW r \in Request, NEW scope, NEW name, NEW secret, NewVariable(r, scope, name, secret)
        PROVE  TextsStand
    BY <1>1, <1>7 DEF NewVariable
  <1>8. ASSUME NEW r \in Request, NEW e, NEW name, NEW value, NEW valid,
               ChangeVariable(r, e, name, value, valid)
        PROVE  TextsStand
    BY <1>1, <1>2, <1>8 DEF ChangeVariable
  <1>9. ASSUME NEW r \in Request, NEW e, DropVariable(r, e) PROVE TextsStand
    BY <1>1, <1>9 DEF DropVariable
  <1>10. ASSUME NEW r \in Request, CommitStore(r) PROVE TextsStand
    <2> DEFINE job == req[r]
               set == [db EXCEPT ![job.table][job.id] = job.row]
               d == IF job.row # None \/ job.table # "integrations" THEN set
                    ELSE [set EXCEPT !.runs = SetNull(@, job.id)]
               gone == ~job.new /\ db[job.table][job.id] = None
    <2>1. /\ Doing(r, "store") /\ Finish(r, IF gone THEN db ELSE d)
          /\ UNCHANGED <<objects, marks>>
      BY <1>10 DEF CommitStore
    <2>2. job.table \in {"integrations", "variables"} /\ ~Publishes(req[r])
      BY <2>1 DEF Doing, Inv, Requests, Carries, IntegrationJob, VariableJob, Publishes
    <2>3. Quiet(set)
      BY <2>2, QuietSays DEF Quiet, Fields
    <2> HIDE DEF set
    <2>4. Still(d)
      <3>1. CASE job.row # None \/ job.table # "integrations"
        BY <2>3, <3>1, QuietSays
      <3>2. CASE ~(job.row # None \/ job.table # "integrations")
        <4>1. d.skills = db.skills /\ d.runs = SetNull(db.runs, job.id)
          BY <2>3, <3>2 DEF Quiet, Fields
        <4>2. \A n \in Run : SetNull(db.runs, job.id)[n] # None =>
                 db.runs[n] # None /\ SetNull(db.runs, job.id)[n].pins = db.runs[n].pins
          BY LoseSays
        <4>3. QED
          BY <4>1, <4>2 DEF Still
      <3>3. QED
        BY <3>1, <3>2
    <2> HIDE DEF d, gone
    <2>5. QED
      BY <2>1, <2>2, <2>4, QuietSays, FinishStill
  <1>11. ASSUME NEW r \in Request,
                \/ create_integration(r) \/ admin_create_integration(r)
                \/ update_integration(r) \/ admin_update_integration(r)
                \/ delete_integration(r) \/ admin_delete_integration(r)
         PROVE  TextsStand
    BY <1>4, <1>5, <1>6, <1>11
       DEF create_integration, admin_create_integration, update_integration,
           admin_update_integration, delete_integration, admin_delete_integration
  <1>12. ASSUME NEW r \in Request,
                \/ create_environment_variable(r) \/ create_platform_environment_variable(r)
                \/ update_environment_variable(r) \/ update_platform_environment_variable(r)
                \/ delete_environment_variable(r) \/ delete_platform_environment_variable(r)
         PROVE  TextsStand
    BY <1>7, <1>8, <1>9, <1>12
       DEF create_environment_variable, create_platform_environment_variable,
           update_environment_variable, update_platform_environment_variable,
           delete_environment_variable, delete_platform_environment_variable
  <1>13. ASSUME test_integration \/ admin_test_integration PROVE TextsStand
    BY <1>3, <1>13 DEF test_integration, admin_test_integration
  <1>14. QED
    BY <1>10, <1>11, <1>12, <1>13 DEF VaultNext, VaultRequest

LEMMA WorkflowTextsStand ==
    ASSUME Inv, WorkflowRequest, ~CopyToProject, ~ManagerCopiesToProject, ~ImportWorkflow
    PROVE  TextsStand
  <1>1. ASSUME NEW d, Commit("workflows", d), Still(d), UNCHANGED <<objects, marks>>
        PROVE  TextsStand
    BY <1>1, CommitStill DEF BehindStays
  <1>2. CASE create_workflow_category \/ delete_workflow_category \/ seed_default_categories
    <2>1. PICK t : Commit("workflows", [db EXCEPT !.categories = t]) /\ UNCHANGED <<objects, marks>>
      BY <1>2 DEF create_workflow_category, delete_workflow_category, seed_default_categories
    <2>2. QED
      BY <1>1, <2>1, QuietSays
  <1>3. CASE CreateWorkflow \/ UpdateWorkflow \/ UpdateProjectWorkflow
    <2>1. PICK t : Commit("workflows", [db EXCEPT !.workflows = t]) /\ UNCHANGED <<objects, marks>>
      BY <1>3 DEF CreateWorkflow, UpdateWorkflow, UpdateProjectWorkflow, Rewrite
    <2>2. QED
      BY <1>1, <2>1, QuietSays
  <1>4. CASE DeleteWorkflow \/ DeleteProjectWorkflow
    <2>1. PICK w : RemoveWorkflow(w)
      BY <1>4 DEF DeleteWorkflow, DeleteProjectWorkflow
    <2> DEFINE gone(row) == row.workflow = w
               runs == Without(db.runs, gone)
    <2>2. PICK policies, flows :
             /\ Commit("workflows", [db EXCEPT !.runs = runs, !.policies = policies,
                                               !.workflows = flows])
             /\ UNCHANGED <<objects, marks>>
      BY <2>1 DEF RemoveWorkflow
    <2>3. \A n \in Run : runs[n] # None => runs[n] = db.runs[n]
      BY RunType DEF Without
    <2> HIDE DEF runs
    <2> DEFINE d == [db EXCEPT !.runs = runs, !.policies = policies, !.workflows = flows]
    <2>4. d.runs = runs /\ d.skills = db.skills
      BY QuietSays DEF Quiet, Fields
    <2> HIDE DEF d
    <2>5. Still(d)
      BY <2>3, <2>4 DEF Still
    <2>6. QED
      BY <1>1, <2>2, <2>5 DEF d
  <1>5. CASE CreatePolicy \/ CreateProjectPolicy \/ UpdatePolicy \/ UpdateProjectPolicy
             \/ DeletePolicy \/ DeleteProjectPolicy
    <2>1. PICK t : Commit("workflows", [db EXCEPT !.policies = t]) /\ UNCHANGED <<objects, marks>>
      BY <1>5 DEF CreatePolicy, CreateProjectPolicy, AddPolicy, UpdatePolicy, UpdateProjectPolicy,
                  SetActive, DeletePolicy, DeleteProjectPolicy, RemovePolicy
    <2>2. QED
      BY <1>1, <2>1, QuietSays
  <1>6. CASE seed_default_workflows
    <2>1. PICK name, uses, c, t :
             LET flow == ImportOneWorkflow(db, Platform, name, uses, c)
             IN /\ Commit("workflows", flow) \/ Commit("workflows", [flow EXCEPT !.policies = t])
                /\ UNCHANGED <<objects, marks>>
      BY <1>6 DEF seed_default_workflows
    <2> DEFINE flow == ImportOneWorkflow(db, Platform, name, uses, c)
    <2>2. Quiet(flow)
      BY QuietSays DEF Quiet, ImportOneWorkflow, Fields
    <2> HIDE DEF flow
    <2>3. Quiet([flow EXCEPT !.policies = t])
      BY <2>2 DEF Quiet, Fields
    <2>4. QED
      BY <1>1, <2>1, <2>2, <2>3, QuietSays DEF flow
  <1>7. QED
    BY <1>2, <1>3, <1>4, <1>5, <1>6 DEF WorkflowRequest

LEMMA RemoveSkillTextsStand == ASSUME Inv, DeleteSkill \/ DeleteProjectSkill PROVE TextsStand
  <1>1. PICK k \in Live(db.skills) : RemoveSkill(k)
    BY DEF DeleteSkill, DeleteProjectSkill
  <1> DEFINE t == [db.skills EXCEPT ![k] = None]
             d == [db EXCEPT !.skills = t]
  <1>2. Commit("skills", d) /\ objects' = objects /\ marks' = [marks EXCEPT !.behind = @ \ {k}]
    BY <1>1 DEF RemoveSkill
  <1>3. k \in Skill /\ \A i \in Skill : t[i] = IF i = k THEN None ELSE db.skills[i]
    BY SkillsType
  <1>4. d.skills = t /\ d.runs = db.runs /\ marks'.behind = marks.behind \ {k}
    BY <1>2, QuietSays DEF Quiet, Fields, Marks
  <1> HIDE DEF t, d
  <1>5. Still(d) /\ BehindStays(d)
    BY <1>3, <1>4 DEF Still, BehindStays
  <1>6. QED
    BY <1>2, <1>5, CommitStill

-----------------------------------------------------------------------------
(* Publications. *)

Concerns(j, k) == Publishes(j) /\ ((j.op = "publish" /\ j.skill = k) \/ (j.op = "init" /\ k \in j.heals))

LEMMA PublishingSays ==
    /\ \A k : Publishing(k) <=> \E r \in Request : Concerns(req[r], k)
    /\ \A k : Publishing(k)' <=> \E r \in Request : Concerns(req'[r], k)
  BY DEF Publishing, Doing, Concerns, Publishes

\* A skill that a request is about to stamp has an identifier that is held.
LEMMA PublishingHeld == ASSUME Inv, NEW k, Publishing(k) PROVE k \in Held
  <1>1. PICK r \in Request : Concerns(req[r], k)
    BY PublishingSays
  <1>2. k \in req[r].rows
    BY <1>1 DEF Concerns, Publishes, Inv, Requests, Carries
  <1>3. QED
    BY <1>1, <1>2 DEF Held, Concerns, Publishes

\* One request moves, the others are as they were.
LEMMA PublishingStays ==
    ASSUME NEW r \in Request, \A s \in Request \ {r} : req'[s] = req[s],
           NEW k, Publishing(k)
    PROVE  Publishing(k)' \/ (Concerns(req[r], k) /\ ~Concerns(req'[r], k))
  BY PublishingSays

LEMMA PublishJob ==
    ASSUME NEW k \in Skill, NEW stamp \in Maybe(Stamps)
    PROVE  [op |-> "publish", rows |-> {k}, skill |-> k, stamp |-> stamp] # Idle
  <1>1. [op |-> "publish", rows |-> {k}, skill |-> k, stamp |-> stamp]
           \in [op : {"publish"}, rows : SUBSET Skill, skill : Skill, stamp : Maybe(Stamps)]
    OBVIOUS
  <1>2. QED
    BY <1>1, IdleAssumption

LEMMA InitJob ==
    ASSUME NEW n \in Run, NEW S \in SUBSET Skill, NEW bundles \in [SkillName -> Maybe(Stamps)],
           NEW stamps \in [S -> Stamps]
    PROVE  [op |-> "init", rows |-> S \cup {n}, run |-> n, heals |-> S, skill_bundle |-> bundles,
            healed |-> stamps] # Idle
  <1> DEFINE B == [SkillName -> Maybe(Stamps)]
             H == UNION {[T -> Stamps] : T \in SUBSET Skill}
             InitJobs == [op : {"init"}, rows : SUBSET (Skill \cup Run), run : Run,
                      heals : SUBSET Skill, skill_bundle : B, healed : H]
  <1>1. bundles \in B /\ stamps \in H
    OBVIOUS
  <1>2. Idle \notin InitJobs
    BY IdleAssumption
  <1> HIDE DEF B, H
  <1>3. [op |-> "init", rows |-> S \cup {n}, run |-> n, heals |-> S, skill_bundle |-> bundles,
         healed |-> stamps] \in InitJobs
    BY <1>1
  <1> HIDE DEF InitJobs
  <1>4. QED
    BY <1>2, <1>3

LEMMA WriteTextGood ==
    ASSUME Inv, Inv', Stocked, Fresh, NEW r \in Request, NEW k \in Skill, NEW t,
           DOMAIN t = Skill, \A i \in Skill \ {k} : t[i] = db.skills[i],
           t[k].stamp = None \/ (db.skills[k] # None /\ t[k].stamp = db.skills[k].stamp),
           WriteText(r, k, [db EXCEPT !.skills = t])
    PROVE  Stocked' /\ Fresh'
  <1> DEFINE job == [op |-> "publish", rows |-> {k}, skill |-> k, stamp |-> None]
  <1>1. /\ db'.skills = t /\ db'.runs = db.runs /\ objects' = objects /\ marks' = Overtaken(k)
        /\ Open(r, "skills", job)
    BY QuietSays DEF WriteText, Quiet, Fields
  <1>2. req[r] = Idle /\ req'[r] = job /\ \A s \in Request \ {r} : req'[s] = req[s]
    BY <1>1, QuietSays DEF Open
  <1>3. job.op = "publish" /\ job.skill = k /\ job.stamp = None /\ job # Idle
    BY PublishJob DEF Maybe
  <1> HIDE DEF job
  <1>4. Publishing(k)'
    BY <1>2, <1>3, PublishingSays DEF Concerns, Publishes
  <1>5. \A i : Publishing(i) => Publishing(i)'
    BY <1>2, PublishingStays DEF Concerns, Publishes
  <1>6. \A i : i # k => (i \in marks'.behind <=> i \in marks.behind)
    BY <1>1, QuietSays DEF Overtaken, Marks
  <1>7. Publishing(k) => k \in marks'.behind
    BY <1>1, QuietSays DEF Overtaken, Marks
  <1>8. Stocked'
    <2>1. Grown /\ Digests(objects')
      BY <1>1, StillGrown
    <2>2. \A i \in Skill : db'.skills[i] # None =>
             StampStays(i) \/ Found(objects', db'.skills[i].stamp)
      BY <1>1 DEF StampStays, Found
    <2>3. \A n \in Run : db'.runs[n] # None => PinsStay(n)
      BY <1>1 DEF PinsStay
    <2>4. JobFound(objects', job)
      BY <1>3 DEF JobFound, Found
    <2>5. \A s \in Request : Publishes(req'[s]) =>
             req'[s] = req[s] \/ JobFound(objects', req'[s])
      BY <1>2, <2>4
    <2>6. QED
      BY <2>1, <2>2, <2>3, <2>5, StockedStep
  <1>9. Fresh'
    <2>1. \A i \in Skill : db'.skills[i] # None =>
             \/ Publishing(i)' \/ i \in marks'.behind
             \/ /\ db'.skills[i] = db.skills[i] /\ i \notin marks.behind
                /\ Publishing(i) => Publishing(i)'
      BY <1>1, <1>4, <1>5, <1>6
    <2>2. JobFits(db', marks'.behind, job)
      BY <1>3 DEF JobFits
    <2>3. \A s \in Request : Publishes(req'[s]) =>
             req'[s] = req[s] \/ JobFits(db', marks'.behind, req'[s])
      BY <1>2, <2>2
    <2>4. \A i \in Skill : Publishing(i) => Steady(i)
      BY <1>1, <1>6, <1>7 DEF Steady
    <2>5. QED
      BY <2>1, <2>3, <2>4, FreshStep
  <1>10. QED
    BY <1>8, <1>9

LEMMA CreateSkillGood ==
    ASSUME Inv, Inv', Stocked, Fresh, NEW r \in Request, CreateSkill(r) \/ CreateProjectSkill(r)
    PROVE  Stocked' /\ Fresh'
  <1>1. PICK scope, name :
           /\ Room(db.skills, 1)
           /\ WriteText(r, NewId(db.skills),
                        [db EXCEPT !.skills = Add(@, NewSkill(scope, name))])
    BY DEF CreateSkill, CreateProjectSkill
  <1> DEFINE k == NewId(db.skills)
             t == Add(db.skills, NewSkill(scope, name))
  <1>2. k \in Skill /\ DOMAIN db.skills = Skill
    BY <1>1, FreeRow, SkillsType
  <1>3. NewSkill(scope, name).stamp = None
    BY DEF NewSkill
  <1>4. DOMAIN t = Skill /\ t[k].stamp = None /\ \A i \in Skill \ {k} : t[i] = db.skills[i]
    BY <1>2, <1>3 DEF Add
  <1>5. WriteText(r, k, [db EXCEPT !.skills = t])
    BY <1>1
  <1> HIDE DEF k, t
  <1>6. QED
    BY <1>2, <1>4, <1>5, WriteTextGood

LEMMA EditSkillGood ==
    ASSUME Inv, Inv', Stocked, Fresh, NEW r \in Request, EditSkill(r) \/ EditProjectSkill(r)
    PROVE  Stocked' /\ Fresh'
  <1>1. PICK k \in Live(db.skills), v \in {0, 1} :
           WriteText(r, k, [db EXCEPT !.skills[k].text = NewText(k, v)])
    BY DEF EditSkill, EditProjectSkill
  <1> DEFINE row == [db.skills[k] EXCEPT !.text = NewText(k, v)]
             t == [db.skills EXCEPT ![k] = row]
  <1>2. k \in Skill /\ db.skills[k] \in SkillRow /\ db.skills[k] # None /\ DOMAIN db.skills = Skill
    BY SkillsType
  <1>3. row.stamp = db.skills[k].stamp
    BY <1>2 DEF SkillRow
  <1>4. WriteText(r, k, [db EXCEPT !.skills = t])
    BY <1>1
  <1> HIDE DEF row
  <1>5. DOMAIN t = Skill /\ t[k] = row /\ \A i \in Skill \ {k} : t[i] = db.skills[i]
    BY <1>2
  <1> HIDE DEF t
  <1>6. QED
    BY <1>2, <1>3, <1>4, <1>5, WriteTextGood

LEMMA RepublishGood ==
    ASSUME Inv, Inv', Stocked, Fresh, NEW r \in Request, republish_skill(r)
    PROVE  Stocked' /\ Fresh'
  <1>0. PICK k : k = req[r].skill
    OBVIOUS
  <1> DEFINE j == req[r]
             row == db.skills[k]
             new == [j EXCEPT !.stamp = StampOf(row)]
             over == row = None \/ row.stamp = StampOf(row)
  <1>1. /\ Doing(r, "publish") /\ j.stamp = None /\ db' = db /\ marks' = marks
        /\ objects' = IF row = None THEN objects ELSE publish_skill({row})
        /\ req' = [req EXCEPT ![r] = IF over THEN Idle ELSE new]
    BY <1>0 DEF republish_skill
  <1>2. /\ k \in Skill /\ DOMAIN j = {"op", "rows", "skill", "stamp"} /\ j.op = "publish"
        /\ j.rows = {k} /\ j.skill = k
    BY <1>0, <1>1 DEF Doing, Inv, Requests, Carries
  <1>3. ASSUME row # None
        PROVE  new = [op |-> "publish", rows |-> {k}, skill |-> k, stamp |-> StampOf(row)]
    BY <1>2
  <1>4. ASSUME row # None PROVE new # Idle
    <2>1. row \in SkillRow
      BY <1>2, <1>4, SkillsType DEF Live
    <2>2. StampOf(row) \in Maybe(Stamps)
      BY <2>1, StampType DEF Maybe
    <2> HIDE DEF row, new
    <2>3. QED
      BY <1>2, <1>3, <1>4, <2>2, PublishJob
  <1>5. new.op = "publish" /\ new.skill = k /\ new.stamp = StampOf(row)
    BY <1>2
  <1> HIDE DEF new
  <1>6. DOMAIN db.skills = Skill /\ DOMAIN req = Request
    BY SkillsType, QuietSays
  <1>7. /\ \A s \in Request \ {r} : req'[s] = req[s]
        /\ req'[r] = IF over THEN Idle ELSE new
    BY <1>1, <1>6
  <1>8. ~over => Publishing(k)'
    BY <1>4, <1>5, <1>7, PublishingSays DEF Concerns, Publishes
  <1>9. \A i \in Skill \ {k} : Publishing(i) => Publishing(i)'
    BY <1>2, <1>7, PublishingStays DEF Concerns
  <1>10. \A i \in Skill : Steady(i) \/ db.skills[i] = None
    BY <1>1 DEF Steady
  <1>11. Grown /\ Digests(objects') /\ (row # None => Found(objects', StampOf(row)))
    <2>1. CASE row = None
      BY <1>1, <2>1, StillGrown
    <2>2. CASE row # None
      BY <1>1, <2>2, PublishedFound
    <2>3. QED
      BY <2>1, <2>2
  <1>12. Stocked'
    <2>1. \A i \in Skill : db'.skills[i] # None => StampStays(i)
      BY <1>1 DEF StampStays
    <2>2. \A n \in Run : db'.runs[n] # None => PinsStay(n)
      BY <1>1 DEF PinsStay
    <2>3. ~over => JobFound(objects', new)
      BY <1>5, <1>11 DEF JobFound
    <2>4. \A s \in Request : Publishes(req'[s]) =>
             req'[s] = req[s] \/ JobFound(objects', req'[s])
      BY <1>7, <2>3 DEF Publishes
    <2>5. QED
      BY <1>11, <2>1, <2>2, <2>4, StockedStep
  <1>13. Fresh'
    <2>1. \A i \in Skill : db'.skills[i] # None =>
             \/ db'.skills[i].stamp = StampOf(db'.skills[i])
             \/ Publishing(i)' \/ i \in marks'.behind
             \/ /\ db'.skills[i] = db.skills[i] /\ i \notin marks.behind
                /\ Publishing(i) => Publishing(i)'
      <3>1. db'.skills[k] # None => db'.skills[k].stamp = StampOf(db'.skills[k]) \/ Publishing(k)'
        <4>1. CASE over
          BY <1>1, <4>1
        <4>2. CASE ~over
          BY <1>8, <4>2
        <4>3. QED
          BY <4>1, <4>2
      <3>2. marks' = marks /\ db' = db
        BY <1>1
      <3>3. QED
        BY <1>9, <3>1, <3>2
    <2>2. ~over => JobFits(db', marks'.behind, new)
      BY <1>1, <1>5 DEF JobFits, Fits
    <2>3. \A s \in Request : Publishes(req'[s]) =>
             req'[s] = req[s] \/ JobFits(db', marks'.behind, req'[s])
      BY <1>7, <2>2 DEF Publishes
    <2>4. QED
      BY <2>1, <2>3, <1>1, <1>10, FreshStep DEF Steady
  <1>14. QED
    BY <1>12, <1>13

\* A commit that stamps skills, and pins runs, breaks no constraint.
LEMMA StampsAreSound ==
    ASSUME Inv, NEW t, NEW runs, DOMAIN t = Skill, DOMAIN runs = Run,
           \A k \in Skill : IF db.skills[k] = None THEN t[k] = None
                            ELSE /\ t[k] # None /\ t[k].scope = db.skills[k].scope
                                 /\ t[k].name = db.skills[k].name,
           \A n \in Run : IF db.runs[n] = None THEN runs[n] = None
                          ELSE /\ runs[n] # None /\ runs[n].project = db.runs[n].project
                               /\ runs[n].workflow = db.runs[n].workflow
                               /\ runs[n].policy = db.runs[n].policy /\ runs[n].uses = db.runs[n].uses
    PROVE  Sound([db EXCEPT !.runs = runs, !.skills = t])
  <1> DEFINE d == [db EXCEPT !.runs = runs, !.skills = t]
  <1>1. /\ d.users = db.users /\ d.roster = db.roster /\ d.projects = db.projects
        /\ d.categories = db.categories /\ d.integrations = db.integrations
        /\ d.variables = db.variables /\ d.workflows = db.workflows /\ d.policies = db.policies
        /\ d.runs = runs /\ d.skills = t
    BY QuietSays DEF Quiet, Fields
  <1>2. DOMAIN db.skills = Skill /\ DOMAIN db.runs = Run
    BY SkillsType, RunType
  <1> HIDE DEF d
  <1>3. Sound(db)
    BY DEF Inv, Sane
  <1>4. SkillsSound(d)
    <2>1. \A k \in Live(d.skills) :
             /\ k \in Live(db.skills) /\ d.skills[k].scope = db.skills[k].scope
             /\ d.skills[k].name = db.skills[k].name
      BY <1>1, <1>2 DEF Live
    <2>2. QED
      BY <1>1, <1>3, <2>1 DEF Sound, SkillsSound, InScope
  <1>5. RunsSound(d)
    <2>1. \A n \in Live(d.runs) :
             /\ n \in Live(db.runs) /\ d.runs[n].project = db.runs[n].project
             /\ d.runs[n].workflow = db.runs[n].workflow
             /\ d.runs[n].policy = db.runs[n].policy /\ d.runs[n].uses = db.runs[n].uses
      BY <1>1, <1>2 DEF Live
    <2>2. QED
      BY <1>1, <1>3, <2>1 DEF Sound, RunsSound
  <1>6. RosterSound(d) /\ WorkflowsSound(d) /\ PoliciesSound(d)
    BY <1>1, <1>3 DEF Sound, RosterSound, WorkflowsSound, PoliciesSound, InScope
  <1>7. IntegrationsSound(d) /\ VariablesSound(d)
    BY <1>1, <1>3 DEF Sound, IntegrationsSound, VariablesSound, InScope
  <1>8. QED
    BY <1>4, <1>5, <1>6, <1>7 DEF Sound, d

LEMMA StampSkillGood ==
    ASSUME Inv, Inv', Stocked, Fresh, NEW r \in Request, StampSkill(r)
    PROVE  Stocked' /\ Fresh'
  <1> DEFINE j == req[r]
             k == j.skill
             row == [db.skills[k] EXCEPT !.stamp = j.stamp]
             t == [db.skills EXCEPT ![k] = row]
             d == IF db.skills[k] = None THEN db ELSE [db EXCEPT !.skills = t]
  <1>1. Doing(r, "publish") /\ j.stamp # None /\ Finish(r, d) /\ UNCHANGED <<objects, marks>>
    BY DEF StampSkill
  <1>2. k \in Skill /\ j.op = "publish" /\ Publishes(j) /\ DOMAIN req = Request
    BY <1>1, QuietSays DEF Doing, Inv, Requests, Carries, Publishes
  <1>3. /\ \A s \in Request \ {r} : req'[s] = req[s]
        /\ req'[r] = Idle
    BY <1>1, <1>2 DEF Finish, Close
  <1>4. ASSUME db.skills[k] # None
        PROVE  /\ row.scope = db.skills[k].scope /\ row.name = db.skills[k].name
               /\ row.text = db.skills[k].text /\ row.stamp = j.stamp /\ row # None
    <2>1. db.skills[k] \in SkillRow
      BY <1>2, <1>4, SkillsType DEF Live
    <2>2. j.stamp \in Stamps
      BY <1>1, <1>2 DEF Inv, Requests, Carries, Doing, Maybe
    <2>3. row \in SkillRow
      BY <2>1, <2>2 DEF SkillRow, Maybe
    <2>4. QED
      BY <2>1, <2>3, NoneAssumption DEF SkillRow
  <1>5. db.skills[k] # None => StampOf(row) = StampOf(db.skills[k])
    BY <1>4 DEF StampOf, pack_skill, skill_object_key
  <1> HIDE DEF row
  <1>6. DOMAIN t = Skill /\ \A i \in Skill : t[i] = IF i = k THEN row ELSE db.skills[i]
    BY <1>2, SkillsType
  <1> HIDE DEF t
  <1>7. d.skills = (IF db.skills[k] = None THEN db.skills ELSE t) /\ d.runs = db.runs
    BY QuietSays DEF Quiet, Fields
  <1>8. Sound(d)
    <2>1. CASE db.skills[k] = None
      BY <2>1 DEF Inv, Sane
    <2>2. CASE db.skills[k] # None
      <3>1. Sound([db EXCEPT !.runs = db.runs, !.skills = t])
        BY <1>4, <1>6, <2>2, RunType, StampsAreSound
      <3>2. [db EXCEPT !.runs = db.runs, !.skills = t] = [db EXCEPT !.skills = t]
        BY QuietSays DEF Quiet, Fields
      <3>3. QED
        BY <2>2, <3>1, <3>2
    <2>3. QED
      BY <2>1, <2>2
  <1>9. db' = d
    BY <1>1, <1>8 DEF Finish
  <1> HIDE DEF d
  <1>10. /\ db'.runs = db.runs
         /\ \A i \in Skill : db'.skills[i] = IF i = k /\ db.skills[k] # None THEN row ELSE db.skills[i]
    BY <1>6, <1>7, <1>9
  <1>11. JobFound(objects, j) /\ JobFits(db, marks.behind, j)
    BY <1>2 DEF Stocked, Fresh
  <1>12. Stocked'
    <2>1. Grown /\ Digests(objects')
      BY <1>1, StillGrown
    <2>2. Found(objects', j.stamp)
      BY <1>1, <1>2, <1>11 DEF JobFound
    <2>3. \A i \in Skill : db'.skills[i] # None =>
             StampStays(i) \/ Found(objects', db'.skills[i].stamp)
      BY <1>4, <1>10, <2>2 DEF StampStays
    <2>4. \A n \in Run : db'.runs[n] # None => PinsStay(n)
      BY <1>10 DEF PinsStay
    <2>5. \A s \in Request : Publishes(req'[s]) => req'[s] = req[s]
      BY <1>3 DEF Publishes
    <2>6. QED
      BY <2>1, <2>3, <2>4, <2>5, StockedStep
  <1>13. Fresh'
    <2>1. \A i \in Skill \ {k} : Publishing(i) => Publishing(i)'
      BY <1>2, <1>3, PublishingStays DEF Concerns
    <2>2. db.skills[k] # None => row.stamp = StampOf(row) \/ k \in marks'.behind
      BY <1>1, <1>2, <1>4, <1>5, <1>11 DEF JobFits, Fits
    <2>3. \A i \in Skill : db'.skills[i] # None =>
             \/ db'.skills[i].stamp = StampOf(db'.skills[i]) \/ i \in marks'.behind
             \/ /\ db'.skills[i] = db.skills[i] /\ i \notin marks.behind
                /\ Publishing(i) => Publishing(i)'
      BY <1>1, <1>10, <2>1, <2>2
    <2>4. \A i \in Skill : Steady(i)
      BY <1>1, <1>5, <1>10 DEF Steady
    <2>5. \A s \in Request : Publishes(req'[s]) => req'[s] = req[s]
      BY <1>3 DEF Publishes
    <2>6. QED
      BY <2>3, <2>4, <2>5, FreshStep
  <1>14. QED
    BY <1>12, <1>13
\* What one commit does to a skill: nothing; a stamp that is found and is that
\* of the text; or no stamp, and a mark.
Rests(k)     == db'.skills[k] = db.skills[k] /\ (k \in marks.behind => k \in marks'.behind)
Restamped(k) ==
    /\ db'.skills[k].stamp = StampOf(db'.skills[k]) /\ Found(objects', db'.skills[k].stamp)
    /\ Publishing(k) => k \in marks'.behind
LeftBehind(k) == StampStays(k) /\ k \in marks'.behind

LEMMA CommitGood ==
    ASSUME Inv, Inv', Stocked, Fresh, req' = req, Grown, Digests(objects'),
           \A k \in Skill : db'.skills[k] # None => Rests(k) \/ Restamped(k) \/ LeftBehind(k),
           \A n \in Run : db'.runs[n] # None => PinsStay(n) \/ db'.runs[n].pins = NoPins
    PROVE  Stocked' /\ Fresh'
  <1>1. \A k : Publishing(k) <=> Publishing(k)'
    BY PublishingSays
  <1>2. Stocked'
    <2>1. \A k \in Skill : db'.skills[k] # None =>
             StampStays(k) \/ Found(objects', db'.skills[k].stamp)
      BY DEF Rests, Restamped, LeftBehind, StampStays
    <2>2. \A n \in Run : db'.runs[n] # None =>
             PinsStay(n) \/ \A s \in SkillName : Found(objects', db'.runs[n].pins[s])
      BY DEF NoPins, Found
    <2>3. QED
      BY <2>1, <2>2, StockedStep
  <1>3. Fresh'
    <2>1. \A k \in Skill : db'.skills[k] # None =>
             \/ db'.skills[k].stamp = StampOf(db'.skills[k]) \/ k \in marks'.behind
             \/ /\ db'.skills[k] = db.skills[k] /\ k \notin marks.behind
                /\ Publishing(k) => Publishing(k)'
      BY <1>1 DEF Rests, Restamped, LeftBehind
    <2>2. \A k \in Skill : Publishing(k) => Steady(k)
      BY DEF Rests, Restamped, LeftBehind, Steady
    <2>3. QED
      BY <2>1, <2>2, FreshStep
  <1>4. QED
    BY <1>2, <1>3

LEMMA UpdateSkillGood ==
    ASSUME Inv, Inv', Stocked, Fresh, UpdateSkill
    PROVE  Stocked' /\ Fresh'
  <1>1. PICK k \in Live(db.skills), name \in SkillName :
           /\ Commit("skills", [db EXCEPT !.skills[k].name = name])
           /\ marks' = [marks EXCEPT !.behind = @ \cup {k}]
           /\ UNCHANGED <<objects, vault>>
    BY DEF UpdateSkill
  <1> DEFINE row == [db.skills[k] EXCEPT !.name = name]
             t == [db.skills EXCEPT ![k] = row]
  <1>2. k \in Skill /\ db.skills[k] \in SkillRow /\ db.skills[k] # None /\ DOMAIN db.skills = Skill
    BY SkillsType
  <1>3. row.stamp = db.skills[k].stamp
    BY <1>2 DEF SkillRow
  <1>4. Commit("skills", [db EXCEPT !.skills = t])
    BY <1>1
  <1> HIDE DEF row
  <1>5. t[k] = row /\ \A i \in Skill \ {k} : t[i] = db.skills[i]
    BY <1>2
  <1> HIDE DEF t
  <1>6. db'.skills = t /\ db'.runs = db.runs /\ req' = req
    BY <1>4, QuietSays DEF Commit, Quiet, Fields
  <1>7. marks'.behind = marks.behind \cup {k}
    BY <1>1, QuietSays DEF Marks
  <1>8. \A i \in Skill : Rests(i) \/ LeftBehind(i)
    BY <1>2, <1>3, <1>5, <1>6, <1>7 DEF Rests, LeftBehind, StampStays
  <1>9. \A n \in Run : db'.runs[n] # None => PinsStay(n)
    BY <1>6 DEF PinsStay
  <1>10. Grown /\ Digests(objects')
    BY <1>1, StillGrown
  <1>11. QED
    BY <1>6, <1>8, <1>9, <1>10, CommitGood

LEMMA ImportGood ==
    ASSUME Inv, Inv', Stocked, Fresh, NEW t, SkillTable(t), NEW scope, NEW name,
           Upserted(t, scope, name), db'.skills = t, db'.runs = db.runs, req' = req,
           objects' = publish_skill({t[k] : k \in Named(t, scope, name)}),
           marks' = IF Named(db.skills, scope, name) = {} THEN marks
                    ELSE Overtaken(CHOOSE k \in Named(db.skills, scope, name) : TRUE)
    PROVE  Stocked' /\ Fresh'
  <1> DEFINE there == Named(db.skills, scope, name)
             at == CHOOSE k \in there : TRUE
             rows == {t[k] : k \in Named(t, scope, name)}
  <1>1. Grown /\ Digests(objects') /\ \A row \in rows : Found(objects', StampOf(row))
    BY PublishedFound
  <1>2. \A k \in Named(t, scope, name) : Found(objects', StampOf(t[k]))
    BY <1>1
  <1> HIDE DEF rows
  <1>3. there # {} => at \in there
    OBVIOUS
  <1>4. ASSUME NEW k \in Skill, t[k] # None PROVE Rests(k) \/ Restamped(k)
    <2>1. CASE there = {}
      <3>1. marks' = marks
        BY <2>1
      <3>2. CASE t[k] = db.skills[k]
        BY <3>1, <3>2 DEF Rests
      <3>3. CASE t[k] # db.skills[k]
        <4>1. /\ k \in Named(t, scope, name) /\ t[k].stamp = StampOf(t[k])
              /\ db.skills[k] = None
          BY <1>4, <2>1, <3>3 DEF Upserted
        <4>2. ~Publishing(k)
          BY <1>4, <4>1, PublishingHeld DEF SkillTable
        <4>3. QED
          BY <1>2, <4>1, <4>2 DEF Restamped
      <3>4. QED
        BY <3>2, <3>3
    <2>2. CASE there # {}
      <3>1. marks' = Overtaken(at)
        BY <2>2
      <3> HIDE DEF at
      <3>2. marks'.behind = IF Publishing(at) THEN marks.behind \cup {at} ELSE marks.behind \ {at}
        BY <3>1, QuietSays DEF Overtaken, Marks
      <3>3. CASE t[k] = db.skills[k] /\ k # at
        BY <3>2, <3>3 DEF Rests
      <3>4. CASE ~(t[k] = db.skills[k] /\ k # at)
        <4>1. k \in Named(t, scope, name) /\ t[k].stamp = StampOf(t[k])
          BY <1>4, <2>2, <3>4 DEF Upserted, at
        <4>2. k = at
          BY <1>4, <2>2, <3>4 DEF Upserted, at
        <4>3. Publishing(k) => k \in marks'.behind
          BY <3>2, <4>2
        <4>4. QED
          BY <1>2, <4>1, <4>3 DEF Restamped
      <3>5. QED
        BY <3>3, <3>4
    <2>3. QED
      BY <2>1, <2>2
  <1>5. \A n \in Run : db'.runs[n] # None => PinsStay(n)
    BY DEF PinsStay
  <1>6. QED
    BY <1>1, <1>4, <1>5, CommitGood

LEMMA ImportSkillGood ==
    ASSUME Inv, Inv', Stocked, Fresh, ImportSkill \/ seed_default_skills
    PROVE  Stocked' /\ Fresh'
  <1>1. PICK name \in SkillName, v \in {0, 1} :
           LET there == Named(db.skills, Platform, name)
               d == UpsertSkill(db, Platform, name, v)
           IN /\ there = {} => Room(db.skills, 1)
              /\ Commit("skills", d)
              /\ objects' = publish_skill({d.skills[k] : k \in Named(d.skills, Platform, name)})
              /\ marks' = IF there = {} THEN marks ELSE Overtaken(CHOOSE k \in there : TRUE)
              /\ UNCHANGED vault
    BY DEF ImportSkill, seed_default_skills
  <1>2. PICK t : /\ SkillTable(t) /\ Upserted(t, Platform, name)
                 /\ Skilled(UpsertSkill(db, Platform, name, v), db, t)
    <2>1. Platform \in Scope /\ (Named(db.skills, Platform, name) = {} => Room(db.skills, 1))
      BY <1>1, ScopesIn
    <2>2. QED
      BY <2>1, UpsertSays
  <1> DEFINE d == UpsertSkill(db, Platform, name, v)
  <1>3. d.skills = t /\ d.runs = db.runs
    BY <1>2, QuietSays DEF Skilled, Quiet, Fields
  <1>4. db' = d /\ req' = req
    BY <1>1 DEF Commit
  <1>5. /\ objects' = publish_skill({t[k] : k \in Named(t, Platform, name)})
        /\ marks' = IF Named(db.skills, Platform, name) = {} THEN marks
                    ELSE Overtaken(CHOOSE k \in Named(db.skills, Platform, name) : TRUE)
    BY <1>1, <1>3
  <1> HIDE DEF d
  <1>6. QED
    BY <1>2, <1>3, <1>4, <1>5, ImportGood

LEMMA ImportWorkflowGood ==
    ASSUME Inv, Inv', Stocked, Fresh, ImportWorkflow
    PROVE  Stocked' /\ Fresh'
  <1>1. PICK scope \in {Platform} \cup db.projects, name \in WorkflowName, k \in SkillName,
             c \in Category \cup {None}, v \in {0, 1}, skill \in BOOLEAN, policy \in BOOLEAN :
           LET had == Named(db.skills, scope, k)
               d == Imported(scope, name, k, c, v, skill, policy)
           IN /\ AnAdmin
              /\ Room(db.workflows, 1) /\ Room(db.skills, 1) /\ Room(db.policies, 1)
              /\ Commit("workflows", d)
              /\ objects' = IF skill THEN publish_skill({d.skills[i] : i \in Named(d.skills, scope, k)})
                            ELSE objects
              /\ marks' = IF skill /\ had # {} THEN Overtaken(CHOOSE i \in had : TRUE) ELSE marks
              /\ UNCHANGED vault
    BY DEF ImportWorkflow
  <1>2. scope \in Scope
    BY ScopesIn
  <1> DEFINE flow == ImportOneWorkflow(db, scope, name, {k}, c)
             skilled == IF skill THEN ImportOneSkill(flow, scope, k, v) ELSE flow
             d == IF policy THEN ImportOnePolicy(skilled, scope, name) ELSE skilled
  <1>3. Quiet(flow)
    BY QuietSays DEF Quiet, ImportOneWorkflow, Fields
  <1> HIDE DEF flow
  <1>4. /\ Commit("workflows", d)
        /\ objects' = IF skill THEN publish_skill({d.skills[i] : i \in Named(d.skills, scope, k)})
                      ELSE objects
        /\ marks' = IF skill /\ Named(db.skills, scope, k) # {}
                    THEN Overtaken(CHOOSE i \in Named(db.skills, scope, k) : TRUE) ELSE marks
    BY <1>1 DEF Imported, flow
  <1>5. DOMAIN skilled = Fields =>
           d.skills = skilled.skills /\ d.runs = skilled.runs
    <2> HIDE DEF skilled
    <2>1. QED
      BY DEF ImportOnePolicy, Fields
  <1>6. CASE skill
    <2>1. Room(db.skills, 1)
      BY <1>1
    <2>2. PICK t : /\ SkillTable(t) /\ Upserted(t, scope, k)
                   /\ Skilled(UpsertSkill(flow, scope, k, v), flow, t)
      BY <1>2, <1>3, <2>1, UpsertSays DEF Quiet
    <2>3. skilled = [flow EXCEPT !.skills = t]
      BY <1>6, <2>2 DEF ImportOneSkill, Skilled
    <2> HIDE DEF skilled
    <2>4. DOMAIN skilled = Fields /\ skilled.skills = t /\ skilled.runs = db.runs
      BY <1>3, <2>3 DEF Quiet, Fields
    <2> HIDE DEF d
    <2>5. d.skills = t /\ d.runs = db.runs
      BY <1>5, <2>4
    <2>6. db' = d /\ req' = req
      BY <1>4 DEF Commit
    <2>7. /\ objects' = publish_skill({t[i] : i \in Named(t, scope, k)})
          /\ marks' = IF Named(db.skills, scope, k) = {} THEN marks
                      ELSE Overtaken(CHOOSE i \in Named(db.skills, scope, k) : TRUE)
      BY <1>4, <1>6, <2>5
    <2>8. QED
      BY <2>2, <2>5, <2>6, <2>7, ImportGood
  <1>7. CASE ~skill
    <2>1. skilled = flow
      BY <1>7
    <2> HIDE DEF skilled
    <2>2. d.skills = db.skills /\ d.runs = db.runs
      BY <1>3, <1>5, <2>1 DEF Quiet
    <2> HIDE DEF d
    <2>3. UNCHANGED <<objects, marks>>
      BY <1>4, <1>7
    <2>4. Still(d)
      BY <2>2 DEF Still
    <2>5. TextsStand
      BY <1>4, <2>3, <2>4, CommitStill DEF BehindStays
    <2>6. QED
      BY <2>5, TextsStandKeep
  <1>8. QED
    BY <1>6, <1>7

\* Copies are stamped, and what was there rests.
LEMMA ClonesGood ==
    ASSUME Inv, Inv', Stocked, Fresh, NEW S, NEW rows, Clones(db'.skills, S),
           SkillsMove(db'), objects' = publish_skill(rows), marks' = marks, req' = req,
           \A k \in Skill : db'.skills[k] # None /\ db'.skills[k] # db.skills[k] =>
               \E row \in rows : StampOf(db'.skills[k]) = StampOf(row),
           \A n \in Run : db'.runs[n] # None => PinsStay(n) \/ db'.runs[n].pins = NoPins
    PROVE  Stocked' /\ Fresh'
  <1>1. Grown /\ Digests(objects') /\ \A row \in rows : Found(objects', StampOf(row))
    BY PublishedFound
  <1>2. ASSUME NEW k \in Skill, db'.skills[k] # None PROVE Rests(k) \/ Restamped(k)
    <2>1. CASE db'.skills[k] = db.skills[k]
      BY <2>1 DEF Rests
    <2>2. CASE db'.skills[k] # db.skills[k]
      <3>1. db.skills[k] = None /\ db'.skills[k].stamp = StampOf(db'.skills[k])
        BY <1>2, <2>2 DEF Clones
      <3>2. ~Publishing(k)
        BY <1>2, <3>1, PublishingHeld DEF SkillsMove
      <3>3. PICK row \in rows : StampOf(db'.skills[k]) = StampOf(row)
        BY <1>2, <2>2
      <3>4. Found(objects', db'.skills[k].stamp)
        BY <1>1, <3>1, <3>3
      <3>5. QED
        BY <3>1, <3>2, <3>4 DEF Restamped
    <2>3. QED
      BY <2>1, <2>2
  <1>3. QED
    BY <1>1, <1>2, CommitGood

LEMMA CopyGood ==
    ASSUME Inv, Inv', Stocked, Fresh, CopyToProject \/ ManagerCopiesToProject
    PROVE  Stocked' /\ Fresh'
  <1>1. PICK w \in Live(db.workflows), p \in db.projects : CopyTo(w, p)
    BY DEF CopyToProject, ManagerCopiesToProject
  <1>2. p \in Project
    BY DEF Inv, Sane, Typed
  <1> DEFINE S == Cloned(db, w, p)
             rows == {db.skills[k] : k \in S}
             d == CopyOf(db, w, p)
  <1>3. /\ RoomForCopy(w, p) /\ Commit("workflows", d)
        /\ objects' = publish_skill(rows) /\ marks' = marks
    BY <1>1 DEF CopyTo
  <1>4. Moves(d) /\ d.runs = db.runs /\ Clones(d.skills, S)
    BY <1>2, <1>3, CopyMoves
  <1>5. db' = d /\ req' = req
    BY <1>3 DEF Commit
  <1> HIDE DEF d
  <1>6. SkillsMove(db')
    BY <1>4, <1>5 DEF Moves
  <1>7. \A k \in S : db.skills[k] \in rows
    OBVIOUS
  <1> HIDE DEF S, rows
  <1>8. \A k \in Skill : db'.skills[k] # None /\ db'.skills[k] # db.skills[k] =>
           \E row \in rows : StampOf(db'.skills[k]) = StampOf(row)
    BY <1>4, <1>5, <1>7 DEF Clones
  <1>9. \A n \in Run : db'.runs[n] # None => PinsStay(n)
    BY <1>4, <1>5 DEF PinsStay
  <1>10. QED
    BY <1>3, <1>4, <1>5, <1>6, <1>8, <1>9, ClonesGood

LEMMA CreateRunGood ==
    ASSUME Inv, Inv', Stocked, Fresh, create_run
    PROVE  Stocked' /\ Fresh'
  <1>1. PICK u \in User, p \in db.projects, w \in Live(db.workflows), adhoc \in BOOLEAN,
             uses \in [Kind -> {None} \cup Live(db.integrations)] :
          /\ IsMember(u, p) /\ Room(db.runs, 1)
          /\ MayBack(w, p, adhoc) /\ RoomForCopy(w, p)
          /\ \A kind \in Kind : _require_verified_integration(p, kind, uses[kind])
          /\ LET d == Provision(w, p)
                 x == Backing(d, w, p)
             IN \E q \in Live(d.policies) :
                  /\ PolicyFits(d, q, x)
                  /\ Commit("engine",
                       [d EXCEPT !.runs = Add(@, [project |-> p, workflow |-> x, policy |-> q,
                                                  uses |-> uses, state |-> "pending",
                                                  pins |-> NoPins])])
                  /\ objects' = publish_skill({d.skills[k] : k \in Live(d.skills) \ Live(db.skills)})
          /\ UNCHANGED <<vault, marks>>
    BY DEF create_run
  <1> DEFINE d == Provision(w, p)
             x == Backing(d, w, p)
             rows == {d.skills[k] : k \in Live(d.skills) \ Live(db.skills)}
  <1>2. PICK q \in Live(d.policies) :
          /\ Commit("engine",
               [d EXCEPT !.runs = Add(@, [project |-> p, workflow |-> x, policy |-> q,
                                          uses |-> uses, state |-> "pending",
                                          pins |-> NoPins])])
          /\ objects' = publish_skill(rows)
    BY <1>1
  <1>3. Moves(d) /\ d.runs = db.runs /\ Clones(d.skills, Live(db.skills))
    BY <1>1, ProvisionSays
  <1>4. \A k \in Live(d.skills) \ Live(db.skills) : d.skills[k] \in rows
    OBVIOUS
  <1> DEFINE row == [project |-> p, workflow |-> x, policy |-> q, uses |-> uses,
                     state |-> "pending", pins |-> NoPins]
             n == NewId(db.runs)
             runs == [db.runs EXCEPT ![n] = row]
             e == [d EXCEPT !.runs = runs]
  <1> HIDE DEF d, x, rows
  <1>5. row.pins = NoPins /\ n \in Run /\ DOMAIN db.runs = Run
    BY <1>1, FreeRow, RunType
  <1>6. Commit("engine", e)
    BY <1>2, <1>3 DEF Add
  <1> HIDE DEF row, n
  <1>7. \A m \in Run : runs[m] = IF m = n THEN row ELSE db.runs[m]
    BY <1>5
  <1> HIDE DEF runs
  <1>8. e.skills = d.skills /\ e.runs = runs
    BY <1>3 DEF Moves, Typed
  <1> HIDE DEF e
  <1>9. db' = e /\ req' = req
    BY <1>6 DEF Commit
  <1>10. SkillsMove(db') /\ Clones(db'.skills, Live(db.skills))
    BY <1>3, <1>8, <1>9 DEF Moves, SkillsMove
  <1>11. \A m \in Run : db'.runs[m] # None => PinsStay(m) \/ db'.runs[m].pins = NoPins
    BY <1>5, <1>7, <1>8, <1>9 DEF PinsStay
  <1>12. ASSUME NEW k \in Skill, db'.skills[k] # None, db'.skills[k] # db.skills[k]
         PROVE  \E r \in rows : StampOf(db'.skills[k]) = StampOf(r)
    <2>1. db.skills[k] = None
      BY <1>10, <1>12 DEF Clones
    <2>2. DOMAIN d.skills = Skill /\ db'.skills = d.skills
      BY <1>3, <1>8, <1>9 DEF Moves, Typed
    <2>3. k \in Live(d.skills) \ Live(db.skills)
      BY <1>12, <2>1, <2>2 DEF Live
    <2>4. QED
      BY <1>4, <2>2, <2>3
  <1>13. QED
    BY <1>1, <1>2, <1>9, <1>10, <1>11, <1>12, ClonesGood

\* The stamps that an initialisation writes, and what it leaves alone.
LEMMA HealedTexts ==
    ASSUME Inv, NEW S \in SUBSET Live(db.skills), NEW stamps \in [S -> Stamps]
    PROVE  LET t == Healed(db.skills, stamps)
           IN /\ DOMAIN t = Skill
              /\ \A k \in Skill \ S : t[k] = db.skills[k]
              /\ \A k \in S :
                    /\ t[k] # None /\ t[k].scope = db.skills[k].scope
                    /\ t[k].name = db.skills[k].name /\ t[k].stamp = stamps[k]
                    /\ StampOf(t[k]) = StampOf(db.skills[k])
  <1> DEFINE new(k) == [db.skills[k] EXCEPT !.stamp = stamps[k]]
             t == Healed(db.skills, stamps)
  <1>1. ASSUME NEW k \in S
        PROVE  /\ new(k) # None /\ new(k).scope = db.skills[k].scope
               /\ new(k).name = db.skills[k].name /\ new(k).stamp = stamps[k]
               /\ StampOf(new(k)) = StampOf(db.skills[k])
    <2>1. db.skills[k] \in SkillRow /\ stamps[k] \in Stamps
      BY SkillsType
    <2>2. /\ new(k) \in SkillRow /\ new(k).scope = db.skills[k].scope
          /\ new(k).name = db.skills[k].name /\ new(k).stamp = stamps[k]
          /\ new(k).text = db.skills[k].text
      BY <2>1 DEF SkillRow, Maybe
    <2> HIDE DEF new
    <2>3. new(k) # None
      BY <2>2, NoneAssumption
    <2>4. StampOf(new(k)) = StampOf(db.skills[k])
      BY <2>2 DEF StampOf, pack_skill, skill_object_key
    <2>5. QED
      BY <2>2, <2>3, <2>4
  <1>2. S \subseteq Skill /\ DOMAIN db.skills = Skill
    BY SkillsType
  <1>3. t = [k \in Skill |-> IF k \in S THEN new(k) ELSE db.skills[k]]
    BY <1>2 DEF Healed
  <1> HIDE DEF new, t
  <1>4. DOMAIN t = Skill /\ \A k \in Skill : t[k] = IF k \in S THEN new(k) ELSE db.skills[k]
    BY <1>3
  <1>5. QED
    BY <1>1, <1>2, <1>4 DEF t

LEMMA StampingSays == \A S : \A k \in S : Stamping(S)[k] = StampOf(db.skills[k])
  BY DEF Stamping

LEMMA OvertakeSays ==
    ASSUME Inv, NEW S, marks' = Overtake(S)
    PROVE  \A k : k \in marks'.behind <=> IF k \in S THEN Publishing(k) ELSE k \in marks.behind
  BY QuietSays DEF Overtake, Marks

LEMMA FailInitGood ==
    ASSUME Inv, Inv', Stocked, Fresh, FailInit
    PROVE  Stocked' /\ Fresh'
  <1>1. PICK n \in Live(db.runs) :
           LET heals == IF Ready(n) THEN Unstamped(n) ELSE {}
           IN /\ Commit("engine", [db EXCEPT !.runs[n].state = "failed",
                                             !.skills = Healed(@, Stamping(heals))])
              /\ objects' = publish_skill({db.skills[k] : k \in heals})
              /\ marks' = Overtake(heals)
    BY DEF FailInit
  <1> DEFINE heals == IF Ready(n) THEN Unstamped(n) ELSE {}
             rows == {db.skills[k] : k \in heals}
             row == [db.runs[n] EXCEPT !.state = "failed"]
             t == Healed(db.skills, Stamping(heals))
             d == [db EXCEPT !.runs = [db.runs EXCEPT ![n] = row], !.skills = t]
  <1>2. heals \in SUBSET Live(db.skills)
    BY UnstampedSays
  <1>3. Commit("engine", d) /\ marks' = Overtake(heals) /\ objects' = publish_skill(rows)
    BY <1>1
  <1>4. \A k \in heals : db.skills[k] \in rows
    OBVIOUS
  <1> HIDE DEF heals, rows
  <1>5. /\ \A k \in Skill \ heals : t[k] = db.skills[k]
        /\ \A k \in heals : t[k].stamp = StampOf(t[k]) /\ t[k].stamp = StampOf(db.skills[k])
    <2>1. Stamping(heals) \in [heals -> Stamps]
      BY <1>2, StampingType
    <2> DEFINE stamps == Stamping(heals)
    <2>2. \A k \in heals : stamps[k] = StampOf(db.skills[k])
      BY StampingSays
    <2> HIDE DEF stamps
    <2>3. /\ \A k \in Skill \ heals : t[k] = db.skills[k]
          /\ \A k \in heals : t[k].stamp = stamps[k] /\ StampOf(t[k]) = StampOf(db.skills[k])
      <3> HIDE DEF t
      <3>1. t = Healed(db.skills, stamps) /\ stamps \in [heals -> Stamps]
        BY <2>1 DEF t, stamps
      <3>2. QED
        BY <1>2, <3>1, HealedTexts
    <2>4. QED
      BY <2>2, <2>3
  <1>6. row.pins = db.runs[n].pins /\ n \in Run /\ db.runs[n] # None /\ DOMAIN db.runs = Run
    <2>1. n \in Run /\ db.runs[n] # None /\ db.runs[n] \in RunRow /\ DOMAIN db.runs = Run
      BY RunType
    <2>2. QED
      BY <2>1 DEF RunRow
  <1> HIDE DEF row, t
  <1>7. db' = d /\ req' = req
    BY <1>3 DEF Commit
  <1>8. d.skills = t /\ d.runs = [db.runs EXCEPT ![n] = row]
    BY QuietSays DEF Quiet, Fields
  <1> HIDE DEF d
  <1>9. \A m \in Run : db'.runs[m] # None => PinsStay(m)
    BY <1>6, <1>7, <1>8 DEF PinsStay
  <1>10. Grown /\ Digests(objects') /\ \A k \in heals : Found(objects', StampOf(db.skills[k]))
    BY <1>3, <1>4, PublishedFound
  <1>11. ASSUME NEW k \in Skill PROVE Rests(k) \/ Restamped(k)
    <2>1. CASE k \in heals
      BY <1>3, <1>5, <1>7, <1>8, <1>10, <2>1, OvertakeSays DEF Restamped
    <2>2. CASE k \notin heals
      BY <1>3, <1>5, <1>7, <1>8, <2>2, OvertakeSays DEF Rests
    <2>3. QED
      BY <2>1, <2>2
  <1>12. QED
    BY <1>7, <1>9, <1>10, <1>11, CommitGood

\* The initialisation that begins: its stamps are those of the texts it read,
\* and its bundles are stored.
LEMMA LoadRunGood ==
    ASSUME Inv, Inv', Stocked, Fresh, NEW r \in Request, LoadRun(r)
    PROVE  Stocked' /\ Fresh'
  <1> DEFINE skill(n) == effective_skill_map(db.runs[n].project)
             heals(n) == Unstamped(n)
             bundle(n, s) == IF skill(n)[s] \in heals(n) THEN StampOf(db.skills[skill(n)[s]])
                             ELSE db.skills[skill(n)[s]].stamp
             bundles(n) == [s \in SkillName |-> IF s \in Used(n) THEN bundle(n, s) ELSE None]
             job(n) == [op |-> "init", rows |-> heals(n) \cup {n}, run |-> n, heals |-> heals(n),
                        skill_bundle |-> bundles(n), healed |-> Stamping(heals(n))]
             rows(n) == {db.skills[k] : k \in heals(n)}
  <1>1. PICK n \in Live(db.runs) :
           /\ Ready(n) /\ Open(r, "engine", job(n))
           /\ objects' = publish_skill(rows(n))
           /\ marks' = Overtake(heals(n))
           /\ UNCHANGED <<db, vault, faults>>
    BY DEF LoadRun
  <1> DEFINE S == heals(n)
             j == job(n)
  <1>2. S \in SUBSET Live(db.skills) /\ n \in Run
    BY <1>1, UnstampedSays, RunType
  <1>3. S \in SUBSET Skill
    BY <1>2, SkillsType
  <1>4. Grown /\ Digests(objects') /\ \A k \in S : Found(objects', StampOf(db.skills[k]))
    <2>1. \A k \in S : db.skills[k] \in rows(n)
      OBVIOUS
    <2> HIDE DEF S, rows
    <2>2. QED
      BY <1>1, <2>1, PublishedFound
  <1>5. ASSUME NEW s \in Used(n)
        PROVE  bundle(n, s) \in Maybe(Stamps) /\ Found(objects', bundle(n, s))
    <2> DEFINE k == skill(n)[s]
    <2>1. k \in Live(db.skills)
      BY <1>1, EffectiveSays DEF Ready
    <2>2. bundle(n, s) = IF k \in S THEN StampOf(db.skills[k]) ELSE db.skills[k].stamp
      OBVIOUS
    <2> HIDE DEF k, bundle, S
    <2>3. db.skills[k] \in SkillRow
      BY <2>1, SkillsType
    <2>4. StampOf(db.skills[k]) \in Stamps /\ db.skills[k].stamp \in Maybe(Stamps)
      BY <2>3, StampType DEF SkillRow
    <2>5. Found(objects', db.skills[k].stamp)
      <3>1. Found(objects, db.skills[k].stamp)
        BY <2>1 DEF Stocked
      <3>2. QED
        BY <1>4, <3>1, FoundStays
    <2>6. QED
      BY <1>4, <2>2, <2>4, <2>5 DEF Maybe
  <1>6. /\ bundles(n) \in [SkillName -> Maybe(Stamps)]
        /\ \A s \in SkillName : Found(objects', bundles(n)[s])
    <2> HIDE DEF bundle
    <2>1. QED
      BY <1>5 DEF Maybe, Found
  <1>7. Stamping(S) \in [S -> Stamps] /\ \A k \in S : Stamping(S)[k] = StampOf(db.skills[k])
    BY <1>2, StampingType, StampingSays
  <1>8. /\ j.op = "init" /\ j.heals = S /\ j.skill_bundle = bundles(n) /\ j.healed = Stamping(S)
    OBVIOUS
  <1>9. j # Idle
    <2>1. j = [op |-> "init", rows |-> S \cup {n}, run |-> n, heals |-> S,
               skill_bundle |-> bundles(n), healed |-> Stamping(S)]
      OBVIOUS
    <2> HIDE DEF j, S, bundles
    <2>2. QED
      BY <1>2, <1>3, <1>6, <1>7, <2>1, InitJob
  <1>10. Open(r, "engine", j) /\ marks' = Overtake(S)
    BY <1>1
  <1> HIDE DEF j, S, bundles, job, rows
  <1>11. req[r] = Idle /\ req'[r] = j /\ \A s \in Request \ {r} : req'[s] = req[s]
    BY <1>10, QuietSays DEF Open
  <1>12. \A k \in S : Publishing(k)'
    BY <1>8, <1>9, <1>11, PublishingSays DEF Concerns, Publishes
  <1>13. \A k : Publishing(k) => Publishing(k)'
    BY <1>11, PublishingStays DEF Concerns, Publishes
  <1>14. \A k : k \in marks'.behind <=> IF k \in S THEN Publishing(k) ELSE k \in marks.behind
    BY <1>10, OvertakeSays
  <1>15. db' = db
    BY <1>1
  <1>16. Stocked'
    <2>1. JobFound(objects', j)
      BY <1>4, <1>6, <1>7, <1>8 DEF JobFound
    <2>2. \A i \in Skill : db'.skills[i] # None => StampStays(i)
      BY <1>15 DEF StampStays
    <2>3. \A m \in Run : db'.runs[m] # None => PinsStay(m)
      BY <1>15 DEF PinsStay
    <2>4. \A s \in Request : Publishes(req'[s]) => req'[s] = req[s] \/ JobFound(objects', req'[s])
      BY <1>11, <2>1
    <2>5. QED
      BY <1>4, <2>2, <2>3, <2>4, StockedStep
  <1>17. Fresh'
    <2>1. \A i \in Skill : db'.skills[i] # None =>
             \/ Publishing(i)' \/ i \in marks'.behind
             \/ /\ db'.skills[i] = db.skills[i] /\ i \notin marks.behind
                /\ Publishing(i) => Publishing(i)'
      BY <1>12, <1>13, <1>14, <1>15
    <2>2. JobFits(db', marks'.behind, j)
      BY <1>7, <1>8, <1>15 DEF JobFits, Fits
    <2>3. \A s \in Request : Publishes(req'[s]) =>
             req'[s] = req[s] \/ JobFits(db', marks'.behind, req'[s])
      BY <1>11, <2>2
    <2>4. \A i \in Skill : Publishing(i) => Steady(i)
      BY <1>14, <1>15 DEF Steady
    <2>5. QED
      BY <2>1, <2>3, <2>4, FreshStep
  <1>18. QED
    BY <1>16, <1>17

\* A request that publishes ends and stamps nothing: its skills are marked.
LEMMA LostGood ==
    ASSUME Inv, Inv', Stocked, Fresh, NEW r \in Request, Close(r), db' = db, objects' = objects,
           NEW S, marks'.behind = marks.behind \cup S,
           \A k \in Live(db.skills) : Concerns(req[r], k) => k \in S
    PROVE  Stocked' /\ Fresh'
  <1>1. req'[r] = Idle /\ \A s \in Request \ {r} : req'[s] = req[s]
    BY QuietSays DEF Close
  <1>2. \A k \in Live(db.skills) \ S : Publishing(k) => Publishing(k)'
    BY <1>1, PublishingStays
  <1>3. \A s \in Request : Publishes(req'[s]) => req'[s] = req[s]
    BY <1>1 DEF Publishes
  <1>4. Stocked'
    <2>1. Grown /\ Digests(objects')
      BY StillGrown
    <2>2. /\ \A i \in Skill : db'.skills[i] # None => StampStays(i)
          /\ \A n \in Run : db'.runs[n] # None => PinsStay(n)
      BY DEF StampStays, PinsStay
    <2>3. QED
      BY <1>3, <2>1, <2>2, StockedStep
  <1>5. Fresh'
    <2>1. \A i \in Skill : db'.skills[i] # None =>
             \/ i \in marks'.behind
             \/ /\ db'.skills[i] = db.skills[i] /\ i \notin marks.behind
                /\ Publishing(i) => Publishing(i)'
      <3>1. \A i \in Skill : db'.skills[i] # None => i \in Live(db.skills)
        BY SkillsType DEF Live
      <3>2. QED
        BY <1>2, <3>1
    <2>2. \A i \in Skill : Steady(i)
      BY DEF Steady
    <2>3. QED
      BY <1>3, <2>1, <2>2, FreshStep
  <1>6. QED
    BY <1>4, <1>5

LEMMA AbortGood ==
    ASSUME Inv, Inv', Stocked, Fresh, NEW r \in Request, Abort(r)
    PROVE  Stocked' /\ Fresh'
  <1>1. Close(r) /\ db' = db /\ objects' = objects /\ req[r] # Idle /\ DOMAIN marks = Marks
    BY QuietSays DEF Abort
  <1>2. CASE req[r].op = "publish"
    <2>1. marks'.behind = marks.behind \cup {req[r].skill}
      BY <1>1, <1>2 DEF Abort, Marks
    <2>2. \A k : Concerns(req[r], k) => k \in {req[r].skill}
      BY <1>2 DEF Concerns
    <2>3. QED
      BY <1>1, <2>1, <2>2, LostGood
  <1>3. CASE req[r].op = "init"
    <2>1. marks'.behind = marks.behind \cup req[r].heals
      BY <1>1, <1>3 DEF Abort, Marks
    <2>2. \A k : Concerns(req[r], k) => k \in req[r].heals
      BY <1>3 DEF Concerns
    <2>3. QED
      BY <1>1, <2>1, <2>2, LostGood
  <1>4. CASE req[r].op \notin {"publish", "init"}
    <2>1. marks'.behind = marks.behind
      BY <1>1, <1>4 DEF Abort, Marks
    <2>2. \A k : ~Concerns(req[r], k)
      BY <1>4 DEF Concerns, Publishes
    <2>3. marks'.behind = marks.behind \cup {}
      BY <2>1
    <2>4. QED
      BY <1>1, <2>2, <2>3, LostGood
  <1>5. QED
    BY <1>2, <1>3, <1>4

\* The initialisation that ends: its stamps and pins are written, or, when a
\* row is gone, nothing is.
LEMMA InitRunGood ==
    ASSUME Inv, Inv', Stocked, Fresh, NEW r \in Request, init_run(r)
    PROVE  Stocked' /\ Fresh'
  <1>0. PICK j : j = req[r]
    OBVIOUS
  <1> DEFINE n == j.run
             S == j.heals
             row == Pin(db.runs[n], j.skill_bundle)
             t == Healed(db.skills, j.healed)
             runs == [db.runs EXCEPT ![n] = row]
             d == [db EXCEPT !.runs = runs, !.skills = t]
             lost == db.runs[n] = None \/ \E k \in S : db.skills[k] = None
  <1>1. /\ Doing(r, "init") /\ Finish(r, IF lost THEN db ELSE d) /\ UNCHANGED <<objects, vault>>
        /\ marks' = IF lost THEN [marks EXCEPT !.behind = @ \cup (S \cap Live(db.skills))] ELSE marks
    <2>1. [db EXCEPT !.runs[n] = Pin(@, j.skill_bundle), !.skills = Healed(@, j.healed)] = d
      OBVIOUS
    <2>2. (IF \E k \in S : db.skills[k] = None THEN db ELSE IF db.runs[n] = None THEN db ELSE d)
            = IF lost THEN db ELSE d
      OBVIOUS
    <2>3. Finish(r, IF \E k \in S : db.skills[k] = None THEN db
                    ELSE IF db.runs[n] = None THEN db ELSE d)
      BY <1>0, <2>1 DEF init_run
    <2> HIDE DEF d
    <2>4. QED
      BY <1>0, <2>2, <2>3 DEF init_run
  <1>2. /\ n \in Run /\ S \subseteq Skill /\ j.op = "init" /\ j # Idle
        /\ j.skill_bundle \in [SkillName -> Maybe(Stamps)] /\ j.healed \in [S -> Stamps]
        /\ Agrees(j, db)
    BY <1>0, <1>1 DEF Doing, Inv, Requests, Carries
  <1>3. /\ Publishes(j) /\ JobFound(objects, j) /\ JobFits(db, marks.behind, j)
        /\ \A k : Concerns(j, k) => k \in S
    BY <1>0, <1>2 DEF Publishes, Stocked, Fresh, Concerns
  <1>4. CASE lost
    <2> HIDE DEF lost, d
    <2>1. Close(r) /\ db' = db /\ objects' = objects
      BY <1>1, <1>4 DEF Finish
    <2>2. marks'.behind = marks.behind \cup (S \cap Live(db.skills))
      BY <1>1, <1>4, QuietSays DEF Marks
    <2>3. QED
      BY <1>0, <1>3, <2>1, <2>2, LostGood
  <1>5. CASE ~lost
    <2>1. S \in SUBSET Live(db.skills) /\ n \in Live(db.runs) /\ db.runs[n] # None
      BY <1>2, <1>5, SkillsType, RunType DEF Live
    <2>2. /\ DOMAIN t = Skill /\ \A k \in Skill \ S : t[k] = db.skills[k]
          /\ \A k \in S :
                /\ t[k] # None /\ t[k].scope = db.skills[k].scope
                /\ t[k].name = db.skills[k].name /\ t[k].stamp = j.healed[k]
                /\ StampOf(t[k]) = StampOf(db.skills[k])
      BY <1>2, <2>1, HealedTexts
    <2>3. /\ row # None /\ row.project = db.runs[n].project /\ row.workflow = db.runs[n].workflow
          /\ row.policy = db.runs[n].policy /\ row.uses = db.runs[n].uses
          /\ row.pins = IF db.runs[n].state = "pending" THEN j.skill_bundle ELSE db.runs[n].pins
      <3>1. db.runs[n] \in RunRow
        BY <2>1, RunType
      <3>2. /\ row \in RunRow /\ row.project = db.runs[n].project
            /\ row.workflow = db.runs[n].workflow
            /\ row.policy = db.runs[n].policy /\ row.uses = db.runs[n].uses
            /\ row.pins = IF db.runs[n].state = "pending" THEN j.skill_bundle ELSE db.runs[n].pins
        BY <1>2, <3>1 DEF RunRow, Pin
      <3> HIDE DEF row
      <3>3. QED
        BY <3>2, NoneAssumption
    <2> HIDE DEF row, t
    <2>4. DOMAIN runs = Run /\ \A m \in Run : runs[m] = IF m = n THEN row ELSE db.runs[m]
      BY <1>2, RunType
    <2> HIDE DEF runs
    <2>5. Sound(d)
      <3>1. \A k \in Skill : IF db.skills[k] = None THEN t[k] = None
                             ELSE /\ t[k] # None /\ t[k].scope = db.skills[k].scope
                                  /\ t[k].name = db.skills[k].name
        BY <2>1, <2>2, SkillsType
      <3>2. \A m \in Run : IF db.runs[m] = None THEN runs[m] = None
                           ELSE /\ runs[m] # None /\ runs[m].project = db.runs[m].project
                                /\ runs[m].workflow = db.runs[m].workflow
                                /\ runs[m].policy = db.runs[m].policy
                                /\ runs[m].uses = db.runs[m].uses
        BY <2>1, <2>3, <2>4
      <3>3. QED
        BY <2>2, <2>4, <3>1, <3>2, StampsAreSound
    <2>6. d.skills = t /\ d.runs = runs
      BY QuietSays DEF Quiet, Fields
    <2> HIDE DEF d, lost
    <2>7. db'.skills = t /\ db'.runs = runs /\ Close(r) /\ marks' = marks /\ objects' = objects
      BY <1>1, <1>5, <2>5, <2>6 DEF Finish
    <2>8. req'[r] = Idle /\ \A s \in Request \ {r} : req'[s] = req[s]
      BY <2>7, QuietSays DEF Close
    <2>9. \A s \in Request : Publishes(req'[s]) => req'[s] = req[s]
      BY <2>8 DEF Publishes
    <2>10. Stocked'
      <3>1. Grown /\ Digests(objects')
        BY <2>7, StillGrown
      <3>2. /\ \A k \in S : Found(objects', j.healed[k])
            /\ \A s \in SkillName : Found(objects', j.skill_bundle[s])
        BY <1>2, <1>3, <2>7 DEF JobFound
      <3>3. \A k \in Skill : db'.skills[k] # None =>
               StampStays(k) \/ Found(objects', db'.skills[k].stamp)
        BY <2>2, <2>7, <3>2 DEF StampStays
      <3>4. \A m \in Run : db'.runs[m] # None =>
               PinsStay(m) \/ \A s \in SkillName : Found(objects', db'.runs[m].pins[s])
        BY <2>1, <2>3, <2>4, <2>7, <3>2 DEF PinsStay
      <3>5. QED
        BY <2>9, <3>1, <3>3, <3>4, StockedStep
    <2>11. Fresh'
      <3>1. \A k \in Skill \ S : Publishing(k) => Publishing(k)'
        BY <1>0, <1>3, <2>8, PublishingStays
      <3>2. \A k \in S : j.healed[k] = StampOf(db.skills[k]) \/ k \in marks.behind
        BY <1>2, <1>3, <2>1 DEF JobFits, Fits, Live
      <3>3. \A k \in Skill : db'.skills[k] # None =>
               \/ db'.skills[k].stamp = StampOf(db'.skills[k]) \/ k \in marks'.behind
               \/ /\ db'.skills[k] = db.skills[k] /\ k \notin marks.behind
                  /\ Publishing(k) => Publishing(k)'
        BY <2>2, <2>7, <3>1, <3>2
      <3>4. \A k \in Skill : Steady(k)
        BY <2>1, <2>2, <2>7, SkillsType DEF Steady
      <3>5. QED
        BY <2>9, <3>3, <3>4, FreshStep
    <2>12. QED
      BY <2>10, <2>11
  <1>6. QED
    BY <1>4, <1>5

-----------------------------------------------------------------------------
LEMMA PublicationGood ==
    ASSUME Inv, Inv', Stocked, Fresh, CatalogueNext
    PROVE  Stocked' /\ Fresh'
  <1>1. CASE SkillRequest
    BY <1>1, CreateSkillGood, EditSkillGood, UpdateSkillGood, ImportSkillGood,
       RemoveSkillTextsStand, TextsStandKeep DEF SkillRequest
  <1>2. CASE WorkflowRequest
    BY <1>2, CopyGood, ImportWorkflowGood, WorkflowTextsStand, TextsStandKeep
  <1>3. CASE \E r \in Request : republish_skill(r) \/ StampSkill(r)
    BY <1>3, RepublishGood, StampSkillGood
  <1>4. QED
    BY <1>1, <1>2, <1>3 DEF CatalogueNext

LEMMA NextGood ==
    ASSUME Inv, Inv', Stocked, Fresh, [Next]_vars
    PROVE  Stocked' /\ Fresh'
  <1>1. CASE AccountsNext \/ VaultNext
    BY <1>1, AccountsTextsStand, VaultTextsStand, TextsStandKeep
  <1>2. CASE CatalogueNext
    BY <1>2, PublicationGood
  <1>3. CASE create_run \/ FailInit \/ \E r \in Request : LoadRun(r) \/ init_run(r) \/ Abort(r)
    BY <1>3, CreateRunGood, FailInitGood, LoadRunGood, InitRunGood, AbortGood
  <1>4. CASE UNCHANGED vars
    <2>1. TextsStand
      BY <1>4 DEF vars, TextsStand, PinsStay
    <2>2. QED
      BY <2>1, TextsStandKeep
  <1>5. QED
    BY <1>1, <1>2, <1>3, <1>4 DEF Next

LEMMA InitGood == Init => Stocked /\ Fresh
  <1> SUFFICES ASSUME Init PROVE Stocked /\ Fresh
    OBVIOUS
  <1>1. PICK s \in Start : db = s.db /\ objects = s.objects
    BY DEF Init
  <1>2. Settled(s)
    BY StartAssumption
  <1>3. \A r \in Request : ~Publishes(req[r])
    BY DEF Init, Publishes
  <1>4. \A k \in Live(db.skills) :
           /\ db.skills[k].stamp = StampOf(db.skills[k])
           /\ db.skills[k].stamp.key \in DOMAIN objects
    BY <1>1, <1>2 DEF Settled
  <1>5. Digests(objects)
    BY <1>1, <1>2 DEF Settled, Digests
  <1>6. \A k \in Live(db.skills) : Found(objects, db.skills[k].stamp)
    <2>1. \A row : StampOf(row).key[2] = StampOf(row).sha
      BY DEF StampOf, skill_object_key
    <2>2. QED
      BY <1>4, <1>5, <2>1 DEF Found, Digests
  <1>7. \A n \in Live(db.runs), k \in SkillName : Found(objects, db.runs[n].pins[k])
    BY <1>1, <1>2 DEF Settled, Found
  <1>8. QED
    BY <1>3, <1>4, <1>5, <1>6, <1>7 DEF Stocked, Fresh, Upto

\* What an agent is given is what somebody wrote: every stamp and every pin
\* names a stored bundle with the digest it promises, and a stamp that is not
\* that of its skill's present text is being replaced, or was overtaken by
\* another publication, broken off, or a rename.
THEOREM BundlesAreSound == Spec => []BundlesSound
  <1>1. Init => Inv /\ Stocked /\ Fresh
    BY InitHolds, InitGood
  <1>2. (Inv /\ Stocked /\ Fresh) /\ [Next]_vars => (Inv /\ Stocked /\ Fresh)'
    <2> SUFFICES ASSUME Inv, Stocked, Fresh, [Next]_vars PROVE (Inv /\ Stocked /\ Fresh)'
      OBVIOUS
    <2>1. Inv'
      BY NextKeeps DEF Kept
    <2>2. QED
      BY <2>1, NextGood
  <1>3. Inv /\ Stocked /\ Fresh => BundlesSound
    BY DEF Stocked, Fresh, Upto, BundlesSound, Resolves, Found
  <1>4. QED
    BY <1>1, <1>2, <1>3, PTL DEF Spec

-----------------------------------------------------------------------------
(* The secrets.  The integrations and the variables are one table of rows   *)
(* that each have a place in the secure storage; a request that writes one  *)
(* either has its places to itself, or every place it can reach is torn.    *)

Spots == ({"integrations"} \X Integration) \cup ({"variables"} \X Variable)
At(d, x) == d[x[1]][x[2]]

Owner(x, row) == IF x[1] = "integrations" THEN row.project ELSE row.scope
Owned(d, x, row) ==
    IF x[1] = "integrations" THEN row.project \in d.projects ELSE InScope(d, row)
Place(x, row) == IF x[1] = "integrations" THEN IntegrationRef(row.project, row.kind)
                 ELSE env_var_ref(row.scope, row.name)

Spot(j) == <<j.table, j.id>>

\* No row but that at x has the place ref.
Alone(d, x, ref) == \A y \in Spots : At(d, y) # None /\ Place(y, At(d, y)) = ref => y = x

Sole(r) ==
    LET j == req[r]
        x == Spot(j)
    IN /\ \A ref \in j.refs : Alone(db, x, ref)
       /\ \A s \in Request \ {r} : Storing(req[s]) =>
             req[s].refs \cap j.refs = {} /\ Spot(req[s]) # x
       /\ ~j.new => At(db, x) # None
       /\ At(db, x) # None => Place(x, At(db, x)) \in j.refs
       /\ j.row # None => Owned(db, x, j.row)
       /\ \A ref \in j.refs \ marks.torn : ref \in vault <=> j.row # None /\ j.row.ref = ref

Lapsed(j) ==
    /\ j.refs \subseteq marks.torn
    /\ At(db, Spot(j)) # None => Place(Spot(j), At(db, Spot(j))) \in marks.torn

Settling(r) ==
    /\ req[r].row # None => Place(Spot(req[r]), req[r].row) \in req[r].refs
    /\ \E s \in Scope : req[r].refs \subseteq RefsOf(s)
    /\ Sole(r) \/ Lapsed(req[r])

Settlers == \A r \in Request : Storing(req[r]) => Settling(r)

Lone ==
    \A x, y \in Spots :
        /\ At(db, x) # None /\ At(db, y) # None
        /\ Place(x, At(db, x)) = Place(y, At(db, y)) /\ Place(x, At(db, x)) \notin marks.torn
        => x = y

Matched == \A ref \in Ref \ (marks.torn \cup Working) : ref \in vault <=> ref \in Referring(db)

Keeping == Settlers /\ Lone /\ Matched

-----------------------------------------------------------------------------
\* A row at its spot.
Fit(x, row) ==
    /\ x \in Spots
    /\ x[1] = "integrations" => row \in IntegrationRow /\ IntegrationAt(row)
    /\ x[1] = "variables" => row \in VariableRow /\ VariableAt(row)

LEMMA SpotSays ==
    ASSUME NEW x \in Spots
    PROVE  \/ x[1] = "integrations" /\ x[2] \in Integration /\ x = <<"integrations", x[2]>>
           \/ x[1] = "variables" /\ x[2] \in Variable /\ x = <<"variables", x[2]>>
  BY DEF Spots

LEMMA FitSays ==
    ASSUME NEW x, NEW row, Fit(x, row)
    PROVE  /\ Owner(x, row) \in Scope /\ Place(x, row) \in RefsOf(Owner(x, row))
           /\ row.ref \in {None, Place(x, row)} /\ Place(x, row) \in Ref /\ row # None
  <1>1. CASE x[1] = "integrations"
    <2>1. row \in IntegrationRow /\ IntegrationAt(row)
      BY <1>1 DEF Fit
    <2>2. row.project \in Project /\ row.kind \in Kind
      BY <2>1 DEF IntegrationRow
    <2>3. row # None
      BY <2>1, NoneAssumption
    <2>4. QED
      BY <1>1, <2>1, <2>2, <2>3, RefsIn DEF Owner, Place, Scope, RefsOf, IntegrationAt
  <1>2. CASE x[1] = "variables"
    <2>1. row \in VariableRow /\ VariableAt(row)
      BY <1>2 DEF Fit
    <2>2. row.scope \in Scope /\ row.name \in VarName
      BY <2>1 DEF VariableRow
    <2>3. row # None
      BY <2>1, NoneAssumption
    <2>4. QED
      BY <1>2, <2>1, <2>2, <2>3, RefsIn DEF Owner, Place, RefsOf, VariableAt
  <1>3. QED
    BY <1>1, <1>2, SpotSays DEF Fit

LEMMA RefsApart ==
    ASSUME NEW s, NEW t, NEW ref, ref \in RefsOf(s), ref \in RefsOf(t)
    PROVE  s = t
  BY DEF RefsOf, IntegrationRef, env_var_ref

LEMMA RowFits ==
    ASSUME Inv, NEW x \in Spots, At(db, x) # None
    PROVE  Fit(x, At(db, x)) /\ Owned(db, x, At(db, x))
  <1>1. CASE x[1] = "integrations"
    <2>1. x[2] \in Live(db.integrations) /\ At(db, x) = db.integrations[x[2]]
      BY <1>1, SpotSays DEF At, Live, Inv, Sane, Typed
    <2>2. db.integrations[x[2]].project \in db.projects
      BY <2>1 DEF Inv, Sane, Sound, IntegrationsSound
    <2>3. QED
      BY <1>1, <2>1, <2>2, IntegrationsType DEF Fit, Owned
  <1>2. CASE x[1] = "variables"
    <2>1. x[2] \in Live(db.variables) /\ At(db, x) = db.variables[x[2]]
      BY <1>2, SpotSays DEF At, Live, Inv, Sane, Typed
    <2>2. InScope(db, db.variables[x[2]])
      BY <2>1 DEF Inv, Sane, Sound, VariablesSound
    <2>3. QED
      BY <1>2, <2>1, <2>2, VariablesType DEF Fit, Owned
  <1>3. QED
    BY <1>1, <1>2, SpotSays

LEMMA StoreJobSays ==
    ASSUME Inv, NEW r \in Request, Storing(req[r])
    PROVE  /\ Spot(req[r]) \in Spots /\ Spot(req[r])[1] = req[r].table /\ Spot(req[r])[2] = req[r].id
           /\ req[r].row # None => Fit(Spot(req[r]), req[r].row)
           /\ req[r].refs \subseteq Ref /\ req[r].new \in BOOLEAN
  <1>1. IntegrationJob(req[r]) \/ VariableJob(req[r])
    BY DEF Storing, Inv, Requests, Carries
  <1>2. req[r].refs \subseteq Ref /\ req[r].new \in BOOLEAN
    BY DEF Storing, Inv, Requests, Carries
  <1>3. CASE IntegrationJob(req[r])
    BY <1>2, <1>3 DEF IntegrationJob, Spot, Spots, Fit, Maybe
  <1>4. CASE VariableJob(req[r])
    BY <1>2, <1>4 DEF VariableJob, Spot, Spots, Fit, Maybe
  <1>5. QED
    BY <1>1, <1>3, <1>4

\* What the tables refer to, spot by spot.
LEMMA ReferringSays ==
    ASSUME NEW d, Typed(d), NEW ref
    PROVE  ref \in Referring(d) <=> \E x \in Spots : At(d, x) # None /\ At(d, x).ref = ref
  <1>1. DOMAIN d.integrations = Integration /\ DOMAIN d.variables = Variable
    BY DEF Typed
  <1>2. ASSUME ref \in Referring(d)
        PROVE  \E x \in Spots : At(d, x) # None /\ At(d, x).ref = ref
    <2>1. CASE \E i \in Live(d.integrations) : ref = d.integrations[i].ref
      <3>1. PICK i \in Live(d.integrations) : ref = d.integrations[i].ref
        BY <2>1
      <3>2. <<"integrations", i>> \in Spots /\ At(d, <<"integrations", i>>) = d.integrations[i]
            /\ d.integrations[i] # None
        BY <1>1 DEF Spots, At, Live
      <3>3. QED
        BY <3>1, <3>2
    <2>2. CASE \E e \in Live(d.variables) : ref = d.variables[e].ref
      <3>1. PICK e \in Live(d.variables) : ref = d.variables[e].ref
        BY <2>2
      <3>2. <<"variables", e>> \in Spots /\ At(d, <<"variables", e>>) = d.variables[e]
            /\ d.variables[e] # None
        BY <1>1 DEF Spots, At, Live
      <3>3. QED
        BY <3>1, <3>2
    <2>3. QED
      BY <1>2, <2>1, <2>2 DEF Referring
  <1>3. ASSUME NEW x \in Spots, At(d, x) # None, At(d, x).ref = ref
        PROVE  ref \in Referring(d)
    <2>1. CASE x[1] = "integrations"
      BY <1>1, <1>3, <2>1, SpotSays DEF At, Live, Referring
    <2>2. CASE x[1] = "variables"
      BY <1>1, <1>3, <2>2, SpotSays DEF At, Live, Referring
    <2>3. QED
      BY <2>1, <2>2, SpotSays
  <1>4. QED
    BY <1>2, <1>3

LEMMA WorkingSays ==
    ASSUME NEW ref
    PROVE  /\ ref \in Working <=> \E r \in Request : Storing(req[r]) /\ ref \in req[r].refs
           /\ ref \in Working' <=> \E r \in Request : Storing(req'[r]) /\ ref \in req'[r].refs
  BY DEF Working, Jobs, Storing

-----------------------------------------------------------------------------
\* Steps that leave the rows where they are, with what they refer to, and touch
\* the secure storage only at torn places; a request may end if its are torn.
SameRow(x) ==
    /\ At(db', x) = None <=> At(db, x) = None
    /\ At(db, x) # None =>
          Place(x, At(db', x)) = Place(x, At(db, x)) /\ At(db', x).ref = At(db, x).ref

Undisturbed ==
    /\ \A x \in Spots : SameRow(x)
    /\ db.projects \subseteq db'.projects /\ marks.torn \subseteq marks'.torn
    /\ \A ref \in Ref \ marks'.torn : ref \in vault' <=> ref \in vault
    /\ \A s \in Request : Storing(req'[s]) => req'[s] = req[s]
    /\ \A s \in Request : Storing(req[s]) => req'[s] = req[s] \/ req[s].refs \subseteq marks'.torn

LEMMA OwnedStays ==
    ASSUME NEW d, NEW e, d.projects \subseteq e.projects, NEW x, NEW row, Owned(d, x, row)
    PROVE  Owned(e, x, row)
  BY DEF Owned, InScope

LEMMA UndisturbedKeeps ==
    ASSUME Inv, Inv', Keeping, Undisturbed
    PROVE  Keeping'
  <1>1. ASSUME NEW s \in Request, Storing(req'[s])
        PROVE  Settling(s)'
    <2> DEFINE x == Spot(req[s])
    <2>1. req'[s] = req[s] /\ Storing(req[s])
      BY <1>1 DEF Undisturbed
    <2>2. x \in Spots /\ SameRow(x) /\ req[s].refs \subseteq Ref
      BY <2>1, StoreJobSays DEF Undisturbed
    <2>3. Settling(s)
      BY <2>1 DEF Keeping, Settlers
    <2>4. CASE Lapsed(req[s])
      <3>1. Lapsed(req[s])'
        BY <2>1, <2>2, <2>4 DEF Lapsed, SameRow, Undisturbed
      <3>2. QED
        BY <2>1, <2>3, <3>1 DEF Settling
    <2>5. CASE Sole(s)
      <3>1. \A ref \in req[s].refs : Alone(db', x, ref)
        BY <2>5 DEF Sole, Alone, Undisturbed, SameRow
      <3>2. \A t \in Request \ {s} : Storing(req'[t]) =>
               req'[t].refs \cap req[s].refs = {} /\ Spot(req'[t]) # x
        BY <2>5 DEF Sole, Undisturbed
      <3>3. /\ ~req[s].new => At(db', x) # None
            /\ At(db', x) # None => Place(x, At(db', x)) \in req[s].refs
        BY <2>2, <2>5 DEF Sole, SameRow
      <3>4. req[s].row # None => Owned(db', x, req[s].row)
        BY <2>5, OwnedStays DEF Sole, Undisturbed
      <3>5. \A ref \in req[s].refs \ marks'.torn :
               ref \in vault' <=> req[s].row # None /\ req[s].row.ref = ref
        BY <2>2, <2>5 DEF Sole, Undisturbed
      <3>6. Sole(s)'
        BY <2>1, <3>1, <3>2, <3>3, <3>4, <3>5 DEF Sole
      <3>7. QED
        BY <2>1, <2>3, <3>6 DEF Settling
    <2>6. QED
      BY <2>3, <2>4, <2>5 DEF Settling
  <1>2. Lone'
    BY DEF Keeping, Lone, Undisturbed, SameRow
  <1>3. ASSUME NEW ref \in Ref \ (marks'.torn \cup Working')
        PROVE  ref \in vault' <=> ref \in Referring(db')
    <2>1. ref \notin marks.torn \cup Working
      BY <1>3, WorkingSays DEF Undisturbed
    <2>2. ref \in vault <=> ref \in Referring(db)
      BY <2>1 DEF Keeping, Matched
    <2>3. ref \in Referring(db) <=> ref \in Referring(db')
      BY ReferringSays DEF Undisturbed, SameRow, Inv, Sane
    <2>4. QED
      BY <2>2, <2>3 DEF Undisturbed
  <1>4. Matched'
    BY <1>3 DEF Matched
  <1>5. QED
    BY <1>1, <1>2, <1>4 DEF Keeping, Settlers

LEMMA SecretsStandKeep ==
    ASSUME Inv, Inv', Keeping, SecretsStand, db.projects \subseteq db'.projects
    PROVE  Keeping'
  <1>1. \A x \in Spots : At(db', x) = At(db, x)
    BY SpotSays DEF SecretsStand, At
  <1>2. Undisturbed
    BY <1>1 DEF SecretsStand, Undisturbed, SameRow
  <1>3. QED
    BY <1>2, UndisturbedKeeps

LEMMA AbortKeepsSecrets ==
    ASSUME Inv, Inv', Keeping, NEW r \in Request, Abort(r)
    PROVE  Keeping'
  <1>1. /\ db' = db /\ vault' = vault /\ req' = [req EXCEPT ![r] = Idle] /\ DOMAIN req = Request
        /\ DOMAIN marks = Marks /\ req[r] # Idle
    BY AsideSays DEF Abort, Close
  <1>2. marks.torn \subseteq marks'.torn /\ (req[r].op = "store" => req[r].refs \subseteq marks'.torn)
    BY <1>1 DEF Abort, Marks
  <1>3. Undisturbed
    BY <1>1, <1>2 DEF Undisturbed, SameRow, Storing
  <1>4. QED
    BY <1>3, UndisturbedKeeps

LEMMA RefusedKeepsSecrets ==
    ASSUME Inv, Inv', Keeping, NEW refs, NEW secrets, Refused(refs, secrets),
           \A ref \in Ref \ refs : ref \in secrets <=> ref \in vault
    PROVE  Keeping'
  <1>1. db' = db /\ req' = req /\ vault' = secrets /\ marks'.torn = marks.torn \cup refs
    BY AsideSays DEF Refused, Marks
  <1>2. Undisturbed
    BY <1>1 DEF Undisturbed, SameRow
  <1>3. QED
    BY <1>2, UndisturbedKeeps

LEMMA VerifyKeepsSecrets ==
    ASSUME Inv, Inv', Keeping, NEW i \in Live(db.integrations), Verify(i)
    PROVE  Keeping'
  <1> DEFINE row == [db.integrations[i] EXCEPT !.verified = TRUE]
             t == [db.integrations EXCEPT ![i] = row]
  <1>1. Commit("vault", [db EXCEPT !.integrations = t]) /\ UNCHANGED <<vault, marks>>
    BY DEF Verify
  <1>2. /\ row.project = db.integrations[i].project /\ row.kind = db.integrations[i].kind
        /\ row.ref = db.integrations[i].ref /\ row \in IntegrationRow
    BY IntegrationsType DEF IntegrationRow
  <1>3. row # None /\ i \in Integration /\ db.integrations[i] # None
    BY <1>2, IntegrationsType, NoneAssumption
  <1> HIDE DEF row
  <1>4. /\ db'.integrations = t /\ db'.variables = db.variables /\ db'.projects = db.projects
        /\ req' = req /\ DOMAIN db.integrations = Integration
    BY <1>1, AsideSays DEF Commit, Inv, Sane, Typed
  <1>5. \A x \in Spots : SameRow(x)
    BY <1>2, <1>3, <1>4, SpotSays DEF SameRow, At, Place
  <1>6. Undisturbed
    BY <1>1, <1>4, <1>5 DEF Undisturbed
  <1>7. QED
    BY <1>6, UndisturbedKeeps

-----------------------------------------------------------------------------
\* The accounts.
Keyless(d) ==
    d.integrations = db.integrations /\ d.variables = db.variables /\ db.projects \subseteq d.projects

NoSecrets == SecretsStand /\ db.projects \subseteq db'.projects

LEMMA KeylessSays ==
    ASSUME Inv
    PROVE  /\ Keyless(db) /\ DOMAIN req = Request /\ DOMAIN marks = Marks
           /\ \A t : Keyless([db EXCEPT !.users = t])
           /\ \A t : Keyless([db EXCEPT !.roster = t])
           /\ \A s, t : db.projects \subseteq s => Keyless([db EXCEPT !.projects = s, !.roster = t])
  <1>1. DOMAIN db = Fields /\ DOMAIN req = Request /\ DOMAIN marks = Marks
    BY BesideSays DEF Beside
  <1>2. QED
    BY <1>1 DEF Keyless, Fields

LEMMA CommitKeyless ==
    ASSUME NEW area, NEW d, Commit(area, d), Keyless(d), vault' = vault, marks'.torn = marks.torn
    PROVE  NoSecrets
  BY DEF Commit, Keyless, NoSecrets, SecretsStand

LEMMA FinishKeyless ==
    ASSUME Inv, NEW r \in Request, NEW d, Finish(r, d), ~Storing(req[r]), Keyless(d),
           vault' = vault, marks'.torn = marks.torn
    PROVE  NoSecrets
  <1>1. \A s \in Request : Storing(req'[s]) \/ Storing(req[s]) => req'[s] = req[s]
    BY KeylessSays DEF Finish, Close, Storing
  <1>2. Keyless(db')
    BY KeylessSays DEF Finish
  <1>3. QED
    BY <1>1, <1>2 DEF Keyless, NoSecrets, SecretsStand

LEMMA OpenKeyless ==
    ASSUME Inv, NEW r \in Request, NEW area, NEW job, Open(r, area, job), job.op # "store",
           db' = db, vault' = vault, marks'.torn = marks.torn
    PROVE  NoSecrets
  <1>1. \A s \in Request : Storing(req'[s]) \/ Storing(req[s]) => req'[s] = req[s]
    BY KeylessSays DEF Open, Storing
  <1>2. QED
    BY <1>1 DEF NoSecrets, SecretsStand

LEMMA AccountsKeyless == ASSUME Inv, AccountsNext, ~DeleteProject PROVE NoSecrets
  <1>1. ASSUME NEW r \in Request,
               Arrive(r) \/ AskRole(r) \/ AskEnabled(r) \/ ManagerAsksRole(r) \/ ManagerAsksRemoval(r)
        PROVE  NoSecrets
    <2>1. PICK job : /\ Open(r, "accounts", job) /\ job.op # "store"
                     /\ UNCHANGED <<db, vault>> /\ marks'.torn = marks.torn
      <3>1. CASE Arrive(r)
        BY <3>1 DEF Arrive
      <3>2. CASE AskRole(r) \/ AskEnabled(r)
        BY <3>2, KeylessSays DEF AskRole, AskEnabled, Duel, Marks
      <3>3. CASE ManagerAsksRole(r) \/ ManagerAsksRemoval(r)
        BY <3>3, KeylessSays DEF ManagerAsksRole, ManagerAsksRemoval, AskMember, Race, Marks
      <3>4. QED
        BY <1>1, <3>1, <3>2, <3>3
    <2>2. QED
      BY <2>1, OpenKeyless
  <1>2. ASSUME NEW r \in Request, EnterUser(r) \/ SetRole(r) \/ SetEnabled(r) PROVE NoSecrets
    <2>1. PICK t : /\ Finish(r, db) \/ Finish(r, [db EXCEPT !.users = t])
                   /\ UNCHANGED <<vault, marks>>
      BY <1>2 DEF EnterUser, SetRole, SetEnabled
    <2>2. ~Storing(req[r])
      BY <1>2 DEF EnterUser, SetRole, SetEnabled, Doing, Storing
    <2>3. QED
      BY <2>1, <2>2, KeylessSays, FinishKeyless
  <1>3. ASSUME NEW r \in Request, SetMember(r) PROVE NoSecrets
    <2>1. PICK t : /\ Finish(r, db) \/ Finish(r, [db EXCEPT !.roster = t])
                   /\ vault' = vault
      BY <1>3 DEF SetMember
    <2>2. marks'.torn = marks.torn
      BY <1>3, KeylessSays DEF SetMember, Race, Marks
    <2>3. ~Storing(req[r])
      BY <1>3 DEF SetMember, Doing, Storing
    <2>4. QED
      BY <2>1, <2>2, <2>3, KeylessSays, FinishKeyless
  <1>4. CASE CreateProject
    <2>1. PICK p, t : /\ Commit("accounts", [db EXCEPT !.projects = @ \cup {p}, !.roster = t])
                      /\ UNCHANGED <<vault, marks>>
      BY <1>4 DEF CreateProject
    <2>2. Keyless([db EXCEPT !.projects = db.projects \cup {p}, !.roster = t])
      BY KeylessSays
    <2>3. QED
      BY <2>1, <2>2, CommitKeyless
  <1>5. CASE AddMember \/ UpdateMemberRole \/ RemoveMember \/ ManagerAddsMember
    <2>1. PICK t : Commit("accounts", [db EXCEPT !.roster = t]) /\ vault' = vault
      BY <1>5 DEF AddMember, UpdateMemberRole, RemoveMember, ManagerAddsMember
    <2>2. marks'.torn = marks.torn
      BY <1>5, KeylessSays
         DEF AddMember, UpdateMemberRole, RemoveMember, ManagerAddsMember, Loosen, Marks
    <2>3. QED
      BY <2>1, <2>2, KeylessSays, CommitKeyless
  <1>6. QED
    BY <1>1, <1>2, <1>3, <1>4, <1>5 DEF AccountsNext

-----------------------------------------------------------------------------
\* A project goes with its rows, and every place of its is torn.
LEMMA CascadeSpots ==
    ASSUME Inv, NEW p \in Project
    PROVE  /\ Cascade(db, p).projects = db.projects \ {p}
           /\ \A x \in Spots : At(Cascade(db, p), x) =
                 IF At(db, x) # None /\ Owner(x, At(db, x)) = p THEN None ELSE At(db, x)
  <1> DEFINE d == Cascade(db, p)
  <1>1. d.projects = db.projects \ {p} /\ DOMAIN db = Fields
    BY BesideSays DEF Cascade, Beside, Fields
  <1>2. \A i \in Integration : d.integrations[i] =
           IF db.integrations[i] # None /\ db.integrations[i].project = p THEN None
           ELSE db.integrations[i]
    BY <1>1 DEF Cascade, Inv, Sane, Typed, Fields
  <1>3. \A e \in Variable : d.variables[e] =
           IF db.variables[e] # None /\ db.variables[e].scope = p THEN None ELSE db.variables[e]
    BY <1>1 DEF Cascade, Inv, Sane, Typed, Fields
  <1> HIDE DEF d
  <1>4. \A x \in Spots : At(d, x) =
                 IF At(db, x) # None /\ Owner(x, At(db, x)) = p THEN None ELSE At(db, x)
    BY <1>2, <1>3, SpotSays DEF At, Owner
  <1>5. QED
    BY <1>1, <1>4 DEF d

LEMMA DeleteProjectKeepsSecrets ==
    ASSUME Inv, Inv', Keeping, DeleteProject
    PROVE  Keeping'
  <1>1. PICK p \in db.projects, area \in Area \ {"engine"} :
           /\ Commit(area, Cascade(db, p))
           /\ marks' = [marks EXCEPT !.gone = @ \cup {p}, !.torn = @ \cup RefsOf(p),
                                     !.behind = @ \cap Live(db'.skills)]
           /\ UNCHANGED <<objects, vault>>
    BY DEF DeleteProject
  <1>2. p \in Project
    BY DEF Inv, Sane, Typed
  <1>3. db' = Cascade(db, p) /\ req' = req /\ vault' = vault
        /\ marks'.torn = marks.torn \cup RefsOf(p)
    BY <1>1, AsideSays DEF Commit, Marks
  <1>4. /\ db'.projects = db.projects \ {p}
        /\ \A x \in Spots : At(db', x) =
              IF At(db, x) # None /\ Owner(x, At(db, x)) = p THEN None ELSE At(db, x)
    BY <1>2, <1>3, CascadeSpots
  <1>5. \A x \in Spots : At(db, x) # None =>
           /\ Place(x, At(db, x)) \in RefsOf(Owner(x, At(db, x)))
           /\ At(db, x).ref \in {None, Place(x, At(db, x))}
    BY RowFits, FitSays
  <1>6. ASSUME NEW s \in Request, Storing(req[s])
        PROVE  Settling(s)'
    <2> DEFINE x == Spot(req[s])
    <2>1. x \in Spots /\ Settling(s)
          /\ (req[s].row # None => Place(x, req[s].row) \in RefsOf(Owner(x, req[s].row)))
      BY <1>6, StoreJobSays, FitSays DEF Keeping, Settlers
    <2>2. CASE Lapsed(req[s]) \/ req[s].refs \subseteq RefsOf(p)
      <3>1. Lapsed(req[s])'
        BY <1>3, <1>4, <2>1, <2>2 DEF Lapsed, Settling, Sole
      <3>2. QED
        BY <1>3, <2>1, <3>1 DEF Settling
    <2>3. CASE Sole(s) /\ ~(req[s].refs \subseteq RefsOf(p))
      <3>1. PICK owner \in Scope : req[s].refs \subseteq RefsOf(owner)
        BY <2>1 DEF Settling
      <3>2. owner # p
        BY <2>3, <3>1
      <3>3. At(db', x) = At(db, x)
        BY <1>4, <1>5, <2>1, <2>3, <3>1, <3>2, RefsApart DEF Sole
      <3>4. \A ref \in req[s].refs : Alone(db', x, ref)
        BY <1>4, <2>3 DEF Sole, Alone
      <3>5. req[s].row # None => Owned(db', x, req[s].row)
        <4>1. req[s].row # None => Owner(x, req[s].row) # p /\ Owned(db, x, req[s].row)
          BY <2>1, <2>3, <3>1, <3>2, RefsApart DEF Settling, Sole
        <4>2. QED
          BY <1>4, <4>1 DEF Owned, Owner, InScope
      <3>6. Sole(s)'
        BY <1>3, <2>3, <3>3, <3>4, <3>5 DEF Sole
      <3>7. QED
        BY <1>3, <2>1, <3>6 DEF Settling
    <2>4. QED
      BY <2>1, <2>2, <2>3 DEF Settling
  <1>7. Lone'
    BY <1>3, <1>4 DEF Keeping, Lone
  <1>8. ASSUME NEW ref \in Ref \ (marks'.torn \cup Working')
        PROVE  ref \in vault' <=> ref \in Referring(db')
    <2>1. ref \notin marks.torn \cup Working /\ ref \notin RefsOf(p) /\ ref # None
      BY <1>3, <1>8, WorkingSays, NoneAssumption
    <2>2. \A x \in Spots : At(db, x) # None /\ At(db, x).ref = ref => At(db', x) = At(db, x)
      BY <1>4, <1>5, <2>1
    <2>3. ref \in Referring(db) <=> ref \in Referring(db')
      BY <1>4, <2>2, ReferringSays DEF Inv, Sane
    <2>4. QED
      BY <1>3, <2>1, <2>3 DEF Keeping, Matched
  <1>9. QED
    BY <1>3, <1>6, <1>7, <1>8 DEF Keeping, Settlers, Matched

-----------------------------------------------------------------------------
\* A request that changes the secure storage and is to write a row.
Rivals(refs) == {s \in Request : Storing(req[s]) /\ req[s].refs \cap refs # {}}

LEMMA TornSays ==
    ASSUME Inv, NEW refs, marks' = Torn(refs)
    PROVE  /\ marks.torn \subseteq marks'.torn
           /\ \A s \in Rivals(refs) : req[s].refs \subseteq marks'.torn
           /\ IF Rivals(refs) = {} /\ refs \cap marks.torn = {} THEN marks'.torn = marks.torn
              ELSE refs \subseteq marks'.torn
  <1> DEFINE rivals == Overlapping(refs)
  <1>1. \A ref : ref \in marks'.torn <=>
           \/ ref \in marks.torn \/ \E job \in rivals : ref \in job.refs
           \/ ref \in refs /\ ~(rivals = {} /\ refs \cap marks.torn = {})
    BY AsideSays DEF Torn, Marks
  <1>2. rivals = {req[s] : s \in Rivals(refs)}
    BY DEF Overlapping, Jobs, Rivals, Storing
  <1> HIDE DEF rivals
  <1>3. rivals = {} <=> Rivals(refs) = {}
    BY <1>2
  <1>4. marks.torn \subseteq marks'.torn /\ \A s \in Rivals(refs) : req[s].refs \subseteq marks'.torn
    BY <1>1, <1>2
  <1>5. CASE Rivals(refs) = {} /\ refs \cap marks.torn = {}
    <2>1. marks'.torn \subseteq marks.torn
      BY <1>1, <1>3, <1>5
    <2>2. QED
      BY <1>4, <1>5, <2>1
  <1>6. QED
    BY <1>1, <1>3, <1>4, <1>5

\* What a request to the secure storage sees to before it is answered.
Prepared(x, row, refs, secrets) ==
    /\ x \in Spots /\ refs \subseteq Ref
    /\ \E s \in Scope : refs \subseteq RefsOf(s)
    /\ At(db, x) = None => x[2] \notin Held /\ row # None
    /\ At(db, x) # None => Place(x, At(db, x)) \in refs
    /\ row # None => Fit(x, row) /\ Place(x, row) \in refs /\ Owned(db, x, row)
    /\ \A ref \in refs \ marks.torn : Alone(db, x, ref)
    /\ \A ref \in Ref \ refs : ref \in secrets <=> ref \in vault
    /\ (\A ref \in refs : ref \in vault <=> At(db, x) # None /\ At(db, x).ref = ref)
       => \A ref \in refs : ref \in secrets <=> row # None /\ row.ref = ref

\* What refers to a place that only the row at x has.
LEMMA AloneSays ==
    ASSUME Inv, NEW x \in Spots, NEW ref \in Ref, Alone(db, x, ref)
    PROVE  ref \in Referring(db) <=> At(db, x) # None /\ At(db, x).ref = ref
  <1>1. \A y \in Spots : At(db, y) # None => At(db, y).ref \in {None, Place(y, At(db, y))}
    BY RowFits, FitSays
  <1>2. ref # None
    BY NoneAssumption
  <1>3. QED
    BY <1>1, <1>2, ReferringSays DEF Alone, Inv, Sane

LEMMA StoreKeepsSecrets ==
    ASSUME Inv, Inv', Keeping, NEW r \in Request, NEW table, NEW id, NEW row, NEW refs,
           NEW secrets, Store(r, table, id, row, refs, secrets),
           Prepared(<<table, id>>, row, refs, secrets)
    PROVE  Keeping'
  <1> DEFINE job == [op |-> "store", rows |-> {id}, table |-> table, id |-> id,
                     new |-> db[table][id] = None, row |-> row, refs |-> refs]
             x == <<table, id>>
             clean == Rivals(refs) = {} /\ refs \cap marks.torn = {}
  <1>1. /\ req' = [req EXCEPT ![r] = job] /\ db' = db
        /\ vault' = secrets /\ marks' = Torn(refs) /\ req[r] = Idle /\ DOMAIN req = Request
    BY AsideSays DEF Store, Open
  <1>2. /\ Storing(job) /\ Spot(job) = x /\ job.row = row /\ job.refs = refs
        /\ job.new <=> At(db, x) = None
    <2>1. /\ table \in {"integrations", "variables"} /\ id \in Integration \cup Variable
          /\ refs \in SUBSET Ref
      BY SpotSays DEF Prepared, Spots
    <2>2. row \in Maybe(IntegrationRow \cup VariableRow)
      BY <2>1 DEF Prepared, Fit, Maybe
    <2>3. job # Idle
      <3> DEFINE rows == Maybe(IntegrationRow \cup VariableRow)
                 stores == [op : {"store"}, rows : SUBSET (Integration \cup Variable),
                            table : {"integrations", "variables"}, id : Integration \cup Variable,
                            new : BOOLEAN, row : rows, refs : SUBSET Ref]
      <3>1. Idle \notin stores
        BY IdleAssumption
      <3>2. row \in rows
        BY <2>2
      <3> HIDE DEF rows
      <3>3. job \in stores
        BY <2>1, <3>2
      <3>4. QED
        BY <3>1, <3>3
    <2>4. job.op = "store" /\ job.table = table /\ job.id = id /\ job.row = row /\ job.refs = refs
          /\ (job.new <=> db[table][id] = None)
      OBVIOUS
    <2> HIDE DEF job
    <2>5. QED
      BY <2>3, <2>4 DEF Storing, Spot, At
  <1> HIDE DEF job
  <1>3. req'[r] = job /\ ~Storing(req[r]) /\ \A s \in Request \ {r} : req'[s] = req[s]
    BY <1>1 DEF Storing
  <1>4. x \in Spots /\ refs \subseteq Ref /\ x[2] = id
    BY DEF Prepared
  <1>5. /\ marks.torn \subseteq marks'.torn
        /\ \A s \in Rivals(refs) : req[s].refs \subseteq marks'.torn
        /\ IF clean THEN marks'.torn = marks.torn ELSE refs \subseteq marks'.torn
    BY <1>1, TornSays
  <1> HIDE DEF clean, x
  \* Nobody else is at work on the row, unless on a place of it too.
  <1>6. ASSUME NEW s \in Request, Storing(req[s]), Sole(s), Spot(req[s]) = x
        PROVE  s \in Rivals(refs)
    <2>1. At(db, x) # None
      <3>1. req[s].id = id /\ req[s].rows = {req[s].id} /\ req[s] # Idle
        BY <1>4, <1>6, StoreJobSays DEF Storing, Inv, Requests, Carries
      <3>2. id \in Held
        BY <3>1 DEF Held
      <3>3. QED
        BY <1>4, <3>2 DEF Prepared, x
    <2>2. Place(x, At(db, x)) \in req[s].refs \cap refs
      BY <1>6, <2>1 DEF Sole, Prepared, x
    <2>3. QED
      BY <1>6, <2>2 DEF Rivals
  <1>7. ASSUME NEW s \in Request \ {r}, Storing(req[s])
        PROVE  Settling(s)'
    <2>1. Settling(s) /\ req'[s] = req[s] /\ Spot(req[s]) \in Spots
      BY <1>3, <1>7, StoreJobSays DEF Keeping, Settlers
    <2>2. CASE Lapsed(req[s]) \/ s \in Rivals(refs)
      <3>1. Lapsed(req[s])'
        BY <1>1, <1>5, <2>1, <2>2 DEF Lapsed, Settling, Sole
      <3>2. QED
        BY <2>1, <3>1 DEF Settling
    <2>3. CASE Sole(s) /\ s \notin Rivals(refs)
      <3>1. Spot(req[s]) # x /\ req[s].refs \cap refs = {}
        BY <1>6, <1>7, <2>3 DEF Rivals
      <3>2. \A t \in Request \ {s} : Storing(req'[t]) =>
               req'[t].refs \cap req[s].refs = {} /\ Spot(req'[t]) # Spot(req[s])
        BY <1>2, <1>3, <2>3, <3>1 DEF Sole
      <3>3. \A ref \in req[s].refs \ marks'.torn :
               ref \in vault' <=> req[s].row # None /\ req[s].row.ref = ref
        <4>1. req[s].refs \subseteq Ref
          BY <1>7, StoreJobSays
        <4>2. \A ref \in Ref \ refs : ref \in secrets <=> ref \in vault
          BY DEF Prepared
        <4>3. QED
          BY <1>1, <1>5, <2>3, <3>1, <4>1, <4>2 DEF Sole
      <3>4. Sole(s)'
        BY <1>1, <2>1, <2>3, <3>2, <3>3 DEF Sole
      <3>5. QED
        BY <1>1, <2>1, <3>4 DEF Settling
    <2>4. QED
      BY <2>1, <2>2, <2>3 DEF Settling
  <1>8. Settling(r)'
    <2>1. /\ row # None => Place(x, row) \in refs
          /\ \E s \in Scope : refs \subseteq RefsOf(s)
      BY DEF Prepared, x
    <2>2. CASE clean
      <3>1. \A ref \in refs : Alone(db, x, ref)
        BY <2>2 DEF Prepared, clean, x
      <3>2. ASSUME NEW s \in Request \ {r}, Storing(req[s])
            PROVE  req[s].refs \cap refs = {} /\ Spot(req[s]) # x
        <4>1. req[s].refs \cap refs = {}
          BY <2>2, <3>2 DEF clean, Rivals
        <4>2. Settling(s)
          BY <3>2 DEF Keeping, Settlers
        <4>3. CASE Sole(s)
          BY <1>6, <2>2, <3>2, <4>1, <4>3 DEF clean
        <4>4. CASE Lapsed(req[s])
          <5>1. ASSUME Spot(req[s]) = x PROVE FALSE
            <6>1. req[s].id = id /\ req[s].rows = {req[s].id} /\ req[s] # Idle
              BY <1>4, <3>2, <5>1, StoreJobSays DEF Storing, Inv, Requests, Carries
            <6>2. id \in Held
              BY <6>1 DEF Held
            <6>3. At(db, x) # None
              BY <1>4, <6>2 DEF Prepared, x
            <6>4. Place(x, At(db, x)) \in marks.torn \cap refs
              BY <4>4, <5>1, <6>3 DEF Lapsed, Prepared, x
            <6>5. QED
              BY <2>2, <6>4 DEF clean
          <5>2. QED
            BY <4>1, <5>1
        <4>5. QED
          BY <4>2, <4>3, <4>4 DEF Settling
      <3>3. \A ref \in refs : ref \in secrets <=> row # None /\ row.ref = ref
        <4>1. \A ref \in refs : ref \notin Working /\ ref \notin marks.torn
          BY <2>2, WorkingSays DEF clean, Rivals
        <4>2. \A ref \in refs : ref \in vault <=> ref \in Referring(db)
          BY <1>4, <4>1 DEF Keeping, Matched
        <4>3. \A ref \in refs : ref \in vault <=> At(db, x) # None /\ At(db, x).ref = ref
          BY <1>4, <3>1, <4>2, AloneSays
        <4>4. QED
          BY <4>3 DEF Prepared, x
      <3>4. /\ At(db, x) # None => Place(x, At(db, x)) \in refs
            /\ row # None => Owned(db, x, row)
        BY DEF Prepared, x
      <3>5. Sole(r)'
        BY <1>1, <1>2, <1>3, <3>1, <3>2, <3>3, <3>4 DEF Sole
      <3>6. QED
        BY <1>2, <1>3, <2>1, <3>5 DEF Settling
    <2>3. CASE ~clean
      <3>1. refs \subseteq marks'.torn
        BY <1>5, <2>3
      <3>2. At(db, x) # None => Place(x, At(db, x)) \in refs
        BY DEF Prepared, x
      <3>3. Lapsed(req[r])'
        BY <1>1, <1>2, <1>3, <3>1, <3>2 DEF Lapsed
      <3>4. QED
        BY <1>2, <1>3, <2>1, <3>3 DEF Settling
    <2>4. QED
      BY <2>2, <2>3
  <1>9. Lone'
    BY <1>1, <1>5 DEF Keeping, Lone
  <1>10. ASSUME NEW ref \in Ref \ (marks'.torn \cup Working')
         PROVE  ref \in vault' <=> ref \in Referring(db')
    <2>1. ref \notin refs /\ ref \notin marks.torn \cup Working
      BY <1>2, <1>3, <1>5, <1>10, WorkingSays
    <2>2. QED
      BY <1>1, <2>1 DEF Keeping, Matched, Prepared
  <1>11. QED
    BY <1>3, <1>7, <1>8, <1>9, <1>10 DEF Keeping, Settlers, Matched

-----------------------------------------------------------------------------
\* The handlers of the secure storage, one by one.
LEMMA PlaceSays ==
    ASSUME Inv, NEW y \in Spots, At(db, y) # None
    PROVE  /\ \A p, kind : Place(y, At(db, y)) = IntegrationRef(p, kind) =>
                 y[1] = "integrations" /\ y[2] \in OfKind(p, kind)
           /\ \A scope, name : Place(y, At(db, y)) = env_var_ref(scope, name) =>
                 y[1] = "variables" /\ y[2] \in Named(db.variables, scope, name)
  <1>1. CASE y[1] = "integrations"
    <2>1. At(db, y) = db.integrations[y[2]] /\ y[2] \in Live(db.integrations)
      BY <1>1, SpotSays DEF At, Live, Inv, Sane, Typed
    <2>2. QED
      BY <1>1, <2>1 DEF Place, IntegrationRef, env_var_ref, OfKind
  <1>2. CASE y[1] = "variables"
    <2>1. At(db, y) = db.variables[y[2]] /\ y[2] \in Live(db.variables)
      BY <1>2, SpotSays DEF At, Live, Inv, Sane, Typed
    <2>2. QED
      BY <1>2, <2>1 DEF Place, IntegrationRef, env_var_ref, Named
  <1>3. QED
    BY <1>1, <1>2, SpotSays

\* A place that is not torn belongs to one row.
LEMMA LoneSays ==
    ASSUME Keeping, NEW x \in Spots, At(db, x) # None, Place(x, At(db, x)) \notin marks.torn
    PROVE  Alone(db, x, Place(x, At(db, x)))
  BY DEF Keeping, Lone, Alone

LEMMA IntegrationSpot ==
    ASSUME Inv, NEW i \in Live(db.integrations)
    PROVE  /\ <<"integrations", i>> \in Spots
           /\ At(db, <<"integrations", i>>) = db.integrations[i] /\ db.integrations[i] # None
           /\ Fit(<<"integrations", i>>, db.integrations[i])
           /\ Owned(db, <<"integrations", i>>, db.integrations[i])
           /\ Place(<<"integrations", i>>, db.integrations[i])
                = IntegrationRef(db.integrations[i].project, db.integrations[i].kind)
  <1>1. /\ <<"integrations", i>> \in Spots /\ db.integrations[i] # None
        /\ At(db, <<"integrations", i>>) = db.integrations[i]
    BY IntegrationsType DEF Spots, At
  <1>2. QED
    BY <1>1, RowFits DEF Place

LEMMA VariableSpot ==
    ASSUME Inv, NEW e \in Live(db.variables)
    PROVE  /\ <<"variables", e>> \in Spots
           /\ At(db, <<"variables", e>>) = db.variables[e] /\ db.variables[e] # None
           /\ Fit(<<"variables", e>>, db.variables[e])
           /\ Owned(db, <<"variables", e>>, db.variables[e])
           /\ Place(<<"variables", e>>, db.variables[e])
                = env_var_ref(db.variables[e].scope, db.variables[e].name)
  <1>1. /\ <<"variables", e>> \in Spots /\ db.variables[e] # None
        /\ At(db, <<"variables", e>>) = db.variables[e]
    BY VariablesType DEF Spots, At
  <1>2. QED
    BY <1>1, RowFits DEF Place

\* An integration keeps its place; a credential that is given is stored there.
LEMMA KeepIntegration ==
    ASSUME Inv, Inv', Keeping, NEW r \in Request, NEW i \in Live(db.integrations), NEW row,
           NEW credential \in BOOLEAN, row \in IntegrationRow, IntegrationAt(row),
           row.project = db.integrations[i].project, row.kind = db.integrations[i].kind,
           row.ref = IF credential THEN IntegrationRef(row.project, row.kind)
                     ELSE db.integrations[i].ref,
           Store(r, "integrations", i, row, {IntegrationRef(row.project, row.kind)},
                 IF credential THEN vault \cup {IntegrationRef(row.project, row.kind)} ELSE vault)
    PROVE  Keeping'
  <1> DEFINE ref == IntegrationRef(row.project, row.kind)
             secrets == IF credential THEN vault \cup {ref} ELSE vault
             x == <<"integrations", i>>
  <1>1. /\ x \in Spots /\ At(db, x) = db.integrations[i] /\ db.integrations[i] # None
        /\ Place(x, At(db, x)) = ref /\ Owned(db, x, db.integrations[i])
    BY IntegrationSpot
  <1>2. Fit(x, row) /\ Place(x, row) = ref /\ Owned(db, x, row) /\ row # None
    BY <1>1, NoneAssumption DEF Fit, Place, Owned
  <1>3. ref \in Ref /\ \E s \in Scope : {ref} \subseteq RefsOf(s)
    BY <1>2, FitSays
  <1>4. \A place \in {ref} \ marks.torn : Alone(db, x, place)
    BY <1>1, LoneSays
  <1>5. \A place \in Ref \ {ref} : place \in secrets <=> place \in vault
    OBVIOUS
  <1>6. (\A place \in {ref} : place \in vault <=> At(db, x) # None /\ At(db, x).ref = place)
        => \A place \in {ref} : place \in secrets <=> row # None /\ row.ref = place
    BY <1>1, <1>2
  <1>7. Store(r, "integrations", i, row, {ref}, secrets)
    OBVIOUS
  <1> HIDE DEF ref, secrets
  <1>8. Prepared(x, row, {ref}, secrets)
    BY <1>1, <1>2, <1>3, <1>4, <1>5, <1>6 DEF Prepared
  <1>9. QED
    BY <1>7, <1>8, StoreKeepsSecrets

LEMMA SaveKeepsSecrets ==
    ASSUME Inv, Inv', Keeping, NEW r \in Request, NEW p \in db.projects, NEW kind \in Kind,
           NEW label \in Label, NEW credential \in BOOLEAN, Save(r, p, kind, label, credential)
    PROVE  Keeping'
  <1> DEFINE ref == IntegrationRef(p, kind)
             fresh == [project |-> p, kind |-> kind, label |-> label, verified |-> FALSE,
                       ref |-> IF credential THEN ref ELSE None]
             secrets == IF credential THEN vault \cup {ref} ELSE vault
             changed(i) == [db.integrations[i] EXCEPT !.label = label,
                                                  !.ref = IF credential THEN ref ELSE @]
  <1>1. p \in Project /\ ref \in Ref /\ ref # None
    BY RefsIn, VaultType, NoneAssumption
  <1>2. CASE OfKind(p, kind) = {}
    <2> DEFINE i == NewId(db.integrations)
               x == <<"integrations", i>>
    <2>1. Room(db.integrations, 1) /\ Store(r, "integrations", i, fresh, {ref}, secrets)
      BY <1>2 DEF Save
    <2>2. fresh \in IntegrationRow /\ IntegrationAt(fresh)
      BY <1>1 DEF IntegrationRow, IntegrationAt, Maybe
    <2>3. fresh.project = p /\ fresh.kind = kind /\ fresh.ref = IF credential THEN ref ELSE None
      OBVIOUS
    <2>4. i \in Integration /\ db.integrations[i] = None /\ i \notin Held
      BY <2>1, FreeRow DEF Inv, Sane, Typed
    <2> HIDE DEF fresh, i
    <2>5. x \in Spots /\ At(db, x) = None /\ x[2] = i
      BY <2>4 DEF Spots, At
    <2>6. Fit(x, fresh) /\ Place(x, fresh) = ref /\ Owned(db, x, fresh) /\ fresh # None
      BY <2>2, <2>3, <2>5, NoneAssumption DEF Fit, Place, Owned
    <2>7. \E s \in Scope : {ref} \subseteq RefsOf(s)
      BY <2>6, FitSays
    <2>8. \A place \in {ref} : Alone(db, x, place)
      BY <1>2, PlaceSays DEF Alone
    <2>9. \A place \in Ref \ {ref} : place \in secrets <=> place \in vault
      OBVIOUS
    <2>10. (\A place \in {ref} : place \in vault <=> At(db, x) # None /\ At(db, x).ref = place)
           => \A place \in {ref} : place \in secrets <=> fresh # None /\ fresh.ref = place
      BY <1>1, <2>3, <2>5, <2>6
    <2> HIDE DEF ref, secrets
    <2>11. Prepared(x, fresh, {ref}, secrets)
      BY <1>1, <2>4, <2>5, <2>6, <2>7, <2>8, <2>9, <2>10 DEF Prepared
    <2>12. QED
      BY <2>1, <2>11, StoreKeepsSecrets
  <1>3. CASE OfKind(p, kind) # {}
    <2>1. PICK i \in OfKind(p, kind) : Store(r, "integrations", i, changed(i), {ref}, secrets)
      BY <1>3 DEF Save
    <2>2. /\ i \in Live(db.integrations) /\ db.integrations[i].project = p
          /\ db.integrations[i].kind = kind
      BY DEF OfKind
    <2>3. changed(i) \in IntegrationRow /\ IntegrationAt(changed(i))
          /\ changed(i).project = p /\ changed(i).kind = kind
          /\ changed(i).ref = IF credential THEN ref ELSE db.integrations[i].ref
      BY <1>1, <2>2, IntegrationsType DEF IntegrationRow, IntegrationAt, Maybe
    <2> HIDE DEF changed
    <2>4. QED
      BY <2>1, <2>2, <2>3, KeepIntegration
  <1>4. QED
    BY <1>2, <1>3

LEMMA RotateKeepsSecrets ==
    ASSUME Inv, Inv', Keeping, NEW r \in Request, NEW i \in Live(db.integrations),
           NEW credential \in BOOLEAN, NEW valid \in BOOLEAN, Rotate(r, i, credential, valid)
    PROVE  Keeping'
  <1> DEFINE row == db.integrations[i]
             ref == IntegrationRef(row.project, row.kind)
             secrets == IF credential THEN vault \cup {ref} ELSE vault
             changed == [row EXCEPT !.ref = IF credential THEN ref ELSE @]
  <1>1. row # None /\ row \in IntegrationRow /\ IntegrationAt(row) /\ ref \in Ref
    BY IntegrationsType, RefsIn DEF IntegrationRow
  <1>2. CASE ~valid
    <2>1. Refused({ref}, secrets)
      BY <1>2 DEF Rotate
    <2>2. QED
      BY <2>1, RefusedKeepsSecrets
  <1>3. CASE valid
    <2>1. Store(r, "integrations", i, changed, {ref}, secrets)
      BY <1>3 DEF Rotate
    <2>2. changed \in IntegrationRow /\ IntegrationAt(changed)
          /\ changed.project = row.project /\ changed.kind = row.kind
          /\ changed.ref = IF credential THEN ref ELSE row.ref
      BY <1>1 DEF IntegrationRow, IntegrationAt, Maybe
    <2> HIDE DEF changed
    <2>3. QED
      BY <2>1, <2>2, KeepIntegration
  <1>4. QED
    BY <1>2, <1>3

\* A row is to go, and its secret has gone.
LEMMA DropKeepsSecrets ==
    ASSUME Inv, Inv', Keeping, NEW r \in Request, NEW table, NEW id, NEW ref,
           <<table, id>> \in Spots, At(db, <<table, id>>) # None,
           ref = Place(<<table, id>>, At(db, <<table, id>>)),
           Store(r, table, id, None, {ref}, vault \ {At(db, <<table, id>>).ref})
    PROVE  Keeping'
  <1> DEFINE x == <<table, id>>
             secrets == vault \ {At(db, x).ref}
  <1>1. Fit(x, At(db, x))
    BY RowFits
  <1>2. /\ At(db, x).ref \in {None, ref} /\ ref \in Ref
        /\ \E s \in Scope : {ref} \subseteq RefsOf(s)
    BY <1>1, FitSays
  <1>3. \A place \in {ref} \ marks.torn : Alone(db, x, place)
    BY LoneSays
  <1>4. \A place \in Ref \ {ref} : place \in secrets <=> place \in vault
    BY <1>2, NoneAssumption
  <1>5. (\A place \in {ref} : place \in vault <=> At(db, x) # None /\ At(db, x).ref = place)
        => \A place \in {ref} : ~(place \in secrets)
    BY <1>2
  <1>6. Prepared(x, None, {ref}, secrets)
    BY <1>2, <1>3, <1>4, <1>5 DEF Prepared
  <1>7. QED
    BY <1>6, StoreKeepsSecrets

LEMMA WipeKeepsSecrets ==
    ASSUME Inv, Inv', Keeping, NEW r \in Request, NEW i \in Live(db.integrations), Wipe(r, i)
    PROVE  Keeping'
  BY IntegrationSpot, DropKeepsSecrets DEF Wipe

LEMMA DropVariableKeepsSecrets ==
    ASSUME Inv, Inv', Keeping, NEW r \in Request, NEW e \in Live(db.variables), DropVariable(r, e)
    PROVE  Keeping'
  BY VariableSpot, DropKeepsSecrets DEF DropVariable

LEMMA NewVariableKeepsSecrets ==
    ASSUME Inv, Inv', Keeping, NEW r \in Request, NEW scope \in {Platform} \cup db.projects,
           NEW name \in VarName, NEW secret \in BOOLEAN, NewVariable(r, scope, name, secret)
    PROVE  Keeping'
  <1> DEFINE ref == env_var_ref(scope, name)
             row == [scope |-> scope, name |-> name, secret |-> secret,
                     ref |-> IF secret THEN ref ELSE None]
             secrets == _store_secret(scope, name, secret)
             e == NewId(db.variables)
             x == <<"variables", e>>
  <1>1. /\ Room(db.variables, 1) /\ Store(r, "variables", e, row, {ref}, secrets)
        /\ Named(db.variables, scope, name) = {}
    BY DEF NewVariable
  <1>2. scope \in Scope /\ ref \in Ref /\ ref # None
    BY RefsIn, VaultType, NoneAssumption DEF Scope
  <1>3. row \in VariableRow /\ VariableAt(row)
    BY <1>2 DEF VariableRow, VariableAt, Maybe
  <1>4. row.scope = scope /\ row.name = name /\ row.ref = IF secret THEN ref ELSE None
    OBVIOUS
  <1>5. e \in Variable /\ db.variables[e] = None /\ e \notin Held
    BY <1>1, FreeRow DEF Inv, Sane, Typed
  <1>6. secrets = IF secret THEN vault \cup {ref} ELSE vault
    BY DEF _store_secret
  <1> HIDE DEF row, secrets, e
  <1>7. x \in Spots /\ At(db, x) = None /\ x[2] = e
    BY <1>5 DEF Spots, At
  <1>8. Fit(x, row) /\ Place(x, row) = ref /\ Owned(db, x, row) /\ row # None
    BY <1>3, <1>4, <1>7, NoneAssumption DEF Fit, Place, Owned, InScope
  <1>9. \E s \in Scope : {ref} \subseteq RefsOf(s)
    BY <1>8, FitSays
  <1>10. \A place \in {ref} : Alone(db, x, place)
    BY <1>1, PlaceSays DEF Alone
  <1>11. \A place \in Ref \ {ref} : place \in secrets <=> place \in vault
    BY <1>6
  <1>12. (\A place \in {ref} : place \in vault <=> At(db, x) # None /\ At(db, x).ref = place)
         => \A place \in {ref} : place \in secrets <=> row # None /\ row.ref = place
    BY <1>2, <1>4, <1>6, <1>7, <1>8
  <1> HIDE DEF ref
  <1>13. Prepared(x, row, {ref}, secrets)
    BY <1>2, <1>5, <1>7, <1>8, <1>9, <1>10, <1>11, <1>12 DEF Prepared
  <1>14. QED
    BY <1>1, <1>13, StoreKeepsSecrets

\* What a change of name or value makes of the secure storage.
Changes(row, name, value) ==
    LET old == env_var_ref(row.scope, row.name)
        ref == env_var_ref(row.scope, name)
        moved == _rename_row(row, name)
        secrets == IF value /\ row.secret THEN moved \cup {Renamed(row, name).ref} ELSE moved
    IN /\ \A place \in Ref \ {old, ref} : place \in moved <=> place \in vault
       /\ \A place \in Ref \ {old, ref} : place \in secrets <=> place \in vault
       /\ (\A place \in {old, ref} : place \in vault <=> row.ref = place)
          => \A place \in {old, ref} : place \in secrets <=> Renamed(row, name).ref = place
       /\ Renamed(row, name).name = name

LEMMA ChangeSays ==
    ASSUME NEW row \in VariableRow, VariableAt(row), NEW name \in VarName, NEW value \in BOOLEAN
    PROVE  Changes(row, name, value)
  <1> DEFINE old == env_var_ref(row.scope, row.name)
             ref == env_var_ref(row.scope, name)
             moved == _rename_row(row, name)
             secrets == IF value /\ row.secret THEN moved \cup {Renamed(row, name).ref} ELSE moved
             new == Renamed(row, name)
  <1>1. old # None /\ ref # None /\ (old = ref <=> row.name = name)
    <2>1. old \in Ref /\ ref \in Ref
      BY RefsIn DEF VariableRow
    <2>2. QED
      BY <2>1, NoneAssumption DEF env_var_ref
  <1>2. row.ref = IF row.secret THEN old ELSE None
    BY DEF VariableAt
  <1>3. moved = IF row.name # name /\ row.secret /\ row.ref \in vault
                THEN (vault \cup {ref}) \ {row.ref} ELSE vault
    BY DEF _rename_row
  <1>4. new.name = name /\ new.ref = IF row.name # name /\ row.secret THEN ref ELSE row.ref
    BY DEF Renamed, VariableRow
  <1> HIDE DEF old, ref, moved, new
  <1>5. \A place \in Ref \ {old, ref} : place \in moved <=> place \in vault
    BY <1>2, <1>3
  <1>6. \A place \in Ref \ {old, ref} : place \in secrets <=> place \in vault
    BY <1>1, <1>2, <1>4, <1>5 DEF new
  <1>7. ASSUME \A place \in {old, ref} : place \in vault <=> row.ref = place
        PROVE  \A place \in {old, ref} : place \in secrets <=> new.ref = place
    <2>1. CASE ~row.secret
      BY <1>1, <1>2, <1>3, <1>4, <1>7, <2>1
    <2>2. CASE row.secret /\ row.name = name
      BY <1>1, <1>2, <1>3, <1>4, <1>7, <2>2 DEF new
    <2>3. CASE row.secret /\ row.name # name
      BY <1>1, <1>2, <1>3, <1>4, <1>7, <2>3 DEF new
    <2>4. QED
      BY <2>1, <2>2, <2>3
  <1>8. QED
    BY <1>4, <1>5, <1>6, <1>7 DEF Changes, old, ref, moved, new

LEMMA ChangeVariableKeepsSecrets ==
    ASSUME Inv, Inv', Keeping, NEW r \in Request, NEW e \in Live(db.variables),
           NEW name \in VarName, NEW value \in BOOLEAN, NEW valid \in BOOLEAN,
           ChangeVariable(r, e, name, value, valid)
    PROVE  Keeping'
  <1> DEFINE row == db.variables[e]
             old == env_var_ref(row.scope, row.name)
             ref == env_var_ref(row.scope, name)
             moved == _rename_row(row, name)
             secrets == IF value /\ row.secret THEN moved \cup {Renamed(row, name).ref} ELSE moved
             new == Renamed(row, name)
             x == <<"variables", e>>
  <1>1. e \in Variable /\ row # None /\ row \in VariableRow /\ VariableAt(row)
    BY VariablesType
  <1>2. /\ Named(db.variables, row.scope, name) \subseteq {e}
        /\ IF valid THEN Store(r, "variables", e, new, {old, ref}, secrets)
           ELSE Refused({old, ref}, moved)
    BY DEF ChangeVariable
  <1>3. /\ \A place \in Ref \ {old, ref} : place \in moved <=> place \in vault
        /\ \A place \in Ref \ {old, ref} : place \in secrets <=> place \in vault
        /\ (\A place \in {old, ref} : place \in vault <=> row.ref = place)
           => \A place \in {old, ref} : place \in secrets <=> new.ref = place
        /\ new.name = name
    <2>1. Changes(row, name, value)
      BY <1>1, ChangeSays
    <2>2. QED
      BY <2>1 DEF Changes
  <1>4. new \in VariableRow /\ VariableAt(new) /\ new.scope = row.scope
    BY <1>1, RenamedSays
  <1>5. /\ x \in Spots /\ At(db, x) = row /\ Owned(db, x, row) /\ Place(x, row) = old
    BY VariableSpot
  <1> HIDE DEF new, secrets, moved
  <1>6. Fit(x, new) /\ Place(x, new) = ref /\ Owned(db, x, new) /\ new # None
    BY <1>3, <1>4, <1>5, NoneAssumption DEF Fit, Place, Owned, InScope
  <1>7. {old, ref} \subseteq Ref /\ \E s \in Scope : {old, ref} \subseteq RefsOf(s)
    <2>1. row.scope \in Scope /\ row.name \in VarName
      BY <1>1 DEF VariableRow
    <2>2. QED
      BY <2>1, RefsIn DEF RefsOf
  <1>8. \A place \in {old, ref} \ marks.torn : Alone(db, x, place)
    <2>1. old \notin marks.torn => Alone(db, x, old)
      BY <1>1, <1>5, LoneSays
    <2>2. Alone(db, x, ref)
      BY <1>2, PlaceSays, SpotSays DEF Alone
    <2>3. QED
      BY <2>1, <2>2
  <1>9. CASE valid
    <2>1. Store(r, "variables", e, new, {old, ref}, secrets)
      BY <1>2, <1>9
    <2> HIDE DEF old, ref, row
    <2>2. (\A place \in {old, ref} : place \in vault <=> At(db, x) # None /\ At(db, x).ref = place)
          => \A place \in {old, ref} : place \in secrets <=> new # None /\ new.ref = place
      BY <1>1, <1>3, <1>5, <1>6
    <2>3. Prepared(x, new, {old, ref}, secrets)
      BY <1>1, <1>3, <1>5, <1>6, <1>7, <1>8, <2>2 DEF Prepared
    <2>4. QED
      BY <2>1, <2>3, StoreKeepsSecrets
  <1>10. CASE ~valid
    BY <1>2, <1>3, <1>10, RefusedKeepsSecrets
  <1>11. QED
    BY <1>9, <1>10

LEMMA VaultRequestKeepsSecrets ==
    ASSUME Inv, Inv', Keeping, VaultRequest
    PROVE  Keeping'
  <1>1. ASSUME NEW r \in Request, create_integration(r) \/ admin_create_integration(r)
        PROVE  Keeping'
    BY <1>1, SaveKeepsSecrets DEF create_integration, admin_create_integration
  <1>2. ASSUME NEW r \in Request, update_integration(r) \/ admin_update_integration(r)
        PROVE  Keeping'
    BY <1>2, RotateKeepsSecrets DEF update_integration, admin_update_integration
  <1>3. ASSUME NEW r \in Request, delete_integration(r) \/ admin_delete_integration(r)
        PROVE  Keeping'
    BY <1>3, WipeKeepsSecrets DEF delete_integration, admin_delete_integration
  <1>4. ASSUME NEW r \in Request,
               create_environment_variable(r) \/ create_platform_environment_variable(r)
        PROVE  Keeping'
    BY <1>4, NewVariableKeepsSecrets
       DEF create_environment_variable, create_platform_environment_variable
  <1>5. ASSUME NEW r \in Request,
               update_environment_variable(r) \/ update_platform_environment_variable(r)
        PROVE  Keeping'
    BY <1>5, ChangeVariableKeepsSecrets
       DEF update_environment_variable, update_platform_environment_variable
  <1>6. ASSUME NEW r \in Request,
               delete_environment_variable(r) \/ delete_platform_environment_variable(r)
        PROVE  Keeping'
    BY <1>6, DropVariableKeepsSecrets
       DEF delete_environment_variable, delete_platform_environment_variable
  <1>7. ASSUME test_integration \/ admin_test_integration PROVE Keeping'
    BY <1>7, VerifyKeepsSecrets DEF test_integration, admin_test_integration
  <1>8. QED
    BY <1>1, <1>2, <1>3, <1>4, <1>5, <1>6, <1>7 DEF VaultRequest

-----------------------------------------------------------------------------
\* The tables with the row of request r written, and its commit.
Written(r) ==
    LET job == req[r]
        set == [db EXCEPT ![job.table][job.id] = job.row]
    IN IF job.row # None \/ job.table # "integrations" THEN set
       ELSE [set EXCEPT !.runs = SetNull(@, job.id)]

LEMMA WrittenSays ==
    ASSUME Inv, NEW r \in Request, Storing(req[r])
    PROVE  LET d == Written(r)
               j == req[r]
           IN /\ DOMAIN d = Fields /\ d.users = db.users /\ d.roster = db.roster
              /\ d.projects = db.projects /\ d.categories = db.categories
              /\ d.skills = db.skills /\ d.workflows = db.workflows /\ d.policies = db.policies
              /\ d.runs = IF j.row # None \/ j.table # "integrations" THEN db.runs
                          ELSE SetNull(db.runs, j.id)
              /\ DOMAIN d.integrations = Integration /\ DOMAIN d.variables = Variable
              /\ \A x \in Spots : At(d, x) = IF x = Spot(j) THEN j.row ELSE At(db, x)
  <1> DEFINE j == req[r]
             set == [db EXCEPT ![j.table][j.id] = j.row]
  <1>1. /\ DOMAIN db = Fields /\ DOMAIN db.integrations = Integration
        /\ DOMAIN db.variables = Variable
    BY DEF Inv, Sane, Typed, Fields
  <1>2. j.table \in {"integrations", "variables"} /\ Spot(j) \in Spots
    BY StoreJobSays, SpotSays DEF Spot
  <1>3. CASE j.table = "integrations"
    <2> DEFINE t == [db.integrations EXCEPT ![j.id] = j.row]
    <2>1. set = [db EXCEPT !.integrations = t]
      BY <1>3
    <2>2. \A x \in Spots : x[1] = "variables" \/
             t[x[2]] = IF x = Spot(j) THEN j.row ELSE db.integrations[x[2]]
      BY <1>1, <1>2, <1>3, SpotSays DEF Spot
    <2>3. \A x \in Spots : x[1] = "variables" => x # Spot(j)
      BY <1>3 DEF Spot
    <2>4. DOMAIN t = Integration
      BY <1>1
    <2> HIDE DEF set, t
    <2>5. /\ DOMAIN set = Fields /\ set.users = db.users /\ set.roster = db.roster
          /\ set.projects = db.projects /\ set.categories = db.categories
          /\ set.skills = db.skills /\ set.workflows = db.workflows
          /\ set.policies = db.policies /\ set.runs = db.runs
          /\ set.integrations = t /\ set.variables = db.variables
      BY <1>1, <2>1 DEF Fields
    <2>6. \A x \in Spots : At(set, x) = IF x = Spot(j) THEN j.row ELSE At(db, x)
      BY <2>2, <2>3, <2>5, SpotSays DEF At
    <2>7. CASE j.row # None
      <3>1. Written(r) = set
        BY <2>7 DEF Written, set
      <3>2. QED
        BY <1>1, <2>4, <2>5, <2>6, <2>7, <3>1
    <2>8. CASE j.row = None
      <3> DEFINE d == [set EXCEPT !.runs = SetNull(db.runs, j.id)]
      <3>1. Written(r) = d
        BY <1>3, <2>5, <2>8 DEF Written, set
      <3>2. /\ DOMAIN d = Fields /\ d.users = db.users /\ d.roster = db.roster
            /\ d.projects = db.projects /\ d.categories = db.categories
            /\ d.skills = db.skills /\ d.workflows = db.workflows
            /\ d.policies = db.policies /\ d.runs = SetNull(db.runs, j.id)
            /\ d.integrations = set.integrations /\ d.variables = set.variables
        BY <2>5 DEF Fields
      <3> HIDE DEF d
      <3>3. \A x \in Spots : At(d, x) = At(set, x)
        BY <3>2, SpotSays DEF At
      <3>4. QED
        BY <1>1, <1>3, <2>4, <2>5, <2>6, <2>8, <3>1, <3>2, <3>3
    <2>9. QED
      BY <2>7, <2>8
  <1>4. CASE j.table = "variables"
    <2> DEFINE t == [db.variables EXCEPT ![j.id] = j.row]
    <2>1. set = [db EXCEPT !.variables = t]
      BY <1>4
    <2>2. \A x \in Spots : x[1] = "integrations" \/
             t[x[2]] = IF x = Spot(j) THEN j.row ELSE db.variables[x[2]]
      BY <1>1, <1>2, <1>4, SpotSays DEF Spot
    <2>3. \A x \in Spots : x[1] = "integrations" => x # Spot(j)
      BY <1>4 DEF Spot
    <2>4. DOMAIN t = Variable
      BY <1>1
    <2> HIDE DEF set, t
    <2>5. /\ DOMAIN set = Fields /\ set.users = db.users /\ set.roster = db.roster
          /\ set.projects = db.projects /\ set.categories = db.categories
          /\ set.skills = db.skills /\ set.workflows = db.workflows
          /\ set.policies = db.policies /\ set.runs = db.runs
          /\ set.integrations = db.integrations /\ set.variables = t
      BY <1>1, <2>1 DEF Fields
    <2>6. \A x \in Spots : At(set, x) = IF x = Spot(j) THEN j.row ELSE At(db, x)
      BY <2>2, <2>3, <2>5, SpotSays DEF At
    <2>7. Written(r) = set
      BY <1>4 DEF Written, set
    <2>8. QED
      BY <1>1, <1>4, <2>4, <2>5, <2>6, <2>7
  <1>5. QED
    BY <1>2, <1>3, <1>4

\* No run goes on naming an integration that is deleted.
LEMMA LoseUses ==
    ASSUME Inv, NEW i, NEW n \in Run
    PROVE  /\ db.runs[n] = None => SetNull(db.runs, i)[n] = None
           /\ db.runs[n] # None => \A kind \in Kind :
                 SetNull(db.runs, i)[n].uses[kind] # None =>
                    /\ SetNull(db.runs, i)[n].uses[kind] = db.runs[n].uses[kind]
                    /\ db.runs[n].uses[kind] # i
  <1>1. db.runs \in [Run -> Maybe(RunRow)]
    BY DEF Inv, Sane, Typed
  <1>2. CASE db.runs[n] = None
    BY <1>1, <1>2 DEF SetNull
  <1>3. CASE db.runs[n] # None
    <2> DEFINE row == db.runs[n]
               lose == [kind \in Kind |-> IF row.uses[kind] = i THEN None ELSE row.uses[kind]]
    <2>1. row \in RunRow
      BY <1>1, <1>3 DEF Maybe
    <2>2. SetNull(db.runs, i)[n] = Lose(row, i)
      BY <1>1, <1>3 DEF SetNull
    <2>3. Lose(row, i) = [row EXCEPT !.uses = lose]
      BY DEF Lose
    <2>4. \A kind \in Kind : lose[kind] # None => lose[kind] = row.uses[kind] /\ row.uses[kind] # i
      OBVIOUS
    <2> HIDE DEF lose
    <2>5. Lose(row, i).uses = lose
      BY <2>1, <2>3 DEF RunRow
    <2>6. QED
      BY <1>3, <2>2, <2>4, <2>5
  <1>4. QED
    BY <1>2, <1>3

\* The database has nothing against the row of a request that is alone.
LEMMA SoleIsSound ==
    ASSUME Inv, Keeping, NEW r \in Request, Storing(req[r]), Sole(r)
    PROVE  Sound(Written(r))
  <1> DEFINE d == Written(r)
             j == req[r]
             z == Spot(j)
  <1>1. /\ d.users = db.users /\ d.roster = db.roster /\ d.projects = db.projects
        /\ d.categories = db.categories /\ d.skills = db.skills /\ d.workflows = db.workflows
        /\ d.policies = db.policies
        /\ d.runs = IF j.row # None \/ j.table # "integrations" THEN db.runs
                    ELSE SetNull(db.runs, j.id)
        /\ DOMAIN d.integrations = Integration /\ DOMAIN d.variables = Variable
    BY WrittenSays
  <1>2. \A x \in Spots : At(d, x) = IF x = z THEN j.row ELSE At(db, x)
    BY WrittenSays
  <1> HIDE DEF d
  <1>3. Sound(db) /\ DOMAIN db.integrations = Integration /\ DOMAIN db.variables = Variable
    BY DEF Inv, Sane, Typed
  <1>4. RosterSound(d) /\ SkillsSound(d) /\ WorkflowsSound(d) /\ PoliciesSound(d)
    BY <1>1, <1>3 DEF Sound, RosterSound, SkillsSound, WorkflowsSound, PoliciesSound, InScope
  <1>5. z \in Spots /\ (j.row # None => Place(z, j.row) \in j.refs /\ Owned(db, z, j.row))
    BY StoreJobSays DEF Keeping, Settlers, Settling, Sole
  <1>6. \A x \in Spots : At(d, x) # None => Owned(d, x, At(d, x))
    <2>1. \A x \in Spots : At(db, x) # None => Owned(db, x, At(db, x))
      BY RowFits
    <2>2. QED
      BY <1>1, <1>2, <1>5, <2>1, OwnedStays
  \* A place that two rows share is one that two rows of db share.
  <1>7. \A x, y \in Spots : /\ At(d, x) # None /\ At(d, y) # None
                            /\ Place(x, At(d, x)) = Place(y, At(d, y)) /\ x # y
                            => x # z /\ y # z
    BY <1>2, <1>5 DEF Sole, Alone
  <1>8. IntegrationsSound(d)
    <2>1. \A i \in Live(d.integrations) :
             /\ <<"integrations", i>> \in Spots /\ At(d, <<"integrations", i>>) = d.integrations[i]
             /\ d.integrations[i] # None
      BY <1>1 DEF Live, Spots, At
    <2>2. \A i \in Live(d.integrations) : d.integrations[i].project \in d.projects
      BY <1>6, <2>1 DEF Owned
    <2>3. ASSUME NEW i \in Live(d.integrations), NEW k \in Live(d.integrations), i # k,
                 d.integrations[i].project = d.integrations[k].project,
                 d.integrations[i].kind = d.integrations[k].kind,
                 d.integrations[i].label = d.integrations[k].label
          PROVE  FALSE
      <3> DEFINE x == <<"integrations", i>>
                 y == <<"integrations", k>>
      <3>1. x \in Spots /\ y \in Spots /\ x # y /\ At(d, x) = d.integrations[i]
            /\ At(d, y) = d.integrations[k] /\ At(d, x) # None /\ At(d, y) # None
        BY <2>1, <2>3
      <3>2. Place(x, At(d, x)) = Place(y, At(d, y))
        BY <2>3, <3>1 DEF Place
      <3>3. x # z /\ y # z
        BY <1>7, <3>1, <3>2
      <3>4. d.integrations[i] = db.integrations[i] /\ d.integrations[k] = db.integrations[k]
        BY <1>2, <3>1, <3>3 DEF At
      <3>5. i \in Live(db.integrations) /\ k \in Live(db.integrations)
        BY <1>1, <1>3, <3>1, <3>4 DEF Live
      <3>6. QED
        BY <1>3, <2>3, <3>4, <3>5 DEF Sound, IntegrationsSound
    <2>4. QED
      BY <2>2, <2>3 DEF IntegrationsSound
  <1>9. VariablesSound(d)
    <2>1. \A e \in Live(d.variables) :
             /\ <<"variables", e>> \in Spots /\ At(d, <<"variables", e>>) = d.variables[e]
             /\ d.variables[e] # None
      BY <1>1 DEF Live, Spots, At
    <2>2. \A e \in Live(d.variables) : InScope(d, d.variables[e])
      BY <1>6, <2>1 DEF Owned
    <2>3. ASSUME NEW e \in Live(d.variables), NEW f \in Live(d.variables), e # f,
                 d.variables[e].scope = d.variables[f].scope, d.variables[e].scope # Platform,
                 d.variables[e].name = d.variables[f].name
          PROVE  FALSE
      <3> DEFINE x == <<"variables", e>>
                 y == <<"variables", f>>
      <3>1. x \in Spots /\ y \in Spots /\ x # y /\ At(d, x) = d.variables[e]
            /\ At(d, y) = d.variables[f] /\ At(d, x) # None /\ At(d, y) # None
        BY <2>1, <2>3
      <3>2. Place(x, At(d, x)) = Place(y, At(d, y))
        BY <2>3, <3>1 DEF Place
      <3>3. x # z /\ y # z
        BY <1>7, <3>1, <3>2
      <3>4. d.variables[e] = db.variables[e] /\ d.variables[f] = db.variables[f]
        BY <1>2, <3>1, <3>3 DEF At
      <3>5. e \in Live(db.variables) /\ f \in Live(db.variables)
        BY <1>1, <1>3, <3>1, <3>4 DEF Live
      <3>6. QED
        BY <1>3, <2>3, <3>4, <3>5 DEF Sound, VariablesSound
    <2>4. QED
      BY <2>2, <2>3 DEF VariablesSound
  <1>10. RunsSound(d)
    <2>1. db.runs \in [Run -> Maybe(RunRow)]
      BY DEF Inv, Sane, Typed
    <2>2. \A n \in Live(db.runs), kind \in Kind :
             db.runs[n].uses[kind] # None => db.integrations[db.runs[n].uses[kind]] # None
                                             /\ db.runs[n].uses[kind] \in Integration
      <3>1. \A n \in Live(db.runs) : db.runs[n] \in RunRow
        BY <2>1 DEF Live, Maybe
      <3>2. \A n \in Live(db.runs), kind \in Kind :
               db.runs[n].uses[kind] # None => db.runs[n].uses[kind] \in Integration
        BY <3>1 DEF RunRow, Maybe
      <3>3. QED
        BY <1>3, <3>2 DEF Sound, RunsSound
    <2>3. \A i \in Integration : db.integrations[i] # None =>
             d.integrations[i] # None \/ (j.row = None /\ j.table = "integrations" /\ i = j.id)
      <3>1. \A i \in Integration :
               /\ <<"integrations", i>> \in Spots
               /\ At(d, <<"integrations", i>>) = d.integrations[i]
               /\ At(db, <<"integrations", i>>) = db.integrations[i]
        BY DEF Spots, At
      <3>2. \A i \in Integration : <<"integrations", i>> = z => j.table = "integrations" /\ i = j.id
        BY DEF Spot
      <3>3. QED
        BY <1>2, <3>1, <3>2
    <2>4. \A n \in Live(d.runs) :
             /\ n \in Live(db.runs) /\ d.runs[n].project = db.runs[n].project
             /\ d.runs[n].workflow = db.runs[n].workflow /\ d.runs[n].policy = db.runs[n].policy
             /\ \A kind \in Kind : d.runs[n].uses[kind] # None =>
                   /\ d.runs[n].uses[kind] = db.runs[n].uses[kind]
                   /\ ~(j.row = None /\ j.table = "integrations" /\ db.runs[n].uses[kind] = j.id)
      <3>1. CASE j.row # None \/ j.table # "integrations"
        BY <1>1, <3>1
      <3>2. CASE j.row = None /\ j.table = "integrations"
        <4>1. d.runs = SetNull(db.runs, j.id)
          BY <1>1, <3>2
        <4>2. d.runs \in [Run -> Maybe(RunRow)] /\ \A n \in Run : d.runs[n] # None =>
                 db.runs[n] # None /\ SameRun(db.runs[n], d.runs[n])
          BY <4>1, LoseSays
        <4>3. \A n \in Live(d.runs) : n \in Run /\ n \in Live(db.runs)
                 /\ SameRun(db.runs[n], d.runs[n])
          BY <2>1, <4>2 DEF Live
        <4>4. ASSUME NEW n \in Live(d.runs), NEW kind \in Kind, d.runs[n].uses[kind] # None
              PROVE  d.runs[n].uses[kind] = db.runs[n].uses[kind] /\ db.runs[n].uses[kind] # j.id
          <5>1. n \in Run /\ db.runs[n] # None
            BY <4>3 DEF Live
          <5>2. QED
            BY <4>1, <4>4, <5>1, LoseUses
        <4>5. QED
          BY <4>3, <4>4 DEF SameRun
      <3>3. QED
        BY <3>1, <3>2
    <2>5. \A n \in Live(d.runs), kind \in Kind :
             d.runs[n].uses[kind] # None => d.integrations[d.runs[n].uses[kind]] # None
      BY <2>2, <2>3, <2>4
    <2>6. \A n \in Live(db.runs) :
             /\ db.runs[n].project \in db.projects /\ db.workflows[db.runs[n].workflow] # None
             /\ db.policies[db.runs[n].policy] # None
      BY <1>3 DEF Sound, RunsSound
    <2>7. QED
      BY <1>1, <2>4, <2>5, <2>6 DEF RunsSound
  <1>11. QED
    BY <1>4, <1>8, <1>9, <1>10 DEF Sound, d

-----------------------------------------------------------------------------
\* The row follows.
LEMMA RowWrittenKeepsSecrets ==
    ASSUME Inv, Inv', Keeping, NEW r \in Request, Storing(req[r]), ~Storing(req'[r]),
           \A s \in Request \ {r} : req'[s] = req[s],
           db' = Written(r), UNCHANGED <<vault, marks>>
    PROVE  Keeping'
  <1> DEFINE j == req[r]
             z == Spot(j)
  <1>1. /\ z \in Spots /\ db'.projects = db.projects
        /\ \A x \in Spots : At(db', x) = IF x = z THEN j.row ELSE At(db, x)
    BY WrittenSays, StoreJobSays
  <1>2. j.row # None => Place(z, j.row) \in j.refs /\ j.row.ref \in {None, Place(z, j.row)}
    BY StoreJobSays, FitSays DEF Keeping, Settlers, Settling
  <1>3. Sole(r) \/ Lapsed(j)
    BY DEF Keeping, Settlers, Settling
  <1>4. /\ ~Sole(r) => j.refs \subseteq marks.torn
        /\ At(db, z) # None => Place(z, At(db, z)) \in j.refs \cup marks.torn
    BY <1>3 DEF Sole, Lapsed
  <1>5. \A x \in Spots : At(db, x) # None => At(db, x).ref \in {None, Place(x, At(db, x))}
    BY RowFits, FitSays
  <1>6. ASSUME NEW s \in Request, Storing(req'[s])
        PROVE  Settling(s)'
    <2> DEFINE x == Spot(req[s])
    <2>1. s # r /\ req'[s] = req[s] /\ Storing(req[s]) /\ x \in Spots
      BY <1>6, StoreJobSays
    <2>2. Settling(s)
      BY <2>1 DEF Keeping, Settlers
    <2>3. CASE Lapsed(req[s])
      <3>1. At(db', x) # None => Place(x, At(db', x)) \in marks.torn
        <4>1. CASE x = z
          <5>1. j.refs \subseteq marks.torn
            BY <1>4, <2>1, <4>1 DEF Sole
          <5>2. QED
            BY <1>1, <1>2, <4>1, <5>1
        <4>2. CASE x # z
          BY <1>1, <2>1, <2>3, <4>2 DEF Lapsed
        <4>3. QED
          BY <4>1, <4>2
      <3>2. Lapsed(req[s])'
        BY <2>1, <2>3, <3>1 DEF Lapsed
      <3>3. QED
        BY <2>1, <2>2, <3>2 DEF Settling
    <2>4. CASE Sole(s)
      <3>1. x # z /\ j.refs \cap req[s].refs = {}
        BY <2>1, <2>4 DEF Sole
      <3>2. At(db', x) = At(db, x)
        BY <1>1, <2>1, <3>1
      <3>3. ASSUME NEW ref \in req[s].refs PROVE Alone(db', x, ref)
        <4>1. Alone(db, x, ref)
          BY <2>4 DEF Sole
        <4>2. ASSUME NEW y \in Spots, At(db', y) # None, Place(y, At(db', y)) = ref
              PROVE  y = x
          <5>1. y # z
            BY <1>1, <1>2, <3>1, <4>2
          <5>2. At(db, y) = At(db', y)
            BY <1>1, <5>1
          <5>3. QED
            BY <4>1, <4>2, <5>2 DEF Alone
        <4>3. QED
          BY <4>2 DEF Alone
      <3>4. \A t \in Request \ {s} : Storing(req'[t]) =>
               req'[t].refs \cap req[s].refs = {} /\ Spot(req'[t]) # x
        BY <2>4 DEF Sole
      <3>5. req[s].row # None => Owned(db', x, req[s].row)
        BY <1>1, <2>4, OwnedStays DEF Sole
      <3>6. Sole(s)'
        BY <2>1, <2>4, <3>2, <3>3, <3>4, <3>5 DEF Sole
      <3>7. QED
        BY <2>1, <2>2, <3>6 DEF Settling
    <2>5. QED
      BY <2>2, <2>3, <2>4 DEF Settling
  <1>7. Lone'
    <2>1. ASSUME NEW x \in Spots, At(db, x) # None, x # z, j.row # None,
                 Place(x, At(db, x)) = Place(z, j.row)
          PROVE  Place(z, j.row) \in marks.torn
      BY <1>2, <1>4, <2>1 DEF Sole, Alone
    <2>2. ASSUME NEW x \in Spots, NEW y \in Spots, At(db', x) # None, At(db', y) # None,
                 Place(x, At(db', x)) = Place(y, At(db', y)),
                 Place(x, At(db', x)) \notin marks.torn
          PROVE  x = y
      <3>1. CASE x # z /\ y # z
        BY <1>1, <2>2, <3>1 DEF Keeping, Lone
      <3>2. CASE x = z /\ y # z
        BY <1>1, <2>1, <2>2, <3>2
      <3>3. CASE x # z /\ y = z
        BY <1>1, <2>1, <2>2, <3>3
      <3>4. QED
        BY <3>1, <3>2, <3>3
    <2>3. QED
      BY <2>2 DEF Lone
  <1>8. ASSUME NEW ref \in Ref \ (marks'.torn \cup Working')
        PROVE  ref \in vault' <=> ref \in Referring(db')
    <2>1. ref \notin marks.torn /\ ref # None
      BY <1>8, NoneAssumption
    <2>2. ref \in Referring(db') <=> \E x \in Spots : At(db', x) # None /\ At(db', x).ref = ref
      BY ReferringSays DEF Inv, Sane
    <2>3. CASE ref \in j.refs
      <3>1. Sole(r)
        BY <1>4, <2>1, <2>3
      <3>2. ref \in vault <=> j.row # None /\ j.row.ref = ref
        BY <2>1, <2>3, <3>1 DEF Sole
      <3>3. ASSUME NEW x \in Spots, At(db', x) # None, At(db', x).ref = ref
            PROVE  x = z
        <4>1. SUFFICES ASSUME x # z PROVE FALSE
          OBVIOUS
        <4>2. At(db, x) # None /\ Place(x, At(db, x)) = ref
          BY <1>1, <1>5, <2>1, <3>3, <4>1
        <4>3. QED
          BY <2>3, <3>1, <4>1, <4>2 DEF Sole, Alone
      <3>4. QED
        BY <1>1, <2>2, <3>2, <3>3
    <2>4. CASE ref \notin j.refs
      <3>1. ref \notin Working
        BY <1>8, <2>4, WorkingSays
      <3>2. ref \in vault <=> \E x \in Spots : At(db, x) # None /\ At(db, x).ref = ref
        BY <1>8, <3>1, ReferringSays DEF Keeping, Matched, Inv, Sane
      <3>3. ~(At(db, z) # None /\ At(db, z).ref = ref)
        BY <1>1, <1>4, <1>5, <2>1, <2>4
      <3>4. ~(At(db', z) # None /\ At(db', z).ref = ref)
        BY <1>1, <1>2, <2>1, <2>4
      <3>5. QED
        BY <1>1, <2>2, <3>2, <3>3, <3>4
    <2>5. QED
      BY <2>3, <2>4
  <1>9. QED
    BY <1>6, <1>7, <1>8 DEF Keeping, Settlers, Matched

LEMMA CommitStoreKeepsSecrets ==
    ASSUME Inv, Inv', Keeping, NEW r \in Request, CommitStore(r)
    PROVE  Keeping'
  <1> DEFINE j == req[r]
             d == Written(r)
             gone == ~j.new /\ At(db, Spot(j)) = None
  <1>1. /\ Storing(j) /\ Finish(r, IF gone THEN db ELSE d) /\ UNCHANGED <<vault, marks>>
    BY DEF CommitStore, Doing, Storing, Written, At, Spot
  <1> HIDE DEF gone, d
  <1>2. /\ db' = IF gone \/ ~Sound(d) THEN db ELSE d
        /\ req' = [req EXCEPT ![r] = Idle] /\ DOMAIN req = Request
    BY <1>1, AsideSays DEF Finish, Close, Inv, Sane
  <1>3. ~Storing(req'[r]) /\ \A s \in Request \ {r} : req'[s] = req[s]
    BY <1>2 DEF Storing
  <1>4. CASE db' = d
    BY <1>1, <1>3, <1>4, RowWrittenKeepsSecrets DEF d
  <1>5. CASE Sole(r)
    <2>1. ~gone /\ Sound(d)
      BY <1>1, <1>5, SoleIsSound DEF Sole, gone, d
    <2>2. QED
      BY <1>2, <1>4, <2>1
  <1>6. CASE Lapsed(j) /\ db' = db
    <2>1. Undisturbed
      BY <1>1, <1>3, <1>6 DEF Undisturbed, SameRow, Lapsed
    <2>2. QED
      BY <2>1, UndisturbedKeeps
  <1>7. QED
    BY <1>1, <1>2, <1>4, <1>5, <1>6 DEF Keeping, Settlers, Settling

LEMMA NextKeepsSecrets ==
    ASSUME Inv, Inv', Keeping, [Next]_vars
    PROVE  Keeping'
  <1>1. CASE AccountsNext
    BY <1>1, DeleteProjectKeepsSecrets, AccountsKeyless, SecretsStandKeep DEF NoSecrets
  <1>2. CASE CatalogueNext
    BY <1>2, CatalogueStands, SecretsStandKeep DEF Elsewhere, AccountsStand
  <1>3. CASE VaultNext
    BY <1>3, VaultRequestKeepsSecrets, CommitStoreKeepsSecrets DEF VaultNext
  <1>4. CASE create_run \/ FailInit \/ \E r \in Request : LoadRun(r) \/ init_run(r)
    BY <1>4, EngineStands, SecretsStandKeep DEF Elsewhere, AccountsStand
  <1>5. CASE \E r \in Request : Abort(r)
    BY <1>5, AbortKeepsSecrets
  <1>6. CASE UNCHANGED vars
    <2>1. SecretsStand /\ db' = db
      BY <1>6 DEF vars, SecretsStand
    <2>2. QED
      BY <2>1, SecretsStandKeep
  <1>7. QED
    BY <1>1, <1>2, <1>3, <1>4, <1>5, <1>6 DEF Next

LEMMA InitKeepsSecrets == Init => Keeping
  <1> SUFFICES ASSUME Init PROVE Keeping
    OBVIOUS
  <1>1. PICK s \in Start : db = s.db /\ vault = s.vault
    BY DEF Init
  <1>2. Settled(s)
    BY StartAssumption
  <1>3. Settlers
    BY DEF Init, Settlers, Storing
  <1>4. Inv
    BY InitHolds
  <1>5. ASSUME NEW x \in Spots, NEW y \in Spots, At(db, x) # None, At(db, y) # None,
               Place(x, At(db, x)) = Place(y, At(db, y))
        PROVE  x = y
    <2>1. CASE x[1] = "integrations"
      <3>1. Place(y, At(db, y)) = IntegrationRef(At(db, x).project, At(db, x).kind)
        BY <1>5, <2>1 DEF Place
      <3>2. y[1] = "integrations" /\ y[2] \in OfKind(At(db, x).project, At(db, x).kind)
        BY <1>4, <1>5, <3>1, PlaceSays
      <3>3. x[2] \in OfKind(At(db, x).project, At(db, x).kind)
        BY <1>4, <1>5, <2>1, PlaceSays DEF Place
      <3>4. x[2] = y[2]
        BY <1>1, <1>2, <3>2, <3>3, SMTT(30) DEF Settled, OfKind
      <3>5. QED
        BY <2>1, <3>2, <3>4, SpotSays
    <2>2. CASE x[1] = "variables"
      <3>1. Place(y, At(db, y)) = env_var_ref(At(db, x).scope, At(db, x).name)
        BY <1>5, <2>2 DEF Place
      <3>2. y[1] = "variables" /\ y[2] \in Named(db.variables, At(db, x).scope, At(db, x).name)
        BY <1>4, <1>5, <3>1, PlaceSays
      <3>3. x[2] \in Named(db.variables, At(db, x).scope, At(db, x).name)
        BY <1>4, <1>5, <2>2, PlaceSays DEF Place
      <3>4. x[2] = y[2]
        BY <1>1, <1>2, <3>2, <3>3, SMTT(30) DEF Settled, Named
      <3>5. QED
        BY <2>2, <3>2, <3>4, SpotSays
    <2>3. QED
      BY <2>1, <2>2, SpotSays
  <1>6. Lone
    BY <1>5 DEF Lone
  <1>7. Matched
    BY <1>1, <1>2, NoneAssumption DEF Settled, Matched
  <1>8. QED
    BY <1>3, <1>6, <1>7 DEF Keeping

\* A secret is in the secure storage exactly while a row refers to it, but for the
\* places that overlapping, refused or broken-off requests have torn and those a
\* request is at work on: whatever is created, rotated, renamed, deleted or tested.
THEOREM SecretsMatchRows == Spec => []VaultMatchesRows
  <1>1. Init => Inv /\ Keeping
    BY InitHolds, InitKeepsSecrets
  <1>2. (Inv /\ Keeping) /\ [Next]_vars => (Inv /\ Keeping)'
    <2> SUFFICES ASSUME Inv, Keeping, [Next]_vars PROVE (Inv /\ Keeping)'
      OBVIOUS
    <2>1. Inv'
      BY NextKeeps DEF Kept
    <2>2. QED
      BY <2>1, NextKeepsSecrets
  <1>3. Inv /\ Keeping => VaultMatchesRows
    <2> SUFFICES ASSUME Inv, Keeping PROVE VaultMatchesRows
      OBVIOUS
    <2>1. vault \subseteq Ref
      BY DEF Inv, Stores
    <2>2. ASSUME NEW ref \in Referring(db), ref # None PROVE ref \in Ref
      <3>1. PICK x \in Spots : At(db, x) # None /\ At(db, x).ref = ref
        BY ReferringSays DEF Inv, Sane
      <3>2. QED
        BY <2>2, <3>1, RowFits, FitSays
    <2>3. QED
      BY <2>1, <2>2 DEF VaultMatchesRows, Keeping, Matched
  <1>4. QED
    BY <1>1, <1>2, <1>3, PTL DEF Spec
=============================================================================
