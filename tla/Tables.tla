------------------------------- MODULE Tables -------------------------------
(***************************************************************************)
(* The stores the platform API and the engine's run initialisation share:  *)
(* the PostgreSQL tables (bheembhai/models), the object store that holds   *)
(* the skill bundles, and the secure storage that holds the credentials.   *)
(*                                                                         *)
(* `db' is the committed database.  A handler reads it, computes the rows  *)
(* it wants, and commits them in one step; a commit that breaks one of the *)
(* database's own constraints is rolled back.  A handler whose decision    *)
(* can be overtaken by another request before its commit is modelled in    *)
(* several steps: `req' holds, for every request in flight, what it has    *)
(* read and decided.  A handler whose late commit could only be rolled     *)
(* back by a constraint is one step: both orders end with the same rows.   *)
(*                                                                         *)
(* `marks' is history: the rows and references whose two-store writes were *)
(* overtaken or broken off.  No action reads it.                           *)
(***************************************************************************)
EXTENDS Naturals, FiniteSets, Functions

CONSTANTS
    User, Project, Category,
    SkillName, WorkflowName, VarName,        \* names requests may use
    Skill, Workflow, Policy, Integration, Variable, Run,   \* row identifiers
    Request,        \* slots for requests (and run initialisations) in flight
    Kind,           \* integration types a run names
    None, Idle      \* no row, no value; no request

VARIABLES
    db,             \* the committed tables
    objects,        \* object key -> bundle
    vault,          \* the references under which a secret is stored
    req,            \* request slot -> what the request in flight holds, or Idle
    marks,          \* history, see above
    left,           \* requests that may still start, by area (a bound)
    faults          \* requests that may still be broken off (a bound)

vars == <<db, objects, vault, req, marks, left, faults>>

Platform == "platform"
Scope == {Platform} \cup Project
Area == {"accounts", "skills", "workflows", "vault", "engine"}
Manager == "project_manager"
Role == {Manager, "developer"}

(* Tables map identifiers to rows.  A row a request still holds keeps its  *)
(* identifier even when it is deleted: identifiers are never used twice.    *)
Live(t) == {i \in DOMAIN t : t[i] # None}
Held == UNION {req[r].rows : r \in {s \in Request : req[s] # Idle}}
Free(t) == (DOMAIN t \ Live(t)) \ Held
Room(t, n) == Cardinality(Free(t)) >= n
NewId(t) == CHOOSE i \in Free(t) : TRUE
Add(t, row) == [t EXCEPT ![NewId(t)] = row]
Named(t, scope, name) == {i \in Live(t) : t[i].scope = scope /\ t[i].name = name}

(* One new row for every member of S, when the table has room for them. *)
AddAll(t, S, row(_)) ==
    LET at == CHOOSE f \in Injection(S, Free(t)) : TRUE
    IN [i \in DOMAIN t |-> IF \E s \in S : at[s] = i
                           THEN row(CHOOSE s \in S : at[s] = i) ELSE t[i]]

-----------------------------------------------------------------------------
(* What the database itself refuses. *)

RosterSound(d) ==
    \A m \in Live(d.roster) : d.users[m[1]] # None /\ m[2] \in d.projects

InScope(d, row) == row.scope \in {Platform} \cup d.projects

SkillsSound(d) ==
    /\ \A k \in Live(d.skills) : InScope(d, d.skills[k])
    /\ \A k, l \in Live(d.skills) :
          d.skills[k].scope = d.skills[l].scope /\ d.skills[k].name = d.skills[l].name => k = l

WorkflowsSound(d) ==
    /\ \A w \in Live(d.workflows) :
          InScope(d, d.workflows[w]) /\ d.workflows[w].category \in d.categories \cup {None}
    /\ \A w, x \in Live(d.workflows) :
          /\ d.workflows[w].scope = d.workflows[x].scope
          /\ d.workflows[w].name = d.workflows[x].name
          => w = x

PoliciesSound(d) ==
    \A q \in Live(d.policies) :
        InScope(d, d.policies[q]) /\ d.workflows[d.policies[q].workflow] # None

IntegrationsSound(d) ==
    /\ \A i \in Live(d.integrations) : d.integrations[i].project \in d.projects
    /\ \A i, j \in Live(d.integrations) :
          /\ d.integrations[i].project = d.integrations[j].project
          /\ d.integrations[i].kind = d.integrations[j].kind
          /\ d.integrations[i].label = d.integrations[j].label
          => i = j

(* The unique constraint names project_id, which is NULL in platform rows:  *)
(* it binds the rows of a project only.                                     *)
VariablesSound(d) ==
    /\ \A e \in Live(d.variables) : InScope(d, d.variables[e])
    /\ \A e, f \in Live(d.variables) :
          /\ d.variables[e].scope = d.variables[f].scope
          /\ d.variables[e].scope # Platform
          /\ d.variables[e].name = d.variables[f].name
          => e = f

RunsSound(d) ==
    \A n \in Live(d.runs) :
        /\ d.runs[n].project \in d.projects
        /\ d.workflows[d.runs[n].workflow] # None
        /\ d.policies[d.runs[n].policy] # None
        /\ \A t \in Kind : d.runs[n].uses[t] # None =>
                              d.integrations[d.runs[n].uses[t]] # None

Sound(d) ==
    /\ RosterSound(d) /\ SkillsSound(d) /\ WorkflowsSound(d) /\ PoliciesSound(d)
    /\ IntegrationsSound(d) /\ VariablesSound(d) /\ RunsSound(d)

(* ON DELETE CASCADE from a project: every row that names it goes. *)
Cascade(d, p) ==
    LET keep(t, of(_)) == [i \in DOMAIN t |-> IF t[i] # None /\ of(t[i]) = p THEN None ELSE t[i]]
        scope(row) == row.scope
        project(row) == row.project
    IN [d EXCEPT !.projects = @ \ {p},
                 !.roster = [m \in DOMAIN @ |-> IF m[2] = p THEN None ELSE @[m]],
                 !.skills = keep(@, scope), !.workflows = keep(@, scope),
                 !.policies = keep(@, scope), !.variables = keep(@, scope),
                 !.integrations = keep(@, project), !.runs = keep(@, project)]

(* Where the secret of an integration or of a variable is stored. *)
IntegrationRef(p, kind) == <<"integration", p, kind>>
env_var_ref(scope, name) == <<"env", scope, name>>

RefsOf(p) ==
    {IntegrationRef(p, kind) : kind \in Kind} \cup {env_var_ref(p, name) : name \in VarName}

-----------------------------------------------------------------------------
(* Steps of a request. *)

Spend(area) == left[area] > 0 /\ left' = [left EXCEPT ![area] = @ - 1]
Open(r, area, job) == req[r] = Idle /\ Spend(area) /\ req' = [req EXCEPT ![r] = job]
Doing(r, op) == req[r] # Idle /\ req[r].op = op
Close(r) == req' = [req EXCEPT ![r] = Idle]
Others(r) == {req[s] : s \in {s \in Request \ {r} : req[s] # Idle}}

(* A handler that checks and commits in one step. *)
Commit(area, d) == Spend(area) /\ Sound(d) /\ db' = d /\ UNCHANGED <<req, faults>>

(* a bug: the schema was deployed without its constraints. *)
FinishUnconstrained(r, d) == Close(r) /\ db' = d /\ UNCHANGED <<left, faults>>

(* The commit that ends a request: rolled back when a constraint fails. *)
Finish(r, d) ==
    /\ Close(r)
    /\ db' = IF Sound(d) THEN d ELSE db
    /\ UNCHANGED <<left, faults>>

(* The callers.  A platform ADMIN passes every project check. *)
Enabled(u) == db.users[u] # None /\ db.users[u].enabled
IsAdmin(u) == Enabled(u) /\ db.users[u].role = "ADMIN"
IsMember(u, p) == p \in db.projects /\ Enabled(u) /\ (IsAdmin(u) \/ db.roster[<<u, p>>] # None)
IsManager(u, p) == p \in db.projects /\ Enabled(u) /\ (IsAdmin(u) \/ db.roster[<<u, p>>] = Manager)
AnAdmin == \E u \in User : IsAdmin(u)
AManager(p) == \E u \in User : IsManager(u, p)
=============================================================================
