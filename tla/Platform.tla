------------------------------ MODULE Platform ------------------------------
(***************************************************************************)
(* The platform as one system: accounts, the catalogue and the vault,      *)
(* edited by concurrent requests, and the runs that are set up from them:  *)
(* create_run (runs.py) and init_run (run_init.py).                        *)
(*                                                                         *)
(* Which dispatch may initialise a run, and what follows, is the business  *)
(* of Dispatch; here an initialisation is a request like any other, and a  *)
(* run is initialised again whenever it is dispatched again.               *)
(***************************************************************************)
EXTENDS Accounts, Catalogue, Vault

CONSTANTS
    Start,          \* the states a behaviour may start from, with its bounds:
                    \* records [db, objects, vault, left, faults]
    AdHoc,          \* the name of the ad-hoc workflow
    Optional        \* integration types a run may do without

ASSUME PlatformAssumption ==
    /\ AdHoc \in WorkflowName
    /\ Optional \subseteq Kind /\ Vendors \subseteq Kind

-----------------------------------------------------------------------------
(* The tables.  None is neither a row nor a value that a row holds. *)

Maybe(S) == {None} \cup S
Bundle   == [name : SkillName, text : Text]
Stamps   == [key : SkillName \X Bundle, sha : Bundle]
Ref      == UNION {RefsOf(s) : s \in Scope}

UserRow        == [role : {"ADMIN", "USER"}, enabled : BOOLEAN]
SkillRow       == [scope : Scope, name : SkillName, text : Text, stamp : Maybe(Stamps)]
WorkflowRow    == [scope : Scope, name : WorkflowName, uses : SUBSET SkillName,
                   category : Maybe(Category)]
PolicyRow      == [scope : Scope, workflow : Workflow, active : BOOLEAN]
IntegrationRow == [project : Project, kind : Kind, label : Label, verified : BOOLEAN,
                   ref : Maybe(Ref)]
VariableRow    == [scope : Scope, name : VarName, secret : BOOLEAN, ref : Maybe(Ref)]
RunRow         == [project : Project, workflow : Workflow, policy : Policy,
                   uses : [Kind -> Maybe(Integration)],
                   state : {"pending", "running", "failed"},
                   pins : [SkillName -> Maybe(Stamps)]]

Typed(d) ==
    /\ DOMAIN d = {"users", "roster", "projects", "categories", "skills", "workflows",
                   "policies", "integrations", "variables", "runs"}
    /\ d.users \in [User -> Maybe(UserRow)]
    /\ d.roster \in [User \X Project -> Maybe(Role)]
    /\ d.projects \subseteq Project /\ d.categories \subseteq Category
    /\ d.skills \in [Skill -> Maybe(SkillRow)]
    /\ d.workflows \in [Workflow -> Maybe(WorkflowRow)]
    /\ d.policies \in [Policy -> Maybe(PolicyRow)]
    /\ d.integrations \in [Integration -> Maybe(IntegrationRow)]
    /\ d.variables \in [Variable -> Maybe(VariableRow)]
    /\ d.runs \in [Run -> Maybe(RunRow)]

NoPins == [s \in SkillName |-> None]

(* Whose a run's parts are: the workflow its project's, the policy of that  *)
(* workflow, the integrations its project's, the texts its agents are given *)
(* its project's or the platform's.                                         *)
OwnParts(d) ==
    \A n \in Live(d.runs) :
        LET run == d.runs[n]
            ours == {run.project, Platform}
        IN /\ d.workflows[run.workflow].scope = run.project
           /\ d.policies[run.policy].workflow = run.workflow
           /\ d.policies[run.policy].scope \in ours
           /\ \A kind \in Kind : run.uses[kind] # None =>
                 d.integrations[run.uses[kind]].project = run.project
           /\ \A s \in SkillName : run.pins[s] # None => run.pins[s].sha.text[1] \in ours

(* Tables as the handlers leave them behind when nothing is in flight. *)
Settled(s) ==
    LET d == s.db
    IN /\ Typed(d) /\ Sound(d) /\ OwnParts(d)
       /\ Live(d.users) # {} => \E u \in Live(d.users) :
              d.users[u].enabled /\ d.users[u].role = "ADMIN"
       /\ \A p \in d.projects : \E u \in User : d.roster[<<u, p>>] = Manager
       /\ \A k \in Live(d.skills) :
              /\ d.skills[k].text[1] \in {d.skills[k].scope, Platform}
              /\ d.skills[k].stamp = StampOf(d.skills[k])
              /\ d.skills[k].stamp.key \in DOMAIN s.objects
       /\ \A key \in DOMAIN s.objects : key \in SkillName \X Bundle /\ s.objects[key] = key[2]
       /\ \A q \in Live(d.policies) :
              d.policies[q].scope \in {Platform, d.workflows[d.policies[q].workflow].scope}
       /\ \A n \in Live(d.runs) :
              /\ d.runs[n].state = "pending" => d.runs[n].pins = NoPins
              /\ \A k \in SkillName : d.runs[n].pins[k] # None =>
                    /\ d.runs[n].pins[k].key \in DOMAIN s.objects
                    /\ d.runs[n].pins[k].sha = s.objects[d.runs[n].pins[k].key]
       /\ \A i \in Live(d.integrations) :
              d.integrations[i].ref \in
                  {None, IntegrationRef(d.integrations[i].project, d.integrations[i].kind)}
       /\ \A e \in Live(d.variables) :
              d.variables[e].ref = IF d.variables[e].secret
                                   THEN env_var_ref(d.variables[e].scope, d.variables[e].name)
                                   ELSE None
       /\ \A i, j \in Live(d.integrations) :
              /\ d.integrations[i].project = d.integrations[j].project
              /\ d.integrations[i].kind = d.integrations[j].kind
              => i = j
       /\ \A e, f \in Live(d.variables) :
              /\ d.variables[e].scope = d.variables[f].scope
              /\ d.variables[e].name = d.variables[f].name
              => e = f
       /\ s.vault = Referring(d) \ {None}

ASSUME StartAssumption == \A s \in Start : Settled(s)

ASSUME NoneAssumption ==
    None \notin UserRow \cup SkillRow \cup WorkflowRow \cup PolicyRow \cup IntegrationRow
                \cup VariableRow \cup RunRow \cup Role \cup Stamps \cup Ref

(* A request in flight is not an idle slot. *)
ASSUME IdleAssumption ==
    Idle \notin [op : {"publish"}, rows : SUBSET Skill, skill : Skill, stamp : Maybe(Stamps)]
                \cup [op : {"init"}, rows : SUBSET (Skill \cup Run), run : Run,
                      heals : SUBSET Skill, skill_bundle : [SkillName -> Maybe(Stamps)],
                      healed : UNION {[S -> Stamps] : S \in SUBSET Skill}]
                \cup [op : {"store"}, rows : SUBSET (Integration \cup Variable),
                      table : {"integrations", "variables"}, id : Integration \cup Variable,
                      new : BOOLEAN, row : Maybe(IntegrationRow \cup VariableRow),
                      refs : SUBSET Ref]

ASSUME IdsAssumption == IsFiniteSet(Skill) /\ IsFiniteSet(Policy)

Init ==
    /\ \E s \in Start :
          /\ db = s.db /\ objects = s.objects /\ vault = s.vault
          /\ left = s.left /\ faults = s.faults
    /\ req = [r \in Request |-> Idle]
    /\ marks = [behind |-> {}, torn |-> {}, loose |-> {}, gone |-> {}, duel |-> FALSE]

-----------------------------------------------------------------------------
(* create_run. *)

_require_verified_integration(p, kind, i) ==
    IF i = None THEN kind \in Optional
    ELSE /\ db.integrations[i].project = p /\ db.integrations[i].kind = kind
         /\ db.integrations[i].verified

(* Runs are made of a project's own workflow, except that the ad-hoc        *)
(* template is copied into the project on first use.                        *)
Provision(w, p) ==
    IF db.workflows[w].scope = p THEN db
    ELSE IF Named(db.workflows, p, AdHoc) # {} THEN db ELSE CopyOf(db, w, p)

MayBack(w, p, adhoc) ==
    /\ adhoc => Cardinality(db.workflows[w].uses) = 1
    /\ \/ db.workflows[w].scope = p
       \/ adhoc /\ db.workflows[w].scope = Platform /\ db.workflows[w].name = AdHoc

Backing(d, w, p) ==
    IF d.workflows[w].scope = p THEN w ELSE CHOOSE x \in Named(d.workflows, p, AdHoc) : TRUE

(* a bug: the policy is not compared with the workflow. *)
PolicyUnchecked(d, q, x) == d.policies[q].active

(* A policy the caller names must be the workflow's; without one, one of    *)
(* its active policies is taken.                                            *)
PolicyFits(d, q, x) ==
    /\ d.policies[q].workflow = x
    /\ db.workflows[x] # None \/ d.policies[q].active

create_run ==
    \E u \in User, p \in db.projects, w \in Live(db.workflows), adhoc \in BOOLEAN,
       uses \in [Kind -> {None} \cup Live(db.integrations)] :
        /\ IsMember(u, p) /\ Room(db.runs, 1)
        /\ MayBack(w, p, adhoc) /\ RoomForCopy(w, p)
        /\ \A kind \in Kind : _require_verified_integration(p, kind, uses[kind])
        /\ LET d == Provision(w, p)
               x == Backing(d, w, p)
           IN \E q \in Live(d.policies) :
                /\ PolicyFits(d, q, x)
                /\ Commit("engine",
                       [d EXCEPT !.runs = Add(@, [project |-> p, workflow |-> x, policy |-> q,
                                                  uses |-> uses, state |-> "pending",
                                                  pins |-> NoPins])])
                /\ objects' = publish_skill({d.skills[k] : k \in Live(d.skills) \ Live(db.skills)})
        /\ UNCHANGED <<vault, marks>>

-----------------------------------------------------------------------------
(* init_run: the rows, credentials, skills and variables are read and the   *)
(* branch is made; everything is committed at the end.                      *)

(* The skills a run of p may reference: the project's shadow the platform's. *)
Effective(p, name) == IF Named(db.skills, p, name) # {} THEN Named(db.skills, p, name)
                      ELSE Named(db.skills, Platform, name)

effective_skill_map(p) ==
    [name \in {s \in SkillName : Effective(p, s) # {}} |->
        CHOOSE k \in Effective(p, name) : TRUE]

(* An optional integration without its credential is left out. *)
resolve_credentials(n) ==
    \A kind \in Kind \ Optional :
        /\ db.runs[n].uses[kind] # None
        /\ db.integrations[db.runs[n].uses[kind]].ref \in vault

(* The project's variables override the platform's; every secret that is    *)
(* left must be there.                                                      *)
merge_env_var_rows(p) ==
    {e \in Live(db.variables) :
        \/ db.variables[e].scope = p
        \/ /\ db.variables[e].scope = Platform
           /\ Named(db.variables, p, db.variables[e].name) = {}}

_resolve_env_vars(p) ==
    \A e \in merge_env_var_rows(p) : db.variables[e].secret => db.variables[e].ref \in vault

Used(n) == db.workflows[db.runs[n].workflow].uses
Unstamped(n) ==
    LET skill == effective_skill_map(db.runs[n].project)
    IN {skill[s] : s \in {s \in Used(n) : db.skills[skill[s]].stamp = None}}

(* Rows whose initialisation is under way. *)
InHand == {req[r].run : r \in {r \in Request : Doing(r, "init")}}
Dispatched(n) == db.runs[n] # None /\ db.runs[n].state # "failed" /\ n \notin InHand

Ready(n) ==
    /\ resolve_credentials(n)
    /\ Used(n) \subseteq DOMAIN effective_skill_map(db.runs[n].project)

(* Whatever was staged before the failure is committed with it: the stamps  *)
(* of skills that had none.                                                 *)
Overtake(S) ==
    [marks EXCEPT !.behind = (@ \ S) \cup {k \in S : Publishing(k)}]

Stamping(S) == [k \in S |-> StampOf(db.skills[k])]
Healed(skills, stamps) ==
    [k \in DOMAIN skills |->
        IF k \in DOMAIN stamps THEN [skills[k] EXCEPT !.stamp = stamps[k]] ELSE skills[k]]

FailInit ==
    \E n \in Live(db.runs) :
        LET heals == IF Ready(n) THEN Unstamped(n) ELSE {}
        IN /\ Dispatched(n)
           /\ ~(Ready(n) /\ _resolve_env_vars(db.runs[n].project))
           /\ Commit("engine", [db EXCEPT !.runs[n].state = "failed",
                                          !.skills = Healed(@, Stamping(heals))])
           /\ objects' = publish_skill({db.skills[k] : k \in heals})
           /\ marks' = Overtake(heals)
           /\ UNCHANGED vault

(* The bundles of the step rows: the stamps of the skills, or, where there  *)
(* is none, the bundle packed here.                                         *)
LoadRun(r) ==
    \E n \in Live(db.runs) :
        LET skill == effective_skill_map(db.runs[n].project)
            heals == Unstamped(n)
            bundle(s) == IF skill[s] \in heals THEN StampOf(db.skills[skill[s]])
                         ELSE db.skills[skill[s]].stamp
        IN /\ Dispatched(n) /\ Ready(n) /\ _resolve_env_vars(db.runs[n].project)
           /\ Open(r, "engine",
                   [op |-> "init", rows |-> heals \cup {n}, run |-> n, heals |-> heals,
                    skill_bundle |-> [s \in SkillName |-> IF s \in Used(n) THEN bundle(s) ELSE None],
                    healed |-> Stamping(heals)])
           /\ objects' = publish_skill({db.skills[k] : k \in heals})
           /\ marks' = Overtake(heals)
           /\ UNCHANGED <<db, vault, faults>>

(* a bug: the pins of a run that is initialised again are renewed. *)
PinEachTime(run, bundle) == [run EXCEPT !.state = "running", !.pins = bundle]

(* The pins are frozen at the first initialisation. *)
Pin(run, bundle) ==
    [run EXCEPT !.state = "running", !.pins = IF run.state = "pending" THEN bundle ELSE @]

(* A skill or run that was deleted meanwhile makes the commit fail. *)
init_run(r) ==
    LET job == req[r]
        d == [db EXCEPT !.runs[job.run] = Pin(@, job.skill_bundle),
                        !.skills = Healed(@, job.healed)]
    IN /\ Doing(r, "init")
       /\ Finish(r, IF \E k \in job.heals : db.skills[k] = None THEN db
                    ELSE IF db.runs[job.run] = None THEN db ELSE d)
       /\ marks' = IF db.runs[job.run] = None \/ \E k \in job.heals : db.skills[k] = None
                   THEN [marks EXCEPT !.behind = @ \cup (job.heals \cap Live(db.skills))]
                   ELSE marks
       /\ UNCHANGED <<objects, vault>>

-----------------------------------------------------------------------------
(* A request or an initialisation is broken off (the client goes away, the  *)
(* process dies): its transaction is lost, what it did to the other stores  *)
(* stays.                                                                   *)
Abort(r) ==
    /\ req[r] # Idle /\ faults > 0
    /\ faults' = faults - 1
    /\ Close(r)
    /\ marks' = CASE req[r].op = "publish" -> [marks EXCEPT !.behind = @ \cup {req[r].skill}]
                  [] req[r].op = "init" -> [marks EXCEPT !.behind = @ \cup req[r].heals]
                  [] req[r].op = "store" -> [marks EXCEPT !.torn = @ \cup req[r].refs]
                  [] OTHER -> marks
    /\ UNCHANGED <<db, objects, vault, left>>

Next ==
    \/ AccountsNext \/ CatalogueNext \/ VaultNext
    \/ left["engine"] > 0 /\ (create_run \/ FailInit \/ \E r \in Request : LoadRun(r))
    \/ \E r \in Request : init_run(r) \/ Abort(r)

Spec == Init /\ [][Next]_vars

-----------------------------------------------------------------------------

(* The rows are rows of the tables' types, and the database's constraints   *)
(* hold of them, whatever the requests do.                                  *)
TypeOK ==
    /\ Typed(db) /\ Sound(db)
    /\ DOMAIN objects \subseteq SkillName \X Bundle
    /\ vault \subseteq Ref
    /\ \A r \in Request : req[r] = Idle \/ req[r].op \in
          {"arrive", "role", "enable", "member", "publish", "store", "init"}

(* Every stamp and every pin names a stored bundle with the digest it       *)
(* promises, and a skill's stamp is that of its present text: unless a      *)
(* request is still publishing it, or the last one was overtaken, broken    *)
(* off, or a rename.                                                        *)
Resolves(s) == s # None => s.key \in DOMAIN objects /\ objects[s.key] = s.sha
BundlesSound ==
    /\ \A k \in Live(db.skills) :
          /\ Resolves(db.skills[k].stamp)
          /\ \/ db.skills[k].stamp = StampOf(db.skills[k])
             \/ Publishing(k) \/ k \in marks.behind
    /\ \A n \in Live(db.runs), s \in SkillName : Resolves(db.runs[n].pins[s])

(* A run is made of parts of its own project, or of the platform: its       *)
(* workflow, a policy of that workflow, its integrations and the texts its  *)
(* agents are given.                                                        *)
RunOwnsItsParts == OwnParts(db)

(* What the agents of a run are given never changes once it is pinned,      *)
(* whatever is edited, deleted, imported or initialised again.              *)
PinsFrozen ==
    [][\A n \in Run : db.runs[n] # None /\ db.runs[n].pins # NoPins /\ db'.runs[n] # None
                         => db'.runs[n].pins = db.runs[n].pins]_vars
=============================================================================
