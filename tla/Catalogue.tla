------------------------------ MODULE Catalogue -----------------------------
(***************************************************************************)
(* Skills, workflows, categories and policies: the administrator's         *)
(* handlers (admin.py), the project manager's (project_skills.py,          *)
(* workflows.py, policies.py), the zip imports and the start-up seeds.     *)
(*                                                                         *)
(* A skill's text reaches an agent as a bundle in the object store, under  *)
(* a key made of its name and its content; the row is stamped with the key *)
(* and the digest of the bundle its current text packs to.  Most handlers  *)
(* commit the text first and publish afterwards.                           *)
(***************************************************************************)
EXTENDS Tables

(* A text is one of two versions of what somebody wrote in some scope. *)
Text == Scope \X {0, 1}

pack_skill(row) == [name |-> row.name, text |-> row.text]

(* a bug: the key leaves the text out. *)
KeyByName(name, bundle) == <<name, [bundle EXCEPT !.text = <<Platform, 0>>]>>

skill_object_key(name, bundle) == <<name, bundle>>

StampOf(row) ==
    [key |-> skill_object_key(row.name, pack_skill(row)), sha |-> pack_skill(row)]

(* The object store after the bundles of these rows are published: a key    *)
(* that is there already is not written again.                              *)
publish_skill(rows) ==
    LET new == {StampOf(row).key : row \in rows} \ DOMAIN objects
    IN [key \in DOMAIN objects \cup new |->
            IF key \in new THEN pack_skill(CHOOSE row \in rows : StampOf(row).key = key)
            ELSE objects[key]]

(* Requests and run initialisations that will stamp skill k. *)
Publishing(k) ==
    \E r \in Request : \/ Doing(r, "publish") /\ req[r].skill = k
                       \/ Doing(r, "init") /\ k \in req[r].heals
Overtaken(k) == [marks EXCEPT !.behind = IF Publishing(k) THEN @ \cup {k} ELSE @ \ {k}]

(* The text of skill k is committed; its bundle follows. *)
WriteText(r, k, d) ==
    /\ Sound(d)
    /\ db' = d
    /\ Open(r, "skills", [op |-> "publish", rows |-> {k}, skill |-> k, stamp |-> None])
    /\ marks' = Overtaken(k)
    /\ UNCHANGED <<objects, vault, faults>>

NewSkill(scope, name) ==
    [scope |-> scope, name |-> name, text |-> <<scope, 0>>, stamp |-> None]

CreateSkill(r) ==
    \E name \in SkillName :
        /\ AnAdmin /\ Room(db.skills, 1) /\ Named(db.skills, Platform, name) = {}
        /\ WriteText(r, NewId(db.skills),
                     [db EXCEPT !.skills = Add(@, NewSkill(Platform, name))])

CreateProjectSkill(r) ==
    \E p \in db.projects, name \in SkillName :
        /\ AManager(p) /\ Room(db.skills, 1) /\ Named(db.skills, p, name) = {}
        /\ WriteText(r, NewId(db.skills), [db EXCEPT !.skills = Add(@, NewSkill(p, name))])

NewText(k, v) == <<db.skills[k].scope, v>>

(* A file is added, changed or deleted.  The administrator's handlers take  *)
(* the skills of every scope.                                               *)
EditSkill(r) ==
    \E k \in Live(db.skills), v \in {0, 1} :
        /\ AnAdmin /\ NewText(k, v) # db.skills[k].text
        /\ WriteText(r, k, [db EXCEPT !.skills[k].text = NewText(k, v)])

EditProjectSkill(r) ==
    \E k \in Live(db.skills), v \in {0, 1} :
        /\ db.skills[k].scope # Platform /\ AManager(db.skills[k].scope)
        /\ NewText(k, v) # db.skills[k].text
        /\ WriteText(r, k, [db EXCEPT !.skills[k].text = NewText(k, v)])

(* republish_skill: the row is read again and its bundle put; the stamp is  *)
(* committed afterwards, if it differs from the one that was read.          *)
republish_skill(r) ==
    LET k == req[r].skill
        row == db.skills[k]
    IN /\ Doing(r, "publish") /\ req[r].stamp = None
       /\ objects' = IF row = None THEN objects ELSE publish_skill({row})
       /\ req' = [req EXCEPT ![r] =
                    IF row = None \/ row.stamp = StampOf(row) THEN Idle
                    ELSE [@ EXCEPT !.stamp = StampOf(row)]]
       /\ UNCHANGED <<db, vault, marks, left, faults>>

StampSkill(r) ==
    /\ Doing(r, "publish") /\ req[r].stamp # None
    /\ Finish(r, IF db.skills[req[r].skill] = None THEN db
                 ELSE [db EXCEPT !.skills[req[r].skill].stamp = req[r].stamp])
    /\ UNCHANGED <<objects, vault, marks>>

(* A new name, and no new bundle: the stamp stays that of the old name. *)
UpdateSkill ==
    \E k \in Live(db.skills), name \in SkillName :
        /\ AnAdmin /\ name # db.skills[k].name
        /\ Named(db.skills, Platform, name) = {}
        /\ Commit("skills", [db EXCEPT !.skills[k].name = name])
        /\ marks' = [marks EXCEPT !.behind = @ \cup {k}]
        /\ UNCHANGED <<objects, vault>>

RemoveSkill(k) ==
    /\ Commit("skills", [db EXCEPT !.skills[k] = None])
    /\ marks' = [marks EXCEPT !.behind = @ \ {k}]
    /\ UNCHANGED <<objects, vault>>

DeleteSkill == \E k \in Live(db.skills) : AnAdmin /\ RemoveSkill(k)

DeleteProjectSkill ==
    \E k \in Live(db.skills) :
        db.skills[k].scope # Platform /\ AManager(db.skills[k].scope) /\ RemoveSkill(k)

(* The text is replaced, packed, published and stamped in one transaction. *)
UpsertSkill(d, scope, name, v) ==
    LET blank == [NewSkill(scope, name) EXCEPT !.text = <<scope, v>>]
        row == [blank EXCEPT !.stamp = StampOf(blank)]
        there == Named(d.skills, scope, name)
    IN IF there = {} THEN [d EXCEPT !.skills = Add(@, row)]
       ELSE [d EXCEPT !.skills[CHOOSE k \in there : TRUE] = row]

ImportSkill ==
    \E name \in SkillName, v \in {0, 1} :
        LET there == Named(db.skills, Platform, name)
            d == UpsertSkill(db, Platform, name, v)
        IN /\ AnAdmin /\ (there = {} => Room(db.skills, 1))
           /\ Commit("skills", d)
           /\ objects' = publish_skill({d.skills[k] : k \in Named(d.skills, Platform, name)})
           /\ marks' = IF there = {} THEN marks ELSE Overtaken(CHOOSE k \in there : TRUE)
           /\ UNCHANGED vault

(* The seed from disk is opt-in, and overwrites. *)
seed_default_skills ==
    \E name \in SkillName :
        LET there == Named(db.skills, Platform, name)
            d == UpsertSkill(db, Platform, name, 0)
        IN /\ there = {} => Room(db.skills, 1)
           /\ Commit("skills", d)
           /\ objects' = publish_skill({d.skills[k] : k \in Named(d.skills, Platform, name)})
           /\ marks' = IF there = {} THEN marks ELSE Overtaken(CHOOSE k \in there : TRUE)
           /\ UNCHANGED vault

-----------------------------------------------------------------------------
(* Workflow categories. *)

create_workflow_category ==
    \E c \in Category \ db.categories :
        /\ AnAdmin
        /\ Commit("workflows", [db EXCEPT !.categories = @ \cup {c}])
        /\ UNCHANGED <<objects, vault, marks>>

delete_workflow_category ==
    \E c \in db.categories :
        /\ AnAdmin
        /\ \A w \in Live(db.workflows) : db.workflows[w].category # c
        /\ Commit("workflows", [db EXCEPT !.categories = @ \ {c}])
        /\ UNCHANGED <<objects, vault, marks>>

(* Categories are seeded at every start; what is there stays. *)
seed_default_categories ==
    /\ Commit("workflows", [db EXCEPT !.categories = Category])
    /\ UNCHANGED <<objects, vault, marks>>

-----------------------------------------------------------------------------
(* Workflows.  `uses' are the skills the steps name. *)

CreateWorkflow ==
    \E name \in WorkflowName, uses \in SUBSET SkillName, c \in db.categories :
        /\ AnAdmin /\ Room(db.workflows, 1)
        /\ \A w \in Live(db.workflows) : db.workflows[w].name # name
        /\ Commit("workflows",
                  [db EXCEPT !.workflows = Add(@, [scope |-> Platform, name |-> name,
                                                   uses |-> uses, category |-> c])])
        /\ UNCHANGED <<objects, vault, marks>>

Rewrite(w, name, uses, c) ==
    LET row == [db.workflows[w] EXCEPT !.name = name, !.uses = uses, !.category = c]
    IN /\ Commit("workflows", [db EXCEPT !.workflows[w] = row])
       /\ UNCHANGED <<objects, vault, marks>>

(* The administrator's duplicate check spans every scope, the project       *)
(* manager's the project.                                                   *)
UpdateWorkflow ==
    \E w \in Live(db.workflows), name \in WorkflowName, uses \in SUBSET SkillName,
        c \in db.categories :
        /\ AnAdmin
        /\ name # db.workflows[w].name =>
              \A x \in Live(db.workflows) \ {w} : db.workflows[x].name # name
        /\ Rewrite(w, name, uses, c)

UpdateProjectWorkflow ==
    \E w \in Live(db.workflows), name \in WorkflowName, uses \in SUBSET SkillName,
        c \in db.categories :
        /\ db.workflows[w].scope # Platform /\ AManager(db.workflows[w].scope)
        /\ Named(db.workflows, db.workflows[w].scope, name) \ {w} = {}
        /\ Rewrite(w, name, uses, c)

Without(t, gone(_)) == [i \in DOMAIN t |-> IF t[i] # None /\ gone(t[i]) THEN None ELSE t[i]]

(* Runs and policies first: their foreign keys do not cascade. *)
RemoveWorkflow(w) ==
    LET ofW(row) == row.workflow = w
    IN /\ Commit("workflows", [db EXCEPT !.runs = Without(@, ofW),
                                         !.policies = Without(@, ofW),
                                         !.workflows[w] = None])
       /\ UNCHANGED <<objects, vault, marks>>

DeleteWorkflow == \E w \in Live(db.workflows) : AnAdmin /\ RemoveWorkflow(w)

DeleteProjectWorkflow ==
    \E w \in Live(db.workflows) :
        /\ db.workflows[w].scope # Platform /\ AManager(db.workflows[w].scope)
        /\ RemoveWorkflow(w)

(* The platform skills a copy to p brings along: those the workflow names   *)
(* and the project does not have.                                           *)
Cloned(d, w, p) ==
    {k \in Live(d.skills) :
        /\ d.skills[k].scope = Platform /\ d.skills[k].name \in d.workflows[w].uses
        /\ Named(d.skills, p, d.skills[k].name) = {}}

clone_referenced_skills(d, w, p) ==
    LET clone(k) == [d.skills[k] EXCEPT !.scope = p, !.stamp = StampOf(d.skills[k])]
    IN [d EXCEPT !.skills = AddAll(@, Cloned(d, w, p), clone)]

(* The workflow, its policies and the skills it names, as rows of p. *)
CopyOf(d, w, p) ==
    LET x == NewId(d.workflows)
        its == {q \in Live(d.policies) : d.policies[q].workflow = w}
        copy(q) == [d.policies[q] EXCEPT !.scope = p, !.workflow = x]
    IN [clone_referenced_skills(d, w, p) EXCEPT
            !.workflows[x] = [d.workflows[w] EXCEPT !.scope = p],
            !.policies = AddAll(@, its, copy)]

RoomForCopy(w, p) ==
    /\ Room(db.workflows, 1) /\ Room(db.skills, Cardinality(Cloned(db, w, p)))
    /\ Room(db.policies, Cardinality({q \in Live(db.policies) : db.policies[q].workflow = w}))

CopyTo(w, p) ==
    /\ Named(db.workflows, p, db.workflows[w].name) = {} /\ RoomForCopy(w, p)
    /\ Commit("workflows", CopyOf(db, w, p))
    /\ objects' = publish_skill({db.skills[k] : k \in Cloned(db, w, p)})
    /\ UNCHANGED <<vault, marks>>

(* The administrator may copy the workflow of another project too. *)
CopyToProject == \E w \in Live(db.workflows), p \in db.projects : AnAdmin /\ CopyTo(w, p)

ManagerCopiesToProject ==
    \E w \in Live(db.workflows), p \in db.projects :
        db.workflows[w].scope = Platform /\ AManager(p) /\ CopyTo(w, p)

-----------------------------------------------------------------------------
(* Policies.  The administrator's belong to no project, whatever project    *)
(* their workflow belongs to.                                               *)

AddPolicy(scope, w) ==
    /\ Room(db.policies, 1)
    /\ Commit("workflows", [db EXCEPT !.policies =
                               Add(@, [scope |-> scope, workflow |-> w, active |-> TRUE])])
    /\ UNCHANGED <<objects, vault, marks>>

CreatePolicy == \E w \in Live(db.workflows) : AnAdmin /\ AddPolicy(Platform, w)

CreateProjectPolicy ==
    \E w \in Live(db.workflows) :
        LET p == db.workflows[w].scope
        IN p # Platform /\ AManager(p) /\ AddPolicy(p, w)

SetActive(q, on) ==
    /\ on # db.policies[q].active
    /\ Commit("workflows", [db EXCEPT !.policies[q].active = on])
    /\ UNCHANGED <<objects, vault, marks>>

UpdatePolicy ==
    \E q \in Live(db.policies), on \in BOOLEAN : AnAdmin /\ SetActive(q, on)

(* The project manager is the one of the workflow's project. *)
ManagesPolicy(q) ==
    LET p == db.workflows[db.policies[q].workflow].scope IN p # Platform /\ AManager(p)

UpdateProjectPolicy ==
    \E q \in Live(db.policies), on \in BOOLEAN : ManagesPolicy(q) /\ SetActive(q, on)

RemovePolicy(q) ==
    Commit("workflows", [db EXCEPT !.policies[q] = None]) /\ UNCHANGED <<objects, vault, marks>>

DeletePolicy == \E q \in Live(db.policies) : AnAdmin /\ RemovePolicy(q)

DeleteProjectPolicy == \E q \in Live(db.policies) : ManagesPolicy(q) /\ RemovePolicy(q)

-----------------------------------------------------------------------------
(* A workflow archive.  Overwriting keeps the category if it names none. *)

Overwrite(row, uses, c) ==
    [row EXCEPT !.uses = uses, !.category = IF c = None THEN @ ELSE c]

ImportOneWorkflow(d, scope, name, uses, c) ==
    LET there == Named(d.workflows, scope, name)
        filed == [d EXCEPT !.categories = @ \cup ({c} \ {None})]
        row == [scope |-> scope, name |-> name, uses |-> uses, category |-> c]
    IN IF there = {} THEN [filed EXCEPT !.workflows = Add(@, row)]
       ELSE [filed EXCEPT !.workflows[CHOOSE w \in there : TRUE] = Overwrite(@, uses, c)]

ImportOneSkill(d, scope, name, v) == UpsertSkill(d, scope, name, v)

(* A policy that is there keeps its row; a new one lands inactive. *)
ImportOnePolicy(d, scope, name) ==
    LET w == CHOOSE w \in Named(d.workflows, scope, name) : TRUE
    IN IF \E q \in Live(d.policies) : d.policies[q].workflow = w THEN d
       ELSE [d EXCEPT !.policies = Add(@, [scope |-> scope, workflow |-> w, active |-> FALSE])]

(* Its workflow row, then its skill, then its policy, each decided on its   *)
(* own, in one transaction.                                                 *)
Imported(scope, name, k, c, v, skill, policy) ==
    LET flow == ImportOneWorkflow(db, scope, name, {k}, c)
        skilled == IF skill THEN ImportOneSkill(flow, scope, k, v) ELSE flow
    IN IF policy THEN ImportOnePolicy(skilled, scope, name) ELSE skilled

ImportWorkflow ==
    \E scope \in {Platform} \cup db.projects, name \in WorkflowName, k \in SkillName,
        c \in Category \cup {None}, v \in {0, 1}, skill, policy \in BOOLEAN :
        LET had == Named(db.skills, scope, k)
            d == Imported(scope, name, k, c, v, skill, policy)
        IN /\ AnAdmin
           /\ Room(db.workflows, 1) /\ Room(db.skills, 1) /\ Room(db.policies, 1)
           /\ Commit("workflows", d)
           /\ objects' = IF skill THEN publish_skill({d.skills[i] : i \in Named(d.skills, scope, k)})
                         ELSE objects
           /\ marks' = IF skill /\ had # {} THEN Overtaken(CHOOSE i \in had : TRUE) ELSE marks
           /\ UNCHANGED vault

(* The seed from the configuration directory: platform rows only. *)
seed_default_workflows ==
    \E name \in WorkflowName, uses \in SUBSET SkillName, c \in Category :
        LET flow == ImportOneWorkflow(db, Platform, name, uses, c)
            w == CHOOSE w \in Named(flow.workflows, Platform, name) : TRUE
            its == {q \in Live(flow.policies) : flow.policies[q].workflow = w}
            policy == [scope |-> Platform, workflow |-> w, active |-> TRUE]
        IN /\ Room(db.workflows, 1) /\ Room(db.policies, 1)
           /\ Commit("workflows", IF its # {} THEN flow
                                  ELSE [flow EXCEPT !.policies = Add(@, policy)])
           /\ UNCHANGED <<objects, vault, marks>>

SkillRequest ==
    \/ \E r \in Request :
          CreateSkill(r) \/ CreateProjectSkill(r) \/ EditSkill(r) \/ EditProjectSkill(r)
    \/ UpdateSkill \/ DeleteSkill \/ DeleteProjectSkill \/ ImportSkill \/ seed_default_skills

WorkflowRequest ==
    \/ create_workflow_category \/ delete_workflow_category \/ seed_default_categories
    \/ CreateWorkflow \/ UpdateWorkflow \/ UpdateProjectWorkflow
    \/ DeleteWorkflow \/ DeleteProjectWorkflow \/ CopyToProject \/ ManagerCopiesToProject
    \/ CreatePolicy \/ UpdatePolicy \/ DeletePolicy
    \/ CreateProjectPolicy \/ UpdateProjectPolicy \/ DeleteProjectPolicy
    \/ ImportWorkflow \/ seed_default_workflows

CatalogueNext ==
    \/ left["skills"] > 0 /\ SkillRequest
    \/ left["workflows"] > 0 /\ WorkflowRequest
    \/ \E r \in Request : republish_skill(r) \/ StampSkill(r)
=============================================================================
