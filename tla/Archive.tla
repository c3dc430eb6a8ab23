------------------------------- MODULE Archive -------------------------------
(***************************************************************************)
(* Workflow and skill archives: the zips administrators export from one    *)
(* scope, edit on their disk, and import into another (workflow_zip.py,    *)
(* skill_import.py, skill_export.py and their endpoints in admin.py).      *)
(*                                                                         *)
(* An import has two phases and the server remembers nothing in between:   *)
(* the zip is analysed for a table of rows, the user decides row by row,   *)
(* and the zip is sent again with the decisions.  The scope may have been  *)
(* changed by others before the second phase, and during it.               *)
(*                                                                         *)
(* Catalogue has the effect of an import on the tables; here is how that   *)
(* effect comes out of an archive.  Texts, descriptions, models and        *)
(* categories are left out, and so are the size limits.                    *)
(***************************************************************************)
EXTENDS FiniteSetsExt

CONSTANTS
    Scope,          \* Platform and the projects
    Name,           \* names of workflows and policies
    SkillName,
    Version,
    Slug,           \* file names
    slugify,        \* [Name -> Slug], lossy
    Text,           \* what workflows, policies and skills may say
    NewText,        \* what another administrator writes
    Source,         \* databases to start from
    None,
    Budget          \* bound: exports, edits of the zip, changes by others, imports, failing uploads

Platform == "platform"

\* Rows, and the three kinds of files of an archive.
FlowRow   == [scope : Scope, name : Name, version : Version, text : Text,
              refs : SUBSET SkillName, active : BOOLEAN]
PolicyRow == [scope : Scope, flow : Scope \X Name \X Version, name : Name,
              version : Version, text : Text, active : BOOLEAN]
SkillRow  == [front : SkillName, text : Text, md : BOOLEAN,
              links : SUBSET SkillName, own : SUBSET SkillName]

Manifest   == [slug : Slug, name : Name, version : Version, text : Text,
               refs : SUBSET SkillName, sound : {"good", "content", "wrapper"}]
PolicyFile == [dir : Slug, name : Name, version : Version, text : Text]
SkillFile  == [dir : SkillName, front : SkillName, text : Text,
               links : SUBSET SkillName, own : SUBSET SkillName]

Tables(d) ==
    /\ d.flows \subseteq FlowRow /\ IsFiniteSet(d.flows)
    /\ d.policies \subseteq PolicyRow /\ IsFiniteSet(d.policies)
    /\ d.skills \in [Scope \X SkillName -> SkillRow \cup {None}]

ASSUME ArchiveAssumption ==
    /\ Platform \in Scope /\ NewText \in Text
    /\ slugify \in [Name -> Slug]
    /\ IsFiniteSet(SkillName) /\ None \notin SkillRow
    /\ \A d \in Source : DOMAIN d = {"flows", "policies", "skills"} /\ Tables(d)
    /\ Budget \in [{"export", "edit", "other", "import", "fault"} -> Nat]

VARIABLES
    db,             \* flows and policies (sets of rows), skills (by scope and name)
    zip,            \* the archive on the administrator's disk, or None
    origin,         \* history: the workflows the archive was made of, as they ran there
    intact,         \* history: nothing was lost from the archive or changed by others since
    page,           \* the table the analysis showed, or None
    job,            \* the import under way, or None
    last,           \* history: the scope of the last import and whether every row went in
    left            \* what remains of the budget

vars == <<db, zip, origin, intact, page, job, last, left>>

Action == {"import", "overwrite", "skip"}

Key(f) == <<f.name, f.version>>
Owner(f) == <<f.scope, f.name, f.version>>          \* what a policy's workflow_id refers to
In(scope) == {f \in db.flows : f.scope = scope}
PoliciesOf(f) == {q \in db.policies : q.flow = Owner(f)}
Spend(what) == left[what] > 0 /\ left' = [left EXCEPT ![what] = @ - 1]

At(scope, name) == db.skills[<<scope, name>>]

(* What a run in the scope is given for a skill: init_run's resolution. *)
Given(scope, name) ==
    IF At(scope, name) # None THEN At(scope, name) ELSE At(Platform, name)

Init ==
    /\ db \in Source
    /\ zip = None /\ origin = {} /\ intact = FALSE
    /\ page = None /\ job = None /\ last = None
    /\ left = Budget

-----------------------------------------------------------------------------
(* Export. *)

(* a bug: the platform's skill hides the project's. *)
PlatformFirst(scope, name) ==
    IF At(Platform, name) # None THEN At(Platform, name) ELSE At(scope, name)

_effective_skill(scope, name) ==
    IF At(scope, name) # None THEN At(scope, name) ELSE At(Platform, name)

Found(f) == {s \in f.refs : _effective_skill(f.scope, s) # None}

(* One file name per workflow, and per policy of a workflow. *)
SlugsDiffer(S) == \A x, y \in S : slugify[x.name] = slugify[y.name] => x = y

(* A selection across scopes must agree on what it calls by one name, and a *)
(* skill without SKILL.md cannot be exported.                               *)
Exportable(S) ==
    /\ \A f, g \in S : Key(f) = Key(g) => f = g
    /\ \A f, g \in S : \A s \in Found(f) \cap Found(g) :
          _effective_skill(f.scope, s) = _effective_skill(g.scope, s)
    /\ \A f \in S : \A s \in Found(f) : _effective_skill(f.scope, s).md
    /\ SlugsDiffer(S) /\ \A f \in S : SlugsDiffer(PoliciesOf(f))

build_skills_zip(skills) ==
    {[dir |-> s, front |-> skills[s].front, text |-> skills[s].text,
      links |-> skills[s].links, own |-> skills[s].own] : s \in DOMAIN skills}

build_workflows_zip(S) ==
    [flows |-> {[slug |-> slugify[f.name], name |-> f.name, version |-> f.version,
                 text |-> f.text, refs |-> f.refs, sound |-> "good"] : f \in S},
     policies |-> UNION {{[dir |-> slugify[f.name], name |-> q.name, version |-> q.version,
                           text |-> q.text] : q \in PoliciesOf(f)} : f \in S},
     skills |-> build_skills_zip([s \in UNION {Found(f) : f \in S} |->
                    _effective_skill((CHOOSE f \in S : s \in Found(f)).scope, s)])]

Origin(S) ==
    {[name |-> f.name, version |-> f.version, text |-> f.text, refs |-> f.refs,
      policies |-> {[name |-> q.name, version |-> q.version, text |-> q.text] : q \in PoliciesOf(f)},
      given |-> [s \in {s \in f.refs : Given(f.scope, s) # None} |-> Given(f.scope, s).text]]
     : f \in S}

(* A scope may be asked for; without one the selection may mix scopes. *)
export_workflows ==
    \E S \in SUBSET db.flows :
        /\ S # {} /\ Exportable(S) /\ job = None
        /\ Spend("export")
        /\ zip' = build_workflows_zip(S) /\ origin' = Origin(S)
        /\ intact' = TRUE /\ page' = None /\ last' = None
        /\ UNCHANGED <<db, job>>

export_skills ==
    \E N \in SUBSET {s \in SkillName : At(Platform, s) # None} :
        /\ N # {} /\ job = None /\ \A s \in N : At(Platform, s).md
        /\ Spend("export")
        /\ zip' = [flows |-> {}, policies |-> {},
                   skills |-> build_skills_zip([s \in N |-> At(Platform, s)])]
        /\ origin' = {} /\ intact' = TRUE /\ page' = None /\ last' = None
        /\ UNCHANGED <<db, job>>

-----------------------------------------------------------------------------
(* The archive on the administrator's disk, and the other administrators. *)

EditZip(z) ==           \* an import under way has its own copy of what was sent
    job = None /\ Spend("edit") /\ zip' = z /\ UNCHANGED <<db, origin, page, job, last>>

(* A manifest's file is renamed: the name inside stays what counts. *)
RenameFile ==
    /\ zip # None
    /\ \E m \in zip.flows, slug \in Slug :
          /\ \A n \in zip.flows : slug \notin {n.slug, slugify[n.name]}
          /\ EditZip([zip EXCEPT !.flows = (@ \ {m}) \cup {[m EXCEPT !.slug = slug]}])
    /\ UNCHANGED intact

Damage ==
    /\ zip # None
    /\ \/ \E m \in zip.flows, how \in {"content", "wrapper"} :
             /\ m.sound = "good"
             /\ EditZip([zip EXCEPT !.flows = (@ \ {m}) \cup {[m EXCEPT !.sound = how]}])
       \/ \E m \in zip.flows : EditZip([zip EXCEPT !.flows = @ \ {m}])
       \/ \E s \in zip.skills : EditZip([zip EXCEPT !.skills = @ \ {s}])
    /\ intact' = FALSE

(* Another administrator creates a workflow or a policy, or writes a skill. *)
OtherAdmin ==
    /\ Spend("other") /\ intact' = FALSE
    /\ \/ \E scope \in Scope, n \in Name, v \in Version :
             /\ \A f \in In(scope) : Key(f) # <<n, v>>
             /\ db' = [db EXCEPT !.flows = @ \cup {[scope |-> scope, name |-> n, version |-> v,
                                                    text |-> NewText, refs |-> {}, active |-> TRUE]}]
       \/ \E f \in db.flows, n \in Name, v \in Version :
             /\ \A q \in PoliciesOf(f) : Key(q) # <<n, v>>
             /\ db' = [db EXCEPT !.policies = @ \cup {[scope |-> f.scope, flow |-> Owner(f), name |-> n,
                                                       version |-> v, text |-> NewText, active |-> TRUE]}]
       \/ \E x \in Scope \X SkillName :
             db' = [db EXCEPT !.skills[x] = [front |-> x[2], text |-> NewText, md |-> TRUE,
                                             links |-> {}, own |-> {}]]
    /\ UNCHANGED <<zip, origin, page, job, last>>

-----------------------------------------------------------------------------
(* Analysis. *)

_parse_wrapper(z) == {m \in z.flows : m.sound # "wrapper"}

(* a bug: a policy directory is found by the manifest's file name only. *)
ByFileName(z, dir) == {m \in _parse_wrapper(z) : m.slug = dir}

(* Either spelling of a policy directory resolves, the file name first. *)
slug_to_entry(z, dir) ==
    LET byFile == {m \in _parse_wrapper(z) : m.slug = dir}
    IN IF byFile # {} THEN byFile ELSE {m \in _parse_wrapper(z) : slugify[m.name] = dir}

(* The policies of the archive with the manifest they belong to; the others *)
(* are reported as orphans.                                                 *)
Attached(z) == {a \in z.flows \X z.policies : a[1] \in slug_to_entry(z, a[2].dir)}

build_skill_bundles(z) ==
    /\ z.skills # {}
    /\ \A s, t \in z.skills : s.front = t.front => s = t

(* Fatal: nothing to import, or two rows of one name and version. *)
analyze_zip(z) ==
    /\ z.flows # {}
    /\ \A m, n \in _parse_wrapper(z) : Key(m) = Key(n) => m = n
    /\ z.skills # {} => build_skill_bundles(z)
    /\ \A a, b \in Attached(z) : a[1] = b[1] /\ Key(a[2]) = Key(b[2]) => a = b

(* The names a decision is wanted for, at either endpoint. *)
Rows(at, z) ==
    [flows |-> IF at = "skills" THEN {} ELSE {m.name : m \in _parse_wrapper(z)},
     skills |-> {s.front : s \in z.skills},
     policies |-> IF at = "skills" THEN {} ELSE {<<a[1].name, a[2].name>> : a \in Attached(z)}]

Accepted(at, z) == IF at = "skills" THEN build_skill_bundles(z) ELSE analyze_zip(z)

_existing_scoped_workflows(scope, z) ==
    {Key(m) : m \in _parse_wrapper(z)} \cap {Key(f) : f \in In(scope)}
_existing_scoped_skill_names(scope, z) ==
    {s.front : s \in {t \in z.skills : At(scope, t.front) # None}}

Show(at, scope) ==
    /\ zip # None /\ Accepted(at, zip) /\ job = None
    /\ page' = [at |-> at, scope |-> scope, rows |-> Rows(at, zip),
                flows |-> _existing_scoped_workflows(scope, zip),
                skills |-> _existing_scoped_skill_names(scope, zip)]
    /\ page' # page
    /\ UNCHANGED <<db, zip, origin, intact, job, last, left>>

analyze_workflow_import == \E scope \in Scope : Show("workflows", scope)
analyze_skill_import == Show("skills", Platform)

-----------------------------------------------------------------------------
(* Import. *)

Decisions(rows) ==
    [flows : [rows.flows -> Action], skills : [rows.skills -> Action],
     policies : [rows.policies -> Action]]

(* The zip is analysed again, and the decisions must cover its rows exactly. *)
_check_decision_coverage(dec) ==
    /\ DOMAIN dec.flows = Rows(page.at, zip).flows
    /\ DOMAIN dec.skills = Rows(page.at, zip).skills
    /\ DOMAIN dec.policies = Rows(page.at, zip).policies

StartImport ==
    /\ page # None /\ job = None /\ Accepted(page.at, zip)
    /\ Spend("import")
    /\ \E dec \in Decisions(page.rows) :
          /\ _check_decision_coverage(dec)
          /\ job' = [at |-> page.at, scope |-> page.scope, dec |-> dec,
                     flows |-> _existing_scoped_workflows(page.scope, zip),
                     skills |-> _existing_scoped_skill_names(page.scope, zip)]
    /\ UNCHANGED <<db, zip, origin, intact, page, last>>

(* Every row runs in its own savepoint.  A workflow that appeared after the *)
(* import looked breaks the unique constraint.                              *)
_import_one_workflow(m) ==
    LET dec == job.dec.flows[m.name]
        there == Key(m) \in job.flows
        unforeseen == ~there /\ \E f \in In(job.scope) : Key(f) = Key(m)
    IN IF dec = "skip" THEN "skipped"
       ELSE IF (dec = "import" /\ there) \/ m.sound # "good" \/ unforeseen THEN "error"
       ELSE IF there THEN "overwritten" ELSE "imported"

(* a bug: a skill that is there is not reported. *)
UpsertAlways(s, fails) ==
    IF job.dec.skills[s.front] = "skip" THEN "skipped"
    ELSE IF s.front \in fails THEN "error" ELSE "imported"

(* A skill is published within its savepoint; when that fails its row is    *)
(* rolled back.                                                             *)
_import_one_skill(s, fails) ==
    LET dec == job.dec.skills[s.front]
        there == s.front \in job.skills
    IN IF dec = "skip" THEN "skipped"
       ELSE IF (dec = "import" /\ there) \/ s.front \in fails THEN "error"
       ELSE IF there THEN "overwritten" ELSE "imported"

(* A policy goes to the row of its workflow, be it of this import or there  *)
(* before.                                                                  *)
_import_one_policy(m, q) ==
    LET dec == job.dec.policies[<<m.name, q.name>>]
        row == _import_one_workflow(m) \in {"imported", "overwritten"} \/ Key(m) \in job.flows
        there == \E p \in db.policies : p.flow = <<job.scope, m.name, m.version>> /\ Key(p) = Key(q)
    IN IF dec = "skip" THEN "skipped"
       ELSE IF ~row \/ (dec = "import" /\ there) THEN "error"
       ELSE IF there THEN "overwritten" ELSE "imported"

(* Overwriting keeps the row, and whether it is active; a new row is not.   *)
WriteFlow(m, flows) ==
    LET old == {f \in flows : f.scope = job.scope /\ Key(f) = Key(m)}
    IN CASE _import_one_workflow(m) = "overwritten" ->
               (flows \ old) \cup {[f EXCEPT !.text = m.text, !.refs = m.refs] : f \in old}
         [] _import_one_workflow(m) = "imported" ->
               flows \cup {[scope |-> job.scope, name |-> m.name, version |-> m.version,
                            text |-> m.text, refs |-> m.refs, active |-> FALSE]}
         [] OTHER -> flows

WritePolicy(a, policies) ==
    LET m == a[1]
        q == a[2]
        to == <<job.scope, m.name, m.version>>
        old == {p \in policies : p.flow = to /\ Key(p) = Key(q)}
    IN CASE _import_one_policy(m, q) = "overwritten" ->
               (policies \ old) \cup {[p EXCEPT !.text = q.text] : p \in old}
         [] _import_one_policy(m, q) = "imported" ->
               policies \cup {[scope |-> job.scope, flow |-> to, name |-> q.name,
                               version |-> q.version, text |-> q.text, active |-> FALSE]}
         [] OTHER -> policies

(* A file of another skill that SKILL.md refers to and the archive carries  *)
(* is brought into the skill, and the reference rewritten.                  *)
bundle_files_with_external(s) ==
    LET brought == s.links \cap {t.dir : t \in zip.skills}
    IN [front |-> s.front, text |-> s.text, md |-> TRUE,
        links |-> s.links \ brought, own |-> s.own \cup brought]

_upsert_skill_scoped(s, skills, fails) ==
    IF _import_one_skill(s, fails) \in {"imported", "overwritten"}
    THEN [skills EXCEPT ![<<job.scope, s.front>>] = bundle_files_with_external(s)] ELSE skills

Outcomes(fails) ==
    {_import_one_workflow(m) : m \in {m \in _parse_wrapper(zip) : job.at = "workflows"}}
    \cup {_import_one_skill(s, fails) : s \in zip.skills}
    \cup {_import_one_policy(a[1], a[2]) : a \in {a \in Attached(zip) : job.at = "workflows"}}

(* Workflows, skills and policies, and one commit. *)
Apply(fails) ==
    LET flows == IF job.at = "skills" THEN {} ELSE _parse_wrapper(zip)
        rows == IF job.at = "skills" THEN {} ELSE Attached(zip)
    IN /\ db' = [flows |-> FoldSet(WriteFlow, db.flows, flows),
                 policies |-> FoldSet(WritePolicy, db.policies, rows),
                 skills |-> FoldSet(LAMBDA s, k : _upsert_skill_scoped(s, k, fails),
                                    db.skills, zip.skills)]
       /\ job' = None
       /\ last' = [at |-> job.at, scope |-> job.scope,
                   whole |-> Outcomes(fails) \subseteq {"imported", "overwritten"}]
       /\ UNCHANGED <<zip, origin, intact, page>>

import_workflows(fails) == job # None /\ job.at = "workflows" /\ Apply(fails)
import_skills(fails) == job # None /\ job.at = "skills" /\ Apply(fails)

Import ==
    \/ UNCHANGED left /\ (import_workflows({}) \/ import_skills({}))
    \/ /\ job # None /\ Spend("fault")
       /\ \E s \in zip.skills : import_workflows({s.front}) \/ import_skills({s.front})

Next ==
    \/ export_workflows \/ export_skills
    \/ RenameFile \/ Damage \/ OtherAdmin
    \/ analyze_workflow_import \/ analyze_skill_import
    \/ StartImport \/ Import

Spec == Init /\ [][Next]_vars

-----------------------------------------------------------------------------
(* What is exported from one scope and imported whole into another runs     *)
(* there as it ran before: the archive is accepted, each workflow has its   *)
(* text and its own policies, and each step is given the skill it was       *)
(* given.  Renaming the files on the way does not matter.  A skill whose    *)
(* SKILL.md has another name than its row is imported under that name and   *)
(* is excepted.                                                             *)
NamesAgree == \A s \in zip.skills : s.front = s.dir
Arrived(o, scope) ==
    /\ \E f \in In(scope) :
          /\ Key(f) = Key(o) /\ f.text = o.text /\ f.refs = o.refs
          /\ \A q \in o.policies : \E p \in PoliciesOf(f) : Key(p) = Key(q) /\ p.text = q.text
    /\ \A s \in DOMAIN o.given : Given(scope, s).text = o.given[s]

RoundTrip ==
    origin # {} /\ intact /\ NamesAgree =>
        /\ Accepted("workflows", zip)
        /\ last # None /\ last.at = "workflows" /\ last.whole =>
              \A o \in origin : Arrived(o, last.scope)

(* An import changes no row that was there when the user looked unless the  *)
(* user chose to overwrite it, deletes none, activates none and deactivates *)
(* none, whoever else writes between the analysis and the commit.           *)
Kept(table, after, same(_, _)) ==
    /\ \A x \in table : \E y \in after : same(x, y) /\ x.active = y.active
    /\ \A y \in after : (\A x \in table : ~same(x, y)) => ~y.active

NothingUnasked ==
    [][job # None /\ job' = None =>
        /\ Kept(db.flows, db'.flows, LAMBDA f, g : Owner(f) = Owner(g))
        /\ Kept(db.policies, db'.policies, LAMBDA p, q : p.flow = q.flow /\ Key(p) = Key(q))
        /\ \A f \in db.flows \ db'.flows : job.dec.flows[f.name] = "overwrite"
        /\ \A q \in db.policies \ db'.policies : job.dec.policies[<<q.flow[2], q.name>>] = "overwrite"
        /\ \A x \in Scope \X SkillName : db'.skills[x] # db.skills[x] =>
              /\ x[1] = page.scope
              /\ x[2] \in page.skills => job.dec.skills[x[2]] = "overwrite"]_vars
=============================================================================
