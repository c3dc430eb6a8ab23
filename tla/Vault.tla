-------------------------------- MODULE Vault -------------------------------
(***************************************************************************)
(* Integrations and environment variables: rows whose secrets live in the  *)
(* secure storage (routers integrations.py, environment_variables.py and   *)
(* the administrator's copies in admin.py).                                *)
(*                                                                         *)
(* Every handler touches the secure storage first and commits the row      *)
(* afterwards, and no transaction spans the two.  A request in flight      *)
(* holds the references it depends on and the row it is going to write.    *)
(***************************************************************************)
EXTENDS Tables

CONSTANT Vendors        \* the integration types whose configuration is validated

Jobs == {job \in {req[r] : r \in Request} \ {Idle} : job.op = "store"}
Working == UNION {job.refs : job \in Jobs}

(* What becomes of the secrets of two overlapping requests depends on their *)
(* order; a request that works on a torn reference tears its other one.     *)
Overlapping(refs) == {job \in Jobs : job.refs \cap refs # {}}
Torn(refs) ==
    LET rivals == Overlapping(refs)
    IN [marks EXCEPT !.torn = @ \cup (UNION {job.refs : job \in rivals})
                                \cup (IF rivals = {} /\ refs \cap @ = {} THEN {} ELSE refs)]

(* Step one: the secure storage is changed; the row follows. *)
Store(r, table, id, row, refs, secrets) ==
    /\ Open(r, "vault", [op |-> "store", rows |-> {id}, table |-> table, id |-> id,
                         new |-> db[table][id] = None, row |-> row, refs |-> refs])
    /\ vault' = secrets
    /\ marks' = Torn(refs)
    /\ UNCHANGED <<db, objects, faults>>

(* The runs that name a deleted integration lose it (ON DELETE SET NULL). *)
Lose(run, i) == [run EXCEPT !.uses = [t \in Kind |-> IF @[t] = i THEN None ELSE @[t]]]
SetNull(runs, i) == [n \in DOMAIN runs |-> IF runs[n] = None THEN None ELSE Lose(runs[n], i)]

(* Step two.  A row that went meanwhile makes the update fail. *)
CommitStore(r) ==
    LET job == req[r]
        set == [db EXCEPT ![job.table][job.id] = job.row]
        d == IF job.row # None \/ job.table # "integrations" THEN set
             ELSE [set EXCEPT !.runs = SetNull(@, job.id)]
    IN /\ Doing(r, "store")
       /\ Finish(r, IF ~job.new /\ db[job.table][job.id] = None THEN db ELSE d)
       /\ UNCHANGED <<objects, vault, marks>>

(* A refusal after the secure storage was changed. *)
Refused(refs, secrets) ==
    /\ Spend("vault")
    /\ vault' = secrets
    /\ marks' = [marks EXCEPT !.torn = @ \cup refs]
    /\ UNCHANGED <<db, objects, req, faults>>

-----------------------------------------------------------------------------
(* Integrations. *)

OfKind(p, kind) ==
    {i \in Live(db.integrations) :
        db.integrations[i].project = p /\ db.integrations[i].kind = kind}

(* Upsert by kind; the credential is optional.  The test stamp survives a   *)
(* new credential.                                                          *)
Save(r, p, kind, label, credential) ==
    LET ref == IntegrationRef(p, kind)
        fresh == [project |-> p, kind |-> kind, label |-> label, verified |-> FALSE,
                  ref |-> IF credential THEN ref ELSE None]
        secrets == IF credential THEN vault \cup {ref} ELSE vault
    IN IF OfKind(p, kind) = {}
       THEN Room(db.integrations, 1)
            /\ Store(r, "integrations", NewId(db.integrations), fresh, {ref}, secrets)
       ELSE \E i \in OfKind(p, kind) :
              /\ OfKind(p, kind) = {i}
              /\ Store(r, "integrations", i,
                       [db.integrations[i] EXCEPT !.label = label,
                                                  !.ref = IF credential THEN ref ELSE @],
                       {ref}, secrets)

Label == {1, 2}

create_integration(r) ==
    \E p \in db.projects, kind \in Kind, label \in Label, credential \in BOOLEAN :
        AManager(p) /\ Save(r, p, kind, label, credential)

admin_create_integration(r) ==
    \E p \in db.projects, kind \in Kind, label \in Label, credential \in BOOLEAN :
        AnAdmin /\ Save(r, p, kind, label, credential)

(* The configuration is validated after the credential was put. *)
Rotate(r, i, credential, valid) ==
    LET row == db.integrations[i]
        ref == IntegrationRef(row.project, row.kind)
        secrets == IF credential THEN vault \cup {ref} ELSE vault
    IN IF ~valid
       THEN row.kind \in Vendors /\ credential /\ Refused({ref}, secrets)
       ELSE Store(r, "integrations", i, [row EXCEPT !.ref = IF credential THEN ref ELSE @],
                  {ref}, secrets)

update_integration(r) ==
    \E i \in Live(db.integrations), credential, valid \in BOOLEAN :
        AManager(db.integrations[i].project) /\ Rotate(r, i, credential, valid)

admin_update_integration(r) ==
    \E i \in Live(db.integrations), credential, valid \in BOOLEAN :
        AnAdmin /\ Rotate(r, i, credential, valid)

Wipe(r, i) ==
    LET row == db.integrations[i]
    IN Store(r, "integrations", i, None, {IntegrationRef(row.project, row.kind)}, vault \ {row.ref})

delete_integration(r) ==
    \E i \in Live(db.integrations) : AManager(db.integrations[i].project) /\ Wipe(r, i)

admin_delete_integration(r) == \E i \in Live(db.integrations) : AnAdmin /\ Wipe(r, i)

(* A stored credential is tried against the service; success is stamped. *)
Verify(i) ==
    /\ db.integrations[i].ref \in vault
    /\ Commit("vault", [db EXCEPT !.integrations[i].verified = TRUE])
    /\ UNCHANGED <<objects, vault, marks>>

test_integration ==
    \E i \in Live(db.integrations) : AManager(db.integrations[i].project) /\ Verify(i)

admin_test_integration == \E i \in Live(db.integrations) : AnAdmin /\ Verify(i)

-----------------------------------------------------------------------------
(* Environment variables, of a project or of the platform. *)

_store_secret(scope, name, secret) ==
    IF secret THEN vault \cup {env_var_ref(scope, name)} ELSE vault

NewVariable(r, scope, name, secret) ==
    LET ref == env_var_ref(scope, name)
        row == [scope |-> scope, name |-> name, secret |-> secret,
                ref |-> IF secret THEN ref ELSE None]
    IN /\ Named(db.variables, scope, name) = {} /\ Room(db.variables, 1)
       /\ Store(r, "variables", NewId(db.variables), row, {ref},
                _store_secret(scope, name, secret))

create_environment_variable(r) ==
    \E p \in db.projects, name \in VarName, secret \in BOOLEAN :
        AManager(p) /\ NewVariable(r, p, name, secret)

create_platform_environment_variable(r) ==
    \E name \in VarName, secret \in BOOLEAN : AnAdmin /\ NewVariable(r, Platform, name, secret)

(* The secret moves with the name, if it is there. *)
_rename_row(row, name) ==
    LET ref == env_var_ref(row.scope, name)
    IN IF row.name # name /\ row.secret /\ row.ref \in vault
       THEN (vault \cup {ref}) \ {row.ref} ELSE vault

(* a bug: the old reference is kept by the row. *)
RenameKeepsRef(row, name) == [row EXCEPT !.name = name]

Renamed(row, name) ==
    [row EXCEPT !.name = name,
                !.ref = IF row.name # name /\ row.secret THEN env_var_ref(row.scope, name) ELSE @]

(* The value is validated after the rename has moved the secret. *)
ChangeVariable(r, e, name, value, valid) ==
    LET row == db.variables[e]
        refs == {env_var_ref(row.scope, row.name), env_var_ref(row.scope, name)}
        moved == _rename_row(row, name)
        secrets == IF value /\ row.secret THEN moved \cup {Renamed(row, name).ref} ELSE moved
    IN /\ Named(db.variables, row.scope, name) \subseteq {e}
       /\ row.name # name \/ value
       /\ IF valid THEN Store(r, "variables", e, Renamed(row, name), refs, secrets)
          ELSE value /\ row.secret /\ row.name # name /\ Refused(refs, moved)

update_environment_variable(r) ==
    \E e \in Live(db.variables), name \in VarName, value, valid \in BOOLEAN :
        /\ db.variables[e].scope # Platform /\ AManager(db.variables[e].scope)
        /\ ChangeVariable(r, e, name, value, valid)

update_platform_environment_variable(r) ==
    \E e \in Live(db.variables), name \in VarName, value, valid \in BOOLEAN :
        /\ db.variables[e].scope = Platform /\ AnAdmin
        /\ ChangeVariable(r, e, name, value, valid)

DropVariable(r, e) ==
    LET row == db.variables[e]
    IN Store(r, "variables", e, None, {env_var_ref(row.scope, row.name)}, vault \ {row.ref})

delete_environment_variable(r) ==
    \E e \in Live(db.variables) :
        /\ db.variables[e].scope # Platform /\ AManager(db.variables[e].scope)
        /\ DropVariable(r, e)

delete_platform_environment_variable(r) ==
    \E e \in Live(db.variables) :
        db.variables[e].scope = Platform /\ AnAdmin /\ DropVariable(r, e)

VaultRequest ==
    \/ \E r \in Request :
          \/ create_integration(r) \/ admin_create_integration(r)
          \/ update_integration(r) \/ admin_update_integration(r)
          \/ delete_integration(r) \/ admin_delete_integration(r)
          \/ create_environment_variable(r) \/ create_platform_environment_variable(r)
          \/ update_environment_variable(r) \/ update_platform_environment_variable(r)
          \/ delete_environment_variable(r) \/ delete_platform_environment_variable(r)
    \/ test_integration \/ admin_test_integration

VaultNext == (left["vault"] > 0 /\ VaultRequest) \/ \E r \in Request : CommitStore(r)

-----------------------------------------------------------------------------
(* A secret is stored exactly while a row refers to it, although no         *)
(* transaction spans the two stores: for every reference that no request    *)
(* is working on and whose history no overlap, refusal or broken-off        *)
(* request has torn.                                                        *)
Referring(d) == {d.integrations[i].ref : i \in Live(d.integrations)}
                \cup {d.variables[e].ref : e \in Live(d.variables)}

VaultMatchesRows ==
    \A ref \in (vault \cup Referring(db)) \ ({None} \cup marks.torn \cup Working) :
        ref \in vault /\ ref \in Referring(db)
=============================================================================
