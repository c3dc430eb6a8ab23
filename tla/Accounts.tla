------------------------------ MODULE Accounts ------------------------------
(***************************************************************************)
(* Users, platform roles, projects and their members: users.py, the user,  *)
(* project and member handlers of admin.py, and the member handlers a      *)
(* project manager uses (projects.py).                                     *)
(***************************************************************************)
EXTENDS Tables

LastManager(u, p) ==
    db.roster[<<u, p>>] = Manager /\ Cardinality({v \in User : db.roster[<<v, p>>] = Manager}) <= 1

(* The first request of an identity makes its row; the first row of all is  *)
(* an ADMIN.  The two selects come before the insert.                       *)
Arrive(r) ==
    \E u \in User :
        /\ db.users[u] = None
        /\ Open(r, "accounts",
                [op |-> "arrive", rows |-> {}, user |-> u,
                 role |-> IF Live(db.users) = {} THEN "ADMIN" ELSE "USER"])
        /\ UNCHANGED <<db, objects, vault, marks, faults>>

EnterUser(r) ==
    /\ Doing(r, "arrive")
    /\ Finish(r, IF db.users[req[r].user] # None THEN db
                 ELSE [db EXCEPT !.users[req[r].user] = [role |-> req[r].role, enabled |-> TRUE]])
    /\ UNCHANGED <<objects, vault, marks>>

Duel(r) == [marks EXCEPT !.duel = @ \/ \E job \in Others(r) : job.op \in {"role", "enable"}]

(* a bug: the check on one's own role is lost. *)
AskRoleUnchecked(r) ==
    \E a, u \in User, role \in {"ADMIN", "USER"} :
        /\ IsAdmin(a) /\ db.users[u] # None
        /\ Open(r, "accounts", [op |-> "role", rows |-> {}, user |-> u, role |-> role])
        /\ marks' = Duel(r)
        /\ UNCHANGED <<db, objects, vault, faults>>

(* update_user_role: an ADMIN may demote anybody else. *)
AskRole(r) ==
    \E a, u \in User, role \in {"ADMIN", "USER"} :
        /\ IsAdmin(a) /\ db.users[u] # None
        /\ a = u => role = "ADMIN"
        /\ Open(r, "accounts", [op |-> "role", rows |-> {}, user |-> u, role |-> role])
        /\ marks' = Duel(r)
        /\ UNCHANGED <<db, objects, vault, faults>>

SetRole(r) ==
    /\ Doing(r, "role")
    /\ Finish(r, [db EXCEPT !.users[req[r].user].role = req[r].role])
    /\ UNCHANGED <<objects, vault, marks>>

(* update_user_enabled: an ADMIN may disable anybody else. *)
AskEnabled(r) ==
    \E a, u \in User, on \in BOOLEAN :
        /\ IsAdmin(a) /\ db.users[u] # None
        /\ a = u => on
        /\ Open(r, "accounts", [op |-> "enable", rows |-> {}, user |-> u, on |-> on])
        /\ marks' = Duel(r)
        /\ UNCHANGED <<db, objects, vault, faults>>

SetEnabled(r) ==
    /\ Doing(r, "enable")
    /\ Finish(r, [db EXCEPT !.users[req[r].user].enabled = req[r].on])
    /\ UNCHANGED <<objects, vault, marks>>

-----------------------------------------------------------------------------
(* Projects.  An identifier is never used twice. *)

CreateProject ==
    \E u \in User, p \in Project \ (db.projects \cup marks.gone) :
        /\ AnAdmin /\ db.users[u] # None
        /\ Commit("accounts", [db EXCEPT !.projects = @ \cup {p}, !.roster[<<u, p>>] = Manager])
        /\ UNCHANGED <<objects, vault, marks>>

(* One DELETE and the cascades; the secrets of the project stay where they  *)
(* are, and so do its bundles.                                              *)
DeleteProject ==
    \E p \in db.projects, area \in Area \ {"engine"} :
        /\ AnAdmin
        /\ Commit(area, Cascade(db, p))
        /\ marks' = [marks EXCEPT !.gone = @ \cup {p}, !.torn = @ \cup RefsOf(p),
                                  !.behind = @ \cap Live(db'.skills)]
        /\ UNCHANGED <<objects, vault>>

-----------------------------------------------------------------------------
(* Members.  The administrator's handlers have no last-manager check. *)

Asked(p) == \E r \in Request : Doing(r, "member") /\ req[r].project = p
Loosen(p, d) ==
    [marks EXCEPT !.loose = IF ~Asked(p) /\ \E u \in User : d.roster[<<u, p>>] = Manager
                            THEN @ ELSE @ \cup {p}]

AddMember ==
    \E p \in db.projects, u \in User, role \in Role :
        /\ AnAdmin /\ db.users[u] # None /\ db.roster[<<u, p>>] = None
        /\ Commit("accounts", [db EXCEPT !.roster[<<u, p>>] = role])
        /\ UNCHANGED <<objects, vault, marks>>

UpdateMemberRole ==
    \E p \in db.projects, u \in User, role \in Role :
        /\ AnAdmin /\ db.roster[<<u, p>>] # None
        /\ Commit("accounts", [db EXCEPT !.roster[<<u, p>>] = role])
        /\ marks' = Loosen(p, db')
        /\ UNCHANGED <<objects, vault>>

RemoveMember ==
    \E p \in db.projects, u \in User :
        /\ AnAdmin /\ db.roster[<<u, p>>] # None
        /\ Commit("accounts", [db EXCEPT !.roster[<<u, p>>] = None])
        /\ marks' = Loosen(p, db')
        /\ UNCHANGED <<objects, vault>>

ManagerAddsMember ==
    \E p \in db.projects, u \in User, role \in Role :
        /\ AManager(p) /\ db.users[u] # None /\ db.roster[<<u, p>>] = None
        /\ Commit("accounts", [db EXCEPT !.roster[<<u, p>>] = role])
        /\ UNCHANGED <<objects, vault, marks>>

(* The count of managers is read here and acted on at the commit. *)
Race(r, p) ==
    [marks EXCEPT !.loose =
        IF \E job \in Others(r) : job.op = "member" /\ job.project = p THEN @ \cup {p} ELSE @]

AskMember(r, p, u, role) ==
    /\ AManager(p) /\ db.roster[<<u, p>>] # None
    /\ role # Manager => ~LastManager(u, p)
    /\ Open(r, "accounts", [op |-> "member", rows |-> {}, user |-> u, project |-> p, role |-> role])
    /\ marks' = Race(r, p)
    /\ UNCHANGED <<db, objects, vault, faults>>

ManagerAsksRole(r) ==
    \E p \in db.projects, u \in User, role \in Role : AskMember(r, p, u, role)

ManagerAsksRemoval(r) ==
    \E p \in db.projects, u \in User : AskMember(r, p, u, None)

(* The row may have gone meanwhile: the update or delete then fails. *)
SetMember(r) ==
    LET u == req[r].user
        p == req[r].project
        d == IF db.roster[<<u, p>>] = None THEN db ELSE [db EXCEPT !.roster[<<u, p>>] = req[r].role]
    IN /\ Doing(r, "member")
       /\ Finish(r, d)
       /\ marks' = IF p \in d.projects THEN Race(r, p) ELSE marks
       /\ UNCHANGED <<objects, vault>>

AccountsNext ==
    \/ \E r \in Request :
          \/ Arrive(r) \/ EnterUser(r) \/ AskRole(r) \/ SetRole(r)
          \/ AskEnabled(r) \/ SetEnabled(r)
          \/ ManagerAsksRole(r) \/ ManagerAsksRemoval(r) \/ SetMember(r)
    \/ CreateProject \/ DeleteProject
    \/ AddMember \/ UpdateMemberRole \/ RemoveMember \/ ManagerAddsMember

-----------------------------------------------------------------------------
(* Somebody can always administer the platform, although no handler counts  *)
(* administrators: the caller of a demotion stays an administrator himself. *)
(* It takes two such requests at once to lose the last one.                 *)
AdminRemains ==
    Live(db.users) # {} /\ ~marks.duel => AnAdmin

(* A project keeps a manager as long as only its managers edit the members, *)
(* one request at a time.                                                   *)
ManagerRemains ==
    \A p \in db.projects \ marks.loose : \E u \in User : db.roster[<<u, p>>] = Manager

SomeoneInCharge == AdminRemains /\ ManagerRemains
=============================================================================
