----------------------------- MODULE MCPlatform -----------------------------
(* One small company, and one start for every part of the platform: each    *)
(* behaviour has its requests in one or two areas.                          *)
EXTENDS Platform, TLC

CONSTANTS
    ann, bob, p1, p2, c1, k1, w1, q1, i1, i2, e1

Empty(ids) == [i \in ids |-> None]
Rows(ids, at, row) == [i \in ids |-> IF i = at THEN row ELSE None]

PlanStamp == StampOf([name |-> "plan", text |-> <<Platform, 0>>])

Company ==
    [users |-> [u \in User |-> IF u = ann THEN [role |-> "ADMIN", enabled |-> TRUE]
                               ELSE IF u = bob THEN [role |-> "USER", enabled |-> TRUE] ELSE None],
     roster |-> [m \in User \X Project |-> IF m = <<bob, p1>> THEN Manager ELSE None],
     projects |-> {p1}, categories |-> {c1},
     skills |-> Rows(Skill, k1, [scope |-> Platform, name |-> "plan", text |-> <<Platform, 0>>,
                                 stamp |-> PlanStamp]),
     workflows |-> Rows(Workflow, w1, [scope |-> Platform, name |-> "adhoc", uses |-> {"plan"},
                                       category |-> c1]),
     policies |-> Rows(Policy, q1, [scope |-> Platform, workflow |-> w1, active |-> TRUE]),
     integrations |-> Empty(Integration), variables |-> Empty(Variable), runs |-> Empty(Run)]

Bundles == PlanStamp.key :> PlanStamp.sha

Connected ==
    [Company EXCEPT
        !.projects = {p1, p2}, !.roster[ann, p2] = Manager,
        !.integrations[i2] = [project |-> p2, kind |-> "claude", label |-> 1, verified |-> TRUE,
                              ref |-> IntegrationRef(p2, "claude")],
        !.integrations[i1] = [project |-> p1, kind |-> "claude", label |-> 1, verified |-> TRUE,
                              ref |-> IntegrationRef(p1, "claude")],
        !.variables[e1] = [scope |-> Platform, name |-> "A", secret |-> TRUE,
                           ref |-> env_var_ref(Platform, "A")]]

Secrets == {IntegrationRef(p1, "claude"), IntegrationRef(p2, "claude"), env_var_ref(Platform, "A")}

(* The requests a behaviour has, by area. *)
For(area, n) == [a \in Area |-> IF a = area THEN n ELSE 0]
Also(b, area, n) == [b EXCEPT ![area] = n]

From(d, secrets, budget, f) ==
    [db |-> d, objects |-> Bundles, vault |-> secrets, left |-> budget, faults |-> f]

(* Slots for requests are interchangeable. *)
Symmetry == Permutations(Request)

MCStart ==
    {From([Company EXCEPT !.users = Empty(User), !.roster = Empty(User \X Project),
                          !.projects = {}], {}, For("accounts", 4), 0),
     From(Company, {}, For("accounts", 3), 1),
     From(Company, {}, For("skills", 3), 1),
     From(Company, {}, For("workflows", 3), 0),
     From(Company, {}, For("vault", 3), 0),
     From(Connected, Secrets, For("vault", 2), 1),
     From(Connected, Secrets, Also(For("engine", 3), "skills", 2), 1),
     From(Connected, Secrets, Also(For("engine", 3), "workflows", 1), 0),
     From(Connected, Secrets, Also(For("engine", 3), "vault", 1), 0)}
=============================================================================
