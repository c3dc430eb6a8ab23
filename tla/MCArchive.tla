------------------------------ MODULE MCArchive ------------------------------
(* An instance of Archive: two workflows that share skills, in a project and  *)
(* on the platform, with names that collide as file names.                    *)
EXTENDS Archive, TLC

Slugs == [x \in Name |-> CASE x = "Build it" -> "build-it" [] x = "build-it" -> "build-it"
                           [] OTHER -> x]

Flow(scope, name, refs) ==
    [scope |-> scope, name |-> name, version |-> 1, text |-> "v1", refs |-> refs, active |-> TRUE]
Its(f, name) ==
    [scope |-> f.scope, flow |-> Owner(f), name |-> name, version |-> 1, text |-> "v1", active |-> TRUE]
Skill(front, text, links) == [front |-> front, text |-> text, md |-> TRUE, links |-> links, own |-> {}]

NoSkills == [x \in Scope \X SkillName |-> None]

\* A project's workflow, its policy, and a skill that hides the platform's and
\* refers to a file of another.
Ours == Flow("p", "Build it", {"code", "test"})
Shadowing ==
    [flows |-> {Ours},
     policies |-> {Its(Ours, "strict")},
     skills |-> [NoSkills EXCEPT !["p", "code"] = Skill("code", "v1", {"test"}),
                                 ![Platform, "code"] = Skill("code", "v0", {}),
                                 ![Platform, "test"] = Skill("test", "v1", {})]]

\* Workflows of two scopes, and a skill that calls itself by another's name.
Theirs == Flow(Platform, "review", {"test"})
Mixed ==
    [flows |-> {Theirs, Flow("p", "build-it", {"code"}), Flow("p", "Build it", {})},
     policies |-> {Its(Theirs, "strict")},
     skills |-> [NoSkills EXCEPT ![Platform, "code"] = Skill("test", "v1", {}),
                                 ![Platform, "test"] = Skill("test", "v1", {})]]

Sources == {Shadowing, Mixed}

Bound == [what \in {"export", "edit", "other", "import", "fault"} |-> 1]
=============================================================================
