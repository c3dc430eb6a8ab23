\* The platform's tables and stores under concurrent requests, one area at a time.
SPECIFICATION Spec
CONSTANTS
    ann = ann  bob = bob  p1 = p1  p2 = p2  c1 = c1
    k1 = k1  w1 = w1  q1 = q1  i1 = i1  i2 = i2  e1 = e1
    User = {ann, bob}
    Project = {p1, p2}
    Category = {c1}
    SkillName = {"plan", "code"}
    WorkflowName = {"adhoc", "feature"}
    VarName = {"A", "B"}
    Skill = {k1, k2, k3}
    Workflow = {w1, w2}
    Policy = {q1, q2}
    Integration = {i1, i2}
    Variable = {e1, e2}
    Run = {n1}
    Request = {r1, r2}
    Kind = {"claude", "jira"}
    Vendors = {"claude"}
    Optional = {"jira"}
    AdHoc = "adhoc"
    None = None  Idle = Idle
    Start <- MCStart
SYMMETRY Symmetry
INVARIANTS TypeOK SomeoneInCharge BundlesSound VaultMatchesRows RunOwnsItsParts
PROPERTY PinsFrozen
CHECK_DEADLOCK FALSE
