--------------------------- MODULE Archive_proofs ---------------------------
(***************************************************************************)
(* What holds of Archive for any names, texts, databases to start from and *)
(* any number of exports, edits, changes by others, imports and failures:  *)
(* an import does nothing that was not asked for, and an archive that      *)
(* arrives whole runs as it ran where it was made.                         *)
(*                                                                         *)
(* An import writes its rows in three folds.  That such a fold computes,   *)
(* and what it keeps, is an induction over the sets of rows handled, which *)
(* the library's theorem on strict inclusion allows.                       *)
(***************************************************************************)
EXTENDS Archive, FiniteSetTheorems, TLAPS

Some(s) == CHOOSE x \in s : TRUE

LEMMA SomeSays ==
    ASSUME NEW s, s # {}
    PROVE  Some(s) \in s
  BY Zenon DEF Some

\* Induction over the finite sets, for a set of them.
LEMMA SetInduction ==
    ASSUME NEW S, IsFiniteSet(S), NEW G, {} \in G,
           \A s \in SUBSET S : s # {} /\ s \ {Some(s)} \in G => s \in G
    PROVE  S \in G
  <1> DEFINE R == StrictSubsetOrdering(S)
             T == (SUBSET S) \ G
  <1>1. SUFFICES ASSUME T # {} PROVE FALSE
    OBVIOUS
  <1>2. IsWellFoundedOn(R, SUBSET S)
    <2>1. FiniteSubsetsOf(S) = SUBSET S
      BY FS_FiniteSubsetsOfFinite
    <2>2. QED
      BY <2>1, FS_StrictSubsetOrderingWellFounded
  <1>3. PICK U \in T : \A V \in T : <<V, U>> \notin R
    <2> HIDE DEF R
    <2>1. T \subseteq SUBSET S
      OBVIOUS
    <2> HIDE DEF T
    <2>2. QED
      BY <1>1, <1>2, <2>1, WFMin
  <1>4. U # {} /\ Some(U) \in U
    BY SomeSays
  <1>5. <<U \ {Some(U)}, U>> \in R
    BY <1>4 DEF StrictSubsetOrdering
  <1>6. QED
    BY <1>3, <1>4, <1>5

\* Induction over the numbers up to n, for a set of them.
LEMMA Induction ==
    ASSUME NEW n \in Nat, NEW G, 0 \in G, \A m \in 0..n - 1 : m \in G => m + 1 \in G
    PROVE  0..n \subseteq G
  <1> DEFINE T == {1..m : m \in (0..n) \ G}
             R == StrictSubsetOrdering(1..n)
  <1>1. SUFFICES ASSUME NEW k \in (0..n) \ G PROVE FALSE
    OBVIOUS
  <1>2. IsWellFoundedOn(R, SUBSET (1..n))
    <2>1. IsFiniteSet(1..n)
      BY FS_Interval
    <2>2. FiniteSubsetsOf(1..n) = SUBSET (1..n)
      BY <2>1, FS_FiniteSubsetsOfFinite
    <2>3. QED
      BY <2>2, FS_StrictSubsetOrderingWellFounded
  <1>3. T \subseteq SUBSET (1..n) /\ T # {}
    <2>1. \A m \in 0..n : 1..m \subseteq 1..n
      OBVIOUS
    <2>2. QED
      BY <1>1, <2>1
  <1>4. PICK U \in T : \A V \in T : <<V, U>> \notin R
    <2> HIDE DEF R, T
    <2>1. QED
      BY <1>2, <1>3, WFMin
  <1>5. PICK m \in (0..n) \ G : U = 1..m
    BY <1>4
  <1>6. m # 0 /\ m - 1 \in (0..n) \ G
    BY <1>5
  <1>7. 1..m - 1 \subseteq 1..m /\ m \in 1..m /\ m \notin 1..m - 1
    BY <1>5, <1>6
  <1>8. <<1..m - 1, 1..m>> \in R
    BY <1>3, <1>5, <1>6, <1>7 DEF StrictSubsetOrdering
  <1>9. QED
    BY <1>4, <1>5, <1>6, <1>8

-----------------------------------------------------------------------------
(* The folds of an import. *)

\* One row of each table.
Step(kind, fails, x, v) ==
    IF kind = "flow" THEN WriteFlow(x, v)
    ELSE IF kind = "policy" THEN WritePolicy(x, v)
    ELSE _upsert_skill_scoped(x, v, fails)

Solution(f, kind, fails, base, S) ==
    f = [s \in SUBSET S |->
            IF s = {} THEN base ELSE Step(kind, fails, Some(s), f[s \ {Some(s)}])]

LEMMA RemoveSome ==
    ASSUME NEW S, IsFiniteSet(S), NEW s \in SUBSET S, s # {}
    PROVE  /\ Some(s) \in s /\ s \ {Some(s)} \in SUBSET S
           /\ Cardinality(s) \in Nat \ {0} /\ Cardinality(s \ {Some(s)}) = Cardinality(s) - 1
  <1>1. Some(s) \in s
    BY SomeSays
  <1>2. IsFiniteSet(s)
    BY FS_Subset
  <1>3. Cardinality(s) \in Nat /\ Cardinality(s) # 0
    BY <1>2, FS_CardinalityType, FS_EmptySet
  <1>4. QED
    BY <1>1, <1>2, <1>3, FS_RemoveElement

\* The recursive function of such a fold is there.
LEMMA Computable ==
    ASSUME NEW kind, NEW fails, NEW base, NEW S, IsFiniteSet(S)
    PROVE  \E f : Solution(f, kind, fails, base, S)
  <1> DEFINE n == Cardinality(S)
             Solved(f, s) ==
                 f[s] = IF s = {} THEN base ELSE Step(kind, fails, Some(s), f[s \ {Some(s)}])
             Solves(f, m) == /\ f = [s \in SUBSET S |-> f[s]]
                             /\ \A s \in SUBSET S : Cardinality(s) <= m => Solved(f, s)
             G == {m \in 0..n : \E f : Solves(f, m)}
  <1>0. n \in Nat /\ \A s \in SUBSET S : Cardinality(s) \in Nat /\ Cardinality(s) <= n
    BY FS_CardinalityType, FS_Subset
  <1>a. \A s \in SUBSET S : Cardinality(s) = 0 => s = {}
    BY FS_Subset, FS_EmptySet
  <1> HIDE DEF n
  <1>1. 0 \in G
    <2> DEFINE f == [s \in SUBSET S |-> base]
    <2>1. Solves(f, 0)
      BY <1>0, <1>a
    <2> HIDE DEF Solves
    <2>2. QED
      BY <1>0, <2>1
  <1>2. ASSUME NEW m \in 0..n - 1, m \in G PROVE m + 1 \in G
    <2>1. PICK f : Solves(f, m)
      BY <1>2
    <2> DEFINE g == [s \in SUBSET S |-> IF Cardinality(s) <= m THEN f[s]
                                        ELSE Step(kind, fails, Some(s), f[s \ {Some(s)}])]
    <2>2. ASSUME NEW s \in SUBSET S, Cardinality(s) <= m + 1 PROVE Solved(g, s)
      <3>1. CASE s = {}
        <4>1. Cardinality(s) <= m
          BY <1>0, <3>1, FS_EmptySet
        <4>2. g[s] = f[s] /\ Solved(f, s)
          BY <2>1, <4>1
        <4>3. QED
          BY <3>1, <4>2
      <3>2. CASE s # {}
        <4>1. s \ {Some(s)} \in SUBSET S /\ Cardinality(s) \in Nat
              /\ Cardinality(s \ {Some(s)}) = Cardinality(s) - 1
          BY <3>2, RemoveSome
        <4>2. Cardinality(s \ {Some(s)}) <= m
          BY <2>2, <4>1
        <4>3. g[s \ {Some(s)}] = f[s \ {Some(s)}]
          BY <4>1, <4>2
        <4>4. g[s] = Step(kind, fails, Some(s), f[s \ {Some(s)}])
          <5>1. CASE Cardinality(s) <= m
            BY <2>1, <3>2, <5>1
          <5>2. CASE ~(Cardinality(s) <= m)
            BY <5>2
          <5>3. QED
            BY <5>1, <5>2
        <4> HIDE DEF g
        <4>5. QED
          BY <3>2, <4>3, <4>4
      <3>3. QED
        BY <3>1, <3>2
    <2>3. g = [s \in SUBSET S |-> g[s]]
      OBVIOUS
    <2>4. m + 1 \in 0..n
      BY <1>0
    <2> HIDE DEF g
    <2>5. Solves(g, m + 1)
      BY <2>2, <2>3
    <2> HIDE DEF Solves
    <2>6. QED
      BY <2>4, <2>5
  <1>3. n \in G
    <2> HIDE DEF G
    <2>1. \A m \in 0..n - 1 : m \in G => m + 1 \in G
      BY <1>2
    <2>2. 0..n \subseteq G
      BY <1>0, <1>1, <2>1, Induction
    <2>3. QED
      BY <1>0, <2>2
  <1>4. PICK f : Solves(f, n)
    BY <1>3
  <1>5. \A s \in SUBSET S : Solved(f, s)
    BY <1>0, <1>4
  <1>6. Solution(f, kind, fails, base, S)
    BY <1>4, <1>5 DEF Solution
  <1>7. QED
    BY <1>6

\* The folds, as the library defines them.
Flowing(base, S) ==
    CHOOSE f : f = [s \in SUBSET S |->
        IF s = {} THEN base ELSE WriteFlow(Some(s), f[s \ {Some(s)}])]
Filing(base, S) ==
    CHOOSE f : f = [s \in SUBSET S |->
        IF s = {} THEN base ELSE WritePolicy(Some(s), f[s \ {Some(s)}])]
Filling(fails, base, S) ==
    CHOOSE f : f = [s \in SUBSET S |->
        IF s = {} THEN base ELSE _upsert_skill_scoped(Some(s), f[s \ {Some(s)}], fails)]

WrittenFlows(base, S) == FoldSet(WriteFlow, base, S)
WrittenPolicies(base, S) == FoldSet(WritePolicy, base, S)
WrittenSkills(fails, base, S) == FoldSet(LAMBDA s, k : _upsert_skill_scoped(s, k, fails), base, S)

LEMMA FlowingIs == \A base, S : WrittenFlows(base, S) = Flowing(base, S)[S]
  BY DEF WrittenFlows, FoldSet, MapThenFoldSet, Flowing, Some
LEMMA FilingIs == \A base, S : WrittenPolicies(base, S) = Filing(base, S)[S]
  BY DEF WrittenPolicies, FoldSet, MapThenFoldSet, Filing, Some
LEMMA FillingIs == \A fails, base, S : WrittenSkills(fails, base, S) = Filling(fails, base, S)[S]
  BY DEF WrittenSkills, FoldSet, MapThenFoldSet, Filling, Some

FlowsFolded(h, base, S) ==
    /\ h[{}] = base /\ h[S] = WrittenFlows(base, S)
    /\ \A s \in SUBSET S : s # {} => h[s] = WriteFlow(Some(s), h[s \ {Some(s)}])

LEMMA FlowsSay ==
    ASSUME NEW base, NEW S, IsFiniteSet(S)
    PROVE  \E h : FlowsFolded(h, base, S)
  <1> DEFINE F(f) == [s \in SUBSET S |->
                         IF s = {} THEN base ELSE WriteFlow(Some(s), f[s \ {Some(s)}])]
             h == Flowing(base, S)
  <1>1. PICK f : Solution(f, "flow", {}, base, S)
    BY Computable
  <1>2. f = F(f)
    BY <1>1 DEF Solution, Step
  <1>3. h = F(h)
    BY <1>2 DEF Flowing
  <1>4. h[S] = WrittenFlows(base, S)
    BY FlowingIs
  <1> HIDE DEF h
  <1>5. \A s \in SUBSET S : h[s] = IF s = {} THEN base ELSE WriteFlow(Some(s), h[s \ {Some(s)}])
    BY <1>3, Zenon
  <1>6. h[{}] = base
    BY <1>5
  <1>7. FlowsFolded(h, base, S)
    BY <1>4, <1>5, <1>6 DEF FlowsFolded
  <1>8. QED
    BY <1>7

PoliciesFolded(h, base, S) ==
    /\ h[{}] = base /\ h[S] = WrittenPolicies(base, S)
    /\ \A s \in SUBSET S : s # {} => h[s] = WritePolicy(Some(s), h[s \ {Some(s)}])

LEMMA PoliciesSay ==
    ASSUME NEW base, NEW S, IsFiniteSet(S)
    PROVE  \E h : PoliciesFolded(h, base, S)
  <1> DEFINE F(f) == [s \in SUBSET S |->
                         IF s = {} THEN base ELSE WritePolicy(Some(s), f[s \ {Some(s)}])]
             h == Filing(base, S)
  <1>1. PICK f : Solution(f, "policy", {}, base, S)
    BY Computable
  <1>2. f = F(f)
    BY <1>1 DEF Solution, Step
  <1>3. h = F(h)
    BY <1>2 DEF Filing
  <1>4. h[S] = WrittenPolicies(base, S)
    BY FilingIs
  <1> HIDE DEF h
  <1>5. \A s \in SUBSET S : h[s] = IF s = {} THEN base ELSE WritePolicy(Some(s), h[s \ {Some(s)}])
    BY <1>3, Zenon
  <1>6. h[{}] = base
    BY <1>5
  <1>7. PoliciesFolded(h, base, S)
    BY <1>4, <1>5, <1>6 DEF PoliciesFolded
  <1>8. QED
    BY <1>7

SkillsFolded(h, fails, base, S) ==
    /\ h[{}] = base /\ h[S] = WrittenSkills(fails, base, S)
    /\ \A s \in SUBSET S : s # {} =>
          h[s] = _upsert_skill_scoped(Some(s), h[s \ {Some(s)}], fails)

LEMMA SkillsSay ==
    ASSUME NEW fails, NEW base, NEW S, IsFiniteSet(S)
    PROVE  \E h : SkillsFolded(h, fails, base, S)
  <1> DEFINE F(f) == [s \in SUBSET S |->
                 IF s = {} THEN base ELSE _upsert_skill_scoped(Some(s), f[s \ {Some(s)}], fails)]
             h == Filling(fails, base, S)
  <1>1. PICK f : Solution(f, "skill", fails, base, S)
    BY Computable
  <1>2. f = F(f)
    BY <1>1 DEF Solution, Step
  <1>3. h = F(h)
    BY <1>2 DEF Filling
  <1>4. h[S] = WrittenSkills(fails, base, S)
    BY FillingIs
  <1> HIDE DEF h
  <1>5. \A s \in SUBSET S :
           h[s] = IF s = {} THEN base ELSE _upsert_skill_scoped(Some(s), h[s \ {Some(s)}], fails)
    BY <1>3, Zenon
  <1>6. h[{}] = base
    BY <1>5
  <1>7. SkillsFolded(h, fails, base, S)
    BY <1>4, <1>5, <1>6 DEF SkillsFolded
  <1>8. QED
    BY <1>7

-----------------------------------------------------------------------------
(* Types, and what an import under way knows of its archive and its scope.  *)

ZipTypes(z) ==
    /\ DOMAIN z = {"flows", "policies", "skills"}
    /\ z.flows \subseteq Manifest /\ IsFiniteSet(z.flows)
    /\ z.policies \subseteq PolicyFile /\ IsFiniteSet(z.policies)
    /\ z.skills \subseteq SkillFile /\ IsFiniteSet(z.skills)

Shown ==
    /\ ZipTypes(zip) /\ page.at \in {"workflows", "skills"} /\ page.scope \in Scope
    /\ page.skills \subseteq SkillName /\ \A n \in page.skills : At(page.scope, n) # None

\* What is being imported was analysed as it is, every row of it was decided on, and what
\* the import saw in its scope is still there.
Pending ==
    /\ page # None /\ job.at = page.at /\ job.scope = page.scope /\ Accepted(job.at, zip)
    /\ job.dec.flows \in [Rows(job.at, zip).flows -> Action]
    /\ job.dec.skills \in [Rows(job.at, zip).skills -> Action]
    /\ job.dec.policies \in [Rows(job.at, zip).policies -> Action]
    /\ \A k \in job.flows : \E f \in db.flows : f.scope = job.scope /\ Key(f) = k
    /\ \A s \in zip.skills : s.front \in page.skills => s.front \in job.skills

Types ==
    /\ DOMAIN db = {"flows", "policies", "skills"} /\ Tables(db)
    /\ zip # None => ZipTypes(zip)
    /\ page # None => Shown
    /\ job # None => Pending

LEMMA ImageFinite ==
    ASSUME NEW f, IsFiniteSet(DOMAIN f)
    PROVE  IsFiniteSet(Range(f))
  <1> DEFINE g == [x \in DOMAIN f |-> f[x]]
  <1>1. g \in Surjection(DOMAIN f, Range(f))
    BY DEF Surjection, Range
  <1> HIDE DEF g
  <1>2. QED
    BY <1>1, FS_Surjection

Written == {"imported", "overwritten"}

-----------------------------------------------------------------------------
(* The workflows of an import. *)

Matches(f, m) == f.scope = job.scope /\ Key(f) = Key(m)
Carries(f, m) == Matches(f, m) /\ f.text = m.text /\ f.refs = m.refs

\* What writing one workflow makes of the table.
FlowMoves(m, v, w) ==
    /\ w \subseteq FlowRow /\ IsFiniteSet(w)
    /\ \A x \in v : \E y \in w : Owner(y) = Owner(x) /\ y.active = x.active
    /\ \A y \in w : ~y.active \/ \E x \in v : Owner(x) = Owner(y) /\ x.active = y.active
    /\ \A x \in v : x \in w \/ (Matches(x, m) /\ job.dec.flows[x.name] = "overwrite")
    /\ _import_one_workflow(m) \in Written
       /\ (Key(m) \in job.flows => \E x \in v : Matches(x, m))
       => \E y \in w : Carries(y, m)

LEMMA FlowDecision ==
    ASSUME Types, job # None, job.at = "workflows", NEW m \in _parse_wrapper(zip)
    PROVE  /\ m \in Manifest /\ job.scope \in Scope /\ job.dec.flows[m.name] \in Action
           /\ _import_one_workflow(m) = "overwritten" =>
                 Key(m) \in job.flows /\ job.dec.flows[m.name] = "overwrite"
  <1>1. Pending /\ Shown /\ page # None
    BY DEF Types, Pending
  <1>2. m \in Manifest /\ job.scope \in Scope
    BY <1>1 DEF Pending, Shown, ZipTypes, _parse_wrapper
  <1>3. m.name \in Rows(job.at, zip).flows
    BY DEF Rows
  <1>4. job.dec.flows[m.name] \in Action
    BY <1>1, <1>3 DEF Pending
  <1>5. QED
    BY <1>2, <1>4 DEF Action, _import_one_workflow

LEMMA WriteFlowSays ==
    ASSUME Types, job # None, job.at = "workflows", NEW m \in _parse_wrapper(zip),
           NEW v \in SUBSET FlowRow, IsFiniteSet(v)
    PROVE  FlowMoves(m, v, WriteFlow(m, v))
  <1> DEFINE w == WriteFlow(m, v)
             old == {f \in v : f.scope = job.scope /\ Key(f) = Key(m)}
             set(f) == [f EXCEPT !.text = m.text, !.refs = m.refs]
             fresh == [scope |-> job.scope, name |-> m.name, version |-> m.version,
                       text |-> m.text, refs |-> m.refs, active |-> FALSE]
  <1>0. m \in Manifest /\ job.scope \in Scope
        /\ (_import_one_workflow(m) = "overwritten" =>
                 Key(m) \in job.flows /\ job.dec.flows[m.name] = "overwrite")
    BY FlowDecision
  <1>1. CASE _import_one_workflow(m) = "overwritten"
    <2>1. w = (v \ old) \cup {set(f) : f \in old}
      BY <1>1 DEF WriteFlow
    <2>2. ASSUME NEW f \in old
          PROVE  /\ set(f) \in FlowRow /\ Owner(set(f)) = Owner(f) /\ set(f).active = f.active
                 /\ Carries(set(f), m)
      <3>1. f \in FlowRow /\ f.scope = job.scope /\ Key(f) = Key(m)
        OBVIOUS
      <3>2. m.text \in Text /\ m.refs \in SUBSET SkillName
        BY <1>0 DEF Manifest
      <3>3. /\ set(f) \in FlowRow /\ set(f).scope = f.scope /\ set(f).name = f.name
            /\ set(f).version = f.version /\ set(f).active = f.active
            /\ set(f).text = m.text /\ set(f).refs = m.refs
        BY <3>1, <3>2 DEF FlowRow
      <3> HIDE DEF set
      <3>4. QED
        BY <3>1, <3>3 DEF Owner, Carries, Matches, Key
    <2>3. ASSUME NEW f \in old PROVE job.dec.flows[f.name] = "overwrite" /\ Matches(f, m)
      BY <1>0, <1>1 DEF Key, Matches
    <2>4. IsFiniteSet(w)
      <3>1. IsFiniteSet(old) /\ IsFiniteSet(v \ old)
        BY FS_Subset
      <3> DEFINE g == [f \in old |-> set(f)]
                 new == {set(f) : f \in old}
      <3>2. new = Range(g) /\ DOMAIN g = old
        BY DEF Range
      <3>3. w = (v \ old) \cup new
        BY <2>1
      <3> HIDE DEF g, old, new, w
      <3>4. IsFiniteSet(new)
        BY <3>1, <3>2, ImageFinite
      <3>5. QED
        BY <3>1, <3>3, <3>4, FS_Union
    <2>5. \A x \in v : x \in old \/ x \in w
      BY <2>1
    <2>6. \A y \in w : y \in v \/ \E x \in old : y = set(x)
      BY <2>1
    <2>7. \A x \in old : set(x) \in w
      BY <2>1
    <2>8. old \subseteq v /\ ((\E x \in v : Matches(x, m)) => old # {})
      BY DEF Matches
    <2> HIDE DEF w, old, set
    <2>9. QED
      <3>1. w \subseteq FlowRow
        BY <2>2, <2>6
      <3>2. \A x \in v : \E y \in w : Owner(y) = Owner(x) /\ y.active = x.active
        BY <2>2, <2>5, <2>7
      <3>3. \A y \in w : ~y.active \/ \E x \in v : Owner(x) = Owner(y) /\ x.active = y.active
        BY <2>2, <2>6, <2>8
      <3>4. \A x \in v : x \in w \/ (Matches(x, m) /\ job.dec.flows[x.name] = "overwrite")
        BY <2>3, <2>5
      <3>5. (\E x \in v : Matches(x, m)) => \E y \in w : Carries(y, m)
        BY <2>2, <2>7, <2>8
      <3>6. QED
        BY <1>0, <1>1, <2>4, <3>1, <3>2, <3>3, <3>4, <3>5 DEF FlowMoves, w
  <1>2. CASE _import_one_workflow(m) = "imported"
    <2>1. w = v \cup {fresh}
      BY <1>2 DEF WriteFlow
    <2>2. fresh \in FlowRow /\ ~fresh.active /\ Carries(fresh, m)
      BY <1>0 DEF Manifest, FlowRow, Carries, Matches, Key
    <2> HIDE DEF fresh, w
    <2>3. IsFiniteSet(w)
      BY <2>1, FS_AddElement
    <2>4. QED
      BY <2>1, <2>2, <2>3 DEF FlowMoves, w
  <1>3. CASE _import_one_workflow(m) \notin Written
    <2>1. w = v
      BY <1>3 DEF WriteFlow, Written
    <2> HIDE DEF w
    <2>2. QED
      BY <1>3, <2>1 DEF FlowMoves, w
  <1>4. QED
    BY <1>1, <1>2, <1>3 DEF Written

\* What an import makes of the workflows, having written those in s.
FlowsGood(s, v) ==
    /\ v \subseteq FlowRow /\ IsFiniteSet(v)
    /\ \A x \in db.flows : \E y \in v : Owner(y) = Owner(x) /\ y.active = x.active
    /\ \A y \in v : ~y.active \/ \E x \in db.flows : Owner(x) = Owner(y) /\ x.active = y.active
    /\ \A x \in db.flows : x \in v \/ job.dec.flows[x.name] = "overwrite"
    /\ \A m \in s : _import_one_workflow(m) \in Written => \E y \in v : Carries(y, m)

LEMMA FlowsStep ==
    ASSUME Types, job # None, job.at = "workflows", NEW s \in SUBSET _parse_wrapper(zip),
           NEW m \in s, NEW v, FlowsGood(s \ {m}, v)
    PROVE  FlowsGood(s, WriteFlow(m, v))
  <1> DEFINE w == WriteFlow(m, v)
  <1>1. FlowMoves(m, v, w)
    BY WriteFlowSays DEF FlowsGood
  <1>2. \A n \in s : Key(n) = Key(m) => n = m
    BY DEF Types, Pending, Accepted, analyze_zip
  <1> HIDE DEF w
  <1>3. w \subseteq FlowRow /\ IsFiniteSet(w)
    BY <1>1 DEF FlowMoves
  <1>4. \A x \in db.flows : \E y \in w : Owner(y) = Owner(x) /\ y.active = x.active
    <2>1. SUFFICES ASSUME NEW x \in db.flows
                   PROVE  \E y \in w : Owner(y) = Owner(x) /\ y.active = x.active
      OBVIOUS
    <2>2. PICK y \in v : Owner(y) = Owner(x) /\ y.active = x.active
      BY DEF FlowsGood
    <2>3. PICK z \in w : Owner(z) = Owner(y) /\ z.active = y.active
      BY <1>1 DEF FlowMoves
    <2>4. QED
      BY <2>2, <2>3
  <1>5. \A y \in w : ~y.active \/ \E x \in db.flows : Owner(x) = Owner(y) /\ x.active = y.active
    <2>1. SUFFICES ASSUME NEW y \in w, y.active
                   PROVE  \E x \in db.flows : Owner(x) = Owner(y) /\ x.active = y.active
      OBVIOUS
    <2>2. PICK z \in v : Owner(z) = Owner(y) /\ z.active = y.active
      BY <1>1, <2>1 DEF FlowMoves
    <2>3. PICK x \in db.flows : Owner(x) = Owner(z) /\ x.active = z.active
      BY <2>1, <2>2 DEF FlowsGood
    <2>4. QED
      BY <2>2, <2>3
  <1>6. \A x \in db.flows : x \in w \/ job.dec.flows[x.name] = "overwrite"
    BY <1>1 DEF FlowMoves, FlowsGood
  <1>7. ASSUME NEW n \in s, _import_one_workflow(n) \in Written PROVE \E y \in w : Carries(y, n)
    <2>1. CASE n = m
      <3>1. Key(m) \in job.flows => \E x \in v : Matches(x, m)
        <4>1. SUFFICES ASSUME Key(m) \in job.flows PROVE \E x \in v : Matches(x, m)
          OBVIOUS
        <4>2. PICK f \in db.flows : f.scope = job.scope /\ Key(f) = Key(m)
          BY <4>1 DEF Types, Pending
        <4>3. PICK y \in v : Owner(y) = Owner(f)
          BY DEF FlowsGood
        <4>4. Matches(y, m)
          BY <4>2, <4>3 DEF Owner, Matches, Key
        <4>5. QED
          BY <4>4
      <3>2. QED
        BY <1>1, <1>7, <2>1, <3>1 DEF FlowMoves
    <2>2. CASE n # m
      <3>1. PICK y \in v : Carries(y, n)
        BY <1>7, <2>2 DEF FlowsGood
      <3>2. ~Matches(y, m)
        BY <1>2, <2>2, <3>1 DEF Carries, Matches
      <3>3. y \in w
        BY <1>1, <3>2 DEF FlowMoves
      <3>4. QED
        BY <3>1, <3>3
    <2>3. QED
      BY <2>1, <2>2
  <1>8. QED
    BY <1>3, <1>4, <1>5, <1>6, <1>7 DEF FlowsGood, w

LEMMA FlowsWritten ==
    ASSUME Types, job # None, job.at = "workflows"
    PROVE  FlowsGood(_parse_wrapper(zip), WrittenFlows(db.flows, _parse_wrapper(zip)))
  <1> DEFINE S == _parse_wrapper(zip)
             base == db.flows
  <1>1. IsFiniteSet(S)
    BY FS_Subset DEF Types, Pending, Shown, ZipTypes, _parse_wrapper
  <1> HIDE DEF S, base
  <1>2. PICK h : FlowsFolded(h, base, S)
    BY <1>1, FlowsSay
  <1> DEFINE G == {s \in SUBSET S : FlowsGood(s, h[s])}
  <1>3. {} \in G
    BY <1>2 DEF FlowsFolded, FlowsGood, Types, Tables, base
  <1>4. \A s \in SUBSET S : s # {} /\ s \ {Some(s)} \in G => s \in G
    <2>1. SUFFICES ASSUME NEW s \in SUBSET S, s # {}, s \ {Some(s)} \in G PROVE FlowsGood(s, h[s])
      OBVIOUS
    <2>2. Some(s) \in s
      BY <2>1, SomeSays
    <2>3. FlowsGood(s \ {Some(s)}, h[s \ {Some(s)}])
      BY <2>1
    <2> HIDE DEF S
    <2>4. FlowsGood(s, WriteFlow(Some(s), h[s \ {Some(s)}]))
      BY <2>2, <2>3, FlowsStep DEF S
    <2>5. QED
      BY <1>2, <2>1, <2>4 DEF FlowsFolded
  <1>5. S \in G
    <2> HIDE DEF S, G
    <2>1. QED
      BY <1>1, <1>3, <1>4, SetInduction
  <1>6. QED
    BY <1>2, <1>5 DEF FlowsFolded, S, base

-----------------------------------------------------------------------------
(* The policies of an import. *)

Into(a) == <<job.scope, a[1].name, a[1].version>>
Same(p, q) == p.flow = q.flow /\ Key(p) = Key(q)
Fits(p, a) == p.flow = Into(a) /\ Key(p) = Key(a[2])
Repeats(p, a) == Fits(p, a) /\ p.text = a[2].text
Asked(p) == job.dec.policies[<<p.flow[2], p.name>>] = "overwrite"

\* What writing one policy makes of the table.
PolicyMoves(a, v, w) ==
    /\ w \subseteq PolicyRow /\ IsFiniteSet(w)
    /\ \A x \in v : \E y \in w : Same(y, x) /\ y.active = x.active
    /\ \A y \in w : ~y.active \/ \E x \in v : Same(x, y) /\ x.active = y.active
    /\ \A x \in v : x \in w \/ (Fits(x, a) /\ Asked(x))
    /\ _import_one_policy(a[1], a[2]) \in Written
       /\ ((\E x \in db.policies : Fits(x, a)) => \E x \in v : Fits(x, a))
       => \E y \in w : Repeats(y, a)

LEMMA PolicyDecision ==
    ASSUME Types, job # None, job.at = "workflows", NEW a \in Attached(zip)
    PROVE  /\ a[1] \in Manifest /\ a[2] \in PolicyFile /\ job.scope \in Scope
           /\ _import_one_policy(a[1], a[2]) = "overwritten" =>
                 /\ \E x \in db.policies : Fits(x, a)
                 /\ \A p : Fits(p, a) => Asked(p)
  <1>1. Pending /\ Shown /\ page # None
    BY DEF Types, Pending
  <1>2. a[1] \in zip.flows /\ a[2] \in zip.policies
    BY DEF Attached
  <1>3. a[1] \in Manifest /\ a[2] \in PolicyFile /\ job.scope \in Scope
    BY <1>1, <1>2 DEF Pending, Shown, ZipTypes
  <1>4. <<a[1].name, a[2].name>> \in Rows(job.at, zip).policies
    BY DEF Rows
  <1>5. job.dec.policies[<<a[1].name, a[2].name>>] \in Action
    BY <1>1, <1>4 DEF Pending
  <1>6. ASSUME _import_one_policy(a[1], a[2]) = "overwritten"
        PROVE  /\ \E x \in db.policies : Fits(x, a)
               /\ job.dec.policies[<<a[1].name, a[2].name>>] = "overwrite"
    <2>1. \E x \in db.policies : x.flow = <<job.scope, a[1].name, a[1].version>> /\ Key(x) = Key(a[2])
      BY <1>6 DEF _import_one_policy
    <2>2. job.dec.policies[<<a[1].name, a[2].name>>] \notin {"import", "skip"}
      BY <1>6, <2>1 DEF _import_one_policy
    <2>3. QED
      BY <1>5, <2>1, <2>2 DEF Fits, Into, Action
  <1>7. \A p : Fits(p, a) => p.flow[2] = a[1].name /\ p.name = a[2].name
    BY DEF Fits, Into, Key
  <1>8. QED
    BY <1>3, <1>6, <1>7 DEF Asked

LEMMA WritePolicySays ==
    ASSUME Types, job # None, job.at = "workflows", NEW a \in Attached(zip),
           NEW v \in SUBSET PolicyRow, IsFiniteSet(v)
    PROVE  PolicyMoves(a, v, WritePolicy(a, v))
  <1> DEFINE w == WritePolicy(a, v)
             old == {p \in v : p.flow = Into(a) /\ Key(p) = Key(a[2])}
             set(p) == [p EXCEPT !.text = a[2].text]
             fresh == [scope |-> job.scope, flow |-> Into(a), name |-> a[2].name,
                       version |-> a[2].version, text |-> a[2].text, active |-> FALSE]
             out == _import_one_policy(a[1], a[2])
  <1>0. /\ a[1] \in Manifest /\ a[2] \in PolicyFile /\ job.scope \in Scope
        /\ out = "overwritten" => /\ \E x \in db.policies : Fits(x, a)
                                  /\ \A p : Fits(p, a) => Asked(p)
    BY PolicyDecision
  <1>1. CASE out = "overwritten"
    <2>1. w = (v \ old) \cup {set(p) : p \in old}
      BY <1>1 DEF WritePolicy, Into
    <2>2. ASSUME NEW p \in old
          PROVE  /\ set(p) \in PolicyRow /\ Same(set(p), p) /\ Same(p, set(p))
                 /\ set(p).active = p.active /\ Repeats(set(p), a)
      <3>1. p \in PolicyRow /\ p.flow = Into(a) /\ Key(p) = Key(a[2])
        OBVIOUS
      <3>2. a[2].text \in Text
        BY <1>0 DEF PolicyFile
      <3>3. /\ set(p) \in PolicyRow /\ set(p).flow = p.flow /\ set(p).name = p.name
            /\ set(p).version = p.version /\ set(p).active = p.active /\ set(p).text = a[2].text
        BY <3>1, <3>2 DEF PolicyRow
      <3> HIDE DEF set
      <3>4. QED
        BY <3>1, <3>3 DEF Same, Repeats, Fits, Key
    <2>3. ASSUME NEW p \in old PROVE Asked(p) /\ Fits(p, a)
      BY <1>0, <1>1 DEF Fits
    <2>4. IsFiniteSet(w)
      <3>1. IsFiniteSet(old) /\ IsFiniteSet(v \ old)
        BY FS_Subset
      <3> DEFINE g == [p \in old |-> set(p)]
                 new == {set(p) : p \in old}
      <3>2. new = Range(g) /\ DOMAIN g = old
        BY DEF Range
      <3>3. w = (v \ old) \cup new
        BY <2>1
      <3> HIDE DEF g, old, new, w
      <3>4. IsFiniteSet(new)
        BY <3>1, <3>2, ImageFinite
      <3>5. QED
        BY <3>1, <3>3, <3>4, FS_Union
    <2>5. \A x \in v : x \in old \/ x \in w
      BY <2>1
    <2>6. \A y \in w : y \in v \/ \E x \in old : y = set(x)
      BY <2>1
    <2>7. \A x \in old : set(x) \in w
      BY <2>1
    <2>8. old \subseteq v /\ ((\E x \in v : Fits(x, a)) => old # {})
      BY DEF Fits
    <2> HIDE DEF w, old, set
    <2>9. QED
      <3>1. w \subseteq PolicyRow
        BY <2>2, <2>6
      <3>2. \A x \in v : \E y \in w : Same(y, x) /\ y.active = x.active
        <4>1. \A x \in v : Same(x, x)
          BY DEF Same
        <4>2. QED
          BY <2>2, <2>5, <2>7, <4>1
      <3>3. \A y \in w : ~y.active \/ \E x \in v : Same(x, y) /\ x.active = y.active
        <4>1. \A x \in v : Same(x, x)
          BY DEF Same
        <4>2. QED
          BY <2>2, <2>6, <2>8, <4>1
      <3>4. \A x \in v : x \in w \/ (Fits(x, a) /\ Asked(x))
        BY <2>3, <2>5
      <3>5. (\E x \in v : Fits(x, a)) => \E y \in w : Repeats(y, a)
        BY <2>2, <2>7, <2>8
      <3>6. QED
        BY <1>0, <1>1, <2>4, <3>1, <3>2, <3>3, <3>4, <3>5 DEF PolicyMoves, w
  <1>2. CASE out = "imported"
    <2>1. w = v \cup {fresh}
      BY <1>2 DEF WritePolicy, Into
    <2>2. Into(a) \in Scope \X Name \X Version
      BY <1>0 DEF Into, Manifest
    <2>3. fresh \in PolicyRow /\ ~fresh.active /\ Repeats(fresh, a)
      BY <1>0, <2>2 DEF PolicyFile, PolicyRow, Repeats, Fits, Key
    <2> HIDE DEF fresh, w
    <2>4. IsFiniteSet(w)
      BY <2>1, FS_AddElement
    <2>5. \A x \in v : Same(x, x)
      BY DEF Same
    <2>6. QED
      BY <2>1, <2>3, <2>4, <2>5 DEF PolicyMoves, w
  <1>3. CASE out \notin Written
    <2>1. w = v
      BY <1>3 DEF WritePolicy, Written
    <2>2. \A x \in v : Same(x, x)
      BY DEF Same
    <2> HIDE DEF w
    <2>3. QED
      BY <1>3, <2>1, <2>2 DEF PolicyMoves, w
  <1>4. QED
    BY <1>1, <1>2, <1>3 DEF Written

\* What an import makes of the policies, having written those in s.
PoliciesGood(s, v) ==
    /\ v \subseteq PolicyRow /\ IsFiniteSet(v)
    /\ \A x \in db.policies : \E y \in v : Same(y, x) /\ y.active = x.active
    /\ \A y \in v : ~y.active \/ \E x \in db.policies : Same(x, y) /\ x.active = y.active
    /\ \A x \in db.policies : x \in v \/ Asked(x)
    /\ \A a \in s : _import_one_policy(a[1], a[2]) \in Written => \E y \in v : Repeats(y, a)

LEMMA PoliciesStep ==
    ASSUME Types, job # None, job.at = "workflows", NEW s \in SUBSET Attached(zip),
           NEW a \in s, NEW v, PoliciesGood(s \ {a}, v)
    PROVE  PoliciesGood(s, WritePolicy(a, v))
  <1> DEFINE w == WritePolicy(a, v)
  <1>1. PolicyMoves(a, v, w)
    BY WritePolicySays DEF PoliciesGood
  <1>2. ASSUME NEW b \in s, b # a, NEW p, Fits(p, b) PROVE ~Fits(p, a)
    <2>1. Accepted("workflows", zip) /\ a \in Attached(zip) /\ b \in Attached(zip)
      BY DEF Types, Pending
    <2>2. a[1] \in _parse_wrapper(zip) /\ b[1] \in _parse_wrapper(zip)
      BY <2>1 DEF Attached, slug_to_entry
    <2>3. SUFFICES ASSUME Fits(p, a) PROVE FALSE
      OBVIOUS
    <2>4. Key(a[1]) = Key(b[1]) /\ Key(a[2]) = Key(b[2])
      BY <1>2, <2>3 DEF Fits, Into, Key
    <2>5. a[1] = b[1]
      BY <2>1, <2>2, <2>4 DEF Accepted, analyze_zip
    <2>6. QED
      BY <1>2, <2>1, <2>4, <2>5 DEF Accepted, analyze_zip
  <1>3. \A x, y, z : Same(x, y) /\ Same(y, z) => Same(x, z)
    BY DEF Same
  <1> HIDE DEF w
  <1>4. w \subseteq PolicyRow /\ IsFiniteSet(w)
    BY <1>1 DEF PolicyMoves
  <1>5. \A x \in db.policies : \E y \in w : Same(y, x) /\ y.active = x.active
    <2>1. SUFFICES ASSUME NEW x \in db.policies
                   PROVE  \E y \in w : Same(y, x) /\ y.active = x.active
      OBVIOUS
    <2>2. PICK y \in v : Same(y, x) /\ y.active = x.active
      BY DEF PoliciesGood
    <2>3. PICK z \in w : Same(z, y) /\ z.active = y.active
      BY <1>1 DEF PolicyMoves
    <2>4. QED
      BY <1>3, <2>2, <2>3
  <1>6. \A y \in w : ~y.active \/ \E x \in db.policies : Same(x, y) /\ x.active = y.active
    <2>1. SUFFICES ASSUME NEW y \in w, y.active
                   PROVE  \E x \in db.policies : Same(x, y) /\ x.active = y.active
      OBVIOUS
    <2>2. PICK z \in v : Same(z, y) /\ z.active = y.active
      BY <1>1, <2>1 DEF PolicyMoves
    <2>3. PICK x \in db.policies : Same(x, z) /\ x.active = z.active
      BY <2>1, <2>2 DEF PoliciesGood
    <2>4. QED
      BY <1>3, <2>2, <2>3
  <1>7. \A x \in db.policies : x \in w \/ Asked(x)
    BY <1>1 DEF PolicyMoves, PoliciesGood
  <1>8. ASSUME NEW b \in s, _import_one_policy(b[1], b[2]) \in Written
        PROVE  \E y \in w : Repeats(y, b)
    <2>1. CASE b = a
      <3>1. (\E x \in db.policies : Fits(x, a)) => \E x \in v : Fits(x, a)
        <4>1. SUFFICES ASSUME NEW x \in db.policies, Fits(x, a) PROVE \E y \in v : Fits(y, a)
          OBVIOUS
        <4>2. PICK y \in v : Same(y, x)
          BY DEF PoliciesGood
        <4>3. Fits(y, a)
          BY <4>1, <4>2 DEF Fits, Same
        <4>4. QED
          BY <4>3
      <3>2. QED
        BY <1>1, <1>8, <2>1, <3>1 DEF PolicyMoves
    <2>2. CASE b # a
      <3>1. PICK y \in v : Repeats(y, b)
        BY <1>8, <2>2 DEF PoliciesGood
      <3>2. ~Fits(y, a)
        BY <1>2, <2>2, <3>1 DEF Repeats
      <3>3. y \in w
        BY <1>1, <3>2 DEF PolicyMoves
      <3>4. QED
        BY <3>1, <3>3
    <2>3. QED
      BY <2>1, <2>2
  <1>9. QED
    BY <1>4, <1>5, <1>6, <1>7, <1>8 DEF PoliciesGood, w

LEMMA AttachedFinite ==
    ASSUME NEW z, ZipTypes(z)
    PROVE  IsFiniteSet(Attached(z))
  <1>1. IsFiniteSet(z.flows \X z.policies)
    BY FS_Product DEF ZipTypes
  <1>2. QED
    BY <1>1, FS_Subset DEF Attached

LEMMA PoliciesWritten ==
    ASSUME Types, job # None, job.at = "workflows"
    PROVE  PoliciesGood(Attached(zip), WrittenPolicies(db.policies, Attached(zip)))
  <1> DEFINE S == Attached(zip)
             base == db.policies
  <1>1. IsFiniteSet(S)
    BY AttachedFinite DEF Types, Pending, Shown
  <1> HIDE DEF S, base
  <1>2. PICK h : PoliciesFolded(h, base, S)
    BY <1>1, PoliciesSay
  <1> DEFINE G == {s \in SUBSET S : PoliciesGood(s, h[s])}
  <1>3. {} \in G
    BY <1>2 DEF PoliciesFolded, PoliciesGood, Types, Tables, Same, base
  <1>4. \A s \in SUBSET S : s # {} /\ s \ {Some(s)} \in G => s \in G
    <2>1. SUFFICES ASSUME NEW s \in SUBSET S, s # {}, s \ {Some(s)} \in G
                   PROVE  PoliciesGood(s, h[s])
      OBVIOUS
    <2>2. Some(s) \in s
      BY <2>1, SomeSays
    <2>3. PoliciesGood(s \ {Some(s)}, h[s \ {Some(s)}])
      BY <2>1
    <2>4. PoliciesGood(s, WritePolicy(Some(s), h[s \ {Some(s)}]))
      BY <2>2, <2>3, PoliciesStep DEF S
    <2>5. QED
      BY <1>2, <2>1, <2>4 DEF PoliciesFolded
  <1>5. S \in G
    <2> HIDE DEF G
    <2>1. QED
      BY <1>1, <1>3, <1>4, SetInduction
  <1>6. QED
    BY <1>2, <1>5 DEF PoliciesFolded, S, base

-----------------------------------------------------------------------------
(* The skills of an import, from either endpoint.                           *)

\* What an import makes of the skills, having published those in s.
SkillsGood(s, fails, k) ==
    /\ k \in [Scope \X SkillName -> SkillRow \cup {None}]
    /\ \A x \in Scope \X SkillName : k[x] # db.skills[x] =>
          /\ x[1] = job.scope /\ k[x] \in SkillRow
          /\ \E t \in s : t.front = x[2] /\ _import_one_skill(t, fails) \in Written
    /\ \A t \in s : _import_one_skill(t, fails) \in Written =>
          /\ k[<<job.scope, t.front>>] \in SkillRow
          /\ k[<<job.scope, t.front>>].text = t.text

LEMMA SkillsDiffer ==
    ASSUME Types, job # None
    PROVE  /\ zip.skills \subseteq SkillFile /\ IsFiniteSet(zip.skills) /\ job.scope \in Scope
           /\ \A s, t \in zip.skills : s.front = t.front => s = t
  <1>1. Pending /\ Shown
    BY DEF Types, Pending
  <1>2. zip.skills \subseteq SkillFile /\ IsFiniteSet(zip.skills) /\ job.scope \in Scope
    BY <1>1 DEF Pending, Shown, ZipTypes
  <1>3. zip.skills # {} => build_skill_bundles(zip)
    BY <1>1 DEF Pending, Accepted, analyze_zip
  <1>4. QED
    BY <1>2, <1>3 DEF build_skill_bundles

LEMMA SkillsStep ==
    ASSUME Types, job # None, NEW fails, NEW s \in SUBSET zip.skills, NEW t \in s, NEW k,
           SkillsGood(s \ {t}, fails, k)
    PROVE  SkillsGood(s, fails, _upsert_skill_scoped(t, k, fails))
  <1> DEFINE w == _upsert_skill_scoped(t, k, fails)
             row == bundle_files_with_external(t)
             at == <<job.scope, t.front>>
  <1>1. /\ t \in SkillFile /\ job.scope \in Scope
        /\ \A u \in zip.skills : u.front = t.front => u = t
        /\ \A u \in zip.skills : u.dir \in SkillName /\ u.front \in SkillName
    BY SkillsDiffer DEF SkillFile
  <1>2. row \in SkillRow /\ row.text = t.text
    <2>1. t.links \in SUBSET SkillName /\ t.own \in SUBSET SkillName
      BY <1>1 DEF SkillFile
    <2>2. QED
      BY <1>1, <2>1 DEF bundle_files_with_external, SkillFile, SkillRow
  <1>3. at \in Scope \X SkillName
    BY <1>1
  <1>4. CASE _import_one_skill(t, fails) \in Written
    <2>1. w = [k EXCEPT ![at] = row]
      BY <1>4 DEF _upsert_skill_scoped, Written
    <2> HIDE DEF w, row
    <2>2. w \in [Scope \X SkillName -> SkillRow \cup {None}]
      BY <1>2, <2>1 DEF SkillsGood
    <2>3. w[at] = row /\ \A x \in Scope \X SkillName : x # at => w[x] = k[x]
      BY <1>3, <2>1 DEF SkillsGood
    <2>4. ASSUME NEW x \in Scope \X SkillName, w[x] # db.skills[x]
          PROVE  /\ x[1] = job.scope /\ w[x] \in SkillRow
                 /\ \E u \in s : u.front = x[2] /\ _import_one_skill(u, fails) \in Written
      <3>1. CASE x = at
        BY <1>2, <1>4, <2>3, <3>1
      <3>2. CASE x # at
        BY <2>3, <2>4, <3>2 DEF SkillsGood
      <3>3. QED
        BY <3>1, <3>2
    <2>5. ASSUME NEW u \in s, _import_one_skill(u, fails) \in Written
          PROVE  w[<<job.scope, u.front>>] \in SkillRow /\ w[<<job.scope, u.front>>].text = u.text
      <3>1. CASE u = t
        BY <1>2, <2>3, <3>1
      <3>2. CASE u # t
        <4>1. u.front # t.front /\ <<job.scope, u.front>> \in Scope \X SkillName
          BY <1>1, <3>2
        <4>2. w[<<job.scope, u.front>>] = k[<<job.scope, u.front>>]
          BY <2>3, <4>1
        <4>3. QED
          BY <2>5, <3>2, <4>2 DEF SkillsGood
      <3>3. QED
        BY <3>1, <3>2
    <2>6. QED
      BY <2>2, <2>4, <2>5 DEF SkillsGood, w
  <1>5. CASE _import_one_skill(t, fails) \notin Written
    <2>1. w = k
      BY <1>5 DEF _upsert_skill_scoped, Written
    <2> HIDE DEF w
    <2>2. QED
      BY <1>5, <2>1 DEF SkillsGood, w
  <1>6. QED
    BY <1>4, <1>5

LEMMA SkillsWritten ==
    ASSUME Types, job # None, NEW fails
    PROVE  SkillsGood(zip.skills, fails, WrittenSkills(fails, db.skills, zip.skills))
  <1> DEFINE S == zip.skills
             base == db.skills
  <1>1. IsFiniteSet(S)
    BY SkillsDiffer
  <1> HIDE DEF S, base
  <1>2. PICK h : SkillsFolded(h, fails, base, S)
    BY <1>1, SkillsSay
  <1> DEFINE G == {s \in SUBSET S : SkillsGood(s, fails, h[s])}
  <1>3. {} \in G
    BY <1>2 DEF SkillsFolded, SkillsGood, Types, Tables, base
  <1>4. \A s \in SUBSET S : s # {} /\ s \ {Some(s)} \in G => s \in G
    <2>1. SUFFICES ASSUME NEW s \in SUBSET S, s # {}, s \ {Some(s)} \in G
                   PROVE  SkillsGood(s, fails, h[s])
      OBVIOUS
    <2>2. Some(s) \in s
      BY <2>1, SomeSays
    <2>3. SkillsGood(s \ {Some(s)}, fails, h[s \ {Some(s)}])
      BY <2>1
    <2>4. SkillsGood(s, fails, _upsert_skill_scoped(Some(s), h[s \ {Some(s)}], fails))
      BY <2>2, <2>3, SkillsStep DEF S
    <2>5. QED
      BY <1>2, <2>1, <2>4 DEF SkillsFolded
  <1>5. S \in G
    <2> HIDE DEF G
    <2>1. QED
      BY <1>1, <1>3, <1>4, SetInduction
  <1>6. QED
    BY <1>2, <1>5 DEF SkillsFolded, S, base

-----------------------------------------------------------------------------
(* What an archive is made of, and what every step leaves of the types.     *)

LEMMA SkillsZipTypes ==
    ASSUME NEW skills, DOMAIN skills \subseteq SkillName, \A s \in DOMAIN skills : skills[s] \in SkillRow
    PROVE  /\ build_skills_zip(skills) \subseteq SkillFile
           /\ IsFiniteSet(build_skills_zip(skills))
  <1> DEFINE g == [s \in DOMAIN skills |->
                      [dir |-> s, front |-> skills[s].front, text |-> skills[s].text,
                       links |-> skills[s].links, own |-> skills[s].own]]
  <1>1. build_skills_zip(skills) = Range(g) /\ DOMAIN g = DOMAIN skills
    BY DEF build_skills_zip, Range
  <1>2. \A s \in DOMAIN skills : g[s] \in SkillFile
    BY DEF SkillRow, SkillFile
  <1> HIDE DEF g
  <1>3. IsFiniteSet(DOMAIN skills)
    BY ArchiveAssumption, FS_Subset
  <1>4. IsFiniteSet(Range(g))
    BY <1>1, <1>3, ImageFinite
  <1>5. QED
    BY <1>1, <1>2, <1>4 DEF Range

Effective(S) ==
    [s \in UNION {Found(f) : f \in S} |->
        _effective_skill((CHOOSE f \in S : s \in Found(f)).scope, s)]

LEMMA EffectiveSays ==
    ASSUME Types, NEW S \in SUBSET db.flows
    PROVE  /\ DOMAIN Effective(S) = UNION {Found(f) : f \in S}
           /\ DOMAIN Effective(S) \subseteq SkillName
           /\ \A s \in DOMAIN Effective(S) :
                /\ Effective(S)[s] \in SkillRow
                /\ \E f \in S : s \in Found(f) /\ Effective(S)[s] = _effective_skill(f.scope, s)
  <1>1. DOMAIN Effective(S) = UNION {Found(f) : f \in S}
    BY DEF Effective
  <1>2. \A f \in S : f \in FlowRow
    BY DEF Types, Tables
  <1>3. \A f \in S : Found(f) \subseteq SkillName
    BY <1>2 DEF Found, FlowRow
  <1>4. ASSUME NEW s \in DOMAIN Effective(S)
        PROVE  /\ Effective(S)[s] \in SkillRow
               /\ \E f \in S : s \in Found(f) /\ Effective(S)[s] = _effective_skill(f.scope, s)
    <2> DEFINE f == CHOOSE g \in S : s \in Found(g)
    <2>1. f \in S /\ s \in Found(f)
      BY <1>1, <1>4
    <2>2. Effective(S)[s] = _effective_skill(f.scope, s)
      BY <1>1, <1>4 DEF Effective
    <2> HIDE DEF f
    <2>3. f.scope \in Scope /\ s \in SkillName /\ Platform \in Scope
      BY <1>2, <1>3, <2>1, ArchiveAssumption DEF FlowRow
    <2>4. _effective_skill(f.scope, s) # None
      BY <2>1 DEF Found
    <2>5. _effective_skill(f.scope, s) \in SkillRow
      BY <2>3, <2>4 DEF _effective_skill, At, Types, Tables
    <2>6. QED
      BY <2>1, <2>2, <2>5
  <1>5. QED
    BY <1>1, <1>3, <1>4

LEMMA FlowsZipTypes ==
    ASSUME Types, NEW S \in SUBSET db.flows
    PROVE  ZipTypes(build_workflows_zip(S))
  <1> DEFINE z == build_workflows_zip(S)
             manifest(f) == [slug |-> slugify[f.name], name |-> f.name, version |-> f.version,
                             text |-> f.text, refs |-> f.refs, sound |-> "good"]
             file(f, q) == [dir |-> slugify[f.name], name |-> q.name, version |-> q.version,
                            text |-> q.text]
             g == [f \in S |-> manifest(f)]
             files(f) == {file(f, q) : q \in PoliciesOf(f)}
             h == [f \in S |-> files(f)]
  <1>1. IsFiniteSet(S) /\ IsFiniteSet(db.policies) /\ \A f \in S : f \in FlowRow
    BY FS_Subset DEF Types, Tables
  <1>0. DOMAIN z = {"flows", "policies", "skills"}
    BY DEF build_workflows_zip
  <1>2. z.flows = Range(g) /\ DOMAIN g = S
    BY DEF build_workflows_zip, Range
  <1>3. z.policies = UNION Range(h) /\ DOMAIN h = S
    BY DEF build_workflows_zip, Range
  <1>4. z.skills = build_skills_zip(Effective(S))
    BY DEF build_workflows_zip, Effective
  <1>5. ASSUME NEW f \in S PROVE g[f] \in Manifest
    BY <1>1, ArchiveAssumption DEF FlowRow, Manifest
  <1>6. ASSUME NEW f \in S PROVE h[f] \subseteq PolicyFile /\ IsFiniteSet(h[f])
    <2> DEFINE P == PoliciesOf(f)
               k == [q \in P |-> file(f, q)]
    <2>1. h[f] = Range(k) /\ DOMAIN k = P
      BY DEF Range
    <2>2. P \subseteq db.policies /\ P \subseteq PolicyRow
      BY DEF PoliciesOf, Types, Tables
    <2>3. IsFiniteSet(P)
      BY <1>1, <2>2, FS_Subset
    <2>4. slugify[f.name] \in Slug
      BY <1>1, ArchiveAssumption DEF FlowRow
    <2>5. \A q \in P : k[q] \in PolicyFile
      BY <2>2, <2>4 DEF PolicyRow, PolicyFile
    <2> HIDE DEF k, P, h
    <2>6. IsFiniteSet(Range(k))
      BY <2>1, <2>3, ImageFinite
    <2>7. QED
      BY <2>1, <2>5, <2>6 DEF Range
  <1> HIDE DEF g, h, z
  <1>7. IsFiniteSet(Range(g)) /\ IsFiniteSet(Range(h))
    BY <1>1, <1>2, <1>3, ImageFinite
  <1>8. \A T \in Range(h) : IsFiniteSet(T) /\ T \subseteq PolicyFile
    BY <1>3, <1>6 DEF Range
  <1>9. IsFiniteSet(UNION Range(h))
    BY <1>7, <1>8, FS_UNION
  <1>10. z.flows \subseteq Manifest /\ z.policies \subseteq PolicyFile
    BY <1>2, <1>3, <1>5, <1>8 DEF Range
  <1>11. z.skills \subseteq SkillFile /\ IsFiniteSet(z.skills)
    <2>1. build_skills_zip(Effective(S)) \subseteq SkillFile /\ IsFiniteSet(build_skills_zip(Effective(S)))
      BY EffectiveSays, SkillsZipTypes
    <2>2. QED
      BY <1>4, <2>1
  <1>12. QED
    BY <1>0, <1>2, <1>3, <1>7, <1>9, <1>10, <1>11 DEF ZipTypes, z

LEMMA TypesInit == Init => Types
  BY ArchiveAssumption DEF Init, Types

LEMMA ExportKeepsTypes ==
    ASSUME Types, export_workflows \/ export_skills
    PROVE  Types'
  <1>1. CASE export_workflows
    <2>1. PICK S \in SUBSET db.flows :
             zip' = build_workflows_zip(S) /\ page' = None /\ job = None /\ UNCHANGED <<db, job>>
      BY <1>1 DEF export_workflows
    <2>2. ZipTypes(zip')
      BY <2>1, FlowsZipTypes
    <2>3. QED
      BY <2>1, <2>2 DEF Types, ZipTypes, Tables
  <1>2. CASE export_skills
    <2>1. PICK N \in SUBSET {s \in SkillName : At(Platform, s) # None} :
             /\ zip' = [flows |-> {}, policies |-> {},
                        skills |-> build_skills_zip([s \in N |-> At(Platform, s)])]
             /\ page' = None /\ job = None /\ UNCHANGED <<db, job>>
      BY <1>2 DEF export_skills
    <2> DEFINE k == [s \in N |-> At(Platform, s)]
    <2>2. DOMAIN k \subseteq SkillName /\ \A s \in DOMAIN k : k[s] \in SkillRow
      BY ArchiveAssumption DEF At, Types, Tables
    <2> HIDE DEF k
    <2>3. build_skills_zip(k) \subseteq SkillFile /\ IsFiniteSet(build_skills_zip(k))
      BY <2>2, SkillsZipTypes
    <2>4. ZipTypes(zip')
      BY <2>1, <2>3, FS_EmptySet DEF ZipTypes, k
    <2>5. QED
      BY <2>1, <2>4 DEF Types, ZipTypes, Tables
  <1>3. QED
    BY <1>1, <1>2

LEMMA EditKeepsTypes ==
    ASSUME Types, RenameFile \/ Damage
    PROVE  Types'
  <1>1. zip # None /\ ZipTypes(zip)
    BY DEF RenameFile, Damage, Types
  <1>2. \E z : EditZip(z) /\ ZipTypes(z)
    <2>1. ASSUME NEW m \in zip.flows, NEW n \in Manifest
          PROVE  ZipTypes([zip EXCEPT !.flows = (@ \ {m}) \cup {n}])
      <3>1. IsFiniteSet((zip.flows \ {m}) \cup {n})
        <4>1. IsFiniteSet(zip.flows \ {m})
          BY <1>1, FS_Subset DEF ZipTypes
        <4>2. QED
          BY <4>1, FS_AddElement
      <3>2. QED
        BY <1>1, <3>1 DEF ZipTypes
    <2>2. CASE RenameFile
      <3>1. PICK m \in zip.flows, slug \in Slug :
               EditZip([zip EXCEPT !.flows = (@ \ {m}) \cup {[m EXCEPT !.slug = slug]}])
        BY <2>2 DEF RenameFile
      <3>2. [m EXCEPT !.slug = slug] \in Manifest
        BY <1>1 DEF ZipTypes, Manifest
      <3>3. QED
        BY <2>1, <3>1, <3>2
    <2>3. ASSUME NEW m \in zip.flows, NEW how \in {"content", "wrapper"},
                 EditZip([zip EXCEPT !.flows = (@ \ {m}) \cup {[m EXCEPT !.sound = how]}])
          PROVE  \E z : EditZip(z) /\ ZipTypes(z)
      <3>1. [m EXCEPT !.sound = how] \in Manifest
        BY <1>1 DEF ZipTypes, Manifest
      <3>2. QED
        BY <2>1, <2>3, <3>1
    <2>4. ASSUME NEW m \in zip.flows, EditZip([zip EXCEPT !.flows = @ \ {m}])
          PROVE  \E z : EditZip(z) /\ ZipTypes(z)
      <3>1. IsFiniteSet(zip.flows \ {m})
        BY <1>1, FS_Subset DEF ZipTypes
      <3>2. ZipTypes([zip EXCEPT !.flows = @ \ {m}])
        BY <1>1, <3>1 DEF ZipTypes
      <3>3. QED
        BY <2>4, <3>2
    <2>5. ASSUME NEW m \in zip.skills, EditZip([zip EXCEPT !.skills = @ \ {m}])
          PROVE  \E z : EditZip(z) /\ ZipTypes(z)
      <3>1. IsFiniteSet(zip.skills \ {m})
        BY <1>1, FS_Subset DEF ZipTypes
      <3>2. ZipTypes([zip EXCEPT !.skills = @ \ {m}])
        BY <1>1, <3>1 DEF ZipTypes
      <3>3. QED
        BY <2>5, <3>2
    <2>6. QED
      BY <2>2, <2>3, <2>4, <2>5 DEF Damage
  <1>3. ZipTypes(zip') /\ job = None /\ UNCHANGED <<db, page, job>>
    BY <1>2 DEF EditZip
  <1>4. page # None => Shown'
    BY <1>3 DEF Types, Shown, ZipTypes, At
  <1>5. Tables(db') /\ DOMAIN db' = {"flows", "policies", "skills"}
    BY <1>3 DEF Types, Tables
  <1>6. QED
    BY <1>3, <1>4, <1>5 DEF Types, ZipTypes

\* Others add rows, and the import under way still finds what it found.
LEMMA OthersKeepTypes ==
    ASSUME Types, OtherAdmin
    PROVE  Types'
  <1>1. UNCHANGED <<zip, page, job>>
    BY DEF OtherAdmin
  <1> DEFINE Grows == /\ Tables(db') /\ DOMAIN db' = {"flows", "policies", "skills"}
                      /\ db.flows \subseteq db'.flows
                      /\ \A x \in Scope \X SkillName :
                            db.skills[x] # None => db'.skills[x] # None
  <1>2. Grows
    <2>1. ASSUME NEW scope \in Scope, NEW n \in Name, NEW v \in Version,
                 db' = [db EXCEPT !.flows = @ \cup {[scope |-> scope, name |-> n, version |-> v,
                                                     text |-> NewText, refs |-> {}, active |-> TRUE]}]
          PROVE  Grows
      <3> DEFINE row == [scope |-> scope, name |-> n, version |-> v, text |-> NewText,
                         refs |-> {}, active |-> TRUE]
      <3>1. row \in FlowRow
        BY ArchiveAssumption DEF FlowRow
      <3> HIDE DEF row
      <3>2. IsFiniteSet(db.flows \cup {row})
        BY FS_AddElement DEF Types, Tables
      <3>3. QED
        BY <2>1, <3>1, <3>2 DEF Types, Tables, row
    <2>2. ASSUME NEW f \in db.flows, NEW n \in Name, NEW v \in Version,
                 db' = [db EXCEPT !.policies = @ \cup {[scope |-> f.scope, flow |-> Owner(f), name |-> n,
                                                        version |-> v, text |-> NewText, active |-> TRUE]}]
          PROVE  Grows
      <3> DEFINE row == [scope |-> f.scope, flow |-> Owner(f), name |-> n, version |-> v,
                         text |-> NewText, active |-> TRUE]
      <3>1. f \in FlowRow
        BY DEF Types, Tables
      <3>2. row \in PolicyRow
        BY <3>1, ArchiveAssumption DEF FlowRow, PolicyRow, Owner
      <3> HIDE DEF row
      <3>3. IsFiniteSet(db.policies \cup {row})
        BY FS_AddElement DEF Types, Tables
      <3>4. QED
        BY <2>2, <3>2, <3>3 DEF Types, Tables, row
    <2>3. ASSUME NEW x \in Scope \X SkillName,
                 db' = [db EXCEPT !.skills[x] = [front |-> x[2], text |-> NewText, md |-> TRUE,
                                                 links |-> {}, own |-> {}]]
          PROVE  Grows
      <3> DEFINE row == [front |-> x[2], text |-> NewText, md |-> TRUE, links |-> {}, own |-> {}]
      <3>1. row \in SkillRow /\ row # None
        <4>1. x[2] \in SkillName /\ NewText \in Text
          BY ArchiveAssumption
        <4>2. row \in SkillRow
          BY <4>1 DEF SkillRow
        <4>3. QED
          BY <4>2, ArchiveAssumption
      <3> HIDE DEF row
      <3>2. DOMAIN db' = DOMAIN db /\ db'.flows = db.flows /\ db'.policies = db.policies
            /\ db'.skills = [db.skills EXCEPT ![x] = row]
        BY <2>3 DEF Types, row
      <3>3. QED
        BY <3>1, <3>2 DEF Types, Tables
    <2>4. QED
      BY <2>1, <2>2, <2>3 DEF OtherAdmin
  <1>3. page # None => Shown'
    <2>1. ASSUME page # None PROVE Shown'
      <3>1. Shown
        BY <2>1 DEF Types
      <3>2. \A n \in page.skills : <<page.scope, n>> \in Scope \X SkillName
        BY <3>1 DEF Shown
      <3>3. QED
        BY <1>1, <1>2, <3>1, <3>2 DEF Shown, At, ZipTypes
    <2>2. QED
      BY <2>1
  <1>4. job # None => Pending'
    <2>1. ASSUME job # None PROVE Pending'
      <3>1. Pending
        BY <2>1 DEF Types
      <3>2. Accepted(job.at, zip)' /\ Rows(job.at, zip)' = Rows(job.at, zip)
        BY <1>1, <3>1 DEF Pending
      <3>3. \A k \in job.flows : \E f \in db'.flows : f.scope = job.scope /\ Key(f) = k
        BY <1>2, <3>1 DEF Pending
      <3>4. QED
        BY <1>1, <3>1, <3>2, <3>3 DEF Pending
    <2>2. QED
      BY <2>1
  <1>5. QED
    BY <1>1, <1>2, <1>3, <1>4 DEF Types, ZipTypes

LEMMA ShowKeepsTypes ==
    ASSUME Types, NEW at \in {"workflows", "skills"}, NEW scope \in Scope, Show(at, scope)
    PROVE  Types'
  <1>1. /\ zip # None /\ job = None /\ UNCHANGED <<db, zip, job>>
        /\ page'.at = at /\ page'.scope = scope
        /\ page'.skills = _existing_scoped_skill_names(scope, zip)
    BY DEF Show
  <1>2. ZipTypes(zip)
    BY <1>1 DEF Types
  <1>3. \A n \in page'.skills : n \in SkillName /\ At(scope, n) # None
    BY <1>1, <1>2 DEF _existing_scoped_skill_names, ZipTypes, SkillFile
  <1>4. Shown'
    BY <1>1, <1>2, <1>3 DEF Shown, ZipTypes, At
  <1>5. QED
    BY <1>1, <1>2, <1>4 DEF Types, Tables, ZipTypes

LEMMA StartKeepsTypes ==
    ASSUME Types, StartImport
    PROVE  Types'
  <1>1. page # None /\ Accepted(page.at, zip) /\ UNCHANGED <<db, zip, page>>
    BY DEF StartImport
  <1>2. PICK dec \in Decisions(page.rows) :
           /\ _check_decision_coverage(dec)
           /\ job' = [at |-> page.at, scope |-> page.scope, dec |-> dec,
                      flows |-> _existing_scoped_workflows(page.scope, zip),
                      skills |-> _existing_scoped_skill_names(page.scope, zip)]
    BY DEF StartImport
  <1>3. Shown
    BY <1>1 DEF Types
  <1>4. /\ dec.flows \in [Rows(page.at, zip).flows -> Action]
        /\ dec.skills \in [Rows(page.at, zip).skills -> Action]
        /\ dec.policies \in [Rows(page.at, zip).policies -> Action]
    BY <1>2 DEF Decisions, _check_decision_coverage
  <1>5. \A k \in job'.flows : \E f \in db.flows : f.scope = page.scope /\ Key(f) = k
    BY <1>2 DEF _existing_scoped_workflows, In
  <1>6. \A s \in zip.skills : s.front \in page.skills => s.front \in job'.skills
    BY <1>2, <1>3 DEF Shown, _existing_scoped_skill_names
  <1>7. Rows(page.at, zip) = Rows(page.at, zip)'  /\ Accepted(page.at, zip)'
    BY <1>1
  <1>8. Shown'
    BY <1>1, <1>3 DEF Shown, ZipTypes, At
  <1>9. Pending'
    <2>1. job'.at = page.at /\ job'.scope = page.scope /\ job'.dec = dec
      BY <1>2
    <2>2. QED
      BY <1>1, <1>4, <1>5, <1>6, <1>7, <2>1 DEF Pending
  <1>10. QED
    BY <1>1, <1>8, <1>9 DEF Types, Tables, ZipTypes

-----------------------------------------------------------------------------
(* The import as a whole.                                                   *)

Manifests == IF job.at = "skills" THEN {} ELSE _parse_wrapper(zip)
Policies == IF job.at = "skills" THEN {} ELSE Attached(zip)

\* What an import makes of the tables.
Applied(fails) ==
    /\ DOMAIN db' = {"flows", "policies", "skills"}
    /\ FlowsGood(Manifests, db'.flows)
    /\ PoliciesGood(Policies, db'.policies)
    /\ SkillsGood(zip.skills, fails, db'.skills)
    /\ job' = None /\ UNCHANGED <<zip, origin, intact, page>>
    /\ last' = [at |-> job.at, scope |-> job.scope,
                whole |-> Outcomes(fails) \subseteq Written]

LEMMA ApplySays ==
    ASSUME Types, job # None, NEW fails, Apply(fails)
    PROVE  Applied(fails)
  <1>1. db' = [flows |-> WrittenFlows(db.flows, Manifests),
               policies |-> WrittenPolicies(db.policies, Policies),
               skills |-> WrittenSkills(fails, db.skills, zip.skills)]
    BY Zenon DEF Apply, WrittenFlows, WrittenPolicies, WrittenSkills, Manifests, Policies
  <1>2. job.at \in {"workflows", "skills"}
    BY DEF Types, Pending, Shown
  <1>3. FlowsGood(Manifests, WrittenFlows(db.flows, Manifests))
    <2>1. CASE job.at = "workflows"
      BY <2>1, FlowsWritten DEF Manifests
    <2>2. CASE job.at = "skills"
      <3> DEFINE base == db.flows
      <3>1. IsFiniteSet({})
        BY FS_EmptySet
      <3> HIDE DEF base
      <3>2. PICK h : FlowsFolded(h, base, {})
        BY <3>1, FlowsSay
      <3>3. WrittenFlows(db.flows, Manifests) = db.flows
        BY <2>2, <3>2 DEF FlowsFolded, base, Manifests
      <3>4. FlowsGood({}, db.flows)
        BY DEF FlowsGood, Types, Tables
      <3>5. QED
        BY <2>2, <3>3, <3>4 DEF Manifests
    <2>3. QED
      BY <1>2, <2>1, <2>2
  <1>4. PoliciesGood(Policies, WrittenPolicies(db.policies, Policies))
    <2>1. CASE job.at = "workflows"
      BY <2>1, PoliciesWritten DEF Policies
    <2>2. CASE job.at = "skills"
      <3> DEFINE base == db.policies
      <3>1. IsFiniteSet({})
        BY FS_EmptySet
      <3> HIDE DEF base
      <3>2. PICK h : PoliciesFolded(h, base, {})
        BY <3>1, PoliciesSay
      <3>3. WrittenPolicies(db.policies, Policies) = db.policies
        BY <2>2, <3>2 DEF PoliciesFolded, base, Policies
      <3>4. PoliciesGood({}, db.policies)
        BY DEF PoliciesGood, Types, Tables, Same
      <3>5. QED
        BY <2>2, <3>3, <3>4 DEF Policies
    <2>3. QED
      BY <1>2, <2>1, <2>2
  <1>5. SkillsGood(zip.skills, fails, WrittenSkills(fails, db.skills, zip.skills))
    BY SkillsWritten
  <1>6. /\ job' = None /\ UNCHANGED <<zip, origin, intact, page>>
        /\ last' = [at |-> job.at, scope |-> job.scope,
                    whole |-> Outcomes(fails) \subseteq Written]
    BY DEF Apply, Written
  <1>7. /\ DOMAIN db' = {"flows", "policies", "skills"}
        /\ db'.flows = WrittenFlows(db.flows, Manifests)
        /\ db'.policies = WrittenPolicies(db.policies, Policies)
        /\ db'.skills = WrittenSkills(fails, db.skills, zip.skills)
    BY <1>1
  <1>8. FlowsGood(Manifests, db'.flows)
    BY <1>3, <1>7
  <1>9. PoliciesGood(Policies, db'.policies)
    BY <1>4, <1>7
  <1>10. SkillsGood(zip.skills, fails, db'.skills)
    BY <1>5, <1>7
  <1>11. QED
    BY <1>6, <1>7, <1>8, <1>9, <1>10 DEF Applied

LEMMA ImportIs ==
    ASSUME Import
    PROVE  job # None /\ \E fails : Apply(fails)
  BY DEF Import, import_workflows, import_skills

LEMMA ApplyKeepsTypes ==
    ASSUME Types, job # None, NEW fails, Applied(fails)
    PROVE  Types'
  <1>1. Tables(db') /\ DOMAIN db' = {"flows", "policies", "skills"}
    BY DEF Applied, Tables, FlowsGood, PoliciesGood, SkillsGood
  <1>2. page # None /\ Shown /\ job' = None /\ UNCHANGED <<zip, page>>
    BY DEF Types, Pending, Applied
  <1>3. \A x \in Scope \X SkillName : db.skills[x] # None => db'.skills[x] # None
    BY ArchiveAssumption DEF Applied, SkillsGood
  <1>4. Shown'
    <2>1. \A n \in page.skills : <<page.scope, n>> \in Scope \X SkillName
      BY <1>2 DEF Shown
    <2>2. QED
      BY <1>2, <1>3, <2>1 DEF Shown, At, ZipTypes
  <1>5. QED
    BY <1>1, <1>2, <1>4 DEF Types, Shown, ZipTypes

LEMMA TypesNext ==
    ASSUME Types, [Next]_vars
    PROVE  Types'
  <1>1. CASE export_workflows \/ export_skills
    BY <1>1, ExportKeepsTypes
  <1>2. CASE RenameFile \/ Damage
    BY <1>2, EditKeepsTypes
  <1>3. CASE OtherAdmin
    BY <1>3, OthersKeepTypes
  <1>4. CASE analyze_workflow_import \/ analyze_skill_import
    <2>1. PICK at \in {"workflows", "skills"}, scope \in Scope : Show(at, scope)
      BY <1>4, ArchiveAssumption DEF analyze_workflow_import, analyze_skill_import
    <2>2. QED
      BY <2>1, ShowKeepsTypes
  <1>5. CASE StartImport
    BY <1>5, StartKeepsTypes
  <1>6. CASE Import
    <2>1. PICK fails : job # None /\ Apply(fails)
      BY <1>6, ImportIs
    <2>2. Applied(fails)
      BY <2>1, ApplySays
    <2>3. QED
      BY <2>1, <2>2, ApplyKeepsTypes
  <1>7. CASE UNCHANGED vars
    BY <1>7 DEF vars, Types, Tables, Shown, Pending, ZipTypes, At
  <1>8. QED
    BY <1>1, <1>2, <1>3, <1>4, <1>5, <1>6, <1>7 DEF Next

-----------------------------------------------------------------------------
\* An import changes no row that was there when the user looked unless the
\* user chose to overwrite it, deletes none, activates none and deactivates
\* none, whoever else writes between the analysis and the commit.
THEOREM NothingIsUnasked == Spec => NothingUnasked
  <1> DEFINE Asking ==
        job # None /\ job' = None =>
        /\ Kept(db.flows, db'.flows, LAMBDA f, g : Owner(f) = Owner(g))
        /\ Kept(db.policies, db'.policies, LAMBDA p, q : p.flow = q.flow /\ Key(p) = Key(q))
        /\ \A f \in db.flows \ db'.flows : job.dec.flows[f.name] = "overwrite"
        /\ \A q \in db.policies \ db'.policies : job.dec.policies[<<q.flow[2], q.name>>] = "overwrite"
        /\ \A x \in Scope \X SkillName : db'.skills[x] # db.skills[x] =>
              /\ x[1] = page.scope
              /\ x[2] \in page.skills => job.dec.skills[x[2]] = "overwrite"
  <1>1. Types /\ [Next]_vars => Asking
    <2>1. SUFFICES ASSUME Types, [Next]_vars, job # None, job' = None
                   PROVE  Asking
      OBVIOUS
    <2>2. Import
      <3>1. UNCHANGED vars => job' = job
        BY DEF vars
      <3>2. Next => Import \/ job' = job \/ job = None
        BY DEF Next, export_workflows, export_skills, RenameFile, Damage, EditZip, OtherAdmin,
               analyze_workflow_import, analyze_skill_import, Show, StartImport
      <3>3. QED
        BY <2>1, <3>1, <3>2
    <2>3. PICK fails : Apply(fails)
      BY <2>2, ImportIs
    <2>4. Applied(fails)
      BY <2>1, <2>3, ApplySays
    <2>5. Kept(db.flows, db'.flows, LAMBDA f, g : Owner(f) = Owner(g))
      BY <2>4 DEF Applied, FlowsGood, Kept
    <2>6. Kept(db.policies, db'.policies, LAMBDA p, q : p.flow = q.flow /\ Key(p) = Key(q))
      BY <2>4 DEF Applied, PoliciesGood, Same, Kept
    <2>7. \A f \in db.flows \ db'.flows : job.dec.flows[f.name] = "overwrite"
      BY <2>4 DEF Applied, FlowsGood
    <2>8. \A q \in db.policies \ db'.policies : job.dec.policies[<<q.flow[2], q.name>>] = "overwrite"
      BY <2>4 DEF Applied, PoliciesGood, Asked
    <2>9. ASSUME NEW x \in Scope \X SkillName, db'.skills[x] # db.skills[x]
          PROVE  /\ x[1] = page.scope
                 /\ x[2] \in page.skills => job.dec.skills[x[2]] = "overwrite"
      <3>1. Pending
        BY <2>1 DEF Types
      <3>2. PICK t \in zip.skills : t.front = x[2] /\ _import_one_skill(t, fails) \in Written
        BY <2>4, <2>9 DEF Applied, SkillsGood
      <3>3. x[1] = page.scope
        BY <2>4, <2>9, <3>1 DEF Applied, SkillsGood, Pending
      <3>4. t.front \in page.skills => t.front \in job.skills
        BY <3>1 DEF Pending
      <3>5. job.dec.skills[t.front] \in Action
        BY <3>1 DEF Pending, Rows
      <3>6. t.front \in job.skills => job.dec.skills[t.front] \notin {"skip", "import"}
        BY <3>2 DEF _import_one_skill, Written
      <3>7. QED
        BY <3>2, <3>3, <3>4, <3>5, <3>6 DEF Action
    <2>10. QED
      BY <2>5, <2>6, <2>7, <2>8, <2>9
  <1>2. Types /\ [Next]_vars => [Asking]_vars
    BY <1>1
  <1>3. Types /\ [Next]_vars => Types'
    BY TypesNext
  <1>4. QED
    BY <1>2, <1>3, TypesInit, PTL DEF Spec, NothingUnasked

-----------------------------------------------------------------------------
(* What an intact archive still has of the workflows it was made of.        *)

Holds(z, o) ==
    /\ \E m \in z.flows : Key(m) = Key(o) /\ m.text = o.text /\ m.refs = o.refs
    /\ \A q \in o.policies : \E p \in z.policies :
          p.dir = slugify[o.name] /\ Key(p) = Key(q) /\ p.text = q.text
    /\ \A s \in DOMAIN o.given : \E t \in z.skills : t.dir = s /\ t.text = o.given[s]

\* Its manifests are sound and differ by what they are called; a file name may have been
\* changed, but not to what another manifest's policies are filed under.
Packed(z, made) ==
    /\ \A m \in z.flows : m.sound = "good"
    /\ \A m, n \in z.flows : Key(m) = Key(n) => m = n
    /\ \A m, n \in z.flows : slugify[m.name] = slugify[n.name] => m = n
    /\ \A m, n \in z.flows : m.slug = slugify[n.name] => m = n
    /\ \A p \in z.policies : \E m \in z.flows : p.dir = slugify[m.name]
    /\ \A p, q \in z.policies : p.dir = q.dir /\ Key(p) = Key(q) => p = q
    /\ \A s, t \in z.skills : s.dir = t.dir => s = t
    /\ \A o \in made : Holds(z, o)

Home == \A o \in origin : Arrived(o, last.scope)

Travels ==
    origin # {} /\ intact =>
        /\ Packed(zip, origin)
        /\ NamesAgree /\ last # None /\ last.at = "workflows" /\ last.whole => Home

LEMMA PackedFlows ==
    ASSUME Types, NEW S \in SUBSET db.flows, Exportable(S)
    PROVE  Packed(build_workflows_zip(S), Origin(S))
  <1> DEFINE z == build_workflows_zip(S)
             manifest(f) == [slug |-> slugify[f.name], name |-> f.name, version |-> f.version,
                             text |-> f.text, refs |-> f.refs, sound |-> "good"]
             file(f, q) == [dir |-> slugify[f.name], name |-> q.name, version |-> q.version,
                            text |-> q.text]
             skill(s) == [dir |-> s, front |-> Effective(S)[s].front, text |-> Effective(S)[s].text,
                          links |-> Effective(S)[s].links, own |-> Effective(S)[s].own]
             given(f) == {s \in f.refs : Given(f.scope, s) # None}
             made(f) == [name |-> f.name, version |-> f.version, text |-> f.text, refs |-> f.refs,
                         policies |-> {[name |-> q.name, version |-> q.version, text |-> q.text]
                                       : q \in PoliciesOf(f)},
                         given |-> [s \in given(f) |-> Given(f.scope, s).text]]
  <1>1. z.flows = {manifest(f) : f \in S}
    BY DEF build_workflows_zip
  <1>2. z.policies = UNION {{file(f, q) : q \in PoliciesOf(f)} : f \in S}
    BY DEF build_workflows_zip
  <1>3. z.skills = {skill(s) : s \in DOMAIN Effective(S)}
    BY DEF build_workflows_zip, build_skills_zip, Effective
  <1>4. Origin(S) = {made(f) : f \in S}
    BY DEF Origin
  <1>5. /\ \A f, g \in S : Key(f) = Key(g) => f = g
        /\ \A f, g \in S : slugify[f.name] = slugify[g.name] => f = g
        /\ \A f \in S : \A p, q \in PoliciesOf(f) : slugify[p.name] = slugify[q.name] => p = q
        /\ \A f, g \in S : \A s \in Found(f) \cap Found(g) :
              _effective_skill(f.scope, s) = _effective_skill(g.scope, s)
    BY DEF Exportable, SlugsDiffer
  <1>6. ASSUME NEW f \in S
        PROVE  /\ manifest(f).slug = slugify[f.name] /\ manifest(f).name = f.name
               /\ manifest(f).sound = "good" /\ Key(manifest(f)) = Key(f)
               /\ manifest(f).text = f.text /\ manifest(f).refs = f.refs
    BY DEF Key
  <1>7. ASSUME NEW f \in S, NEW q \in PoliciesOf(f)
        PROVE  /\ file(f, q).dir = slugify[f.name] /\ Key(file(f, q)) = Key(q)
               /\ file(f, q).text = q.text
    BY DEF Key
  <1>8. \A m \in z.flows : \E f \in S : m = manifest(f)
    BY <1>1
  <1>9. \A p \in z.policies : \E f \in S : \E q \in PoliciesOf(f) : p = file(f, q)
    BY <1>2
  <1>10. ASSUME NEW f \in S PROVE Holds(z, made(f))
    <2>1. /\ made(f).name = f.name /\ Key(made(f)) = Key(f)
          /\ made(f).text = f.text /\ made(f).refs = f.refs
          /\ made(f).policies = {[name |-> q.name, version |-> q.version, text |-> q.text]
                                       : q \in PoliciesOf(f)}
          /\ made(f).given = [s \in given(f) |-> Given(f.scope, s).text]
      BY DEF Key
    <2>2. manifest(f) \in z.flows
      BY <1>1
    <2>3. ASSUME NEW r \in made(f).policies
          PROVE  \E p \in z.policies : p.dir = slugify[f.name] /\ Key(p) = Key(r) /\ p.text = r.text
      <3>1. PICK q \in PoliciesOf(f) : r = [name |-> q.name, version |-> q.version, text |-> q.text]
        BY <2>1, <2>3
      <3>2. file(f, q) \in z.policies
        BY <1>2
      <3>3. Key(r) = Key(q) /\ r.text = q.text
        BY <3>1 DEF Key
      <3> HIDE DEF file, z, made
      <3>4. QED
        BY <1>7, <3>2, <3>3
    <2>4. ASSUME NEW s \in DOMAIN made(f).given
          PROVE  \E t \in z.skills : t.dir = s /\ t.text = made(f).given[s]
      <3>1. s \in given(f) /\ made(f).given[s] = Given(f.scope, s).text
        BY <2>1, <2>4
      <3>2. Given(f.scope, s) = _effective_skill(f.scope, s) /\ s \in Found(f)
        BY <3>1 DEF Given, _effective_skill, Found
      <3>3. s \in DOMAIN Effective(S)
        <4>1. DOMAIN Effective(S) = UNION {Found(g) : g \in S}
          BY EffectiveSays
        <4>2. QED
          BY <3>2, <4>1
      <3>4. PICK g \in S : s \in Found(g) /\ Effective(S)[s] = _effective_skill(g.scope, s)
        BY <3>3, EffectiveSays
      <3>5. Effective(S)[s] = Given(f.scope, s)
        BY <1>5, <3>2, <3>4
      <3>6. skill(s) \in z.skills /\ skill(s).dir = s /\ skill(s).text = Effective(S)[s].text
        BY <1>3, <3>3
      <3>7. QED
        BY <3>1, <3>5, <3>6
    <2> HIDE DEF made, manifest, z
    <2>5. \E m \in z.flows : /\ Key(m) = Key(made(f)) /\ m.text = made(f).text
                             /\ m.refs = made(f).refs
      BY <1>6, <2>1, <2>2
    <2>6. \A q \in made(f).policies : \E p \in z.policies :
             p.dir = slugify[made(f).name] /\ Key(p) = Key(q) /\ p.text = q.text
      BY <2>1, <2>3
    <2>7. QED
      BY <2>4, <2>5, <2>6 DEF Holds
  <1>11. \A s, t \in z.skills : s.dir = t.dir => s = t
    BY <1>3
  <1> HIDE DEF manifest, file, skill, made, z
  <1>12. \A m \in z.flows : m.sound = "good"
    BY <1>6, <1>8
  <1>13. \A m, n \in z.flows : /\ Key(m) = Key(n) => m = n
                               /\ slugify[m.name] = slugify[n.name] => m = n
                               /\ m.slug = slugify[n.name] => m = n
    <2>1. SUFFICES ASSUME NEW m \in z.flows, NEW n \in z.flows
                   PROVE  /\ Key(m) = Key(n) => m = n
                          /\ slugify[m.name] = slugify[n.name] => m = n
                          /\ m.slug = slugify[n.name] => m = n
      OBVIOUS
    <2>2. PICK f \in S : m = manifest(f)
      BY <1>8
    <2>3. PICK g \in S : n = manifest(g)
      BY <1>8
    <2>4. QED
      BY <1>5, <1>6, <2>2, <2>3
  <1>14. \A p \in z.policies : \E m \in z.flows : p.dir = slugify[m.name]
    BY <1>1, <1>6, <1>7, <1>9
  <1>15. \A p, q \in z.policies : p.dir = q.dir /\ Key(p) = Key(q) => p = q
    <2>1. SUFFICES ASSUME NEW p \in z.policies, NEW q \in z.policies, p.dir = q.dir, Key(p) = Key(q)
                   PROVE  p = q
      OBVIOUS
    <2>2. PICK f \in S : \E x \in PoliciesOf(f) : p = file(f, x)
      BY <1>9
    <2>3. PICK x \in PoliciesOf(f) : p = file(f, x)
      BY <2>2
    <2>4. PICK g \in S : \E y \in PoliciesOf(g) : q = file(g, y)
      BY <1>9
    <2>5. PICK y \in PoliciesOf(g) : q = file(g, y)
      BY <2>4
    <2>6. f = g
      BY <1>5, <1>7, <2>1, <2>3, <2>5
    <2>7. x.name = y.name
      BY <1>7, <2>1, <2>3, <2>5 DEF Key
    <2>8. QED
      BY <1>5, <2>3, <2>5, <2>6, <2>7
  <1>16. \A o \in Origin(S) : Holds(z, o)
    BY <1>4, <1>10
  <1>17. QED
    BY <1>11, <1>12, <1>13, <1>14, <1>15, <1>16 DEF Packed, z

LEMMA RenamedStaysPacked ==
    ASSUME NEW z, NEW made, DOMAIN z = {"flows", "policies", "skills"}, z.flows \subseteq Manifest,
           Packed(z, made), NEW m \in z.flows, NEW slug \in Slug,
           \A n \in z.flows : slug \notin {n.slug, slugify[n.name]}
    PROVE  Packed([z EXCEPT !.flows = (@ \ {m}) \cup {[m EXCEPT !.slug = slug]}], made)
  <1> DEFINE r == [m EXCEPT !.slug = slug]
             y == [z EXCEPT !.flows = (@ \ {m}) \cup {[m EXCEPT !.slug = slug]}]
  <1>1. /\ r.slug = slug /\ r.name = m.name /\ r.version = m.version /\ r.text = m.text
        /\ r.refs = m.refs /\ r.sound = m.sound
    BY DEF Manifest
  <1>2. y.flows = (z.flows \ {m}) \cup {r} /\ y.policies = z.policies /\ y.skills = z.skills
    OBVIOUS
  <1>3. Key(r) = Key(m)
    BY <1>1 DEF Key
  <1> HIDE DEF r, y
  <1>4. \A n \in y.flows : n = r \/ n \in z.flows \ {m}
    BY <1>2
  <1>5. \A k, n \in y.flows : /\ Key(k) = Key(n) => k = n
                              /\ slugify[k.name] = slugify[n.name] => k = n
    BY <1>1, <1>3, <1>4 DEF Packed
  <1>6. \A k, n \in y.flows : k.slug = slugify[n.name] => k = n
    BY <1>1, <1>4 DEF Packed
  <1>7. \A k \in y.flows : k.sound = "good"
    BY <1>1, <1>4 DEF Packed
  <1>8. \A n \in z.flows : \E k \in y.flows : k.name = n.name /\ Key(k) = Key(n)
                                              /\ k.text = n.text /\ k.refs = n.refs
    BY <1>1, <1>2, <1>3
  <1>9. \A p \in y.policies : \E k \in y.flows : p.dir = slugify[k.name]
    BY <1>2, <1>8 DEF Packed
  <1>10. \A o \in made : Holds(y, o)
    <2>1. SUFFICES ASSUME NEW o \in made PROVE Holds(y, o)
      OBVIOUS
    <2>2. Holds(z, o)
      BY DEF Packed
    <2>3. QED
      BY <1>2, <1>8, <2>2 DEF Holds
  <1>11. QED
    BY <1>2, <1>5, <1>6, <1>7, <1>9, <1>10 DEF Packed, y

\* A policy's directory is found under the manifest it was filed under.
LEMMA PackedAttached ==
    ASSUME NEW z, NEW made, Packed(z, made)
    PROVE  /\ _parse_wrapper(z) = z.flows
           /\ \A m \in z.flows, p \in z.policies :
                 <<m, p>> \in Attached(z) <=> p.dir = slugify[m.name]
           /\ \A a \in Attached(z) : a \in z.flows \X z.policies /\ a[2].dir = slugify[a[1].name]
  <1>1. _parse_wrapper(z) = z.flows
    BY DEF Packed, _parse_wrapper
  <1>2. ASSUME NEW m \in z.flows, NEW p \in z.policies
        PROVE  m \in slug_to_entry(z, p.dir) <=> p.dir = slugify[m.name]
    <2>1. PICK n \in z.flows : p.dir = slugify[n.name]
      BY DEF Packed
    <2>2. \A k \in z.flows : k.slug = p.dir => k = n
      BY <2>1 DEF Packed
    <2>3. slugify[m.name] = p.dir => m = n
      BY <2>1 DEF Packed
    <2>4. QED
      BY <1>1, <2>1, <2>2, <2>3 DEF slug_to_entry
  <1>3. \A m \in z.flows, p \in z.policies :
           <<m, p>> \in Attached(z) <=> p.dir = slugify[m.name]
    BY <1>2 DEF Attached
  <1>4. ASSUME NEW a \in Attached(z)
        PROVE  a \in z.flows \X z.policies /\ a[2].dir = slugify[a[1].name]
    <2>1. a \in z.flows \X z.policies /\ a[1] \in slug_to_entry(z, a[2].dir)
      BY DEF Attached
    <2>2. a[1] \in z.flows /\ a[2] \in z.policies
      BY <2>1
    <2>3. QED
      BY <1>2, <2>1, <2>2
  <1>5. QED
    BY <1>1, <1>3, <1>4

LEMMA PackedAccepted ==
    ASSUME NEW z, NEW made, Packed(z, made), made # {}, \A s \in z.skills : s.front = s.dir
    PROVE  Accepted("workflows", z)
  <1>1. z.flows # {}
    <2>1. PICK o \in made : Holds(z, o)
      BY DEF Packed
    <2>2. QED
      BY <2>1 DEF Holds
  <1>2. \A m, n \in _parse_wrapper(z) : Key(m) = Key(n) => m = n
    BY PackedAttached DEF Packed
  <1>3. \A s, t \in z.skills : s.front = t.front => s = t
    BY DEF Packed
  <1>4. ASSUME NEW a \in Attached(z), NEW b \in Attached(z), a[1] = b[1], Key(a[2]) = Key(b[2])
        PROVE  a = b
    <2>1. /\ a \in z.flows \X z.policies /\ b \in z.flows \X z.policies
          /\ a[2].dir = slugify[a[1].name] /\ b[2].dir = slugify[b[1].name]
      BY PackedAttached
    <2>2. a[2] = b[2]
      BY <1>4, <2>1 DEF Packed
    <2>3. QED
      BY <1>4, <2>1, <2>2
  <1>5. QED
    BY <1>1, <1>2, <1>3, <1>4 DEF Accepted, analyze_zip, build_skill_bundles

\* Imported whole, the archive leaves each workflow as it was where it came from.
LEMMA WholeArrives ==
    ASSUME Types, job # None, job.at = "workflows", Packed(zip, origin), NamesAgree,
           NEW fails, Applied(fails), Outcomes(fails) \subseteq Written
    PROVE  Home'
  <1>1. origin' = origin /\ last'.scope = job.scope /\ job.scope \in Scope
    BY DEF Applied, Types, Pending, Shown
  <1>2. Manifests = zip.flows /\ Policies = Attached(zip)
    BY PackedAttached DEF Manifests, Policies
  <1>3. \A m \in zip.flows : \E f \in db'.flows : Carries(f, m)
    <2>1. \A m \in zip.flows : _import_one_workflow(m) \in Outcomes(fails)
      BY <1>2, PackedAttached DEF Outcomes
    <2>2. QED
      BY <1>2, <2>1 DEF Applied, FlowsGood
  <1>4. \A a \in Attached(zip) : \E p \in db'.policies : Repeats(p, a)
    <2>1. \A a \in Attached(zip) : _import_one_policy(a[1], a[2]) \in Outcomes(fails)
      BY DEF Outcomes
    <2>2. QED
      BY <1>2, <2>1 DEF Applied, PoliciesGood
  <1>5. \A s \in zip.skills : /\ db'.skills[<<job.scope, s.dir>>] # None
                              /\ db'.skills[<<job.scope, s.dir>>].text = s.text
    <2>1. \A s \in zip.skills : _import_one_skill(s, fails) \in Outcomes(fails)
      BY DEF Outcomes
    <2>2. \A s \in zip.skills : s.front = s.dir
      BY DEF NamesAgree
    <2>3. QED
      BY <2>1, <2>2, ArchiveAssumption DEF Applied, SkillsGood
  <1>6. SUFFICES ASSUME NEW o \in origin
                 PROVE  /\ \E f \in db'.flows :
                              /\ f.scope = job.scope
                              /\ Key(f) = Key(o) /\ f.text = o.text /\ f.refs = o.refs
                              /\ \A q \in o.policies : \E p \in db'.policies :
                                    p.flow = Owner(f) /\ Key(p) = Key(q) /\ p.text = q.text
                        /\ \A s \in DOMAIN o.given :
                              /\ db'.skills[<<job.scope, s>>] # None
                              /\ db'.skills[<<job.scope, s>>].text = o.given[s]
    BY <1>1 DEF Home, Arrived, In, PoliciesOf, Given, At
  <1>7. Holds(zip, o)
    BY DEF Packed
  <1>8. PICK m \in zip.flows : Key(m) = Key(o) /\ m.text = o.text /\ m.refs = o.refs
    BY <1>7 DEF Holds
  <1>9. PICK f \in db'.flows : Carries(f, m)
    BY <1>3
  <1>10. /\ f.scope = job.scope /\ Key(f) = Key(o) /\ f.text = o.text /\ f.refs = o.refs
         /\ Owner(f) = <<job.scope, m.name, m.version>>
    BY <1>8, <1>9 DEF Carries, Matches, Owner, Key
  <1>11. ASSUME NEW q \in o.policies
         PROVE  \E p \in db'.policies : p.flow = Owner(f) /\ Key(p) = Key(q) /\ p.text = q.text
    <2>1. PICK y \in zip.policies : y.dir = slugify[o.name] /\ Key(y) = Key(q) /\ y.text = q.text
      BY <1>7 DEF Holds
    <2>2. y.dir = slugify[m.name]
      BY <1>8, <2>1 DEF Key
    <2>3. <<m, y>> \in Attached(zip)
      BY <2>2, PackedAttached
    <2>4. PICK p \in db'.policies : Repeats(p, <<m, y>>)
      BY <1>4, <2>3
    <2>5. QED
      BY <1>10, <2>1, <2>4 DEF Repeats, Fits, Into
  <1>12. ASSUME NEW s \in DOMAIN o.given
         PROVE  /\ db'.skills[<<job.scope, s>>] # None
                /\ db'.skills[<<job.scope, s>>].text = o.given[s]
    <2>1. PICK t \in zip.skills : t.dir = s /\ t.text = o.given[s]
      BY <1>7 DEF Holds
    <2>2. QED
      BY <1>5, <2>1
  <1>13. QED
    BY <1>10, <1>11, <1>12

LEMMA TravelsInit == Init => Travels
  BY DEF Init, Travels

LEMMA TravelsNext ==
    ASSUME Types, Travels, [Next]_vars
    PROVE  Travels'
  <1>1. CASE export_workflows
    <2>1. PICK S \in SUBSET db.flows :
             /\ Exportable(S) /\ zip' = build_workflows_zip(S) /\ origin' = Origin(S) /\ last' = None
      BY <1>1 DEF export_workflows
    <2>2. Packed(build_workflows_zip(S), Origin(S))
      BY <2>1, PackedFlows
    <2>3. QED
      BY <2>1, <2>2 DEF Travels
  <1>2. CASE export_skills
    BY <1>2 DEF export_skills, Travels
  <1>3. CASE RenameFile
    <2>1. PICK m \in zip.flows, slug \in Slug :
             /\ \A n \in zip.flows : slug \notin {n.slug, slugify[n.name]}
             /\ zip' = [zip EXCEPT !.flows = (@ \ {m}) \cup {[m EXCEPT !.slug = slug]}]
      BY <1>3 DEF RenameFile, EditZip
    <2>2. UNCHANGED <<db, origin, intact, last>> /\ zip # None
      BY <1>3 DEF RenameFile, EditZip
    <2>3. /\ DOMAIN zip = {"flows", "policies", "skills"} /\ zip.flows \subseteq Manifest
          /\ zip'.skills = zip.skills
      BY <2>1, <2>2 DEF Types, ZipTypes
    <2>4. Packed(zip, origin) => Packed(zip', origin')
      <3>1. Packed(zip, origin) =>
               Packed([zip EXCEPT !.flows = (@ \ {m}) \cup {[m EXCEPT !.slug = slug]}], origin)
        BY <2>1, <2>3, RenamedStaysPacked
      <3>2. QED
        BY <2>1, <2>2, <3>1
    <2>5. (NamesAgree' <=> NamesAgree) /\ (Home' <=> Home)
      BY <2>2, <2>3 DEF NamesAgree, Home, Arrived, In, PoliciesOf, Given, At
    <2>6. QED
      BY <2>2, <2>4, <2>5 DEF Travels
  <1>4. CASE Damage \/ OtherAdmin
    BY <1>4 DEF Damage, OtherAdmin, Travels
  <1>5. CASE \/ UNCHANGED vars \/ StartImport
             \/ analyze_workflow_import \/ analyze_skill_import
    <2>1. UNCHANGED <<db, zip, origin, intact, last>>
      BY <1>5 DEF vars, StartImport, analyze_workflow_import, analyze_skill_import, Show
    <2>2. (NamesAgree' <=> NamesAgree) /\ (Home' <=> Home)
      BY <2>1 DEF NamesAgree, Home, Arrived, In, PoliciesOf, Given, At
    <2>3. QED
      BY <2>1, <2>2 DEF Travels
  <1>6. CASE Import
    <2>1. PICK fails : job # None /\ Apply(fails)
      BY <1>6, ImportIs
    <2>2. Applied(fails)
      BY <2>1, ApplySays
    <2>3. /\ UNCHANGED <<zip, origin, intact>>
          /\ last'.at = job.at /\ last'.whole = (Outcomes(fails) \subseteq Written)
      BY <2>2 DEF Applied
    <2>4. NamesAgree' <=> NamesAgree
      BY <2>3 DEF NamesAgree
    <2>5. Packed(zip, origin) /\ NamesAgree /\ job.at = "workflows" /\ Outcomes(fails) \subseteq Written
          => Home'
      BY <2>1, <2>2, WholeArrives
    <2>6. QED
      BY <2>3, <2>4, <2>5 DEF Travels
  <1>7. QED
    BY <1>1, <1>2, <1>3, <1>4, <1>5, <1>6 DEF Next

-----------------------------------------------------------------------------
\* What is exported from one scope is accepted by the import as long as nothing was lost
\* from the archive, whatever its files were renamed to; and imported whole into another
\* scope, it runs there as it ran before: each workflow has its text and its own policies,
\* and each step is given the skill it was given.
THEOREM RoundTrips == Spec => []RoundTrip
  <1>1. Travels => RoundTrip
    <2> SUFFICES ASSUME Travels, origin # {}, intact, NamesAgree
                 PROVE  /\ Accepted("workflows", zip)
                        /\ last # None /\ last.at = "workflows" /\ last.whole =>
                              \A o \in origin : Arrived(o, last.scope)
      BY DEF RoundTrip
    <2>1. Packed(zip, origin)
      BY DEF Travels
    <2>2. Accepted("workflows", zip)
      BY <2>1, PackedAccepted DEF NamesAgree
    <2>3. QED
      BY <2>2 DEF Travels, Home
  <1>2. Types /\ Travels /\ [Next]_vars => Types' /\ Travels'
    BY TypesNext, TravelsNext
  <1>3. QED
    BY <1>1, <1>2, TypesInit, TravelsInit, PTL DEF Spec
=============================================================================
