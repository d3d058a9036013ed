--------------------------- MODULE ConcludeProofs ---------------------------
\* What the exit code of a run says of its ledger, for every ledger: any number
\* of rows, and of groups nested to any depth.
EXTENDS Conclude, FiniteSetTheorems, WellFoundedInduction, TLAPS

-----------------------------------------------------------------------------
\* Sets of numbers: rows and groups are numbered in declaration order.

LEMMA LeastOf ==
    ASSUME NEW S \in SUBSET Nat, S # {}
    PROVE  \E m \in S : \A x \in S : m =< x
<1> DEFINE R == OpToRel(<, Nat)
<1>1. \A x, y \in Nat : x < y => <<x, y>> \in R
    BY Zenon DEF OpToRel
<1>2. PICK m \in S : \A x \in S : ~ (<<x, m>> \in R)
  <2> HIDE DEF R
  <2>1. IsWellFoundedOn(R, Nat)
    BY NatLessThanWellFounded, Zenon DEF R
  <2> QED
    BY <2>1, WFMin, Zenon
<1>3. \A x \in S : m =< x
  <2> HIDE DEF R
  <2>1. ASSUME NEW x \in S, ~ (m =< x)
        PROVE  x < m
    BY <2>1
  <2> QED
    BY <1>1, <1>2, <2>1
<1> QED
    BY <1>3

LEMMA FiniteIsBounded ==
    ASSUME NEW S \in SUBSET Nat, IsFiniteSet(S)
    PROVE  \E b \in Nat : \A x \in S : x =< b
<1> DEFINE Unbounded == {T \in SUBSET S : ~ \E b \in Nat : \A x \in T : x =< b}
           Sizes == {Cardinality(T) : T \in Unbounded}
<1>1. \A T \in SUBSET S : IsFiniteSet(T) /\ Cardinality(T) \in Nat
    BY FS_Subset, FS_CardinalityType
<1>2. SUFFICES ASSUME S \in Unbounded PROVE FALSE
    OBVIOUS
<1>3. Sizes \in SUBSET Nat /\ Sizes # {}
    BY <1>1, <1>2
<1>4. PICK m \in Sizes : \A n \in Sizes : m =< n
  <2> HIDE DEF Sizes
  <2> QED
    BY <1>3, LeastOf
<1>5. PICK T \in Unbounded : m = Cardinality(T)
    BY <1>4
<1>6. PICK x \in T : TRUE
  <2>1. T # {}
    <3>1. T = {} => \A y \in T : y =< 0
      OBVIOUS
    <3> QED
      BY <1>5, <3>1
  <2> QED
    BY <2>1
<1>7. /\ IsFiniteSet(T) /\ x \in Nat /\ Cardinality(T) \in Nat
      /\ Cardinality(T \ {x}) = Cardinality(T) - 1
    BY <1>1, <1>5, <1>6, FS_RemoveElement
<1>8. T \ {x} \notin Unbounded
  <2>1. T \ {x} \in Unbounded => Cardinality(T \ {x}) \in Sizes
    OBVIOUS
  <2>2. Cardinality(T \ {x}) \notin Sizes
    <3> HIDE DEF Sizes
    <3> QED
      BY <1>3, <1>4, <1>5, <1>7
  <2> QED
    BY <2>1, <2>2
<1>9. PICK b \in Nat : \A y \in T \ {x} : y =< b
    BY <1>5, <1>8
<1>10. b + x \in Nat /\ \A y \in T : y =< b + x
    BY <1>5, <1>7, <1>9
<1> QED
    BY <1>5, <1>10

LEMMA GreatestOf ==
    ASSUME NEW S \in SUBSET Nat, IsFiniteSet(S), S # {}
    PROVE  \E m \in S : \A x \in S : x =< m
<1>1. PICK b \in Nat : \A x \in S : x =< b
    BY FiniteIsBounded
<1> DEFINE D == {b - x : x \in S}
<1>2. D \in SUBSET Nat /\ D # {}
  <2>1. \A x \in S : x \in Nat /\ b - x \in Nat
    BY <1>1
  <2> QED
    BY <2>1
<1>3. PICK d \in D : \A e \in D : d =< e
  <2> HIDE DEF D
  <2> QED
    BY <1>2, LeastOf
<1>4. PICK m \in S : d = b - m
    BY <1>3
<1>5. \A x \in S : b - m =< b - x
    BY <1>3, <1>4
<1> QED
    BY <1>1, <1>4, <1>5

-----------------------------------------------------------------------------
\* The verdict of a group is that of its rows and of the groups nested in it.

VerdictOf(ledger, v, g) ==
    LET own == {ledger[r] : r \in Members(g)}
        inner == {v[h] : h \in Nested(g)} IN
    IF Members(g) = {} /\ Nested(g) = {} THEN "empty"
    ELSE IF Nested(g) = {} /\ own = {"not_started"} THEN "not_started"
    ELSE Fold(own \cup (inner \ {"empty", "not_started"})
                  \cup (IF "not_started" \in inner THEN {"unresolved"} ELSE {}))

\* The groups from the k-th on.
Above(k) == {g \in Groups : k =< g}

Solves(ledger, v, S) == v = [g \in S |-> VerdictOf(ledger, v, g)]

LEMMA SceneFacts ==
    ASSUME scene \in Scenes
    PROVE  /\ Root = 0 /\ Groups \in SUBSET Nat /\ Root \notin Groups /\ IsFiniteSet(Groups)
           /\ \A g \in Groups : scene.outer[g] \in Groups \cup {Root} /\ scene.outer[g] < g
           /\ \A r \in Rows : scene.home[r] \in Groups \cup {Root}
           /\ Rows \subseteq Nat /\ Root \notin Rows
           /\ scene.failedCode \in 1..255 /\ scene.dryRun \in BOOLEAN
<1>1. Root = 0 /\ Tasks \subseteq Nat \ {0}
    BY RootAssumption
<1>2. /\ Rows \subseteq Tasks /\ Groups \subseteq Nat \ {Root}
      /\ scene.home \in [Rows -> Groups \cup {Root}]
      /\ scene.outer \in [Groups -> Groups \cup {Root}]
      /\ \A g \in Groups : scene.outer[g] < g
      /\ IsFiniteSet(Groups) /\ scene.failedCode \in 1..255 /\ scene.dryRun \in BOOLEAN
    BY ScenesAssumed DEF SceneAssumption, Rows, Groups
<1> QED
    BY <1>1, <1>2

\* Only the groups nested in it matter to the verdict of a group.
LEMMA SameInner ==
    ASSUME NEW ledger, NEW v, NEW w, NEW g, \A h \in Nested(g) : v[h] = w[h]
    PROVE  VerdictOf(ledger, v, g) = VerdictOf(ledger, w, g)
<1>1. {v[h] : h \in Nested(g)} = {w[h] : h \in Nested(g)}
    OBVIOUS
<1> QED
    BY <1>1 DEF VerdictOf

\* Groups have finitely many others nested in them, so that every one has a
\* verdict.
LEMMA VerdictSolves ==
    ASSUME scene \in Scenes, NEW ledger
    PROVE  \A g \in Groups : Verdict(ledger)[g] = VerdictOf(ledger, Verdict(ledger), g)
<1> DEFINE Solved == {n \in Nat : \E v : Solves(ledger, v, Above(n))}
<1>0. \A g \in Groups : g \in Nat
    BY SceneFacts
<1>a. \A g \in Groups : \A h \in Nested(g) : h \in Groups /\ g < h
    BY SceneFacts DEF Nested
<1>1. Solved \in SUBSET Nat /\ Solved # {}
  <2>1. PICK b \in Nat : \A g \in Groups : g =< b
    BY SceneFacts, FiniteIsBounded
  <2>2. Above(b + 1) = {}
    BY <1>0, <2>1 DEF Above
  <2>3. Solves(ledger, [g \in {} |-> 0], {})
    BY DEF Solves
  <2>4. \E v : Solves(ledger, v, Above(b + 1))
    BY <2>2, <2>3
  <2>5. b + 1 \in Nat
    BY <2>1
  <2> QED
    BY <2>4, <2>5
<1>2. PICK n \in Solved : \A k \in Solved : n =< k
  <2> HIDE DEF Solved
  <2> QED
    BY <1>1, LeastOf
<1>3. PICK v : Solves(ledger, v, Above(n))
    BY <1>2
<1>4. n = 0
  <2> SUFFICES ASSUME n # 0 PROVE FALSE
    OBVIOUS
  <2> DEFINE m == n - 1
             w == [g \in Above(m) |-> IF g = m THEN VerdictOf(ledger, v, m) ELSE v[g]]
  <2>1. m \in Nat /\ m < n /\ \A g \in Above(m) : g = m \/ g \in Above(n)
    BY <1>0, <1>2 DEF Above
  <2>2. ASSUME NEW g \in Above(m) PROVE w[g] = VerdictOf(ledger, w, g)
    <3>1. \A h \in Nested(g) : h \in Above(m) /\ h # m
      BY <1>0, <1>a, <2>1 DEF Above
    <3>2. \A h \in Nested(g) : w[h] = v[h]
      BY <3>1
    <3>3. VerdictOf(ledger, w, g) = VerdictOf(ledger, v, g)
      <4> HIDE DEF w
      <4> QED
        BY <3>2, SameInner
    <3>4. g # m => v[g] = VerdictOf(ledger, v, g)
      BY <1>3, <2>1 DEF Solves
    <3> QED
      BY <3>3, <3>4
  <2>3. w = [g \in Above(m) |-> VerdictOf(ledger, w, g)]
    <3>1. w = [g \in Above(m) |-> w[g]]
      OBVIOUS
    <3> HIDE DEF w
    <3> QED
      BY <2>2, <3>1
  <2>4. Solves(ledger, w, Above(m))
    <3> HIDE DEF w
    <3> QED
      BY <2>3 DEF Solves
  <2>5. m \in Solved
    <3> HIDE DEF w
    <3> QED
      BY <2>1, <2>4
  <2> QED
    BY <1>2, <2>1, <2>5
<1>5. Above(0) = Groups
    BY <1>0 DEF Above
<1>6. Solves(ledger, v, Groups)
    BY <1>3, <1>4, <1>5
<1>7. Solves(ledger, Verdict(ledger), Groups)
    BY <1>6 DEF Solves, VerdictOf, Verdict
<1> QED
    BY <1>7 DEF Solves

-----------------------------------------------------------------------------
\* The worst thing in the ledger shows at its root.

\* What a row may be in once the sweep of Finish is over.
Final == {"done", "skipped", "blocked", "failed", "cancelled", "not_started", "incomplete"}

IsLedger(ledger) == \A r \in Rows : ledger[r] \in Final

\* What is worse than s.
Worse(s) == CASE s = "failed" -> {} [] s = "blocked" -> {"failed"}
              [] s = "cancelled" -> {"failed", "blocked"}

Severe == {"failed", "blocked", "cancelled"}

LEMMA FoldFacts ==
    ASSUME NEW S, "running" \notin S
    PROVE  /\ Fold(S) \in {"failed", "blocked", "cancelled", "incomplete", "done"}
           /\ \A s \in Severe : Fold(S) = s => s \in S
           /\ \A s \in Severe : s \in S /\ Worse(s) \cap S = {} => Fold(S) = s
<1>1. Fold(S) = IF "failed" \in S THEN "failed" ELSE IF "blocked" \in S THEN "blocked"
                ELSE IF "cancelled" \in S THEN "cancelled"
                ELSE IF S \cap {"pending", "incomplete", "unresolved"} # {} THEN "incomplete"
                ELSE "done"
    BY DEF Fold
<1>2. /\ Worse("failed") = {} /\ Worse("blocked") = {"failed"}
      /\ Worse("cancelled") = {"failed", "blocked"}
    BY DEF Worse
<1> QED
    BY <1>1, <1>2 DEF Severe

\* What Fold is given for a group.
Folded(ledger, v, g) ==
    LET inner == {v[h] : h \in Nested(g)} IN
    {ledger[r] : r \in Members(g)} \cup (inner \ {"empty", "not_started"})
        \cup (IF "not_started" \in inner THEN {"unresolved"} ELSE {})

LEMMA VerdictCases ==
    ASSUME NEW ledger, NEW v, NEW g
    PROVE  \/ /\ VerdictOf(ledger, v, g) \in {"empty", "not_started"}
              /\ \A r \in Members(g) : ledger[r] = "not_started"
              /\ Nested(g) = {}
           \/ VerdictOf(ledger, v, g) = Fold(Folded(ledger, v, g))
<1>1. CASE Members(g) = {} /\ Nested(g) = {}
    BY <1>1 DEF VerdictOf
<1>2. CASE Nested(g) = {} /\ {ledger[r] : r \in Members(g)} = {"not_started"}
  <2>1. VerdictOf(ledger, v, g) \in {"empty", "not_started"}
    BY <1>2 DEF VerdictOf
  <2>2. \A r \in Members(g) : ledger[r] = "not_started"
    BY <1>2
  <2> QED
    BY <1>2, <2>1, <2>2
<1>3. CASE /\ ~ (Members(g) = {} /\ Nested(g) = {})
           /\ ~ (Nested(g) = {} /\ {ledger[r] : r \in Members(g)} = {"not_started"})
    BY <1>3 DEF VerdictOf, Folded
<1> QED
    BY <1>1, <1>2, <1>3

\* No group is running once no row is.
LEMMA NoneRunning ==
    ASSUME scene \in Scenes, NEW ledger, IsLedger(ledger), NEW g \in Groups
    PROVE  Verdict(ledger)[g] # "running" /\ "running" \notin Folded(ledger, Verdict(ledger), g)
<1> DEFINE v == Verdict(ledger)
           B == {h \in Groups : v[h] = "running"}
<1>1. \A h \in Groups : v[h] = VerdictOf(ledger, v, h)
    BY VerdictSolves
<1>2. ASSUME NEW h \in Groups, \A k \in Nested(h) : v[k] # "running"
      PROVE  "running" \notin Folded(ledger, v, h)
  <2>1. \A r \in Members(h) : ledger[r] # "running"
    BY DEF IsLedger, Final, Members
  <2> HIDE DEF v
  <2> QED
    BY <1>2, <2>1 DEF Folded
<1>3. B = {}
  <2> SUFFICES ASSUME B # {} PROVE FALSE
    OBVIOUS
  <2>1. B \in SUBSET Nat /\ IsFiniteSet(B)
    BY SceneFacts, FS_Subset
  <2>2. PICK m \in B : \A x \in B : x =< m
    <3> HIDE DEF B
    <3> QED
      BY <2>1, GreatestOf
  <2>3. \A k \in Nested(m) : k \in Groups /\ m < k /\ m \in Nat /\ k \in Nat
    BY SceneFacts, <2>1 DEF Nested
  <2>4. \A k \in Nested(m) : v[k] # "running"
    <3>1. \A k \in Nested(m) : k \notin B
      <4> HIDE DEF B
      <4> QED
        BY <2>2, <2>3
    <3> HIDE DEF v
    <3> QED
      BY <2>3, <3>1
  <2>5. "running" \notin Folded(ledger, v, m)
    BY <1>2, <2>4
  <2>6. v[m] # "running"
    <3> HIDE DEF v
    <3> QED
      BY <1>1, <2>5, VerdictCases, FoldFacts
  <2> QED
    BY <2>6
<1>4. \A k \in Nested(g) : k \in Groups
    BY DEF Nested
<1> QED
  <2>1. v[g] # "running" /\ \A k \in Nested(g) : v[k] # "running"
    BY <1>3, <1>4
  <2> QED
    BY <1>2, <2>1

\* The bad state of a group is that of a row somewhere in it.
LEMMA RowsBeneath ==
    ASSUME scene \in Scenes, NEW ledger, IsLedger(ledger), NEW s \in Severe,
           NEW g \in Groups, Verdict(ledger)[g] = s
    PROVE  \E r \in Rows : ledger[r] = s
<1> DEFINE v == Verdict(ledger)
           B == {h \in Groups : v[h] = s}
<1>1. \A h \in Groups : v[h] = VerdictOf(ledger, v, h)
    BY VerdictSolves
<1>2. B \in SUBSET Nat /\ IsFiniteSet(B) /\ B # {}
    BY SceneFacts, FS_Subset
<1>3. PICK m \in B : \A x \in B : x =< m
  <2> HIDE DEF B
  <2> QED
    BY <1>2, GreatestOf
<1>4. \A k \in Nested(m) : k \in Groups /\ m < k /\ m \in Nat /\ k \in Nat
    BY SceneFacts, <1>2 DEF Nested
<1>5. \A k \in Nested(m) : v[k] # s
  <2>1. \A k \in Nested(m) : k \notin B
    <3> HIDE DEF B
    <3> QED
      BY <1>3, <1>4
  <2> HIDE DEF v
  <2> QED
    BY <1>4, <2>1
<1>6. m \in Groups /\ v[m] = s
    OBVIOUS
<1>7. s \in Folded(ledger, v, m)
  <2>1. "running" \notin Folded(ledger, v, m)
    BY <1>6, NoneRunning
  <2> HIDE DEF v
  <2> QED
    BY <1>1, <1>6, <2>1, VerdictCases, FoldFacts DEF Severe
<1>8. PICK r \in Members(m) : ledger[r] = s
  <2> HIDE DEF v
  <2> QED
    BY <1>5, <1>7 DEF Folded, Severe
<1> QED
    BY <1>8 DEF Members

\* The worst state there is, however deep the row is nested, is the verdict of
\* every group around it.
LEMMA Surfaces ==
    ASSUME scene \in Scenes, NEW ledger, IsLedger(ledger), NEW s \in Severe,
           NEW r \in Rows, ledger[r] = s, \A q \in Rows : ledger[q] \notin Worse(s)
    PROVE  s \in Seen(ledger)
<1> DEFINE v == Verdict(ledger)
           B == {h \in Groups : v[h] = s}
<1>1. \A h \in Groups : v[h] = VerdictOf(ledger, v, h)
    BY VerdictSolves
<1>2. \A w \in Worse(s) : w \in Severe
    BY DEF Worse, Severe
<1>3. ASSUME NEW h \in Groups, s \in Folded(ledger, v, h) PROVE v[h] = s
  <2>1. "running" \notin Folded(ledger, v, h)
    BY NoneRunning
  <2>2. \A q \in Members(h) : ledger[q] \notin Worse(s)
    BY DEF Members
  <2>3. \A k \in Nested(h) : v[k] \notin Worse(s)
    BY <1>2, RowsBeneath DEF Nested
  <2>4. Worse(s) \cap Folded(ledger, v, h) = {}
    <3>1. "unresolved" \notin Worse(s)
      BY <1>2 DEF Severe
    <3> HIDE DEF v
    <3> QED
      BY <2>2, <2>3, <3>1 DEF Folded
  <2>5. VerdictOf(ledger, v, h) = Fold(Folded(ledger, v, h))
    <3>1. Nested(h) = {} => \E q \in Members(h) : ledger[q] = s
      <4> HIDE DEF v
      <4> QED
        BY <1>3 DEF Folded, Severe
    <3>2. s # "not_started"
      BY DEF Severe
    <3>3. \/ /\ \A q \in Members(h) : ledger[q] = "not_started"
             /\ Nested(h) = {}
          \/ VerdictOf(ledger, v, h) = Fold(Folded(ledger, v, h))
      <4> HIDE DEF v
      <4> QED
        BY VerdictCases
    <3> HIDE DEF v
    <3> QED
      BY <3>1, <3>2, <3>3
  <2> HIDE DEF v
  <2> QED
    BY <1>1, <1>3, <2>1, <2>4, <2>5, FoldFacts
<1>4. CASE scene.home[r] = Root
    BY <1>4 DEF Seen, Members
<1>5. CASE scene.home[r] # Root
  <2>1. scene.home[r] \in Groups /\ r \in Members(scene.home[r])
    BY <1>5, SceneFacts DEF Members
  <2>2. s \in Folded(ledger, v, scene.home[r])
    BY <2>1 DEF Folded
  <2>3. B \in SUBSET Nat /\ B # {}
    BY <1>3, <2>1, <2>2, SceneFacts
  <2>4. PICK m \in B : \A x \in B : m =< x
    <3> HIDE DEF B
    <3> QED
      BY <2>3, LeastOf
  <2>5. m \in Groups /\ v[m] = s
    OBVIOUS
  <2>6. scene.outer[m] \notin B
    <3>1. scene.outer[m] < m
      BY <2>5, SceneFacts
    <3>2. m \in Nat
      BY <2>3
    <3> HIDE DEF B
    <3>3. ASSUME scene.outer[m] \in B PROVE FALSE
      <4>1. scene.outer[m] \in Nat
        BY <2>3, <3>3
      <4>2. m =< scene.outer[m]
        BY <2>4, <3>3
      <4> QED
        BY <3>1, <3>2, <4>1, <4>2
    <3> QED
      BY <3>3
  <2>7. scene.outer[m] = Root
    <3> SUFFICES ASSUME scene.outer[m] # Root PROVE FALSE
      OBVIOUS
    <3>1. scene.outer[m] \in Groups /\ m \in Nested(scene.outer[m])
      BY <2>5, SceneFacts DEF Nested
    <3>2. s \in Folded(ledger, v, scene.outer[m])
      <4>1. s \notin {"empty", "not_started"}
        BY DEF Severe
      <4> HIDE DEF v
      <4> QED
        BY <2>5, <3>1, <4>1 DEF Folded
    <3> QED
      BY <1>3, <2>6, <3>1, <3>2
  <2>8. m \in Nested(Root)
    BY <2>5, <2>7 DEF Nested
  <2> QED
    BY <2>5, <2>8 DEF Seen
<1> QED
    BY <1>4, <1>5

-----------------------------------------------------------------------------
\* What a conclusion says of the ledger it is drawn from.

Said(ledger) == {ledger[r] : r \in Rows} \cup extra

LEMMA SeverityShows ==
    ASSUME scene \in Scenes, NEW ledger, IsLedger(ledger), NEW s \in Severe
    PROVE  /\ s \in Seen(ledger) => s \in Said(ledger)
           /\ s \in Said(ledger) /\ Worse(s) \cap Said(ledger) = {} => s \in Seen(ledger)
<1>1. ASSUME s \in Seen(ledger) PROVE s \in Said(ledger)
  <2>1. CASE \E g \in Nested(Root) : Verdict(ledger)[g] = s
    <3>1. PICK g \in Groups : Verdict(ledger)[g] = s
      BY <2>1 DEF Nested
    <3>2. PICK r \in Rows : ledger[r] = s
      BY <3>1, RowsBeneath
    <3> QED
      BY <3>2 DEF Said
  <2>2. CASE \E r \in Members(Root) : ledger[r] = s
    BY <2>2 DEF Members, Said
  <2>3. CASE s \in extra
    BY <2>3 DEF Said
  <2> QED
    BY <1>1, <2>1, <2>2, <2>3 DEF Seen
<1>2. ASSUME s \in Said(ledger), Worse(s) \cap Said(ledger) = {} PROVE s \in Seen(ledger)
  <2>1. CASE s \in extra
    BY <2>1 DEF Seen
  <2>2. CASE \E r \in Rows : ledger[r] = s
    <3>1. \A q \in Rows : ledger[q] \notin Worse(s)
      BY <1>2 DEF Said
    <3> QED
      BY <2>2, <3>1, Surfaces
  <2> QED
    BY <1>2, <2>1, <2>2 DEF Said
<1> QED
  BY <1>1, <1>2

Good == {"changed", "planned", "ready", "warning"}

LEMMA InferFacts ==
    ASSUME NEW seen, NEW carried
    PROVE  LET i == Infer(seen, carried) IN
           /\ i = [state |-> i.state, partial |-> i.partial, warned |-> i.warned,
                   cancelled |-> i.cancelled]
           /\ "failed" \in seen => i.state = "failed"
           /\ "failed" \notin seen /\ "blocked" \in seen => i.state = "blocked"
           /\ seen \cap {"failed", "blocked"} = {} /\ "cancelled" \in seen
              => i.state = "cancelled"
           /\ seen \cap Severe = {} => i.state \in Good
BY DEF Infer, Severe, Good

\* The state of a conclusion, and the code that goes with it.
LEMMA ConcludedFacts ==
    ASSUME NEW i, NEW wrong \in BOOLEAN, i.state \in Severe \cup Good,
           i = [state |-> i.state, partial |-> i.partial, warned |-> i.warned,
                cancelled |-> i.cancelled]
    PROVE  LET c == Concluded(i, wrong) IN
           /\ c.state = IF wrong /\ i.state \in Good THEN "failed" ELSE i.state
           /\ c.exit = IF c.state = "failed" THEN scene.failedCode
                       ELSE IF c.state = "blocked" THEN 1
                       ELSE IF c.state = "cancelled" THEN 130 ELSE 0
<1>1. ExitCode(i.state) = 0 <=> i.state \in Good
  <2>1. CASE i.state \in Good
    BY <2>1 DEF ExitCode, Good
  <2>2. CASE i.state = "failed"
    BY <2>2 DEF ExitCode, Good
  <2>3. CASE i.state = "blocked"
    BY <2>3 DEF ExitCode, Good
  <2>4. CASE i.state = "cancelled"
    BY <2>4 DEF ExitCode, Good
  <2> QED
    BY <2>1, <2>2, <2>3, <2>4 DEF Severe
<1> DEFINE f == FoldLeftoverMisuse(i, wrong)
<1>2. f.state = IF wrong /\ i.state \in Good THEN "failed" ELSE i.state
  BY <1>1 DEF FoldLeftoverMisuse
<1>3. /\ Concluded(i, wrong).state = f.state
      /\ Concluded(i, wrong).exit = IF f.state = "failed" THEN scene.failedCode
                                    ELSE ExitCode(f.state)
  BY DEF Concluded
<1>4. f.state # "failed" => ExitCode(f.state) = IF f.state = "blocked" THEN 1
                                ELSE IF f.state = "cancelled" THEN 130 ELSE 0
  <2> HIDE DEF f
  <2> QED
    BY DEF ExitCode
<1> QED
  BY <1>2, <1>3, <1>4

\* The exit code tells the worst of the ledger; misuse turns a good one, and
\* nothing else does.
LEMMA ExitOfLedger ==
    ASSUME scene \in Scenes, NEW ledger, IsLedger(ledger), NEW carried, NEW wrong \in BOOLEAN
    PROVE  LET c == Concluded(Infer(Seen(ledger), carried), wrong)
               T == Said(ledger) IN
           /\ c # None
           /\ c.exit = IF "failed" \in T THEN scene.failedCode
                       ELSE IF "blocked" \in T THEN 1 ELSE IF "cancelled" \in T THEN 130
                       ELSE IF c.state = "failed" THEN scene.failedCode ELSE 0
           /\ wrong => c.exit # 0
           /\ ~wrong /\ T \cap Severe = {} => c.exit = 0
<1> DEFINE i == Infer(Seen(ledger), carried)
           c == Concluded(i, wrong)
           T == Said(ledger)
           seen == Seen(ledger)
<1>1. \A s \in Severe : /\ s \in seen => s \in T
                        /\ s \in T /\ Worse(s) \cap T = {} => s \in seen
  BY SeverityShows
<1>2. /\ Worse("failed") = {} /\ Worse("blocked") = {"failed"}
      /\ Worse("cancelled") = {"failed", "blocked"}
  BY DEF Worse
<1>3. /\ i = [state |-> i.state, partial |-> i.partial, warned |-> i.warned,
              cancelled |-> i.cancelled]
      /\ "failed" \in seen => i.state = "failed"
      /\ "failed" \notin seen /\ "blocked" \in seen => i.state = "blocked"
      /\ seen \cap {"failed", "blocked"} = {} /\ "cancelled" \in seen => i.state = "cancelled"
      /\ seen \cap Severe = {} => i.state \in Good
  BY InferFacts
<1>4. scene.failedCode \in 1..255
  BY SceneFacts
<1> HIDE DEF T, seen
<1>5. /\ "failed" \in T => i.state = "failed"
      /\ "failed" \notin T /\ "blocked" \in T => i.state = "blocked"
      /\ T \cap {"failed", "blocked"} = {} /\ "cancelled" \in T => i.state = "cancelled"
      /\ T \cap Severe = {} => i.state \in Good
  <2> HIDE DEF i
  <2> QED
    BY <1>1, <1>2, <1>3 DEF Severe
<1>6. i.state \in Severe \cup Good
  <2> HIDE DEF i
  <2> QED
    BY <1>5 DEF Severe
<1>7. /\ c.state = IF wrong /\ i.state \in Good THEN "failed" ELSE i.state
      /\ c.exit = IF c.state = "failed" THEN scene.failedCode
                  ELSE IF c.state = "blocked" THEN 1
                  ELSE IF c.state = "cancelled" THEN 130 ELSE 0
  <2> HIDE DEF i
  <2> QED
    BY <1>3, <1>6, ConcludedFacts
<1> HIDE DEF i, c
<1>8. c.state # "none"
  BY <1>6, <1>7 DEF Severe, Good
<1>9. c # None
  BY <1>8 DEF None
<1>10. c.exit = IF "failed" \in T THEN scene.failedCode
                ELSE IF "blocked" \in T THEN 1 ELSE IF "cancelled" \in T THEN 130
                ELSE IF c.state = "failed" THEN scene.failedCode ELSE 0
  BY <1>5, <1>7 DEF Severe, Good
<1>11. wrong => c.exit # 0
  BY <1>4, <1>6, <1>7 DEF Severe, Good
<1>12. ~wrong /\ T \cap Severe = {} => c.exit = 0
  BY <1>5, <1>7 DEF Good
<1> QED
  BY <1>9, <1>10, <1>11, <1>12 DEF i, c, T

-----------------------------------------------------------------------------
\* The sweep of Finish.

\* What a row has settled in it keeps.
Keeps(before, after) ==
    \A r \in Rows : before[r] \in {"done", "skipped", "blocked", "failed", "cancelled"}
                    => after[r] = before[r]

LEMMA SweepFacts ==
    ASSUME TypeOK
    PROVE  /\ IsLedger(Swept(Resolved(row))) /\ Keeps(row, Swept(Resolved(row)))
           /\ Swept(Resolved(row)) \in [Rows -> RowStates]
<1> DEFINE mid == Resolved(row)
           after == Swept(mid)
<1>1. \A r \in Rows : row[r] \in RowStates
    BY DEF TypeOK
<1>2. \A r \in Rows : /\ mid[r] \in RowStates
                      /\ Ended(row[r]) => mid[r] = row[r]
    BY <1>1 DEF Resolved, RowStates
<1>3. \A r \in Rows : Honest(r, "done") \in {"done", "failed"}
    BY DEF Honest
<1>4. after = [r \in Rows |-> after[r]]
    BY DEF Swept
<1>5. \A r \in Rows : /\ after[r] \in Final
                      /\ Ended(mid[r]) => after[r] = mid[r]
  <2> HIDE DEF mid
  <2> QED
    BY <1>2, <1>3 DEF Swept, Ended, RowStates, Final
<1>6. IsLedger(after)
    BY <1>5 DEF IsLedger
<1>7. Keeps(row, after)
  <2> HIDE DEF mid, after
  <2> QED
    BY <1>2, <1>5 DEF Keeps, Ended
<1>8. after \in [Rows -> RowStates]
  <2> HIDE DEF after
  <2> QED
    BY <1>4, <1>5 DEF Final, RowStates
<1> QED
    BY <1>6, <1>7, <1>8

\* A row in a bad state stays in it.
LEMMA SaidStays ==
    ASSUME NEW before, NEW after, Keeps(before, after), NEW s \in Severe
    PROVE  \A r \in Rows : before[r] = s => after[r] = s
BY DEF Keeps, Severe

-----------------------------------------------------------------------------
\* Types.

Facts == TypeOK /\ scene \in Scenes

LEMMA InitFacts == Init => Facts
<1> SUFFICES ASSUME Init PROVE Facts
    OBVIOUS
<1>1. scene.signals \in 0..2
    BY ScenesAssumed DEF SceneAssumption, Init
<1>2. 0 \in 0..scene.signals
    BY <1>1
<1> QED
    BY <1>2 DEF Init, Facts, TypeOK, RowStates

LEMMA SceneTypes ==
    ASSUME scene \in Scenes
    PROVE  /\ scene.verbs \subseteq {"done", "skipped", "blocked", "failed", "cancelled"}
           /\ scene.signals \in 0..2
BY ScenesAssumed DEF SceneAssumption

\* What Finish does, and what it leaves.
LEMMA FinishFacts ==
    ASSUME Facts, Finish, scene' = scene, UNCHANGED <<notes, extra>>
    PROVE  /\ row' \in [Rows -> RowStates] /\ Keeps(row, row') /\ (misuse => misuse')
           /\ misuse' \in BOOLEAN /\ broken' \in BOOLEAN
           /\ concl' # None
           /\ ~Open => UNCHANGED <<row, misuse, concl, broken>>
           /\ Open =>
                /\ row' = Swept(Resolved(row)) /\ IsLedger(row')
                /\ misuse' = (\/ misuse
                              \/ \E r \in Rows : ~Ended(Resolved(row)[r]) /\ row'[r] = "cancelled")
                /\ concl' = Concluded(Infer(Seen(row'), notes), misuse')
<1>1. CASE ~Open
    BY <1>1 DEF Finish, Facts, TypeOK, Keeps, Open
<1>2. CASE Open
  <2>1. /\ row' = Swept(Resolved(row))
        /\ misuse' = (\/ misuse
                      \/ \E r \in Rows : ~Ended(Resolved(row)[r]) /\ row'[r] = "cancelled")
        /\ concl' = Concluded(Infer(Seen(row'), notes), misuse')
        /\ broken' \in BOOLEAN
    BY <1>2 DEF Finish
  <2>2. IsLedger(row') /\ Keeps(row, row') /\ row' \in [Rows -> RowStates]
    BY <2>1, SweepFacts DEF Facts
  <2>3. misuse' \in BOOLEAN /\ (misuse => misuse')
    BY <2>1 DEF Facts, TypeOK
  <2>4. concl' # None
    <3> DEFINE ledger == Swept(Resolved(row))
               wrong == \/ misuse
                        \/ \E r \in Rows : ~Ended(Resolved(row)[r]) /\ ledger[r] = "cancelled"
    <3>1. IsLedger(ledger) /\ scene \in Scenes
      BY SweepFacts DEF Facts
    <3>2. wrong \in BOOLEAN
      BY DEF Facts, TypeOK
    <3>3. concl' = Concluded(Infer(Seen(ledger), notes), wrong)
      BY <2>1
    <3> HIDE DEF ledger, wrong
    <3> QED
      BY <3>1, <3>2, <3>3, ExitOfLedger
  <2> QED
    BY <1>2, <2>1, <2>2, <2>3, <2>4
<1> QED
    BY <1>1, <1>2

\* The exit code a Finish infers.
LEMMA FinishExit ==
    ASSUME Facts, Finish, Open, scene' = scene, UNCHANGED <<notes, extra>>
    PROVE  /\ concl'.exit = IF "failed" \in States' THEN scene.failedCode
                            ELSE IF "blocked" \in States' THEN 1
                            ELSE IF "cancelled" \in States' THEN 130
                            ELSE IF concl'.state = "failed" THEN scene.failedCode ELSE 0
           /\ misuse' => concl'.exit # 0
           /\ ~misuse' /\ States' \cap Severe = {} => concl'.exit = 0
<1> DEFINE ledger == Swept(Resolved(row))
           wrong == \/ misuse
                    \/ \E r \in Rows : ~Ended(Resolved(row)[r]) /\ ledger[r] = "cancelled"
           c == Concluded(Infer(Seen(ledger), notes), wrong)
<1>1. row' = ledger /\ IsLedger(ledger) /\ scene \in Scenes
    BY FinishFacts DEF Facts
<1>2. misuse' = wrong /\ concl' = c
    BY FinishFacts
<1>3. wrong \in BOOLEAN
    BY DEF Facts, TypeOK
<1>4. States' = Said(ledger)
    BY <1>1 DEF States, Said, Rows
<1>5. /\ c.exit = IF "failed" \in Said(ledger) THEN scene.failedCode
                  ELSE IF "blocked" \in Said(ledger) THEN 1
                  ELSE IF "cancelled" \in Said(ledger) THEN 130
                  ELSE IF c.state = "failed" THEN scene.failedCode ELSE 0
      /\ wrong => c.exit # 0
      /\ ~wrong /\ Said(ledger) \cap Severe = {} => c.exit = 0
  <2> HIDE DEF ledger, wrong
  <2> QED
    BY <1>1, <1>3, ExitOfLedger
<1> HIDE DEF ledger, wrong, c
<1> QED
    BY <1>2, <1>4, <1>5

\* Finish keeps the types of what it changes.
LEMMA FinishTypes ==
    ASSUME Facts, Finish, scene' = scene, UNCHANGED <<notes, extra>>
    PROVE  /\ row' \in [Rows -> RowStates] /\ misuse' \in BOOLEAN /\ broken' \in BOOLEAN
           /\ concl' # None => concl'.exit \in {0, 1, 130, scene.failedCode}
<1>1. row' \in [Rows -> RowStates] /\ misuse' \in BOOLEAN /\ broken' \in BOOLEAN
    BY FinishFacts
<1>2. ~Open => (concl' # None => concl'.exit \in {0, 1, 130, scene.failedCode})
    BY FinishFacts DEF Facts, TypeOK
<1>3. Open => (concl' # None => concl'.exit \in {0, 1, 130, scene.failedCode})
    BY FinishExit
<1> QED
    BY <1>1, <1>2, <1>3

LEMMA FactsKept == Facts /\ [Next]_vars => Facts'
<1> SUFFICES ASSUME Facts, [Next]_vars PROVE Facts'
    OBVIOUS
<1>1. /\ scene \in Scenes /\ row \in [Rows -> RowStates]
      /\ notes \in [Rows -> SUBSET scene.notes]
      /\ extra \subseteq {"failed", "cancelled"} /\ caught \in 0..scene.signals
      /\ callback \in {"going", "nil", "error"}
      /\ run \in {"waiting", "failing", "finishing", "checking", "cancelling", "interrupted",
                  "closing", "reporting", "returned"}
      /\ misuse \in BOOLEAN /\ cancelled \in BOOLEAN /\ broken \in BOOLEAN
      /\ victims \subseteq Rows \cup {0}
      /\ concl # None => concl.exit \in {0, 1, 130, scene.failedCode}
    BY DEF Facts, TypeOK
<1>2. ASSUME NEW r \in Rows, Start(r) PROVE Facts'
    BY <1>1, <1>2 DEF Start, untouched, Facts, TypeOK, RowStates, Rows
<1>3. ASSUME NEW r \in Rows, NEW n \in scene.notes, Note(r, n) PROVE Facts'
  <2>1. notes' \in [Rows -> SUBSET scene.notes]
    BY <1>1, <1>3 DEF Note
  <2> QED
    BY <1>1, <1>3, <2>1 DEF Note, untouched, Facts, TypeOK, Rows
<1>4. ASSUME NEW r \in Rows, NEW s \in scene.verbs, Settle(r, s) PROVE Facts'
  <2>1. Honest(r, s) \in RowStates
    BY <1>1, SceneTypes DEF Honest, RowStates
  <2>2. row' \in [Rows -> RowStates]
    BY <1>1, <1>4, <2>1 DEF Settle
  <2> QED
    BY <1>1, <1>4, <2>2 DEF Settle, untouched, Facts, TypeOK, Rows
<1>5. CASE Refused
    BY <1>1, <1>5 DEF Refused, untouched, Facts, TypeOK, Rows
<1>6. CASE OwnFinishes
  <2>1. Finish /\ UNCHANGED <<scene, notes, extra, callback, caught, cancelled, run, victims,
                              result>>
    BY <1>6 DEF OwnFinishes
  <2>2. /\ row' \in [Rows -> RowStates] /\ misuse' \in BOOLEAN /\ broken' \in BOOLEAN
        /\ concl' # None => concl'.exit \in {0, 1, 130, scene.failedCode}
    BY <2>1, FinishTypes
  <2> QED
    BY <1>1, <2>1, <2>2 DEF Facts, TypeOK, Rows
<1>7. CASE Signal
  <2>1. caught' \in 0..scene.signals
    BY <1>1, <1>7, SceneTypes DEF Signal
  <2> QED
    BY <1>1, <1>7, <2>1 DEF Signal, Facts, TypeOK, Rows
<1>8. ASSUME NEW e \in {"nil", "error"}, Return(e) PROVE Facts'
    BY <1>1, <1>8 DEF Return, Facts, TypeOK, Rows
<1>9. CASE Answered
    BY <1>1, <1>9 DEF Answered, quiet, Facts, TypeOK, Rows
<1>10. CASE Fails
    BY <1>1, <1>10 DEF Fails, quiet, Facts, TypeOK, Rows
<1>11. CASE Interrupted
  <2> DEFINE with(s) == {r \in Rows : row[r] = s}
  <2>1. with("pending") # {} => Min(with("pending")) \in with("pending")
    <3>1. with("pending") \in SUBSET Nat
      BY <1>1, SceneFacts
    <3> HIDE DEF with
    <3> QED
      BY <3>1, LeastOf DEF Min
  <2>2. victims' \subseteq Rows \cup {0}
    BY <1>11, <2>1 DEF Interrupted
  <2> QED
    BY <1>1, <1>11, <2>2 DEF Interrupted, quiet, Facts, TypeOK, Rows
<1>12. CASE Abandons
  <2>1. row' \in [Rows -> RowStates]
    BY <1>1, <1>12 DEF Abandons, RowStates
  <2> QED
    BY <1>1, <1>12, <2>1 DEF Abandons, quiet, Facts, TypeOK, Rows
<1>13. CASE Unwound
    BY <1>1, <1>13 DEF Unwound, quiet, Facts, TypeOK, Rows
<1>14. CASE SecondSignal
    BY <1>1, <1>14 DEF SecondSignal, quiet, Facts, TypeOK, Rows
<1>15. CASE Finishes
  <2>1. Finish /\ UNCHANGED <<extra, cancelled, victims, result, quiet>>
        /\ run' \in {"checking", "reporting"}
    BY <1>15 DEF Finishes
  <2>2. /\ row' \in [Rows -> RowStates] /\ misuse' \in BOOLEAN /\ broken' \in BOOLEAN
        /\ concl' # None => concl'.exit \in {0, 1, 130, scene.failedCode}
    BY <2>1, FinishTypes DEF quiet
  <2> QED
    BY <1>1, <2>1, <2>2 DEF Facts, TypeOK, Rows, quiet
<1>16. CASE Reports
    BY <1>1, <1>16 DEF Reports, quiet, Facts, TypeOK, Rows
<1>17. ASSUME NEW v \in victims, Cancels(v) PROVE Facts'
  <2>1. row' \in [Rows -> RowStates]
    BY <1>1, <1>17 DEF Cancels, RowStates
  <2>2. extra' \subseteq {"failed", "cancelled"} /\ misuse' \in BOOLEAN
    BY <1>1, <1>17 DEF Cancels
  <2> QED
    BY <1>1, <1>17, <2>1, <2>2 DEF Cancels, quiet, Facts, TypeOK, Rows
<1>18. CASE UNCHANGED vars
    BY <1>1, <1>18 DEF vars, Facts, TypeOK, Rows
<1> QED
    BY <1>2, <1>3, <1>4, <1>5, <1>6, <1>7, <1>8, <1>9, <1>10, <1>11, <1>12, <1>13, <1>14,
       <1>15, <1>16, <1>17, <1>18 DEF Next, RunStep

\* Every variable keeps its type: the rows of the scene are in the states a row
\* has, and an exit code is one of those there are.
THEOREM TypeCorrect == Spec => []TypeOK
<1>1. Facts => TypeOK
    BY DEF Facts
<1> QED
    BY <1>1, InitFacts, FactsKept, PTL DEF Spec

-----------------------------------------------------------------------------
\* The exit code of a concluded run.

\* Once the run has concluded, no row and nothing added turns bad or good.
LEMMA ClosedSteps ==
    ASSUME Facts, [Next]_vars, ~Open
    PROVE  /\ UNCHANGED <<scene, concl, broken, extra>> /\ Keeps(row, row')
           /\ \A r \in Rows : row'[r] = row[r] \/ row'[r] = "not_started"
<1>0. row \in [Rows -> RowStates]
    BY DEF Facts, TypeOK
<1>1. ASSUME NEW r \in Rows, Start(r) PROVE FALSE
    BY <1>1 DEF Start
<1>2. ASSUME NEW r \in Rows, NEW n \in scene.notes, Note(r, n) PROVE FALSE
    BY <1>2 DEF Note
<1>3. ASSUME NEW r \in Rows, NEW s \in scene.verbs, Settle(r, s) PROVE FALSE
    BY <1>3 DEF Settle
<1>4. CASE OwnFinishes
    BY <1>4 DEF OwnFinishes
<1>5. CASE Abandons
    BY <1>0, <1>5 DEF Abandons, quiet, Keeps, Ended
<1>6. CASE UNCHANGED <<scene, concl, broken, extra, row>>
    BY <1>6 DEF Keeps
<1>7. CASE \/ Refused \/ Signal \/ (\E e \in {"nil", "error"} : Return(e)) \/ Answered \/ Fails
           \/ Interrupted \/ Unwound \/ SecondSignal \/ Finishes \/ Reports
           \/ (\E v \in victims : Cancels(v)) \/ UNCHANGED vars
  <2>1. UNCHANGED <<scene, concl, broken, extra, row>>
    BY <1>7 DEF Refused, untouched, Signal, Return, Answered, Fails, Interrupted, Unwound,
       SecondSignal, Finishes, Finish, Reports, Cancels, quiet, vars
  <2> QED
    BY <1>6, <2>1
<1> QED
    BY <1>1, <1>2, <1>3, <1>4, <1>5, <1>7 DEF Next, RunStep

\* Whoever concludes the run does it in Finish.
LEMMA Concludes ==
    ASSUME [Next]_vars, Open, ~Open'
    PROVE  /\ Finish /\ UNCHANGED <<scene, notes, extra, cancelled, victims, result>>
           /\ \/ OwnFinishes
              \/ run = "finishing" /\ run' = "checking"
              \/ run = "closing" /\ run' = "reporting"
<1>1. CASE OwnFinishes
    BY <1>1 DEF OwnFinishes
<1>2. CASE Finishes
    BY <1>2 DEF Finishes, quiet
<1>3. CASE UNCHANGED concl
    BY <1>3 DEF Open
<1>4. CASE \/ \E r \in Rows : Start(r)
           \/ \E r \in Rows, n \in scene.notes : Note(r, n)
           \/ \E r \in Rows, s \in scene.verbs : Settle(r, s)
           \/ Refused \/ Signal \/ \E e \in {"nil", "error"} : Return(e)
    BY <1>3, <1>4 DEF Start, Note, Settle, Refused, untouched, Signal, Return
<1>5. CASE \/ Answered \/ Fails \/ Interrupted \/ Abandons \/ Unwound \/ SecondSignal
           \/ Reports \/ (\E v \in victims : Cancels(v)) \/ UNCHANGED vars
    BY <1>3, <1>5 DEF Answered, Fails, Interrupted, Abandons, Unwound, SecondSignal, Reports,
       Cancels, quiet, vars
<1> QED
    BY <1>1, <1>2, <1>4, <1>5 DEF Next, RunStep

LEMMA WorstStep == Facts /\ WorstTold /\ [Next]_vars => WorstTold'
<1> SUFFICES ASSUME Facts, WorstTold, [Next]_vars, ~Open' PROVE WorstTold'
    BY DEF WorstTold
<1>1. CASE Open
  <2>1. Finish /\ UNCHANGED <<scene, notes, extra>>
    BY <1>1, Concludes
  <2>2. concl'.exit = IF "failed" \in States' THEN scene.failedCode
                      ELSE IF "blocked" \in States' THEN 1
                      ELSE IF "cancelled" \in States' THEN 130
                      ELSE IF concl'.state = "failed" THEN scene.failedCode ELSE 0
    BY <1>1, <2>1, FinishExit
  <2> QED
    BY <2>1, <2>2 DEF WorstTold
<1>2. CASE ~Open
  <2>1. /\ UNCHANGED <<scene, concl, extra>> /\ Keeps(row, row')
        /\ \A r \in Rows : row'[r] = row[r] \/ row'[r] = "not_started"
    BY <1>2, ClosedSteps
  <2>2. \A s \in Severe : s \in States' <=> s \in States
    <3>1. ASSUME NEW s \in Severe, NEW r \in Rows PROVE row[r] = s <=> row'[r] = s
      BY <2>1, SaidStays DEF Severe
    <3> QED
      BY <2>1, <3>1 DEF States, Rows
  <2> QED
    BY <1>2, <2>1, <2>2 DEF WorstTold, Severe
<1> QED
    BY <1>1, <1>2

\* Whatever the program does before and after it concludes, and whoever
\* concludes it, the exit code tells the worst state of any row.
THEOREM WorstAlwaysTold == Spec => []WorstTold
<1>1. Init => WorstTold
    BY DEF Init, WorstTold, Open
<1> QED
    BY <1>1, WorstStep, InitFacts, FactsKept, PTL DEF Spec

-----------------------------------------------------------------------------
\* A row the program forgot to resolve does not turn the exit code.

\* In a ledger without a bad row the sweep makes none.
LEMMA GoodSweep ==
    ASSUME Facts, States \cap Severe = {},
           \A r \in Rows : "problem" \in notes[r] => Ended(row[r])
    PROVE  /\ Resolved(row) = row
           /\ \A r \in Rows : Swept(row)[r] \notin Severe
<1>0. row \in [Rows -> RowStates] /\ \A r \in Rows : row[r] \notin Severe
    BY DEF Facts, TypeOK, States
<1>1. Resolved(row) = row
  <2>1. \A r \in Rows : Resolved(row)[r] = row[r]
    BY <1>0 DEF Resolved, Members, Severe
  <2>2. Resolved(row) = [r \in Rows |-> Resolved(row)[r]]
    BY DEF Resolved
  <2>3. row = [r \in Rows |-> row[r]]
    BY <1>0
  <2> QED
    BY <2>1, <2>2, <2>3
<1>2. ~Abnormal(row)
    BY DEF Abnormal, States, Severe
<1>3. ASSUME NEW r \in Rows PROVE Swept(row)[r] \notin Severe
  <2>1. "problem" \in notes[r] => Ended(row[r])
    OBVIOUS
  <2>2. ~Ended(row[r]) => Honest(r, "done") = "done"
    BY <2>1 DEF Honest
  <2>3. Swept(row)[r] \in {row[r], Honest(r, "done"), "incomplete"}
    BY <1>2 DEF Swept
  <2>4. Swept(row)[r] = Honest(r, "done") => Swept(row)[r] \notin Severe
    <3>1. Ended(row[r]) => Swept(row)[r] = row[r]
      BY DEF Swept
    <3> QED
      BY <1>0, <2>2, <3>1 DEF Severe
  <2> QED
    BY <1>0, <2>3, <2>4 DEF Severe
<1> QED
    BY <1>1, <1>3

LEMMA FreeStep ==
    ASSUME Facts, [Next]_vars, concl' # concl, concl' # None, States \cap Severe = {}, ~misuse,
           \A r \in Rows : "problem" \in notes[r] => Ended(row[r])
    PROVE  concl'.exit = 0
<1>1. Open /\ ~Open'
    BY ClosedSteps DEF Open
<1>2. Finish /\ UNCHANGED <<scene, notes, extra>>
    BY <1>1, Concludes
<1>3. /\ Resolved(row) = row
      /\ \A r \in Rows : Swept(row)[r] \notin Severe
    BY GoodSweep
<1>4. /\ row' = Swept(row)
      /\ misuse' = (misuse \/ \E r \in Rows : ~Ended(row[r]) /\ row'[r] = "cancelled")
    BY <1>1, <1>2, <1>3, FinishFacts
<1>5. ~misuse'
    BY <1>3, <1>4 DEF Severe
<1>6. States' \cap Severe = {}
    BY <1>2, <1>3, <1>4 DEF States, Rows
<1> QED
    BY <1>1, <1>2, <1>5, <1>6, FinishExit

\* A run of good rows ends well unless the program misused the library: a row it
\* left open, at any depth and whatever the callback did, is forgiven.
THEOREM ForgottenForgiven == Spec => ForgottenIsFree
<1>1. Facts /\ [Next]_vars =>
        [/\ concl' # None
         /\ States \cap {"failed", "blocked", "cancelled"} = {} /\ ~misuse
         /\ \A r \in Rows : "problem" \in notes[r] => Ended(row[r])
         => concl'.exit = 0]_concl
    BY FreeStep DEF Severe
<1> QED
    BY <1>1, InitFacts, FactsKept, PTL DEF Spec, ForgottenIsFree

-----------------------------------------------------------------------------
\* What Run returns.

\* A callback that may call Finish itself is not interrupted: once it has
\* concluded the run, an interrupt has nothing left to say in the conclusion.
OwnFinishUndisturbed == \A s \in Scenes : s.ownFinish => s.signals = 0

Interruption == {"cancelling", "interrupted", "closing", "reporting"}
Told == misuse \/ "cancelled" \in States

\* Who interrupts, and where Run is then.
InterruptSound ==
    /\ cancelled => ~scene.ownFinish /\ run \in Interruption \cup {"returned"}
    /\ run \in Interruption => cancelled
    /\ caught > 0 => ~scene.ownFinish

\* When the run has concluded.
ConclusionSound ==
    /\ ~scene.ownFinish /\ run \in {"waiting", "failing", "finishing", "cancelling",
                                    "interrupted", "closing"} => Open
    /\ run \in {"checking", "reporting"} => ~Open

\* An interrupted run has a cancelled row by the time it concludes, or the
\* misuse of a program that settled what was to be cancelled.
CutShort ==
    /\ run \in {"cancelling", "interrupted", "closing"}
       => Told \/ (run = "cancelling" /\ victims # {})
    /\ cancelled /\ ~Open => concl.exit # 0

ResultSound ==
    result # None => /\ run = "returned"
                     /\ result.exit # 0 \/ (~Open /\ ~broken /\ ~cancelled)

RunSound == InterruptSound /\ ConclusionSound /\ CutShort /\ ResultSound

\* Nothing that was settled, added or recorded is taken back.
LEMMA StepKeeps ==
    ASSUME Facts, [Next]_vars
    PROVE  /\ scene' = scene /\ Keeps(row, row') /\ extra \subseteq extra'
           /\ misuse => misuse'
<1>0. row \in [Rows -> RowStates] /\ misuse \in BOOLEAN
    BY DEF Facts, TypeOK
<1>a. misuse' \in BOOLEAN
  <2>1. Facts'
    BY FactsKept
  <2> QED
    BY <2>1 DEF Facts, TypeOK
<1>1. ASSUME NEW r \in Rows, Start(r) PROVE scene' = scene /\ Keeps(row, row')
    BY <1>0, <1>1 DEF Start, untouched, Keeps
<1>2. ASSUME NEW r \in Rows, NEW s \in scene.verbs, Settle(r, s)
      PROVE  scene' = scene /\ Keeps(row, row')
    BY <1>0, <1>2 DEF Settle, untouched, Keeps, Ended
<1>3. ASSUME NEW v \in victims, Cancels(v) PROVE scene' = scene /\ Keeps(row, row')
    BY <1>0, <1>3 DEF Cancels, quiet, Keeps, Ended
<1>4. ASSUME Abandons PROVE scene' = scene /\ Keeps(row, row')
    BY <1>0, <1>4 DEF Abandons, quiet, Keeps, Ended
<1>5. ASSUME OwnFinishes \/ Finishes
      PROVE  scene' = scene /\ Keeps(row, row') /\ extra' = extra /\ (misuse => misuse')
  <2>1. Finish /\ UNCHANGED <<scene, notes, extra>>
    BY <1>5 DEF OwnFinishes, Finishes, quiet
  <2>2. Keeps(row, row') /\ (misuse => misuse')
    BY <2>1, FinishFacts
  <2> QED
    BY <2>1, <2>2
<1>6. ASSUME \/ Refused \/ Signal \/ (\E e \in {"nil", "error"} : Return(e)) \/ Answered
             \/ Fails \/ Interrupted \/ Unwound \/ SecondSignal \/ Reports \/ UNCHANGED vars
             \/ \E r \in Rows, n \in scene.notes : Note(r, n)
      PROVE  scene' = scene /\ Keeps(row, row')
    BY <1>6 DEF Refused, untouched, Signal, Return, Answered, Fails, Interrupted, Unwound,
       SecondSignal, Reports, Note, quiet, vars, Keeps
<1>7. scene' = scene /\ Keeps(row, row')
    BY <1>1, <1>2, <1>3, <1>4, <1>5, <1>6 DEF Next, RunStep
<1>8. ASSUME ~(OwnFinishes \/ Finishes)
      PROVE  extra \subseteq extra' /\ (misuse => misuse')
  <2>1. ASSUME NEW v \in victims, Cancels(v) PROVE extra \subseteq extra' /\ (misuse => misuse')
    BY <1>0, <1>a, <2>1 DEF Cancels
  <2>2. ASSUME \/ \E r \in Rows : Start(r)
               \/ \E r \in Rows, n \in scene.notes : Note(r, n)
               \/ \E r \in Rows, s \in scene.verbs : Settle(r, s)
               \/ Refused \/ Signal \/ (\E e \in {"nil", "error"} : Return(e))
        PROVE  extra \subseteq extra' /\ (misuse => misuse')
    BY <1>0, <1>a, <2>2 DEF Start, Note, Settle, Refused, Signal, Return, untouched
  <2>3. ASSUME \/ Answered \/ Fails \/ Interrupted \/ Abandons \/ Unwound \/ SecondSignal
               \/ Reports \/ UNCHANGED vars
        PROVE  extra \subseteq extra' /\ (misuse => misuse')
    BY <1>0, <1>a, <2>3 DEF Answered, Fails, Interrupted, Abandons, Unwound, SecondSignal,
       Reports, quiet, vars
  <2> QED
    BY <1>8, <2>1, <2>2, <2>3 DEF Next, RunStep
<1> QED
    BY <1>0, <1>a, <1>5, <1>7, <1>8

LEMMA ToldStays ==
    ASSUME Facts, [Next]_vars, Told
    PROVE  Told'
<1>1. /\ scene' = scene /\ Keeps(row, row') /\ extra \subseteq extra'
      /\ misuse => misuse'
    BY StepKeeps
<1>2. ASSUME NEW r \in Rows, row[r] = "cancelled" PROVE row'[r] = "cancelled"
    BY <1>1, <1>2 DEF Keeps
<1> QED
    BY <1>1, <1>2 DEF Told, States, Rows

\* Every victim collected is cancelled, or the program is told it came too late.
LEMMA CancelTells ==
    ASSUME Facts, NEW v \in victims, Cancels(v), scene' = scene
    PROVE  Told'
<1>1. row \in [Rows -> RowStates] /\ (v # 0 => v \in Rows)
    BY DEF Facts, TypeOK
<1>2. CASE ~Open \/ (v # 0 /\ Ended(row[v]))
    BY <1>2 DEF Cancels, Told
<1>3. CASE v # 0 /\ ~(~Open \/ (v # 0 /\ Ended(row[v])))
    BY <1>1, <1>3 DEF Cancels, Told, States, Rows
<1>4. CASE v = 0 /\ ~(~Open \/ (v # 0 /\ Ended(row[v])))
    BY <1>4 DEF Cancels, Told, States
<1> QED
    BY <1>2, <1>3, <1>4

\* A run that was cut short concludes badly.
LEMMA ToldConcludes ==
    ASSUME Facts, [Next]_vars, Finish, Open, Told, UNCHANGED <<scene, notes, extra>>
    PROVE  concl'.exit # 0
<1>1. Told'
    BY ToldStays
<1>2. scene.failedCode \in 1..255
    BY SceneFacts DEF Facts
<1>3. /\ concl'.exit = IF "failed" \in States' THEN scene.failedCode
                       ELSE IF "blocked" \in States' THEN 1
                       ELSE IF "cancelled" \in States' THEN 130
                       ELSE IF concl'.state = "failed" THEN scene.failedCode ELSE 0
      /\ misuse' => concl'.exit # 0
    BY FinishExit
<1> QED
    BY <1>1, <1>2, <1>3 DEF Told

\* What the program does beside Run.
Beside == UNCHANGED <<run, cancelled, victims, result>>

LEMMA ProgramSteps ==
    ASSUME [Next]_vars
    PROVE  \/ Beside /\ (UNCHANGED <<concl, broken>> \/ OwnFinishes)
           \/ RunStep
BY DEF Next, Beside, Start, Note, Settle, Refused, untouched, OwnFinishes, Signal, Return, vars

LEMMA InterruptStep ==
    ASSUME OwnFinishUndisturbed, Facts, InterruptSound, [Next]_vars
    PROVE  InterruptSound'
<1>1. scene' = scene
    BY StepKeeps
<1>2. caught' > 0 => ~scene.ownFinish
  <2>1. Facts'
    BY FactsKept
  <2>2. caught' \in 0..scene.signals
    BY <1>1, <2>1 DEF Facts, TypeOK
  <2>3. scene.signals \in 0..2 /\ (scene.ownFinish => scene.signals = 0)
    BY SceneTypes DEF OwnFinishUndisturbed, Facts
  <2> QED
    BY <2>2, <2>3
<1>3. CASE Beside
    BY <1>1, <1>2, <1>3 DEF Beside, InterruptSound
<1>4. CASE Interrupted
    BY <1>1, <1>2, <1>4 DEF Interrupted, InterruptSound, Interruption
<1>5. CASE Answered \/ Fails \/ Abandons \/ Unwound \/ SecondSignal \/ Finishes \/ Reports
    BY <1>1, <1>2, <1>5 DEF Answered, Fails, Abandons, Unwound, SecondSignal, Finishes, Reports,
       InterruptSound, Interruption
<1>6. CASE \E v \in victims : Cancels(v)
    BY <1>1, <1>2, <1>6 DEF Cancels, InterruptSound
<1> QED
    BY <1>3, <1>4, <1>5, <1>6, ProgramSteps DEF RunStep

LEMMA ConclusionStep ==
    ASSUME Facts, ConclusionSound, [Next]_vars
    PROVE  ConclusionSound'
<1> DEFINE before == {"waiting", "failing", "finishing", "cancelling", "interrupted", "closing"}
<1>1. scene' = scene
    BY StepKeeps
<1>2. ~Open => ~Open'
    BY ClosedSteps DEF Open
<1>3. run' \in before => run \in before
    BY ProgramSteps DEF RunStep, Beside, Answered, Fails, Interrupted, Abandons, Unwound,
       SecondSignal, Finishes, Reports, Cancels
<1>4. ASSUME ~scene'.ownFinish, run' \in before, ~Open' PROVE FALSE
  <2>1. Open
    BY <1>1, <1>3, <1>4 DEF ConclusionSound
  <2>2. OwnFinishes \/ run' \in {"checking", "reporting"}
    BY <1>4, <2>1, Concludes
  <2>3. ~OwnFinishes
    BY <1>1, <1>4 DEF OwnFinishes
  <2> QED
    BY <1>4, <2>2, <2>3
<1>5. ASSUME run' \in {"checking", "reporting"} PROVE ~Open'
  <2>1. CASE Finishes
    <3>1. Finish /\ UNCHANGED <<scene, notes, extra>>
      BY <2>1 DEF Finishes, quiet
    <3> QED
      BY <3>1, FinishFacts DEF Open
  <2>2. CASE ~Finishes
    <3>1. run \in {"checking", "reporting"}
      BY <1>5, <2>2, ProgramSteps DEF RunStep, Beside, Answered, Fails, Interrupted, Abandons,
         Unwound, SecondSignal, Reports, Cancels
    <3> QED
      BY <1>2, <3>1 DEF ConclusionSound
  <2> QED
    BY <2>1, <2>2
<1> QED
    BY <1>4, <1>5 DEF ConclusionSound

LEMMA CutStep ==
    ASSUME OwnFinishUndisturbed, Facts, InterruptSound, ConclusionSound, CutShort, [Next]_vars
    PROVE  CutShort'
<1>1. Told => Told'
    BY ToldStays
<1>2. scene' = scene
    BY StepKeeps
<1>3. ASSUME run' \in {"cancelling", "interrupted", "closing"}
      PROVE  Told' \/ (run' = "cancelling" /\ victims' # {})
  <2>1. CASE Beside
    BY <1>1, <1>3, <2>1 DEF Beside, CutShort
  <2>2. CASE Interrupted
    BY <2>2 DEF Interrupted
  <2>3. CASE Abandons
    BY <1>1, <2>3 DEF Abandons, CutShort
  <2>4. CASE Unwound
    BY <1>1, <2>4 DEF Unwound, CutShort
  <2>5. CASE Answered \/ Fails \/ SecondSignal \/ Finishes \/ Reports
    BY <1>3, <2>5 DEF Answered, Fails, SecondSignal, Finishes, Reports
  <2>6. CASE \E v \in victims : Cancels(v)
    BY <1>2, <2>6, CancelTells
  <2> QED
    BY <2>1, <2>2, <2>3, <2>4, <2>5, <2>6, ProgramSteps DEF RunStep
<1>4. ASSUME cancelled', ~Open' PROVE concl'.exit # 0
  <2>1. CASE ~Open
    <3>1. UNCHANGED <<concl, scene>>
      BY <2>1, ClosedSteps
    <3>2. cancelled
      <4>1. CASE Interrupted
        <5>1. scene.ownFinish
          BY <2>1, <4>1 DEF Interrupted, ConclusionSound
        <5> QED
          BY <4>1, <5>1 DEF Interrupted, InterruptSound
      <4>2. CASE ~Interrupted
        BY <1>4, <4>2, ProgramSteps DEF RunStep, Beside, Answered, Fails, Abandons, Unwound,
           SecondSignal, Finishes, Reports, Cancels
      <4> QED
        BY <4>1, <4>2
    <3> QED
      BY <2>1, <3>1, <3>2 DEF CutShort
  <2>2. CASE Open
    <3>1. /\ Finish /\ UNCHANGED <<scene, notes, extra, cancelled>>
          /\ OwnFinishes \/ run = "finishing" \/ run = "closing"
      BY <1>4, <2>2, Concludes
    <3>2. cancelled
      BY <1>4, <3>1
    <3>3. run = "closing"
      BY <3>1, <3>2 DEF InterruptSound, Interruption, OwnFinishes
    <3>4. Told
      BY <3>3 DEF CutShort
    <3> QED
      BY <2>2, <3>1, <3>4, ToldConcludes
  <2> QED
    BY <2>1, <2>2
<1> QED
    BY <1>3, <1>4 DEF CutShort

LEMMA ResultStep ==
    ASSUME Facts, InterruptSound, ConclusionSound, CutShort, ResultSound, [Next]_vars
    PROVE  ResultSound'
<1>1. ~Open => ~Open' /\ UNCHANGED <<concl, broken>>
    BY ClosedSteps DEF Open
<1>2. CASE Reports
  <2>1. result' = [state |-> concl.state,
                   exit |-> IF run = "checking" /\ concl.exit = 0 /\ broken THEN 2
                            ELSE concl.exit]
    BY <1>2 DEF Reports
  <2>2. ~Open /\ UNCHANGED cancelled /\ run \in {"checking", "reporting"}
    BY <1>2 DEF Reports, ConclusionSound
  <2>3. ASSUME result'.exit = 0 PROVE ~broken /\ ~cancelled
    <3>1. concl.exit = 0 /\ (run = "checking" => ~broken)
      BY <2>1, <2>3
    <3>2. ~cancelled
      BY <2>2, <3>1 DEF CutShort
    <3>3. run # "reporting"
      BY <3>2 DEF InterruptSound, Interruption
    <3> QED
      BY <2>2, <3>1, <3>2, <3>3
  <2>4. ~broken' <=> ~broken
    BY <1>1, <2>2
  <2>5. run' = "returned" /\ ~Open' /\ (~cancelled => ~cancelled')
    BY <1>1, <1>2, <2>2 DEF Reports
  <2> QED
    BY <2>3, <2>4, <2>5 DEF ResultSound
<1>3. CASE SecondSignal
  <2>1. result'.exit = 130 /\ run' = "returned"
    BY <1>3 DEF SecondSignal
  <2> QED
    BY <2>1 DEF ResultSound
<1>4. CASE UNCHANGED <<result, cancelled>> /\ (run = "returned" => run' = "returned")
  <2>1. ~Open /\ ~broken => ~Open' /\ ~broken'
    BY <1>1
  <2> QED
    BY <1>4, <2>1 DEF ResultSound
<1>5. CASE Interrupted
  <2>1. result = None
    BY <1>5 DEF Interrupted, ResultSound
  <2> QED
    BY <1>5, <2>1 DEF Interrupted, ResultSound
<1> QED
    BY <1>2, <1>3, <1>4, <1>5, ProgramSteps DEF RunStep, Beside, Answered, Fails, Abandons,
       Unwound, Finishes, Cancels

LEMMA RunSoundStep ==
    ASSUME OwnFinishUndisturbed
    PROVE  Facts /\ RunSound /\ [Next]_vars => RunSound'
<1>1. OwnFinishUndisturbed
    OBVIOUS
<1> QED
    BY <1>1, InterruptStep, ConclusionStep, CutStep, ResultStep DEF RunSound

\* Run never returns a good exit code when a signal reached it, nor when the end
\* of the presentation could not be written, provided that a callback which calls
\* Finish itself is not interrupted.
THEOREM ExitAlwaysHonest ==
    ASSUME OwnFinishUndisturbed
    PROVE  Spec => []ExitCodeHonest
<1>1. Init => RunSound
    BY DEF Init, RunSound, InterruptSound, ConclusionSound, CutShort, ResultSound, Interruption,
       Open
<1>2. Facts /\ RunSound /\ [Next]_vars => RunSound'
    BY RunSoundStep
<1>3. RunSound => (result # None /\ (cancelled \/ broken) => result.exit # 0)
    BY DEF RunSound, ResultSound
<1>4. WorstTold /\ RunSound => ExitCodeHonest
    BY <1>3 DEF ExitCodeHonest
<1> QED
    BY <1>1, <1>2, <1>4, WorstAlwaysTold, InitFacts, FactsKept, PTL DEF Spec
=============================================================================
