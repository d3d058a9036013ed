--------------------------- MODULE MembershipProofs ---------------------------
(***************************************************************************)
(* What holds of edges on collections for every nesting of collections,    *)
(* every number of members and dependents, and every scene.                *)
(***************************************************************************)
EXTENDS Membership, FiniteSetTheorems, WellFoundedInduction, TLAPS

-----------------------------------------------------------------------------
\* Types and the inductive invariant.

TallyType ==
    [prefix : Nat, firstFailed : Nat, sealed : BOOLEAN, through : Nat,
     parked : SUBSET (Deps \X Nat), open : SUBSET Deps, holds : Nat, builderFailed : BOOLEAN]
Standings == {"declared", "wired", "queued", "notStarted", "onEntry", "parked", "started"}
Phases == {"none", "pending", "running", "done", "failed", "notStarted"}
States == {"pending", "done", "failed"}

Types ==
    /\ scene \in Scenes /\ seq \in Nat /\ draining \in BOOLEAN
    /\ decl \in [Members -> Nat] /\ state \in [Members -> States]
    /\ tally \in [Cols -> TallyType]
    /\ builder \in [Built -> Phases] /\ entry \in [Built -> States]
    /\ edge \in [Deps -> Nat] /\ dep \in [Deps -> Standings]
    /\ owed \in [Deps -> SUBSET Members]

\* Declarations are numbered in order, and every cursor is one of theirs.
Numbered(dl, sq) ==
    /\ \A m \in Members : dl[m] <= sq
    /\ \A m, n \in Declared(dl) : dl[m] = dl[n] => m = n
Ordered ==
    /\ Numbered(decl, seq) /\ seq = Cardinality(Declared(decl))
    /\ \A m \in Members : decl[m] = 0 => state[m] = "pending"
    /\ \A d \in Deps : edge[d] <= seq
    /\ \A c \in Cols : tally[c].through <= seq

\* The tally of c says what a full reading of the members says.
Failing(c, dl, st) == {m \in MembersOf(c, dl) : st[m] = "failed"}
Follows(c, t, dl, st) ==
    /\ t.prefix = Prefix(c, dl, st)
    /\ Failing(c, dl, st) = {} => t.firstFailed = 0
    /\ Failing(c, dl, st) # {} =>
        \E m \in Failing(c, dl, st) :
            t.firstFailed = dl[m] /\ \A n \in Failing(c, dl, st) : dl[m] <= dl[n]
Followed == \A c \in Cols : Follows(c, tally[c], decl, state)

\* A hold for each builder that is still to declare its children; only it does.
Under(c, b) == {x \in DOMAIN b : c \in Up[x] /\ b[x] \in {"pending", "running"}}
Counted(tl, b) ==
    \A c \in Cols :
        /\ tl[c].holds = Cardinality(Under(c, b))
        /\ tl[c].builderFailed <=>
            \E x \in DOMAIN b : c \in Up[x] /\ b[x] \in {"failed", "notStarted"}

\* Nothing is declared in a built collection before its builder runs, and its
\* builder runs once what the collection starts after succeeded.
Topology ==
    /\ \A c \in Built : builder[c] \in {"none", "pending"} => MembersOf(c, decl) = {}
    /\ \A c \in Built : entry[c] = "pending" => builder[c] \in {"none", "pending"}
    /\ \A b, c \in Built : b # c /\ c \in Up[b] /\ builder[b] # "none" =>
        builder[c] \notin {"none", "pending"}
Building == Counted(tally, builder) /\ Topology

\* What an edge named was declared through its cursor.
Named == \A d \in Deps : edge[d] # 0 => owed[d] \subseteq Through(On[d], edge[d], decl)

\* Whoever is parked is in one place on its collection's tally, but for those of
\* ds, who are in none; who waits on an entry waits for something.
FiledBut(tl, dp, ds) ==
    /\ \A c \in Cols, d \in Deps : d \in tl[c].open =>
        d \notin ds /\ dp[d] = "parked" /\ On[d] = c /\ \A k \in Nat : <<d, k>> \notin tl[c].parked
    /\ \A c \in Cols, d \in Deps, k \in Nat : <<d, k>> \in tl[c].parked =>
        d \notin ds /\ dp[d] = "parked" /\ On[d] = c
           /\ \A j \in Nat : <<d, j>> \in tl[c].parked => j = k
    /\ \A d \in Deps \ ds : dp[d] = "parked" =>
        d \in tl[On[d]].open \/ \E k \in Nat : <<d, k>> \in tl[On[d]].parked
EntryPending(d) == On[d] \in Built /\ entry[On[d]] = "pending"
OnEntries(dp, ds) == \A d \in Deps \ ds : dp[d] = "onEntry" => EntryPending(d)
Filed == FiledBut(tally, dep, {}) /\ OnEntries(dep, {})

MInv == Types /\ Ordered /\ Followed /\ Building /\ Named /\ Filed

\* How far a closed edge reads, whatever holds the collection.
Reach(t, through) ==
    IF through # 0 THEN through ELSE IF t.sealed THEN t.through ELSE ThroughAll

\* An edge parked at k waits for a member through k and none failed; what has
\* been declared through k is what the closed edge reads.
Lies(c, t, k, reads, dl, st, drains, sq) ==
    /\ reads # 0 \/ t.sealed \/ drains
    /\ Through(c, k, dl) = Through(c, Reach(t, reads), dl)
    /\ IF drains THEN t.holds = 0 ELSE k <= sq
    /\ ~t.builderFailed
    /\ \A m \in Through(c, k, dl) : st[m] # "failed"
    /\ \E m \in Through(c, k, dl) : st[m] # "done"
Rests(c, t, eg, dl, st, drains, sq) ==
    /\ \A d \in t.open : IsOpen(t, eg[d], drains) /\ t.firstFailed = 0 /\ ~t.builderFailed
    /\ \A d \in Deps, k \in Nat : <<d, k>> \in t.parked =>
        Lies(c, t, k, eg[d], dl, st, drains, sq)

\* A collection's own builder concludes before anything seals it.
SealedLate ==
    \A c \in Built : builder[c] \in {"none", "pending", "running"} => ~tally[c].sealed
EachRests == \A c \in Cols : Rests(c, tally[c], edge, decl, state, draining, seq)
Resting == EachRests /\ SealedLate

-----------------------------------------------------------------------------
\* Reading a tally.

\* A set of numbers has a least one.
LEMMA LeastNumber ==
    ASSUME NEW S, S \subseteq Nat, S # {}
    PROVE  \E m \in S : \A x \in S : m =< x
<1> DEFINE R == OpToRel(<, Nat)
<1>1. \A x, y \in Nat : x < y => <<x, y>> \in R
    BY Zenon DEF OpToRel
<1>2. PICK m \in S : \A x \in S : ~ (<<x, m>> \in R)
  <2> HIDE DEF R
  <2>1. IsWellFoundedOn(R, Nat)
    BY NatLessThanWellFounded, Zenon DEF R
  <2> QED
    BY <2>1, WFMin, Zenon
<1>3. \A x \in S : m =< x
  <2> HIDE DEF R
  <2>1. ASSUME NEW x \in S, ~ (m =< x)
        PROVE  x < m
    BY <2>1
  <2> QED
    BY <1>1, <1>2, <2>1
<1> QED
    BY <1>3

\* A number of a set that no other of it is below is its Min.
LEMMA MinIs ==
    ASSUME NEW S, S \subseteq Nat, NEW x \in S, \A y \in S : x =< y
    PROVE  Min(S) = x
<1>1. \E m \in S : \A y \in S : m =< y
    OBVIOUS
<1>2. Min(S) \in S /\ \A y \in S : Min(S) =< y
    BY <1>1, Zenon DEF Min
<1>3. \A m \in S : (\A y \in S : m =< y) => m = x
    OBVIOUS
<1> QED
    BY <1>2, <1>3, Zenon

LEMMA FiniteMembers ==
    ASSUME NEW c, NEW dl
    PROVE  IsFiniteSet(MembersOf(c, dl)) /\ IsFiniteSet(Declared(dl))
<1>1. MembersOf(c, dl) \in SUBSET Members /\ Declared(dl) \in SUBSET Members
    BY DEF MembersOf, Declared
<1>2. IsFiniteSet(Members)
    BY MembershipAssumption
<1> QED
    BY <1>1, <1>2, FS_Subset

\* The leading members that succeeded, as a set.
Leading(c, dl, st) ==
    {m \in MembersOf(c, dl) : \A n \in MembersOf(c, dl) : dl[n] <= dl[m] => st[n] = "done"}

\* succeededThrough: where the tally keeps the prefix a full reading would find,
\* reading the one member after it tells whether all through a cursor succeeded.
LEMMA ReadsSucceeded ==
    ASSUME NEW c, NEW t, NEW k \in Nat, NEW sq \in Nat, NEW st,
           NEW dl \in [Members -> Nat], Numbered(dl, sq), t.prefix = Prefix(c, dl, st)
    PROVE  SucceededThrough(c, t, k, dl) <=> \A m \in Through(c, k, dl) : st[m] = "done"
<1> DEFINE M == MembersOf(c, dl)
           P == Leading(c, dl, st)
           Before(x) == {y \in M : dl[y] < dl[x]}
<1>1. /\ M \subseteq Members /\ IsFiniteSet(M) /\ P \in SUBSET M
      /\ \A m, n \in M : dl[m] \in Nat /\ (dl[m] = dl[n] => m = n)
    BY FiniteMembers DEF MembersOf, Declared, Numbered, Leading
<1>2. t.prefix = Cardinality(P)
    BY DEF Prefix, Leading
<1>3. \A m : m \in P <=> m \in M /\ \A n \in M : dl[n] <= dl[m] => st[n] = "done"
    BY DEF Leading
<1>4. \A m : m \in Through(c, k, dl) <=> m \in M /\ dl[m] <= k
    BY DEF Through
<1>5. CASE P = M
  <2>1. SucceededThrough(c, t, k, dl)
    BY <1>2, <1>5 DEF SucceededThrough
  <2> QED
    BY <1>1, <1>3, <1>4, <1>5, <2>1
<1>6. CASE P # M
  <2>1. t.prefix # Cardinality(M)
    BY <1>1, <1>2, <1>6, FS_Subset
  <2>2. PICK x \in M \ P : \A y \in M \ P : dl[x] <= dl[y]
    <3> DEFINE S == {dl[y] : y \in M \ P}
    <3>1. S \subseteq Nat /\ S # {}
      BY <1>1, <1>6
    <3>2. PICK s \in S : \A z \in S : s <= z
      BY <3>1, LeastNumber
    <3> QED
      BY <3>2
  <2>3. st[x] # "done"
    BY <1>1, <1>3, <2>2
  <2>4. Before(x) = P
    BY <1>1, <1>3, <2>2, <2>3
  <2>5. \A z \in M : Cardinality(Before(z)) = t.prefix => z = x
    <3>1. SUFFICES ASSUME NEW z \in M, Cardinality(Before(z)) = t.prefix, z # x PROVE FALSE
      OBVIOUS
    <3>2. IsFiniteSet(Before(z)) /\ IsFiniteSet(Before(x))
      BY <1>1, FS_Subset
    <3>3. Cardinality(Before(z)) = Cardinality(Before(x))
      BY <1>2, <2>4, <3>1
    <3>4. CASE dl[x] < dl[z]
      <4>1. Before(x) \in SUBSET Before(z) /\ x \in Before(z) /\ x \notin Before(x)
        BY <1>1, <3>4
      <4> QED
        BY <3>2, <3>3, <4>1, FS_Subset
    <3>5. CASE dl[z] < dl[x]
      <4>1. Before(z) \in SUBSET Before(x) /\ z \in Before(x) /\ z \notin Before(z)
        BY <1>1, <3>5
      <4> QED
        BY <3>2, <3>3, <4>1, FS_Subset
    <3> QED
      BY <1>1, <3>1, <3>4, <3>5
  <2>6. NextDecl(c, t, dl) = dl[x]
    <3>1. {dl[m] : m \in {y \in M : Cardinality(Before(y)) = t.prefix}} = {dl[x]}
      BY <1>2, <2>4, <2>5
    <3>2. NextDecl(c, t, dl) = Min({dl[x]})
      BY <3>1 DEF NextDecl
    <3> QED
      BY <1>1, <3>2, MinIs
  <2>7. SucceededThrough(c, t, k, dl) <=> dl[x] > k
    BY <2>1, <2>6 DEF SucceededThrough
  <2>8. dl[x] > k <=> \A m \in M : dl[m] <= k => st[m] = "done"
    BY <1>1, <1>3, <2>2, <2>3
  <2> QED
    BY <1>4, <2>7, <2>8
<1> QED
    BY <1>5, <1>6

\* failedThrough: so does the first failure.
LEMMA ReadsFailed ==
    ASSUME NEW c, NEW t, NEW k \in Nat, NEW sq \in Nat, NEW st,
           NEW dl \in [Members -> Nat], Numbered(dl, sq), Follows(c, t, dl, st)
    PROVE  FailedThrough(t, k) <=> \E m \in Through(c, k, dl) : st[m] = "failed"
<1>1. \A m \in MembersOf(c, dl) : dl[m] \in Nat /\ dl[m] # 0
    BY DEF MembersOf, Declared
<1>2. CASE Failing(c, dl, st) = {}
    BY <1>2 DEF Follows, FailedThrough, Failing, Through
<1>3. CASE Failing(c, dl, st) # {}
  <2>1. PICK m \in Failing(c, dl, st) :
            t.firstFailed = dl[m] /\ \A n \in Failing(c, dl, st) : dl[m] <= dl[n]
    BY <1>3 DEF Follows
  <2> QED
    BY <1>1, <2>1 DEF FailedThrough, Failing, Through
<1> QED
    BY <1>2, <1>3

-----------------------------------------------------------------------------
\* placeLocked: what it does to each tally and each dependent.

\* Two tallies alike but for who is parked.
Alike(t, u) ==
    /\ t.prefix = u.prefix /\ t.firstFailed = u.firstFailed /\ t.sealed = u.sealed
    /\ t.through = u.through /\ t.holds = u.holds /\ t.builderFailed = u.builderFailed

\* What is placed, and where: the tallies tl, the dependents ds of dp.
Placeable(tl, eg, dl, st, drains, sq, dp, ds) ==
    /\ tl \in [Cols -> TallyType] /\ eg \in [Deps -> Nat] /\ dl \in [Members -> Nat]
    /\ drains \in BOOLEAN /\ sq \in Nat /\ dp \in [Deps -> Standings] /\ ds \subseteq Deps
    /\ Numbered(dl, sq) /\ \A d \in Deps : eg[d] <= sq
    /\ \A c \in Cols : tl[c].through <= sq /\ Follows(c, tl[c], dl, st)
    /\ FiledBut(tl, dp, ds) /\ OnEntries(dp, ds)
    /\ Built \subseteq Cols /\ entry \in [Built -> States]

\* How far a dependent that is placed gets.
Waits(d, tl, eg, dl, drains) ==
    /\ PlacedOn(d, tl, eg, dl, drains) = "pending"
    /\ ~Forwards(On[d], tl[On[d]], eg[d], dl, drains)
WaitsOpen(d, tl, eg, dl, drains) ==
    Waits(d, tl, eg, dl, drains) /\ IsOpen(tl[On[d]], eg[d], drains)
WaitsAt(d, k, tl, eg, dl, drains) ==
    /\ Waits(d, tl, eg, dl, drains) /\ ~IsOpen(tl[On[d]], eg[d], drains)
    /\ k = Cursor(tl[On[d]], eg[d], drains)

Places == {"queued", "notStarted", "onEntry", "parked"}

LEMMA ThroughAllType == ThroughAll \in Nat
BY MembershipAssumption, FS_CardinalityType DEF ThroughAll

\* A closed edge reads through its reach.
LEMMA CursorReaches ==
    ASSUME NEW t \in TallyType, NEW through \in Nat, NEW drains \in BOOLEAN,
           ~IsOpen(t, through, drains)
    PROVE  /\ Cursor(t, through, drains) = Reach(t, through) /\ t.holds = 0
           /\ Cursor(t, through, drains) \in Nat
           /\ through # 0 \/ t.sealed \/ drains
<1>1. t.holds \in Nat /\ t.through \in Nat
    BY DEF TallyType
<1>2. ~(t.holds > 0) /\ t.holds = 0
    BY <1>1 DEF IsOpen
<1>3. ~(through = 0 /\ ~t.sealed /\ ~drains)
    BY DEF IsOpen
<1>4. Cursor(t, through, drains) = Reach(t, through)
    BY <1>2, <1>3 DEF Cursor, Reach
<1>5. Reach(t, through) \in Nat
    BY <1>1, ThroughAllType DEF Reach
<1> QED
    BY <1>2, <1>3, <1>4, <1>5

Moves(tl, eg, dl, drains, ds) ==
    /\ tally' \in [Cols -> TallyType] /\ \A c \in Cols : Alike(tally'[c], tl[c])
    /\ \A c \in Cols, d \in Deps : d \in tally'[c].open <=>
        \/ d \in tl[c].open
        \/ d \in ds /\ On[d] = c /\ WaitsOpen(d, tl, eg, dl, drains)
    /\ \A c \in Cols, d \in Deps, k \in Nat : <<d, k>> \in tally'[c].parked <=>
        \/ <<d, k>> \in tl[c].parked
        \/ d \in ds /\ On[d] = c /\ WaitsAt(d, k, tl, eg, dl, drains)
LEMMA PlaceMoves ==
    ASSUME NEW tl, NEW eg, NEW dl, NEW drains \in BOOLEAN, NEW dp, NEW ds,
           tl \in [Cols -> TallyType], eg \in [Deps -> Nat], ds \subseteq Deps,
           Place(ds, tl, eg, dl, drains, dp)
    PROVE  Moves(tl, eg, dl, drains, ds)
<1> DEFINE Here(c) == {d \in ds : On[d] = c /\ Waits(d, tl, eg, dl, drains)}
           Opens(c) == {d \in Here(c) : IsOpen(tl[c], eg[d], drains)}
           Parks(c) == {<<d, Cursor(tl[c], eg[d], drains)>> :
                            d \in {x \in Here(c) : ~IsOpen(tl[c], eg[x], drains)}}
<1>1. tally' = [c \in Cols |-> ParkedIn(c, tl, eg, dl, drains, ds)]
    BY DEF Place
<1>2. ASSUME NEW c \in Cols
      PROVE  ParkedIn(c, tl, eg, dl, drains, ds)
                = [tl[c] EXCEPT !.open = @ \union Opens(c), !.parked = @ \union Parks(c)]
  <2> DEFINE Old(S) == {d \in S : On[d] = c /\ PlacedOn(d, tl, eg, dl, drains) = "pending"
                                      /\ ~Forwards(c, tl[c], eg[d], dl, drains)}
  <2>1. Old(ds) = Here(c)
    BY DEF Waits
  <2>2. ParkedIn(c, tl, eg, dl, drains, ds)
            = [tl[c] EXCEPT !.open = @ \union {d \in Old(ds) : IsOpen(tl[c], eg[d], drains)},
                            !.parked = @ \union {<<d, Cursor(tl[c], eg[d], drains)>> :
                                d \in {x \in Old(ds) : ~IsOpen(tl[c], eg[x], drains)}}]
    BY Zenon DEF ParkedIn
  <2> HIDE DEF Old, Here
  <2> QED
    BY <2>1, <2>2
<1>3. ASSUME NEW c \in Cols
      PROVE  Opens(c) \subseteq Deps /\ Parks(c) \subseteq Deps \X Nat
  <2>1. ASSUME NEW d \in Here(c), ~IsOpen(tl[c], eg[d], drains)
        PROVE  Cursor(tl[c], eg[d], drains) \in Nat
    BY <2>1, CursorReaches
  <2> QED
    BY <2>1
<1>4. ASSUME NEW c \in Cols
      PROVE  /\ tally'[c] \in TallyType /\ Alike(tally'[c], tl[c])
             /\ tally'[c].open = tl[c].open \union Opens(c)
             /\ tally'[c].parked = tl[c].parked \union Parks(c)
  <2> HIDE DEF Opens, Parks
  <2>1. tally'[c] = [tl[c] EXCEPT !.open = @ \union Opens(c), !.parked = @ \union Parks(c)]
    BY <1>1, <1>2
  <2>2. tl[c] \in TallyType /\ Opens(c) \subseteq Deps /\ Parks(c) \subseteq Deps \X Nat
    BY <1>3
  <2> QED
    BY <2>1, <2>2 DEF TallyType, Alike
<1>5. tally' \in [Cols -> TallyType]
    BY <1>1, <1>4
<1>6. ASSUME NEW c \in Cols, NEW d \in Deps
      PROVE  d \in Opens(c) <=> d \in ds /\ On[d] = c /\ WaitsOpen(d, tl, eg, dl, drains)
    BY DEF WaitsOpen
<1>7. ASSUME NEW c \in Cols, NEW d \in Deps, NEW k \in Nat
      PROVE  <<d, k>> \in Parks(c) <=> d \in ds /\ On[d] = c /\ WaitsAt(d, k, tl, eg, dl, drains)
    BY DEF WaitsAt
<1> QED
  <2> HIDE DEF Opens, Parks
  <2>1. \A c \in Cols, d \in Deps : d \in tally'[c].open <=>
            \/ d \in tl[c].open
            \/ d \in ds /\ On[d] = c /\ WaitsOpen(d, tl, eg, dl, drains)
    BY <1>4, <1>6
  <2>2. \A c \in Cols, d \in Deps, k \in Nat : <<d, k>> \in tally'[c].parked <=>
            \/ <<d, k>> \in tl[c].parked
            \/ d \in ds /\ On[d] = c /\ WaitsAt(d, k, tl, eg, dl, drains)
    <3>1. ASSUME NEW c \in Cols, NEW d \in Deps, NEW k \in Nat
          PROVE  <<d, k>> \in tally'[c].parked
                    <=> <<d, k>> \in tl[c].parked \/ <<d, k>> \in Parks(c)
      BY <1>4
    <3> QED
      BY <1>7, <3>1, Zenon
  <2> QED
    BY <1>4, <1>5, <2>1, <2>2 DEF Moves

\* collectionOutcomeLocked, by cases.
LEMMA OutcomeIs ==
    ASSUME NEW c, NEW t, NEW through, NEW dl, NEW drains, entry \in [Built -> States]
    PROVE  LET o == Outcome(c, t, through, dl, drains)
               open == IsOpen(t, through, drains)
               cursor == Cursor(t, through, drains)
               read == Through(c, cursor, dl) # {}
           IN  /\ o \in States
               /\ o \in {"done", "pending"} => ~t.builderFailed
               /\ o = "pending" /\ open => t.firstFailed = 0
               /\ o \in {"done", "pending"} /\ ~open => ~FailedThrough(t, cursor)
               /\ o = "pending" /\ ~open /\ ~read => EntryOutcome(c) = "pending"
               /\ o = "pending" /\ ~open /\ read => ~SucceededThrough(c, t, cursor, dl)
               /\ o = "done" => ~open
               /\ o = "done" /\ read => SucceededThrough(c, t, cursor, dl)
<1> DEFINE open == IsOpen(t, through, drains)
           cursor == Cursor(t, through, drains)
           failed == FailedThrough(t, cursor)
           empty == Through(c, cursor, dl) = {}
           succeeded == SucceededThrough(c, t, cursor, dl)
           o == Outcome(c, t, through, dl, drains)
           e == EntryOutcome(c)
<1>1. o = IF t.builderFailed THEN "failed"
          ELSE IF open THEN IF t.firstFailed # 0 THEN "failed" ELSE "pending"
          ELSE IF failed THEN "failed"
          ELSE IF empty THEN e
          ELSE IF succeeded THEN "done" ELSE "pending"
    BY Zenon DEF Outcome
<1>2. e \in States
    BY DEF EntryOutcome, States
<1> HIDE DEF open, cursor, failed, empty, succeeded, o, e
<1>3. /\ o \in States
      /\ o \in {"done", "pending"} => ~t.builderFailed
      /\ o = "pending" /\ open => t.firstFailed = 0
      /\ o \in {"done", "pending"} /\ ~open => ~failed
      /\ o = "pending" /\ ~open /\ empty => e = "pending"
      /\ o = "pending" /\ ~open /\ ~empty => ~succeeded
      /\ o = "done" => ~open
      /\ o = "done" /\ ~empty => succeeded
    BY <1>1, <1>2 DEF States
<1> QED
    BY <1>3 DEF open, cursor, failed, empty, succeeded, o, e

\* Where each dependent that is placed stands.
LEMMA PlaceStands ==
    ASSUME NEW tl, NEW eg, NEW dl, NEW drains \in BOOLEAN, NEW dp \in [Deps -> Standings],
           NEW ds, ds \subseteq Deps, entry \in [Built -> States],
           Place(ds, tl, eg, dl, drains, dp)
    PROVE  /\ dep' \in [Deps -> Standings]
           /\ \A d \in Deps \ ds : dep'[d] = dp[d]
           /\ \A d \in ds : /\ dep'[d] \in Places
                            /\ dep'[d] = "parked" <=> Waits(d, tl, eg, dl, drains)
                            /\ dep'[d] = "onEntry" => EntryPending(d)
<1>1. ASSUME NEW d \in Deps \ ds
      PROVE  dep'[d] = dp[d]
    BY DEF Place
<1>2. ASSUME NEW d \in ds
      PROVE  /\ dep'[d] \in Places
             /\ dep'[d] = "parked" <=> Waits(d, tl, eg, dl, drains)
             /\ dep'[d] = "onEntry" => EntryPending(d)
  <2> DEFINE o == PlacedOn(d, tl, eg, dl, drains)
             forwards == Forwards(On[d], tl[On[d]], eg[d], dl, drains)
  <2>1. dep'[d] = CASE o = "done" -> "queued"
                    [] o = "failed" -> "notStarted"
                    [] OTHER -> IF forwards THEN "onEntry" ELSE "parked"
    BY Zenon DEF Place
  <2>2. o \in States
    BY OutcomeIs DEF PlacedOn
  <2>3. /\ o = "done" => dep'[d] = "queued"
        /\ o = "failed" => dep'[d] = "notStarted"
        /\ o # "done" /\ o # "failed" => dep'[d] = IF forwards THEN "onEntry" ELSE "parked"
    <3> HIDE DEF o, forwards
    <3>1. "done" # "failed"
      OBVIOUS
    <3> QED
      BY <2>1, <3>1, Zenon
  <2>4. o = "pending" /\ forwards => EntryPending(d)
    <3>1. ASSUME o = "pending", forwards
          PROVE  EntryOutcome(On[d]) = "pending"
      BY <3>1, OutcomeIs DEF PlacedOn, Forwards
    <3> QED
      BY <3>1 DEF EntryOutcome, EntryPending
  <2>5. Waits(d, tl, eg, dl, drains) <=> o = "pending" /\ ~forwards
    BY DEF Waits
  <2> HIDE DEF o, forwards
  <2> QED
    BY <2>2, <2>3, <2>4, <2>5 DEF States, Places
<1>3. dep' = [d \in Deps |-> dep'[d]]
    BY DEF Place
<1>4. dep' \in [Deps -> Standings]
  <2>1. \A d \in Deps : dep'[d] \in Standings
    BY <1>1, <1>2 DEF Standings, Places
  <2> QED
    BY <1>3, <2>1
<1> QED
    BY <1>1, <1>2, <1>4

\* Placing files whoever is parked in one place, and touches no reading.
LEMMA PlaceFiles ==
    ASSUME NEW tl, NEW eg, NEW dl, NEW st, NEW drains, NEW sq, NEW dp, NEW ds,
           Placeable(tl, eg, dl, st, drains, sq, dp, ds), Place(ds, tl, eg, dl, drains, dp)
    PROVE  /\ tally' \in [Cols -> TallyType] /\ dep' \in [Deps -> Standings]
           /\ \A c \in Cols : Alike(tally'[c], tl[c]) /\ Follows(c, tally'[c], dl, st)
           /\ FiledBut(tally', dep', {}) /\ OnEntries(dep', {})
           /\ \A d \in Deps : dep'[d] = "started" => dp[d] = "started"
<1> DEFINE Opens(d) == WaitsOpen(d, tl, eg, dl, drains)
           At(d, k) == WaitsAt(d, k, tl, eg, dl, drains)
<1>1. /\ tl \in [Cols -> TallyType] /\ eg \in [Deps -> Nat] /\ drains \in BOOLEAN
      /\ dp \in [Deps -> Standings] /\ ds \subseteq Deps /\ entry \in [Built -> States]
      /\ FiledBut(tl, dp, ds) /\ OnEntries(dp, ds)
    BY DEF Placeable
<1>2. /\ tally' \in [Cols -> TallyType] /\ \A c \in Cols : Alike(tally'[c], tl[c])
      /\ \A c \in Cols, d \in Deps : d \in tally'[c].open <=>
            \/ d \in tl[c].open
            \/ d \in ds /\ On[d] = c /\ Opens(d)
      /\ \A c \in Cols, d \in Deps, k \in Nat : <<d, k>> \in tally'[c].parked <=>
            \/ <<d, k>> \in tl[c].parked
            \/ d \in ds /\ On[d] = c /\ At(d, k)
  <2>1. Moves(tl, eg, dl, drains, ds)
    BY <1>1, PlaceMoves
  <2> QED
    BY <2>1, Zenon DEF Moves
<1>3. /\ dep' \in [Deps -> Standings]
      /\ \A d \in Deps \ ds : dep'[d] = dp[d]
      /\ \A d \in ds : /\ dep'[d] \in Places
                       /\ dep'[d] = "parked" <=> Waits(d, tl, eg, dl, drains)
                       /\ dep'[d] = "onEntry" => EntryPending(d)
    BY <1>1, PlaceStands
<1>4. /\ \A d \in Deps : Opens(d) => Waits(d, tl, eg, dl, drains)
      /\ \A d \in Deps, k \in Nat : At(d, k) => Waits(d, tl, eg, dl, drains) /\ ~Opens(d)
      /\ \A d \in Deps, j, k \in Nat : At(d, k) /\ At(d, j) => j = k
    BY DEF WaitsOpen, WaitsAt
<1>5. ASSUME NEW d \in Deps, Waits(d, tl, eg, dl, drains), ~Opens(d)
      PROVE  \E k \in Nat : At(d, k)
  <2>1. ~IsOpen(tl[On[d]], eg[d], drains)
    BY <1>5 DEF WaitsOpen
  <2>2. tl[On[d]] \in TallyType /\ eg[d] \in Nat
    BY <1>1, MembershipAssumption
  <2>3. Cursor(tl[On[d]], eg[d], drains) \in Nat
    BY <1>1, <2>1, <2>2, CursorReaches
  <2> QED
    BY <1>5, <2>1, <2>3 DEF WaitsAt
<1>6. \A c \in Cols : Follows(c, tally'[c], dl, st)
  <2>1. ASSUME NEW c \in Cols
        PROVE  Follows(c, tally'[c], dl, st)
    <3>1. Follows(c, tl[c], dl, st) /\ Alike(tally'[c], tl[c])
      BY <1>2 DEF Placeable
    <3> QED
      BY <3>1 DEF Follows, Alike
  <2> QED
    BY <2>1
<1>7. OnEntries(dep', {})
    BY <1>1, <1>3 DEF OnEntries
<1>8. FiledBut(tally', dep', {})
  <2> HIDE DEF Opens, At
  <2>1. ASSUME NEW c \in Cols, NEW d \in Deps, d \in tally'[c].open
        PROVE  /\ dep'[d] = "parked" /\ On[d] = c
               /\ \A k \in Nat : <<d, k>> \notin tally'[c].parked
    <3>1. CASE d \in tl[c].open
      BY <1>1, <1>2, <1>3, <3>1 DEF FiledBut
    <3>2. CASE d \in ds /\ On[d] = c /\ Opens(d)
      BY <1>1, <1>2, <1>3, <1>4, <3>2 DEF FiledBut
    <3> QED
      BY <1>2, <2>1, <3>1, <3>2
  <2>2. ASSUME NEW c \in Cols, NEW d \in Deps, NEW k \in Nat, <<d, k>> \in tally'[c].parked
        PROVE  /\ dep'[d] = "parked" /\ On[d] = c
               /\ \A j \in Nat : <<d, j>> \in tally'[c].parked => j = k
    <3>1. CASE <<d, k>> \in tl[c].parked
      BY <1>1, <1>2, <1>3, <3>1 DEF FiledBut
    <3>2. CASE d \in ds /\ On[d] = c /\ At(d, k)
      BY <1>1, <1>2, <1>3, <1>4, <3>2 DEF FiledBut
    <3> QED
      BY <1>2, <2>2, <3>1, <3>2
  <2>3. ASSUME NEW d \in Deps, dep'[d] = "parked"
        PROVE  d \in tally'[On[d]].open \/ \E k \in Nat : <<d, k>> \in tally'[On[d]].parked
    <3>1. On[d] \in Cols
      BY MembershipAssumption
    <3>2. CASE d \in ds
      BY <1>2, <1>3, <1>5, <2>3, <3>1, <3>2
    <3>3. CASE d \notin ds
      BY <1>1, <1>2, <1>3, <2>3, <3>1, <3>3 DEF FiledBut
    <3> QED
      BY <3>2, <3>3
  <2> QED
    BY <2>1, <2>2, <2>3 DEF FiledBut
<1>9. \A d \in Deps : dep'[d] = "started" => dp[d] = "started"
    BY <1>3 DEF Places
<1> QED
    BY <1>2, <1>3, <1>6, <1>7, <1>8, <1>9

\* Whoever is parked where placing put it waits for what its edge reads.
LEMMA PlaceRests ==
    ASSUME NEW tl, NEW eg, NEW dl, NEW st, NEW drains, NEW sq, NEW dp, NEW ds,
           Placeable(tl, eg, dl, st, drains, sq, dp, ds), Place(ds, tl, eg, dl, drains, dp),
           NEW c \in Cols, Rests(c, tl[c], eg, dl, st, drains, sq)
    PROVE  Rests(c, tally'[c], eg, dl, st, drains, sq)
<1> DEFINE t == tl[c]
<1>1. /\ tl \in [Cols -> TallyType] /\ eg \in [Deps -> Nat] /\ drains \in BOOLEAN
      /\ ds \subseteq Deps /\ entry \in [Built -> States] /\ dl \in [Members -> Nat] /\ sq \in Nat
      /\ Numbered(dl, sq) /\ Follows(c, t, dl, st) /\ t.through <= sq /\ \A d \in Deps : eg[d] <= sq
    BY DEF Placeable
<1>2. /\ Alike(tally'[c], t)
      /\ \A d \in Deps : d \in tally'[c].open <=>
            \/ d \in t.open
            \/ d \in ds /\ On[d] = c /\ WaitsOpen(d, tl, eg, dl, drains)
      /\ \A d \in Deps, k \in Nat : <<d, k>> \in tally'[c].parked <=>
            \/ <<d, k>> \in t.parked
            \/ d \in ds /\ On[d] = c /\ WaitsAt(d, k, tl, eg, dl, drains)
      /\ tally'[c] \in TallyType
  <2>1. Moves(tl, eg, dl, drains, ds)
    BY <1>1, PlaceMoves
  <2> QED
    BY <2>1 DEF Moves
<1>3. /\ \A d \in Deps : IsOpen(tally'[c], eg[d], drains) = IsOpen(t, eg[d], drains)
      /\ \A d \in Deps, k \in Nat : Lies(c, tally'[c], k, eg[d], dl, st, drains, sq)
            <=> Lies(c, t, k, eg[d], dl, st, drains, sq)
      /\ tally'[c].firstFailed = t.firstFailed
      /\ tally'[c].builderFailed = t.builderFailed
    BY <1>2 DEF Alike, IsOpen, Lies, Reach
<1>4. ASSUME NEW d \in Deps, On[d] = c, WaitsOpen(d, tl, eg, dl, drains)
      PROVE  IsOpen(t, eg[d], drains) /\ t.firstFailed = 0 /\ ~t.builderFailed
    BY <1>1, <1>4, OutcomeIs DEF WaitsOpen, Waits, PlacedOn
<1>5. ASSUME NEW d \in Deps, On[d] = c, NEW k \in Nat, WaitsAt(d, k, tl, eg, dl, drains)
      PROVE  Lies(c, t, k, eg[d], dl, st, drains, sq)
  <2>1. /\ PlacedOn(d, tl, eg, dl, drains) = "pending" /\ ~Forwards(c, t, eg[d], dl, drains)
        /\ ~IsOpen(t, eg[d], drains) /\ k = Cursor(t, eg[d], drains)
    BY <1>5 DEF WaitsAt, Waits
  <2>2. t \in TallyType /\ eg[d] \in Nat /\ t.prefix = Prefix(c, dl, st)
    BY <1>1 DEF Follows
  <2>3. /\ k = Reach(t, eg[d]) /\ t.holds = 0
        /\ eg[d] # 0 \/ t.sealed \/ drains
    BY <1>1, <2>1, <2>2, CursorReaches
  <2>4. Through(c, k, dl) # {}
    BY <2>1 DEF Forwards
  <2>5. ~t.builderFailed /\ ~FailedThrough(t, k) /\ ~SucceededThrough(c, t, k, dl)
    BY <1>1, <1>5, <2>1, <2>4, OutcomeIs DEF PlacedOn
  <2>6. ~drains => k <= sq
    BY <1>1, <2>3 DEF Reach
  <2>7. ~(\A m \in Through(c, k, dl) : st[m] = "done")
    BY <1>1, <2>2, <2>5, ReadsSucceeded
  <2>8. ~(\E m \in Through(c, k, dl) : st[m] = "failed")
    BY <1>1, <2>5, ReadsFailed
  <2> QED
    BY <2>3, <2>5, <2>6, <2>7, <2>8 DEF Lies
<1> QED
    BY <1>2, <1>3, <1>4, <1>5 DEF Rests, TallyType

-----------------------------------------------------------------------------
\* Who is woken.

\* The tally u is t without those it woke.
Leaves(t, u, w) ==
    /\ u.open \subseteq t.open /\ u.parked \subseteq t.parked /\ w \subseteq Deps
    /\ \A d \in Deps : d \in w <=> \/ d \in t.open /\ d \notin u.open
                                   \/ \E k \in Nat : <<d, k>> \in t.parked /\ <<d, k>> \notin u.parked

LEMMA ParkedNames ==
    ASSUME NEW S, S \subseteq Deps \X Nat
    PROVE  /\ {p[1] : p \in S} \subseteq Deps
           /\ \A d \in Deps : d \in {p[1] : p \in S} <=> \E k \in Nat : <<d, k>> \in S
<1>1. \A p \in S : p[1] \in Deps /\ p[2] \in Nat /\ p = <<p[1], p[2]>>
    OBVIOUS
<1>2. ASSUME NEW d \in Deps, NEW k \in Nat, <<d, k>> \in S
      PROVE  d \in {p[1] : p \in S}
    BY <1>2
<1>3. ASSUME NEW d \in Deps, d \in {p[1] : p \in S}
      PROVE  \E k \in Nat : <<d, k>> \in S
    BY <1>1, <1>3
<1> QED
    BY <1>1, <1>2, <1>3

\* Of the woken, whom wakeLocked places again; a step that parks nobody itself.
Parked(w) == {d \in w : dep[d] = "parked"}
Rewoken(W, ds) == \A d : d \in ds <=> \E c \in Cols : d \in W[c] /\ dep[d] = "parked"
SameParked(dp) == \A d \in Deps : dep[d] = "parked" <=> dp[d] = "parked"

\* Whom the tallies wake is in none of them, and the others stay where they are.
LEMMA WokenLeave ==
    ASSUME NEW tl, NEW W, NEW dp, NEW ds, Rewoken(W, ds),
           tally \in [Cols -> TallyType], tl \in [Cols -> TallyType], FiledBut(tally, dep, {}),
           \A c \in Cols : Leaves(tally[c], tl[c], W[c]),
           SameParked(dp)
    PROVE  FiledBut(tl, dp, ds)
<1>1. ASSUME NEW c \in Cols, NEW d \in Deps, d \in W[c]
      PROVE  On[d] = c /\ dep[d] = "parked"
  <2>1. d \in tally[c].open \/ \E k \in Nat : <<d, k>> \in tally[c].parked
    BY <1>1 DEF Leaves
  <2> QED
    BY <2>1 DEF FiledBut
<1>2. ds \subseteq Deps /\ \A d \in Deps : d \in ds <=> d \in W[On[d]]
  <2>1. \A c \in Cols : W[c] \subseteq Deps
    BY DEF Leaves
  <2> QED
    BY <1>1, <2>1, MembershipAssumption DEF Rewoken
<1>3. ASSUME NEW c \in Cols, NEW d \in Deps, d \in tl[c].open
      PROVE  /\ d \notin ds /\ dp[d] = "parked" /\ On[d] = c
             /\ \A k \in Nat : <<d, k>> \notin tl[c].parked
  <2>1. d \in tally[c].open /\ tl[c].parked \subseteq tally[c].parked
    BY <1>3 DEF Leaves
  <2>2. dep[d] = "parked" /\ On[d] = c /\ \A k \in Nat : <<d, k>> \notin tally[c].parked
    BY <2>1 DEF FiledBut
  <2>3. d \notin W[c]
    BY <1>3, <2>2 DEF Leaves
  <2> QED
    BY <1>2, <2>1, <2>2, <2>3 DEF SameParked
<1>4. ASSUME NEW c \in Cols, NEW d \in Deps, NEW k \in Nat, <<d, k>> \in tl[c].parked
      PROVE  /\ d \notin ds /\ dp[d] = "parked" /\ On[d] = c
             /\ \A j \in Nat : <<d, j>> \in tl[c].parked => j = k
  <2>1. <<d, k>> \in tally[c].parked /\ tl[c].parked \subseteq tally[c].parked
    BY <1>4 DEF Leaves
  <2>2. /\ dep[d] = "parked" /\ On[d] = c /\ d \notin tally[c].open
        /\ \A j \in Nat : <<d, j>> \in tally[c].parked => j = k
    BY <2>1 DEF FiledBut
  <2>3. d \notin W[c]
    BY <1>4, <2>2 DEF Leaves
  <2> QED
    BY <1>2, <2>1, <2>2, <2>3 DEF SameParked
<1>5. ASSUME NEW d \in Deps \ ds, dp[d] = "parked"
      PROVE  d \in tl[On[d]].open \/ \E k \in Nat : <<d, k>> \in tl[On[d]].parked
  <2>1. d \in tally[On[d]].open \/ \E k \in Nat : <<d, k>> \in tally[On[d]].parked
    BY <1>5 DEF FiledBut, SameParked
  <2>2. d \notin W[On[d]] /\ On[d] \in Cols
    BY <1>2, <1>5, MembershipAssumption
  <2> QED
    BY <2>1, <2>2 DEF Leaves
<1> QED
    BY <1>3, <1>4, <1>5 DEF FiledBut

\* settle: the tally follows, and keeps all else.
Settling(c, t, dl, st, m, o, sn, sq) ==
    /\ t \in TallyType /\ m \in Members /\ c \in Up[Home[m]] /\ sq \in Nat
    /\ dl \in [Members -> Nat] /\ Numbered(dl, sq) /\ dl[m] # 0
    /\ st \in [Members -> States] /\ st[m] = "pending" /\ o \in {"done", "failed"}
    /\ sn = [st EXCEPT ![m] = o] /\ Follows(c, t, dl, st)
KeptBySettle(t, u) ==
    /\ u \in TallyType /\ u.sealed = t.sealed /\ u.through = t.through /\ u.holds = t.holds
    /\ u.builderFailed = t.builderFailed

LEMMA SettleEarlierFailed ==
    ASSUME NEW c, NEW t, NEW dl, NEW st, NEW m, NEW sn, NEW sq,
           Settling(c, t, dl, st, m, "failed", sn, sq), t.firstFailed # 0, t.firstFailed <= dl[m]
    PROVE  /\ Settled(c, t, dl, sn, m) = [tally |-> t, woken |-> {}]
           /\ KeptBySettle(t, t) /\ Leaves(t, t, {}) /\ Follows(c, t, dl, sn)
<1>1. /\ m \in Members /\ st \in [Members -> States] /\ sn = [st EXCEPT ![m] = "failed"]
      /\ t \in TallyType /\ Follows(c, t, dl, st) /\ dl \in [Members -> Nat]
      /\ m \in MembersOf(c, dl) /\ st[m] = "pending"
    BY DEF Settling, MembersOf, Declared
<1>2. sn[m] = "failed" /\ \A n \in Members \ {m} : sn[n] = st[n]
    BY <1>1
<1>3. Settled(c, t, dl, sn, m) = [tally |-> t, woken |-> {}]
    BY <1>2 DEF Settled
<1>4. KeptBySettle(t, t) /\ Leaves(t, t, {})
    BY <1>1 DEF KeptBySettle, Leaves
<1>5. Failing(c, dl, sn) = Failing(c, dl, st) \union {m}
    BY <1>1, <1>2 DEF Failing, MembersOf, Declared
<1>6. Prefix(c, dl, sn) = Prefix(c, dl, st)
  <2>1. Leading(c, dl, sn) = Leading(c, dl, st)
    BY <1>1, <1>2 DEF Leading, MembersOf, Declared
  <2> QED
    BY <2>1 DEF Leading, Prefix
<1>7. Follows(c, t, dl, sn)
  <2>1. PICK x \in Failing(c, dl, st) :
            t.firstFailed = dl[x] /\ \A n \in Failing(c, dl, st) : dl[x] <= dl[n]
    BY <1>1 DEF Follows
  <2>2. \A n \in Failing(c, dl, sn) : dl[x] <= dl[n]
    BY <1>5, <2>1
  <2> QED
    BY <1>1, <1>5, <1>6, <2>1, <2>2 DEF Follows
<1> QED
    BY <1>3, <1>4, <1>7

LEMMA SettleFailed ==
    ASSUME NEW c, NEW t, NEW dl, NEW st, NEW m, NEW sn, NEW sq,
           Settling(c, t, dl, st, m, "failed", sn, sq),
           ~(t.firstFailed # 0 /\ t.firstFailed <= dl[m]),
           NEW u, NEW w, Settled(c, t, dl, sn, m) = [tally |-> u, woken |-> w]
    PROVE  /\ KeptBySettle(t, u) /\ Leaves(t, u, w) /\ Follows(c, u, dl, sn)
           /\ u.open = {} /\ \A d \in Deps, k \in Nat : <<d, k>> \in u.parked =>
                <<d, k>> \in t.parked /\ k < dl[m]
<1> DEFINE late == {p \in t.parked : p[2] >= dl[m]}
<1>1. /\ m \in Members /\ st \in [Members -> States] /\ sn = [st EXCEPT ![m] = "failed"]
      /\ t \in TallyType /\ Follows(c, t, dl, st) /\ dl \in [Members -> Nat]
      /\ m \in MembersOf(c, dl) /\ st[m] = "pending"
    BY DEF Settling, MembersOf, Declared
<1>2. sn[m] = "failed" /\ \A n \in Members \ {m} : sn[n] = st[n]
    BY <1>1
<1>3. late \subseteq Deps \X Nat /\ t.parked \subseteq Deps \X Nat /\ t.open \subseteq Deps
    BY <1>1 DEF TallyType
<1>4. Settled(c, t, dl, sn, m)
        = [tally |-> [t EXCEPT !.firstFailed = dl[m], !.open = {}, !.parked = @ \ late],
           woken |-> t.open \union {p[1] : p \in late}]
    BY <1>2, Zenon DEF Settled, ParkedFrom
<1> HIDE DEF late
<1>5. /\ u = [t EXCEPT !.firstFailed = dl[m], !.open = {}, !.parked = @ \ late]
      /\ w = t.open \union {p[1] : p \in late}
    BY <1>4
<1>6. /\ u.firstFailed = dl[m] /\ u.open = {} /\ u.parked = t.parked \ late
      /\ u.prefix = t.prefix /\ KeptBySettle(t, u)
    BY <1>1, <1>5 DEF TallyType, KeptBySettle
<1>7. Leaves(t, u, w)
  <2>1. {p[1] : p \in late} \subseteq Deps
        /\ \A d \in Deps : d \in {p[1] : p \in late} <=> \E k \in Nat : <<d, k>> \in late
    BY <1>3, ParkedNames
  <2>2. late \subseteq t.parked
    BY DEF late
  <2> QED
    BY <1>3, <1>5, <1>6, <2>1, <2>2 DEF Leaves
<1>8. Failing(c, dl, sn) = Failing(c, dl, st) \union {m}
    BY <1>1, <1>2 DEF Failing, MembersOf, Declared
<1>9. Prefix(c, dl, sn) = Prefix(c, dl, st)
  <2>1. Leading(c, dl, sn) = Leading(c, dl, st)
    BY <1>1, <1>2 DEF Leading, MembersOf, Declared
  <2> QED
    BY <2>1 DEF Leading, Prefix
<1>10. \A n \in Failing(c, dl, sn) : dl[m] <= dl[n]
  <2>1. \A n \in Failing(c, dl, st) : dl[m] <= dl[n]
    <3>1. CASE Failing(c, dl, st) = {}
      BY <3>1
    <3>2. CASE Failing(c, dl, st) # {}
      <4>1. PICK x \in Failing(c, dl, st) :
                t.firstFailed = dl[x] /\ \A n \in Failing(c, dl, st) : dl[x] <= dl[n]
        BY <1>1, <3>2 DEF Follows
      <4>2. \A n \in Failing(c, dl, st) : dl[n] \in Nat /\ dl[n] # 0
        BY <1>1 DEF Failing, MembersOf, Declared
      <4> QED
        BY <1>1, <4>1, <4>2
    <3> QED
      BY <3>1, <3>2
  <2>2. dl[m] <= dl[m]
    BY <1>1
  <2> QED
    BY <1>8, <2>1, <2>2
<1>11. Follows(c, u, dl, sn)
    BY <1>1, <1>6, <1>8, <1>9, <1>10 DEF Follows
<1>12. ASSUME NEW d \in Deps, NEW k \in Nat, <<d, k>> \in u.parked
       PROVE  <<d, k>> \in t.parked /\ k < dl[m]
    BY <1>1, <1>6, <1>12 DEF late
<1> QED
    BY <1>6, <1>7, <1>11, <1>12

LEMMA SettleDone ==
    ASSUME NEW c, NEW t, NEW dl, NEW st, NEW m, NEW sn, NEW sq,
           Settling(c, t, dl, st, m, "done", sn, sq),
           NEW u, NEW w, Settled(c, t, dl, sn, m) = [tally |-> u, woken |-> w]
    PROVE  /\ KeptBySettle(t, u) /\ Leaves(t, u, w) /\ Follows(c, u, dl, sn)
           /\ u.open = t.open /\ u.firstFailed = t.firstFailed
           /\ \A d \in Deps, k \in Nat : <<d, k>> \in u.parked =>
                <<d, k>> \in t.parked /\ ~SucceededThrough(c, u, k, dl)
<1> DEFINE v == [t EXCEPT !.prefix = Prefix(c, dl, sn)]
           ready == {p \in t.parked : SucceededThrough(c, v, p[2], dl)}
<1>1. /\ m \in Members /\ st \in [Members -> States] /\ sn = [st EXCEPT ![m] = "done"]
      /\ t \in TallyType /\ Follows(c, t, dl, st) /\ dl \in [Members -> Nat]
      /\ m \in MembersOf(c, dl) /\ st[m] = "pending"
    BY DEF Settling, MembersOf, Declared
<1>2. sn[m] = "done" /\ \A n \in Members \ {m} : sn[n] = st[n]
    BY <1>1
<1>3. ready \subseteq t.parked /\ t.parked \subseteq Deps \X Nat /\ t.open \subseteq Deps
    BY <1>1 DEF TallyType
<1>4. Settled(c, t, dl, sn, m) = [tally |-> [v EXCEPT !.parked = @ \ ready],
                                  woken |-> {p[1] : p \in ready}]
  <2>1. sn[m] # "failed"
    BY <1>2
  <2> QED
    BY <2>1, Zenon DEF Settled, AdvancedPrefix
<1>5. Prefix(c, dl, sn) \in Nat
  <2>1. Leading(c, dl, sn) \in SUBSET MembersOf(c, dl)
    BY DEF Leading
  <2> QED
    BY <2>1, FiniteMembers, FS_Subset, FS_CardinalityType DEF Leading, Prefix
<1>6. v \in TallyType /\ v.prefix = Prefix(c, dl, sn) /\ v.parked = t.parked /\ v.open = t.open
      /\ v.firstFailed = t.firstFailed /\ KeptBySettle(t, v)
    BY <1>1, <1>5 DEF TallyType, KeptBySettle
<1> HIDE DEF v
<1>7. \A k : SucceededThrough(c, [v EXCEPT !.parked = @ \ ready], k, dl)
                <=> SucceededThrough(c, v, k, dl)
  <2> HIDE DEF ready
  <2>1. [v EXCEPT !.parked = @ \ ready].prefix = v.prefix
    BY <1>6 DEF TallyType
  <2> QED
    BY <2>1 DEF SucceededThrough, NextDecl
<1>8. \A d \in Deps, k \in Nat : <<d, k>> \in t.parked /\ <<d, k>> \notin ready =>
        ~SucceededThrough(c, v, k, dl)
    OBVIOUS
<1> HIDE DEF ready
<1>9. u = [v EXCEPT !.parked = @ \ ready] /\ w = {p[1] : p \in ready}
    BY <1>4
<1>10. /\ u.firstFailed = t.firstFailed /\ u.open = t.open /\ u.parked = t.parked \ ready
       /\ u.prefix = Prefix(c, dl, sn) /\ KeptBySettle(t, u)
    BY <1>6, <1>9 DEF TallyType, KeptBySettle
<1>11. Leaves(t, u, w)
  <2>1. w \subseteq Deps /\ \A d \in Deps : d \in w <=> \E k \in Nat : <<d, k>> \in ready
    BY <1>3, <1>9, ParkedNames
  <2> QED
    BY <1>3, <1>10, <2>1 DEF Leaves
<1>12. Failing(c, dl, sn) = Failing(c, dl, st)
    BY <1>1, <1>2 DEF Failing, MembersOf, Declared
<1>13. Follows(c, u, dl, sn)
    BY <1>1, <1>10, <1>12 DEF Follows
<1>14. \A d \in Deps, k \in Nat : <<d, k>> \in u.parked =>
        <<d, k>> \in t.parked /\ ~SucceededThrough(c, u, k, dl)
    BY <1>7, <1>8, <1>9, <1>10
<1> QED
    BY <1>10, <1>11, <1>13, <1>14

\* settle: the tally follows every settle, and leaves nobody parked whom the
\* settle resolves.
LEMMA SettleFollows ==
    ASSUME NEW c, NEW t, NEW dl, NEW st, NEW m, NEW o, NEW sn, NEW sq,
           Settling(c, t, dl, st, m, o, sn, sq),
           NEW u, NEW w, Settled(c, t, dl, sn, m) = [tally |-> u, woken |-> w]
    PROVE  KeptBySettle(t, u) /\ Leaves(t, u, w) /\ Follows(c, u, dl, sn)
<1>1. CASE o = "done"
    BY <1>1, SettleDone
<1>2. CASE o = "failed" /\ t.firstFailed # 0 /\ t.firstFailed <= dl[m]
  <2>1. [tally |-> u, woken |-> w] = [tally |-> t, woken |-> {}]
    BY <1>2, SettleEarlierFailed
  <2>2. u = t /\ w = {}
    BY <2>1
  <2> QED
    BY <1>2, <2>2, SettleEarlierFailed
<1>3. CASE o = "failed" /\ ~(t.firstFailed # 0 /\ t.firstFailed <= dl[m])
    BY <1>3, SettleFailed
<1> QED
    BY <1>1, <1>2, <1>3 DEF Settling

LEMMA SettleRests ==
    ASSUME NEW c, NEW t, NEW dl, NEW st, NEW m, NEW o, NEW sn, NEW sq,
           Settling(c, t, dl, st, m, o, sn, sq),
           NEW u, NEW w, Settled(c, t, dl, sn, m) = [tally |-> u, woken |-> w],
           NEW eg, NEW drains, Rests(c, t, eg, dl, st, drains, sq)
    PROVE  Rests(c, u, eg, dl, sn, drains, sq)
<1>1. KeptBySettle(t, u) /\ Leaves(t, u, w) /\ Follows(c, u, dl, sn)
    BY SettleFollows
<1>2. /\ m \in Members /\ st \in [Members -> States] /\ sn = [st EXCEPT ![m] = o]
      /\ t \in TallyType /\ u \in TallyType /\ Follows(c, t, dl, st)
      /\ dl \in [Members -> Nat] /\ Numbered(dl, sq) /\ sq \in Nat /\ o \in {"done", "failed"}
      /\ m \in MembersOf(c, dl) /\ st[m] = "pending"
    BY <1>1 DEF Settling, MembersOf, Declared, KeptBySettle
<1>3. sn[m] = o /\ \A n \in Members \ {m} : sn[n] = st[n]
    BY <1>2
<1>4. \A d \in u.open : IsOpen(u, eg[d], drains) /\ u.firstFailed = 0 /\ ~u.builderFailed
  <2>1. ASSUME NEW d \in u.open
        PROVE  d \in t.open /\ u.firstFailed = t.firstFailed
    <3>1. CASE o = "done"
      BY <2>1, <3>1, SettleDone
    <3>2. CASE o = "failed" /\ t.firstFailed # 0 /\ t.firstFailed <= dl[m]
      <4>1. [tally |-> u, woken |-> w] = [tally |-> t, woken |-> {}]
        BY <3>2, SettleEarlierFailed
      <4>2. u = t
        BY <4>1
      <4> QED
        BY <4>2, <2>1
    <3>3. CASE o = "failed" /\ ~(t.firstFailed # 0 /\ t.firstFailed <= dl[m])
      <4>1. u.open = {}
        BY <3>3, SettleFailed
      <4> QED
        BY <4>1, <2>1
    <3> QED
      BY <1>2, <3>1, <3>2, <3>3
  <2>2. ASSUME NEW d \in t.open
        PROVE  /\ t.firstFailed = 0 /\ ~u.builderFailed
               /\ IsOpen(u, eg[d], drains)
    BY <1>1, <2>2 DEF Rests, KeptBySettle, IsOpen
  <2> QED
    BY <2>1, <2>2
<1>5. ASSUME NEW d \in Deps, NEW k \in Nat, <<d, k>> \in u.parked
      PROVE  Lies(c, u, k, eg[d], dl, sn, drains, sq)
  <2>1. <<d, k>> \in t.parked
    BY <1>1, <1>5 DEF Leaves
  <2>2. Lies(c, t, k, eg[d], dl, st, drains, sq)
    BY <2>1 DEF Rests
  <2>3. /\ eg[d] # 0 \/ u.sealed \/ drains
        /\ Through(c, k, dl) = Through(c, Reach(u, eg[d]), dl)
        /\ IF drains THEN u.holds = 0 ELSE k <= sq
        /\ ~u.builderFailed
    BY <1>1, <2>2 DEF KeptBySettle, Lies, Reach
  <2>4. Through(c, k, dl) \subseteq Members
    BY DEF Through, MembersOf, Declared
  <2>5. /\ \A n \in Through(c, k, dl) : sn[n] # "failed"
        /\ \E n \in Through(c, k, dl) : sn[n] # "done"
    <3>1. CASE o = "done"
      <4>1. ~SucceededThrough(c, u, k, dl)
        BY <1>5, <3>1, SettleDone
      <4>2. \E n \in Through(c, k, dl) : sn[n] # "done"
        <5>1. u.prefix = Prefix(c, dl, sn)
          BY <1>1 DEF Follows
        <5>2. dl \in [Members -> Nat] /\ Numbered(dl, sq) /\ sq \in Nat
          BY <1>2
        <5>3. ~(\A n \in Through(c, k, dl) : sn[n] = "done")
          BY <4>1, <5>1, <5>2, ReadsSucceeded
        <5> QED
          BY <5>3
      <4>3. \A n \in Through(c, k, dl) : sn[n] # "failed"
        BY <1>3, <2>2, <2>4, <3>1 DEF Lies
      <4> QED
        BY <4>2, <4>3
    <3>2. CASE o = "failed"
      <4>1. m \notin Through(c, k, dl)
        <5>1. CASE t.firstFailed # 0 /\ t.firstFailed <= dl[m]
          <6>1. ~(t.firstFailed <= k)
            BY <1>2, <2>2, <5>1, ReadsFailed DEF Lies, FailedThrough
          <6>2. t.firstFailed \in Nat /\ dl[m] \in Nat
            BY <1>2 DEF TallyType
          <6> QED
            BY <5>1, <6>1, <6>2 DEF Through
        <5>2. CASE ~(t.firstFailed # 0 /\ t.firstFailed <= dl[m])
          <6>1. k < dl[m]
            BY <1>5, <3>2, <5>2, SettleFailed
          <6>2. dl[m] \in Nat
            BY <1>2
          <6> QED
            BY <6>1, <6>2 DEF Through
        <5> QED
          BY <5>1, <5>2
      <4>2. \A n \in Through(c, k, dl) : sn[n] = st[n]
        BY <1>3, <2>4, <4>1
      <4> QED
        BY <2>2, <4>2 DEF Lies
    <3> QED
      BY <1>2, <3>1, <3>2
  <2> QED
    BY <2>3, <2>5 DEF Lies
<1> QED
    BY <1>4, <1>5 DEF Rests

\* A settle elsewhere is none of a collection's business.
LEMMA SettleElsewhere ==
    ASSUME NEW c, NEW t, NEW dl, NEW st, NEW m \in Members, NEW o, NEW sn,
           st \in [Members -> States], sn = [st EXCEPT ![m] = o], c \notin Up[Home[m]]
    PROVE  /\ Follows(c, t, dl, st) => Follows(c, t, dl, sn)
           /\ \A eg, drains, sq : Rests(c, t, eg, dl, st, drains, sq)
                => Rests(c, t, eg, dl, sn, drains, sq)
<1>1. \A n \in MembersOf(c, dl) : sn[n] = st[n]
    BY DEF MembersOf, Declared
<1>2. Failing(c, dl, sn) = Failing(c, dl, st)
    BY <1>1 DEF Failing
<1>3. Prefix(c, dl, sn) = Prefix(c, dl, st)
  <2>1. Leading(c, dl, sn) = Leading(c, dl, st)
    BY <1>1 DEF Leading
  <2> QED
    BY <2>1 DEF Leading, Prefix
<1>4. \A k : \A n \in Through(c, k, dl) : sn[n] = st[n]
    BY <1>1 DEF Through
<1>5. \A k, reads, drains, sq : Lies(c, t, k, reads, dl, st, drains, sq)
                                => Lies(c, t, k, reads, dl, sn, drains, sq)
    BY <1>4 DEF Lies
<1> QED
    BY <1>2, <1>3, <1>5 DEF Follows, Rests

\* What no seal, release or failed builder changes: who reads the same tally
\* follows the same members.
SameReading(t, u) == u.prefix = t.prefix /\ u.firstFailed = t.firstFailed

LEMMA FollowsSame ==
    ASSUME NEW c, NEW t, NEW u, NEW dl, NEW st, SameReading(t, u), Follows(c, t, dl, st)
    PROVE  Follows(c, u, dl, st)
BY DEF SameReading, Follows

\* seal.
LEMMA SealKeeps ==
    ASSUME NEW t \in TallyType, NEW sq \in Nat, NEW u, NEW w,
           Sealed(t, sq) = [tally |-> u, woken |-> w]
    PROVE  /\ u \in TallyType /\ Leaves(t, u, w) /\ SameReading(t, u) /\ u.parked = t.parked
           /\ u.holds = t.holds /\ u.builderFailed = t.builderFailed
           /\ t.sealed \/ t.holds > 0 => u = t
           /\ ~(t.sealed \/ t.holds > 0) => u.sealed /\ u.through = sq /\ u.open = {}
<1>1. CASE t.sealed \/ t.holds > 0
  <2>1. Sealed(t, sq) = [tally |-> t, woken |-> {}]
    BY <1>1 DEF Sealed
  <2>2. u = t /\ w = {}
    BY <2>1
  <2> QED
    BY <1>1, <2>2 DEF Leaves, SameReading
<1>2. CASE ~(t.sealed \/ t.holds > 0)
  <2>1. Sealed(t, sq) = [tally |-> [t EXCEPT !.sealed = TRUE, !.through = sq, !.open = {}],
                         woken |-> t.open]
    BY <1>2 DEF Sealed
  <2>2. u = [t EXCEPT !.sealed = TRUE, !.through = sq, !.open = {}] /\ w = t.open
    BY <2>1
  <2>3. /\ u \in TallyType /\ SameReading(t, u) /\ u.parked = t.parked /\ u.open = {}
        /\ u.holds = t.holds /\ u.builderFailed = t.builderFailed /\ u.sealed /\ u.through = sq
    BY <2>2 DEF TallyType, SameReading
  <2>4. t.open \subseteq Deps
    BY DEF TallyType
  <2>5. Leaves(t, u, w)
    BY <2>2, <2>3, <2>4 DEF Leaves
  <2> QED
    BY <1>2, <2>3, <2>5
<1> QED
    BY <1>1, <1>2

\* A seal after the drain closes nothing: the edges it could have closed read all
\* there is already.
LEMMA SealRests ==
    ASSUME NEW c, NEW t \in TallyType, NEW sq \in Nat, NEW u, NEW w,
           Sealed(t, sq) = [tally |-> u, woken |-> w], sq <= ThroughAll,
           NEW eg, NEW dl \in [Members -> Nat], NEW st, NEW drains, Numbered(dl, sq),
           Rests(c, t, eg, dl, st, drains, sq)
    PROVE  Rests(c, u, eg, dl, st, drains, sq)
<1>1. /\ u.parked = t.parked /\ u.holds = t.holds /\ u.builderFailed = t.builderFailed
      /\ t.sealed \/ t.holds > 0 => u = t
      /\ ~(t.sealed \/ t.holds > 0) => u.sealed /\ u.through = sq /\ u.open = {}
    BY SealKeeps
<1>2. CASE t.sealed \/ t.holds > 0
    BY <1>1, <1>2
<1>3. CASE ~(t.sealed \/ t.holds > 0)
  <2>1. Through(c, ThroughAll, dl) = Through(c, sq, dl)
    BY ThroughAllType DEF Through, MembersOf, Declared, Numbered
  <2>2. ASSUME NEW d \in Deps, NEW k \in Nat, <<d, k>> \in u.parked
        PROVE  Lies(c, u, k, eg[d], dl, st, drains, sq)
    <3>1. Lies(c, t, k, eg[d], dl, st, drains, sq)
      BY <1>1, <2>2 DEF Rests
    <3>2. Through(c, k, dl) = Through(c, Reach(u, eg[d]), dl)
      BY <1>1, <1>3, <2>1, <3>1 DEF Lies, Reach
    <3> QED
      BY <1>1, <1>3, <3>1, <3>2 DEF Lies
  <2> QED
    BY <1>1, <1>3, <2>2 DEF Rests
<1> QED
    BY <1>2, <1>3

\* concludeGateLocked, on one tally: failBuilder unless it is done, and release.
Ending(t, outcome) == IF outcome = "done" THEN [tally |-> t, woken |-> {}] ELSE FailedBuilder(t)

LEMMA EndingKeeps ==
    ASSUME NEW t \in TallyType, NEW outcome, NEW v, NEW x,
           Ending(t, outcome) = [tally |-> v, woken |-> x]
    PROVE  /\ v \in TallyType /\ Leaves(t, v, x) /\ SameReading(t, v)
           /\ v.holds = t.holds /\ v.sealed = t.sealed /\ v.through = t.through
           /\ outcome = "done" => v = t
           /\ outcome # "done" => v.builderFailed /\ v.open = {} /\ v.parked = {}
<1>1. CASE outcome = "done"
  <2>1. v = t /\ x = {}
    BY <1>1 DEF Ending
  <2> QED
    BY <1>1, <2>1 DEF Leaves, SameReading
<1>2. CASE outcome # "done"
  <2>1. Ending(t, outcome) = FailedBuilder(t)
    BY <1>2 DEF Ending
  <2>2. /\ v = [t EXCEPT !.builderFailed = TRUE, !.open = {}, !.parked = {}]
        /\ x = t.open \union {p[1] : p \in t.parked}
    BY <2>1 DEF FailedBuilder
  <2>3. /\ v \in TallyType /\ SameReading(t, v) /\ v.builderFailed /\ v.open = {} /\ v.parked = {}
        /\ v.holds = t.holds /\ v.sealed = t.sealed /\ v.through = t.through
    BY <2>2 DEF TallyType, SameReading
  <2>4. t.open \subseteq Deps /\ t.parked \subseteq Deps \X Nat
    BY DEF TallyType
  <2>5. x \subseteq Deps
        /\ \A d \in Deps : d \in x <=> d \in t.open \/ \E k \in Nat : <<d, k>> \in t.parked
    BY <2>2, <2>4, ParkedNames
  <2>6. Leaves(t, v, x)
    BY <2>3, <2>5 DEF Leaves
  <2> QED
    BY <1>2, <2>3, <2>6
<1> QED
    BY <1>1, <1>2

LEMMA ReleaseKeeps ==
    ASSUME NEW t \in TallyType, t.holds # 0, NEW seals \in BOOLEAN, NEW sq \in Nat,
           NEW u, NEW w, Released(t, seals, sq) = [tally |-> u, woken |-> w]
    PROVE  /\ u \in TallyType /\ Leaves(t, u, w) /\ SameReading(t, u)
           /\ u.parked = t.parked /\ u.holds = t.holds - 1 /\ u.builderFailed = t.builderFailed
           /\ t.holds = 1 /\ ~(seals /\ t.sealed) => u.open = {}
           /\ t.holds # 1 => u.open = t.open /\ u.sealed = t.sealed /\ u.through = t.through
           /\ u.through \in {t.through, sq}
           /\ ~seals => u.sealed = t.sealed /\ u.through = t.through
           /\ t.sealed => u.sealed /\ u.through = t.through
<1> DEFINE r == [t EXCEPT !.holds = @ - 1]
<1>1. t.holds \in Nat
    BY DEF TallyType
<1>2. /\ r \in TallyType /\ SameReading(t, r) /\ r.parked = t.parked /\ r.open = t.open
      /\ r.holds = t.holds - 1 /\ r.builderFailed = t.builderFailed
      /\ r.sealed = t.sealed /\ r.through = t.through
    BY <1>1 DEF TallyType, SameReading
<1>3. Released(t, seals, sq) = IF r.holds > 0 THEN [tally |-> r, woken |-> {}]
                               ELSE IF seals THEN Sealed(r, sq)
                               ELSE [tally |-> [r EXCEPT !.open = {}], woken |-> r.open]
    BY Zenon DEF Released
<1> HIDE DEF r
<1>4. CASE r.holds > 0
  <2>1. u = r /\ w = {}
    BY <1>3, <1>4
  <2>2. Leaves(t, u, w)
    BY <1>2, <2>1 DEF Leaves
  <2> QED
    BY <1>1, <1>2, <1>4, <2>1, <2>2
<1>5. CASE ~(r.holds > 0) /\ seals
  <2>1. Sealed(r, sq) = [tally |-> u, woken |-> w]
    BY <1>3, <1>5
  <2>2. /\ u \in TallyType /\ Leaves(r, u, w) /\ SameReading(r, u) /\ u.parked = r.parked
        /\ u.holds = r.holds /\ u.builderFailed = r.builderFailed
        /\ r.sealed \/ r.holds > 0 => u = r
        /\ ~(r.sealed \/ r.holds > 0) => u.sealed /\ u.through = sq /\ u.open = {}
    BY <1>2, <2>1, SealKeeps
  <2>3. Leaves(t, u, w) /\ SameReading(t, u)
    BY <1>2, <2>2 DEF Leaves, SameReading
  <2> QED
    BY <1>1, <1>2, <1>5, <2>2, <2>3
<1>6. CASE ~(r.holds > 0) /\ ~seals
  <2>1. u = [r EXCEPT !.open = {}] /\ w = r.open
    BY <1>3, <1>6
  <2>2. /\ u \in TallyType /\ SameReading(t, u) /\ u.parked = t.parked /\ u.open = {}
        /\ u.holds = t.holds - 1 /\ u.builderFailed = t.builderFailed
        /\ u.sealed = t.sealed /\ u.through = t.through
    BY <1>2, <2>1 DEF TallyType, SameReading
  <2>3. t.open \subseteq Deps
    BY DEF TallyType
  <2>4. Leaves(t, u, w)
    BY <1>2, <2>1, <2>2, <2>3 DEF Leaves
  <2> QED
    BY <1>1, <1>2, <1>6, <2>2, <2>4
<1> QED
    BY <1>4, <1>5, <1>6

KeptByEnd(t, u, outcome, seals, sq) ==
    /\ u \in TallyType /\ SameReading(t, u) /\ u.holds = t.holds - 1
    /\ u.builderFailed <=> t.builderFailed \/ outcome # "done"
    /\ u.through \in {t.through, sq}
    /\ ~seals => u.sealed = t.sealed

LEMMA ConcludeKeeps ==
    ASSUME NEW t \in TallyType, t.holds # 0, NEW outcome, NEW seals \in BOOLEAN, NEW sq \in Nat,
           NEW v, NEW x, Ending(t, outcome) = [tally |-> v, woken |-> x],
           NEW u, NEW w, Released(v, seals, sq) = [tally |-> u, woken |-> w]
    PROVE  Leaves(t, u, x \union w) /\ KeptByEnd(t, u, outcome, seals, sq)
<1>1. /\ v \in TallyType /\ Leaves(t, v, x) /\ SameReading(t, v)
      /\ v.holds = t.holds /\ v.sealed = t.sealed /\ v.through = t.through
      /\ outcome = "done" => v = t
      /\ outcome # "done" => v.builderFailed /\ v.open = {} /\ v.parked = {}
    BY EndingKeeps
<1>2. /\ u \in TallyType /\ Leaves(v, u, w) /\ SameReading(v, u)
      /\ u.holds = v.holds - 1 /\ u.builderFailed = v.builderFailed
      /\ u.through \in {v.through, sq}
      /\ ~seals => u.sealed = v.sealed /\ u.through = v.through
      /\ v.sealed => u.sealed /\ u.through = v.through
    BY <1>1, ReleaseKeeps
<1>3. Leaves(t, u, x \union w)
    BY <1>1, <1>2 DEF Leaves
<1>4. SameReading(t, u)
    BY <1>1, <1>2 DEF SameReading
<1> QED
    BY <1>1, <1>2, <1>3, <1>4 DEF KeptByEnd

\* Whoever a builder's end leaves parked reads through a cursor, or waits for
\* another builder: its own collection was not sealed before.
LEMMA ConcludeRests ==
    ASSUME NEW t \in TallyType, t.holds # 0, NEW outcome, NEW seals \in BOOLEAN, NEW sq \in Nat,
           NEW v, NEW x, Ending(t, outcome) = [tally |-> v, woken |-> x],
           NEW u, NEW w, Released(v, seals, sq) = [tally |-> u, woken |-> w],
           ~(seals /\ t.sealed),
           NEW c, NEW eg, NEW dl, NEW st, NEW drains, Rests(c, t, eg, dl, st, drains, sq)
    PROVE  Rests(c, u, eg, dl, st, drains, sq)
<1>1. /\ v \in TallyType /\ v.holds = t.holds /\ v.sealed = t.sealed
      /\ outcome = "done" => v = t
      /\ outcome # "done" => v.builderFailed /\ v.open = {} /\ v.parked = {}
    BY EndingKeeps
<1>2. /\ u \in TallyType /\ Leaves(v, u, w) /\ SameReading(v, u)
      /\ u.parked = v.parked /\ u.holds = v.holds - 1 /\ u.builderFailed = v.builderFailed
      /\ v.holds = 1 /\ ~(seals /\ v.sealed) => u.open = {}
      /\ v.holds # 1 => u.open = v.open /\ u.sealed = v.sealed /\ u.through = v.through
      /\ v.sealed => u.sealed /\ u.through = v.through
    BY <1>1, ReleaseKeeps
<1>3. CASE outcome # "done"
  <2>1. u.open = {} /\ u.parked = {}
    BY <1>1, <1>2, <1>3 DEF Leaves
  <2> QED
    BY <2>1 DEF Rests
<1>4. CASE outcome = "done"
  <2>1. v = t
    BY <1>1, <1>4
  <2>2. t.holds \in Nat
    BY DEF TallyType
  <2>3. ASSUME NEW d \in u.open
        PROVE  IsOpen(u, eg[d], drains) /\ u.firstFailed = 0 /\ ~u.builderFailed
    <3>1. d \in t.open /\ t.holds # 1
      BY <1>2, <2>1, <2>3 DEF Leaves
    <3>2. t.firstFailed = 0 /\ ~t.builderFailed
      BY <3>1 DEF Rests
    <3>3. u.holds > 0
      BY <1>2, <2>1, <2>2, <3>1
    <3> QED
      BY <1>2, <2>1, <3>2, <3>3 DEF IsOpen, SameReading
  <2>4. ASSUME NEW d \in Deps, NEW k \in Nat, <<d, k>> \in u.parked
        PROVE  Lies(c, u, k, eg[d], dl, st, drains, sq)
    <3>1. Lies(c, t, k, eg[d], dl, st, drains, sq)
      BY <1>2, <2>1, <2>4 DEF Rests
    <3>2. ~drains
      BY <3>1 DEF Lies
    <3>3. eg[d] # 0 \/ t.sealed
      BY <3>1, <3>2 DEF Lies
    <3>4. Reach(u, eg[d]) = Reach(t, eg[d]) /\ (eg[d] # 0 \/ u.sealed)
      BY <1>2, <2>1, <3>3 DEF Reach
    <3>5. ~u.builderFailed
      BY <1>2, <2>1, <3>1 DEF Lies
    <3> QED
      BY <3>1, <3>2, <3>4, <3>5 DEF Lies
  <2> QED
    BY <2>3, <2>4 DEF Rests
<1> QED
    BY <1>3, <1>4

\* A builder's hold keeps the open open and moves no cursor.
LEMMA HoldRests ==
    ASSUME NEW t \in TallyType, NEW u, u = [t EXCEPT !.holds = @ + 1],
           NEW c, NEW eg, NEW dl, NEW st, NEW sq, Rests(c, t, eg, dl, st, FALSE, sq)
    PROVE  /\ u \in TallyType /\ SameReading(t, u) /\ u.open = t.open /\ u.parked = t.parked
           /\ u.holds = t.holds + 1 /\ u.builderFailed = t.builderFailed
           /\ u.sealed = t.sealed /\ u.through = t.through
           /\ Rests(c, u, eg, dl, st, FALSE, sq)
<1>1. t.holds \in Nat
    BY DEF TallyType
<1>2. /\ u \in TallyType /\ SameReading(t, u) /\ u.open = t.open /\ u.parked = t.parked
      /\ u.holds = t.holds + 1 /\ u.builderFailed = t.builderFailed
      /\ u.sealed = t.sealed /\ u.through = t.through
    BY <1>1 DEF TallyType, SameReading
<1>3. ASSUME NEW d \in u.open
      PROVE  IsOpen(u, eg[d], FALSE) /\ u.firstFailed = 0 /\ ~u.builderFailed
    BY <1>1, <1>2, <1>3 DEF Rests, IsOpen, SameReading
<1>4. ASSUME NEW d \in Deps, NEW k \in Nat, <<d, k>> \in u.parked
      PROVE  Lies(c, u, k, eg[d], dl, st, FALSE, sq)
  <2>1. Lies(c, t, k, eg[d], dl, st, FALSE, sq)
    BY <1>2, <1>4 DEF Rests
  <2> QED
    BY <1>2, <2>1 DEF Lies, Reach
<1> QED
    BY <1>2, <1>3, <1>4 DEF Rests

\* declare: a new member is the last, and nobody's edge reaches it yet.
Declaring(dl, sq, m, st, dn) ==
    /\ dl \in [Members -> Nat] /\ sq \in Nat /\ Numbered(dl, sq) /\ m \in Members
    /\ dl[m] = 0 /\ st[m] = "pending" /\ dn = [dl EXCEPT ![m] = sq + 1]

LEMMA DeclareNumbers ==
    ASSUME NEW dl, NEW sq, NEW m, NEW st, NEW dn, Declaring(dl, sq, m, st, dn)
    PROVE  /\ dn \in [Members -> Nat] /\ Numbered(dn, sq + 1) /\ dn[m] = sq + 1
           /\ Declared(dn) = Declared(dl) \union {m} /\ m \notin Declared(dl)
           /\ \A n \in Declared(dl) : dn[n] = dl[n] /\ dl[n] <= sq /\ n \in Members /\ n # m
<1>1. /\ dl \in [Members -> Nat] /\ sq \in Nat /\ Numbered(dl, sq) /\ m \in Members
      /\ dl[m] = 0 /\ dn = [dl EXCEPT ![m] = sq + 1]
    BY DEF Declaring
<1>2. dn[m] = sq + 1 /\ dn \in [Members -> Nat] /\ \A n \in Members \ {m} : dn[n] = dl[n]
    BY <1>1
<1>3. Declared(dn) = Declared(dl) \union {m} /\ m \notin Declared(dl)
    BY <1>1, <1>2 DEF Declared
<1>4. Numbered(dn, sq + 1)
    BY <1>1, <1>2, <1>3 DEF Numbered, Declared
<1> QED
    BY <1>1, <1>2, <1>3, <1>4 DEF Declared, Numbered

LEMMA DeclareReads ==
    ASSUME NEW dl, NEW sq, NEW m, NEW st, NEW dn, Declaring(dl, sq, m, st, dn), NEW c
    PROVE  /\ MembersOf(c, dl) \subseteq MembersOf(c, dn)
           /\ \A k \in Nat : k <= sq => Through(c, k, dn) = Through(c, k, dl)
           /\ c \notin Up[Home[m]] =>
                /\ MembersOf(c, dn) = MembersOf(c, dl)
                /\ \A k : Through(c, k, dn) = Through(c, k, dl)
<1> DEFINE M == MembersOf(c, dl)
           N == MembersOf(c, dn)
<1>1. /\ sq \in Nat /\ dn[m] = sq + 1
      /\ Declared(dn) = Declared(dl) \union {m} /\ m \notin Declared(dl)
      /\ \A n \in Declared(dl) : dn[n] = dl[n] /\ dl[n] <= sq
  <2>1. sq \in Nat
    BY DEF Declaring
  <2> QED
    BY <2>1, DeclareNumbers
<1>2. /\ M \subseteq N /\ N \subseteq M \union {m} /\ M \subseteq Declared(dl)
      /\ c \notin Up[Home[m]] => m \notin N
    BY <1>1 DEF MembersOf
<1>3. \A n \in M : dn[n] = dl[n]
    BY <1>1, <1>2
<1>4. \A k : /\ Through(c, k, dl) = {n \in M : dl[n] <= k}
             /\ Through(c, k, dn) = {n \in N : dn[n] <= k}
    BY DEF Through
<1> HIDE DEF M, N
<1>5. ASSUME NEW k \in Nat, k <= sq
      PROVE  {n \in N : dn[n] <= k} = {n \in M : dl[n] <= k}
  <2>1. ~(dn[m] <= k)
    BY <1>1, <1>5
  <2> QED
    BY <1>2, <1>3, <2>1
<1>6. ASSUME NEW k, c \notin Up[Home[m]]
      PROVE  N = M /\ {n \in N : dn[n] <= k} = {n \in M : dl[n] <= k}
  <2>1. N = M
    BY <1>2, <1>6
  <2> QED
    BY <1>3, <2>1
<1> QED
    BY <1>2, <1>4, <1>5, <1>6 DEF M, N

LEMMA DeclareFollows ==
    ASSUME NEW dl, NEW sq, NEW m, NEW st, NEW dn, Declaring(dl, sq, m, st, dn), NEW c, NEW t,
           Follows(c, t, dl, st)
    PROVE  Follows(c, t, dn, st)
<1> DEFINE M == MembersOf(c, dl)
           N == MembersOf(c, dn)
<1>1. /\ sq \in Nat /\ dn[m] = sq + 1 /\ st[m] = "pending"
      /\ Declared(dn) = Declared(dl) \union {m}
      /\ \A n \in Declared(dl) : dn[n] = dl[n] /\ dl[n] <= sq /\ dl[n] \in Nat
  <2>1. sq \in Nat /\ st[m] = "pending" /\ dl \in [Members -> Nat]
    BY DEF Declaring
  <2>2. /\ dn[m] = sq + 1 /\ Declared(dn) = Declared(dl) \union {m}
        /\ \A n \in Declared(dl) : dn[n] = dl[n] /\ dl[n] <= sq /\ n \in Members
    BY DeclareNumbers
  <2> QED
    BY <2>1, <2>2
<1>2. M \subseteq N /\ N \subseteq M \union {m} /\ M \subseteq Declared(dl)
    BY <1>1 DEF MembersOf
<1>3. /\ \A n \in M : dn[n] = dl[n] /\ dl[n] \in Nat /\ ~(dn[m] <= dl[n])
      /\ \A n \in M : n \in N
      /\ \A n \in N : n \in M \/ n = m
    BY <1>1, <1>2
<1>4. /\ Failing(c, dn, st) = {n \in N : st[n] = "failed"}
      /\ Failing(c, dl, st) = {n \in M : st[n] = "failed"}
      /\ Leading(c, dl, st) = {x \in M : \A n \in M : dl[n] <= dl[x] => st[n] = "done"}
      /\ Leading(c, dn, st) = {x \in N : \A n \in N : dn[n] <= dn[x] => st[n] = "done"}
    BY DEF Failing, Leading
<1> HIDE DEF M, N
<1>5. Failing(c, dn, st) = Failing(c, dl, st)
    BY <1>1, <1>3, <1>4
<1>6. Leading(c, dn, st) = Leading(c, dl, st)
  <2>1. ASSUME NEW x \in M, \A n \in M : dl[n] <= dl[x] => st[n] = "done"
        PROVE  x \in N /\ \A n \in N : dn[n] <= dn[x] => st[n] = "done"
    BY <1>3, <2>1
  <2>2. ASSUME NEW x \in N, \A n \in N : dn[n] <= dn[x] => st[n] = "done"
        PROVE  x \in M /\ \A n \in M : dl[n] <= dl[x] => st[n] = "done"
    <3>1. x # m
      BY <1>1, <2>2
    <3> QED
      BY <1>3, <2>2, <3>1
  <2> QED
    BY <1>4, <2>1, <2>2
<1>7. Prefix(c, dn, st) = Prefix(c, dl, st)
    BY <1>6 DEF Leading, Prefix
<1>8. \A n \in Failing(c, dl, st) : dn[n] = dl[n]
    BY <1>3, <1>4
<1> QED
    BY <1>5, <1>7, <1>8 DEF Follows

LEMMA DeclareRests ==
    ASSUME NEW dl, NEW sq, NEW m, NEW st, NEW dn, Declaring(dl, sq, m, st, dn), sq \in Nat,
           NEW c, NEW t \in TallyType, NEW eg \in [Deps -> Nat], NEW drains,
           t.through <= sq, \A d \in Deps : eg[d] <= sq,
           drains /\ c \in Up[Home[m]] => t.holds # 0,
           Rests(c, t, eg, dl, st, drains, sq)
    PROVE  Rests(c, t, eg, dn, st, drains, sq + 1)
<1>1. /\ \A k \in Nat : k <= sq => Through(c, k, dn) = Through(c, k, dl)
      /\ c \notin Up[Home[m]] => \A k : Through(c, k, dn) = Through(c, k, dl)
    BY DeclareReads
<1>2. ASSUME NEW d \in Deps, NEW k \in Nat, <<d, k>> \in t.parked
      PROVE  Lies(c, t, k, eg[d], dn, st, drains, sq + 1)
  <2>1. Lies(c, t, k, eg[d], dl, st, drains, sq)
    BY <1>2 DEF Rests
  <2>2. Through(c, k, dn) = Through(c, k, dl)
        /\ Through(c, Reach(t, eg[d]), dn) = Through(c, Reach(t, eg[d]), dl)
    <3>1. CASE drains
      BY <1>1, <2>1, <3>1 DEF Lies
    <3>2. CASE ~drains
      <4>1. k <= sq /\ (eg[d] # 0 \/ t.sealed)
        BY <2>1, <3>2 DEF Lies
      <4>2. Reach(t, eg[d]) \in Nat /\ Reach(t, eg[d]) <= sq
        BY <4>1 DEF Reach, TallyType
      <4> QED
        BY <1>1, <4>1, <4>2
    <3> QED
      BY <3>1, <3>2
  <2>3. IF drains THEN t.holds = 0 ELSE k <= sq + 1
    BY <2>1 DEF Lies
  <2> QED
    BY <2>1, <2>2, <2>3 DEF Lies
<1> QED
    BY <1>2 DEF Rests

-----------------------------------------------------------------------------
\* The invariant holds of every step.

LEMMA SceneFacts ==
    ASSUME Types
    PROVE  Built \subseteq Cols /\ IsFiniteSet(Built) /\ scene.waits \subseteq Cols
<1>1. Built \subseteq Cols /\ scene.waits \subseteq Cols /\ IsFiniteSet(Cols)
    BY MembershipAssumption DEF SceneAssumption, Types, Built
<1> QED
    BY <1>1, FS_Subset

LEMMA UnderFinite ==
    ASSUME NEW c, NEW b, DOMAIN b = Built, IsFiniteSet(Built)
    PROVE  IsFiniteSet(Under(c, b)) /\ Cardinality(Under(c, b)) \in Nat
<1>1. Under(c, b) \in SUBSET Built
    BY DEF Under
<1> QED
    BY <1>1, FS_Subset, FS_CardinalityType

\* A builder that is still to declare its children holds what it is in open.
LEMMA BuilderHolds ==
    ASSUME Types, Counted(tally, builder), NEW b \in Built, builder[b] \in {"pending", "running"},
           NEW c \in Up[b]
    PROVE  c \in Cols /\ tally[c].holds # 0
<1>1. DOMAIN builder = Built /\ IsFiniteSet(Built) /\ b \in Cols /\ c \in Cols
    BY SceneFacts, MembershipAssumption DEF Types
<1>2. b \in Under(c, builder)
    BY <1>1 DEF Under
<1>3. Cardinality(Under(c, builder)) # 0
    BY <1>1, <1>2, UnderFinite, FS_EmptySet
<1> QED
    BY <1>1, <1>3 DEF Counted

\* Every member declared is counted, so no cursor passes them all.
LEMMA SeqReaches ==
    ASSUME Types, Ordered
    PROVE  seq <= ThroughAll
<1>1. Declared(decl) \in SUBSET Members /\ IsFiniteSet(Members)
    BY MembershipAssumption DEF Declared
<1>2. /\ Cardinality(Declared(decl)) <= Cardinality(Members)
      /\ Cardinality(Members) \in Nat /\ Cardinality(Declared(decl)) \in Nat
    BY <1>1, FS_Subset, FS_CardinalityType
<1> QED
    BY <1>2 DEF Ordered, ThroughAll

LEMMA AlikeCounted ==
    ASSUME NEW tl, NEW tm, NEW b, \A c \in Cols : Alike(tm[c], tl[c]), Counted(tl, b)
    PROVE  Counted(tm, b)
<1>1. ASSUME NEW c \in Cols
      PROVE  tm[c].holds = tl[c].holds /\ tm[c].builderFailed = tl[c].builderFailed
    BY DEF Alike
<1> QED
    BY <1>1 DEF Counted

\* What placing dependents leaves to show of a step.
LEMMA PlacedStep ==
    ASSUME NEW tl, NEW dp, NEW ds,
           scene' = scene, entry' = entry,
           Placeable(tl, edge', decl', state', draining', seq', dp, ds),
           Place(ds, tl, edge', decl', draining', dp), Counted(tl, builder')
    PROVE  /\ tally' \in [Cols -> TallyType] /\ dep' \in [Deps -> Standings]
           /\ Followed' /\ Filed' /\ Counted(tally', builder')
           /\ \A c \in Cols : /\ tally'[c].through <= seq'
                              /\ tally'[c].sealed = tl[c].sealed
                              /\ Rests(c, tl[c], edge', decl', state', draining', seq') =>
                                 Rests(c, tally'[c], edge', decl', state', draining', seq')
           /\ \A d \in Deps : dep'[d] = "started" => dp[d] = "started"
<1>1. /\ tally' \in [Cols -> TallyType] /\ dep' \in [Deps -> Standings]
      /\ \A c \in Cols : Alike(tally'[c], tl[c]) /\ Follows(c, tally'[c], decl', state')
      /\ FiledBut(tally', dep', {}) /\ OnEntries(dep', {})
      /\ \A d \in Deps : dep'[d] = "started" => dp[d] = "started"
    BY PlaceFiles
<1>2. Followed' /\ Filed'
    BY <1>1 DEF Followed, Filed, FiledBut, OnEntries, EntryPending, Built
<1>3. Counted(tally', builder')
    BY <1>1, AlikeCounted
<1>4. ASSUME NEW c \in Cols
      PROVE  tally'[c].through <= seq' /\ tally'[c].sealed = tl[c].sealed
    BY <1>1 DEF Placeable, Alike
<1>5. ASSUME NEW c \in Cols, Rests(c, tl[c], edge', decl', state', draining', seq')
      PROVE  Rests(c, tally'[c], edge', decl', state', draining', seq')
    BY <1>5, PlaceRests
<1> QED
    BY <1>1, <1>2, <1>3, <1>4, <1>5

LEMMA InitMInv == Init => MInv /\ Resting
<1>1. SUFFICES ASSUME Init PROVE MInv /\ Resting
    OBVIOUS
<1>2. Declared(decl) = {} /\ \A c : MembersOf(c, decl) = {}
    BY <1>1 DEF Init, Declared, MembersOf
<1>3. Cardinality({}) = 0
    BY FS_EmptySet
<1>4. Types
  <2> DEFINE t == [prefix |-> 0, firstFailed |-> 0, sealed |-> FALSE, through |-> 0,
                   parked |-> {}, open |-> {}, holds |-> 0, builderFailed |-> FALSE]
  <2>1. t \in TallyType
    BY DEF TallyType
  <2>2. tally = [c \in Cols |-> t]
    BY <1>1 DEF Init
  <2> HIDE DEF t
  <2>3. tally \in [Cols -> TallyType]
    BY <2>1, <2>2
  <2> QED
    BY <1>1, <2>3 DEF Init, Types, States, Phases, Standings
<1>5. \A c \in Cols : /\ tally[c].prefix = 0 /\ tally[c].firstFailed = 0 /\ ~tally[c].sealed
                      /\ tally[c].through = 0 /\ tally[c].parked = {} /\ tally[c].open = {}
                      /\ tally[c].holds = 0 /\ ~tally[c].builderFailed
    BY <1>1 DEF Init
<1>6. /\ scene \in Scenes /\ seq = 0 /\ decl = [m \in Members |-> 0]
      /\ state = [m \in Members |-> "pending"] /\ builder = [c \in Built |-> "none"]
      /\ entry = [c \in Built |-> "pending"] /\ edge = [d \in Deps |-> 0]
      /\ dep = [d \in Deps |-> "declared"]
    BY <1>1 DEF Init
<1>7. Ordered
  <2>1. Numbered(decl, seq)
    BY <1>2, <1>6 DEF Numbered
  <2>2. seq = Cardinality(Declared(decl))
    BY <1>2, <1>3, <1>6
  <2> QED
    BY <1>5, <1>6, <2>1, <2>2 DEF Ordered
<1>8. ASSUME NEW c \in Cols
      PROVE  Follows(c, tally[c], decl, state)
  <2>1. Failing(c, decl, state) = {} /\ Leading(c, decl, state) = {}
    BY <1>2 DEF Failing, Leading
  <2>2. Prefix(c, decl, state) = 0
    BY <1>3, <2>1 DEF Leading, Prefix
  <2> QED
    BY <1>5, <2>1, <2>2 DEF Follows
<1>9. Counted(tally, builder)
  <2>1. \A c : Under(c, builder) = {}
    BY <1>6 DEF Under
  <2> QED
    BY <1>3, <1>5, <1>6, <2>1 DEF Counted
<1>10. Topology
    BY <1>2, <1>6 DEF Topology
<1>11. Named /\ Filed
    BY <1>5, <1>6 DEF Named, Filed, FiledBut, OnEntries
<1>12. Resting
    BY <1>5, <1>6, SceneFacts, <1>4 DEF Resting, EachRests, Rests, SealedLate
<1> QED
    BY <1>4, <1>7, <1>8, <1>9, <1>10, <1>11, <1>12 DEF MInv, Followed, Building

\* A result is its two fields.
Pair(r) == r = [tally |-> r.tally, woken |-> r.woken]

LEMMA PairIs ==
    ASSUME NEW a, NEW b
    PROVE  Pair([tally |-> a, woken |-> b])
BY DEF Pair

LEMMA SettledPair ==
    ASSUME NEW c, NEW t, NEW dl, NEW st, NEW m
    PROVE  Pair(Settled(c, t, dl, st, m))
<1> DEFINE late == ParkedFrom(t, dl[m])
           v == [t EXCEPT !.prefix = AdvancedPrefix(c, t, dl, st, m)]
           ready == {p \in t.parked : SucceededThrough(c, v, p[2], dl)}
           r1 == [tally |-> t, woken |-> {}]
           r2 == [tally |-> [t EXCEPT !.firstFailed = dl[m], !.open = {}, !.parked = @ \ late],
                  woken |-> t.open \union {p[1] : p \in late}]
           r3 == [tally |-> [v EXCEPT !.parked = @ \ ready], woken |-> {p[1] : p \in ready}]
<1>1. Settled(c, t, dl, st, m) =
        IF st[m] = "failed"
        THEN IF t.firstFailed # 0 /\ t.firstFailed <= dl[m] THEN r1 ELSE r2 ELSE r3
    BY Zenon DEF Settled
<1>2. Pair(r1) /\ Pair(r2) /\ Pair(r3)
    BY PairIs, Zenon
<1> HIDE DEF r1, r2, r3
<1> QED
    BY <1>1, <1>2, Zenon

LEMMA SealedPair ==
    ASSUME NEW t, NEW k
    PROVE  Pair(Sealed(t, k))
BY PairIs, Zenon DEF Sealed

LEMMA ReleasedPair ==
    ASSUME NEW t, NEW seals, NEW k
    PROVE  Pair(Released(t, seals, k))
BY SealedPair, PairIs, Zenon DEF Released

LEMMA EndingPair ==
    ASSUME NEW t, NEW o
    PROVE  Pair(Ending(t, o))
BY PairIs, Zenon DEF Ending, FailedBuilder

LEMMA SettleStep ==
    ASSUME MInv, NEW m \in Members, NEW o \in {"done", "failed"}, SettleMember(m, o)
    PROVE  MInv' /\ (Resting => Resting')
<1> DEFINE sn == [state EXCEPT ![m] = o]
           s(c) == Settled(c, tally[c], decl, sn, m)
           tl == [c \in Cols |-> IF c \in Up[Home[m]] THEN s(c).tally ELSE tally[c]]
           W == [c \in Cols |-> IF c \in Up[Home[m]] THEN s(c).woken ELSE {}]
           ds == Parked(UNION {W[c] : c \in Cols})
<1>1. Types /\ Ordered /\ Followed /\ Building /\ Named /\ Filed
    BY DEF MInv
<1>2. /\ decl[m] # 0 /\ state[m] = "pending" /\ state' = sn
      /\ scene' = scene /\ seq' = seq /\ decl' = decl /\ builder' = builder /\ entry' = entry
      /\ edge' = edge /\ draining' = draining /\ owed' = owed
    BY DEF SettleMember
<1>3. Place(ds, tl, edge, decl, draining, dep)
  <2> DEFINE r == [c \in Cols |-> IF c \in Up[Home[m]] THEN s(c)
                                  ELSE [tally |-> tally[c], woken |-> {}]]
  <2>1. Wake(UNION {r[c].woken : c \in Cols}, [c \in Cols |-> r[c].tally], edge)
    BY Zenon DEF SettleMember
  <2>2. [c \in Cols |-> r[c].tally] = tl /\ \A c \in Cols : r[c].woken = W[c]
    OBVIOUS
  <2>3. UNION {r[c].woken : c \in Cols} = UNION {W[c] : c \in Cols}
    BY <2>2
  <2> HIDE DEF r, tl, W
  <2> QED
    BY <2>1, <2>2, <2>3 DEF Wake, Parked
<1>4. ASSUME NEW c \in Cols
      PROVE  /\ tl[c] \in TallyType /\ Leaves(tally[c], tl[c], W[c])
             /\ Follows(c, tl[c], decl, sn)
             /\ tl[c].sealed = tally[c].sealed /\ tl[c].through = tally[c].through
             /\ tl[c].holds = tally[c].holds /\ tl[c].builderFailed = tally[c].builderFailed
             /\ Rests(c, tally[c], edge, decl, state, draining, seq) =>
                Rests(c, tl[c], edge, decl, sn, draining, seq)
  <2>1. tally[c] \in TallyType /\ Follows(c, tally[c], decl, state)
    BY <1>1 DEF Types, Followed
  <2>2. CASE c \in Up[Home[m]]
    <3>1. Settling(c, tally[c], decl, state, m, o, sn, seq)
      BY <1>1, <1>2, <2>1, <2>2 DEF Settling, Types, Ordered
    <3>2. tl[c] = s(c).tally /\ W[c] = s(c).woken
      BY <2>2
    <3>3. Settled(c, tally[c], decl, sn, m) = [tally |-> tl[c], woken |-> W[c]]
      <4> HIDE DEF tl, W, sn
      <4>1. Pair(s(c))
        BY SettledPair
      <4>2. s(c) = [tally |-> s(c).tally, woken |-> s(c).woken]
        BY <4>1 DEF Pair
      <4> QED
        BY <3>2, <4>2
    <3> HIDE DEF tl, W, sn
    <3>4. KeptBySettle(tally[c], tl[c]) /\ Leaves(tally[c], tl[c], W[c])
          /\ Follows(c, tl[c], decl, sn)
      BY <3>1, <3>3, SettleFollows
    <3>5. Rests(c, tally[c], edge, decl, state, draining, seq) =>
          Rests(c, tl[c], edge, decl, sn, draining, seq)
      BY <3>1, <3>3, SettleRests
    <3> QED
      BY <3>4, <3>5 DEF KeptBySettle
  <2>3. CASE c \notin Up[Home[m]]
    <3>1. tl[c] = tally[c] /\ W[c] = {}
      BY <2>3
    <3>2. state \in [Members -> States]
      BY <1>1 DEF Types
    <3>3. /\ Follows(c, tally[c], decl, sn)
          /\ Rests(c, tally[c], edge, decl, state, draining, seq) =>
             Rests(c, tally[c], edge, decl, sn, draining, seq)
      BY <2>1, <2>3, <3>2, SettleElsewhere
    <3>4. Leaves(tally[c], tally[c], {})
      BY DEF Leaves
    <3> QED
      BY <2>1, <3>1, <3>3, <3>4
  <2> QED
    BY <2>2, <2>3
<1>5. sn \in [Members -> States] /\ \A n \in Members : decl[n] = 0 => sn[n] = "pending"
    BY <1>1, <1>2 DEF Types, Ordered, States
<1> HIDE DEF sn, s
<1>6. tl \in [Cols -> TallyType]
  <2>1. tl = [c \in Cols |-> tl[c]]
    OBVIOUS
  <2> HIDE DEF tl
  <2> QED
    BY <1>4, <2>1
<1> HIDE DEF tl, W, ds
<1>7. FiledBut(tl, dep, ds)
  <2>1. Rewoken(W, ds)
    BY DEF Rewoken, ds, Parked
  <2> QED
    BY <1>1, <1>4, <1>6, <2>1, WokenLeave DEF Types, Filed, SameParked
<1>8. Placeable(tl, edge, decl, sn, draining, seq, dep, ds)
  <2>1. ds \subseteq Deps
    BY <1>4 DEF Leaves, Parked, ds
  <2>2. OnEntries(dep, ds)
    BY <1>1 DEF Filed, OnEntries
  <2>3. \A c \in Cols : tl[c].through <= seq
    BY <1>1, <1>4 DEF Ordered
  <2> QED
    BY <1>1, <1>4, <1>6, <1>7, <2>1, <2>2, <2>3, SceneFacts DEF Placeable, Types, Ordered
<1>9. Counted(tl, builder)
    BY <1>1, <1>4 DEF Building, Counted
<1>10. /\ tally' \in [Cols -> TallyType] /\ dep' \in [Deps -> Standings]
       /\ Followed' /\ Filed' /\ Counted(tally', builder')
       /\ \A c \in Cols : /\ tally'[c].through <= seq'
                          /\ tally'[c].sealed = tl[c].sealed
                          /\ Rests(c, tl[c], edge', decl', state', draining', seq') =>
                             Rests(c, tally'[c], edge', decl', state', draining', seq')
    BY <1>2, <1>3, <1>8, <1>9, PlacedStep
<1>11. Types'
    BY <1>1, <1>2, <1>5, <1>10 DEF Types, Built
<1>12. Ordered'
    BY <1>1, <1>2, <1>5, <1>10 DEF Ordered
<1>13. Building' /\ Named'
    BY <1>1, <1>2, <1>10 DEF Building, Topology, Named, Built
<1>14. Resting => Resting'
  <2>1. SUFFICES ASSUME Resting PROVE Resting'
    OBVIOUS
  <2>2. \A c \in Cols : Rests(c, tally'[c], edge', decl', state', draining', seq')
    BY <1>2, <1>4, <1>10, <2>1 DEF Resting, EachRests
  <2>3. SealedLate'
    BY <1>1, <1>2, <1>4, <1>10, <2>1, SceneFacts DEF Resting, EachRests, SealedLate, Built
  <2> QED
    BY <2>2, <2>3 DEF Resting, EachRests
<1> QED
    BY <1>10, <1>11, <1>12, <1>13, <1>14 DEF MInv

\* The tallies with u for that of c.
Puts(c, u, tl) == tl = [tally EXCEPT ![c] = u]

\* A Wait, or an After on a populated collection, seals one tally.
LEMMA SealPlaces ==
    ASSUME MInv, NEW c \in Cols, NEW u, NEW w,
           Sealed(tally[c], seq) = [tally |-> u, woken |-> w],
           NEW dp \in [Deps -> Standings], NEW eg \in [Deps -> Nat],
           \A d \in Deps : eg[d] <= seq, SameParked(dp), OnEntries(dp, {}),
           NEW tl, Puts(c, u, tl), NEW ds, ds = Parked(w)
    PROVE  /\ Placeable(tl, eg, decl, state, draining, seq, dp, ds) /\ Counted(tl, builder)
           /\ \A a \in Cols : a # c => tl[a].sealed = tally[a].sealed
           /\ tally[c].holds > 0 => tl[c].sealed = tally[c].sealed
           /\ \A a \in Cols : Rests(a, tally[a], edge, decl, state, draining, seq) =>
                              Rests(a, tl[a], edge, decl, state, draining, seq)
<1> DEFINE W == [a \in Cols |-> IF a = c THEN w ELSE {}]
<1>1. Types /\ Ordered /\ Followed /\ Building /\ Filed
    BY DEF MInv
<1>2. tally \in [Cols -> TallyType] /\ seq \in Nat /\ decl \in [Members -> Nat]
      /\ Numbered(decl, seq) /\ seq <= ThroughAll
    BY <1>1, SeqReaches DEF Types, Ordered
<1>3. /\ u \in TallyType /\ Leaves(tally[c], u, w) /\ SameReading(tally[c], u)
      /\ u.holds = tally[c].holds /\ u.builderFailed = tally[c].builderFailed
      /\ tally[c].sealed \/ tally[c].holds > 0 => u = tally[c]
      /\ ~(tally[c].sealed \/ tally[c].holds > 0) => u.through = seq
    BY <1>2, SealKeeps
<1>4. tl \in [Cols -> TallyType] /\ tl[c] = u /\ \A a \in Cols : a # c => tl[a] = tally[a]
    BY <1>2, <1>3 DEF Puts
<1>5. \A a \in Cols : Leaves(tally[a], tl[a], W[a])
    BY <1>3, <1>4 DEF Leaves
<1>6. w \subseteq Deps
    BY <1>3 DEF Leaves
<1>7. FiledBut(tl, dp, ds)
  <2>1. Rewoken(W, ds)
    BY DEF Rewoken, Parked
  <2>2. FiledBut(tally, dep, {})
    BY <1>1 DEF Filed
  <2> HIDE DEF W
  <2> QED
    BY <1>2, <1>4, <1>5, <2>1, <2>2, WokenLeave
<1>8. \A a \in Cols : tl[a].through <= seq /\ Follows(a, tl[a], decl, state)
  <2>1. \A a \in Cols : tally[a].through <= seq /\ Follows(a, tally[a], decl, state)
    BY <1>1 DEF Ordered, Followed
  <2>2. u.through <= seq
    BY <1>2, <1>3, <2>1
  <2>3. Follows(c, u, decl, state)
    BY <1>3, <2>1, FollowsSame
  <2> QED
    BY <1>4, <2>1, <2>2, <2>3
<1>9. Placeable(tl, eg, decl, state, draining, seq, dp, ds)
  <2>1. ds \subseteq Deps /\ OnEntries(dp, ds)
    BY <1>6 DEF OnEntries, Parked
  <2> QED
    BY <1>1, <1>2, <1>4, <1>7, <1>8, <2>1, SceneFacts DEF Placeable, Types
<1>10. Counted(tl, builder)
  <2>1. \A a \in Cols : tl[a].holds = tally[a].holds /\ tl[a].builderFailed = tally[a].builderFailed
    BY <1>3, <1>4
  <2>2. Counted(tally, builder)
    BY <1>1 DEF Building
  <2> QED
    BY <2>1, <2>2 DEF Counted
<1>11. Rests(c, tally[c], edge, decl, state, draining, seq) =>
       Rests(c, u, edge, decl, state, draining, seq)
    BY <1>2, SealRests
<1> QED
    BY <1>3, <1>4, <1>9, <1>10, <1>11

LEMMA WaitStep ==
    ASSUME MInv, NEW c \in Cols, WaitSeals(c)
    PROVE  MInv' /\ (Resting => EachRests')
           /\ (Resting /\ c \notin Built => Resting')
<1> DEFINE s == Sealed(tally[c], seq)
           tl == [tally EXCEPT ![c] = s.tally]
           ds == Parked(s.woken)
<1>1. Types /\ Ordered /\ Followed /\ Building /\ Named /\ Filed
    BY DEF MInv
<1>2. /\ scene' = scene /\ seq' = seq /\ decl' = decl /\ builder' = builder /\ entry' = entry
      /\ edge' = edge /\ draining' = draining /\ owed' = owed /\ state' = state
    BY DEF WaitSeals
<1>3. Place(ds, tl, edge, decl, draining, dep)
    BY Zenon DEF WaitSeals, Wake, Parked
<1>4. s = [tally |-> s.tally, woken |-> s.woken]
    BY SealedPair DEF Pair
<1> HIDE DEF s
<1>5. /\ dep \in [Deps -> Standings] /\ edge \in [Deps -> Nat]
      /\ \A d \in Deps : edge[d] <= seq
      /\ SameParked(dep) /\ OnEntries(dep, {})
    BY <1>1 DEF Types, Ordered, Filed, SameParked
<1>5a. Sealed(tally[c], seq) = [tally |-> s.tally, woken |-> s.woken]
    BY <1>4 DEF s
<1> HIDE DEF tl, ds
<1>6. Puts(c, s.tally, tl) /\ ds = Parked(s.woken)
    BY DEF tl, ds, Puts
<1>7. /\ Placeable(tl, edge, decl, state, draining, seq, dep, ds) /\ Counted(tl, builder)
      /\ \A a \in Cols : a # c => tl[a].sealed = tally[a].sealed
      /\ \A a \in Cols : Rests(a, tally[a], edge, decl, state, draining, seq) =>
                         Rests(a, tl[a], edge, decl, state, draining, seq)
    BY <1>5, <1>5a, <1>6, SealPlaces
<1>8. /\ tally' \in [Cols -> TallyType] /\ dep' \in [Deps -> Standings]
      /\ Followed' /\ Filed' /\ Counted(tally', builder')
      /\ \A a \in Cols : /\ tally'[a].through <= seq'
                         /\ tally'[a].sealed = tl[a].sealed
                         /\ Rests(a, tl[a], edge', decl', state', draining', seq') =>
                            Rests(a, tally'[a], edge', decl', state', draining', seq')
    BY <1>2, <1>3, <1>7, PlacedStep
<1>9. Types'
    BY <1>1, <1>2, <1>8 DEF Types, Built
<1>10. Ordered'
    BY <1>1, <1>2, <1>8 DEF Ordered
<1>11. Building' /\ Named'
    BY <1>1, <1>2, <1>8 DEF Building, Topology, Named, Built
<1>12. Resting => \A a \in Cols : Rests(a, tally'[a], edge', decl', state', draining', seq')
    BY <1>2, <1>7, <1>8 DEF Resting, EachRests
<1>13. Resting /\ c \notin Built => SealedLate'
    BY <1>1, <1>2, <1>7, <1>8, SceneFacts DEF Resting, EachRests, SealedLate, Built
<1> QED
    BY <1>8, <1>9, <1>10, <1>11, <1>12, <1>13 DEF MInv, Resting, EachRests

\* An edge nobody is parked on decides nothing.
LEMMA EdgeRests ==
    ASSUME NEW c, NEW t \in TallyType, NEW eg, NEW eh, NEW d, NEW dl, NEW st, NEW drains, NEW sq,
           \A x \in Deps : x # d => eh[x] = eg[x],
           d \notin t.open, \A k \in Nat : <<d, k>> \notin t.parked,
           Rests(c, t, eg, dl, st, drains, sq)
    PROVE  Rests(c, t, eh, dl, st, drains, sq)
<1>1. t.open \subseteq Deps
    BY DEF TallyType
<1>2. \A x \in t.open : eh[x] = eg[x]
    BY <1>1
<1>3. \A x \in Deps, k \in Nat : <<x, k>> \in t.parked => eh[x] = eg[x]
    OBVIOUS
<1> QED
    BY <1>2, <1>3 DEF Rests

\* The dependent that names its collection was only declared.
Naming(d, k) ==
    /\ dep[d] = "declared" /\ edge' = [edge EXCEPT ![d] = k]
    /\ owed' = [owed EXCEPT ![d] = MembersOf(On[d], decl)]
    /\ scene' = scene /\ seq' = seq /\ decl' = decl /\ state' = state
    /\ builder' = builder /\ entry' = entry /\ draining' = draining

LEMMA NamingFacts ==
    ASSUME MInv, NEW d \in Deps, NEW k \in Nat, k <= seq, Naming(d, k), k = 0 \/ k = seq
    PROVE  /\ edge' \in [Deps -> Nat] /\ owed' \in [Deps -> SUBSET Members]
           /\ \A x \in Deps : edge'[x] <= seq
           /\ \A x \in Deps : x # d => edge'[x] = edge[x]
           /\ [dep EXCEPT ![d] = "wired"] \in [Deps -> Standings]
           /\ SameParked([dep EXCEPT ![d] = "wired"])
           /\ OnEntries([dep EXCEPT ![d] = "wired"], {})
           /\ Named'
           /\ \A c \in Cols : d \notin tally[c].open /\ \A j \in Nat : <<d, j>> \notin tally[c].parked
<1>1. Types /\ Ordered /\ Named /\ Filed
    BY DEF MInv
<1>2. /\ dep[d] = "declared" /\ edge' = [edge EXCEPT ![d] = k]
      /\ owed' = [owed EXCEPT ![d] = MembersOf(On[d], decl)]
    BY DEF Naming
<1>3. /\ edge \in [Deps -> Nat] /\ owed \in [Deps -> SUBSET Members] /\ dep \in [Deps -> Standings]
      /\ \A x \in Deps : edge[x] <= seq
    BY <1>1 DEF Types, Ordered
<1>4. /\ edge' \in [Deps -> Nat] /\ edge'[d] = k /\ \A x \in Deps : x # d => edge'[x] = edge[x]
    BY <1>2, <1>3
<1>5. MembersOf(On[d], decl) \subseteq Members
    BY DEF MembersOf, Declared
<1>6. /\ owed' \in [Deps -> SUBSET Members] /\ owed'[d] = MembersOf(On[d], decl)
      /\ \A x \in Deps : x # d => owed'[x] = owed[x]
    BY <1>2, <1>3, <1>5
<1>7. \A x \in Deps : edge'[x] <= seq
    BY <1>3, <1>4
<1>8. Named'
  <2>1. ASSUME k = seq
        PROVE  MembersOf(On[d], decl) \subseteq Through(On[d], k, decl)
    BY <1>1, <2>1 DEF Ordered, Numbered, Through, MembersOf, Declared
  <2>2. decl' = decl
    BY DEF Naming
  <2> QED
    BY <1>1, <1>4, <1>6, <2>1, <2>2 DEF Named
<1>9. /\ [dep EXCEPT ![d] = "wired"] \in [Deps -> Standings]
      /\ SameParked([dep EXCEPT ![d] = "wired"]) /\ OnEntries([dep EXCEPT ![d] = "wired"], {})
    BY <1>1, <1>2, <1>3 DEF Standings, SameParked, OnEntries, Filed
<1>10. \A c \in Cols : d \notin tally[c].open /\ \A j \in Nat : <<d, j>> \notin tally[c].parked
    BY <1>1, <1>2 DEF Filed, FiledBut
<1> QED
    BY <1>4, <1>6, <1>7, <1>8, <1>9, <1>10

LEMMA AfterOpens ==
    ASSUME MInv, NEW d \in Deps, Naming(d, 0), tally' = tally, dep' = [dep EXCEPT ![d] = "wired"]
    PROVE  MInv' /\ (Resting => Resting')
<1>1. Types /\ Ordered /\ Followed /\ Building /\ Filed
    BY DEF MInv
<1>2. /\ scene' = scene /\ seq' = seq /\ decl' = decl /\ state' = state
      /\ builder' = builder /\ entry' = entry /\ draining' = draining
    BY DEF Naming
<1>3. /\ edge' \in [Deps -> Nat] /\ owed' \in [Deps -> SUBSET Members]
      /\ \A x \in Deps : edge'[x] <= seq
      /\ \A x \in Deps : x # d => edge'[x] = edge[x]
      /\ dep' \in [Deps -> Standings] /\ SameParked(dep') /\ OnEntries(dep', {}) /\ Named'
      /\ \A c \in Cols : d \notin tally[c].open /\ \A j \in Nat : <<d, j>> \notin tally[c].parked
  <2>1. 0 \in Nat /\ 0 <= seq
    BY <1>1 DEF Types
  <2> QED
    BY <2>1, NamingFacts
<1>4. Types' /\ Ordered'
    BY <1>1, <1>2, <1>3 DEF Types, Ordered, Built
<1>5. Followed' /\ Building'
    BY <1>1, <1>2 DEF Followed, Building, Topology, Counted, Built
<1>6. Filed'
    BY <1>1, <1>2, <1>3 DEF Filed, FiledBut, SameParked, OnEntries, EntryPending, Built
<1>7. ASSUME Resting
      PROVE  Resting'
  <2>1. ASSUME NEW c \in Cols
        PROVE  Rests(c, tally[c], edge', decl, state, draining, seq)
    <3>1. Rests(c, tally[c], edge, decl, state, draining, seq) /\ tally[c] \in TallyType
      BY <1>1, <1>7 DEF Resting, EachRests, Types
    <3> QED
      BY <1>3, <3>1, EdgeRests
  <2>2. SealedLate'
    BY <1>2, <1>7 DEF Resting, EachRests, SealedLate, Built
  <2> QED
    BY <1>2, <2>1, <2>2 DEF Resting, EachRests
<1> QED
    BY <1>3, <1>4, <1>5, <1>6, <1>7 DEF MInv

\* What is populated has no builder to wait for once nothing holds it.
LEMMA AfterCloses ==
    ASSUME MInv, NEW d \in Deps, Naming(d, seq), MembersOf(On[d], decl) # {}, tally[On[d]].holds = 0,
           NEW u, NEW w, Sealed(tally[On[d]], seq) = [tally |-> u, woken |-> w],
           NEW tl, Puts(On[d], u, tl),
           Place(Parked(w), tl, edge', decl, draining, [dep EXCEPT ![d] = "wired"])
    PROVE  MInv' /\ (Resting => Resting')
<1> DEFINE c == On[d]
           ds == Parked(w)
           dp == [dep EXCEPT ![d] = "wired"]
<1>1. Types /\ Ordered /\ Followed /\ Building /\ Filed
    BY DEF MInv
<1>2. /\ scene' = scene /\ seq' = seq /\ decl' = decl /\ state' = state
      /\ builder' = builder /\ entry' = entry /\ draining' = draining
    BY DEF Naming
<1>3. /\ edge' \in [Deps -> Nat] /\ owed' \in [Deps -> SUBSET Members]
      /\ \A x \in Deps : edge'[x] <= seq
      /\ \A x \in Deps : x # d => edge'[x] = edge[x]
      /\ dp \in [Deps -> Standings] /\ SameParked(dp) /\ OnEntries(dp, {}) /\ Named'
  <2>1. seq \in Nat /\ seq <= seq
    BY <1>1 DEF Types
  <2> QED
    BY <2>1, NamingFacts
<1>3a. dp[d] = "wired"
    BY <1>1 DEF Types
<1>4. c \in Cols
    BY MembershipAssumption
<1> HIDE DEF ds, dp
<1>5. /\ Placeable(tl, edge', decl, state, draining, seq, dp, ds) /\ Counted(tl, builder)
      /\ \A a \in Cols : a # c => tl[a].sealed = tally[a].sealed
      /\ \A a \in Cols : Rests(a, tally[a], edge, decl, state, draining, seq) =>
                         Rests(a, tl[a], edge, decl, state, draining, seq)
  <2>1. ds = Parked(w) /\ Puts(c, u, tl) /\ Sealed(tally[c], seq) = [tally |-> u, woken |-> w]
    BY DEF ds
  <2> HIDE DEF c
  <2> QED
    BY <1>3, <1>4, <2>1, SealPlaces
<1>6. Place(ds, tl, edge', decl, draining, dp)
    BY DEF ds, dp
<1>7. /\ tally' \in [Cols -> TallyType] /\ dep' \in [Deps -> Standings]
      /\ Followed' /\ Filed' /\ Counted(tally', builder')
      /\ \A a \in Cols : /\ tally'[a].through <= seq'
                         /\ tally'[a].sealed = tl[a].sealed
                         /\ Rests(a, tl[a], edge', decl', state', draining', seq') =>
                            Rests(a, tally'[a], edge', decl', state', draining', seq')
    BY <1>2, <1>5, <1>6, PlacedStep
<1>8. Types' /\ Ordered'
    BY <1>1, <1>2, <1>3, <1>7 DEF Types, Ordered, Built
<1>9. Building'
    BY <1>1, <1>2, <1>7 DEF Building, Topology, Built
<1>10. ASSUME Resting
       PROVE  Resting'
  <2>1. ASSUME NEW a \in Cols
        PROVE  Rests(a, tl[a], edge', decl, state, draining, seq)
    <3>1. Rests(a, tl[a], edge, decl, state, draining, seq)
      BY <1>5, <1>10 DEF Resting, EachRests
    <3>2. tl[a] \in TallyType /\ d \notin tl[a].open /\ \A j \in Nat : <<d, j>> \notin tl[a].parked
      BY <1>3a, <1>5 DEF Placeable, FiledBut
    <3> QED
      BY <1>3, <3>1, <3>2, EdgeRests
  <2>2. c \in Built => builder[c] \notin {"none", "pending", "running"}
    <3>1. ASSUME c \in Built, builder[c] \in {"pending", "running"}
          PROVE  FALSE
      <4>1. c \in Up[c] /\ Counted(tally, builder)
        BY <1>1, <1>4, MembershipAssumption DEF Building
      <4> QED
        BY <1>1, <3>1, <4>1, BuilderHolds
    <3>2. c \in Built => builder[c] # "none"
      BY <1>1 DEF Building, Topology
    <3> QED
      BY <3>1, <3>2
  <2>3. SealedLate'
    BY <1>1, <1>2, <1>5, <1>7, <1>10, <2>2, SceneFacts DEF Resting, EachRests, SealedLate, Built
  <2> QED
    BY <1>2, <1>7, <2>1, <2>3 DEF Resting, EachRests
<1> QED
    BY <1>3, <1>7, <1>8, <1>9, <1>10 DEF MInv

LEMMA AfterStep ==
    ASSUME MInv, NEW d \in Deps, After(d)
    PROVE  MInv' /\ (Resting => Resting')
<1> DEFINE c == On[d]
           closes == MembersOf(c, decl) # {} /\ tally[c].holds = 0
           s == Sealed(tally[c], seq)
<1>1. /\ dep[d] = "declared" /\ edge' = [edge EXCEPT ![d] = IF closes THEN seq ELSE 0]
      /\ owed' = [owed EXCEPT ![d] = MembersOf(c, decl)]
      /\ scene' = scene /\ seq' = seq /\ decl' = decl /\ state' = state
      /\ builder' = builder /\ entry' = entry /\ draining' = draining
    BY DEF After
<1>2. IF closes
      THEN Place({x \in s.woken : dep[x] = "parked"}, [tally EXCEPT ![c] = s.tally], edge',
                 decl, draining, [dep EXCEPT ![d] = "wired"])
      ELSE tally' = tally /\ dep' = [dep EXCEPT ![d] = "wired"]
    BY Zenon DEF After
<1>3. CASE ~closes
    BY <1>1, <1>2, <1>3, AfterOpens DEF Naming
<1>4. CASE closes
  <2>1. Naming(d, seq)
    BY <1>1, <1>4 DEF Naming
  <2>2. s = [tally |-> s.tally, woken |-> s.woken]
    BY SealedPair DEF Pair
  <2> DEFINE tl == [tally EXCEPT ![c] = s.tally]
  <2>3. Place(Parked(s.woken), tl, edge', decl, draining, [dep EXCEPT ![d] = "wired"])
    BY <1>2, <1>4, Zenon DEF Parked
  <2>4. Puts(On[d], s.tally, tl)
    BY DEF Puts
  <2>5. MembersOf(On[d], decl) # {} /\ tally[On[d]].holds = 0
    BY <1>4
  <2> HIDE DEF tl
  <2>6. Sealed(tally[On[d]], seq) = [tally |-> s.tally, woken |-> s.woken]
    BY <2>2
  <2> HIDE DEF s, closes, c
  <2> QED
    BY <2>1, <2>3, <2>4, <2>5, <2>6, AfterCloses
<1> QED
    BY <1>3, <1>4

\* A dependent that is parked nowhere is placed.
LEMMA PlaceOneStep ==
    ASSUME MInv, NEW d \in Deps, dep[d] # "parked",
           Place({d}, tally, edge, decl, draining, dep),
           scene' = scene, seq' = seq, decl' = decl, state' = state, builder' = builder,
           entry' = entry, edge' = edge, draining' = draining, owed' = owed
    PROVE  MInv' /\ (Resting => Resting')
<1>1. Types /\ Ordered /\ Followed /\ Building /\ Named /\ Filed
    BY DEF MInv
<1>2. Placeable(tally, edge, decl, state, draining, seq, dep, {d})
  <2>1. FiledBut(tally, dep, {d}) /\ OnEntries(dep, {d})
    BY <1>1 DEF Filed, FiledBut, OnEntries
  <2> QED
    BY <1>1, <2>1, SceneFacts DEF Placeable, Types, Ordered, Followed
<1>3. Counted(tally, builder)
    BY <1>1 DEF Building
<1>4. /\ tally' \in [Cols -> TallyType] /\ dep' \in [Deps -> Standings]
      /\ Followed' /\ Filed' /\ Counted(tally', builder')
      /\ \A c \in Cols : /\ tally'[c].through <= seq'
                         /\ tally'[c].sealed = tally[c].sealed
                         /\ Rests(c, tally[c], edge', decl', state', draining', seq') =>
                            Rests(c, tally'[c], edge', decl', state', draining', seq')
    BY <1>2, <1>3, PlacedStep
<1>5. Types' /\ Ordered'
    BY <1>1, <1>4 DEF Types, Ordered, Built
<1>6. Building' /\ Named'
    BY <1>1, <1>4 DEF Building, Topology, Named, Built
<1>7. ASSUME Resting
      PROVE  Resting'
  <2>1. \A c \in Cols : Rests(c, tally'[c], edge', decl', state', draining', seq')
    BY <1>4, <1>7 DEF Resting, EachRests
  <2>2. SealedLate'
    BY <1>1, <1>4, <1>7, SceneFacts DEF Resting, EachRests, SealedLate, Built
  <2> QED
    BY <2>1, <2>2 DEF Resting, EachRests
<1> QED
    BY <1>4, <1>5, <1>6, <1>7 DEF MInv

LEMMA SubmitStep ==
    ASSUME MInv, NEW d \in Deps, Submit(d)
    PROVE  MInv' /\ (Resting => Resting')
BY PlaceOneStep DEF Submit

\* A step of dependents alone that parks and frees none.
LEMMA StandingStep ==
    ASSUME MInv, dep' \in [Deps -> Standings], SameParked(dep'),
           \A d \in Deps : dep'[d] = "onEntry" => EntryPending(d)',
           tally' = tally, scene' = scene, seq' = seq, decl' = decl, state' = state,
           builder' = builder, edge' = edge, draining' = draining, owed' = owed,
           entry' \in [Built -> States], \A c \in Built : entry'[c] = "pending" => entry[c] = "pending"
    PROVE  MInv' /\ (Resting => Resting')
<1>1. Types /\ Ordered /\ Followed /\ Building /\ Named /\ Filed
    BY DEF MInv
<1>2. Types' /\ Ordered' /\ Followed' /\ Named'
    BY <1>1 DEF Types, Ordered, Followed, Named, Built
<1>3. Building'
    BY <1>1 DEF Building, Topology, Counted, Built
<1>4. Filed'
    BY <1>1 DEF Filed, FiledBut, SameParked, OnEntries
<1>5. Resting => Resting'
    BY DEF Resting, EachRests, SealedLate, Built
<1> QED
    BY <1>2, <1>3, <1>4, <1>5 DEF MInv

LEMMA StartStep ==
    ASSUME MInv, NEW d \in Deps, StartDep(d)
    PROVE  MInv' /\ (Resting => Resting')
<1>1. /\ dep[d] = "queued"
      /\ scene' = scene /\ seq' = seq /\ decl' = decl /\ state' = state /\ builder' = builder
      /\ entry' = entry /\ edge' = edge /\ draining' = draining /\ owed' = owed
    BY DEF StartDep
<1>2. IF PlacedOn(d, tally, edge, decl, draining) = "done"
      THEN dep' = [dep EXCEPT ![d] = "started"] /\ tally' = tally
      ELSE Place({d}, tally, edge, decl, draining, dep)
    BY DEF StartDep
<1>3. CASE PlacedOn(d, tally, edge, decl, draining) = "done"
  <2>1. Types /\ Filed
    BY DEF MInv
  <2>2. dep' \in [Deps -> Standings] /\ SameParked(dep')
    BY <1>1, <1>2, <1>3, <2>1 DEF Types, Standings, SameParked
  <2>3. \A x \in Deps : dep'[x] = "onEntry" => EntryPending(x)'
    BY <1>1, <1>2, <1>3, <2>1 DEF Types, Filed, OnEntries, EntryPending, Built
  <2>4. entry' \in [Built -> States]
    BY <1>1, <2>1 DEF Types
  <2> QED
    BY <1>1, <1>2, <1>3, <2>2, <2>3, <2>4, StandingStep
<1>4. CASE PlacedOn(d, tally, edge, decl, draining) # "done"
    BY <1>1, <1>2, <1>4, PlaceOneStep
<1> QED
    BY <1>3, <1>4

LEMMA EntryStep ==
    ASSUME MInv, NEW c \in Built, NEW outcome \in {"done", "failed"}, EntrySettles(c, outcome)
    PROVE  MInv' /\ (Resting => Resting')
<1>1. Types /\ Filed
    BY DEF MInv
<1>2. /\ entry' = [entry EXCEPT ![c] = outcome]
      /\ dep' = [d \in Deps |-> IF dep[d] = "onEntry" /\ On[d] = c
                                THEN IF outcome = "done" THEN "queued" ELSE "notStarted" ELSE dep[d]]
      /\ tally' = tally /\ scene' = scene /\ seq' = seq /\ decl' = decl /\ state' = state
      /\ builder' = builder /\ edge' = edge /\ draining' = draining /\ owed' = owed
    BY DEF EntrySettles
<1>3. entry' \in [Built -> States] /\ \A x \in Built : entry'[x] = "pending" => entry[x] = "pending"
    BY <1>1, <1>2 DEF Types, States
<1>4. dep' \in [Deps -> Standings] /\ SameParked(dep')
    BY <1>1, <1>2 DEF Types, Standings, SameParked
<1>5. \A d \in Deps : dep'[d] = "onEntry" => EntryPending(d)'
    BY <1>1, <1>2 DEF Types, Filed, OnEntries, EntryPending, Built
<1> QED
    BY <1>2, <1>3, <1>4, <1>5, StandingStep

LEMMA StartBuilderStep ==
    ASSUME MInv, NEW c \in Built, StartBuilder(c)
    PROVE  MInv' /\ (Resting => Resting')
<1>1. Types /\ Ordered /\ Followed /\ Building /\ Named /\ Filed
    BY DEF MInv
<1>2. /\ builder[c] = "pending" /\ entry[c] = "done" /\ builder' = [builder EXCEPT ![c] = "running"]
      /\ scene' = scene /\ seq' = seq /\ decl' = decl /\ state' = state /\ tally' = tally
      /\ entry' = entry /\ edge' = edge /\ dep' = dep /\ draining' = draining /\ owed' = owed
    BY DEF StartBuilder
<1>3. /\ builder' \in [Built -> Phases] /\ DOMAIN builder' = Built /\ DOMAIN builder = Built
      /\ builder'[c] = "running" /\ \A x \in Built : x # c => builder'[x] = builder[x]
    BY <1>1, <1>2 DEF Types, Phases
<1>4. Types' /\ Ordered' /\ Followed' /\ Named' /\ Filed'
    BY <1>1, <1>2, <1>3 DEF Types, Ordered, Followed, Named, Filed, FiledBut, OnEntries, EntryPending, Built
<1>5. Counted(tally', builder')
  <2>1. \A a : Under(a, builder') = Under(a, builder)
    BY <1>2, <1>3 DEF Under
  <2> QED
    BY <1>1, <1>2, <1>3, <2>1 DEF Building, Counted
<1>6. Topology'
  <2>1. \A x \in Built : builder'[x] \in {"none", "pending"} => MembersOf(x, decl) = {}
    BY <1>1, <1>3 DEF Building, Topology
  <2>2. \A x \in Built : entry[x] = "pending" => builder'[x] \in {"none", "pending"}
    BY <1>1, <1>2, <1>3 DEF Building, Topology
  <2>3. \A a, b \in Built : a # b /\ b \in Up[a] /\ builder'[a] # "none" =>
            builder'[b] \notin {"none", "pending"}
    BY <1>1, <1>2, <1>3 DEF Building, Topology
  <2> QED
    BY <1>2, <2>1, <2>2, <2>3 DEF Topology, Built
<1>7. Resting => Resting'
    BY <1>2, <1>3 DEF Resting, EachRests, SealedLate, Built
<1> QED
    BY <1>4, <1>5, <1>6, <1>7 DEF MInv, Building

\* replaceParkedLocked: nobody is left on a tally.
LEMMA DrainStep ==
    ASSUME MInv, Drain
    PROVE  MInv' /\ (Resting => Resting')
<1> DEFINE bare == [c \in Cols |-> Unparked(tally[c])]
           ds == {d \in Deps : dep[d] \in {"parked", "onEntry"}}
<1>1. Types /\ Ordered /\ Followed /\ Building /\ Named /\ Filed
    BY DEF MInv
<1>2. /\ draining' = TRUE /\ scene' = scene /\ seq' = seq /\ decl' = decl /\ state' = state
      /\ builder' = builder /\ entry' = entry /\ edge' = edge /\ owed' = owed
    BY DEF Drain
<1>3. Place(ds, bare, edge, decl, TRUE, dep)
    BY Zenon DEF Drain
<1>4. ASSUME NEW c \in Cols
      PROVE  /\ bare[c] \in TallyType /\ bare[c].open = {} /\ bare[c].parked = {}
             /\ bare[c].through = tally[c].through /\ bare[c].sealed = tally[c].sealed
             /\ bare[c].holds = tally[c].holds /\ bare[c].builderFailed = tally[c].builderFailed
             /\ SameReading(tally[c], bare[c])
  <2>1. tally[c] \in TallyType
    BY <1>1 DEF Types
  <2>2. bare[c] = [tally[c] EXCEPT !.parked = {}, !.open = {}]
    BY DEF Unparked
  <2> QED
    BY <2>1, <2>2 DEF TallyType, SameReading
<1>5. bare \in [Cols -> TallyType]
  <2>1. bare = [c \in Cols |-> bare[c]]
    OBVIOUS
  <2> HIDE DEF bare
  <2> QED
    BY <1>4, <2>1
<1> HIDE DEF bare
<1>6. FiledBut(bare, dep, ds) /\ OnEntries(dep, ds) /\ ds \subseteq Deps
    BY <1>4 DEF FiledBut, OnEntries
<1>7. \A c \in Cols : bare[c].through <= seq /\ Follows(c, bare[c], decl, state)
  <2>1. \A c \in Cols : tally[c].through <= seq /\ Follows(c, tally[c], decl, state)
    BY <1>1 DEF Ordered, Followed
  <2> QED
    BY <1>4, <2>1, FollowsSame
<1> HIDE DEF ds
<1>8. Placeable(bare, edge, decl, state, TRUE, seq, dep, ds)
    BY <1>1, <1>5, <1>6, <1>7, SceneFacts DEF Placeable, Types, Ordered
<1>9. Counted(bare, builder)
    BY <1>1, <1>4 DEF Building, Counted
<1>10. /\ tally' \in [Cols -> TallyType] /\ dep' \in [Deps -> Standings]
       /\ Followed' /\ Filed' /\ Counted(tally', builder')
       /\ \A c \in Cols : /\ tally'[c].through <= seq'
                          /\ tally'[c].sealed = bare[c].sealed
                          /\ Rests(c, bare[c], edge', decl', state', draining', seq') =>
                             Rests(c, tally'[c], edge', decl', state', draining', seq')
    BY <1>2, <1>3, <1>8, <1>9, PlacedStep
<1>11. Types' /\ Ordered'
    BY <1>1, <1>2, <1>10 DEF Types, Ordered, Built
<1>12. Building' /\ Named'
    BY <1>1, <1>2, <1>10 DEF Building, Topology, Named, Built
<1>13. ASSUME Resting
       PROVE  Resting'
  <2>1. \A c \in Cols : Rests(c, bare[c], edge', decl', state', draining', seq')
    BY <1>4 DEF Rests
  <2>2. \A c \in Cols : Rests(c, tally'[c], edge', decl', state', draining', seq')
    BY <1>10, <2>1
  <2>3. SealedLate'
    BY <1>1, <1>2, <1>4, <1>10, <1>13, SceneFacts DEF Resting, EachRests, SealedLate, Built
  <2> QED
    BY <2>2, <2>3 DEF Resting, EachRests
<1> QED
    BY <1>10, <1>11, <1>12, <1>13 DEF MInv

LEMMA DeclareStep ==
    ASSUME MInv, NEW m \in Members, DeclareMember(m)
    PROVE  MInv' /\ (Resting => Resting')
<1>1. Types /\ Ordered /\ Followed /\ Building /\ Named /\ Filed
    BY DEF MInv
<1>2. /\ decl[m] = 0 /\ seq' = seq + 1 /\ decl' = [decl EXCEPT ![m] = seq + 1]
      /\ \A c \in Built \intersect Up[Home[m]] : builder[c] = "running"
      /\ draining => Home[m] \in Built
      /\ scene' = scene /\ state' = state /\ tally' = tally /\ builder' = builder
      /\ entry' = entry /\ edge' = edge /\ dep' = dep /\ draining' = draining /\ owed' = owed
    BY DEF DeclareMember
<1>3. Declaring(decl, seq, m, state, decl') /\ seq \in Nat
    BY <1>1, <1>2 DEF Declaring, Types, Ordered
<1>4. /\ decl' \in [Members -> Nat] /\ Numbered(decl', seq + 1)
      /\ Declared(decl') = Declared(decl) \union {m} /\ m \notin Declared(decl)
      /\ \A n \in Declared(decl) : decl'[n] = decl[n] /\ decl[n] <= seq /\ n \in Members /\ n # m
    BY <1>3, DeclareNumbers
<1>5. \A c : /\ \A k \in Nat : k <= seq => Through(c, k, decl') = Through(c, k, decl)
    BY <1>3, DeclareReads
<1>6. seq + 1 = Cardinality(Declared(decl'))
  <2>1. Declared(decl) \in SUBSET Members /\ IsFiniteSet(Members)
    BY MembershipAssumption DEF Declared
  <2>2. IsFiniteSet(Declared(decl))
    BY <2>1, FS_Subset
  <2>3. Cardinality(Declared(decl) \union {m}) = Cardinality(Declared(decl)) + 1
    BY <1>4, <2>2, FS_AddElement
  <2> QED
    BY <1>1, <1>4, <2>3 DEF Ordered
<1>7. Types'
    BY <1>1, <1>2, <1>4 DEF Types, Built
<1>8. Ordered'
  <2>1. \A n \in Members : decl'[n] = 0 => state[n] = "pending"
    BY <1>1, <1>2 DEF Types, Ordered
  <2>2. (\A d \in Deps : edge[d] <= seq) /\ \A c \in Cols : tally[c].through <= seq
    BY <1>1 DEF Ordered
  <2>3. (\A d \in Deps : edge[d] \in Nat) /\ \A c \in Cols : tally[c].through \in Nat
    BY <1>1 DEF Types, TallyType
  <2>4. (\A d \in Deps : edge[d] <= seq + 1) /\ \A c \in Cols : tally[c].through <= seq + 1
    BY <1>3, <2>2, <2>3
  <2> QED
    BY <1>2, <1>4, <1>6, <2>1, <2>4 DEF Ordered
<1>9. Followed'
    BY <1>1, <1>2, <1>3, DeclareFollows DEF Followed
<1>10. Building'
  <2>1. ASSUME NEW c \in Built, builder[c] \in {"none", "pending"}
        PROVE  MembersOf(c, decl') = {}
    <3>1. c \notin Up[Home[m]]
      BY <1>2, <2>1
    <3>2. MembersOf(c, decl) = {}
      BY <1>1, <2>1 DEF Building, Topology
    <3> QED
      BY <1>4, <3>1, <3>2 DEF MembersOf
  <2> QED
    BY <1>1, <1>2, <2>1 DEF Building, Topology, Counted, Built
<1>11. Named' /\ Filed'
  <2>1. \A d \in Deps : edge[d] \in Nat /\ edge[d] <= seq
    BY <1>1 DEF Types, Ordered
  <2>2. Named'
    BY <1>1, <1>2, <1>5, <2>1 DEF Named
  <2>3. Filed'
    BY <1>1, <1>2 DEF Filed, FiledBut, OnEntries, EntryPending, Built
  <2> QED
    BY <2>2, <2>3
<1>12. ASSUME Resting
       PROVE  Resting'
  <2>1. ASSUME NEW c \in Cols
        PROVE  Rests(c, tally[c], edge, decl', state, draining, seq + 1)
    <3>1. /\ tally[c] \in TallyType /\ edge \in [Deps -> Nat] /\ tally[c].through <= seq
          /\ \A d \in Deps : edge[d] <= seq
          /\ Rests(c, tally[c], edge, decl, state, draining, seq)
      BY <1>1, <1>12 DEF Types, Ordered, Resting, EachRests
    <3>2. ASSUME draining, c \in Up[Home[m]]
          PROVE  tally[c].holds # 0
      <4>1. Home[m] \in Built /\ Home[m] \in Up[Home[m]]
        BY <1>2, <3>2, MembershipAssumption
      <4>2. builder[Home[m]] = "running" /\ Counted(tally, builder)
        BY <1>1, <1>2, <4>1 DEF Building
      <4> QED
        BY <1>1, <3>2, <4>1, <4>2, BuilderHolds
    <3> QED
      BY <1>3, <3>1, <3>2, DeclareRests
  <2>2. SealedLate'
    BY <1>2, <1>12 DEF Resting, EachRests, SealedLate, Built
  <2> QED
    BY <1>2, <2>1, <2>2 DEF Resting, EachRests
<1> QED
    BY <1>7, <1>8, <1>9, <1>10, <1>11, <1>12 DEF MInv

LEMMA DefineStep ==
    ASSUME MInv, NEW c \in Built, DefineBuilder(c)
    PROVE  MInv' /\ (Resting => Resting')
<1>1. Types /\ Ordered /\ Followed /\ Building /\ Named /\ Filed
    BY DEF MInv
<1>2. /\ builder[c] = "none" /\ draining = FALSE /\ Mine(c) = {}
      /\ \A a \in (Built \intersect Up[c]) \ {c} : builder[a] = "running"
      /\ builder' = [builder EXCEPT ![c] = "pending"] /\ tally' = Holds(c)
      /\ scene' = scene /\ seq' = seq /\ decl' = decl /\ state' = state
      /\ entry' = entry /\ edge' = edge /\ dep' = dep /\ draining' = draining /\ owed' = owed
    BY <1>1 DEF DefineBuilder, Types
<1>3. /\ builder' \in [Built -> Phases] /\ DOMAIN builder' = Built /\ DOMAIN builder = Built
      /\ builder'[c] = "pending" /\ \A x \in Built : x # c => builder'[x] = builder[x]
    BY <1>1, <1>2 DEF Types, Phases
<1>4. \A a \in Cols : IF a \in Up[c] THEN tally'[a] = [tally[a] EXCEPT !.holds = @ + 1]
                                     ELSE tally'[a] = tally[a]
    BY <1>2 DEF Holds
<1>5. ASSUME NEW a \in Cols
      PROVE  /\ tally'[a] \in TallyType /\ SameReading(tally[a], tally'[a])
             /\ tally'[a].open = tally[a].open /\ tally'[a].parked = tally[a].parked
             /\ tally'[a].builderFailed = tally[a].builderFailed
             /\ tally'[a].sealed = tally[a].sealed /\ tally'[a].through = tally[a].through
             /\ tally'[a].holds = IF a \in Up[c] THEN tally[a].holds + 1 ELSE tally[a].holds
  <2>1. tally[a] \in TallyType
    BY <1>1 DEF Types
  <2>2. CASE a \in Up[c]
    <3>1. tally'[a] = [tally[a] EXCEPT !.holds = @ + 1] /\ tally[a].holds + 1 \in Nat
      BY <1>4, <2>1, <2>2 DEF TallyType
    <3> QED
      BY <2>1, <2>2, <3>1 DEF TallyType, SameReading
  <2>3. CASE a \notin Up[c]
    BY <1>4, <2>1, <2>3 DEF SameReading
  <2> QED
    BY <2>2, <2>3
<1>6. tally' \in [Cols -> TallyType]
  <2>1. tally' = [a \in Cols |-> tally'[a]]
    BY <1>2 DEF Holds
  <2> QED
    BY <1>5, <2>1
<1>7. Types' /\ Ordered'
    BY <1>1, <1>2, <1>3, <1>5, <1>6 DEF Types, Ordered, Built
<1>8. Followed'
    BY <1>1, <1>2, <1>5, FollowsSame DEF Followed
<1>9. Named' /\ Filed'
  <2>1. Named'
    BY <1>1, <1>2 DEF Named
  <2>2. OnEntries(dep, {})'
    BY <1>1, <1>2 DEF Filed, OnEntries, EntryPending, Built
  <2>3. FiledBut(tally', dep, {})
    <3>1. FiledBut(tally, dep, {})
      BY <1>1 DEF Filed
    <3>2. \A d \in Deps : On[d] \in Cols
      BY MembershipAssumption
    <3> QED
      BY <1>5, <3>1, <3>2 DEF FiledBut
  <2> QED
    BY <1>2, <2>1, <2>2, <2>3 DEF Filed
<1>10. Counted(tally', builder')
  <2>1. ASSUME NEW a \in Cols
        PROVE  tally'[a].holds = Cardinality(Under(a, builder'))
    <3>1. /\ IsFiniteSet(Under(a, builder)) /\ tally[a].holds = Cardinality(Under(a, builder))
          /\ c \notin Under(a, builder)
      <4>1. IsFiniteSet(Under(a, builder))
        BY <1>1, <1>3, SceneFacts, UnderFinite
      <4>2. tally[a].holds = Cardinality(Under(a, builder))
        BY <1>1 DEF Building, Counted
      <4>3. c \notin Under(a, builder)
        BY <1>2 DEF Under
      <4> QED
        BY <4>1, <4>2, <4>3
    <3>2. CASE a \in Up[c]
      <4>1. Under(a, builder') = Under(a, builder) \union {c}
        BY <1>3, <3>2 DEF Under
      <4>2. Cardinality(Under(a, builder) \union {c}) = Cardinality(Under(a, builder)) + 1
        BY <3>1, FS_AddElement
      <4> QED
        BY <1>5, <3>1, <3>2, <4>1, <4>2
    <3>3. CASE a \notin Up[c]
      <4>1. Under(a, builder') = Under(a, builder)
        BY <1>3, <3>3 DEF Under
      <4> QED
        BY <1>5, <3>1, <3>3, <4>1
    <3> QED
      BY <3>2, <3>3
  <2>2. ASSUME NEW a \in Cols
        PROVE  tally'[a].builderFailed <=>
                 \E x \in DOMAIN builder' : a \in Up[x] /\ builder'[x] \in {"failed", "notStarted"}
    <3>1. tally[a].builderFailed <=>
            \E x \in Built : a \in Up[x] /\ builder[x] \in {"failed", "notStarted"}
      BY <1>1, <1>3 DEF Building, Counted
    <3>2. \A x \in Built : builder'[x] \in {"failed", "notStarted"}
                             <=> builder[x] \in {"failed", "notStarted"}
      BY <1>2, <1>3
    <3> QED
      BY <1>3, <1>5, <3>1, <3>2
  <2> QED
    BY <2>1, <2>2 DEF Counted
<1>11. Topology'
  <2>1. MembersOf(c, decl) = {} /\ \A b \in Built : c \in Up[b] /\ b # c => builder[b] = "none"
    BY <1>2 DEF Mine
  <2>2. \A x \in Built : builder'[x] \in {"none", "pending"} => MembersOf(x, decl) = {}
    BY <1>1, <1>3, <2>1 DEF Building, Topology
  <2>3. \A x \in Built : entry[x] = "pending" => builder'[x] \in {"none", "pending"}
    BY <1>1, <1>3 DEF Building, Topology
  <2>4. \A a, b \in Built : a # b /\ b \in Up[a] /\ builder'[a] # "none" =>
            builder'[b] \notin {"none", "pending"}
    BY <1>1, <1>2, <1>3, <2>1 DEF Building, Topology
  <2> QED
    BY <1>2, <2>2, <2>3, <2>4 DEF Topology, Built
<1>12. ASSUME Resting
       PROVE  Resting'
  <2>1. ASSUME NEW a \in Cols
        PROVE  Rests(a, tally'[a], edge, decl, state, FALSE, seq)
    <3>1. tally[a] \in TallyType /\ Rests(a, tally[a], edge, decl, state, FALSE, seq)
      BY <1>1, <1>2, <1>12 DEF Types, Resting, EachRests
    <3> QED
      BY <1>4, <3>1, HoldRests
  <2>2. SealedLate'
    BY <1>1, <1>2, <1>3, <1>5, <1>12, SceneFacts DEF Resting, EachRests, SealedLate, Built
  <2> QED
    BY <1>2, <2>1, <2>2 DEF Resting, EachRests
<1> QED
    BY <1>7, <1>8, <1>9, <1>10, <1>11, <1>12 DEF MInv, Building

LEMMA ConcludeStep ==
    ASSUME MInv, NEW c \in Built, NEW o \in {"done", "failed", "notStarted"}, Conclude(c, o)
    PROVE  MInv' /\ (Resting => Resting')
<1> DEFINE E(a) == Ending(tally[a], o)
           R(a) == Released(E(a).tally, a = c, seq)
           tl == [a \in Cols |-> IF a \in Up[c] THEN R(a).tally ELSE tally[a]]
           W == [a \in Cols |-> IF a \in Up[c] THEN E(a).woken \union R(a).woken ELSE {}]
           ds == {d \in UNION {E(a).woken \union R(a).woken : a \in Up[c]} : dep[d] = "parked"}
<1>1. Types /\ Ordered /\ Followed /\ Building /\ Named /\ Filed
    BY DEF MInv
<1>2. /\ builder' = [builder EXCEPT ![c] = o]
      /\ builder[c] = "running" \/ (builder[c] = "pending" /\ entry[c] = "failed")
      /\ scene' = scene /\ seq' = seq /\ decl' = decl /\ state' = state
      /\ entry' = entry /\ edge' = edge /\ draining' = draining /\ owed' = owed
    BY DEF Conclude
<1>3. Place(ds, tl, edge, decl, draining, dep)
  <2> DEFINE r == [a \in Cols |-> IF a \in Up[c] THEN R(a) ELSE [tally |-> tally[a], woken |-> {}]]
             X == UNION {E(a).woken \union r[a].woken : a \in Up[c]}
  <2>1. Wake(X, [a \in Cols |-> r[a].tally], edge)
    BY Zenon DEF Conclude, Ending
  <2>2. [a \in Cols |-> r[a].tally] = tl
    OBVIOUS
  <2>3. Up[c] \subseteq Cols
    BY <1>1, SceneFacts, MembershipAssumption
  <2>4. \A a \in Up[c] : r[a].woken = R(a).woken
    BY <2>3
  <2> HIDE DEF r, tl, R, E
  <2>5. X = UNION {E(a).woken \union R(a).woken : a \in Up[c]}
    BY <2>4
  <2> QED
    BY <2>1, <2>2, <2>5 DEF Wake
<1>4. c \in Cols /\ c \in Up[c] /\ Up[c] \subseteq Cols /\ builder[c] \in {"pending", "running"}
    BY <1>1, <1>2, SceneFacts, MembershipAssumption
<1>5. ASSUME NEW a \in Up[c]
      PROVE  /\ tl[a] \in TallyType /\ Leaves(tally[a], tl[a], W[a])
             /\ SameReading(tally[a], tl[a])
             /\ tl[a].holds = tally[a].holds - 1
             /\ tl[a].builderFailed <=> tally[a].builderFailed \/ o # "done"
             /\ tl[a].through <= seq
             /\ a # c => tl[a].sealed = tally[a].sealed
             /\ a # c \/ ~tally[a].sealed =>
                    (Rests(a, tally[a], edge, decl, state, draining, seq) =>
                     Rests(a, tl[a], edge, decl, state, draining, seq))
  <2> DEFINE seals == a = c
             t == tally[a]
             v == E(a).tally
             x == E(a).woken
             u == R(a).tally
             w == R(a).woken
  <2>1. t \in TallyType /\ t.holds # 0 /\ seq \in Nat /\ t.through <= seq
    BY <1>1, <1>4, BuilderHolds DEF Types, Ordered, Building
  <2>2. tl[a] = u /\ W[a] = x \union w /\ seals \in BOOLEAN /\ (seals <=> a = c)
    BY <1>4
  <2>3. Ending(t, o) = [tally |-> v, woken |-> x]
    BY EndingPair DEF Pair
  <2>4. Released(v, seals, seq) = [tally |-> u, woken |-> w]
    BY ReleasedPair DEF Pair
  <2> HIDE DEF tl, W, R, E, seals, t, v, x, u, w
  <2>5. Leaves(t, u, x \union w) /\ KeptByEnd(t, u, o, seals, seq)
    BY <2>1, <2>2, <2>3, <2>4, ConcludeKeeps
  <2>6. ASSUME ~(seals /\ t.sealed), Rests(a, t, edge, decl, state, draining, seq)
        PROVE  Rests(a, u, edge, decl, state, draining, seq)
    BY <2>1, <2>2, <2>3, <2>4, <2>6, ConcludeRests
  <2>7. u.through <= seq
    BY <2>1, <2>5 DEF KeptByEnd
  <2>8. t = tally[a]
    BY DEF t
  <2> QED
    BY <2>2, <2>5, <2>6, <2>7, <2>8 DEF KeptByEnd
<1>6. \A a \in Cols : a \notin Up[c] => tl[a] = tally[a] /\ W[a] = {}
    OBVIOUS
<1>7. Rewoken(W, ds)
  <2>1. \A a \in Up[c] : W[a] = E(a).woken \union R(a).woken
    BY <1>4
  <2> HIDE DEF W, E, R
  <2> QED
    BY <1>4, <1>6, <2>1 DEF Rewoken
<1>8. tl = [a \in Cols |-> tl[a]]
    OBVIOUS
<1> HIDE DEF tl, W, ds, E, R
<1>9. ASSUME NEW a \in Cols
      PROVE  /\ tl[a] \in TallyType /\ Leaves(tally[a], tl[a], W[a]) /\ tl[a].through <= seq
             /\ Follows(a, tl[a], decl, state)
             /\ a # c => tl[a].sealed = tally[a].sealed
             /\ a # c \/ ~tally[a].sealed =>
                    (Rests(a, tally[a], edge, decl, state, draining, seq) =>
                     Rests(a, tl[a], edge, decl, state, draining, seq))
  <2>1. tally[a] \in TallyType /\ tally[a].through <= seq /\ Follows(a, tally[a], decl, state)
    BY <1>1 DEF Types, Ordered, Followed
  <2>2. CASE a \in Up[c]
    BY <1>5, <2>1, <2>2, FollowsSame
  <2>3. CASE a \notin Up[c]
    <3>1. Leaves(tally[a], tally[a], {})
      BY DEF Leaves
    <3> QED
      BY <1>6, <2>1, <2>3, <3>1
  <2> QED
    BY <2>2, <2>3
<1>10. tl \in [Cols -> TallyType]
    BY <1>8, <1>9
<1>11. FiledBut(tl, dep, ds)
    BY <1>1, <1>7, <1>9, <1>10, WokenLeave DEF Types, Filed, SameParked
<1>12. Placeable(tl, edge, decl, state, draining, seq, dep, ds)
  <2>1. ds \subseteq Deps
    BY <1>7, <1>9 DEF Leaves, Rewoken
  <2>2. OnEntries(dep, ds)
    BY <1>1 DEF Filed, OnEntries
  <2> QED
    BY <1>1, <1>9, <1>10, <1>11, <2>1, <2>2, SceneFacts DEF Placeable, Types, Ordered
<1>13. /\ builder' \in [Built -> Phases] /\ DOMAIN builder' = Built /\ DOMAIN builder = Built
       /\ builder'[c] = o /\ \A x \in Built : x # c => builder'[x] = builder[x]
    BY <1>1, <1>2 DEF Types, Phases
<1>14. Counted(tl, builder')
  <2>1. ASSUME NEW a \in Cols
        PROVE  tl[a].holds = Cardinality(Under(a, builder'))
    <3>1. IsFiniteSet(Under(a, builder))
      BY <1>1, <1>13, SceneFacts, UnderFinite
    <3>2. tally[a].holds = Cardinality(Under(a, builder))
      BY <1>1 DEF Building, Counted
    <3>3. CASE a \in Up[c]
      <4>1. Under(a, builder') = Under(a, builder) \ {c} /\ c \in Under(a, builder)
        BY <1>4, <1>13, <3>3 DEF Under
      <4>2. Cardinality(Under(a, builder) \ {c}) = Cardinality(Under(a, builder)) - 1
        BY <3>1, <4>1, FS_RemoveElement
      <4> QED
        BY <1>5, <3>2, <3>3, <4>1, <4>2
    <3>4. CASE a \notin Up[c]
      <4>1. Under(a, builder') = Under(a, builder)
        BY <1>13, <3>4 DEF Under
      <4> QED
        BY <1>6, <3>2, <3>4, <4>1
    <3> QED
      BY <3>3, <3>4
  <2>2. ASSUME NEW a \in Cols
        PROVE  tl[a].builderFailed <=>
                 \E x \in DOMAIN builder' : a \in Up[x] /\ builder'[x] \in {"failed", "notStarted"}
    <3>1. tally[a].builderFailed <=>
            \E x \in Built : a \in Up[x] /\ builder[x] \in {"failed", "notStarted"}
      BY <1>1, <1>13 DEF Building, Counted
    <3>2. \A x \in Built : x # c => (builder'[x] \in {"failed", "notStarted"}
                                       <=> builder[x] \in {"failed", "notStarted"})
      BY <1>13
    <3>3. builder[c] \notin {"failed", "notStarted"}
      BY <1>2
    <3>4. builder'[c] \in {"failed", "notStarted"} <=> o # "done"
      BY <1>13
    <3>5. CASE a \in Up[c]
      BY <1>5, <1>13, <3>1, <3>2, <3>3, <3>4, <3>5
    <3>6. CASE a \notin Up[c]
      BY <1>6, <1>13, <3>1, <3>2, <3>6
    <3> QED
      BY <3>5, <3>6
  <2> QED
    BY <2>1, <2>2 DEF Counted
<1>15. /\ tally' \in [Cols -> TallyType] /\ dep' \in [Deps -> Standings]
       /\ Followed' /\ Filed' /\ Counted(tally', builder')
       /\ \A a \in Cols : /\ tally'[a].through <= seq'
                          /\ tally'[a].sealed = tl[a].sealed
                          /\ Rests(a, tl[a], edge', decl', state', draining', seq') =>
                             Rests(a, tally'[a], edge', decl', state', draining', seq')
    BY <1>2, <1>3, <1>12, <1>14, PlacedStep
<1>16. Types' /\ Ordered'
    BY <1>1, <1>2, <1>13, <1>15 DEF Types, Ordered, Built
<1>17. Topology'
  <2>1. \A x \in Built : builder'[x] \in {"none", "pending"} => MembersOf(x, decl) = {}
    BY <1>1, <1>13 DEF Building, Topology
  <2>2. \A x \in Built : entry[x] = "pending" => builder'[x] \in {"none", "pending"}
    BY <1>1, <1>2, <1>13 DEF Building, Topology
  <2>3. \A a, b \in Built : a # b /\ b \in Up[a] /\ builder'[a] # "none" =>
            builder'[b] \notin {"none", "pending"}
    BY <1>1, <1>4, <1>13 DEF Building, Topology
  <2> QED
    BY <1>2, <2>1, <2>2, <2>3 DEF Topology, Built
<1>18. Named'
    BY <1>1, <1>2 DEF Named
<1>19. ASSUME Resting
       PROVE  Resting'
  <2>1. ~tally[c].sealed
    BY <1>4, <1>19 DEF Resting, EachRests, SealedLate
  <2>2. \A a \in Cols : Rests(a, tally'[a], edge', decl', state', draining', seq')
    BY <1>2, <1>9, <1>15, <1>19, <2>1 DEF Resting, EachRests
  <2>3. SealedLate'
    BY <1>1, <1>2, <1>9, <1>13, <1>15, <1>19, SceneFacts DEF Resting, EachRests, SealedLate, Built
  <2> QED
    BY <2>2, <2>3 DEF Resting, EachRests
<1> QED
    BY <1>15, <1>16, <1>17, <1>18, <1>19 DEF MInv, Building

\* A program that waits only on collections it gives no builder.
WaitsApart == \A s \in Scenes : s.built \intersect s.waits = {}

LEMMA NextKeeps ==
    ASSUME MInv, [Next]_vars
    PROVE  MInv' /\ (Resting => EachRests') /\ (Resting /\ WaitsApart => Resting')
<1>1. ASSUME NEW d \in Deps, After(d) \/ Submit(d) \/ StartDep(d)
      PROVE  MInv' /\ (Resting => Resting')
    BY <1>1, AfterStep, SubmitStep, StartStep
<1>2. ASSUME NEW m \in Members, DeclareMember(m)
      PROVE  MInv' /\ (Resting => Resting')
    BY <1>2, DeclareStep
<1>3. ASSUME NEW c \in Cols, WaitSeals(c)
      PROVE  MInv' /\ (Resting => EachRests') /\ (Resting /\ WaitsApart => Resting')
  <2>1. c \in scene.waits /\ scene \in Scenes
    BY <1>3 DEF WaitSeals, MInv, Types
  <2>2. WaitsApart => c \notin Built
    BY <2>1 DEF WaitsApart, Built
  <2> QED
    BY <1>3, <2>2, WaitStep
<1>4. ASSUME NEW c \in Built, DefineBuilder(c)
      PROVE  MInv' /\ (Resting => Resting')
    BY <1>4, DefineStep
<1>5. ASSUME Work
      PROVE  MInv' /\ (Resting => Resting')
  <2>1. ASSUME NEW m \in Members, NEW o \in {"done", "failed"}, SettleMember(m, o)
        PROVE  MInv' /\ (Resting => Resting')
    BY <2>1, SettleStep
  <2>2. ASSUME NEW c \in Built, StartBuilder(c)
        PROVE  MInv' /\ (Resting => Resting')
    BY <2>2, StartBuilderStep
  <2>3. ASSUME NEW c \in Built, NEW o \in {"done", "failed", "notStarted"}, Conclude(c, o)
        PROVE  MInv' /\ (Resting => Resting')
    BY <2>3, ConcludeStep
  <2>4. ASSUME NEW c \in Built, NEW o \in {"done", "failed"}, EntrySettles(c, o)
        PROVE  MInv' /\ (Resting => Resting')
    BY <2>4, EntryStep
  <2> QED
    BY <1>5, <2>1, <2>2, <2>3, <2>4 DEF Work, BuilderSteps
<1>6. ASSUME Drain
      PROVE  MInv' /\ (Resting => Resting')
    BY <1>6, DrainStep
<1>7. ASSUME UNCHANGED vars
      PROVE  MInv' /\ (Resting => Resting')
  <2>1. /\ scene' = scene /\ seq' = seq /\ decl' = decl /\ state' = state /\ tally' = tally
        /\ builder' = builder /\ entry' = entry /\ edge' = edge /\ dep' = dep
        /\ draining' = draining /\ owed' = owed
    BY <1>7 DEF vars
  <2>2. Types' /\ Ordered' /\ Followed' /\ Named'
    BY <2>1 DEF MInv, Types, Ordered, Followed, Named, Built
  <2>3. Building' /\ Filed'
    BY <2>1 DEF MInv, Building, Topology, Counted, Filed, FiledBut, OnEntries, EntryPending, Built
  <2>4. Resting => Resting'
    BY <2>1 DEF Resting, EachRests, SealedLate, Built
  <2> QED
    BY <2>2, <2>3, <2>4 DEF MInv
<1>8. Resting' => EachRests'
    BY DEF Resting
<1> QED
    BY <1>1, <1>2, <1>3, <1>4, <1>5, <1>6, <1>7, <1>8 DEF Next

-----------------------------------------------------------------------------
\* What the invariant says of each property.

LEMMA InvTypes ==
    ASSUME MInv
    PROVE  TypeOK
<1>1. Types /\ Ordered /\ Followed /\ Building /\ Filed
    BY DEF MInv
<1>2. ASSUME NEW c \in Cols
      PROVE  tally[c].prefix \in 0..Cardinality(MembersOf(c, decl))
  <2>1. Leading(c, decl, state) \in SUBSET MembersOf(c, decl)
    BY DEF Leading
  <2>2. MembersOf(c, decl) \in SUBSET Members /\ IsFiniteSet(Members)
    BY MembershipAssumption DEF MembersOf, Declared
  <2>3. IsFiniteSet(MembersOf(c, decl))
    BY <2>2, FS_Subset
  <2>4. /\ Cardinality(Leading(c, decl, state)) <= Cardinality(MembersOf(c, decl))
        /\ IsFiniteSet(Leading(c, decl, state))
    BY <2>1, <2>3, FS_Subset
  <2>5. Cardinality(Leading(c, decl, state)) \in Nat /\ Cardinality(MembersOf(c, decl)) \in Nat
    BY <2>3, <2>4, FS_CardinalityType
  <2>6. tally[c].prefix = Cardinality(Leading(c, decl, state))
    BY <1>1 DEF Followed, Follows, Prefix, Leading
  <2> QED
    BY <2>4, <2>5, <2>6
<1>3. ASSUME NEW c \in Cols
      PROVE  tally[c].holds \in 0..Cardinality(Built)
  <2>1. IsFiniteSet(Built) /\ DOMAIN builder = Built
    BY <1>1, SceneFacts DEF Types
  <2>2. Under(c, builder) \in SUBSET Built
    BY <2>1 DEF Under
  <2>3. Cardinality(Under(c, builder)) <= Cardinality(Built) /\ Cardinality(Built) \in Nat
        /\ Cardinality(Under(c, builder)) \in Nat
    BY <2>1, <2>2, FS_Subset, FS_CardinalityType
  <2> QED
    BY <1>1, <2>3 DEF Building, Counted
<1>4. ASSUME NEW c \in Cols
      PROVE  tally[c].open \union {p[1] : p \in tally[c].parked}
                = {d \in Deps : On[d] = c /\ dep[d] = "parked"}
  <2> DEFINE names == {p[1] : p \in tally[c].parked}
  <2>1. tally[c].open \subseteq Deps /\ tally[c].parked \subseteq Deps \X Nat
    BY <1>1 DEF Types, TallyType
  <2>2. names \subseteq Deps
        /\ \A d \in Deps : d \in names <=> \E k \in Nat : <<d, k>> \in tally[c].parked
    BY <2>1, ParkedNames
  <2> HIDE DEF names
  <2>3. \A d \in Deps : d \in tally[c].open \union names <=> On[d] = c /\ dep[d] = "parked"
    BY <1>1, <2>1, <2>2 DEF Filed, FiledBut
  <2>4. tally[c].open \union names = {d \in Deps : On[d] = c /\ dep[d] = "parked"}
    BY <2>1, <2>2, <2>3
  <2> QED
    BY <2>4 DEF names
<1> QED
    BY <1>1, <1>2, <1>3, <1>4 DEF TypeOK, Ordered

\* A full reading finds what the tallies keep.
LEMMA ReadInFullIs ==
    ASSUME MInv, NEW c \in Cols
    PROVE  ReadInFull[c] = tally[c]
<1> DEFINE F == Failing(c, decl, state)
<1>1. tally[c] \in TallyType /\ Follows(c, tally[c], decl, state) /\ decl \in [Members -> Nat]
    BY DEF MInv, Types, Followed
<1>2. ReadInFull[c] = [tally[c] EXCEPT !.prefix = Prefix(c, decl, state),
                         !.firstFailed = IF F = {} THEN 0 ELSE Min({decl[m] : m \in F})]
    BY Zenon DEF ReadInFull, Failing
<1>3. tally[c].firstFailed = IF F = {} THEN 0 ELSE Min({decl[m] : m \in F})
  <2>1. CASE F = {}
    BY <1>1, <2>1 DEF Follows
  <2>2. CASE F # {}
    <3>1. PICK m \in F : tally[c].firstFailed = decl[m] /\ \A n \in F : decl[m] <= decl[n]
      BY <1>1, <2>2 DEF Follows
    <3>2. F \subseteq Members
      BY DEF Failing, MembersOf, Declared
    <3> HIDE DEF F
    <3>3. /\ {decl[n] : n \in F} \subseteq Nat /\ decl[m] \in {decl[n] : n \in F}
          /\ \A y \in {decl[n] : n \in F} : decl[m] =< y
      BY <1>1, <3>1, <3>2
    <3>4. Min({decl[n] : n \in F}) = decl[m]
      BY <3>3, MinIs
    <3> QED
      BY <2>2, <3>1, <3>4
  <2> QED
    BY <2>1, <2>2
<1>4. tally[c].prefix = Prefix(c, decl, state)
    BY <1>1 DEF Follows
<1> HIDE DEF F
<1>5. ReadInFull[c] = [tally[c] EXCEPT !.prefix = tally[c].prefix, !.firstFailed = tally[c].firstFailed]
    BY <1>2, <1>3, <1>4, Zenon
<1> QED
    BY <1>1, <1>5 DEF TallyType

\* collectionOutcomeLocked leaves pending whom it finds nothing for.
LEMMA PendingIs ==
    ASSUME NEW c, NEW t, NEW through, NEW dl, NEW drains, ~t.builderFailed,
           \/ IsOpen(t, through, drains) /\ t.firstFailed = 0
           \/ /\ ~IsOpen(t, through, drains) /\ ~FailedThrough(t, Cursor(t, through, drains))
              /\ IF Through(c, Cursor(t, through, drains), dl) = {} THEN EntryOutcome(c) = "pending"
                 ELSE ~SucceededThrough(c, t, Cursor(t, through, drains), dl)
    PROVE  Outcome(c, t, through, dl, drains) = "pending"
BY Zenon DEF Outcome

LEMMA NobodyIsForgotten ==
    ASSUME MInv, EachRests
    PROVE  NobodyForgotten
<1>1. SUFFICES ASSUME NEW d \in Deps, dep[d] \in {"parked", "onEntry"},
                      tally[On[d]].holds = 0 \/ d \in tally[On[d]].open
               PROVE  PlacedOn(d, ReadInFull, edge, decl, draining) = "pending"
    BY DEF NobodyForgotten
<1> DEFINE c == On[d]
           t == tally[c]
<1>2. Types /\ Ordered /\ Followed /\ Building /\ Filed
    BY DEF MInv
<1>3. c \in Cols
    BY MembershipAssumption
<1>4. SUFFICES Outcome(c, t, edge[d], decl, draining) = "pending"
    BY <1>3, ReadInFullIs DEF PlacedOn
<1>5. /\ t \in TallyType /\ Follows(c, t, decl, state) /\ decl \in [Members -> Nat] /\ seq \in Nat
      /\ Numbered(decl, seq) /\ edge[d] \in Nat /\ draining \in BOOLEAN
      /\ Rests(c, t, edge, decl, state, draining, seq)
    BY <1>2, <1>3 DEF Types, Ordered, Followed, EachRests
<1>6. CASE d \in t.open
  <2>1. IsOpen(t, edge[d], draining) /\ t.firstFailed = 0 /\ ~t.builderFailed
    BY <1>5, <1>6 DEF Rests
  <2> QED
    BY <2>1, PendingIs
<1>7. CASE dep[d] = "parked" /\ d \notin t.open
  <2>1. PICK k \in Nat : <<d, k>> \in t.parked
    BY <1>2, <1>7 DEF Filed, FiledBut
  <2>2. Lies(c, t, k, edge[d], decl, state, draining, seq)
    BY <1>5, <2>1 DEF Rests
  <2>3. t.holds = 0
    BY <1>1, <1>7
  <2>4. ~IsOpen(t, edge[d], draining)
    BY <2>2, <2>3 DEF IsOpen, Lies
  <2> DEFINE cursor == Cursor(t, edge[d], draining)
  <2>5. cursor = Reach(t, edge[d]) /\ cursor \in Nat
    BY <1>5, <2>4, CursorReaches
  <2> HIDE DEF cursor
  <2>6. /\ Through(c, cursor, decl) # {} /\ ~t.builderFailed
        /\ ~\E m \in Through(c, cursor, decl) : state[m] = "failed"
        /\ ~\A m \in Through(c, cursor, decl) : state[m] = "done"
    BY <2>2, <2>5 DEF Lies
  <2>7. ~FailedThrough(t, cursor)
    BY <1>5, <2>5, <2>6, ReadsFailed
  <2>8. t.prefix = Prefix(c, decl, state)
    BY <1>5 DEF Follows
  <2>9. ~SucceededThrough(c, t, cursor, decl)
    BY <1>5, <2>5, <2>6, <2>8, ReadsSucceeded
  <2> QED
    BY <2>4, <2>6, <2>7, <2>9, PendingIs DEF cursor
<1>8. CASE dep[d] = "onEntry"
  <2>1. c \in Built /\ entry[c] = "pending" /\ EntryOutcome(c) = "pending"
    BY <1>2, <1>8 DEF Filed, OnEntries, EntryPending, EntryOutcome
  <2>2. builder[c] \in {"none", "pending"} /\ MembersOf(c, decl) = {}
    BY <1>2, <2>1 DEF Building, Topology
  <2>3. ~t.builderFailed
    <3>1. SUFFICES ASSUME t.builderFailed PROVE FALSE
      OBVIOUS
    <3>2. PICK x \in Built : c \in Up[x] /\ builder[x] \in {"failed", "notStarted"}
      BY <1>2, <1>3, <3>1 DEF Building, Counted, Types
    <3> QED
      BY <1>2, <2>1, <2>2, <3>2 DEF Building, Topology
  <2>4. t.firstFailed = 0 /\ \A k : Through(c, k, decl) = {}
    BY <1>5, <2>2 DEF Follows, Failing, Through
  <2>5. ~FailedThrough(t, Cursor(t, edge[d], draining))
    BY <2>4 DEF FailedThrough
  <2> QED
    BY <2>1, <2>3, <2>4, <2>5, PendingIs
<1> QED
    BY <1>1, <1>6, <1>7, <1>8

\* nextEligibleLocked starts nobody whose collection is held, whose builder
\* failed, or whose edge reads a member that has not succeeded.
LEMMA StartFacts ==
    ASSUME MInv, NEW d \in Deps, PlacedOn(d, tally, edge, decl, draining) = "done"
    PROVE  /\ \A b \in Built : On[d] \in Up[b] => builder[b] \in {"none", "done"}
           /\ edge[d] # 0 => \A m \in owed[d] : state[m] = "done"
<1> DEFINE c == On[d]
           t == tally[c]
           cursor == Cursor(t, edge[d], draining)
<1>1. Types /\ Ordered /\ Followed /\ Building /\ Named
    BY DEF MInv
<1>2. c \in Cols
    BY MembershipAssumption
<1>3. /\ t \in TallyType /\ t.prefix = Prefix(c, decl, state) /\ decl \in [Members -> Nat]
      /\ seq \in Nat /\ Numbered(decl, seq) /\ edge[d] \in Nat /\ draining \in BOOLEAN
      /\ entry \in [Built -> States]
    BY <1>1, <1>2 DEF Types, Ordered, Followed, Follows
<1>4. /\ ~t.builderFailed /\ ~IsOpen(t, edge[d], draining)
      /\ Through(c, cursor, decl) # {} => SucceededThrough(c, t, cursor, decl)
    BY <1>3, OutcomeIs DEF PlacedOn
<1>5. cursor = Reach(t, edge[d]) /\ t.holds = 0 /\ cursor \in Nat
    BY <1>3, <1>4, CursorReaches
<1>6. ASSUME NEW b \in Built, c \in Up[b]
      PROVE  builder[b] \in {"none", "done"}
  <2>1. builder[b] \in Phases /\ DOMAIN builder = Built
    BY <1>1 DEF Types
  <2>2. builder[b] \notin {"pending", "running"}
    BY <1>1, <1>5, <1>6, BuilderHolds DEF Building
  <2>3. builder[b] \notin {"failed", "notStarted"}
    BY <1>1, <1>2, <1>4, <1>6, <2>1 DEF Building, Counted
  <2> QED
    BY <2>1, <2>2, <2>3 DEF Phases
<1> HIDE DEF cursor
<1>7. ASSUME edge[d] # 0, NEW m \in owed[d]
      PROVE  state[m] = "done"
  <2>1. cursor = edge[d]
    BY <1>5, <1>7 DEF Reach
  <2>2. m \in Through(c, cursor, decl)
    BY <1>1, <1>7, <2>1 DEF Named
  <2>3. SucceededThrough(c, t, cursor, decl)
    BY <1>4, <2>2
  <2> QED
    BY <1>3, <1>5, <2>2, <2>3, ReadsSucceeded
<1> QED
    BY <1>6, <1>7

\* placeLocked starts nobody.
LEMMA PlaceStarts ==
    ASSUME NEW tl, NEW eg, NEW dl, NEW drains, NEW dp, NEW ds, Place(ds, tl, eg, dl, drains, dp),
           NEW d \in Deps, dep'[d] = "started"
    PROVE  dp[d] = "started"
<1>1. CASE d \notin ds
    BY <1>1 DEF Place
<1>2. CASE d \in ds
  <2> DEFINE o == PlacedOn(d, tl, eg, dl, drains)
             forwards == Forwards(On[d], tl[On[d]], eg[d], dl, drains)
  <2>1. dep'[d] = CASE o = "done" -> "queued"
                    [] o = "failed" -> "notStarted"
                    [] OTHER -> IF forwards THEN "onEntry" ELSE "parked"
    BY <1>2, Zenon DEF Place
  <2> HIDE DEF o, forwards
  <2> QED
    BY <2>1
<1> QED
    BY <1>1, <1>2

\* Only nextEligibleLocked starts a dependent.
LEMMA OnlyStartDepStarts ==
    ASSUME MInv, [Next]_vars, NEW d \in Deps, dep[d] # "started", dep'[d] = "started"
    PROVE  PlacedOn(d, tally, edge, decl, draining) = "done"
<1>1. dep \in [Deps -> Standings]
    BY DEF MInv, Types
<1>2. ASSUME NEW x \in Deps, After(x)
      PROVE  FALSE
  <2>1. PICK tl, eg, ds : \/ Place(ds, tl, eg, decl, draining, [dep EXCEPT ![x] = "wired"])
                          \/ dep' = [dep EXCEPT ![x] = "wired"]
    BY <1>2 DEF After
  <2>2. [dep EXCEPT ![x] = "wired"][d] # "started"
    BY <1>1
  <2> QED
    BY <2>1, <2>2, PlaceStarts
<1>3. ASSUME NEW x \in Deps, Submit(x)
      PROVE  FALSE
    BY <1>3, PlaceStarts DEF Submit
<1>4. ASSUME NEW x \in Deps, StartDep(x)
      PROVE  PlacedOn(d, tally, edge, decl, draining) = "done"
  <2>1. CASE PlacedOn(x, tally, edge, decl, draining) = "done"
    <3>1. dep' = [dep EXCEPT ![x] = "started"]
      BY <1>4, <2>1 DEF StartDep
    <3>2. x = d
      BY <1>1, <3>1
    <3> QED
      BY <2>1, <3>2
  <2>2. CASE PlacedOn(x, tally, edge, decl, draining) # "done"
    <3>1. Place({x}, tally, edge, decl, draining, dep)
      BY <1>4, <2>2 DEF StartDep
    <3> QED
      BY <3>1, PlaceStarts
  <2> QED
    BY <2>1, <2>2
<1>5. ASSUME NEW w, NEW tl, Wake(w, tl, edge)
      PROVE  FALSE
    BY <1>5, PlaceStarts DEF Wake
<1>6. ASSUME NEW m \in Members, NEW o, SettleMember(m, o)
      PROVE  FALSE
    BY <1>5, <1>6, Zenon DEF SettleMember
<1>7. ASSUME NEW c \in Cols, WaitSeals(c)
      PROVE  FALSE
    BY <1>5, <1>7, Zenon DEF WaitSeals
<1>8. ASSUME NEW c \in Built, NEW o, Conclude(c, o)
      PROVE  FALSE
    BY <1>5, <1>8, Zenon DEF Conclude
<1>9. ASSUME Drain
      PROVE  FALSE
  <2>1. PICK ds, tl : Place(ds, tl, edge, decl, TRUE, dep)
    BY <1>9, Zenon DEF Drain
  <2> QED
    BY <2>1, PlaceStarts
<1>10. ASSUME NEW c \in Built, NEW o \in {"done", "failed"}, EntrySettles(c, o)
       PROVE  FALSE
    BY <1>10 DEF EntrySettles
<1>11. dep' = dep => FALSE
    OBVIOUS
<1> QED
    BY <1>2, <1>3, <1>4, <1>6, <1>7, <1>8, <1>9, <1>10, <1>11
       DEF Next, Work, BuilderSteps, DeclareMember, DefineBuilder, StartBuilder, vars

-----------------------------------------------------------------------------
\* The theorems.

\* A tally never counts more members than are declared nor more holds than there
\* are builders, and whoever is parked has one place on its collection's tally
\* and no one else has (collection_tally.go:29).
THEOREM TypeCorrect == Spec => []TypeOK
<1>1. Init => MInv
    BY InitMInv
<1>2. MInv /\ [Next]_vars => MInv'
    BY NextKeeps
<1>3. MInv => TypeOK
    BY InvTypes
<1> QED
    BY <1>1, <1>2, <1>3, PTL DEF Spec

\* Nobody starts under a builder that is still to declare its children or that
\* failed, nor before the members its After named have succeeded, whatever is
\* nested, built, waited on, settled or drained in between (nextEligibleLocked,
\* eligibility.go:68).
THEOREM StartsAfterNamedHolds == Spec => StartsAfterNamed
<1>1. Init => MInv
    BY InitMInv
<1>2. MInv /\ [Next]_vars => MInv'
    BY NextKeeps
<1>3. MInv /\ [Next]_vars =>
        \A d \in Deps : dep[d] # "started" /\ dep'[d] = "started" =>
            /\ \A b \in Built : On[d] \in Up[b] => builder[b] \in {"none", "done"}
            /\ edge[d] # 0 => \A m \in owed[d] : state[m] = "done"
    BY OnlyStartDepStarts, StartFacts
<1> QED
    BY <1>1, <1>2, <1>3, PTL DEF Spec, StartsAfterNamed

\* Nobody stays parked on an edge that a full reading of its members resolves,
\* so long as nothing seals a collection before its builder concludes: release
\* wakes who is parked on an open edge through seal, which wakes nobody on a
\* collection already sealed (collection_tally.go:105, :165).
THEOREM NobodyForgottenHolds == Spec /\ []SealedLate => []NobodyForgotten
<1>1. Init => MInv /\ EachRests
    BY InitMInv DEF Resting
<1>2. MInv /\ EachRests /\ SealedLate /\ [Next]_vars => MInv' /\ EachRests'
    BY NextKeeps DEF Resting
<1>3. MInv /\ EachRests => NobodyForgotten
    BY NobodyIsForgotten
<1> QED
    BY <1>1, <1>2, <1>3, PTL DEF Spec

\* Which holds of every program that calls Wait only on collections it gives no
\* builder: what else seals, After, finds the builder done (container_wait.go:32).
THEOREM NobodyForgottenApart ==
    ASSUME WaitsApart
    PROVE  Spec => []NobodyForgotten
<1>1. Init => MInv /\ Resting
    BY InitMInv
<1>2. MInv /\ Resting /\ [Next]_vars => MInv' /\ Resting'
    BY NextKeeps
<1>3. MInv /\ Resting => NobodyForgotten
    BY NobodyIsForgotten DEF Resting
<1> QED
    BY <1>1, <1>2, <1>3, PTL DEF Spec

===============================================================================
