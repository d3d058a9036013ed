--------------------------- MODULE PathLockProofs ---------------------------
\* What holds of the claims on destinations for every set of callers,
\* processes and paths: the lock files implement Claims.
EXTENDS PathLocks, FiniteSetTheorems, SequenceTheorems, TLAPS

-----------------------------------------------------------------------------
\* The inductive invariant.

\* flock(2): one exclusive holder, or any number of shared ones.
FlockSound ==
    \A i \in Inodes :
        /\ exclusive[i] # {} => shared[i] = {}
        /\ \A a, b \in exclusive[i] : a = b

\* A lock file is at one path.
FileAtOnePath == \A p, q \in Paths : file[p] = file[q] /\ file[p] # NoFile => p = q

Climbing == {"open", "flock", "check"}
Probing == {"probe", "probeLock", "probeCheck", "probeUnlink", "probeUnlock"}

\* How many locks an actor has at each label, and how often it tried.
LevelSound(a) ==
    /\ pc[a] \in {"call", "parked"} => held[a] = <<>> /\ tries[a] = 0
    /\ pc[a] \in Climbing \union Probing => Len(held[a]) < Len(Steps[a])
    /\ pc[a] \in {"held", "unlock"} => Len(held[a]) = Len(Steps[a])
    /\ pc[a] = "open" => tries[a] < Retries

\* tryFlock went through on i for step k of a.
Flocked(a, i, k) == a \in IF IsKey(a, k) THEN exclusive[i] ELSE shared[i]

\* Every lock taken is on the file at its path, but for the one unlinked by its
\* exclusive holder that is about to drop it.
HeldSound(a) ==
    /\ \A k \in 1..Len(held[a]) :
        /\ Flocked(a, held[a][k], k)
        /\ pc[a] # "unlock" \/ ~IsKey(a, k) => file[Steps[a][k]] = held[a][k]
    /\ \A j, k \in 1..Len(held[a]) : held[a][j] = held[a][k] => j = k

Opened == {"flock", "check", "probeLock", "probeCheck", "probeUnlink", "probeUnlock"}

\* The file a step has open is none of those it holds; what it found out of it
\* still holds when it acts on it.
FdSound(a) ==
    /\ pc[a] \in Opened => fd[a] \in Inodes /\ \A k \in 1..Len(held[a]) : fd[a] # held[a][k]
    /\ pc[a] \notin Opened => fd[a] = NoFile
    /\ pc[a] = "check" => Flocked(a, fd[a], Level(a))
    /\ pc[a] \in {"probeCheck", "probeUnlink"} => a \in exclusive[fd[a]]
    /\ pc[a] = "probeUnlink" => StillAt(a)

ActorSound(a) == LevelSound(a) /\ HeldSound(a) /\ FdSound(a)

IInv == LocksTypeOK /\ FlockSound /\ FileAtOnePath /\ \A a \in Actors : ActorSound(a)

-----------------------------------------------------------------------------
\* Sequences.

\* The steps of a claim are paths; the last is its key.
LEMMA StepFacts ==
    ASSUME NEW a \in Actors
    PROVE  /\ Len(Steps[a]) \in Nat /\ Len(Steps[a]) > 0
           /\ \A k \in 1..Len(Steps[a]) : Steps[a][k] \in Paths
           /\ \A j, k \in 1..Len(Steps[a]) : Steps[a][j] = Steps[a][k] => j = k
           /\ Key(a) = Steps[a][Len(Steps[a])]
<1> DEFINE S == Steps[a]
<1>1. S \in Seq(ToSet(S)) /\ S # <<>>
    BY PathLocksAssumption
<1>2. Len(S) \in Nat /\ Len(S) > 0 /\ DOMAIN S = 1..Len(S)
    BY <1>1, LenProperties, EmptySeq
<1>3. \A k \in 1..Len(S) : S[k] \in ToSet(S)
    BY <1>2 DEF ToSet
<1>4. \A k \in 1..Len(S) : S[k] \in Paths
    BY <1>3 DEF Paths
<1> QED
    BY <1>2, <1>4, PathLocksAssumption DEF Key, Last

\* One more lock.
LEMMA AppendFacts ==
    ASSUME NEW h \in Seq(Inodes), NEW i \in Inodes
    PROVE  /\ Append(h, i) \in Seq(Inodes) /\ Len(Append(h, i)) = Len(h) + 1
           /\ \A k \in 1..Len(h) : Append(h, i)[k] = h[k]
           /\ Append(h, i)[Len(h) + 1] = i
           /\ Len(h) \in Nat
BY AppendProperties, LenProperties

\* One lock less.
LEMMA FrontFacts ==
    ASSUME NEW h \in Seq(Inodes), h # <<>>
    PROVE  /\ Front(h) \in Seq(Inodes) /\ Len(Front(h)) = Len(h) - 1
           /\ \A k \in 1..Len(Front(h)) : Front(h)[k] = h[k]
           /\ Last(h) = h[Len(h)] /\ Last(h) \in Inodes
           /\ Len(h) \in Nat /\ Len(h) > 0
<1>1. Len(h) \in Nat /\ Len(h) > 0 /\ \A k \in 1..Len(h) : h[k] \in Inodes
    BY LenProperties, EmptySeq, ElementOfSeq
<1> DEFINE n == Len(h) - 1
           l == Len(Front(h))
<1>2. /\ Front(h) \in Seq(Inodes)
      /\ l = IF 1 <= n THEN n - 1 + 1 ELSE 0
      /\ \A k \in 1..n - 1 + 1 : Front(h)[k] = h[1 + k - 1]
  <2>1. 1 \in Int /\ n \in Int /\ \A k \in 1..n : h[k] \in Inodes
    BY <1>1
  <2> QED
    BY <2>1, SubSeqProperties DEF Front
<1>3. l = n /\ n \in Nat
  <2>1. n \in Nat
    BY <1>1
  <2> HIDE DEF l, n
  <2> QED
    BY <1>2, <2>1
<1>4. \A k \in 1..Len(Front(h)) : Front(h)[k] = h[k]
  <2> SUFFICES ASSUME NEW k \in 1..Len(Front(h)) PROVE Front(h)[k] = h[k]
    OBVIOUS
  <2>1. k \in 1..n - 1 + 1 /\ 1 + k - 1 = k
    BY <1>1, <1>3
  <2> QED
    BY <1>2, <2>1
<1> QED
    BY <1>1, <1>2, <1>3, <1>4 DEF Last

\* The locks held, and the path of the next one.
LEMMA HeldFacts ==
    ASSUME LocksTypeOK, NEW a \in Actors
    PROVE  /\ held[a] \in Seq(Inodes) /\ Len(held[a]) \in Nat
           /\ \A k \in 1..Len(held[a]) :
                held[a][k] \in Inodes /\ Steps[a][k] \in Paths /\ k \in 1..Len(Steps[a])
           /\ Len(held[a]) < Len(Steps[a]) =>
                Path(a) \in Paths /\ Level(a) \in 1..Len(Steps[a])
           /\ held[a] # <<>> => Len(held[a]) > 0
<1>1. held[a] \in Seq(Inodes) /\ Len(held[a]) <= Len(Steps[a])
    BY DEF LocksTypeOK
<1>2. Len(held[a]) \in Nat /\ \A k \in 1..Len(held[a]) : held[a][k] \in Inodes
    BY <1>1, LenProperties, ElementOfSeq
<1>3. held[a] # <<>> => Len(held[a]) > 0
    BY <1>1, EmptySeq
<1>4. \A k \in 1..Len(held[a]) : k \in 1..Len(Steps[a])
    BY <1>1, <1>2, StepFacts
<1> QED
    BY <1>1, <1>2, <1>3, <1>4, StepFacts DEF Path, Level

-----------------------------------------------------------------------------
\* What the steps of others leave to an actor.

\* Whoever neither moves nor loses a lock, and whose locked files stay at their
\* paths, is as sound as before.
LEMMA OthersKept ==
    ASSUME LocksTypeOK, NEW b \in Actors, ActorSound(b),
           pc'[b] = pc[b] \/ (pc[b] = "parked" /\ pc'[b] = "call"),
           fd'[b] = fd[b], held'[b] = held[b], tries'[b] = tries[b],
           \A i \in Inodes : /\ b \in shared[i] => b \in shared'[i]
                             /\ b \in exclusive[i] => b \in exclusive'[i],
           \A k \in 1..Len(held[b]) :
              file[Steps[b][k]] = held[b][k] => file'[Steps[b][k]] = held[b][k],
           pc[b] = "probeUnlink" => file'[Path(b)] = file[Path(b)]
    PROVE  ActorSound(b)'
<1>1. LevelSound(b)'
    BY DEF ActorSound, LevelSound, Climbing, Probing
<1>2. HeldSound(b)'
    BY HeldFacts DEF ActorSound, HeldSound, Flocked, IsKey
<1>3. FdSound(b)'
    BY DEF ActorSound, FdSound, Opened, Flocked, IsKey, Level, StillAt, Path
<1> QED
    BY <1>1, <1>2, <1>3 DEF ActorSound

-----------------------------------------------------------------------------
\* The inductive invariant holds throughout: one lemma for each kind of step.

LEMMA InitIInv == LocksInit => IInv
<1> SUFFICES ASSUME LocksInit PROVE IInv
    OBVIOUS
<1>1. LocksTypeOK
  <2>1. pc \in [Actors -> Labels]
    BY DEF LocksInit, Labels
  <2>2. \A a \in Actors : Len(held[a]) <= Len(Steps[a])
    BY StepFacts, EmptySeq DEF LocksInit
  <2>3. held \in [Actors -> Seq(Inodes)]
    BY EmptySeq DEF LocksInit
  <2> QED
    BY <2>1, <2>2, <2>3, PathLocksAssumption DEF LocksInit, LocksTypeOK, Retries
<1>2. FlockSound /\ FileAtOnePath
    BY DEF LocksInit, FlockSound, FileAtOnePath
<1>3. ASSUME NEW a \in Actors PROVE ActorSound(a)
  <2>1. held[a] = <<>> /\ Len(held[a]) = 0 /\ fd[a] = NoFile /\ tries[a] = 0
    BY EmptySeq DEF LocksInit
  <2>2. pc[a] \in {"call", "done"}
    BY DEF LocksInit
  <2>3. LevelSound(a)
    BY <2>1, <2>2 DEF LevelSound, Climbing, Probing
  <2>4. HeldSound(a)
    BY <2>1 DEF HeldSound
  <2>5. FdSound(a)
    BY <2>1, <2>2 DEF FdSound, Opened
  <2> QED
    BY <2>3, <2>4, <2>5 DEF ActorSound
<1> QED
    BY <1>1, <1>2, <1>3 DEF IInv

\* A step that neither opens nor locks nor unlinks a file.
QuietStep(a) ==
    \/ Claim(a) \/ GiveUpTable(a) \/ OpenFails(a) \/ Release(a) \/ Poll(a)
    \/ GiveUpPolling(a) \/ CallEnds(a) \/ ProbeCheck(a)

LEMMA QuietStepKeeps ==
    ASSUME IInv, NEW a \in Actors, QuietStep(a)
    PROVE  IInv'
<1> USE DEF IInv
<1>1. UNCHANGED <<locks, fd, held>>
    BY DEF QuietStep, Claim, GiveUpTable, OpenFails, Release, Poll, GiveUpPolling,
        CallEnds, ProbeCheck, Unwind
<1>2. LocksTypeOK'
  <2> USE DEF LocksTypeOK, Goto, Labels, Unwind, locks
  <2>1. CASE Claim(a) \/ GiveUpTable(a)
    BY <2>1, <1>1 DEF Claim, GiveUpTable
  <2>2. CASE OpenFails(a)
    BY <2>2, <1>1, PathLocksAssumption DEF OpenFails
  <2>3. CASE Release(a) \/ ProbeCheck(a)
    BY <2>3, <1>1 DEF Release, ProbeCheck
  <2>4. CASE Poll(a)
    BY <2>4, <1>1 DEF Poll, Retries
  <2>5. CASE GiveUpPolling(a) \/ CallEnds(a)
    BY <2>5, <1>1 DEF GiveUpPolling, CallEnds, Unclaim
  <2> QED
    BY <2>1, <2>2, <2>3, <2>4, <2>5 DEF QuietStep
<1>3. FlockSound' /\ FileAtOnePath'
    BY <1>1 DEF FlockSound, FileAtOnePath, locks
<1>4. ASSUME NEW b \in Actors, b # a PROVE ActorSound(b)'
  <2>1. pc'[b] = pc[b] \/ (pc[b] = "parked" /\ pc'[b] = "call")
    BY <1>4 DEF QuietStep, Claim, GiveUpTable, OpenFails, Release, Poll, GiveUpPolling,
        CallEnds, ProbeCheck, Unwind, Goto, Unclaim, Woken, LocksTypeOK
  <2>2. tries'[b] = tries[b]
    BY <1>4 DEF QuietStep, Claim, GiveUpTable, OpenFails, Release, Poll, GiveUpPolling,
        CallEnds, ProbeCheck, LocksTypeOK
  <2> QED
    BY <1>1, <2>1, <2>2, OthersKept DEF locks
<1>5. ActorSound(a)'
  <2>1. LevelSound(a)'
    <3> USE DEF ActorSound, LevelSound, Climbing, Probing, Goto, Unwind, LocksTypeOK, Retries
    <3>1. CASE Claim(a)
      <4>1. Len(<<>>) = 0 /\ Len(Steps[a]) > 0
        BY EmptySeq, StepFacts
      <4> QED
        BY <1>1, <3>1, <4>1 DEF Claim
    <3>2. CASE GiveUpTable(a) \/ OpenFails(a) \/ Release(a)
      BY <1>1, <3>2 DEF GiveUpTable, OpenFails, Release
    <3>3. CASE Poll(a)
      <4>1. Len(<<>>) = 0 /\ Len(Steps[a]) > 0
        BY EmptySeq, StepFacts
      <4> QED
        BY <1>1, <3>3, <4>1 DEF Poll
    <3>4. CASE GiveUpPolling(a) \/ CallEnds(a)
      BY <1>1, <3>4 DEF GiveUpPolling, CallEnds, Unclaim
    <3>5. CASE ProbeCheck(a)
      BY <1>1, <3>5 DEF ProbeCheck
    <3> QED
      BY <3>1, <3>2, <3>3, <3>4, <3>5 DEF QuietStep
  <2>2. HeldSound(a)'
    <3>1. pc[a] # "unlock"
      BY DEF QuietStep, Claim, GiveUpTable, OpenFails, Release, Poll, GiveUpPolling,
        CallEnds, ProbeCheck
    <3> QED
      BY <1>1, <3>1, HeldFacts DEF ActorSound, HeldSound, Flocked, IsKey, locks
  <2>3. FdSound(a)'
    <3>1. CASE ProbeCheck(a)
      BY <1>1, <3>1 DEF ProbeCheck, Goto, LocksTypeOK, ActorSound, FdSound, Opened, StillAt,
        Path, Level, locks
    <3>2. CASE ~ProbeCheck(a)
      <4>1. pc[a] \notin Opened /\ pc'[a] \notin Opened
        BY <3>2 DEF QuietStep, Claim, GiveUpTable, OpenFails, Release, Poll,
            GiveUpPolling, CallEnds, Unclaim, Unwind, Goto, LocksTypeOK, Opened
      <4> QED
        BY <1>1, <4>1 DEF ActorSound, FdSound, Opened
    <3> QED
      BY <3>1, <3>2
  <2> QED
    BY <2>1, <2>2, <2>3 DEF ActorSound
<1> QED
    BY <1>2, <1>3, <1>4, <1>5

\* What Open counts as unused is what neither a path nor an actor has.
LEMMA UnusedFacts ==
    ASSUME LocksTypeOK
    PROVE  \A i \in Unused : /\ i \in Inodes
                             /\ \A p \in Paths : file[p] # i
                             /\ \A b \in Actors : /\ fd[b] # i
                                                  /\ \A k \in 1..Len(held[b]) : held[b][k] # i
<1> SUFFICES ASSUME NEW i \in Unused
             PROVE  /\ i \in Inodes
                    /\ \A p \in Paths : file[p] # i
                    /\ \A b \in Actors : /\ fd[b] # i
                                         /\ \A k \in 1..Len(held[b]) : held[b][k] # i
    OBVIOUS
<1>1. \A b \in Actors : \A k \in 1..Len(held[b]) : held[b][k] \in ToSet(held[b])
    BY HeldFacts, LenProperties DEF ToSet
<1> QED
    BY <1>1 DEF Unused

\* The file an actor has beyond those at their paths: the one it has open, or
\* the one it unlinked and has still locked.
Extra(b) == IF fd[b] # NoFile THEN fd[b]
            ELSE IF pc[b] = "unlock" THEN held[b][Len(held[b])] ELSE NoFile

\* There is always a file for an Open to create: beyond those at other paths,
\* everybody else has one at most.
LEMMA UnusedLeft ==
    ASSUME IInv, NEW a \in Actors, pc[a] = "open", file[Path(a)] = NoFile
    PROVE  Unused # {}
<1> USE DEF IInv
<1> DEFINE P == Paths \ {Path(a)}
           A == Actors \ {a}
           FP == {file[p] : p \in P}
           FA == {Extra(b) : b \in A}
<1>1. Path(a) \in Paths
    BY HeldFacts DEF ActorSound, LevelSound, Climbing
<1>2. IsFiniteSet(Paths)
  <2>1. \A b \in Actors : IsFiniteSet(ToSet(Steps[b]))
    <3> SUFFICES ASSUME NEW b \in Actors PROVE IsFiniteSet(ToSet(Steps[b]))
      OBVIOUS
    <3>1. Steps[b] \in Seq(ToSet(Steps[b])) /\ DOMAIN Steps[b] = 1..Len(Steps[b])
      BY PathLocksAssumption, LenProperties
    <3>2. IsFiniteSet(1..Len(Steps[b]))
      BY StepFacts, FS_Interval
    <3>3. Steps[b] \in Surjection(1..Len(Steps[b]), ToSet(Steps[b]))
      BY <3>1, LenProperties DEF ToSet, Surjection
    <3> QED
      BY <3>2, <3>3, FS_Surjection
  <2> DEFINE T == {ToSet(Steps[b]) : b \in Actors}
             f == [b \in Actors |-> ToSet(Steps[b])]
  <2>2. f \in Surjection(Actors, T)
    BY DEF Surjection
  <2>3. IsFiniteSet(T)
    BY <2>2, FS_Surjection, PathLocksAssumption
  <2> QED
    BY <2>1, <2>3, FS_UNION DEF Paths
<1>3. /\ IsFiniteSet(P) /\ Cardinality(P) = Cardinality(Paths) - 1
      /\ IsFiniteSet(A) /\ Cardinality(A) = Cardinality(Actors) - 1
    BY <1>1, <1>2, FS_RemoveElement, PathLocksAssumption
<1>4. IsFiniteSet(FP) /\ Cardinality(FP) <= Cardinality(P)
  <2> DEFINE f == [p \in P |-> file[p]]
  <2>1. f \in Surjection(P, FP)
    BY DEF Surjection
  <2> QED
    BY <1>3, <2>1, FS_Surjection
<1>5. IsFiniteSet(FA) /\ Cardinality(FA) <= Cardinality(A)
  <2> DEFINE f == [b \in A |-> Extra(b)]
  <2>1. f \in Surjection(A, FA)
    BY DEF Surjection
  <2> QED
    BY <1>3, <2>1, FS_Surjection
<1>6. /\ IsFiniteSet(FP \union FA)
      /\ Cardinality(FP \union FA) <= Cardinality(FP) + Cardinality(FA)
  <2>1. IsFiniteSet(FP \cap FA) /\ Cardinality(FP \cap FA) \in Nat
    BY <1>4, FS_Intersection, FS_CardinalityType
  <2>2. Cardinality(FP) \in Nat /\ Cardinality(FA) \in Nat
    BY <1>4, <1>5, FS_CardinalityType
  <2> HIDE DEF FP, FA
  <2>3. /\ IsFiniteSet(FP \union FA)
        /\ Cardinality(FP \union FA) =
              Cardinality(FP) + Cardinality(FA) - Cardinality(FP \cap FA)
    BY <1>4, <1>5, FS_Union
  <2> QED
    BY <2>1, <2>2, <2>3
<1>7. Cardinality(FP \union FA) < Cardinality(Inodes)
    BY <1>2, <1>3, <1>4, <1>5, <1>6, FS_CardinalityType, PathLocksAssumption
<1>8. ~ (Inodes \subseteq FP \union FA)
  <2> HIDE DEF FP, FA
  <2>1. ASSUME Inodes \subseteq FP \union FA
        PROVE  Cardinality(Inodes) <= Cardinality(FP \union FA)
    BY <1>6, <2>1, FS_Subset
  <2>2. Cardinality(Inodes) \in Nat /\ Cardinality(FP \union FA) \in Nat
    BY <1>6, FS_CardinalityType, PathLocksAssumption
  <2> QED
    BY <1>7, <2>1, <2>2
<1>9. PICK i \in Inodes : i \notin FP \union FA
    BY <1>8
<1>10. i # NoFile
    BY PathLocksAssumption
<1>11. \A p \in Paths : file[p] # i
    BY <1>9, <1>10
<1>12. \A b \in Actors : fd[b] # i
  <2> SUFFICES ASSUME NEW b \in Actors PROVE fd[b] # i
    OBVIOUS
  <2>1. CASE b = a
    BY <1>10, <2>1 DEF ActorSound, FdSound, Opened
  <2>2. CASE b # a
    BY <1>9, <1>10, <2>2 DEF Extra
  <2> QED
    BY <2>1, <2>2
<1>13. ASSUME NEW b \in Actors, NEW k \in 1..Len(held[b]) PROVE held[b][k] # i
  <2>1. CASE pc[b] = "unlock" /\ IsKey(b, k)
    <3>1. b # a /\ fd[b] = NoFile /\ k = Len(held[b])
      BY <2>1 DEF ActorSound, FdSound, Opened, LevelSound, IsKey
    <3> QED
      BY <1>9, <2>1, <3>1 DEF Extra
  <2>2. CASE ~ (pc[b] = "unlock" /\ IsKey(b, k))
    <3>1. file[Steps[b][k]] = held[b][k] /\ Steps[b][k] \in Paths
      BY <1>13, <2>2, HeldFacts DEF ActorSound, HeldSound
    <3> QED
      BY <1>11, <3>1
  <2> QED
    BY <2>1, <2>2
<1>14. \A b \in Actors : i \notin ToSet(held[b])
    BY <1>13, HeldFacts, LenProperties DEF ToSet
<1> QED
    BY <1>11, <1>12, <1>14 DEF Unused

\* Open finds the file at the path or creates one nobody has.
LEMMA OpenKeeps ==
    ASSUME IInv, NEW a \in Actors, OpenFile(a)
    PROVE  IInv'
<1> USE DEF IInv
<1> DEFINE i == IF file[Path(a)] # NoFile THEN file[Path(a)] ELSE CHOOSE j \in Unused : TRUE
           p == Path(a)
<1>1. /\ pc[a] = "open" /\ pc' = [pc EXCEPT ![a] = "flock"]
      /\ fd' = [fd EXCEPT ![a] = i] /\ file' = [file EXCEPT ![p] = i]
      /\ tries' = [tries EXCEPT ![a] = @ + 1]
      /\ UNCHANGED <<shared, exclusive, claimed, held, after, errors, crashes>>
    BY DEF OpenFile, Opens, Goto, LocksTypeOK
<1>2. p \in Paths /\ Len(held[a]) < Len(Steps[a]) /\ Level(a) \in 1..Len(Steps[a])
    BY <1>1, HeldFacts DEF ActorSound, LevelSound, Climbing
<1>3. \/ file[p] = i /\ i \in Inodes
      \/ file[p] = NoFile /\ i \in Unused
    BY <1>1, <1>2, UnusedLeft DEF LocksTypeOK
<1>4. i \in Inodes
    BY <1>3, UnusedFacts
<1>5. i # NoFile
    BY <1>4, PathLocksAssumption
<1>6. \A q \in Paths : q # p => file[q] # i
    BY <1>2, <1>3, <1>5, UnusedFacts DEF FileAtOnePath
<1> HIDE DEF i, p
<1>7. LocksTypeOK'
  <2>1. tries'[a] \in 0..Retries
    <3>1. tries[a] \in 0..Retries /\ tries[a] < Retries
      BY <1>1 DEF LocksTypeOK, ActorSound, LevelSound
    <3>2. tries'[a] = tries[a] + 1
      BY <1>1 DEF LocksTypeOK
    <3> QED
      BY <3>1, <3>2 DEF Retries
  <2> QED
    BY <1>1, <1>2, <1>4, <2>1 DEF LocksTypeOK, Labels
<1>8. FlockSound' /\ FileAtOnePath'
    BY <1>1, <1>2, <1>6 DEF FlockSound, FileAtOnePath, LocksTypeOK
<1>9. \A q \in Paths : file[q] # NoFile => file'[q] = file[q]
    BY <1>1, <1>2, <1>3, <1>5 DEF LocksTypeOK
<1>10. \A b \in Actors : \A k \in 1..Len(held[b]) :
            file[Steps[b][k]] = held[b][k] => file'[Steps[b][k]] = held[b][k]
    BY <1>9, HeldFacts, PathLocksAssumption
<1>11. ASSUME NEW b \in Actors, b # a PROVE ActorSound(b)'
  <2>1. ASSUME pc[b] = "probeUnlink" PROVE file'[Path(b)] = file[Path(b)]
    <3>1. file[Path(b)] = fd[b] /\ fd[b] \in Inodes /\ Path(b) \in Paths
      BY <2>1, HeldFacts DEF ActorSound, FdSound, LevelSound, StillAt, Opened, Probing
    <3> QED
      BY <1>9, <3>1, PathLocksAssumption
  <2> QED
    BY <1>1, <1>10, <1>11, <2>1, OthersKept DEF LocksTypeOK
<1>12. ActorSound(a)'
  <2>1. LevelSound(a)'
    BY <1>1, <1>2 DEF LevelSound, Climbing, Probing, LocksTypeOK
  <2>2. HeldSound(a)'
    BY <1>1, <1>10, HeldFacts DEF ActorSound, HeldSound, Flocked, IsKey, LocksTypeOK
  <2>3. \A k \in 1..Len(held[a]) : held[a][k] # i
    <3> SUFFICES ASSUME NEW k \in 1..Len(held[a]) PROVE held[a][k] # i
      OBVIOUS
    <3>1. Steps[a][k] # p /\ Steps[a][k] \in Paths
      BY <1>2, HeldFacts, StepFacts DEF Path, Level, p
    <3>2. file[Steps[a][k]] = held[a][k]
      BY <1>1 DEF ActorSound, HeldSound
    <3> QED
      BY <1>6, <3>1, <3>2
  <2>4. FdSound(a)'
    BY <1>1, <1>4, <2>3 DEF FdSound, Opened, LocksTypeOK
  <2> QED
    BY <2>1, <2>2, <2>4 DEF ActorSound
<1> QED
    BY <1>7, <1>8, <1>11, <1>12

\* flock(2) goes through for at most one exclusive holder.
LEMMA FlockKeepsSound ==
    ASSUME LocksTypeOK, FlockSound, NEW a \in Actors, NEW ex \in BOOLEAN,
           fd[a] \in Inodes, Flock(a, ex)
    PROVE  /\ FlockSound'
           /\ shared' \in [Inodes -> SUBSET Actors] /\ exclusive' \in [Inodes -> SUBSET Actors]
           /\ a \in IF ex THEN exclusive'[fd[a]] ELSE shared'[fd[a]]
           /\ \A b \in Actors : \A i \in Inodes :
                /\ b \in shared[i] => b \in shared'[i]
                /\ b \in exclusive[i] => b \in exclusive'[i]
<1>1. CASE ex
  <2>1. /\ exclusive[fd[a]] = {} /\ shared[fd[a]] = {}
        /\ exclusive' = [exclusive EXCEPT ![fd[a]] = {a}] /\ shared' = shared
    BY <1>1 DEF Flock
  <2>2. \A i \in Inodes : exclusive'[i] = IF i = fd[a] THEN {a} ELSE exclusive[i]
    BY <2>1 DEF LocksTypeOK
  <2>3. exclusive' \in [Inodes -> SUBSET Actors]
    BY <2>1 DEF LocksTypeOK
  <2>4. FlockSound'
    BY <2>1, <2>2 DEF FlockSound
  <2> QED
    BY <1>1, <2>1, <2>2, <2>3, <2>4 DEF LocksTypeOK
<1>2. CASE ~ex
  <2>1. /\ exclusive[fd[a]] = {} /\ exclusive' = exclusive
        /\ shared' = [shared EXCEPT ![fd[a]] = @ \union {a}]
    BY <1>2 DEF Flock
  <2>2. \A i \in Inodes : shared'[i] = IF i = fd[a] THEN shared[i] \union {a} ELSE shared[i]
    BY <2>1 DEF LocksTypeOK
  <2>3. shared' \in [Inodes -> SUBSET Actors]
    BY <2>1 DEF LocksTypeOK
  <2>4. FlockSound'
    BY <2>1, <2>2 DEF FlockSound
  <2> QED
    BY <1>2, <2>1, <2>2, <2>3, <2>4 DEF LocksTypeOK
<1> QED
    BY <1>1, <1>2

\* LOCK_UN drops the lock of one holder, and only that.
LEMMA UnflockKeepsSound ==
    ASSUME LocksTypeOK, FlockSound, NEW a \in Actors, NEW i \in Inodes, Unflock(a, i)
    PROVE  /\ FlockSound'
           /\ shared' \in [Inodes -> SUBSET Actors] /\ exclusive' \in [Inodes -> SUBSET Actors]
           /\ \A b \in Actors : \A j \in Inodes : b # a \/ j # i =>
                /\ b \in shared[j] => b \in shared'[j]
                /\ b \in exclusive[j] => b \in exclusive'[j]
BY DEF LocksTypeOK, FlockSound, Unflock

\* tryFlock locks the open file, or the claim backs out with what it has.
LEMMA TryFlockKeeps ==
    ASSUME IInv, NEW a \in Actors, TryFlock(a)
    PROVE  IInv'
<1> USE DEF IInv
<1>1. pc[a] = "flock" /\ UNCHANGED <<file, claimed, held, tries, errors, crashes>>
    BY DEF TryFlock
<1>2. fd[a] \in Inodes /\ Len(held[a]) < Len(Steps[a])
    BY <1>1 DEF ActorSound, FdSound, LevelSound, Opened, Climbing
<1>3. CASE CanFlock(a, IsKey(a, Level(a)))
  <2> DEFINE ex == IsKey(a, Level(a))
  <2>1. /\ Flock(a, ex) /\ ex \in BOOLEAN /\ pc' = [pc EXCEPT ![a] = "check"]
        /\ UNCHANGED <<fd, after>>
    BY <1>3 DEF TryFlock, Goto, IsKey
  <2>2. LocksTypeOK' /\ FlockSound' /\ FileAtOnePath'
    BY <1>1, <1>2, <2>1, FlockKeepsSound DEF LocksTypeOK, Labels, FileAtOnePath
  <2>3. ASSUME NEW b \in Actors, b # a PROVE ActorSound(b)'
    <3>1. pc'[b] = pc[b]
      BY <2>1, <2>3 DEF LocksTypeOK
    <3> QED
      BY <1>1, <1>2, <2>1, <3>1, FlockKeepsSound, OthersKept
  <2>4. pc'[a] = "check"
    BY <2>1 DEF LocksTypeOK
  <2>5. LevelSound(a)'
    BY <1>1, <1>2, <2>4 DEF LevelSound, Climbing, Probing
  <2>6. HeldSound(a)'
    BY <1>1, <1>2, <2>1, <2>4, FlockKeepsSound, HeldFacts
        DEF ActorSound, HeldSound, Flocked, IsKey
  <2>7. FdSound(a)'
    <3>1. Flocked(a, fd[a], Level(a))'
      BY <1>1, <1>2, <2>1, FlockKeepsSound DEF Flocked, Level, IsKey
    <3> QED
      BY <1>1, <1>2, <2>1, <2>4, <3>1 DEF ActorSound, FdSound, Opened
  <2> QED
    BY <2>2, <2>3, <2>5, <2>6, <2>7 DEF ActorSound
<1>4. CASE ~CanFlock(a, IsKey(a, Level(a)))
  <2>1. /\ UNCHANGED <<shared, exclusive>> /\ pc' = [pc EXCEPT ![a] = "drop"]
        /\ fd' = [fd EXCEPT ![a] = NoFile]
        /\ \E next \in {"failed", "retry"} : after' = [after EXCEPT ![a] = next]
    BY <1>4 DEF TryFlock, Goto, Unwind, Opens
  <2>2. LocksTypeOK' /\ FlockSound' /\ FileAtOnePath'
    BY <1>1, <2>1 DEF LocksTypeOK, Labels, FileAtOnePath, FlockSound
  <2>3. ASSUME NEW b \in Actors, b # a PROVE ActorSound(b)'
    <3>1. pc'[b] = pc[b] /\ fd'[b] = fd[b]
      BY <2>1, <2>3 DEF LocksTypeOK
    <3> QED
      BY <1>1, <2>1, <3>1, OthersKept
  <2>4. pc'[a] = "drop" /\ fd'[a] = NoFile
    BY <2>1 DEF LocksTypeOK
  <2>5. LevelSound(a)' /\ FdSound(a)'
    BY <2>4 DEF LevelSound, Climbing, Probing, FdSound, Opened
  <2>6. HeldSound(a)'
    BY <1>1, <2>1, <2>4, HeldFacts DEF ActorSound, HeldSound, Flocked, IsKey
  <2> QED
    BY <2>2, <2>3, <2>5, <2>6 DEF ActorSound
<1> QED
    BY <1>3, <1>4

\* What the exclusive holder of the file at a path unlinks, nobody else holds.
LEMMA UnlinkLeavesOthers ==
    ASSUME IInv, NEW a \in Actors, NEW p \in Paths, file[p] \in Inodes,
           a \in exclusive[file[p]], file' = [file EXCEPT ![p] = NoFile],
           NEW b \in Actors, b # a
    PROVE  /\ \A k \in 1..Len(held[b]) :
                file[Steps[b][k]] = held[b][k] => file'[Steps[b][k]] = held[b][k]
           /\ pc[b] = "probeUnlink" => file'[Path(b)] = file[Path(b)]
<1> USE DEF IInv
<1>1. b \notin exclusive[file[p]] /\ b \notin shared[file[p]]
    BY DEF FlockSound
<1>2. \A q \in Paths : q # p => file'[q] = file[q]
    BY DEF LocksTypeOK
<1>3. ASSUME NEW k \in 1..Len(held[b]), file[Steps[b][k]] = held[b][k]
      PROVE  file'[Steps[b][k]] = held[b][k]
  <2>1. Steps[b][k] # p
    BY <1>1, <1>3 DEF ActorSound, HeldSound, Flocked
  <2> QED
    BY <1>2, <1>3, <2>1, HeldFacts
<1>4. ASSUME pc[b] = "probeUnlink" PROVE file'[Path(b)] = file[Path(b)]
  <2>1. /\ b \in exclusive[fd[b]] /\ file[Path(b)] = fd[b]
        /\ Len(held[b]) < Len(Steps[b])
    BY <1>4 DEF ActorSound, FdSound, StillAt, LevelSound, Probing
  <2>2. Path(b) # p /\ Path(b) \in Paths
    BY <1>1, <2>1, HeldFacts
  <2> QED
    BY <1>2, <2>2
<1> QED
    BY <1>3, <1>4

\* What is true once the locked file was found at its path.
LEMMA CheckKeeps ==
    ASSUME IInv, NEW a \in Actors, Check(a)
    PROVE  IInv'
<1> USE DEF IInv
<1>1. /\ pc[a] = "check" /\ fd' = [fd EXCEPT ![a] = NoFile]
      /\ UNCHANGED <<file, claimed, errors, crashes>>
    BY DEF Check, Opens
<1>2. /\ fd[a] \in Inodes /\ \A k \in 1..Len(held[a]) : held[a][k] # fd[a]
      /\ Flocked(a, fd[a], Level(a))
    BY <1>1 DEF ActorSound, FdSound, Opened
<1>3. /\ Len(held[a]) < Len(Steps[a]) /\ Level(a) \in 1..Len(Steps[a])
      /\ Level(a) = Len(held[a]) + 1 /\ Len(held[a]) \in Nat /\ Len(Steps[a]) \in Nat
    BY <1>1, HeldFacts, StepFacts DEF ActorSound, LevelSound, Climbing, Level
<1>4. CASE StillAt(a)
  <2> DEFINE label == IF IsKey(a, Level(a)) THEN "held" ELSE "open"
             h == Append(held[a], fd[a])
  <2>1. /\ held' = [held EXCEPT ![a] = h] /\ tries' = [tries EXCEPT ![a] = 0]
        /\ pc' = [pc EXCEPT ![a] = label] /\ UNCHANGED <<shared, exclusive, after>>
    BY <1>4 DEF Check, Goto
  <2>2. /\ h \in Seq(Inodes) /\ Len(h) = Level(a) /\ h[Level(a)] = fd[a]
        /\ \A k \in 1..Len(held[a]) : h[k] = held[a][k]
    BY <1>2, <1>3, HeldFacts, AppendFacts
  <2> HIDE DEF h
  <2>3. LocksTypeOK'
    BY <1>1, <1>3, <2>1, <2>2 DEF LocksTypeOK, Labels, Retries
  <2>4. FlockSound' /\ FileAtOnePath'
    BY <1>1, <2>1 DEF FlockSound, FileAtOnePath
  <2>5. ASSUME NEW b \in Actors, b # a PROVE ActorSound(b)'
    <3>1. /\ pc'[b] = pc[b] /\ fd'[b] = fd[b] /\ held'[b] = held[b]
          /\ tries'[b] = tries[b]
      BY <1>1, <2>1, <2>5 DEF LocksTypeOK
    <3> QED
      BY <1>1, <2>1, <3>1, OthersKept
  <2>6. /\ pc'[a] = label /\ held'[a] = h /\ tries'[a] = 0 /\ fd'[a] = NoFile
    BY <1>1, <2>1 DEF LocksTypeOK
  <2>7. LevelSound(a)'
    BY <1>3, <2>2, <2>6 DEF LevelSound, Climbing, Probing, IsKey, Retries
  <2>8. FdSound(a)'
    BY <2>6 DEF FdSound, Opened
  <2>9. HeldSound(a)'
    <3>1. pc[a] # "unlock" /\ pc'[a] # "unlock"
      BY <1>1, <2>6
    <3>2. \A k \in 1..Len(h) : k \in 1..Len(held[a]) \/ k = Level(a)
      BY <1>3, <2>2
    <3>3. Flocked(a, h[Level(a)], Level(a)) /\ file[Steps[a][Level(a)]] = h[Level(a)]
      BY <1>2, <1>4, <2>2 DEF StillAt, Path
    <3>4. \A k \in 1..Len(held[a]) :
            Flocked(a, h[k], k) /\ file[Steps[a][k]] = h[k] /\ h[k] # h[Level(a)]
      BY <1>2, <2>2, <3>1 DEF ActorSound, HeldSound
    <3>5. \A j, k \in 1..Len(held[a]) : h[j] = h[k] => j = k
      BY <2>2 DEF ActorSound, HeldSound
    <3>6. \A k \in 1..Len(h) : Flocked(a, h[k], k) /\ file[Steps[a][k]] = h[k]
      BY <3>2, <3>3, <3>4
    <3>7. \A j, k \in 1..Len(h) : h[j] = h[k] => j = k
      BY <3>2, <3>4, <3>5
    <3> QED
      BY <1>1, <2>1, <2>6, <3>6, <3>7 DEF HeldSound, Flocked, IsKey
  <2> QED
    BY <2>3, <2>4, <2>5, <2>7, <2>8, <2>9 DEF ActorSound
<1>5. CASE ~StillAt(a)
  <2>1. Unflock(a, fd[a]) /\ UNCHANGED <<held, tries>>
    BY <1>5 DEF Check
  <2>2. \/ /\ tries[a] < Retries /\ pc' = [pc EXCEPT ![a] = "open"] /\ UNCHANGED after
        \/ /\ pc' = [pc EXCEPT ![a] = "drop"]
           /\ \E next \in {"failed", "retry"} : after' = [after EXCEPT ![a] = next]
    BY <1>5 DEF Check, Goto, Unwind
  <2>3. LocksTypeOK' /\ FlockSound' /\ FileAtOnePath'
    <3>1. /\ FlockSound' /\ shared' \in [Inodes -> SUBSET Actors]
          /\ exclusive' \in [Inodes -> SUBSET Actors]
      BY <1>2, <2>1, UnflockKeepsSound
    <3>2. pc' \in [Actors -> Labels]
      BY <2>2 DEF LocksTypeOK, Labels
    <3>3. after' \in [Actors -> {"none", "retry", "failed", "done"}]
      BY <1>5, <2>2 DEF LocksTypeOK, Check, Unwind
    <3> QED
      BY <1>1, <2>1, <3>1, <3>2, <3>3 DEF LocksTypeOK, FileAtOnePath
  <2>4. ASSUME NEW b \in Actors, b # a PROVE ActorSound(b)'
    <3>1. pc'[b] = pc[b] /\ fd'[b] = fd[b]
      BY <1>1, <2>2, <2>4 DEF LocksTypeOK
    <3> QED
      BY <1>1, <1>2, <2>1, <2>4, <3>1, UnflockKeepsSound, OthersKept
  <2>5. pc'[a] \in {"open", "drop"} /\ fd'[a] = NoFile /\ (pc'[a] = "open" => tries[a] < Retries)
    BY <1>1, <2>2 DEF LocksTypeOK
  <2>6. LevelSound(a)' /\ FdSound(a)'
    BY <1>3, <2>1, <2>5 DEF LevelSound, Climbing, Probing, FdSound, Opened
  <2>7. HeldSound(a)'
    BY <1>1, <1>2, <2>1, <2>5, UnflockKeepsSound, HeldFacts
        DEF ActorSound, HeldSound, Flocked, IsKey
  <2> QED
    BY <2>3, <2>4, <2>6, <2>7 DEF ActorSound
<1> QED
    BY <1>4, <1>5

\* The exclusive holder unlinks its file: of its locks only the last loses it.
LEMMA UnlinkKeeps ==
    ASSUME IInv, NEW a \in Actors, Unlink(a)
    PROVE  IInv'
<1> USE DEF IInv
<1> DEFINE p == Key(a)
           n == Len(held[a])
<1>1. /\ pc[a] = "drop" /\ n = Len(Steps[a]) /\ pc' = [pc EXCEPT ![a] = "unlock"]
      /\ file' = [file EXCEPT ![p] = NoFile]
      /\ UNCHANGED <<shared, exclusive, claimed, fd, held, tries, after, errors, crashes>>
    BY DEF Unlink, Goto, IsKey
<1>2. n \in 1..Len(held[a]) /\ p = Steps[a][n] /\ p \in Paths /\ held[a][n] \in Inodes
    BY <1>1, HeldFacts, StepFacts
<1>3. file[p] = held[a][n] /\ a \in exclusive[file[p]]
    BY <1>1, <1>2 DEF ActorSound, HeldSound, Flocked, IsKey
<1>4. LocksTypeOK'
    BY <1>1 DEF LocksTypeOK, Labels
<1>5. FlockSound' /\ FileAtOnePath'
    BY <1>1, <1>2 DEF LocksTypeOK, FlockSound, FileAtOnePath
<1>6. ASSUME NEW b \in Actors, b # a PROVE ActorSound(b)'
  <2>1. /\ \A k \in 1..Len(held[b]) :
                file[Steps[b][k]] = held[b][k] => file'[Steps[b][k]] = held[b][k]
        /\ pc[b] = "probeUnlink" => file'[Path(b)] = file[Path(b)]
    BY <1>1, <1>2, <1>3, <1>6, UnlinkLeavesOthers
  <2>2. pc'[b] = pc[b]
    BY <1>1, <1>6 DEF LocksTypeOK
  <2> QED
    BY <1>1, <2>1, <2>2, OthersKept
<1>7. pc'[a] = "unlock"
    BY <1>1 DEF LocksTypeOK
<1>8. LevelSound(a)' /\ FdSound(a)'
    BY <1>1, <1>7 DEF ActorSound, LevelSound, Climbing, Probing, FdSound, Opened
<1>9. HeldSound(a)'
  <2>1. \A k \in 1..n : k # n => file'[Steps[a][k]] = file[Steps[a][k]]
    BY <1>1, <1>2, HeldFacts, StepFacts DEF LocksTypeOK
  <2> QED
    BY <1>1, <1>7, <2>1 DEF ActorSound, HeldSound, Flocked, IsKey
<1> QED
    BY <1>4, <1>5, <1>6, <1>8, <1>9 DEF ActorSound

\* The last lock goes, the others stay.
LEMMA UnlockKeeps ==
    ASSUME IInv, NEW a \in Actors, Unlock(a)
    PROVE  IInv'
<1> USE DEF IInv
<1> DEFINE h == Front(held[a])
           n == Len(held[a])
           label == IF IsKey(a, n) THEN "drop" ELSE "probe"
<1>1. /\ held[a] # <<>> /\ Unflock(a, Last(held[a])) /\ held' = [held EXCEPT ![a] = h]
      /\ pc[a] = "unlock" \/ (pc[a] = "drop" /\ ~IsKey(a, n))
      /\ pc' = [pc EXCEPT ![a] = label]
      /\ UNCHANGED <<file, claimed, fd, tries, after, errors, crashes>>
    BY DEF Unlock, Goto
<1>2. /\ h \in Seq(Inodes) /\ Len(h) = n - 1 /\ \A k \in 1..Len(h) : h[k] = held[a][k]
      /\ Last(held[a]) = held[a][n] /\ held[a][n] \in Inodes /\ n \in Nat /\ n > 0
    BY <1>1, HeldFacts, FrontFacts
<1>3. n <= Len(Steps[a]) /\ Len(Steps[a]) \in Nat
    BY StepFacts DEF LocksTypeOK
<1> HIDE DEF h
<1>4. LocksTypeOK'
  <2>1. /\ shared' \in [Inodes -> SUBSET Actors] /\ exclusive' \in [Inodes -> SUBSET Actors]
    BY <1>1, <1>2, UnflockKeepsSound
  <2>2. held' \in [Actors -> Seq(Inodes)] /\ \A b \in Actors : Len(held'[b]) <= Len(Steps[b])
    BY <1>1, <1>2, <1>3 DEF LocksTypeOK
  <2> QED
    BY <1>1, <2>1, <2>2 DEF LocksTypeOK, Labels
<1>5. FlockSound' /\ FileAtOnePath'
    BY <1>1, <1>2, UnflockKeepsSound DEF FileAtOnePath
<1>6. ASSUME NEW b \in Actors, b # a PROVE ActorSound(b)'
  <2>1. pc'[b] = pc[b] /\ held'[b] = held[b]
    BY <1>1, <1>6 DEF LocksTypeOK
  <2> QED
    BY <1>1, <1>2, <1>6, <2>1, UnflockKeepsSound, OthersKept
<1>7. /\ pc'[a] = label /\ held'[a] = h
    BY <1>1 DEF LocksTypeOK
<1>8. LevelSound(a)'
    BY <1>2, <1>3, <1>7 DEF LevelSound, Climbing, Probing, IsKey
<1>9. FdSound(a)'
    BY <1>1, <1>7 DEF ActorSound, FdSound, Opened
<1>10. HeldSound(a)'
  <2>1. \A k \in 1..Len(h) : k \in 1..n /\ k # n
    BY <1>2
  <2>2. /\ \A k \in 1..n : /\ Flocked(a, held[a][k], k) /\ held[a][k] \in Inodes
                           /\ pc[a] # "unlock" \/ ~IsKey(a, k) => file[Steps[a][k]] = held[a][k]
        /\ \A j, k \in 1..n : held[a][j] = held[a][k] => j = k
    BY HeldFacts DEF ActorSound, HeldSound
  <2>3. n \in 1..n
    BY <1>2
  <2>4. \A k \in 1..Len(h) : ~IsKey(a, k)
    BY <1>2, <1>3 DEF IsKey
  <2> HIDE DEF n
  <2>5. \A k \in 1..Len(h) : h[k] \in Inodes /\ h[k] # held[a][n]
    BY <1>2, <2>1, <2>2, <2>3, Zenon
  <2>6. \A k \in 1..Len(h) : Flocked(a, h[k], k) /\ file[Steps[a][k]] = h[k]
    BY <1>2, <2>1, <2>2, <2>4, Zenon
  <2>7. \A k \in 1..Len(h) : a \in IF IsKey(a, k) THEN exclusive'[h[k]] ELSE shared'[h[k]]
    <3>1. Unflock(a, held[a][n])
      BY <1>1, <1>2
    <3>2. \A j \in Inodes : j # held[a][n] => /\ a \in shared[j] => a \in shared'[j]
                                              /\ a \in exclusive[j] => a \in exclusive'[j]
      BY <1>2, <3>1, UnflockKeepsSound
    <3> QED
      BY <2>5, <2>6, <3>2 DEF Flocked
  <2>8. \A j, k \in 1..Len(h) : h[j] = h[k] => j = k
    BY <1>2, <2>1, <2>2, Zenon
  <2> QED
    BY <1>1, <1>7, <2>6, <2>7, <2>8 DEF HeldSound, Flocked, IsKey
<1> QED
    BY <1>4, <1>5, <1>6, <1>8, <1>9, <1>10 DEF ActorSound

\* removeIfUnheld opens what is at the path, if anything is.
LEMMA ProbeKeeps ==
    ASSUME IInv, NEW a \in Actors, Probe(a)
    PROVE  IInv'
<1> USE DEF IInv
<1> DEFINE i == file[Path(a)]
<1>1. /\ pc[a] = "probe" /\ fd' = [fd EXCEPT ![a] = i]
      /\ pc' = [pc EXCEPT ![a] = IF i = NoFile THEN "drop" ELSE "probeLock"]
      /\ UNCHANGED <<file, shared, exclusive, claimed, held, tries, after, errors, crashes>>
    BY DEF Probe, Opens, Goto, locks
<1>2. Len(held[a]) < Len(Steps[a]) /\ Path(a) \in Paths /\ Level(a) \in 1..Len(Steps[a])
    BY <1>1, HeldFacts DEF ActorSound, LevelSound, Probing
<1>3. LocksTypeOK'
    BY <1>1, <1>2 DEF LocksTypeOK, Labels
<1>4. FlockSound' /\ FileAtOnePath'
    BY <1>1 DEF FlockSound, FileAtOnePath
<1>5. ASSUME NEW b \in Actors, b # a PROVE ActorSound(b)'
  <2>1. pc'[b] = pc[b] /\ fd'[b] = fd[b]
    BY <1>1, <1>5 DEF LocksTypeOK
  <2> QED
    BY <1>1, <2>1, OthersKept
<1>6. fd'[a] = i /\ pc'[a] = IF i = NoFile THEN "drop" ELSE "probeLock"
    BY <1>1 DEF LocksTypeOK
<1>7. LevelSound(a)'
    BY <1>1, <1>2, <1>6 DEF LevelSound, Climbing, Probing
<1>8. HeldSound(a)'
    BY <1>1, <1>6, HeldFacts DEF ActorSound, HeldSound, Flocked, IsKey
<1>9. FdSound(a)'
  <2>1. ASSUME i # NoFile, NEW k \in 1..Len(held[a]) PROVE held[a][k] # i
    <3>1. Steps[a][k] # Path(a) /\ Steps[a][k] \in Paths
      BY <1>2, HeldFacts, StepFacts DEF Path, Level
    <3>2. file[Steps[a][k]] = held[a][k]
      BY <1>1 DEF ActorSound, HeldSound
    <3> QED
      BY <1>2, <2>1, <3>1, <3>2 DEF FileAtOnePath
  <2>2. i # NoFile => i \in Inodes
    BY <1>2 DEF LocksTypeOK
  <2> HIDE DEF i
  <2> QED
    BY <1>1, <1>6, <2>1, <2>2 DEF FdSound, Opened
<1> QED
    BY <1>3, <1>4, <1>5, <1>7, <1>8, <1>9 DEF ActorSound

\* It asks for the file exclusively.
LEMMA ProbeLockKeeps ==
    ASSUME IInv, NEW a \in Actors, ProbeLock(a)
    PROVE  IInv'
<1> USE DEF IInv
<1>1. pc[a] = "probeLock" /\ UNCHANGED <<file, claimed, held, tries, after, errors, crashes>>
    BY DEF ProbeLock
<1>2. fd[a] \in Inodes /\ Len(held[a]) < Len(Steps[a])
    BY <1>1 DEF ActorSound, FdSound, LevelSound, Opened, Probing
<1>3. FileAtOnePath'
    BY <1>1 DEF FileAtOnePath
<1>4. CASE CanFlock(a, TRUE)
  <2>1. Flock(a, TRUE) /\ pc' = [pc EXCEPT ![a] = "probeCheck"] /\ UNCHANGED fd
    BY <1>4 DEF ProbeLock, Goto
  <2>2. /\ FlockSound'
        /\ shared' \in [Inodes -> SUBSET Actors] /\ exclusive' \in [Inodes -> SUBSET Actors]
        /\ a \in exclusive'[fd[a]]
        /\ \A b \in Actors : \A i \in Inodes : /\ b \in shared[i] => b \in shared'[i]
                                               /\ b \in exclusive[i] => b \in exclusive'[i]
    BY <1>2, <2>1, FlockKeepsSound
  <2>3. LocksTypeOK'
    BY <1>1, <2>1, <2>2 DEF LocksTypeOK, Labels
  <2>4. ASSUME NEW b \in Actors, b # a PROVE ActorSound(b)'
    <3>1. pc'[b] = pc[b]
      BY <2>1, <2>4 DEF LocksTypeOK
    <3> QED
      BY <1>1, <2>1, <2>2, <3>1, OthersKept
  <2>5. pc'[a] = "probeCheck"
    BY <2>1 DEF LocksTypeOK
  <2>6. LevelSound(a)'
    BY <1>1, <1>2, <2>5 DEF LevelSound, Climbing, Probing
  <2>7. HeldSound(a)'
    BY <1>1, <2>2, <2>5, HeldFacts DEF ActorSound, HeldSound, Flocked, IsKey
  <2>8. FdSound(a)'
    BY <1>1, <2>1, <2>2, <2>5 DEF ActorSound, FdSound, Opened
  <2> QED
    BY <1>3, <2>2, <2>3, <2>4, <2>6, <2>7, <2>8 DEF ActorSound
<1>5. CASE ~CanFlock(a, TRUE)
  <2>1. /\ UNCHANGED <<shared, exclusive>> /\ pc' = [pc EXCEPT ![a] = "drop"]
        /\ fd' = [fd EXCEPT ![a] = NoFile]
    BY <1>5 DEF ProbeLock, Goto, Opens
  <2>2. LocksTypeOK' /\ FlockSound'
    BY <1>1, <2>1 DEF LocksTypeOK, Labels, FlockSound
  <2>3. ASSUME NEW b \in Actors, b # a PROVE ActorSound(b)'
    <3>1. pc'[b] = pc[b] /\ fd'[b] = fd[b]
      BY <2>1, <2>3 DEF LocksTypeOK
    <3> QED
      BY <1>1, <2>1, <3>1, OthersKept
  <2>4. pc'[a] = "drop" /\ fd'[a] = NoFile
    BY <2>1 DEF LocksTypeOK
  <2>5. LevelSound(a)' /\ FdSound(a)'
    BY <2>4 DEF LevelSound, Climbing, Probing, FdSound, Opened
  <2>6. HeldSound(a)'
    BY <1>1, <2>1, <2>4, HeldFacts DEF ActorSound, HeldSound, Flocked, IsKey
  <2> QED
    BY <1>3, <2>2, <2>3, <2>5, <2>6 DEF ActorSound
<1> QED
    BY <1>4, <1>5

\* It unlinks the file only while it holds it exclusively at its path.
LEMMA ProbeUnlinkKeeps ==
    ASSUME IInv, NEW a \in Actors, ProbeUnlink(a)
    PROVE  IInv'
<1> USE DEF IInv
<1> DEFINE p == Path(a)
<1>1. /\ pc[a] = "probeUnlink" /\ pc' = [pc EXCEPT ![a] = "probeUnlock"]
      /\ file' = [file EXCEPT ![p] = NoFile]
      /\ UNCHANGED <<shared, exclusive, claimed, fd, held, tries, after, errors, crashes>>
    BY DEF ProbeUnlink, Goto
<1>2. Len(held[a]) < Len(Steps[a]) /\ p \in Paths /\ Level(a) \in 1..Len(Steps[a])
    BY <1>1, HeldFacts DEF ActorSound, LevelSound, Probing
<1>3. /\ fd[a] \in Inodes /\ file[p] = fd[a] /\ a \in exclusive[file[p]]
      /\ \A k \in 1..Len(held[a]) : held[a][k] # fd[a]
    BY <1>1 DEF ActorSound, FdSound, StillAt, Opened
<1>4. LocksTypeOK' /\ FlockSound' /\ FileAtOnePath'
    BY <1>1, <1>2 DEF LocksTypeOK, Labels, FlockSound, FileAtOnePath
<1>5. ASSUME NEW b \in Actors, b # a PROVE ActorSound(b)'
  <2>1. /\ \A k \in 1..Len(held[b]) :
                file[Steps[b][k]] = held[b][k] => file'[Steps[b][k]] = held[b][k]
        /\ pc[b] = "probeUnlink" => file'[Path(b)] = file[Path(b)]
    BY <1>1, <1>2, <1>3, <1>5, UnlinkLeavesOthers
  <2>2. pc'[b] = pc[b]
    BY <1>1, <1>5 DEF LocksTypeOK
  <2> QED
    BY <1>1, <2>1, <2>2, OthersKept
<1>6. pc'[a] = "probeUnlock"
    BY <1>1 DEF LocksTypeOK
<1>7. LevelSound(a)' /\ FdSound(a)'
    BY <1>1, <1>2, <1>6 DEF ActorSound, LevelSound, Climbing, Probing, FdSound, Opened
<1>8. HeldSound(a)'
  <2>1. \A k \in 1..Len(held[a]) : Steps[a][k] # p /\ Steps[a][k] \in Paths
    BY <1>2, HeldFacts, StepFacts DEF Path, Level
  <2>2. \A k \in 1..Len(held[a]) : file'[Steps[a][k]] = file[Steps[a][k]]
    BY <1>1, <2>1 DEF LocksTypeOK
  <2> QED
    BY <1>1, <1>6, <2>2 DEF ActorSound, HeldSound, Flocked, IsKey
<1> QED
    BY <1>4, <1>5, <1>7, <1>8 DEF ActorSound

\* It closes what it opened, which drops the lock on that.
LEMMA ProbeUnlockKeeps ==
    ASSUME IInv, NEW a \in Actors, ProbeUnlock(a)
    PROVE  IInv'
<1> USE DEF IInv
<1>1. /\ pc[a] = "probeUnlock" /\ pc' = [pc EXCEPT ![a] = "drop"]
      /\ Unflock(a, fd[a]) /\ fd' = [fd EXCEPT ![a] = NoFile]
      /\ UNCHANGED <<file, claimed, held, tries, after, errors, crashes>>
    BY DEF ProbeUnlock, Goto, Opens
<1>2. fd[a] \in Inodes /\ \A k \in 1..Len(held[a]) : held[a][k] # fd[a]
    BY <1>1 DEF ActorSound, FdSound, Opened
<1>3. /\ FlockSound'
      /\ shared' \in [Inodes -> SUBSET Actors] /\ exclusive' \in [Inodes -> SUBSET Actors]
      /\ \A b \in Actors : \A i \in Inodes : b # a \/ i # fd[a] =>
            /\ b \in shared[i] => b \in shared'[i]
            /\ b \in exclusive[i] => b \in exclusive'[i]
    BY <1>1, <1>2, UnflockKeepsSound
<1>4. LocksTypeOK' /\ FileAtOnePath'
    BY <1>1, <1>3 DEF LocksTypeOK, Labels, FileAtOnePath
<1>5. ASSUME NEW b \in Actors, b # a PROVE ActorSound(b)'
  <2>1. pc'[b] = pc[b] /\ fd'[b] = fd[b]
    BY <1>1, <1>5 DEF LocksTypeOK
  <2> QED
    BY <1>1, <1>3, <1>5, <2>1, OthersKept
<1>6. pc'[a] = "drop" /\ fd'[a] = NoFile
    BY <1>1 DEF LocksTypeOK
<1>7. LevelSound(a)' /\ FdSound(a)'
    BY <1>6 DEF LevelSound, Climbing, Probing, FdSound, Opened
<1>8. HeldSound(a)'
    BY <1>1, <1>2, <1>3, <1>6, HeldFacts DEF ActorSound, HeldSound, Flocked, IsKey
<1> QED
    BY <1>3, <1>4, <1>5, <1>7, <1>8 DEF ActorSound

\* The kernel drops the locks of a process that died, and no other.
LEMMA CrashKeeps ==
    ASSUME IInv, NEW pr, Crash(pr)
    PROVE  IInv'
<1> USE DEF IInv
<1> DEFINE dead == {a \in Actors : Proc[a] = pr}
<1>1. /\ crashes < MaxCrashes /\ crashes' = crashes + 1
      /\ pc' = [a \in Actors |-> IF a \in dead THEN "crashed" ELSE pc[a]]
      /\ fd' = [a \in Actors |-> IF a \in dead THEN NoFile ELSE fd[a]]
      /\ held' = [a \in Actors |-> IF a \in dead THEN <<>> ELSE held[a]]
      /\ shared' = [i \in Inodes |-> shared[i] \ dead]
      /\ exclusive' = [i \in Inodes |-> exclusive[i] \ dead]
      /\ claimed' = claimed \ dead /\ UNCHANGED <<file, tries, after, errors>>
    BY DEF Crash, LocksAfter
<1>2. <<>> \in Seq(Inodes) /\ Len(<<>>) = 0
    BY EmptySeq
<1> HIDE DEF dead
<1>3. LocksTypeOK'
  <2>1. held' \in [Actors -> Seq(Inodes)]
    BY <1>1, <1>2 DEF LocksTypeOK
  <2>2. \A a \in Actors : Len(held'[a]) <= Len(Steps[a])
    BY <1>1, <1>2, StepFacts DEF LocksTypeOK
  <2>3. crashes' \in 0..MaxCrashes
    BY <1>1, PathLocksAssumption DEF LocksTypeOK
  <2>4. /\ pc' \in [Actors -> Labels] /\ fd' \in [Actors -> Inodes \union {NoFile}]
        /\ claimed' \subseteq Actors
    BY <1>1 DEF LocksTypeOK, Labels
  <2>5. shared' \in [Inodes -> SUBSET Actors] /\ exclusive' \in [Inodes -> SUBSET Actors]
    BY <1>1 DEF LocksTypeOK
  <2> QED
    BY <1>1, <2>1, <2>2, <2>3, <2>4, <2>5 DEF LocksTypeOK
<1>4. FlockSound' /\ FileAtOnePath'
    BY <1>1 DEF FlockSound, FileAtOnePath
<1>5. ASSUME NEW b \in Actors, b \notin dead PROVE ActorSound(b)'
    BY <1>1, <1>5, OthersKept
<1>6. ASSUME NEW b \in Actors, b \in dead PROVE ActorSound(b)'
  <2>1. pc'[b] = "crashed" /\ held'[b] = <<>> /\ fd'[b] = NoFile
    BY <1>1, <1>6
  <2> QED
    BY <1>2, <2>1 DEF ActorSound, LevelSound, Climbing, Probing, HeldSound, FdSound, Opened
<1> QED
    BY <1>3, <1>4, <1>5, <1>6

LEMMA IInvStep == IInv /\ [LocksNext]_lockVars => IInv'
<1> SUFFICES ASSUME IInv, [LocksNext]_lockVars PROVE IInv'
    OBVIOUS
<1>1. ASSUME NEW a \in Actors, Take(a) \/ Drop(a) \/ GiveUp(a) PROVE IInv'
    BY <1>1, QuietStepKeeps, OpenKeeps, TryFlockKeeps, CheckKeeps, UnlinkKeeps,
       UnlockKeeps, ProbeKeeps, ProbeLockKeeps, ProbeUnlinkKeeps, ProbeUnlockKeeps
       DEF Take, Drop, GiveUp, QuietStep
<1>2. ASSUME NEW pr, Crash(pr) PROVE IInv'
    BY <1>2, CrashKeeps
<1>3. CASE UNCHANGED lockVars
  <2>1. LocksTypeOK' /\ FlockSound' /\ FileAtOnePath'
    BY <1>3 DEF IInv, LocksTypeOK, FlockSound, FileAtOnePath, lockVars, locks
  <2>2. \A a \in Actors : ActorSound(a)'
    BY <1>3, OthersKept DEF IInv, lockVars, locks
  <2> QED
    BY <2>1, <2>2 DEF IInv
<1> QED
    BY <1>1, <1>2, <1>3 DEF LocksNext

LEMMA IInvInvariant == LocksSpec => []IInv
BY InitIInv, IInvStep, PTL DEF LocksSpec

-----------------------------------------------------------------------------
\* What the locks promise.

\* The state of the claims keeps its types; nobody holds more lock files than
\* its claim has steps, and no step is tried more often than lockStaleRetry.
THEOREM TypeCorrect == LocksSpec => []LocksTypeOK
<1>1. IInv => LocksTypeOK
    BY DEF IInv
<1> QED
    BY <1>1, IInvInvariant, PTL

\* Who holds a claim has its own path exclusively and every ancestor shared, on
\* the files that are there now: two that overlap cannot both hold theirs.
HoldersApart ==
    \A a, b \in Actors : a # b /\ pc[a] = "held" /\ pc[b] = "held" => ~Overlaps(a, b)

LEMMA HoldersAreApart == IInv => HoldersApart
<1> SUFFICES ASSUME IInv, NEW a \in Actors, NEW b \in Actors, a # b,
                    pc[a] = "held", pc[b] = "held"
             PROVE  ~Overlaps(a, b)
    BY DEF HoldersApart
<1> USE DEF IInv
<1>1. ASSUME NEW c \in Actors, NEW d \in Actors, c # d, pc[c] = "held", pc[d] = "held"
      PROVE  Key(c) \notin ToSet(Steps[d])
  <2> SUFFICES ASSUME Key(c) \in ToSet(Steps[d]) PROVE FALSE
    OBVIOUS
  <2>1. Len(held[c]) = Len(Steps[c]) /\ Len(held[d]) = Len(Steps[d])
    BY <1>1 DEF ActorSound, LevelSound
  <2>2. PICK k \in 1..Len(Steps[d]) : Steps[d][k] = Key(c)
    <3>1. DOMAIN Steps[d] = 1..Len(Steps[d])
      BY PathLocksAssumption, LenProperties
    <3> QED
      BY <3>1 DEF ToSet
  <2> DEFINE n == Len(Steps[c])
  <2>3. n \in 1..Len(held[c]) /\ k \in 1..Len(held[d])
    BY <2>1, StepFacts
  <2>4. file[Key(c)] = held[c][n] /\ c \in exclusive[held[c][n]] /\ held[c][n] \in Inodes
    BY <1>1, <2>3, StepFacts, HeldFacts DEF ActorSound, HeldSound, Flocked, IsKey
  <2>5. file[Key(c)] = held[d][k] /\ d \in exclusive[held[d][k]] \union shared[held[d][k]]
    BY <1>1, <2>2, <2>3 DEF ActorSound, HeldSound, Flocked
  <2> QED
    BY <1>1, <2>4, <2>5 DEF FlockSound
<1> QED
    BY <1>1 DEF Overlaps

Holders == {a \in Actors : pc[a] = "held"}

\* A step grants one claim, drops some, or is invisible to Claims.
LEMMA ClaimsStep ==
    ASSUME IInv, HoldersApart', [LocksNext]_lockVars
    PROVE  [AsClaims!Next]_Holders
<1> USE DEF IInv, Holders
<1>1. ASSUME NEW a \in Actors, Check(a) PROVE AsClaims!Next \/ Holders' = Holders
  <2>1. PICK label \in {"held", "open", "drop"} : pc' = [pc EXCEPT ![a] = label]
    BY <1>1 DEF Check, Goto, Unwind
  <2>2. pc[a] = "check" /\ pc[a] # "held"
    BY <1>1 DEF Check
  <2>3. CASE label = "held"
    <3>1. a \notin Holders /\ Holders' = Holders \union {a}
      BY <2>1, <2>2, <2>3 DEF LocksTypeOK
    <3>2. \A b \in Holders : ~Overlaps(a, b)
      <4> SUFFICES ASSUME NEW b \in Holders PROVE ~Overlaps(a, b)
        OBVIOUS
      <4>1. b \in Actors /\ b # a /\ pc'[a] = "held" /\ pc'[b] = "held"
        BY <2>1, <2>2, <2>3 DEF LocksTypeOK
      <4> QED
        BY <4>1 DEF HoldersApart, Overlaps, Key
    <3> QED
      BY <3>1, <3>2 DEF AsClaims!Next, AsClaims!Grant
  <2>4. CASE label # "held"
    BY <2>1, <2>2, <2>4 DEF LocksTypeOK
  <2> QED
    BY <2>3, <2>4
<1>2. ASSUME Holders' \subseteq Holders PROVE AsClaims!Next \/ Holders' = Holders
  <2> HIDE DEF Holders
  <2> DEFINE gone == Holders \ Holders'
  <2>1. CASE gone # {}
    <3>1. gone \in SUBSET Holders /\ Holders' = Holders \ gone
      BY <1>2
    <3>2. \E g \in SUBSET Holders : g # {} /\ Holders' = Holders \ g
      BY <2>1, <3>1
    <3> QED
      BY <3>2 DEF AsClaims!Next, AsClaims!Drop, Holders
  <2>2. CASE gone = {}
    BY <1>2, <2>2
  <2> QED
    BY <2>1, <2>2
<1>3. ASSUME NEW a \in Actors, NEW label \in Labels, label # "held",
             pc' = [pc EXCEPT ![a] = label]
      PROVE  Holders' \subseteq Holders
    BY <1>3 DEF LocksTypeOK
<1>4. ASSUME NEW a \in Actors, Take(a) \/ Drop(a) \/ GiveUp(a), ~Check(a)
      PROVE  Holders' \subseteq Holders
  <2>1. CASE GiveUpPolling(a) \/ CallEnds(a)
    BY <2>1 DEF GiveUpPolling, CallEnds, Unclaim, LocksTypeOK
  <2>2. CASE ~(GiveUpPolling(a) \/ CallEnds(a))
    <3>1. \E label \in Labels : label # "held" /\ pc' = [pc EXCEPT ![a] = label]
      BY <1>4, <2>2 DEF Take, Drop, GiveUp, Claim, OpenFile, TryFlock, Poll, Release, Unlink,
        Unlock, Probe, ProbeLock, ProbeCheck, ProbeUnlink, ProbeUnlock, GiveUpTable,
        OpenFails, Unwind, Goto, Labels
    <3> QED
      BY <1>3, <3>1
  <2> QED
    BY <2>1, <2>2
<1>5. ASSUME NEW pr, Crash(pr) PROVE Holders' \subseteq Holders
    BY <1>5 DEF Crash
<1>6. CASE UNCHANGED lockVars
    BY <1>6 DEF lockVars
<1> QED
    BY <1>1, <1>2, <1>4, <1>5, <1>6 DEF LocksNext

\* Lock files, process tables, polling and crashes implement Claims: for every
\* set of callers and processes a claim is granted only while no overlapping
\* one is held (lock.go:17).
THEOREM ClaimsImplemented == LocksSpec => ImplementsClaims
<1>1. LocksInit => AsClaims!Init
    BY DEF LocksInit, AsClaims!Init
<1>2. IInv /\ HoldersApart' /\ [LocksNext]_lockVars => [AsClaims!Next]_{a \in Actors : pc[a] = "held"}
    BY ClaimsStep DEF Holders
<1> QED
    BY <1>1, <1>2, HoldersAreApart, IInvInvariant, PTL DEF LocksSpec, ImplementsClaims, AsClaims!Spec

\* Two overlapping claims are never held together, in one process or in two
\* (lock.go:17): an exclusive flock on the file of a path excludes the flocks
\* every claim below it takes there.
THEOREM OverlapExcluded == LocksSpec => []HoldersApart
BY HoldersAreApart, IInvInvariant, PTL
=============================================================================
