------------------------------ MODULE PathLocks ------------------------------
(***************************************************************************)
(* The claims of internal/publish: Lock, TryLock and Hold.Release.         *)
(* A claim is first recorded in its process's table, then flocked file by  *)
(* file: shared on every ancestor, outermost first, exclusive on its own   *)
(* path. Lock files are opened or created on the way in and unlinked on    *)
(* the way out, so a lock may be on a file that is no longer at its path.  *)
(*                                                                         *)
(* An operator marked "Fault" is a plausible bug in the definition after   *)
(* it.  No specification uses it; it shows what a property can detect.     *)
(***************************************************************************)
EXTENDS Naturals, Sequences, FiniteSets, SequencesExt

CONSTANTS
    Actors,     \* one Lock or TryLock call each, with its Release
    Proc,       \* the process each actor runs in
    Steps,      \* claimSteps of each actor: its ancestors, then its own path
    Trying,     \* the actors that call TryLock
    Casts,      \* the sets of actors whose calls meet in one behaviour
    Inodes,     \* bound on the lock files that exist at one time
    MaxErrors,  \* bound on lock files that cannot be opened
    MaxCrashes, \* bound on processes that die
    NoFile

Paths == UNION {ToSet(Steps[a]) : a \in Actors}

\* No path is twice among the steps of a claim: nobody claims the root of the
\* file system, the only path that is its own ancestor.
ASSUME PathLocksAssumption ==
    /\ \A a \in Actors : /\ Steps[a] \in Seq(ToSet(Steps[a])) /\ Steps[a] # <<>>
                         /\ \A j, k \in 1..Len(Steps[a]) :
                                Steps[a][j] = Steps[a][k] => j = k
    /\ Trying \subseteq Actors /\ Casts \subseteq SUBSET Actors
    /\ IsFiniteSet(Actors) /\ IsFiniteSet(Inodes) /\ NoFile \notin Inodes
    /\ Cardinality(Inodes) >= Cardinality(Paths) + Cardinality(Actors)
    /\ MaxErrors \in Nat /\ MaxCrashes \in Nat

VARIABLES
    file,     \* the inode at each lock path, or NoFile
    shared,   \* who flocks each inode shared
    exclusive,\* who flocks each inode exclusively
    claimed,  \* claimTable.held of all processes: the actors recorded
    pc, fd,   \* fd: the file an actor has open beyond those it holds
    held,     \* pathLock.held: the inodes of the locks taken, outermost first
    tries,    \* attempts of tryLockFile on this step
    after,    \* where release leads to
    errors, crashes

locks == <<file, shared, exclusive>>
lockVars == <<locks, claimed, pc, fd, held, tries, after, errors, crashes>>

Key(a) == Last(Steps[a])
\* overlaps: the same path, or one an ancestor of the other.
Overlaps(a, b) == Key(a) \in ToSet(Steps[b]) \/ Key(b) \in ToSet(Steps[a])

LocksInit ==
    /\ file = [p \in Paths |-> NoFile]
    /\ shared = [i \in Inodes |-> {}] /\ exclusive = [i \in Inodes |-> {}]
    /\ claimed = {}
    /\ \E cast \in Casts : pc = [a \in Actors |-> IF a \in cast THEN "call" ELSE "done"]
    /\ fd = [a \in Actors |-> NoFile] /\ held = [a \in Actors |-> <<>>]
    /\ tries = [a \in Actors |-> 0] /\ after = [a \in Actors |-> "none"]
    /\ errors = 0 /\ crashes = 0

Goto(a, label) == pc' = [pc EXCEPT ![a] = label]
Opens(a, i) == fd' = [fd EXCEPT ![a] = i]
\* The step an actor takes next, or has just dropped, and its path.
Level(a) == Len(held[a]) + 1
Path(a) == Steps[a][Level(a)]
IsKey(a, k) == k = Len(Steps[a])
\* An inode nothing names and nobody has open.
Unused == Inodes \ ({file[p] : p \in Paths} \union {fd[a] : a \in Actors}
                      \union UNION {ToSet(held[a]) : a \in Actors})

-----------------------------------------------------------------------------
\* The table of the process.

Rivals(a) == {b \in claimed \ {a} : Proc[b] = Proc[a] /\ Overlaps(a, b)}

\* tryClaimOrWait: record the claim, or wait for changed, or (TryLock) give up.
Claim(a) ==
    /\ pc[a] = "call"
    /\ IF Rivals(a) = {} THEN claimed' = claimed \union {a} /\ Goto(a, "open")
       ELSE Goto(a, IF a \in Trying THEN "done" ELSE "parked") /\ UNCHANGED claimed
    /\ UNCHANGED <<locks, fd, held, tries, after, errors, crashes>>

\* The context ends while the claim waits for the table.
GiveUpTable(a) ==
    /\ pc[a] = "parked" /\ Goto(a, "done")
    /\ UNCHANGED <<locks, claimed, fd, held, tries, after, errors, crashes>>

\* Fault: changed is not closed.
WokenNone(a) == {}

\* Who sleeps on the channel a release closes.
Woken(a) == {b \in Actors : pc[b] = "parked" /\ Proc[b] = Proc[a]}

\* claimTable.release: the call ends and every waiter looks again.
Unclaim(a) ==
    /\ claimed' = claimed \ {a}
    /\ pc' = [b \in Actors |-> IF b = a THEN "done"
                               ELSE IF b \in Woken(a) THEN "call" ELSE pc[b]]

-----------------------------------------------------------------------------
\* tryPathLock: one lock file after the other.

\* os.OpenFile with O_CREATE.
OpenFile(a) ==
    /\ pc[a] = "open"
    /\ LET fresh == CHOOSE i \in Unused : TRUE IN
       IF file[Path(a)] # NoFile THEN Opens(a, file[Path(a)]) /\ UNCHANGED file
       ELSE Opens(a, fresh) /\ file' = [file EXCEPT ![Path(a)] = fresh]
    /\ tries' = [tries EXCEPT ![a] = @ + 1]
    /\ Goto(a, "flock")
    /\ UNCHANGED <<shared, exclusive, claimed, held, after, errors, crashes>>

\* Release what was taken, innermost first, then go on to next.
Unwind(a, next) == Goto(a, "drop") /\ after' = [after EXCEPT ![a] = next]

OpenFails(a) ==
    /\ pc[a] = "open" /\ errors < MaxErrors /\ errors' = errors + 1
    /\ Unwind(a, "failed")
    /\ UNCHANGED <<locks, claimed, fd, held, tries, crashes>>

Flock(a, ex) ==
    LET i == fd[a] IN
    /\ exclusive[i] = {} /\ (ex => shared[i] = {})
    /\ IF ex THEN exclusive' = [exclusive EXCEPT ![i] = {a}] /\ UNCHANGED shared
       ELSE shared' = [shared EXCEPT ![i] = @ \union {a}] /\ UNCHANGED exclusive
CanFlock(a, ex) == exclusive[fd[a]] = {} /\ (ex => shared[fd[a]] = {})
Unflock(a, i) ==
    /\ shared' = [shared EXCEPT ![i] = @ \ {a}]
    /\ exclusive' = [exclusive EXCEPT ![i] = @ \ {a}]

\* tryFlock: refused at once when anyone holds the file against it.
TryFlock(a) ==
    /\ pc[a] = "flock"
    /\ IF CanFlock(a, IsKey(a, Level(a)))
       THEN /\ Flock(a, IsKey(a, Level(a))) /\ Goto(a, "check")
            /\ UNCHANGED <<fd, after>>
       ELSE /\ Opens(a, NoFile)
            /\ Unwind(a, IF a \in Trying THEN "failed" ELSE "retry")
            /\ UNCHANGED <<shared, exclusive>>
    /\ UNCHANGED <<file, claimed, held, tries, errors, crashes>>

\* Fault: a locked file counts wherever it is.
LockedIsEnough(a) == TRUE

\* The locked file is still the one at its path.
StillAt(a) == file[Path(a)] = fd[a]

Retries == 2  \* lockStaleRetry

\* The lock counts; or the file was replaced and the step starts over.
Check(a) ==
    /\ pc[a] = "check" /\ Opens(a, NoFile)
    /\ IF StillAt(a)
       THEN /\ held' = [held EXCEPT ![a] = Append(@, fd[a])]
            /\ tries' = [tries EXCEPT ![a] = 0]
            /\ Goto(a, IF IsKey(a, Level(a)) THEN "held" ELSE "open")
            /\ UNCHANGED <<shared, exclusive, after>>
       ELSE /\ Unflock(a, fd[a]) /\ UNCHANGED <<held, tries>>
            /\ IF tries[a] < Retries THEN Goto(a, "open") /\ UNCHANGED after
               ELSE Unwind(a, IF a \in Trying THEN "failed" ELSE "retry")
    /\ UNCHANGED <<file, claimed, errors, crashes>>

\* Hold.Release: the caller is done with its destination.
Release(a) ==
    /\ pc[a] = "held" /\ Unwind(a, "done")
    /\ UNCHANGED <<locks, claimed, fd, held, tries, errors, crashes>>

-----------------------------------------------------------------------------
\* pathLock.release, the last lock first.

\* An exclusive holder unlinks its file before it unlocks it.
Unlink(a) ==
    /\ pc[a] = "drop" /\ IsKey(a, Len(held[a]))
    /\ file' = [file EXCEPT ![Key(a)] = NoFile]
    /\ Goto(a, "unlock")
    /\ UNCHANGED <<shared, exclusive, claimed, fd, held, tries, after, errors, crashes>>

\* The exclusive lock is dropped after its file; a shared one at once.
Unlock(a) ==
    /\ held[a] # <<>>
    /\ pc[a] = "unlock" \/ (pc[a] = "drop" /\ ~IsKey(a, Len(held[a])))
    /\ Unflock(a, Last(held[a])) /\ held' = [held EXCEPT ![a] = Front(@)]
    /\ Goto(a, IF IsKey(a, Len(held[a])) THEN "drop" ELSE "probe")
    /\ UNCHANGED <<file, claimed, fd, tries, after, errors, crashes>>

\* removeIfUnheld: open what is at the path, if anything is.
Probe(a) ==
    /\ pc[a] = "probe"
    /\ Opens(a, file[Path(a)])
    /\ Goto(a, IF file[Path(a)] = NoFile THEN "drop" ELSE "probeLock")
    /\ UNCHANGED <<locks, claimed, held, tries, after, errors, crashes>>

\* Whoever takes the file exclusively knows that nobody holds it.
ProbeLock(a) ==
    /\ pc[a] = "probeLock"
    /\ IF CanFlock(a, TRUE)
       THEN Flock(a, TRUE) /\ Goto(a, "probeCheck") /\ UNCHANGED fd
       ELSE Opens(a, NoFile) /\ Goto(a, "drop") /\ UNCHANGED <<shared, exclusive>>
    /\ UNCHANGED <<file, claimed, held, tries, after, errors, crashes>>

ProbeCheck(a) ==
    /\ pc[a] = "probeCheck"
    /\ Goto(a, IF StillAt(a) THEN "probeUnlink" ELSE "probeUnlock")
    /\ UNCHANGED <<locks, claimed, fd, held, tries, after, errors, crashes>>

ProbeUnlink(a) ==
    /\ pc[a] = "probeUnlink"
    /\ file' = [file EXCEPT ![Path(a)] = NoFile]
    /\ Goto(a, "probeUnlock")
    /\ UNCHANGED <<shared, exclusive, claimed, fd, held, tries, after, errors, crashes>>

ProbeUnlock(a) ==
    /\ pc[a] = "probeUnlock"
    /\ Unflock(a, fd[a])
    /\ Opens(a, NoFile) /\ Goto(a, "drop")
    /\ UNCHANGED <<file, claimed, held, tries, after, errors, crashes>>

\* All dropped: acquirePathLock polls again ...
Poll(a) ==
    /\ pc[a] = "drop" /\ held[a] = <<>> /\ after[a] = "retry"
    /\ Goto(a, "open") /\ tries' = [tries EXCEPT ![a] = 0]
    /\ UNCHANGED <<locks, claimed, fd, held, after, errors, crashes>>

\* ... or its context is done, or the call is over.
GiveUpPolling(a) ==
    /\ pc[a] = "drop" /\ held[a] = <<>> /\ after[a] = "retry"
    /\ Unclaim(a) /\ after' = [after EXCEPT ![a] = "failed"]
    /\ UNCHANGED <<locks, fd, held, tries, errors, crashes>>

CallEnds(a) ==
    /\ pc[a] = "drop" /\ held[a] = <<>> /\ after[a] # "retry"
    /\ Unclaim(a)
    /\ UNCHANGED <<locks, fd, held, tries, after, errors, crashes>>

-----------------------------------------------------------------------------
\* The kernel drops the flocks of a process that died.
LocksAfter(dead, who) == who \ dead

\* A process dies: its actors and its table are gone, the files stay.
Crash(pr) ==
    LET dead == {a \in Actors : Proc[a] = pr} IN
    /\ crashes < MaxCrashes /\ crashes' = crashes + 1
    /\ \E a \in dead : pc[a] \notin {"done", "crashed"}
    /\ pc' = [a \in Actors |-> IF a \in dead THEN "crashed" ELSE pc[a]]
    /\ fd' = [a \in Actors |-> IF a \in dead THEN NoFile ELSE fd[a]]
    /\ held' = [a \in Actors |-> IF a \in dead THEN <<>> ELSE held[a]]
    /\ shared' = [i \in Inodes |-> LocksAfter(dead, shared[i])]
    /\ exclusive' = [i \in Inodes |-> LocksAfter(dead, exclusive[i])]
    /\ claimed' = claimed \ dead
    /\ UNCHANGED <<file, tries, after, errors>>

Take(a) == Claim(a) \/ OpenFile(a) \/ TryFlock(a) \/ Check(a) \/ Poll(a)
Drop(a) ==
    \/ Release(a) \/ Unlink(a) \/ Unlock(a) \/ CallEnds(a)
    \/ Probe(a) \/ ProbeLock(a) \/ ProbeCheck(a) \/ ProbeUnlink(a) \/ ProbeUnlock(a)
GiveUp(a) == GiveUpTable(a) \/ GiveUpPolling(a) \/ OpenFails(a)

LocksNext ==
    \/ \E a \in Actors : Take(a) \/ Drop(a) \/ GiveUp(a)
    \/ \E pr \in {Proc[a] : a \in Actors} : Crash(pr)

\* Every thread goes on and every holder releases; a context need not end.
LocksSpec ==
    /\ LocksInit /\ [][LocksNext]_lockVars
    /\ \A a \in Actors : WF_lockVars(Take(a) \/ Drop(a))

-----------------------------------------------------------------------------
\* Properties.

Labels ==
    {"call", "parked", "open", "flock", "check", "held", "drop", "unlock", "probe",
     "probeLock", "probeCheck", "probeUnlink", "probeUnlock", "done", "crashed"}

\* The type of every variable; nobody holds more locks than its claim has steps,
\* nor tries a lock file more often than lockStaleRetry (lock_unix.go:38).
LocksTypeOK ==
    /\ file \in [Paths -> Inodes \union {NoFile}]
    /\ shared \in [Inodes -> SUBSET Actors] /\ exclusive \in [Inodes -> SUBSET Actors]
    /\ claimed \subseteq Actors
    /\ pc \in [Actors -> Labels]
    /\ fd \in [Actors -> Inodes \union {NoFile}]
    /\ held \in [Actors -> Seq(Inodes)]
    /\ \A a \in Actors : Len(held[a]) <= Len(Steps[a])
    /\ tries \in [Actors -> 0..Retries]
    /\ after \in [Actors -> {"none", "retry", "failed", "done"}]
    /\ errors \in 0..MaxErrors /\ crashes \in 0..MaxCrashes

\* A Hold is a claim as Claims describes it, table, lock files and polling
\* hidden: nothing is granted against a holder, in no order of their steps
\* (lock.go:17).
AsClaims == INSTANCE Claims WITH
    Claimants <- Actors, Conflict <- Overlaps,
    holders <- {a \in Actors : pc[a] = "held"}
ImplementsClaims == AsClaims!Spec

\* Every call returns, with its claim or without, although claims are polled
\* for, taken all or none, and processes die (lock_unix.go:20).
EveryCallReturns == \A a \in Actors : <>(pc[a] \in {"done", "crashed"})

=============================================================================
