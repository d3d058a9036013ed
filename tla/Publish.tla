------------------------------- MODULE Publish -------------------------------
(***************************************************************************)
(* Publication of a tree or a file at one destination (internal/publish):  *)
(* Staged.Commit, Remove and Recover, by processes that may crash at any   *)
(* step. The destination's lock is a mutex here; PathLocks is how it is    *)
(* built. A rename, an exchange and an unlink are one step each; deleting  *)
(* a tree is two (torn, then gone), for it is not atomic, and it goes on   *)
(* in the directory it has opened, wherever that is renamed.               *)
(*                                                                         *)
(* An operator marked "Fault" is a plausible bug in the definition after   *)
(* it.  No specification uses it; it shows what a property can detect.     *)
(***************************************************************************)
EXTENDS Naturals, FiniteSets

CONSTANTS
    Committers,   \* processes that stage content and commit it; also its digest
    Files,        \* the committers whose content is a regular file
    Removers,     \* processes that call Remove
    Recoverers,   \* processes that call Recover or PlanRecover
    Casts,        \* the sets of processes whose calls meet in one behaviour
    Planned,      \* Evidence.Replacement, a committer's digest or None
    Exchange,     \* what exchange() may answer on this platform
    Displaceable, \* a commit on an ancestor may move the whole directory away
    MaxNames,     \* bound on the staging names ever made
    MaxFaults,    \* bound on renames that fail for no reason of this protocol
    MaxCrashes,   \* bound on crashes
    None,         \* nothing at a path; no name; nobody
    Original,     \* the digest the destination held when all began
    Torn          \* a tree half filled or half deleted

Procs == Committers \union Removers \union Recoverers
\* What inspectLeftovers notes of an entry it has no digest of.
Marks == {"listed", "live", "unknown"}

ASSUME PublishAssumption ==
    /\ Files \subseteq Committers
    /\ Committers \intersect Removers = {}
    /\ (Committers \union Removers) \intersect Recoverers = {}
    /\ Casts \subseteq SUBSET Procs
    /\ Planned \in Committers \union {None}
    /\ Exchange \subseteq BOOLEAN /\ Exchange # {}
    /\ Displaceable \in BOOLEAN
    /\ {MaxNames, MaxFaults, MaxCrashes} \subseteq Nat
    /\ None # Original /\ None # Torn /\ Original # Torn
    /\ {None, Original, Torn} \intersect Procs = {} /\ None \notin Nat
    /\ Marks \intersect (Procs \union {None, Original, Torn}) = {}

VARIABLES
    dest,      \* what is at the destination
    beside,    \* what is at each staging name beside it
    made,      \* staging names made so far; names are random and never recur
    follows,   \* where the tree is now that a Recover renamed back while a process
               \* was deleting it, or None
    lock,      \* holder of the destination's claim, or None
    lease,     \* holder of each staging name's lease, or None
    pc,        \* where each process stands
    temp,      \* Staged.temp, or None before staging and once spent
    replaced,  \* where a commit moved the old entry, or None
    doomed,    \* names a process will delete, after release for Commit and Remove
    found,     \* leftovers as Recover inspected them: name -> digest
    verdict,   \* how each process's call ends
    accepted,  \* the original may go: superseded, removed or recovered past
    faults, crashes, displaced

files == <<dest, beside, made, follows>>
coord == <<lock, lease>>
local == <<temp, replaced, doomed, found, verdict>>
luck == <<faults, crashes, displaced>>
vars == <<files, coord, pc, local, accepted, luck>>

Names == 1..MaxNames
Dest == 0   \* The destination, as a place.
Content == {None, Original, Torn} \union Committers
IsDir(x) == x \notin Files \union {None}
\* What digests to a tree nobody planned matches nothing.
IsPlanned(x) == x = Original \/ (x = Planned /\ x \notin Files \union {None})

Init ==
    /\ dest = Original /\ beside = [n \in Names |-> None] /\ made = 0
    /\ follows = [p \in Procs |-> None]
    /\ lock = None /\ lease = [n \in Names |-> None]
    /\ \E cast \in Casts :
         pc = [p \in Procs |-> IF p \notin cast THEN "done"
                               ELSE IF p \in Committers THEN "stage" ELSE "wait"]
    /\ temp = [p \in Procs |-> None] /\ replaced = [p \in Procs |-> None]
    /\ doomed = [p \in Procs |-> {}] /\ found = [p \in Procs |-> <<>>]
    /\ verdict = [p \in Procs |-> "none"]
    /\ accepted = FALSE /\ faults = 0 /\ crashes = 0 /\ displaced = FALSE

Goto(p, label) == pc' = [pc EXCEPT ![p] = label]
Ends(p, v) == verdict' = [verdict EXCEPT ![p] = v]
\* stagingName: a fresh name.
Fresh == made + 1
MakeName == made < MaxNames /\ made' = Fresh
\* What is at a place.
ContentAt(x) == IF x = Dest THEN dest ELSE beside[x]
\* What was at one place is at the other: an open directory moves with its name.
Carries(x, y) ==
    follows' = [p \in Procs |-> IF follows[p] = x THEN y
                                ELSE IF follows[p] = y THEN x ELSE follows[p]]
\* A rename fails: permission, a full disk, a vanished directory.
Fault == faults < MaxFaults /\ faults' = faults + 1 /\ UNCHANGED <<crashes, displaced>>

-----------------------------------------------------------------------------
\* Staging, without the lock.

\* createStagingDir, createStagingFile: the entry exists before it is leased.
Stage(p) ==
    /\ pc[p] = "stage" /\ MakeName
    /\ beside' = [beside EXCEPT ![Fresh] = Torn]
    /\ temp' = [temp EXCEPT ![p] = Fresh]
    /\ Goto(p, "own")
    /\ UNCHANGED <<dest, follows, coord, replaced, doomed, found, verdict, accepted, luck>>

\* Discard what was staged: RemoveAll, then the lease.
Abandon(p) ==
    /\ doomed' = [doomed EXCEPT ![p] = {temp[p]}]
    /\ Ends(p, "failed") /\ Goto(p, "clean")

\* own: a Recover that listed the fresh entry may hold its lease.
Own(p) ==
    /\ pc[p] = "own"
    /\ IF lease[temp[p]] = None
       THEN /\ lease' = [lease EXCEPT ![temp[p]] = p]
            /\ Goto(p, "fill") /\ UNCHANGED <<doomed, verdict>>
       ELSE Abandon(p) /\ UNCHANGED lease
    /\ UNCHANGED <<files, lock, temp, replaced, found, accepted, luck>>

\* fill, chmod, sync: the staged content is whole.
Fill(p) ==
    /\ pc[p] = "fill" /\ beside[temp[p]] = Torn
    /\ beside' = [beside EXCEPT ![temp[p]] = p]
    /\ Goto(p, "wait")
    /\ UNCHANGED <<dest, made, follows, coord, local, accepted, luck>>

\* fill fails, or the context is done.
FillFails(p) ==
    /\ pc[p] = "fill"
    /\ Abandon(p)
    /\ UNCHANGED <<files, coord, temp, replaced, found, accepted, luck>>

-----------------------------------------------------------------------------
\* The destination's lock.

\* The claim on dest can be taken.
Free == lock = None

Acquire(p) ==
    /\ pc[p] = "wait" /\ Free
    /\ lock' = p /\ Goto(p, "locked")
    /\ UNCHANGED <<files, lease, local, accepted, luck>>

\* The context ends while waiting: Commit discards, the others return.
Withdraw(p) ==
    /\ pc[p] = "wait"
    /\ IF p \in Committers THEN Abandon(p)
       ELSE Ends(p, "failed") /\ Goto(p, "done") /\ UNCHANGED doomed
    /\ UNCHANGED <<files, coord, temp, replaced, found, accepted, luck>>

\* hold.Release; what this process replaced is deleted without the lock.
Unlock(p) ==
    /\ pc[p] = "unlock"
    /\ lock' = None /\ Goto(p, "clean")
    /\ UNCHANGED <<files, lease, local, accepted, luck>>

-----------------------------------------------------------------------------
\* Commit, under the lock.

\* commitLocked ends with nothing published and the staged content to discard.
NotPublished(p, v) ==
    /\ doomed' = [doomed EXCEPT ![p] = {temp[p]}]
    /\ Ends(p, v) /\ Goto(p, "unlock")

\* The context is done, Revalidate refuses or is satisfied, or the staged
\* content is gone (ErrStagedGone).
Refuse(p) ==
    /\ p \in Committers /\ pc[p] = "locked"
    /\ \E v \in {"failed", "satisfied"} : NotPublished(p, v)
    /\ UNCHANGED <<files, coord, temp, replaced, found, accepted, luck>>

Staged(p) == p \in Committers /\ pc[p] = "locked" /\ beside[temp[p]] # None

\* The staged content is at dest; temp is spent.
Publish(p, old) ==
    /\ dest' = beside[temp[p]] /\ Carries(temp[p], Dest)
    /\ temp' = [temp EXCEPT ![p] = None]
    /\ replaced' = [replaced EXCEPT ![p] = old]
    /\ Goto(p, "verify")
    /\ UNCHANGED <<made, coord, doomed, found, verdict, accepted, luck>>

\* One rename: over nothing, or a file over a file.
RenameIn(p) ==
    /\ Staged(p)
    /\ IF p \in Files THEN ~IsDir(dest) ELSE dest = None
    /\ beside' = [beside EXCEPT ![temp[p]] = None]
    /\ Publish(p, None)

\* moveTree by atomic exchange: the old tree is where the new one was staged.
ExchangeIn(p) ==
    /\ Staged(p) /\ p \notin Files /\ IsDir(dest) /\ TRUE \in Exchange
    /\ beside' = [beside EXCEPT ![temp[p]] = dest]
    /\ Publish(p, temp[p])

\* Where the two entries cannot be exchanged, or exchange fails.
MustMoveAside == IsDir(dest) => FALSE \in Exchange

\* moveTree without it: the old entry is first moved aside.
MoveAside(p) ==
    /\ Staged(p) /\ p \notin Files /\ dest # None
    /\ MustMoveAside /\ MakeName
    /\ beside' = [beside EXCEPT ![Fresh] = dest] /\ dest' = None /\ Carries(Dest, Fresh)
    /\ replaced' = [replaced EXCEPT ![p] = Fresh]
    /\ Goto(p, "aside")
    /\ UNCHANGED <<coord, temp, doomed, found, verdict, accepted, luck>>

PutIn(p) ==
    /\ pc[p] = "aside"
    /\ beside' = [beside EXCEPT ![temp[p]] = None]
    /\ Publish(p, replaced[p])

\* A rename of moveTree fails. Once the old entry is aside it is put back,
\* unless that fails too: then it stays aside, never deleted.
RenameFails(p) ==
    /\ \/ Staged(p) /\ UNCHANGED files /\ Fault
       \/ Staged(p) /\ p \in Files /\ IsDir(dest) /\ UNCHANGED <<files, luck>>
       \/ /\ pc[p] = "aside" /\ Fault /\ UNCHANGED made
          /\ dest' = beside[replaced[p]]
          /\ beside' = [beside EXCEPT ![replaced[p]] = None] /\ Carries(replaced[p], Dest)
       \/ /\ pc[p] = "aside" /\ UNCHANGED <<files, crashes, displaced>>
          /\ faults + 2 <= MaxFaults /\ faults' = faults + 2
    /\ NotPublished(p, "failed")
    /\ UNCHANGED <<coord, temp, replaced, found, accepted>>

\* What a verified commit may delete after it released the lock.
Superseded(p) == {replaced[p]} \ {None}

\* Verify passes: the entry it replaced may be deleted.
VerifyPasses(p) ==
    /\ pc[p] = "verify"
    /\ accepted' = TRUE
    /\ doomed' = [doomed EXCEPT ![p] = Superseded(p)]
    /\ Ends(p, "ok") /\ Goto(p, "unlock")
    /\ UNCHANGED <<files, coord, temp, replaced, found, luck>>

\* Fault: a tree that failed its verification stays.
RejectedKept(p) ==
    /\ pc[p] = "verify"
    /\ Ends(p, "failed") /\ Goto(p, "unlock")
    /\ UNCHANGED <<files, coord, temp, replaced, doomed, found, accepted, luck>>

\* Verify fails: a file stays published, a tree is rolled back.
VerifyFails(p) ==
    /\ pc[p] = "verify"
    /\ Ends(p, "failed")
    /\ IF p \in Files THEN Goto(p, "unlock") /\ accepted' = TRUE
       ELSE Goto(p, "rollback") /\ UNCHANGED accepted
    /\ UNCHANGED <<files, coord, temp, replaced, doomed, found, luck>>

\* rollBackTree by exchange: the rejected tree is where the original was.
ExchangeBack(p) ==
    /\ pc[p] = "rollback" /\ replaced[p] # None /\ TRUE \in Exchange
    /\ dest' = beside[replaced[p]]
    /\ beside' = [beside EXCEPT ![replaced[p]] = dest] /\ Carries(replaced[p], Dest)
    /\ doomed' = [doomed EXCEPT ![p] = {replaced[p]}]
    /\ Goto(p, "unlock")
    /\ UNCHANGED <<made, coord, temp, replaced, found, verdict, accepted, luck>>

\* rollBackTree without it: the rejected tree is moved aside.
RejectAside(p) ==
    /\ pc[p] = "rollback"
    /\ replaced[p] # None => FALSE \in Exchange
    /\ MakeName
    /\ beside' = [beside EXCEPT ![Fresh] = dest] /\ dest' = None /\ Carries(Dest, Fresh)
    /\ doomed' = [doomed EXCEPT ![p] = {Fresh}]
    /\ Goto(p, IF replaced[p] = None THEN "unlock" ELSE "rejected")
    /\ UNCHANGED <<coord, temp, replaced, found, verdict, accepted, luck>>

PutBack(p) ==
    /\ pc[p] = "rejected"
    /\ dest' = beside[replaced[p]]
    /\ beside' = [beside EXCEPT ![replaced[p]] = None] /\ Carries(replaced[p], Dest)
    /\ Goto(p, "unlock")
    /\ UNCHANGED <<made, coord, local, accepted, luck>>

\* Fault: the original is deleted although it is not back.
OriginalDeleted(p) ==
    /\ pc[p] \in {"rollback", "rejected"} /\ Fault
    /\ doomed' = [doomed EXCEPT ![p] = {replaced[p]} \ {None}]
    /\ Goto(p, "unlock")
    /\ UNCHANGED <<files, coord, temp, replaced, found, verdict, accepted>>

\* A rename of rollBackTree fails: nothing is deleted, the original stays
\* where it is.
RollbackFails(p) ==
    /\ pc[p] \in {"rollback", "rejected"} /\ Fault
    /\ doomed' = [doomed EXCEPT ![p] = {}]
    /\ Goto(p, "unlock")
    /\ UNCHANGED <<files, coord, temp, replaced, found, verdict, accepted>>

-----------------------------------------------------------------------------
\* Remove, under the lock.

\* Revalidate refuses, dest is missing already, or the rename fails.
RemoveNothing(p) ==
    /\ p \in Removers /\ pc[p] = "locked"
    /\ Ends(p, IF dest = None THEN "ok" ELSE "failed") /\ Goto(p, "unlock")
    /\ UNCHANGED <<files, coord, temp, replaced, doomed, found, accepted, luck>>

\* A directory is renamed aside, anything else is unlinked. Verify's answer
\* changes nothing.
RemoveEntry(p) ==
    /\ p \in Removers /\ pc[p] = "locked" /\ dest # None
    /\ dest' = None /\ accepted' = TRUE
    /\ IF IsDir(dest)
       THEN /\ MakeName /\ beside' = [beside EXCEPT ![Fresh] = dest]
            /\ doomed' = [doomed EXCEPT ![p] = {Fresh}] /\ Carries(Dest, Fresh)
       ELSE UNCHANGED <<beside, made, doomed, follows>>
    /\ Ends(p, "ok") /\ Goto(p, "unlock")
    /\ UNCHANGED <<coord, temp, replaced, found, luck>>

-----------------------------------------------------------------------------
\* Recover, under the lock.

\* Leftovers: the directory is read once.
ListLeftovers(p) ==
    /\ p \in Recoverers /\ pc[p] = "locked"
    /\ found' = [found EXCEPT ![p] =
                   [n \in {m \in Names : beside[m] # None} |-> "listed"]]
    /\ Goto(p, "inspect")
    /\ UNCHANGED <<files, coord, temp, replaced, doomed, verdict, accepted, luck>>

\* inspectLeftovers: one entry is leased and digested, or is a live writer's.
Inspect(p) ==
    /\ pc[p] = "inspect"
    /\ \E n \in DOMAIN found[p] :
        /\ found[p][n] = "listed"
        /\ IF lease[n] = None
           THEN /\ lease' = [lease EXCEPT ![n] = p]
                /\ found' = [found EXCEPT ![p][n] =
                               IF IsDir(beside[n]) THEN beside[n] ELSE "unknown"]
           ELSE found' = [found EXCEPT ![p][n] = "live"] /\ UNCHANGED lease
    /\ UNCHANGED <<files, lock, pc, temp, replaced, doomed, verdict, accepted, luck>>

Originals(p) == {n \in DOMAIN found[p] : found[p][n] = Original}
\* Fault: only the original counts as a planned tree.
ProvableOriginal(p) == {n \in DOMAIN found[p] : found[p][n] = Original}

\* The leftovers that hold a planned tree.
Provable(p) == {n \in DOMAIN found[p] : IsPlanned(found[p][n])}

\* decide: by digests alone. replaced names the leftover to restore.
Decide(p) ==
    /\ pc[p] = "inspect"
    /\ \A n \in DOMAIN found[p] : found[p][n] # "listed"
    /\ \/ /\ IsPlanned(dest)
          /\ doomed' = [doomed EXCEPT ![p] = Provable(p)]
          /\ accepted' = (accepted \/ dest # Original)
          /\ Ends(p, IF dest = Original THEN "intact" ELSE "completed")
          /\ Goto(p, "clean") /\ UNCHANGED replaced
       \/ /\ dest = None /\ Originals(p) # {}
          /\ \E n \in Originals(p) :
               /\ replaced' = [replaced EXCEPT ![p] = n]
               /\ doomed' = [doomed EXCEPT ![p] = Provable(p) \ {n}]
          /\ Ends(p, "restored") /\ Goto(p, "restore") /\ UNCHANGED accepted
       \/ /\ ~IsPlanned(dest) /\ (dest = None => Originals(p) = {})
          /\ Ends(p, "unrecoverable") /\ Goto(p, "unlease")
          /\ UNCHANGED <<replaced, doomed, accepted>>
    /\ UNCHANGED <<files, coord, temp, found, luck>>

\* PlanRecover changes nothing.
PlanOnly(p) ==
    /\ pc[p] = "inspect"
    /\ \A n \in DOMAIN found[p] : found[p][n] # "listed"
    /\ Ends(p, "plan") /\ Goto(p, "unlease")
    /\ UNCHANGED <<files, coord, temp, replaced, doomed, found, accepted, luck>>

\* Who is deleting the entry of that name.
Deleting(n) == {q \in Procs : pc[q] = "clean" /\ n \in doomed[q]}

\* restoreOriginal: rename back; it fails when the entry is gone by now. Who
\* deletes that tree goes on where it is now, once it had the directory open,
\* which nobody sees before an entry is gone: whether it had is chosen here.
Restore(p) ==
    /\ pc[p] = "restore"
    /\ IF beside[replaced[p]] = None
       THEN /\ Ends(p, "unrecoverable") /\ Goto(p, "unlease")
            /\ doomed' = [doomed EXCEPT ![p] = {}]
            /\ UNCHANGED <<dest, beside, follows>>
       ELSE /\ dest' = beside[replaced[p]]
            /\ beside' = [beside EXCEPT ![replaced[p]] = None]
            /\ \E D \in SUBSET Deleting(replaced[p]) :
                 /\ beside[replaced[p]] = Torn => D = Deleting(replaced[p])
                 /\ follows' = [q \in Procs |-> IF q \in D THEN Dest ELSE follows[q]]
            /\ Goto(p, "reverify") /\ UNCHANGED <<doomed, verdict>>
    /\ UNCHANGED <<made, coord, temp, replaced, found, accepted, luck>>

\* ... and digested again where it is now: a failed restore deletes nothing.
Reverify(p) ==
    /\ pc[p] = "reverify"
    /\ IF dest = Original THEN Goto(p, "clean") /\ UNCHANGED <<doomed, verdict>>
       ELSE /\ Ends(p, "unrecoverable") /\ Goto(p, "unlease")
            /\ doomed' = [doomed EXCEPT ![p] = {}]
    /\ UNCHANGED <<files, coord, temp, replaced, found, accepted, luck>>

\* found.release, after which hold.Release.
Unlease(p) ==
    /\ p \in Recoverers /\ pc[p] = "unlease"
    /\ lease' = [n \in Names |-> IF lease[n] = p THEN None ELSE lease[n]]
    /\ Goto(p, "unlock")
    /\ UNCHANGED <<files, lock, local, accepted, luck>>

-----------------------------------------------------------------------------
\* removeReplaced and Discard: trees are deleted entry by entry.

Tear(p) ==
    /\ pc[p] = "clean"
    /\ \E n \in doomed[p] : /\ IsDir(beside[n]) /\ beside[n] # Torn
                            /\ beside' = [beside EXCEPT ![n] = Torn]
    /\ UNCHANGED <<dest, made, follows, coord, pc, local, accepted, luck>>

\* The directory p had open holds entries still, wherever it is now.
Pursues(p) == follows[p] # None /\ IsDir(ContentAt(follows[p])) /\ ContentAt(follows[p]) # Torn

\* The deletion goes on in the tree that was renamed back.
TearMoved(p) ==
    /\ pc[p] = "clean" /\ Pursues(p)
    /\ IF follows[p] = Dest THEN dest' = Torn /\ UNCHANGED beside
       ELSE beside' = [beside EXCEPT ![follows[p]] = Torn] /\ UNCHANGED dest
    /\ UNCHANGED <<made, follows, coord, pc, local, accepted, luck>>

\* The emptied directory is removed by the name it had, if that is there yet.
Vanish(p) ==
    /\ pc[p] = "clean" /\ ~Pursues(p)
    /\ \E n \in doomed[p] : /\ IsDir(beside[n]) => beside[n] = Torn
                            /\ beside' = [beside EXCEPT ![n] = None]
                            /\ doomed' = [doomed EXCEPT ![p] = @ \ {n}]
    /\ UNCHANGED <<dest, made, follows, coord, pc, temp, replaced, found, verdict, accepted, luck>>

\* All deleted: Recover goes on to its releases; Commit releases its lease,
\* which covered what it deleted, and returns.
Cleaned(p) ==
    /\ pc[p] = "clean" /\ doomed[p] = {}
    /\ IF p \in Recoverers /\ lock = p
       THEN Goto(p, "unlease") /\ UNCHANGED lease
       ELSE /\ Goto(p, "done")
            /\ lease' = [n \in Names |-> IF lease[n] = p THEN None ELSE lease[n]]
    /\ UNCHANGED <<files, lock, local, accepted, luck>>

-----------------------------------------------------------------------------
\* The claim once p died: flocks end with their process.
ClaimAfter(p) == IF lock = p THEN None ELSE lock

\* A crash: the kernel drops the claim and the leases, the files stay.
Crash(p) ==
    /\ pc[p] \notin {"done", "crashed"} /\ crashes < MaxCrashes
    /\ crashes' = crashes + 1 /\ Goto(p, "crashed")
    /\ lock' = ClaimAfter(p)
    /\ lease' = [n \in Names |-> IF lease[n] = p THEN None ELSE lease[n]]
    /\ UNCHANGED <<files, local, accepted, faults, displaced>>

\* A commit on an ancestor, which this lock excludes, replaces the directory
\* all of this lives in.
AncestorCommit ==
    /\ Displaceable /\ ~displaced /\ lock = None
    /\ displaced' = TRUE /\ accepted' = TRUE
    /\ dest' = None /\ beside' = [n \in Names |-> None]
    /\ follows' = [p \in Procs |-> None]
    /\ UNCHANGED <<made, coord, pc, local, faults, crashes>>

Commit(p) ==
    \/ Stage(p) \/ Own(p) \/ Fill(p) \/ FillFails(p)
    \/ Refuse(p) \/ RenameIn(p) \/ ExchangeIn(p) \/ MoveAside(p) \/ PutIn(p)
    \/ RenameFails(p) \/ VerifyPasses(p) \/ VerifyFails(p)
    \/ ExchangeBack(p) \/ RejectAside(p) \/ PutBack(p) \/ RollbackFails(p)

Remove(p) == RemoveNothing(p) \/ RemoveEntry(p)

Recover(p) ==
    \/ ListLeftovers(p) \/ Inspect(p) \/ Decide(p) \/ PlanOnly(p)
    \/ Restore(p) \/ Reverify(p) \/ Unlease(p)

Step(p) ==
    \/ Acquire(p) \/ Unlock(p)
    \/ Commit(p) \/ Remove(p) \/ Recover(p)
    \/ Tear(p) \/ TearMoved(p) \/ Vanish(p) \/ Cleaned(p)

Next == AncestorCommit \/ \E p \in Procs : Step(p) \/ Withdraw(p) \/ Crash(p)

Spec == Init /\ [][Next]_vars

-----------------------------------------------------------------------------
\* Properties.

\* The type of every variable.
Labels ==
    {"stage", "own", "fill", "wait", "locked", "aside", "verify", "rollback", "rejected",
     "inspect", "restore", "reverify", "unlease", "unlock", "clean", "done", "crashed"}
Verdicts ==
    {"none", "ok", "failed", "satisfied", "intact", "completed", "restored",
     "unrecoverable", "plan"}
Notes == UNION {[S -> Content \union Marks] : S \in SUBSET Names}

FileTypes ==
    /\ dest \in Content /\ beside \in [Names -> Content] /\ made \in 0..MaxNames
    /\ lock \in Procs \union {None} /\ lease \in [Names -> Procs \union {None}]

LocalTypes ==
    /\ pc \in [Procs -> Labels] /\ verdict \in [Procs -> Verdicts]
    /\ temp \in [Procs -> Names \union {None}] /\ replaced \in [Procs -> Names \union {None}]
    /\ doomed \in [Procs -> SUBSET Names]
    /\ found \in [Procs -> Notes]

TypeOK ==
    /\ FileTypes /\ LocalTypes /\ follows \in [Procs -> Names \union {Dest, None}]
    /\ accepted \in BOOLEAN /\ displaced \in BOOLEAN
    /\ faults \in 0..MaxFaults /\ crashes \in 0..MaxCrashes

\* Until a commit over it verified, a Remove took it, or Recover proved the
\* replacement whole at dest, the original exists whole somewhere: through
\* failed renames, failed rollbacks, crashes and concurrent recoveries
\* (commit.go:168, "it is the only copy").
OriginalSurvives ==
    accepted \/ Original \in {dest} \union {beside[n] : n \in Names}

\* A tree that failed its verification is not at dest when Commit has released
\* the lock, unless a rename of the rollback failed (commit.go:60).
RejectedNotPublished ==
    \A p \in Committers \ Files :
        /\ verdict[p] = "failed" /\ pc[p] \in {"unlock", "clean", "done"}
        /\ faults = 0
        => dest # p

\* What is at dest is planned, or what a deletion has left of it that had it
\* open before a Recover renamed it back (removeall.go:13).
DestSettled == IsPlanned(dest) \/ (dest = Torn /\ \E q \in Procs : follows[q] = Dest)

\* A Recover that settled leaves a planned tree at dest, unless a deletion still
\* follows it there, and no leftover of a planned tree but those a live writer
\* owned when it looked.
RecoveryComplete ==
    \A r \in Recoverers :
        pc[r] = "unlease" /\ verdict[r] \in {"intact", "restored", "completed"} =>
            /\ DestSettled
            /\ \A n \in DOMAIN found[r] :
                   found[r][n] = "live" \/ ~IsPlanned(beside[n])

\* dest is one whole tree, whoever stages, commits, removes and recovers
\* (stage.go:220, "dest itself is always one whole tree").
WholeTree == dest # Torn

=============================================================================
