------------------------------ MODULE FilesProofs ------------------------------
(***************************************************************************)
(* What holds of publication for every number of processes, names and      *)
(* faults; and, in the second part, of the operations of every program, in *)
(* every number of Runs and whatever is written from outside them: what is *)
(* skipped is done, and, at the end, what is done is skipped.              *)
(***************************************************************************)
EXTENDS Publish, Operations, SequenceTheorems, TLAPS

-----------------------------------------------------------------------------
\* The inductive invariant.

\* Between the lock and its release.
Holding == {"locked", "aside", "verify", "rollback", "rejected", "inspect", "restore",
            "reverify", "unlease", "unlock"}

\* Who is under the lock has it; Recover deletes under it, the others after it.
LockSound(p) ==
    /\ pc[p] \in Holding => lock = p
    /\ p \in Recoverers /\ pc[p] = "clean" /\ doomed[p] # {} => lock = p

\* How far a process is, and what it has in hand.
CommitterSound(p) ==
    /\ pc[p] \in {"stage", "own", "fill", "wait", "locked", "aside", "verify", "rollback",
                  "rejected", "unlock", "clean", "done", "crashed"}
    /\ pc[p] \in {"own", "fill", "wait", "locked", "aside"} => temp[p] # None
    /\ pc[p] \in {"verify", "rollback", "rejected"} => temp[p] = None
    /\ pc[p] \in {"aside", "rejected"} => replaced[p] # None /\ dest = None
    /\ pc[p] \in {"stage", "own", "fill", "wait", "locked", "aside", "verify", "rollback"}
        => doomed[p] = {}
    /\ pc[p] = "fill" => lease[temp[p]] = p

RemoverSound(p) ==
    /\ pc[p] \in {"wait", "locked", "unlock", "clean", "done", "crashed"}
    /\ temp[p] = None /\ replaced[p] = None

RecovererSound(p) ==
    /\ pc[p] \in {"wait", "locked", "inspect", "restore", "reverify", "unlease", "unlock",
                  "clean", "done", "crashed"}
    /\ temp[p] = None
    /\ pc[p] \in {"wait", "locked", "inspect", "unlease", "unlock"} => doomed[p] = {}
    /\ pc[p] = "restore" =>
        /\ dest = None /\ replaced[p] \in DOMAIN found[p]
        /\ found[p][replaced[p]] = Original

\* The staging names a commit or a removal deals with: no other one does.
Mine(p) == ({temp[p], replaced[p]} \union doomed[p]) \ {None}

NamesSound ==
    /\ \A n \in Names : n > made => beside[n] = None
    /\ \A p \in Procs : DOMAIN found[p] \subseteq 1..made
    /\ \A p \in Procs \ Recoverers : Mine(p) \subseteq 1..made
    /\ \A p, q \in Procs \ Recoverers : p # q => Mine(p) \intersect Mine(q) = {}

RoleSound(p) ==
    /\ p \in Committers => CommitterSound(p)
    /\ p \in Removers => RemoverSound(p)
    /\ p \in Recoverers => RecovererSound(p)

Flow == NamesSound /\ \A p \in Procs : LockSound(p) /\ RoleSound(p)

\* What is staged is nothing but the committer's own content, and what takes
\* the place of the original is not the original.
StagedSound(p) ==
    /\ temp[p] # None => beside[temp[p]] \in {None, Torn, p}
    /\ pc[p] \in {"verify", "rollback"} => dest # Original

\* What is deleted is not the original, or that is at dest, or accepted.
DoomedSound(p) ==
    /\ p \notin Recoverers => accepted \/ \A n \in doomed[p] : beside[n] # Original
    /\ p \in Recoverers /\ pc[p] = "clean" /\ doomed[p] # {} => accepted \/ dest = Original

\* A tree is renamed back under its deletion only when it may go.
FollowsSound == \A p \in Procs : follows[p] # None => accepted

Kept ==
    /\ OriginalSurvives /\ FollowsSound
    /\ \A p \in Committers : StagedSound(p)
    /\ \A p \in Procs : DoomedSound(p)

Trees == Committers \ Files

\* A commit under way that moved an entry aside, and may put it back.
Moved(q) == pc[q] \in {"aside", "verify", "rollback", "rejected"} /\ replaced[q] # None

\* Neither at the destination nor moved aside from it.
Clear(p) == dest # p /\ \A q \in Committers : Moved(q) => beside[replaced[q]] # p

Rejected(p) == verdict[p] = "failed" /\ pc[p] \in {"unlock", "clean", "done"} /\ faults = 0

\* A tree is nowhere near dest before its commit renames it, nor after it was
\* rejected; while it is there, what it replaced is another.
RejectedSound(p) ==
    /\ pc[p] \in {"stage", "own", "fill", "wait", "locked", "aside"} \/ Rejected(p) => Clear(p)
    /\ Moved(p) => beside[replaced[p]] # p

\* What Recover saw as the original is the original, or may go and is being
\* deleted, and nobody stages there.
FoundSound(p) ==
    pc[p] \in {"inspect", "restore"} =>
        \A n \in DOMAIN found[p] : found[p][n] = Original =>
            /\ beside[n] = Original \/ (accepted /\ beside[n] \in {Torn, None})
            /\ \A q \in Committers : temp[q] # n

Settles == {"intact", "restored", "completed"}

\* A Recover about to end well, or to delete what it found.
Settling(p) ==
    \/ pc[p] = "reverify" \/ (pc[p] = "clean" /\ lock = p)
    \/ pc[p] = "unlease" /\ verdict[p] \in Settles

\* The planned trees Recover has found and not yet deleted or restored.
Pending(p) ==
    IF pc[p] = "inspect" THEN Provable(p)
    ELSE IF pc[p] = "restore" THEN doomed[p] \union {replaced[p]}
    ELSE doomed[p]

\* What Recover inspected is leased, and any planned tree there is to go.
LeftoversSound(p) ==
    /\ pc[p] \in {"inspect", "restore"} \/ Settling(p) =>
        \A n \in DOMAIN found[p] : found[p][n] \notin {"listed", "live"} =>
            /\ lease[n] = p
            /\ IsPlanned(beside[n]) => n \in Pending(p)
    /\ pc[p] = "restore" \/ Settling(p) => \A n \in DOMAIN found[p] : found[p][n] # "listed"
    /\ Settling(p) => doomed[p] = {} \/ pc[p] # "unlease"
    /\ pc[p] # "reverify" /\ Settling(p) => DestSettled

Recovered == \A p \in Recoverers : FoundSound(p) /\ LeftoversSound(p)

PublishInv ==
    /\ TypeOK /\ Flow /\ Kept /\ Recovered
    /\ \A p \in Trees : RejectedSound(p)

-----------------------------------------------------------------------------
\* Types.

\* All but the type of follows.
CoreTypes ==
    /\ FileTypes /\ LocalTypes /\ accepted \in BOOLEAN /\ displaced \in BOOLEAN
    /\ faults \in 0..MaxFaults /\ crashes \in 0..MaxCrashes

Places == Names \union {Dest}

LEMMA InitTypeOK == Init => TypeOK
<1> USE PublishAssumption DEF Init
<1>1. Init => FileTypes
    BY DEF FileTypes, Content
<1>2. ASSUME Init PROVE LocalTypes
  <2>1. <<>> \in [{} -> Content \union Marks]
    OBVIOUS
  <2>2. \E S \in SUBSET Names : <<>> \in [S -> Content \union Marks]
    BY <2>1
  <2>3. PICK S \in SUBSET Names : <<>> \in [S -> Content \union Marks]
    BY <2>2
  <2>4. [S -> Content \union Marks] \in {[T -> Content \union Marks] : T \in SUBSET Names}
    BY <2>3
  <2>5. <<>> \in Notes
    BY <2>3, <2>4 DEF Notes
  <2> QED
    BY <1>2, <2>5 DEF LocalTypes, Labels, Verdicts
<1>3. Init => accepted \in BOOLEAN /\ displaced \in BOOLEAN
              /\ faults \in 0..MaxFaults /\ crashes \in 0..MaxCrashes
  <2>1. MaxFaults \in Nat /\ MaxCrashes \in Nat
    BY PublishAssumption
  <2>2. 0 \in 0..MaxFaults /\ 0 \in 0..MaxCrashes
    BY <2>1
  <2> QED
    BY <2>2
<1>4. Init => follows \in [Procs -> Names \union {Dest, None}]
    OBVIOUS
<1> QED
    BY <1>1, <1>2, <1>3, <1>4 DEF TypeOK

\* A fresh staging name.
LEMMA FreshName ==
    ASSUME TypeOK, MakeName
    PROVE  Fresh \in Names /\ made' \in 0..MaxNames /\ made' = Fresh /\ made \in Nat
BY PublishAssumption DEF TypeOK, FileTypes, MakeName, Fresh, Names

\* What a process leaves alone.
LEMMA TypesKept ==
    ASSUME TypeOK
    PROVE  /\ UNCHANGED <<files, coord>> => FileTypes'
           /\ UNCHANGED <<pc, local>> => LocalTypes'
           /\ UNCHANGED luck => displaced' \in BOOLEAN /\ faults' \in 0..MaxFaults
                                /\ crashes' \in 0..MaxCrashes
           /\ Fault => displaced' \in BOOLEAN /\ faults' \in 0..MaxFaults
                       /\ crashes' \in 0..MaxCrashes
BY PublishAssumption
   DEF TypeOK, FileTypes, LocalTypes, Names, Content, Procs, files, coord, local, luck, Fault

\* What a process has in hand.
LEMMA InHand ==
    ASSUME TypeOK, Flow, NEW p \in Procs
    PROVE  /\ pc[p] \in {"own", "fill", "wait", "locked", "aside"} /\ p \in Committers
                => temp[p] \in Names
           /\ pc[p] \in {"stage", "own", "fill", "aside", "verify", "rollback", "rejected"}
                => p \in Committers
           /\ pc[p] \in {"inspect", "restore", "reverify", "unlease"} => p \in Recoverers
           /\ pc[p] \in {"own", "fill", "aside"} => temp[p] \in Names
           /\ pc[p] \in {"aside", "rejected", "restore"} => replaced[p] \in Names
           /\ temp[p] # None => temp[p] \in Names
           /\ replaced[p] # None => replaced[p] \in Names
           /\ doomed[p] \subseteq Names /\ DOMAIN found[p] \subseteq Names
           /\ found[p] \in [DOMAIN found[p] -> Content \union Marks]
           /\ pc[p] \in Labels
<1>1. /\ temp[p] \in Names \union {None} /\ replaced[p] \in Names \union {None}
      /\ doomed[p] \subseteq Names /\ pc[p] \in Labels
      /\ found[p] \in Notes
    BY DEF TypeOK, LocalTypes
<1>2. DOMAIN found[p] \subseteq Names /\ found[p] \in [DOMAIN found[p] -> Content \union Marks]
  <2>1. PICK S \in SUBSET Names : found[p] \in [S -> Content \union Marks]
    BY <1>1 DEF Notes
  <2> QED
    BY <2>1
<1>3. pc[p] = "restore" => replaced[p] \in Names
    BY <1>1, <1>2 DEF Flow, RoleSound, Procs, CommitterSound, RemoverSound, RecovererSound
<1>4. None \notin Names
    BY PublishAssumption DEF Names
<1> QED
    BY <1>1, <1>2, <1>3, <1>4 DEF Flow, RoleSound, Procs, CommitterSound, RemoverSound, RecovererSound

LEMMA StagingTypes ==
    ASSUME TypeOK, Flow, NEW p \in Procs,
           Stage(p) \/ Own(p) \/ Fill(p) \/ FillFails(p) \/ Acquire(p) \/ Withdraw(p) \/ Unlock(p)
    PROVE  CoreTypes'
<1> USE DEF TypeOK, CoreTypes, Goto, Ends, Abandon
<1>1. CASE Stage(p)
  <2>1. FileTypes'
    BY <1>1, FreshName DEF Stage, FileTypes, Content, coord
  <2>2. LocalTypes'
    BY <1>1, FreshName DEF Stage, LocalTypes, Labels
  <2> QED
    BY <1>1, <2>1, <2>2, TypesKept DEF Stage
<1>2. CASE Own(p)
  <2>1. FileTypes'
    BY <1>2 DEF Own, FileTypes, Content, Names, Procs, files
  <2>2. LocalTypes'
    BY <1>2, InHand DEF Own, LocalTypes, Labels, Verdicts
  <2> QED
    BY <1>2, <2>1, <2>2, TypesKept DEF Own
<1>3. CASE Fill(p)
  <2>1. FileTypes'
    BY <1>3, InHand DEF Fill, FileTypes, Content, coord
  <2>2. LocalTypes'
    BY <1>3 DEF Fill, LocalTypes, Labels, local
  <2> QED
    BY <1>3, <2>1, <2>2, TypesKept DEF Fill
<1>4. CASE FillFails(p) \/ Withdraw(p)
  <2>1. LocalTypes'
    BY <1>4, InHand DEF FillFails, Withdraw, LocalTypes, Labels, Verdicts
  <2> QED
    BY <1>4, <2>1, TypesKept DEF FillFails, Withdraw
<1>5. CASE Acquire(p) \/ Unlock(p)
  <2>1. FileTypes'
    BY <1>5 DEF Acquire, Unlock, FileTypes, Content, files
  <2>2. LocalTypes'
    BY <1>5 DEF Acquire, Unlock, LocalTypes, Labels, local
  <2> QED
    BY <1>5, <2>1, <2>2, TypesKept DEF Acquire, Unlock
<1> QED
    BY <1>1, <1>2, <1>3, <1>4, <1>5

LEMMA CommitTypes ==
    ASSUME TypeOK, Flow, NEW p \in Procs,
           \/ Refuse(p) \/ RenameIn(p) \/ ExchangeIn(p) \/ MoveAside(p) \/ PutIn(p)
           \/ RenameFails(p) \/ VerifyPasses(p) \/ VerifyFails(p)
    PROVE  CoreTypes'
<1> USE DEF TypeOK, CoreTypes, Goto, Ends, NotPublished, Staged
<1>1. CASE Refuse(p) \/ VerifyPasses(p) \/ VerifyFails(p)
  <2>1. LocalTypes'
    BY <1>1, InHand DEF Refuse, VerifyPasses, VerifyFails, Superseded, LocalTypes, Labels, Verdicts
  <2> QED
    BY <1>1, <2>1, TypesKept DEF Refuse, VerifyPasses, VerifyFails
<1>2. CASE RenameIn(p) \/ ExchangeIn(p) \/ PutIn(p)
  <2>0. temp[p] \in Names /\ beside[temp[p]] \in Content
    BY <1>2, InHand DEF RenameIn, ExchangeIn, PutIn, FileTypes
  <2>1. FileTypes'
    <3>1. UNCHANGED coord /\ made' = made /\ dest' = beside[temp[p]]
          /\ \E x \in {None, dest} : beside' = [beside EXCEPT ![temp[p]] = x]
      BY <1>2 DEF RenameIn, ExchangeIn, PutIn, Publish
    <3>2. None \in Content /\ dest \in Content
      BY DEF Content, FileTypes
    <3> QED
      BY <2>0, <3>1, <3>2 DEF FileTypes, coord
  <2>2. LocalTypes'
    BY <1>2, <2>0, InHand DEF RenameIn, ExchangeIn, PutIn, Publish, LocalTypes, Labels
  <2> QED
    BY <1>2, <2>1, <2>2, TypesKept DEF RenameIn, ExchangeIn, PutIn, Publish
<1>3. CASE MoveAside(p)
  <2>1. FileTypes'
    BY <1>3, FreshName DEF MoveAside, FileTypes, Content, coord
  <2>2. LocalTypes'
    BY <1>3, FreshName DEF MoveAside, LocalTypes, Labels
  <2> QED
    BY <1>3, <2>1, <2>2, TypesKept DEF MoveAside
<1>4. CASE RenameFails(p)
  <2>0. temp[p] \in Names
    BY <1>4, InHand DEF RenameFails
  <2>1. FileTypes'
    BY <1>4, InHand DEF RenameFails, FileTypes, Content, coord, files
  <2>2. LocalTypes'
    BY <1>4, <2>0 DEF RenameFails, LocalTypes, Labels, Verdicts
  <2>3. displaced' \in BOOLEAN /\ faults' \in 0..MaxFaults /\ crashes' \in 0..MaxCrashes
    <3>1. Fault \/ UNCHANGED luck
            \/ (faults + 2 <= MaxFaults /\ faults' = faults + 2 /\ UNCHANGED <<crashes, displaced>>)
      BY <1>4 DEF RenameFails
    <3> QED
      BY <3>1, TypesKept, PublishAssumption
  <2> QED
    BY <1>4, <2>1, <2>2, <2>3 DEF RenameFails
<1> QED
    BY <1>1, <1>2, <1>3, <1>4

LEMMA RollbackTypes ==
    ASSUME TypeOK, Flow, NEW p \in Procs,
           \/ ExchangeBack(p) \/ RejectAside(p) \/ PutBack(p) \/ RollbackFails(p)
           \/ RemoveNothing(p) \/ RemoveEntry(p)
    PROVE  CoreTypes'
<1> USE DEF TypeOK, CoreTypes, Goto, Ends
<1>1. CASE ExchangeBack(p) \/ PutBack(p)
  <2>0. replaced[p] \in Names /\ beside[replaced[p]] \in Content
    BY <1>1, InHand DEF ExchangeBack, PutBack, FileTypes
  <2>1. FileTypes'
    BY <1>1, <2>0 DEF ExchangeBack, PutBack, FileTypes, Content, coord
  <2>2. LocalTypes'
    <3>1. CASE ExchangeBack(p)
      BY <2>0, <3>1 DEF ExchangeBack, LocalTypes, Labels
    <3>2. CASE PutBack(p)
      BY <3>2 DEF PutBack, LocalTypes, Labels, local
    <3> QED
      BY <1>1, <3>1, <3>2
  <2> QED
    BY <1>1, <2>1, <2>2, TypesKept DEF ExchangeBack, PutBack
<1>2. CASE RejectAside(p)
  <2>1. FileTypes'
    BY <1>2, FreshName DEF RejectAside, FileTypes, Content, coord
  <2>2. LocalTypes'
    BY <1>2, FreshName DEF RejectAside, LocalTypes, Labels
  <2> QED
    BY <1>2, <2>1, <2>2, TypesKept DEF RejectAside
<1>3. CASE RollbackFails(p) \/ RemoveNothing(p)
  <2>1. LocalTypes'
    BY <1>3 DEF RollbackFails, RemoveNothing, LocalTypes, Labels, Verdicts
  <2> QED
    BY <1>3, <2>1, TypesKept DEF RollbackFails, RemoveNothing
<1>4. CASE RemoveEntry(p)
  <2>1. FileTypes'
    BY <1>4, FreshName DEF RemoveEntry, FileTypes, Content, coord
  <2>2. LocalTypes'
    BY <1>4, FreshName DEF RemoveEntry, LocalTypes, Labels, Verdicts
  <2> QED
    BY <1>4, <2>1, <2>2, TypesKept DEF RemoveEntry
<1> QED
    BY <1>1, <1>2, <1>3, <1>4

\* Recover's notes stay a function on names.
LEMMA NotesTyped ==
    ASSUME TypeOK, Flow, NEW p \in Procs, NEW n \in DOMAIN found[p],
           NEW x \in Content \union Marks, found' = [found EXCEPT ![p][n] = x]
    PROVE  found' \in [Procs -> Notes]
<1>1. [found[p] EXCEPT ![n] = x] \in [DOMAIN found[p] -> Content \union Marks]
    BY InHand
<1>2. found' = [found EXCEPT ![p] = [found[p] EXCEPT ![n] = x]]
    OBVIOUS
<1>3. [found[p] EXCEPT ![n] = x] \in Notes
    BY <1>1, InHand DEF Notes
<1> QED
    BY <1>2, <1>3 DEF TypeOK, LocalTypes

LEMMA RecoverTypes ==
    ASSUME TypeOK, Flow, NEW p \in Procs, Recover(p)
    PROVE  CoreTypes'
<1> USE DEF TypeOK, CoreTypes, Goto, Ends
<1>1. CASE ListLeftovers(p)
  <2> DEFINE S == {m \in Names : beside[m] # None}
  <2>1. [n \in S |-> "listed"] \in [S -> Content \union Marks]
    BY DEF Marks
  <2>2. found' \in [Procs -> Notes]
    <3>1. found' = [found EXCEPT ![p] = [n \in S |-> "listed"]] /\ S \in SUBSET Names
      BY <1>1 DEF ListLeftovers
    <3> HIDE DEF S
    <3>2. [n \in S |-> "listed"] \in Notes
      BY <2>1, <3>1 DEF Notes
    <3> QED
      BY <3>1, <3>2 DEF LocalTypes
  <2>3. LocalTypes'
    BY <1>1, <2>2 DEF ListLeftovers, LocalTypes, Labels
  <2> QED
    BY <1>1, <2>3, TypesKept DEF ListLeftovers
<1>2. CASE Inspect(p)
  <2>1. PICK n \in DOMAIN found[p] :
          IF lease[n] = None
          THEN /\ lease' = [lease EXCEPT ![n] = p]
               /\ found' = [found EXCEPT ![p][n] =
                              IF IsDir(beside[n]) THEN beside[n] ELSE "unknown"]
          ELSE found' = [found EXCEPT ![p][n] = "live"] /\ UNCHANGED lease
    BY <1>2 DEF Inspect
  <2>2. n \in Names /\ beside[n] \in Content
    BY InHand DEF FileTypes
  <2>3. \E x \in Content \union Marks : found' = [found EXCEPT ![p][n] = x]
    BY <2>1, <2>2 DEF Marks
  <2>4. found' \in [Procs -> Notes]
    BY <2>3, NotesTyped
  <2>5. FileTypes'
    BY <1>2, <2>1, <2>2 DEF Inspect, FileTypes, Content, files
  <2>6. LocalTypes'
    BY <1>2, <2>4 DEF Inspect, LocalTypes
  <2> QED
    BY <1>2, <2>5, <2>6, TypesKept DEF Inspect
<1>3. CASE Decide(p)
  <2>0. Provable(p) \subseteq Names /\ Originals(p) \subseteq Names
    BY InHand DEF Provable, Originals
  <2>1. LocalTypes'
    BY <1>3, <2>0 DEF Decide, LocalTypes, Labels, Verdicts
  <2> QED
    BY <1>3, <2>1, TypesKept DEF Decide
<1>4. CASE PlanOnly(p) \/ Reverify(p)
  <2>1. LocalTypes'
    BY <1>4 DEF PlanOnly, Reverify, LocalTypes, Labels, Verdicts
  <2> QED
    BY <1>4, <2>1, TypesKept DEF PlanOnly, Reverify
<1>5. CASE Restore(p)
  <2>0. replaced[p] \in Names /\ beside[replaced[p]] \in Content
    BY <1>5, InHand DEF Restore, FileTypes
  <2>1. FileTypes'
    BY <1>5, <2>0 DEF Restore, FileTypes, Content, coord
  <2>2. LocalTypes'
    BY <1>5 DEF Restore, LocalTypes, Labels, Verdicts
  <2> QED
    BY <1>5, <2>1, <2>2, TypesKept DEF Restore
<1>6. CASE Unlease(p)
  <2>1. FileTypes'
    BY <1>6 DEF Unlease, FileTypes, Content, files
  <2>2. LocalTypes'
    BY <1>6 DEF Unlease, LocalTypes, Labels, local
  <2> QED
    BY <1>6, <2>1, <2>2, TypesKept DEF Unlease
<1> QED
    BY <1>1, <1>2, <1>3, <1>4, <1>5, <1>6 DEF Recover

LEMMA DeletionTypes ==
    ASSUME TypeOK, Flow, NEW p \in Procs,
           Tear(p) \/ TearMoved(p) \/ Vanish(p) \/ Cleaned(p) \/ Crash(p)
    PROVE  CoreTypes'
<1> USE DEF TypeOK, CoreTypes, Goto
<1>1. CASE Tear(p) \/ Vanish(p)
  <2>1. FileTypes'
    BY <1>1 DEF Tear, Vanish, FileTypes, Content, coord
  <2>2. LocalTypes'
    BY <1>1 DEF Tear, Vanish, LocalTypes, local
  <2> QED
    BY <1>1, <2>1, <2>2, TypesKept DEF Tear, Vanish
<1>2. CASE Cleaned(p)
  <2>1. FileTypes'
    BY <1>2 DEF Cleaned, FileTypes, Content, files
  <2>2. LocalTypes'
    BY <1>2 DEF Cleaned, LocalTypes, Labels, local
  <2> QED
    BY <1>2, <2>1, <2>2, TypesKept DEF Cleaned
<1>3. CASE Crash(p)
  <2>1. FileTypes'
    BY <1>3 DEF Crash, ClaimAfter, FileTypes, Content, files
  <2>2. LocalTypes'
    BY <1>3 DEF Crash, LocalTypes, Labels, local
  <2> QED
    BY <1>3, <2>1, <2>2, PublishAssumption DEF Crash
<1>4. CASE TearMoved(p)
  <2>1. Torn \in Content /\ (follows[p] # Dest => follows[p] \in Names)
    BY <1>4 DEF TearMoved, Pursues, Content
  <2>2. FileTypes'
    BY <1>4, <2>1 DEF TearMoved, FileTypes, coord
  <2>3. LocalTypes'
    BY <1>4 DEF TearMoved, LocalTypes, local
  <2> QED
    BY <1>4, <2>2, <2>3, TypesKept DEF TearMoved
<1> QED
    BY <1>1, <1>2, <1>3, <1>4

\* An open directory moves along, and nobody opens one but in Restore.
LEMMA CarriesAlong ==
    ASSUME TypeOK, NEW x \in Places, NEW y \in Places, Carries(x, y)
    PROVE  /\ follows' \in [Procs -> Names \union {Dest, None}]
           /\ \A q \in Procs : follows'[q] # None => follows[q] # None
BY PublishAssumption DEF TypeOK, Places, Carries, Names, Dest

\* What a step does with the open directories.
StaysOpen(p) ==
    /\ follows' \in [Procs -> Names \union {Dest, None}]
    /\ Restore(p) \/ \A q \in Procs : follows'[q] # None => follows[q] # None

LEMMA StaysOpenStep ==
    ASSUME TypeOK, Flow, NEW p \in Procs, Step(p) \/ Withdraw(p) \/ Crash(p)
    PROVE  StaysOpen(p)
<1>0. Dest \in Places /\ Names \subseteq Places
    BY DEF Places
<1>1. CASE follows' = follows
    BY <1>1 DEF StaysOpen, TypeOK
<1>2. ASSUME NEW x \in Places, NEW y \in Places, Carries(x, y) PROVE StaysOpen(p)
    BY <1>2, CarriesAlong DEF StaysOpen
<1>3. CASE RenameIn(p) \/ ExchangeIn(p) \/ PutIn(p)
  <2>1. temp[p] \in Places
    BY <1>0, <1>3, InHand DEF RenameIn, ExchangeIn, PutIn, Staged
  <2>2. Carries(temp[p], Dest)
    BY <1>3 DEF RenameIn, ExchangeIn, PutIn, Publish
  <2> QED
    BY <1>0, <1>2, <2>1, <2>2
<1>4. CASE MoveAside(p) \/ RejectAside(p)
  <2>1. MakeName /\ Carries(Dest, Fresh)
    BY <1>4 DEF MoveAside, RejectAside
  <2> QED
    BY <1>0, <1>2, <2>1, FreshName
<1>5. CASE RenameFails(p) \/ ExchangeBack(p) \/ PutBack(p)
  <2>1. follows' = follows \/ (Carries(replaced[p], Dest) /\ replaced[p] \in Names)
    BY <1>5, InHand DEF RenameFails, ExchangeBack, PutBack, files
  <2> QED
    BY <1>0, <1>1, <1>2, <2>1
<1>6. CASE RemoveEntry(p)
  <2>1. follows' = follows \/ (MakeName /\ Carries(Dest, Fresh))
    BY <1>6 DEF RemoveEntry
  <2> QED
    BY <1>0, <1>1, <1>2, <2>1, FreshName
<1>7. CASE Restore(p)
    BY <1>7 DEF Restore, StaysOpen, TypeOK, files
<1>8. CASE \/ Own(p) \/ FillFails(p) \/ Acquire(p) \/ Withdraw(p) \/ Unlock(p) \/ Crash(p)
           \/ Refuse(p) \/ VerifyPasses(p) \/ VerifyFails(p) \/ RollbackFails(p)
           \/ RemoveNothing(p) \/ ListLeftovers(p) \/ Inspect(p) \/ PlanOnly(p) \/ Decide(p)
           \/ Reverify(p) \/ Unlease(p) \/ Cleaned(p)
    BY <1>1, <1>8
       DEF Own, FillFails, Acquire, Withdraw, Unlock, Crash, Refuse, VerifyPasses, VerifyFails,
       RollbackFails, RemoveNothing, ListLeftovers, Inspect, PlanOnly, Decide, Reverify,
       Unlease, Cleaned, files
<1>9. CASE Stage(p) \/ Fill(p) \/ Tear(p) \/ TearMoved(p) \/ Vanish(p)
    BY <1>1, <1>9 DEF Stage, Fill, Tear, TearMoved, Vanish
<1> QED
    BY <1>3, <1>4, <1>5, <1>6, <1>7, <1>8, <1>9 DEF Step, Commit, Remove, Recover

LEMMA TypeStep ==
    ASSUME TypeOK, Flow, [Next]_vars
    PROVE  TypeOK'
<1> USE DEF CoreTypes
<1>0. CoreTypes' /\ follows' \in [Procs -> Names \union {Dest, None}] => TypeOK'
    BY DEF TypeOK
<1>1. CASE AncestorCommit
  <2>1. FileTypes'
    BY <1>1 DEF AncestorCommit, TypeOK, FileTypes, Content, coord
  <2> QED
    BY <1>0, <1>1, <2>1, TypesKept DEF AncestorCommit, TypeOK
<1>2. CASE UNCHANGED vars
    BY <1>0, <1>2, TypesKept DEF vars, files, TypeOK
<1>3. ASSUME NEW p \in Procs, Step(p) \/ Withdraw(p) \/ Crash(p) PROVE TypeOK'
  <2>1. CoreTypes'
    BY <1>3, StagingTypes, CommitTypes, RollbackTypes, RecoverTypes, DeletionTypes
       DEF Step, Commit, Remove
  <2>2. StaysOpen(p)
    BY <1>3, StaysOpenStep
  <2> QED
    BY <1>0, <2>1, <2>2 DEF StaysOpen
<1> QED
    BY <1>1, <1>2, <1>3 DEF Next

-----------------------------------------------------------------------------
\* Who does what: the lock, the stages and the names.

\* A step of p as the others see it.
SameLocal(q) ==
    /\ pc'[q] = pc[q] /\ temp'[q] = temp[q] /\ replaced'[q] = replaced[q]
    /\ doomed'[q] = doomed[q] /\ found'[q] = found[q] /\ verdict'[q] = verdict[q]

\* A deletion goes on at the destination, in what Recover renamed back.
TornThere == IsDir(dest) /\ dest' = Torn /\ \E q \in Procs : follows[q] = Dest

Seen(p) ==
    /\ \A q \in Procs : q # p => SameLocal(q)
    /\ lock = p \/ (follows' = follows /\ (dest' = dest \/ TornThere))
    /\ lock' # lock => lock \in {None, p}
    /\ lock' \in {lock, p, None}
    /\ \A n \in Names : lease'[n] # lease[n] => lease[n] \in {None, p}

\* What p does with the names.
NamesStep(p) ==
    /\ made' \in {made, made + 1}
    /\ \A n \in Names : n > made' => beside'[n] = None
    /\ DOMAIN found'[p] \subseteq 1..made'
    /\ p \notin Recoverers => \A n \in Mine(p)' : n \in Mine(p) \/ (n = made + 1 /\ made' = made + 1)

Advances(p) == Seen(p) /\ NamesStep(p) /\ LockSound(p)' /\ RoleSound(p)'

LEMMA RolesApart ==
    ASSUME NEW p \in Procs
    PROVE  /\ p \in Committers => p \notin Removers /\ p \notin Recoverers
           /\ p \in Removers => p \notin Recoverers
           /\ p \in Committers \/ p \in Removers \/ p \in Recoverers
           /\ p # None /\ p # Original /\ p # Torn
BY PublishAssumption DEF Procs

\* The others stay as they are.
LEMMA OtherFlow ==
    ASSUME TypeOK, Flow, NEW p \in Procs, Seen(p), NEW q \in Procs, q # p
    PROVE  LockSound(q)' /\ RoleSound(q)'
<1> USE DEF Flow, Seen, SameLocal
<1>0. q # None
    BY RolesApart
<1>1. LockSound(q)'
    BY <1>0 DEF LockSound
<1>2. ASSUME q \in Committers PROVE CommitterSound(q)'
  <2>1. pc[q] = "fill" => temp[q] \in Names /\ lease[temp[q]] = q
    BY <1>2, InHand DEF RoleSound, CommitterSound
  <2>2. pc[q] \in {"aside", "rejected"} => dest' = dest
    BY <1>0, <1>2 DEF LockSound, Holding, RoleSound, CommitterSound, TornThere, IsDir
  <2> QED
    BY <1>0, <1>2, <2>1, <2>2 DEF RoleSound, CommitterSound
<1>3. ASSUME q \in Removers PROVE RemoverSound(q)'
    BY <1>3 DEF RoleSound, RemoverSound
<1>4. ASSUME q \in Recoverers PROVE RecovererSound(q)'
  <2>1. pc[q] = "restore" => dest' = dest
    BY <1>0, <1>4 DEF LockSound, Holding, RoleSound, RecovererSound, TornThere, IsDir
  <2> QED
    BY <1>4, <2>1 DEF RoleSound, RecovererSound
<1> QED
    BY <1>1, <1>2, <1>3, <1>4 DEF RoleSound

LEMMA NamesKept ==
    ASSUME TypeOK, Flow, NEW p \in Procs, Seen(p), NamesStep(p)
    PROVE  NamesSound'
<1> USE DEF Flow, NamesSound
<1>0. made \in Nat
    BY PublishAssumption DEF TypeOK, FileTypes
<1>1. ASSUME NEW q \in Procs PROVE DOMAIN found'[q] \subseteq 1..made'
    BY <1>0 DEF Seen, SameLocal, NamesStep
<1>2. \A q \in Procs : q # p => Mine(q)' = Mine(q)
    BY DEF Seen, SameLocal, Mine
<1>3. \A q \in Procs \ Recoverers : \A n \in Mine(q) : n \in 1..made
    OBVIOUS
<1>4. ASSUME NEW q \in Procs \ Recoverers PROVE Mine(q)' \subseteq 1..made'
  <2>1. ASSUME NEW n \in Mine(q)' PROVE n \in 1..made'
    <3>1. n \in 1..made \/ (n = made + 1 /\ made' = made + 1)
      BY <1>2, <1>3, <2>1 DEF NamesStep
    <3> QED
      BY <1>0, <3>1 DEF NamesStep
  <2> QED
    BY <2>1
<1>5. ASSUME NEW q \in Procs \ Recoverers, q # p, p \notin Recoverers
      PROVE  Mine(p)' \intersect Mine(q)' = {}
  <2>1. ASSUME NEW n \in Mine(p)', n \in Mine(q)' PROVE FALSE
    <3>1. n \in Mine(q) /\ n \in 1..made
      BY <1>2, <1>3, <1>5, <2>1
    <3>2. n \in Mine(p)
      BY <1>0, <1>5, <2>1, <3>1 DEF NamesStep
    <3> QED
      BY <1>5, <3>1, <3>2
  <2> QED
    BY <2>1
<1>6. \A q, o \in Procs \ Recoverers : q # o => Mine(q)' \intersect Mine(o)' = {}
    BY <1>2, <1>5
<1>7. \A n \in Names : n > made' => beside'[n] = None
    BY DEF NamesStep
<1> QED
    BY <1>1, <1>4, <1>6, <1>7

LEMMA StagingFlow ==
    ASSUME TypeOK, Flow, NEW p \in Procs,
           Stage(p) \/ Own(p) \/ Fill(p) \/ FillFails(p)
    PROVE  Advances(p)
<1> USE DEF Flow, Goto, Ends, Abandon, files, coord, local
<1>0. /\ p \in Committers /\ p \notin Removers /\ p \notin Recoverers /\ p # None
      /\ CommitterSound(p) /\ LockSound(p) /\ made \in Nat
      /\ DOMAIN found[p] \subseteq 1..made
      /\ \A n \in Names : n > made => beside[n] = None
    BY InHand, RolesApart, PublishAssumption
       DEF Stage, Own, Fill, FillFails, RoleSound, TypeOK, FileTypes, NamesSound
<1>1. CASE Stage(p)
  <2>1. Seen(p)
    BY <1>1 DEF Stage, Seen, SameLocal, TypeOK, LocalTypes
  <2>2. NamesStep(p)
    <3>1. /\ made' = made + 1 /\ temp'[p] = made + 1 /\ replaced' = replaced
          /\ doomed' = doomed /\ found' = found /\ beside' = [beside EXCEPT ![made + 1] = Torn]
      BY <1>1, FreshName DEF Stage, Fresh, TypeOK, LocalTypes
    <3>2. \A n \in Names : n > made + 1 => beside'[n] = None
      BY <1>0, <3>1 DEF TypeOK, FileTypes, Names
    <3>3. \A n \in Mine(p)' : n \in Mine(p) \/ n = made + 1
      BY <3>1 DEF Mine
    <3>4. DOMAIN found[p] \subseteq 1..(made + 1)
      BY <1>0
    <3> QED
      BY <3>1, <3>2, <3>3, <3>4 DEF NamesStep
  <2>3. LockSound(p)' /\ RoleSound(p)'
    BY <1>0, <1>1, FreshName, PublishAssumption
       DEF Stage, LockSound, Holding, RoleSound, CommitterSound, TypeOK, LocalTypes, Names
  <2> QED
    BY <2>1, <2>2, <2>3 DEF Advances
<1>2. CASE Own(p)
  <2>0. temp[p] \in Names
    BY <1>2, InHand DEF Own
  <2>1. Seen(p)
    BY <1>2, <2>0 DEF Own, Seen, SameLocal, TypeOK, LocalTypes, FileTypes
  <2>2. NamesStep(p)
    BY <1>0, <1>2, <2>0
       DEF Own, NamesStep, Mine, TypeOK, LocalTypes, FileTypes
  <2>3. LockSound(p)' /\ RoleSound(p)'
    BY <1>0, <1>2, <2>0
       DEF Own, LockSound, Holding, RoleSound, CommitterSound, TypeOK, LocalTypes, FileTypes
  <2> QED
    BY <2>1, <2>2, <2>3 DEF Advances
<1>3. CASE Fill(p)
  <2>0. temp[p] \in Names /\ Torn # None
    BY <1>3, InHand, PublishAssumption DEF Fill
  <2>1. Seen(p)
    BY <1>3, <2>0 DEF Fill, Seen, SameLocal, TypeOK, LocalTypes, FileTypes
  <2>2. NamesStep(p)
    BY <1>0, <1>3, <2>0
       DEF Fill, NamesStep, Mine, TypeOK, LocalTypes, FileTypes
  <2>3. LockSound(p)' /\ RoleSound(p)'
    BY <1>0, <1>3, <2>0
       DEF Fill, LockSound, Holding, RoleSound, CommitterSound, TypeOK, LocalTypes
  <2> QED
    BY <2>1, <2>2, <2>3 DEF Advances
<1>4. CASE FillFails(p)
  <2>0. temp[p] \in Names
    BY <1>4, InHand DEF FillFails
  <2>1. Seen(p)
    BY <1>4 DEF FillFails, Seen, SameLocal, TypeOK, LocalTypes
  <2>2. NamesStep(p)
    BY <1>0, <1>4 DEF FillFails, NamesStep, Mine, TypeOK, LocalTypes
  <2>3. LockSound(p)' /\ RoleSound(p)'
    BY <1>0, <1>4, <2>0
       DEF FillFails, LockSound, Holding, RoleSound, CommitterSound, TypeOK, LocalTypes
  <2> QED
    BY <2>1, <2>2, <2>3 DEF Advances
<1> QED
    BY <1>1, <1>2, <1>3, <1>4

LEMMA LockFlow ==
    ASSUME TypeOK, Flow, NEW p \in Procs,
           Acquire(p) \/ Withdraw(p) \/ Unlock(p) \/ Crash(p)
    PROVE  Advances(p)
<1> USE DEF Flow, Goto, Ends, Abandon, files, coord, local
<1>0. /\ RoleSound(p) /\ LockSound(p) /\ made \in Nat /\ p # None
      /\ DOMAIN found[p] \subseteq 1..made
      /\ \A n \in Names : n > made => beside[n] = None
    BY RolesApart, PublishAssumption DEF TypeOK, FileTypes, NamesSound
<1>1. CASE Acquire(p)
  <2>1. Seen(p)
    BY <1>1 DEF Acquire, Free, Seen, SameLocal, TypeOK, LocalTypes
  <2>2. NamesStep(p)
    BY <1>0, <1>1 DEF Acquire, NamesStep, Mine
  <2>3. LockSound(p)' /\ RoleSound(p)'
    BY <1>0, <1>1 DEF Acquire, LockSound, Holding, RoleSound, CommitterSound, RemoverSound,
       RecovererSound, TypeOK, LocalTypes
  <2> QED
    BY <2>1, <2>2, <2>3 DEF Advances
<1>2. CASE Withdraw(p)
  <2>0. p \in Committers => temp[p] \in Names /\ p \notin Recoverers /\ p \notin Removers
    BY <1>2, InHand, RolesApart DEF Withdraw
  <2>1. Seen(p)
    BY <1>2 DEF Withdraw, Seen, SameLocal, TypeOK, LocalTypes
  <2>2. NamesStep(p)
    BY <1>0, <1>2, <2>0 DEF Withdraw, NamesStep, Mine, TypeOK, LocalTypes
  <2>3. LockSound(p)' /\ RoleSound(p)'
    BY <1>0, <1>2, <2>0, RolesApart
       DEF Withdraw, LockSound, Holding, RoleSound, CommitterSound, RemoverSound,
       RecovererSound, TypeOK, LocalTypes
  <2> QED
    BY <2>1, <2>2, <2>3 DEF Advances
<1>3. CASE Unlock(p)
  <2>1. Seen(p)
    BY <1>0, <1>3 DEF Unlock, LockSound, Holding, Seen, SameLocal, TypeOK, LocalTypes
  <2>2. NamesStep(p)
    BY <1>0, <1>3 DEF Unlock, NamesStep, Mine
  <2>3. LockSound(p)' /\ RoleSound(p)'
    BY <1>0, <1>3, RolesApart
       DEF Unlock, LockSound, Holding, RoleSound, CommitterSound, RemoverSound,
       RecovererSound, TypeOK, LocalTypes
  <2> QED
    BY <2>1, <2>2, <2>3 DEF Advances
<1>4. CASE Crash(p)
  <2>1. Seen(p)
    BY <1>0, <1>4 DEF Crash, ClaimAfter, Seen, SameLocal, TypeOK, LocalTypes, FileTypes
  <2>2. NamesStep(p)
    BY <1>0, <1>4 DEF Crash, NamesStep, Mine
  <2>3. LockSound(p)' /\ RoleSound(p)'
    BY <1>0, <1>4
       DEF Crash, LockSound, Holding, RoleSound, CommitterSound, RemoverSound,
       RecovererSound, TypeOK, LocalTypes
  <2> QED
    BY <2>1, <2>2, <2>3 DEF Advances
<1> QED
    BY <1>1, <1>2, <1>3, <1>4

LEMMA CommitFlow ==
    ASSUME TypeOK, Flow, NEW p \in Procs,
           \/ Refuse(p) \/ RenameIn(p) \/ ExchangeIn(p) \/ MoveAside(p) \/ PutIn(p)
           \/ RenameFails(p) \/ VerifyPasses(p) \/ VerifyFails(p)
    PROVE  Advances(p)
<1> USE DEF Flow, Goto, Ends, NotPublished, Staged, files, coord, local
<1>0. /\ p \in Committers /\ p \notin Removers /\ p \notin Recoverers /\ p # None
      /\ CommitterSound(p) /\ LockSound(p) /\ made \in Nat
      /\ DOMAIN found[p] \subseteq 1..made
      /\ \A n \in Names : n > made => beside[n] = None
  <2>1. p \in Committers
    BY InHand
       DEF Refuse, RenameIn, ExchangeIn, MoveAside, PutIn, RenameFails, VerifyPasses, VerifyFails
  <2> QED
    BY <2>1, RolesApart, PublishAssumption DEF RoleSound, TypeOK, FileTypes, NamesSound
<1>1. lock = p
    BY <1>0
       DEF Refuse, RenameIn, ExchangeIn, MoveAside, PutIn, RenameFails, VerifyPasses,
       VerifyFails, LockSound, Holding
<1>2. CASE Refuse(p) \/ VerifyPasses(p) \/ VerifyFails(p)
  <2>0. Refuse(p) => temp[p] \in Names /\ temp[p] # None
    BY <1>0, InHand DEF Refuse, CommitterSound
  <2>1. Seen(p)
    BY <1>2 DEF Refuse, VerifyPasses, VerifyFails, Seen, SameLocal, TypeOK, LocalTypes
  <2>2. NamesStep(p)
    BY <1>0, <1>2, <2>0
       DEF Refuse, VerifyPasses, VerifyFails, Superseded, NamesStep, Mine, TypeOK, LocalTypes
  <2>3. LockSound(p)' /\ RoleSound(p)'
    BY <1>0, <1>1, <1>2
       DEF Refuse, VerifyPasses, VerifyFails, LockSound, Holding, RoleSound, CommitterSound,
       TypeOK, LocalTypes
  <2> QED
    BY <2>1, <2>2, <2>3 DEF Advances
<1>3. CASE RenameIn(p) \/ ExchangeIn(p) \/ PutIn(p)
  <2>0. temp[p] \in Names /\ temp[p] # None /\ temp[p] \in 1..made
    BY <1>0, <1>3, InHand
       DEF RenameIn, ExchangeIn, PutIn, CommitterSound, NamesSound, Mine
  <2>1. Seen(p)
    BY <1>1, <1>3
       DEF RenameIn, ExchangeIn, PutIn, Publish, Seen, SameLocal, TypeOK, LocalTypes
  <2>2. NamesStep(p)
    <3>1. /\ made' = made /\ found' = found /\ doomed' = doomed
          /\ temp'[p] = None /\ replaced'[p] \in {None, temp[p], replaced[p]}
          /\ \E x : beside' = [beside EXCEPT ![temp[p]] = x]
      BY <1>3 DEF RenameIn, ExchangeIn, PutIn, Publish, TypeOK, LocalTypes
    <3>2. \A n \in Names : n > made => beside'[n] = None
      BY <1>0, <2>0, <3>1 DEF TypeOK, FileTypes
    <3> QED
      BY <1>0, <3>1, <3>2 DEF NamesStep, Mine
  <2>3. LockSound(p)' /\ RoleSound(p)'
    BY <1>0, <1>1, <1>3
       DEF RenameIn, ExchangeIn, PutIn, Publish, LockSound, Holding, RoleSound,
       CommitterSound, TypeOK, LocalTypes
  <2> QED
    BY <2>1, <2>2, <2>3 DEF Advances
<1>4. CASE MoveAside(p)
  <2>1. Seen(p)
    BY <1>1, <1>4 DEF MoveAside, Seen, SameLocal, TypeOK, LocalTypes
  <2>2. NamesStep(p)
    <3>1. /\ made' = made + 1 /\ temp' = temp /\ replaced'[p] = made + 1
          /\ doomed' = doomed /\ found' = found
          /\ \E x : beside' = [beside EXCEPT ![made + 1] = x]
      BY <1>4, FreshName DEF MoveAside, Fresh, TypeOK, LocalTypes
    <3>2. \A n \in Names : n > made + 1 => beside'[n] = None
      BY <1>0, <3>1 DEF TypeOK, FileTypes, Names
    <3>3. \A n \in Mine(p)' : n \in Mine(p) \/ n = made + 1
      BY <3>1 DEF Mine
    <3>4. DOMAIN found[p] \subseteq 1..(made + 1)
      BY <1>0
    <3> QED
      BY <3>1, <3>2, <3>3, <3>4 DEF NamesStep
  <2>3. LockSound(p)' /\ RoleSound(p)'
    <3>1. Fresh # None
      BY <1>4, FreshName, PublishAssumption DEF MoveAside, Names
    <3> QED
      BY <1>0, <1>1, <1>4, <3>1
         DEF MoveAside, LockSound, Holding, RoleSound, CommitterSound, TypeOK, LocalTypes
  <2> QED
    BY <2>1, <2>2, <2>3 DEF Advances
<1>5. CASE RenameFails(p)
  <2>0. temp[p] \in Names /\ temp[p] # None
    BY <1>0, <1>5, InHand DEF RenameFails, CommitterSound
  <2>1. Seen(p)
    BY <1>1, <1>5 DEF RenameFails, Seen, SameLocal, TypeOK, LocalTypes
  <2>2. NamesStep(p)
    <3>1. /\ made' = made /\ found' = found /\ doomed'[p] = {temp[p]}
          /\ temp' = temp /\ replaced' = replaced
          /\ beside' = beside \/ beside' = [beside EXCEPT ![replaced[p]] = None]
      BY <1>5 DEF RenameFails, TypeOK, LocalTypes
    <3>2. \A n \in Names : n > made => beside'[n] = None
      BY <1>0, <3>1 DEF TypeOK, FileTypes
    <3> QED
      BY <1>0, <2>0, <3>1, <3>2 DEF NamesStep, Mine
  <2>3. LockSound(p)' /\ RoleSound(p)'
    BY <1>0, <1>1, <1>5
       DEF RenameFails, LockSound, Holding, RoleSound, CommitterSound, TypeOK, LocalTypes
  <2> QED
    BY <2>1, <2>2, <2>3 DEF Advances
<1> QED
    BY <1>2, <1>3, <1>4, <1>5

LEMMA RollbackFlow ==
    ASSUME TypeOK, Flow, NEW p \in Procs,
           ExchangeBack(p) \/ RejectAside(p) \/ PutBack(p) \/ RollbackFails(p)
    PROVE  Advances(p)
<1> USE DEF Flow, Goto, Ends, files, coord, local
<1>0. /\ p \in Committers /\ p \notin Removers /\ p \notin Recoverers /\ p # None
      /\ CommitterSound(p) /\ LockSound(p) /\ made \in Nat
      /\ DOMAIN found[p] \subseteq 1..made
      /\ \A n \in Names : n > made => beside[n] = None
  <2>1. p \in Committers
    BY InHand DEF ExchangeBack, RejectAside, PutBack, RollbackFails
  <2> QED
    BY <2>1, RolesApart, PublishAssumption DEF RoleSound, TypeOK, FileTypes, NamesSound
<1>1. lock = p
    BY <1>0 DEF ExchangeBack, RejectAside, PutBack, RollbackFails, LockSound, Holding
<1>2. CASE ExchangeBack(p) \/ PutBack(p) \/ RollbackFails(p)
  <2>1. Seen(p)
    BY <1>1, <1>2
       DEF ExchangeBack, PutBack, RollbackFails, Seen, SameLocal, TypeOK, LocalTypes
  <2>2. NamesStep(p)
    <3>1. /\ made' = made /\ found' = found /\ temp' = temp /\ replaced' = replaced
          /\ doomed'[p] \in {doomed[p], {}, {replaced[p]}}
          /\ \/ beside' = beside
             \/ replaced[p] # None /\ \E x : beside' = [beside EXCEPT ![replaced[p]] = x]
      BY <1>0, <1>2
         DEF ExchangeBack, PutBack, RollbackFails, CommitterSound, TypeOK, LocalTypes
    <3>2. \A n \in Names : n > made => beside'[n] = None
      <4>1. replaced[p] # None => replaced[p] \in 1..made
        BY <1>0 DEF NamesSound, Mine
      <4> QED
        BY <1>0, <3>1, <4>1 DEF TypeOK, FileTypes
    <3> QED
      BY <1>0, <3>1, <3>2 DEF NamesStep, Mine
  <2>3. LockSound(p)' /\ RoleSound(p)'
    BY <1>0, <1>1, <1>2
       DEF ExchangeBack, PutBack, RollbackFails, LockSound, Holding, RoleSound,
       CommitterSound, TypeOK, LocalTypes
  <2> QED
    BY <2>1, <2>2, <2>3 DEF Advances
<1>3. CASE RejectAside(p)
  <2>1. Seen(p)
    BY <1>1, <1>3 DEF RejectAside, Seen, SameLocal, TypeOK, LocalTypes
  <2>2. NamesStep(p)
    <3>1. /\ made' = made + 1 /\ temp' = temp /\ replaced' = replaced
          /\ doomed'[p] = {made + 1} /\ found' = found
          /\ \E x : beside' = [beside EXCEPT ![made + 1] = x]
      BY <1>3, FreshName DEF RejectAside, Fresh, TypeOK, LocalTypes
    <3>2. \A n \in Names : n > made + 1 => beside'[n] = None
      BY <1>0, <3>1 DEF TypeOK, FileTypes, Names
    <3>3. \A n \in Mine(p)' : n \in Mine(p) \/ n = made + 1
      BY <3>1 DEF Mine
    <3>4. DOMAIN found[p] \subseteq 1..(made + 1)
      BY <1>0
    <3> QED
      BY <3>1, <3>2, <3>3, <3>4 DEF NamesStep
  <2>3. LockSound(p)' /\ RoleSound(p)'
    BY <1>0, <1>1, <1>3
       DEF RejectAside, LockSound, Holding, RoleSound, CommitterSound, TypeOK, LocalTypes
  <2> QED
    BY <2>1, <2>2, <2>3 DEF Advances
<1> QED
    BY <1>2, <1>3

LEMMA RemoveFlow ==
    ASSUME TypeOK, Flow, NEW p \in Procs, Remove(p)
    PROVE  Advances(p)
<1> USE DEF Flow, Goto, Ends, files, coord, local
<1>0. /\ p \in Removers /\ p \notin Committers /\ p \notin Recoverers /\ p # None
      /\ RemoverSound(p) /\ LockSound(p) /\ made \in Nat
      /\ DOMAIN found[p] \subseteq 1..made
      /\ \A n \in Names : n > made => beside[n] = None
    BY RolesApart, PublishAssumption
       DEF Remove, RemoveNothing, RemoveEntry, RoleSound, TypeOK, FileTypes, NamesSound
<1>1. lock = p
    BY <1>0 DEF Remove, RemoveNothing, RemoveEntry, LockSound, Holding
<1>2. Seen(p)
    BY <1>1 DEF Remove, RemoveNothing, RemoveEntry, Seen, SameLocal, TypeOK, LocalTypes
<1>3. NamesStep(p)
  <2>1. CASE UNCHANGED <<beside, made, doomed>>
    BY <1>0, <2>1 DEF Remove, RemoveNothing, RemoveEntry, NamesStep, Mine
  <2>2. CASE /\ MakeName /\ beside' = [beside EXCEPT ![Fresh] = dest]
             /\ doomed' = [doomed EXCEPT ![p] = {Fresh}] /\ RemoveEntry(p)
    <3>1. /\ made' = made + 1 /\ temp' = temp /\ replaced' = replaced
          /\ doomed'[p] = {made + 1} /\ found' = found
          /\ beside' = [beside EXCEPT ![made + 1] = dest]
      BY <2>2, FreshName DEF RemoveEntry, Fresh, TypeOK, LocalTypes
    <3>2. \A n \in Names : n > made + 1 => beside'[n] = None
      BY <1>0, <3>1 DEF TypeOK, FileTypes, Names
    <3>3. \A n \in Mine(p)' : n \in Mine(p) \/ n = made + 1
      BY <3>1 DEF Mine
    <3>4. DOMAIN found[p] \subseteq 1..(made + 1)
      BY <1>0
    <3> QED
      BY <3>1, <3>2, <3>3, <3>4 DEF NamesStep
  <2> QED
    BY <2>1, <2>2 DEF Remove, RemoveNothing, RemoveEntry
<1>4. LockSound(p)' /\ RoleSound(p)'
    BY <1>0, <1>1
       DEF Remove, RemoveNothing, RemoveEntry, LockSound, Holding, RoleSound, RemoverSound,
       TypeOK, LocalTypes
<1> QED
    BY <1>2, <1>3, <1>4 DEF Advances

LEMMA RecoverFlow ==
    ASSUME TypeOK, Flow, NEW p \in Procs, Recover(p)
    PROVE  Advances(p)
<1> USE DEF Flow, Goto, Ends, files, coord, local
<1>0. /\ p \in Recoverers /\ p \notin Committers /\ p \notin Removers /\ p # None
      /\ RecovererSound(p) /\ LockSound(p) /\ made \in Nat
      /\ DOMAIN found[p] \subseteq 1..made
      /\ \A n \in Names : n > made => beside[n] = None
  <2>1. p \in Recoverers
    BY InHand
       DEF Recover, ListLeftovers, Inspect, Decide, PlanOnly, Restore, Reverify, Unlease
  <2> QED
    BY <2>1, RolesApart, PublishAssumption DEF RoleSound, TypeOK, FileTypes, NamesSound
<1>1. lock = p
    BY <1>0 DEF Recover, ListLeftovers, Inspect, Decide, PlanOnly, Restore, Reverify, Unlease,
       LockSound, Holding
<1>2. CASE ListLeftovers(p)
  <2>0. DOMAIN found'[p] = {m \in Names : beside[m] # None}
    BY <1>2 DEF ListLeftovers, TypeOK, LocalTypes
  <2>1. Seen(p)
    BY <1>1, <1>2 DEF ListLeftovers, Seen, SameLocal, TypeOK, LocalTypes
  <2>2. NamesStep(p)
    BY <1>0, <1>2, <2>0 DEF ListLeftovers, NamesStep, Names
  <2>3. LockSound(p)' /\ RoleSound(p)'
    BY <1>0, <1>1, <1>2
       DEF ListLeftovers, LockSound, Holding, RoleSound, RecovererSound, TypeOK, LocalTypes
  <2> QED
    BY <2>1, <2>2, <2>3 DEF Advances
<1>3. CASE Inspect(p)
  <2>1. PICK n \in DOMAIN found[p] :
          /\ lease' = lease \/ (lease[n] = None /\ lease' = [lease EXCEPT ![n] = p])
          /\ \E x : found' = [found EXCEPT ![p][n] = x]
    BY <1>3 DEF Inspect
  <2>2. DOMAIN found'[p] = DOMAIN found[p] /\ \A q \in Procs : q # p => found'[q] = found[q]
    BY <2>1 DEF TypeOK, LocalTypes
  <2>3. Seen(p)
    BY <1>1, <1>3, <2>1, <2>2 DEF Inspect, Seen, SameLocal, TypeOK, FileTypes
  <2>4. NamesStep(p)
    BY <1>0, <1>3, <2>2 DEF Inspect, NamesStep
  <2>5. LockSound(p)' /\ RoleSound(p)'
    BY <1>0, <1>1, <1>3 DEF Inspect, LockSound, Holding, RoleSound, RecovererSound
  <2> QED
    BY <2>3, <2>4, <2>5 DEF Advances
<1>4. CASE Decide(p)
  <2>1. Seen(p)
    BY <1>1, <1>4 DEF Decide, Seen, SameLocal, TypeOK, LocalTypes
  <2>2. NamesStep(p)
    BY <1>0, <1>4 DEF Decide, NamesStep
  <2>3. LockSound(p)' /\ RoleSound(p)'
    BY <1>0, <1>1, <1>4
       DEF Decide, Originals, LockSound, Holding, RoleSound, RecovererSound, TypeOK, LocalTypes
  <2> QED
    BY <2>1, <2>2, <2>3 DEF Advances
<1>5. CASE PlanOnly(p) \/ Reverify(p) \/ Unlease(p)
  <2>1. Seen(p)
    BY <1>1, <1>5
       DEF PlanOnly, Reverify, Unlease, Seen, SameLocal, TypeOK, LocalTypes, FileTypes
  <2>2. NamesStep(p)
    BY <1>0, <1>5 DEF PlanOnly, Reverify, Unlease, NamesStep
  <2>3. LockSound(p)' /\ RoleSound(p)'
    BY <1>0, <1>1, <1>5
       DEF PlanOnly, Reverify, Unlease, LockSound, Holding, RoleSound, RecovererSound,
       TypeOK, LocalTypes
  <2> QED
    BY <2>1, <2>2, <2>3 DEF Advances
<1>6. CASE Restore(p)
  <2>1. Seen(p)
    BY <1>1, <1>6 DEF Restore, Seen, SameLocal, TypeOK, LocalTypes
  <2>2. NamesStep(p)
    BY <1>0, <1>6 DEF Restore, NamesStep, TypeOK, FileTypes
  <2>3. LockSound(p)' /\ RoleSound(p)'
    BY <1>0, <1>1, <1>6
       DEF Restore, LockSound, Holding, RoleSound, RecovererSound, TypeOK, LocalTypes
  <2> QED
    BY <2>1, <2>2, <2>3 DEF Advances
<1> QED
    BY <1>2, <1>3, <1>4, <1>5, <1>6 DEF Recover

LEMMA DeletionFlow ==
    ASSUME TypeOK, Flow, NEW p \in Procs, Tear(p) \/ TearMoved(p) \/ Vanish(p) \/ Cleaned(p)
    PROVE  Advances(p)
<1> USE DEF Flow, Goto, files, coord, local
<1>0. /\ RoleSound(p) /\ LockSound(p) /\ made \in Nat /\ p # None
      /\ DOMAIN found[p] \subseteq 1..made
      /\ \A n \in Names : n > made => beside[n] = None
    BY RolesApart, PublishAssumption DEF TypeOK, FileTypes, NamesSound
<1>1. CASE Tear(p) \/ Vanish(p)
  <2>1. PICK n \in doomed[p] :
          /\ \/ IsDir(beside[n]) /\ beside' = [beside EXCEPT ![n] = Torn] /\ doomed' = doomed
             \/ /\ beside' = [beside EXCEPT ![n] = None]
                /\ doomed' = [doomed EXCEPT ![p] = @ \ {n}]
    BY <1>1 DEF Tear, Vanish
  <2>2. doomed'[p] \subseteq doomed[p] /\ \A q \in Procs : q # p => doomed'[q] = doomed[q]
    BY <2>1 DEF TypeOK, LocalTypes
  <2>3. Seen(p)
    BY <1>1, <2>2 DEF Tear, Vanish, Seen, SameLocal
  <2>4. NamesStep(p)
    <3>1. \A m \in Names : beside[m] = None => beside'[m] = None
      BY <2>1 DEF IsDir, TypeOK, FileTypes
    <3> QED
      BY <1>0, <1>1, <2>2, <3>1 DEF Tear, Vanish, NamesStep, Mine
  <2>5. LockSound(p)' /\ RoleSound(p)'
    BY <1>0, <1>1, <2>2 DEF Tear, Vanish, LockSound, Holding, RoleSound, CommitterSound,
       RemoverSound, RecovererSound
  <2> QED
    BY <2>3, <2>4, <2>5 DEF Advances
<1>2. CASE Cleaned(p)
  <2>1. Seen(p)
    BY <1>2 DEF Cleaned, Seen, SameLocal, TypeOK, LocalTypes, FileTypes
  <2>2. NamesStep(p)
    BY <1>0, <1>2 DEF Cleaned, NamesStep, Mine
  <2>3. LockSound(p)' /\ RoleSound(p)'
    BY <1>0, <1>2, RolesApart DEF Cleaned, LockSound, Holding, RoleSound, CommitterSound,
       RemoverSound, RecovererSound, TypeOK, LocalTypes
  <2> QED
    BY <2>1, <2>2, <2>3 DEF Advances
<1>3. CASE TearMoved(p)
  <2>1. /\ dest' = dest \/ TornThere
        /\ \A n \in Names : beside[n] = None => beside'[n] = None
    BY <1>3 DEF TearMoved, Pursues, ContentAt, TornThere, IsDir, TypeOK, FileTypes, Dest, Names
  <2>2. Seen(p)
    BY <1>3, <2>1 DEF TearMoved, Seen, SameLocal
  <2>3. NamesStep(p)
    BY <1>0, <1>3, <2>1 DEF TearMoved, NamesStep, Mine
  <2>4. LockSound(p)' /\ RoleSound(p)'
    BY <1>0, <1>3 DEF TearMoved, LockSound, Holding, RoleSound, CommitterSound, RemoverSound,
       RecovererSound
  <2> QED
    BY <2>2, <2>3, <2>4 DEF Advances
<1> QED
    BY <1>1, <1>2, <1>3

\* One process takes each step, and the others stay as they are.
LEMMA Advance ==
    ASSUME TypeOK, Flow, NEW p \in Procs, Step(p) \/ Withdraw(p) \/ Crash(p)
    PROVE  Advances(p) /\ Flow'
<1>1. Advances(p)
    BY StagingFlow, LockFlow, CommitFlow, RollbackFlow, RemoveFlow, RecoverFlow, DeletionFlow
       DEF Step, Commit
<1>2. \A q \in Procs : LockSound(q)' /\ RoleSound(q)'
    BY <1>1, OtherFlow DEF Advances
<1>3. NamesSound'
    BY <1>1, NamesKept DEF Advances
<1> QED
    BY <1>1, <1>2, <1>3 DEF Flow

LEMMA FlowStep ==
    ASSUME TypeOK, Flow, [Next]_vars
    PROVE  Flow'
<1>1. CASE AncestorCommit
  <2>0. \A q \in Procs : q # None
    BY RolesApart
  <2>1. NamesSound'
    BY <1>1 DEF AncestorCommit, Flow, NamesSound, Mine, local, files, Names
  <2>2. \A q \in Procs : LockSound(q)' /\ RoleSound(q)'
    BY <1>1 DEF AncestorCommit, Flow, LockSound, RoleSound, CommitterSound, RemoverSound,
       RecovererSound, local, coord
  <2> QED
    BY <2>1, <2>2 DEF Flow
<1>2. CASE UNCHANGED vars
    BY <1>2 DEF vars, files, coord, local, Flow, NamesSound, Mine, LockSound, RoleSound,
       CommitterSound, RemoverSound, RecovererSound
<1>3. ASSUME NEW p \in Procs, Step(p) \/ Withdraw(p) \/ Crash(p) PROVE Flow'
    BY <1>3, Advance
<1> QED
    BY <1>1, <1>2, <1>3 DEF Next

LEMMA InitFlow == Init => Flow
<1> SUFFICES ASSUME Init PROVE Flow
    OBVIOUS
<1>1. NamesSound
    BY PublishAssumption DEF Init, NamesSound, Mine
<1>2. \A p \in Procs : LockSound(p) /\ RoleSound(p)
    BY RolesApart
       DEF Init, LockSound, Holding, RoleSound, CommitterSound, RemoverSound, RecovererSound, Procs
<1> QED
    BY <1>1, <1>2 DEF Flow

LEMMA FlowHolds == Spec => [](TypeOK /\ Flow)
BY InitTypeOK, InitFlow, TypeStep, FlowStep, PTL DEF Spec

\* Every variable keeps its type.
THEOREM TypeCorrect == Spec => []TypeOK
BY FlowHolds, PTL

-----------------------------------------------------------------------------
\* The original survives.

\* What p writes: nothing, or its own content under its own names.
Writes(p) ==
    /\ \A n \in Names :
        \/ beside'[n] = beside[n] \/ beside'[n] \in {None, Torn}
        \/ /\ p \notin Recoverers /\ n \in Mine(p)'
           /\ lock = p \/ (n = temp[p] /\ lease[n] = p /\ beside'[n] = p)
    /\ \A n \in Names :
        beside[n] = Original => beside'[n] = Original \/ lock = p \/ accepted'
    /\ temp'[p] \in {temp[p], None, made + 1}
    /\ accepted => accepted'

KeepsOriginal(p) ==
    /\ Writes(p) /\ OriginalSurvives' /\ DoomedSound(p)'
    /\ p \in Committers => StagedSound(p)'

LEMMA Distinct ==
    /\ None # Original /\ None # Torn /\ Original # Torn
    /\ IsDir(Original) /\ IsDir(Torn) /\ ~IsDir(None)
    /\ IsPlanned(Original) /\ ~IsPlanned(Torn) /\ ~IsPlanned(None)
    /\ \A x : IsPlanned(x) => IsDir(x)
    /\ None \notin Nat /\ None \notin Names
    /\ \A x \in Marks : x # None /\ x # Original /\ x # Torn /\ ~IsPlanned(x)
<1>1. None \notin Names
    BY PublishAssumption DEF Names
<1>2. Marks \intersect (Procs \union {None, Original, Torn}) = {}
    BY PublishAssumption
<1> QED
    BY <1>1, <1>2, PublishAssumption DEF IsDir, IsPlanned, Procs

\* Where the original is.
Somewhere == accepted \/ dest = Original \/ \E n \in Names : beside[n] = Original

LEMMA OriginalSomewhere == OriginalSurvives <=> Somewhere
BY DEF OriginalSurvives, Somewhere

LEMMA OthersKept ==
    ASSUME TypeOK, Flow, Flow', Kept, NEW p \in Procs, Advances(p), Writes(p),
           NEW q \in Procs, q # p
    PROVE  DoomedSound(q)' /\ (q \in Committers => StagedSound(q)')
<1> USE DEF Advances, Seen, SameLocal
<1>1. ASSUME q \notin Recoverers, NEW n \in Names, n \in Mine(q)
      PROVE  beside'[n] = beside[n] \/ beside'[n] \in {None, Torn}
  <2>1. n \in Mine(q)'
    BY <1>1 DEF Mine
  <2>2. p \notin Recoverers => n \notin Mine(p)'
    BY <1>1, <2>1 DEF Flow, NamesSound
  <2> QED
    BY <2>2 DEF Writes
<1>2. DoomedSound(q)'
  <2>1. CASE q \notin Recoverers
    <3>1. \A n \in doomed[q] : n \in Names /\ n \in Mine(q)
      BY InHand, Distinct DEF Mine
    <3> QED
      BY <1>1, <2>1, <3>1, Distinct DEF Writes, Kept, DoomedSound
  <2>2. CASE q \in Recoverers
    <3>1. pc[q] = "clean" /\ doomed[q] # {} => dest' = dest \/ accepted
      BY <2>2, RolesApart, Distinct DEF Flow, LockSound, TornThere, Kept, FollowsSound, Dest
    <3> QED
      BY <2>2, <3>1 DEF Writes, Kept, DoomedSound
  <2> QED
    BY <2>1, <2>2
<1>3. ASSUME q \in Committers PROVE StagedSound(q)'
  <2>1. temp[q] # None => temp[q] \in Names /\ temp[q] \in Mine(q) /\ q \notin Recoverers
    BY <1>3, InHand, RolesApart DEF Mine
  <2>2. pc[q] \in {"verify", "rollback"} => dest' \in {dest, Torn}
    BY RolesApart DEF Flow, LockSound, Holding, TornThere
  <2> QED
    BY <1>1, <1>3, <2>1, <2>2, Distinct DEF Kept, StagedSound
<1> QED
    BY <1>2, <1>3

\* A step that leaves the files alone.
LEMMA FilesKept ==
    ASSUME TypeOK, Flow, Kept, NEW p \in Procs, UNCHANGED files, accepted => accepted',
           temp' = temp, doomed'[p] \in {doomed[p], {}, {temp[p]}},
           doomed'[p] = {temp[p]} => doomed'[p] = doomed[p] \/ (p \in Committers /\ temp[p] # None),
           pc'[p] \in {"verify", "rollback"} => pc[p] \in {"verify", "rollback"},
           p \notin Recoverers \/ pc'[p] # "clean" \/ doomed'[p] = {}
    PROVE  KeepsOriginal(p)
<1> USE DEF files
<1>1. Writes(p) /\ OriginalSurvives'
    BY DEF Writes, Kept, OriginalSurvives
<1>2. p \in Committers => StagedSound(p)'
    BY DEF Kept, StagedSound
<1>3. DoomedSound(p)'
  <2>1. CASE doomed'[p] = {temp[p]} /\ doomed'[p] # doomed[p]
    BY <2>1, Distinct, RolesApart DEF Kept, StagedSound, DoomedSound
  <2>2. CASE doomed'[p] \in {doomed[p], {}}
    BY <2>2 DEF Kept, DoomedSound
  <2> QED
    BY <2>1, <2>2
<1> QED
    BY <1>1, <1>2, <1>3 DEF KeepsOriginal

LEMMA QuietKept ==
    ASSUME TypeOK, Flow, Kept, NEW p \in Procs,
           \/ Own(p) \/ FillFails(p) \/ Acquire(p) \/ Withdraw(p) \/ Unlock(p) \/ Crash(p)
           \/ Refuse(p) \/ VerifyFails(p) \/ RollbackFails(p) \/ RemoveNothing(p)
           \/ ListLeftovers(p) \/ Inspect(p) \/ PlanOnly(p) \/ Unlease(p) \/ Cleaned(p)
    PROVE  KeepsOriginal(p)
<1>1. UNCHANGED files /\ temp' = temp /\ (accepted => accepted')
    BY DEF Own, FillFails, Acquire, Withdraw, Unlock, Crash, Refuse, VerifyFails, RollbackFails,
       RemoveNothing, ListLeftovers, Inspect, PlanOnly, Unlease, Cleaned, Abandon, NotPublished, local
<1>2. pc'[p] \in {"verify", "rollback"} => pc[p] \in {"verify", "rollback"}
    BY DEF Own, FillFails, Acquire, Withdraw, Unlock, Crash, Refuse, VerifyFails, RollbackFails,
       RemoveNothing, ListLeftovers, Inspect, PlanOnly, Unlease, Cleaned, Abandon, NotPublished,
       Goto, TypeOK, LocalTypes
<1>3. p \in Recoverers /\ pc'[p] = "clean" => doomed'[p] = {}
  <2>1. p \in Recoverers => p \notin Committers /\ p \notin Removers /\ RecovererSound(p)
    BY RolesApart DEF Flow, RoleSound
  <2>2. CASE Own(p) \/ FillFails(p) \/ Refuse(p) \/ VerifyFails(p) \/ RollbackFails(p) \/ RemoveNothing(p)
    BY <2>1, <2>2, InHand DEF Own, FillFails, Refuse, VerifyFails, RollbackFails, RemoveNothing
  <2>3. CASE Unlock(p)
    BY <2>1, <2>3 DEF Unlock, RecovererSound, local
  <2>4. CASE \/ Acquire(p) \/ Withdraw(p) \/ Crash(p) \/ ListLeftovers(p) \/ Inspect(p)
             \/ PlanOnly(p) \/ Unlease(p) \/ Cleaned(p)
    BY <2>1, <2>4 DEF Acquire, Withdraw, Crash, ListLeftovers, Inspect, PlanOnly, Unlease,
       Cleaned, Goto, TypeOK, LocalTypes
  <2> QED
    BY <2>2, <2>3, <2>4
<1>4. /\ doomed'[p] \in {doomed[p], {}, {temp[p]}}
      /\ doomed'[p] = {temp[p]} => doomed'[p] = doomed[p] \/ (p \in Committers /\ temp[p] # None)
  <2>1. CASE Own(p) \/ FillFails(p) \/ Withdraw(p) \/ Refuse(p)
    BY <2>1, InHand, Distinct DEF Own, FillFails, Withdraw, Refuse, Abandon, NotPublished, TypeOK, LocalTypes
  <2>2. CASE RollbackFails(p)
    BY <2>2 DEF RollbackFails, TypeOK, LocalTypes
  <2>3. CASE \/ Acquire(p) \/ Unlock(p) \/ Crash(p) \/ VerifyFails(p) \/ RemoveNothing(p)
             \/ ListLeftovers(p) \/ Inspect(p) \/ PlanOnly(p) \/ Unlease(p) \/ Cleaned(p)
    BY <2>3 DEF Acquire, Unlock, Crash, VerifyFails, RemoveNothing, ListLeftovers, Inspect,
       PlanOnly, Unlease, Cleaned, local
  <2> QED
    BY <2>1, <2>2, <2>3
<1> QED
    BY <1>1, <1>2, <1>3, <1>4, FilesKept

\* Where p stands under the lock, or before it.
LEMMA CommitterFacts ==
    ASSUME TypeOK, Flow, Kept, NEW p \in Committers
    PROVE  /\ p \in Procs /\ p \notin Recoverers /\ p \notin Removers
           /\ p # None /\ p # Original /\ p # Torn
           /\ CommitterSound(p) /\ LockSound(p) /\ StagedSound(p) /\ DoomedSound(p)
           /\ temp[p] \in Names \union {None} /\ replaced[p] \in Names \union {None}
           /\ temp[p] # None => temp[p] \in 1..made
           /\ replaced[p] # None => replaced[p] \in 1..made
           /\ doomed[p] \subseteq 1..made /\ doomed[p] \subseteq Names
<1>1. p \in Procs
    BY DEF Procs
<1>2. p \notin Recoverers /\ p \notin Removers /\ p # None /\ p # Original /\ p # Torn
    BY <1>1, RolesApart
<1>3. doomed[p] \subseteq Names
    BY <1>1 DEF TypeOK, LocalTypes
<1>4. Mine(p) \subseteq 1..made
    BY <1>1, <1>2 DEF Flow, NamesSound
<1>5. doomed[p] \subseteq 1..made
    BY <1>3, <1>4, Distinct DEF Mine
<1> QED
    BY <1>1, <1>2, <1>3, <1>4, <1>5
       DEF Flow, RoleSound, Kept, TypeOK, LocalTypes, Mine

LEMMA FreshFacts ==
    ASSUME TypeOK, Flow, MakeName
    PROVE  /\ Fresh \in Names /\ Fresh # None /\ Fresh = made + 1 /\ beside[Fresh] = None
           /\ \A n \in 1..made : n # Fresh
<1>1. Fresh \in Names /\ made \in Nat /\ Fresh = made + 1
    BY FreshName DEF Fresh
<1>2. Fresh > made
    BY <1>1
<1> QED
    BY <1>1, <1>2, Distinct DEF Flow, NamesSound

LEMMA StagingKept ==
    ASSUME TypeOK, Flow, Kept, NEW p \in Procs, Stage(p) \/ Fill(p)
    PROVE  KeepsOriginal(p)
<1> USE DEF Goto, local, TypeOK, FileTypes, LocalTypes
<1>0. p \in Committers
    BY InHand DEF Stage, Fill
<1>1. CASE Stage(p)
  <2>1. /\ beside' = [beside EXCEPT ![Fresh] = Torn] /\ temp'[p] = Fresh
        /\ dest' = dest /\ accepted' = accepted /\ doomed' = doomed /\ pc'[p] = "own"
        /\ pc[p] = "stage" /\ MakeName
    BY <1>1 DEF Stage
  <2>2. Somewhere'
    BY <2>1, FreshFacts, Distinct, OriginalSomewhere DEF Kept, Somewhere
  <2>3. Writes(p)
    BY <2>1, FreshFacts, Distinct DEF Writes
  <2>4. DoomedSound(p)'
    BY <1>0, <2>1, CommitterFacts, FreshFacts, Distinct DEF DoomedSound
  <2>5. StagedSound(p)'
    BY <2>1, FreshFacts DEF StagedSound
  <2> QED
    BY <2>2, <2>3, <2>4, <2>5, OriginalSomewhere, PTL DEF KeepsOriginal
<1>2. CASE Fill(p)
  <2>1. /\ temp[p] \in Names /\ temp[p] # None /\ lease[temp[p]] = p
        /\ beside' = [beside EXCEPT ![temp[p]] = p] /\ beside[temp[p]] = Torn
        /\ temp' = temp /\ dest' = dest /\ accepted' = accepted /\ doomed' = doomed
        /\ pc'[p] = "wait" /\ doomed[p] = {}
    BY <1>0, <1>2, CommitterFacts DEF Fill, CommitterSound
  <2>2. Somewhere'
    BY <2>1, Distinct, OriginalSomewhere DEF Kept, Somewhere
  <2>3. Writes(p)
    BY <1>0, <2>1, CommitterFacts, Distinct DEF Writes, Mine
  <2>4. DoomedSound(p)'
    BY <1>0, <2>1, CommitterFacts DEF DoomedSound
  <2>5. StagedSound(p)'
    BY <2>1 DEF StagedSound
  <2> QED
    BY <2>2, <2>3, <2>4, <2>5, OriginalSomewhere, PTL DEF KeepsOriginal
<1> QED
    BY <1>1, <1>2

\* What takes the destination's place is the staged content.
LEMMA PublishKept ==
    ASSUME TypeOK, Flow, Kept, NEW p \in Procs,
           RenameIn(p) \/ ExchangeIn(p) \/ PutIn(p) \/ MoveAside(p)
    PROVE  KeepsOriginal(p)
<1> USE DEF Goto, local, TypeOK, FileTypes, LocalTypes
<1>0. /\ p \in Committers /\ temp[p] \in Names /\ temp[p] # None /\ temp[p] \in 1..made
      /\ beside[temp[p]] \in {None, Torn, p} /\ doomed[p] = {} /\ lock = p
      /\ p # Original
  <2>1. p \in Committers
    BY InHand DEF RenameIn, ExchangeIn, PutIn, MoveAside, Staged
  <2> QED
    BY <2>1, CommitterFacts
       DEF RenameIn, ExchangeIn, PutIn, MoveAside, Staged, CommitterSound, StagedSound,
       LockSound, Holding
<1>1. CASE RenameIn(p) \/ ExchangeIn(p) \/ PutIn(p)
  <2>1. /\ dest' = beside[temp[p]] /\ temp'[p] = None /\ doomed' = doomed
        /\ accepted' = accepted /\ pc'[p] = "verify"
    BY <1>1 DEF RenameIn, ExchangeIn, PutIn, Publish
  <2>2. \/ dest # Original /\ beside' = [beside EXCEPT ![temp[p]] = None]
        \/ /\ beside' = [beside EXCEPT ![temp[p]] = dest]
           /\ replaced'[p] = temp[p]
    <3>1. CASE RenameIn(p)
      BY <3>1, Distinct DEF RenameIn
    <3>2. CASE ExchangeIn(p)
      BY <3>2 DEF ExchangeIn, Publish
    <3>3. CASE PutIn(p)
      BY <1>0, <3>3, CommitterFacts, Distinct DEF PutIn, CommitterSound
    <3> QED
      BY <1>1, <3>1, <3>2, <3>3
  <2>3. Somewhere'
    BY <1>0, <2>1, <2>2, Distinct, OriginalSomewhere DEF Kept, Somewhere
  <2>4. Writes(p)
    <3>1. replaced'[p] = temp[p] => temp[p] \in Mine(p)'
      BY <1>0 DEF Mine
    <3>2. p \notin Recoverers
      BY <1>0, CommitterFacts
    <3> QED
      BY <1>0, <2>1, <2>2, <3>1, <3>2 DEF Writes
  <2>5. DoomedSound(p)' /\ StagedSound(p)'
    BY <1>0, <2>1, CommitterFacts, Distinct DEF DoomedSound, StagedSound
  <2> QED
    BY <2>3, <2>4, <2>5, OriginalSomewhere, PTL DEF KeepsOriginal
<1>2. CASE MoveAside(p)
  <2>1. /\ beside' = [beside EXCEPT ![Fresh] = dest] /\ dest' = None
        /\ replaced'[p] = Fresh /\ pc'[p] = "aside" /\ MakeName
        /\ temp' = temp /\ doomed' = doomed /\ accepted' = accepted
    BY <1>2 DEF MoveAside
  <2>2. Somewhere'
    BY <2>1, FreshFacts, Distinct, OriginalSomewhere DEF Kept, Somewhere
  <2>3. Writes(p)
    <3>1. Fresh \in Mine(p)' /\ p \notin Recoverers
      BY <1>0, <2>1, FreshFacts, CommitterFacts DEF Mine
    <3> QED
      BY <1>0, <2>1, <3>1 DEF Writes
  <2>4. DoomedSound(p)' /\ StagedSound(p)'
    <3>1. Fresh # temp[p] /\ p \notin Recoverers
      BY <1>0, <2>1, FreshFacts, CommitterFacts
    <3> QED
      BY <1>0, <2>1, <3>1 DEF DoomedSound, StagedSound
  <2> QED
    BY <2>2, <2>3, <2>4, OriginalSomewhere, PTL DEF KeepsOriginal
<1> QED
    BY <1>1, <1>2

LEMMA VerdictKept ==
    ASSUME TypeOK, Flow, Kept, NEW p \in Procs, RenameFails(p) \/ VerifyPasses(p)
    PROVE  KeepsOriginal(p)
<1> USE DEF Goto, local, TypeOK, FileTypes, LocalTypes
<1>0. p \in Committers
    BY InHand DEF RenameFails, VerifyPasses, Staged
<1>1. CASE RenameFails(p)
  <2>1. /\ temp[p] \in Names /\ beside[temp[p]] \in {None, Torn, p} /\ p # Original
        /\ temp' = temp /\ doomed'[p] = {temp[p]} /\ accepted' = accepted
        /\ pc'[p] = "unlock" /\ temp[p] # None
    BY <1>0, <1>1, CommitterFacts
       DEF RenameFails, NotPublished, Staged, CommitterSound, StagedSound
  <2>0. lock = p
    BY <1>0, <1>1, CommitterFacts DEF RenameFails, Staged, LockSound, Holding
  <2>2. \/ UNCHANGED files
        \/ /\ dest = None /\ dest' = beside[replaced[p]] /\ replaced[p] \in Names
           /\ beside' = [beside EXCEPT ![replaced[p]] = None]
    BY <1>0, <1>1, CommitterFacts DEF RenameFails, NotPublished, CommitterSound
  <2>3. Somewhere'
    BY <2>1, <2>2, Distinct, OriginalSomewhere DEF Kept, Somewhere, files
  <2>4. Writes(p)
    BY <2>0, <2>1, <2>2 DEF Writes, files
  <2>5. DoomedSound(p)' /\ StagedSound(p)'
    BY <1>0, <2>1, <2>2, Distinct DEF DoomedSound, StagedSound, files
  <2> QED
    BY <2>3, <2>4, <2>5, OriginalSomewhere, PTL DEF KeepsOriginal
<1>2. CASE VerifyPasses(p)
  <2>1. accepted' /\ UNCHANGED files /\ temp' = temp /\ pc'[p] = "unlock"
    BY <1>2 DEF VerifyPasses
  <2>2. p \notin Recoverers /\ temp[p] = None
    BY <1>0, <1>2, CommitterFacts DEF VerifyPasses, CommitterSound
  <2>3. Writes(p)
    BY <2>1 DEF Writes, files
  <2> QED
    BY <2>1, <2>2, <2>3 DEF KeepsOriginal, OriginalSurvives, DoomedSound, StagedSound
<1> QED
    BY <1>1, <1>2

\* What is taken back is not the original, and what is put back may be.
LEMMA RollbackKept ==
    ASSUME TypeOK, Flow, Kept, NEW p \in Procs,
           ExchangeBack(p) \/ RejectAside(p) \/ PutBack(p)
    PROVE  KeepsOriginal(p)
<1> USE DEF Goto, local, TypeOK, FileTypes, LocalTypes
<1>0. p \in Committers
    BY InHand DEF ExchangeBack, RejectAside, PutBack
<1>1. temp[p] = None /\ lock = p /\ p \notin Recoverers
    BY <1>0, CommitterFacts
       DEF ExchangeBack, RejectAside, PutBack, CommitterSound, LockSound, Holding
<1>2. CASE ExchangeBack(p)
  <2>1. /\ dest # Original /\ dest' = beside[replaced[p]] /\ replaced[p] \in Names
        /\ beside' = [beside EXCEPT ![replaced[p]] = dest]
        /\ doomed'[p] = {replaced[p]} /\ accepted' = accepted /\ temp' = temp
        /\ pc'[p] = "unlock" /\ replaced[p] # None
    BY <1>0, <1>2, CommitterFacts DEF ExchangeBack, StagedSound
  <2>2. Somewhere'
    BY <2>1, OriginalSomewhere DEF Kept, Somewhere
  <2>3. replaced[p] \in Mine(p)'
    BY <2>1 DEF Mine
  <2>4. Writes(p)
    BY <1>1, <2>1, <2>3 DEF Writes
  <2>5. DoomedSound(p)' /\ StagedSound(p)'
    BY <1>1, <2>1 DEF DoomedSound, StagedSound
  <2> QED
    BY <2>2, <2>4, <2>5, OriginalSomewhere, PTL DEF KeepsOriginal
<1>3. CASE RejectAside(p)
  <2>1. /\ dest # Original /\ dest' = None
        /\ beside' = [beside EXCEPT ![Fresh] = dest] /\ MakeName
        /\ doomed'[p] = {Fresh} /\ accepted' = accepted /\ temp' = temp
        /\ pc'[p] \in {"unlock", "rejected"}
    BY <1>0, <1>3, CommitterFacts DEF RejectAside, StagedSound
  <2>2. Somewhere'
    BY <2>1, FreshFacts, Distinct, OriginalSomewhere DEF Kept, Somewhere
  <2>3. Fresh \in Mine(p)'
    BY <2>1, FreshFacts DEF Mine
  <2>4. Writes(p)
    BY <1>1, <2>1, <2>3 DEF Writes
  <2>5. DoomedSound(p)' /\ StagedSound(p)'
    BY <1>1, <2>1, FreshFacts DEF DoomedSound, StagedSound
  <2> QED
    BY <2>2, <2>4, <2>5, OriginalSomewhere, PTL DEF KeepsOriginal
<1>4. CASE PutBack(p)
  <2>1. /\ dest = None /\ dest' = beside[replaced[p]] /\ replaced[p] \in Names
        /\ beside' = [beside EXCEPT ![replaced[p]] = None]
        /\ doomed' = doomed /\ accepted' = accepted /\ temp' = temp
        /\ pc'[p] = "unlock"
    BY <1>0, <1>4, CommitterFacts DEF PutBack, CommitterSound
  <2>2. Somewhere'
    BY <2>1, Distinct, OriginalSomewhere DEF Kept, Somewhere
  <2>3. Writes(p)
    BY <1>1, <2>1 DEF Writes
  <2>4. DoomedSound(p)' /\ StagedSound(p)'
    BY <1>0, <1>1, <2>1, CommitterFacts, Distinct DEF DoomedSound, StagedSound
  <2> QED
    BY <2>2, <2>3, <2>4, OriginalSomewhere, PTL DEF KeepsOriginal
<1> QED
    BY <1>2, <1>3, <1>4

LEMMA RemoveKept ==
    ASSUME TypeOK, Flow, Kept, NEW p \in Procs, RemoveEntry(p)
    PROVE  KeepsOriginal(p)
<1>1. p \in Removers /\ p \notin Recoverers /\ p \notin Committers /\ lock = p
    BY RolesApart DEF RemoveEntry, Flow, LockSound, Holding
<1>2. accepted' /\ temp' = temp
    BY DEF RemoveEntry
<1>3. \/ beside' = beside
      \/ /\ MakeName /\ doomed'[p] = {Fresh}
         /\ \A n \in Names : n # Fresh => beside'[n] = beside[n]
    BY DEF RemoveEntry, TypeOK, FileTypes, LocalTypes
<1>4. Writes(p)
  <2>1. MakeName /\ doomed'[p] = {Fresh} => Fresh \in Mine(p)'
    BY FreshFacts DEF Mine
  <2> QED
    BY <1>1, <1>2, <1>3, <2>1 DEF Writes
<1> QED
    BY <1>1, <1>2, <1>4 DEF KeepsOriginal, OriginalSurvives, DoomedSound

\* Recover deletes leftovers only once the original is at the destination or
\* is not needed, and restores by renaming.
LEMMA RecoverKept ==
    ASSUME TypeOK, Flow, Kept, NEW p \in Procs, Decide(p) \/ Restore(p) \/ Reverify(p)
    PROVE  KeepsOriginal(p)
<1> USE DEF Goto, local, files, TypeOK, FileTypes, LocalTypes
<1>0. p \in Recoverers /\ p \notin Committers
    BY InHand, RolesApart DEF Decide, Restore, Reverify
<1>1. CASE Decide(p)
  <2>1. UNCHANGED files /\ temp' = temp /\ (accepted => accepted')
    BY <1>1 DEF Decide
  <2>2. pc'[p] = "clean" => accepted' \/ dest = Original
    BY <1>1 DEF Decide
  <2> QED
    BY <1>0, <2>1, <2>2 DEF KeepsOriginal, Writes, Kept, OriginalSurvives, DoomedSound
<1>2. CASE Restore(p)
  <2>1. /\ dest = None /\ replaced[p] \in Names
        /\ \/ dest' = dest /\ beside' = beside
           \/ /\ dest' = beside[replaced[p]]
              /\ beside' = [beside EXCEPT ![replaced[p]] = None]
        /\ temp' = temp /\ accepted' = accepted /\ pc'[p] \in {"unlease", "reverify"}
    BY <1>0, <1>2, InHand DEF Restore, Flow, RoleSound, RecovererSound
  <2>0. lock = p
    BY <1>2 DEF Restore, Flow, LockSound, Holding
  <2>2. Somewhere'
    BY <2>1, Distinct, OriginalSomewhere DEF Kept, Somewhere
  <2>3. Writes(p)
    BY <2>0, <2>1 DEF Writes
  <2>4. DoomedSound(p)'
    BY <1>0, <2>1 DEF DoomedSound
  <2>5. OriginalSurvives'
    BY <2>2, OriginalSomewhere, PTL
  <2> QED
    BY <1>0, <2>3, <2>4, <2>5 DEF KeepsOriginal
<1>3. CASE Reverify(p)
  <2>1. UNCHANGED files /\ temp' = temp /\ accepted' = accepted
    BY <1>3 DEF Reverify
  <2>2. pc'[p] = "clean" => dest = Original
    BY <1>3 DEF Reverify
  <2> QED
    BY <1>0, <2>1, <2>2 DEF KeepsOriginal, Writes, Kept, OriginalSurvives, DoomedSound
<1> QED
    BY <1>1, <1>2, <1>3

LEMMA DeletionKept ==
    ASSUME TypeOK, Flow, Kept, NEW p \in Procs, Tear(p) \/ Vanish(p)
    PROVE  KeepsOriginal(p)
<1> USE DEF local, TypeOK, FileTypes, LocalTypes
<1>1. /\ \E n \in doomed[p] : beside' = [beside EXCEPT ![n] = Torn]
                              \/ beside' = [beside EXCEPT ![n] = None]
      /\ dest' = dest /\ pc' = pc /\ temp' = temp /\ accepted' = accepted
      /\ doomed'[p] \subseteq doomed[p] /\ pc[p] = "clean"
    BY DEF Tear, Vanish
<1>2. PICK n \in doomed[p] : beside' = [beside EXCEPT ![n] = Torn]
                             \/ beside' = [beside EXCEPT ![n] = None]
    BY <1>1
<1>3. n \in Names
    OBVIOUS
<1>4. accepted \/ dest = Original \/ beside[n] # Original
    BY <1>1, <1>2 DEF Kept, DoomedSound
<1>5. Somewhere'
    BY <1>1, <1>2, <1>3, <1>4, OriginalSomewhere DEF Kept, Somewhere
<1>6. Writes(p)
  <2>1. accepted \/ beside[n] # Original \/ lock = p
    BY <1>1, <1>2 DEF Kept, DoomedSound, Flow, LockSound
  <2> QED
    BY <1>1, <1>2, <1>3, <2>1 DEF Writes
<1>7. DoomedSound(p)'
    BY <1>1, <1>2, <1>3, Distinct DEF Kept, DoomedSound
<1>8. p \in Committers => StagedSound(p)'
    BY <1>1, <1>2, <1>3, Distinct DEF Kept, StagedSound
<1> QED
    BY <1>5, <1>6, <1>7, <1>8, OriginalSomewhere, PTL DEF KeepsOriginal

\* The deletion of what was renamed back: it may go.
LEMMA TearMovedKept ==
    ASSUME TypeOK, Flow, Kept, NEW p \in Procs, TearMoved(p)
    PROVE  KeepsOriginal(p)
<1> USE DEF local, TypeOK, FileTypes
<1>1. /\ accepted /\ accepted' = accepted /\ temp' = temp /\ pc' = pc /\ pc[p] = "clean"
      /\ \A n \in Names : beside'[n] = beside[n] \/ beside'[n] = Torn
    BY DEF TearMoved, Pursues, Kept, FollowsSound
<1>2. Writes(p)
    BY <1>1 DEF Writes
<1>3. p \in Committers => StagedSound(p)'
  <2>1. ASSUME p \in Committers, temp[p] # None PROVE temp[p] \in Names
    BY <2>1, InHand
  <2> QED
    BY <1>1, <2>1 DEF Kept, StagedSound
<1> QED
    BY <1>1, <1>2, <1>3 DEF KeepsOriginal, OriginalSurvives, DoomedSound

LEMMA StepKeeps ==
    ASSUME TypeOK, Flow, Kept, NEW p \in Procs, Step(p) \/ Withdraw(p) \/ Crash(p)
    PROVE  KeepsOriginal(p)
BY QuietKept, StagingKept, PublishKept, VerdictKept, RollbackKept, RemoveKept, RecoverKept,
   DeletionKept, TearMovedKept
   DEF Step, Commit, Remove, Recover

\* Recover renames a tree back that is being deleted only if it may go: what it
\* inspected was the original, or had begun to go.
LEMMA FollowsKept ==
    ASSUME TypeOK, Flow, Kept, Recovered, NEW p \in Procs, StaysOpen(p), Writes(p)
    PROVE  FollowsSound'
<1>1. CASE \A q \in Procs : follows'[q] # None => follows[q] # None
    BY <1>1 DEF Writes, Kept, FollowsSound
<1>2. CASE Restore(p)
  <2>1. p \in Recoverers /\ lock = p /\ FoundSound(p) /\ RecovererSound(p) /\ pc[p] = "restore"
    BY <1>2, InHand DEF Restore, Recovered, Flow, RoleSound, LockSound, Holding
  <2>2. ASSUME NEW q \in Procs, follows'[q] # follows[q] PROVE accepted
    <3>1. beside[replaced[p]] # None /\ q \in Deleting(replaced[p])
      BY <1>2, <2>2 DEF Restore, TypeOK
    <3>2. q \notin Recoverers
      BY <2>1, <3>1 DEF Deleting, Flow, LockSound
    <3>3. accepted \/ beside[replaced[p]] # Original
      BY <3>1, <3>2 DEF Deleting, Kept, DoomedSound
    <3> QED
      BY <2>1, <3>1, <3>3 DEF FoundSound, RecovererSound
  <2>3. accepted' = accepted
    BY <1>2 DEF Restore
  <2> QED
    BY <2>2, <2>3 DEF Kept, FollowsSound
<1> QED
    BY <1>1, <1>2 DEF StaysOpen

LEMMA KeptStep ==
    ASSUME TypeOK, Flow, Kept, Recovered, [Next]_vars
    PROVE  Kept'
<1>1. CASE AncestorCommit
    BY <1>1, CommitterFacts, Distinct
       DEF AncestorCommit, Kept, OriginalSurvives, FollowsSound, StagedSound, DoomedSound,
       local, TypeOK, LocalTypes, Flow, LockSound, Holding
<1>2. CASE UNCHANGED vars
    BY <1>2 DEF vars, files, local, Kept, OriginalSurvives, FollowsSound, StagedSound, DoomedSound
<1>3. ASSUME NEW p \in Procs, Step(p) \/ Withdraw(p) \/ Crash(p) PROVE Kept'
  <2>1. Advances(p) /\ Flow'
    BY <1>3, Advance
  <2>2. KeepsOriginal(p)
    BY <1>3, StepKeeps
  <2>3. \A q \in Procs : DoomedSound(q)' /\ (q \in Committers => StagedSound(q)')
    BY <2>1, <2>2, OthersKept DEF KeepsOriginal
  <2>4. FollowsSound'
    BY <1>3, <2>2, StaysOpenStep, FollowsKept DEF KeepsOriginal
  <2> QED
    BY <2>2, <2>3, <2>4 DEF KeepsOriginal, Kept, Procs
<1> QED
    BY <1>1, <1>2, <1>3 DEF Next

LEMMA InitKept == Init => Kept
BY Distinct DEF Init, Kept, OriginalSurvives, FollowsSound, StagedSound, DoomedSound, Procs

-----------------------------------------------------------------------------
\* A recovery leaves what it says.

Recovering(p) == FoundSound(p) /\ LeftoversSound(p)

\* What a deletion leaves at the destination is still what it left.
LEMMA StaysSettled ==
    ASSUME DestSettled, follows' = follows, dest' = dest \/ TornThere
    PROVE  DestSettled'
BY DEF DestSettled, TornThere, IsPlanned

LEMMA RecovererFacts ==
    ASSUME TypeOK, Flow, NEW p \in Recoverers
    PROVE  /\ p \in Procs /\ p \notin Committers /\ p # None
           /\ RecovererSound(p) /\ LockSound(p)
           /\ DOMAIN found[p] \subseteq Names /\ DOMAIN found[p] \subseteq 1..made
           /\ replaced[p] \in Names \union {None} /\ doomed[p] \subseteq Names
<1>1. p \in Procs
    BY DEF Procs
<1>2. DOMAIN found[p] \subseteq 1..made /\ made \in 0..MaxNames
    BY <1>1 DEF Flow, NamesSound, TypeOK, FileTypes
<1>3. DOMAIN found[p] \subseteq Names
    BY <1>2, PublishAssumption DEF Names
<1> QED
    BY <1>1, <1>2, <1>3, RolesApart DEF Flow, RoleSound, TypeOK, LocalTypes

\* Others do not touch what a recovery leased.
LEMMA OthersRecover ==
    ASSUME TypeOK, Flow, Kept, NEW p \in Procs, Advances(p), Writes(p),
           NEW q \in Recoverers, q # p, Recovering(q)
    PROVE  Recovering(q)'
<1> USE DEF Advances, Seen, SameLocal
<1>0. /\ q \in Procs /\ q # None /\ LockSound(q)
      /\ \A n \in DOMAIN found[q] : n \in Names /\ n \in 1..made /\ made \in Nat
    BY RecovererFacts, PublishAssumption DEF TypeOK, FileTypes
<1>1. \A c \in Committers : c # p => temp'[c] = temp[c]
    BY DEF Procs
<1>2. ASSUME NEW n \in DOMAIN found[q], lock = q, \A c \in Committers : temp[c] # n
      PROVE  /\ beside'[n] = beside[n] \/ beside'[n] \in {None, Torn}
             /\ beside[n] = Original => beside'[n] = Original \/ accepted'
             /\ accepted => accepted'
             /\ \A c \in Committers : temp'[c] # n
  <2>1. n \in Names /\ n # None /\ n # made + 1
    BY <1>0, Distinct
  <2>2. p \notin Recoverers => temp[p] # n
    BY <1>2, <2>1, RolesApart DEF Flow, RoleSound, RemoverSound
  <2> QED
    BY <1>1, <1>2, <2>1, <2>2 DEF Writes
<1>3. FoundSound(q)'
  <2>1. pc[q] \in {"inspect", "restore"} => lock = q
    BY <1>0 DEF LockSound, Holding
  <2> QED
    BY <1>0, <1>2, <2>1 DEF Recovering, FoundSound
<1>4. Settling(q)' => Settling(q) /\ lock = q /\ follows' = follows /\ (dest' = dest \/ TornThere)
    BY <1>0 DEF Settling, LockSound, Holding
<1>5. ASSUME NEW n \in DOMAIN found[q], lock = q, lease[n] = q
      PROVE  lease'[n] = q /\ (IsPlanned(beside'[n]) => beside'[n] = beside[n])
    BY <1>0, <1>5, Distinct DEF Writes
<1>6. LeftoversSound(q)'
  <2>1. pc[q] \in {"inspect", "restore"} => lock = q
    BY <1>0 DEF LockSound, Holding
  <2>2. Pending(q)' = Pending(q)
    BY <1>0 DEF Pending, Provable, IsPlanned
  <2>3. ASSUME (pc[q] \in {"inspect", "restore"} \/ Settling(q))',
               NEW n \in DOMAIN found[q], found[q][n] \notin {"listed", "live"}
        PROVE  lease'[n] = q /\ (IsPlanned(beside'[n]) => n \in Pending(q)')
    BY <1>0, <1>4, <1>5, <2>1, <2>2, <2>3 DEF Recovering, LeftoversSound
  <2>4. (pc[q] = "restore" \/ Settling(q))' => \A n \in DOMAIN found[q] : found[q][n] # "listed"
    BY <1>0, <1>4 DEF Recovering, LeftoversSound
  <2>5. Settling(q)' => doomed[q] = {} \/ pc[q] # "unlease"
    BY <1>0, <1>4 DEF Recovering, LeftoversSound
  <2>6. (pc[q] # "reverify" /\ Settling(q))' => DestSettled'
    BY <1>0, <1>4, StaysSettled DEF Recovering, LeftoversSound
  <2>7. found'[q] = found[q] /\ pc'[q] = pc[q] /\ doomed'[q] = doomed[q]
    BY <1>0
  <2> QED
    BY <2>3, <2>4, <2>5, <2>6, <2>7 DEF LeftoversSound, IsPlanned
<1> QED
    BY <1>3, <1>6 DEF Recovering

\* What a recovery itself does.
LEMMA OwnInspection ==
    ASSUME TypeOK, Flow, Kept, NEW p \in Recoverers, Recovering(p),
           ListLeftovers(p) \/ Inspect(p) \/ PlanOnly(p)
    PROVE  Recovering(p)'
<1> USE DEF Goto, Ends, files, TypeOK, FileTypes, LocalTypes
<1>0. p \in Procs /\ DOMAIN found[p] \subseteq Names /\ p # None
    BY RecovererFacts
<1>1. CASE ListLeftovers(p)
  <2>1. /\ pc'[p] = "inspect" /\ \A n \in DOMAIN found'[p] : found'[p][n] = "listed"
    BY <1>0, <1>1 DEF ListLeftovers
  <2>2. "listed" # Original
    BY Distinct DEF Marks
  <2> QED
    BY <2>1, <2>2 DEF Recovering, FoundSound, LeftoversSound, Settling
<1>2. CASE Inspect(p)
  <2>1. PICK n \in DOMAIN found[p] :
          \/ /\ lease' = [lease EXCEPT ![n] = p]
             /\ found' = [found EXCEPT ![p][n] =
                            IF IsDir(beside[n]) THEN beside[n] ELSE "unknown"]
          \/ found' = [found EXCEPT ![p][n] = "live"] /\ UNCHANGED lease
    BY <1>2 DEF Inspect
  <2>2. /\ pc[p] = "inspect" /\ pc' = pc /\ beside' = beside /\ temp' = temp
        /\ accepted' = accepted
    BY <1>2 DEF Inspect
  <2>3. n \in Names /\ DOMAIN found'[p] = DOMAIN found[p]
    BY <1>0, <2>1
  <2>4. \A m \in DOMAIN found[p] : m # n => found'[p][m] = found[p][m] /\ lease'[m] = lease[m]
    BY <1>0, <2>1
  <2>5. "unknown" \in Marks /\ "live" \in Marks
    BY DEF Marks
  <2>6. \/ /\ lease'[n] = p
           /\ IsDir(beside[n]) => found'[p][n] = beside[n]
           /\ ~IsDir(beside[n]) => found'[p][n] = "unknown"
        \/ found'[p][n] = "live"
    BY <1>0, <2>1, <2>3
  <2>7. FoundSound(p)'
    <3>1. found'[p][n] = Original => beside[n] = Original /\ \A c \in Committers : temp[c] # n
      BY <2>3, <2>5, <2>6, Distinct, CommitterFacts DEF StagedSound
    <3> QED
      BY <2>2, <2>3, <2>4, <3>1 DEF Recovering, FoundSound
  <2>8. LeftoversSound(p)'
    <3>1. \A m \in DOMAIN found[p] : m \in Pending(p)' <=> IsPlanned(found'[p][m])
      BY <2>2, <2>3 DEF Pending, Provable, IsPlanned
    <3>2. \A m \in DOMAIN found[p] : m \in Pending(p) <=> IsPlanned(found[p][m])
      BY <2>2 DEF Pending, Provable
    <3>3. \A m \in DOMAIN found[p] : found'[p][m] \notin {"listed", "live"} =>
            lease'[m] = p /\ (IsPlanned(beside[m]) => IsPlanned(found'[p][m]))
      BY <2>2, <2>3, <2>4, <2>6, <3>2, Distinct DEF Recovering, LeftoversSound
    <3> QED
      BY <2>2, <2>3, <3>1, <3>3 DEF LeftoversSound, Settling, IsPlanned
  <2> QED
    BY <2>7, <2>8 DEF Recovering
<1>3. CASE PlanOnly(p)
  <2>1. pc'[p] = "unlease" /\ verdict'[p] = "plan"
    BY <1>0, <1>3 DEF PlanOnly
  <2> QED
    BY <2>1 DEF Recovering, FoundSound, LeftoversSound, Settling, Settles
<1> QED
    BY <1>1, <1>2, <1>3

LEMMA OwnDecision ==
    ASSUME TypeOK, Flow, Kept, NEW p \in Recoverers, Recovering(p), Decide(p)
    PROVE  Recovering(p)'
<1> USE DEF Goto, Ends, files, coord, TypeOK, FileTypes, LocalTypes
<1>0. p \in Procs /\ DOMAIN found[p] \subseteq Names
    BY RecovererFacts
<1>1. /\ pc[p] = "inspect" /\ \A n \in DOMAIN found[p] : found[p][n] # "listed"
      /\ beside' = beside /\ lease' = lease /\ temp' = temp /\ found' = found /\ dest' = dest
      /\ follows' = follows /\ (accepted => accepted')
    BY DEF Decide
<1>2. \/ pc'[p] = "clean" /\ IsPlanned(dest) /\ doomed'[p] = Provable(p)
      \/ /\ pc'[p] = "restore"
         /\ \E n \in Originals(p) : replaced'[p] = n /\ doomed'[p] = Provable(p) \ {n}
      \/ pc'[p] = "unlease" /\ verdict'[p] = "unrecoverable"
    BY <1>0 DEF Decide
<1>3. \A n \in DOMAIN found[p] : found[p][n] \notin {"listed", "live"} =>
          lease[n] = p /\ (IsPlanned(beside[n]) => n \in Provable(p))
    BY <1>1 DEF Recovering, LeftoversSound, Pending
<1>4. FoundSound(p)'
    BY <1>1 DEF Recovering, FoundSound
<1>5. pc'[p] \in {"restore", "clean"} => Provable(p) \subseteq Pending(p)'
    BY <1>2 DEF Pending
<1>6. LeftoversSound(p)'
  <2>1. CASE pc'[p] = "unlease"
    BY <1>2, <2>1 DEF LeftoversSound, Settling, Settles
  <2>2. CASE pc'[p] \in {"restore", "clean"}
    BY <1>1, <1>2, <1>3, <1>5, <2>2 DEF LeftoversSound, Settling, DestSettled, IsPlanned
  <2> QED
    BY <1>2, <2>1, <2>2
<1> QED
    BY <1>4, <1>6 DEF Recovering

LEMMA OwnRestore ==
    ASSUME TypeOK, Flow, Kept, NEW p \in Recoverers, Recovering(p), Restore(p) \/ Reverify(p)
    PROVE  Recovering(p)'
<1> USE DEF Goto, Ends, files, coord, TypeOK, FileTypes, LocalTypes
<1>0. /\ p \in Procs /\ DOMAIN found[p] \subseteq Names /\ doomed[p] \subseteq Names
      /\ replaced[p] \in Names \union {None}
    BY RecovererFacts
<1>1. CASE pc'[p] = "unlease"
  <2>1. verdict'[p] = "unrecoverable"
    BY <1>0, <1>1 DEF Restore, Reverify
  <2> QED
    BY <1>1, <2>1 DEF Recovering, FoundSound, LeftoversSound, Settling, Settles
<1>2. CASE Restore(p) /\ pc'[p] # "unlease"
  <2>1. /\ pc[p] = "restore" /\ pc'[p] = "reverify" /\ replaced[p] \in Names
        /\ beside' = [beside EXCEPT ![replaced[p]] = None]
        /\ lease' = lease /\ found' = found /\ doomed' = doomed
    BY <1>0, <1>2, InHand DEF Restore
  <2>2. FoundSound(p)'
    BY <2>1 DEF FoundSound
  <2>3. ASSUME NEW n \in DOMAIN found[p], found[p][n] \notin {"listed", "live"}
        PROVE  lease[n] = p /\ (IsPlanned(beside'[n]) => n \in doomed[p])
    <3>1. lease[n] = p /\ (IsPlanned(beside[n]) => n \in doomed[p] \union {replaced[p]})
      BY <2>1, <2>3 DEF Recovering, LeftoversSound, Pending
    <3> QED
      BY <1>0, <2>1, <3>1, Distinct
  <2>4. \A n \in DOMAIN found[p] : found[p][n] # "listed"
    BY <2>1 DEF Recovering, LeftoversSound
  <2> QED
    BY <2>1, <2>2, <2>3, <2>4
       DEF Recovering, LeftoversSound, Settling, Pending, IsPlanned
<1>3. CASE Reverify(p) /\ pc'[p] # "unlease"
  <2>1. /\ pc[p] = "reverify" /\ pc'[p] = "clean" /\ dest = Original
        /\ UNCHANGED <<beside, dest, lock, lease, found, doomed>>
    BY <1>0, <1>3 DEF Reverify
  <2>2. FoundSound(p)'
    BY <2>1 DEF FoundSound
  <2>3. \A n \in DOMAIN found[p] : found[p][n] \notin {"listed", "live"} =>
            lease[n] = p /\ (IsPlanned(beside[n]) => n \in doomed[p])
    BY <2>1 DEF Recovering, LeftoversSound, Settling, Pending
  <2>4. \A n \in DOMAIN found[p] : found[p][n] # "listed"
    BY <2>1 DEF Recovering, LeftoversSound, Settling
  <2>5. IsPlanned(dest)
    BY <2>1, Distinct
  <2> QED
    BY <2>1, <2>2, <2>3, <2>4, <2>5
       DEF Recovering, LeftoversSound, Settling, DestSettled, Pending, IsPlanned
<1> QED
    BY <1>1, <1>2, <1>3

LEMMA OwnDeletion ==
    ASSUME TypeOK, Flow, Kept, NEW p \in Recoverers, Recovering(p),
           Tear(p) \/ TearMoved(p) \/ Vanish(p) \/ Cleaned(p)
    PROVE  Recovering(p)'
<1> USE DEF Goto, files, coord, local, TypeOK, FileTypes, LocalTypes
<1>0. /\ p \in Procs /\ DOMAIN found[p] \subseteq Names /\ doomed[p] \subseteq Names
      /\ pc[p] = "clean" /\ lock' = lock /\ found' = found
      /\ follows' = follows /\ (dest' = dest \/ TornThere)
    BY RecovererFacts DEF Tear, TearMoved, Vanish, Cleaned, Pursues, ContentAt, TornThere
<1>1. FoundSound(p)'
    BY <1>0 DEF Tear, TearMoved, Vanish, Cleaned, FoundSound
<1>2. CASE lock # p
    BY <1>0, <1>1, <1>2 DEF Tear, TearMoved, Vanish, Cleaned, Recovering, LeftoversSound, Settling
<1>3. CASE lock = p
  <2>1. /\ \A n \in DOMAIN found[p] : found[p][n] # "listed"
        /\ \A n \in DOMAIN found[p] : found[p][n] # "live" =>
               lease[n] = p /\ (IsPlanned(beside[n]) => n \in doomed[p])
        /\ DestSettled'
    BY <1>0, <1>3, StaysSettled DEF Recovering, LeftoversSound, Settling, Pending
  <2>2. CASE Tear(p) \/ Vanish(p)
    <3>1. /\ lease' = lease /\ pc' = pc
          /\ \E n \in doomed[p] :
               /\ beside'[n] \in {None, Torn} /\ doomed'[p] \in {doomed[p], doomed[p] \ {n}}
               /\ \A m \in Names : m # n => beside'[m] = beside[m]
      BY <1>0, <2>2 DEF Tear, Vanish
    <3>2. \A n \in DOMAIN found[p] : IsPlanned(beside'[n]) =>
              beside'[n] = beside[n] /\ (n \in doomed[p] => n \in doomed'[p])
      BY <1>0, <3>1, Distinct
    <3> QED
      BY <1>0, <1>1, <2>1, <3>1, <3>2
         DEF Recovering, LeftoversSound, Settling, Pending, IsPlanned
  <2>3. CASE Cleaned(p)
    <3>1. /\ lease' = lease /\ pc'[p] = "unlease" /\ doomed'[p] = {} /\ doomed[p] = {}
          /\ beside' = beside
      BY <1>0, <1>3, <2>3 DEF Cleaned
    <3> QED
      BY <1>0, <1>1, <2>1, <3>1
         DEF Recovering, LeftoversSound, Settling, Pending, IsPlanned
  <2>4. CASE TearMoved(p)
    <3>1. /\ lease' = lease /\ pc' = pc /\ doomed' = doomed
          /\ \A n \in Names : beside'[n] = beside[n] \/ beside'[n] = Torn
      BY <1>0, <2>4 DEF TearMoved
    <3>2. \A n \in DOMAIN found[p] : IsPlanned(beside'[n]) => beside'[n] = beside[n]
      BY <1>0, <3>1, Distinct
    <3> QED
      BY <1>0, <1>1, <2>1, <3>1, <3>2
         DEF Recovering, LeftoversSound, Settling, Pending, IsPlanned
  <2> QED
    BY <2>2, <2>3, <2>4
<1> QED
    BY <1>2, <1>3

\* Outside the recovery proper there is nothing to owe.
LEMMA OwnRest ==
    ASSUME TypeOK, Flow, Kept, NEW p \in Recoverers, Recovering(p),
           Acquire(p) \/ Withdraw(p) \/ Unlock(p) \/ Crash(p) \/ Unlease(p)
    PROVE  Recovering(p)'
<1> USE DEF Goto, Ends, TypeOK, LocalTypes
<1>0. p \in Procs /\ p \notin Committers /\ p # None
    BY RecovererFacts
<1>1. \/ pc'[p] \in {"locked", "done", "crashed", "unlock"}
      \/ pc'[p] = "clean" /\ lock' = None
    BY <1>0 DEF Acquire, Withdraw, Unlock, Crash, Unlease
<1> QED
    BY <1>0, <1>1 DEF Recovering, FoundSound, LeftoversSound, Settling

LEMMA OwnRecover ==
    ASSUME TypeOK, Flow, Kept, NEW p \in Recoverers, Recovering(p),
           Step(p) \/ Withdraw(p) \/ Crash(p)
    PROVE  Recovering(p)'
<1>1. p \in Procs /\ p \notin Committers /\ p \notin Removers
    BY RecovererFacts, RolesApart
<1>2. ~Commit(p)
  <2>1. pc[p] \notin {"stage", "own", "fill", "aside", "verify", "rollback", "rejected"}
    BY <1>1, InHand
  <2> QED
    BY <1>1, <2>1
       DEF Commit, Stage, Own, Fill, FillFails, Refuse, RenameIn, ExchangeIn, MoveAside,
       PutIn, RenameFails, VerifyPasses, VerifyFails, ExchangeBack, RejectAside, PutBack,
       RollbackFails, Staged
<1>3. ~Remove(p)
    BY <1>1 DEF Remove, RemoveNothing, RemoveEntry
<1> QED
    BY <1>2, <1>3, OwnInspection, OwnDecision, OwnRestore, OwnDeletion, OwnRest
       DEF Step, Recover

LEMMA RecoveredStep ==
    ASSUME TypeOK, Flow, Kept, Recovered, [Next]_vars
    PROVE  Recovered'
<1>0. \A q \in Recoverers : Recovering(q)
    BY DEF Recovered, Recovering
<1>1. CASE AncestorCommit
  <2>1. \A q \in Recoverers : /\ pc[q] \notin {"inspect", "restore", "reverify", "unlease"}
                              /\ q # lock
    BY <1>1, RecovererFacts DEF AncestorCommit, LockSound, Holding
  <2> QED
    BY <1>1, <2>1
       DEF AncestorCommit, Recovered, FoundSound, LeftoversSound, Settling, coord
<1>2. CASE UNCHANGED vars
    BY <1>2
       DEF vars, files, coord, local, Recovered, FoundSound, LeftoversSound, Settling,
       DestSettled, Pending, Provable, IsPlanned
<1>3. ASSUME NEW p \in Procs, Step(p) \/ Withdraw(p) \/ Crash(p) PROVE Recovered'
  <2>1. Advances(p) /\ Writes(p)
    BY <1>3, Advance, StepKeeps DEF KeepsOriginal
  <2>2. \A q \in Recoverers : Recovering(q)'
    BY <1>0, <1>3, <2>1, OthersRecover, OwnRecover
  <2> QED
    BY <2>2 DEF Recovered, Recovering
<1> QED
    BY <1>1, <1>2, <1>3 DEF Next

LEMMA InitRecovered == Init => Recovered
BY DEF Init, Recovered, FoundSound, LeftoversSound, Settling, Procs

LEMMA RecoveredHolds == Spec => [](TypeOK /\ Flow /\ Kept /\ Recovered)
BY InitTypeOK, InitFlow, InitKept, InitRecovered, TypeStep, FlowStep, KeptStep, RecoveredStep,
   PTL DEF Spec

\* Until its replacement is verified, a Remove took it or Recover went past
\* it, the original exists whole: through failed renames and rollbacks,
\* crashes at every step and concurrent recoveries.
THEOREM OriginalKept == Spec => []OriginalSurvives
BY RecoveredHolds, PTL DEF Kept

LEMMA SettledIsComplete == Recovered => RecoveryComplete
<1> SUFFICES ASSUME Recovered, NEW r \in Recoverers, pc[r] = "unlease",
                    verdict[r] \in {"intact", "restored", "completed"}
             PROVE  /\ DestSettled
                    /\ \A n \in DOMAIN found[r] :
                           found[r][n] = "live" \/ ~IsPlanned(beside[n])
    BY DEF RecoveryComplete
<1>1. Settling(r) /\ LeftoversSound(r)
    BY DEF Recovered, Settling, Settles
<1> QED
    BY <1>1 DEF LeftoversSound, Pending

\* A Recover that ends well leaves a planned tree at the destination, or what a
\* deletion leaves of it that had it open before it was renamed back; and of the
\* planned trees it found beside it none but a live writer's, whatever the other
\* processes do in between.
THEOREM RecoveryEndsComplete == Spec => []RecoveryComplete
BY RecoveredHolds, SettledIsComplete, PTL

-----------------------------------------------------------------------------
\* A rejected tree is not published.

\* What a step of a brings to the destination: nothing, what a staged, what it
\* moved aside, or what is no committer's; and what it moves aside.
Moves(a) ==
    /\ \/ dest' \in {dest, None, Original, Torn}
       \/ a \in Committers /\ dest' = a
       \/ a \in Committers /\ Moved(a) /\ dest' = beside[replaced[a]]
    /\ a \in Committers /\ Moved(a)' =>
         \/ beside'[replaced'[a]] \in {None, dest}
         \/ Moved(a) /\ beside'[replaced'[a]] = beside[replaced[a]]

\* A step that leaves the files alone moves nothing.
LEMMA QuietMoves ==
    ASSUME TypeOK, Flow, Kept, NEW a \in Procs,
           \/ Own(a) \/ FillFails(a) \/ Acquire(a) \/ Withdraw(a) \/ Unlock(a) \/ Crash(a)
           \/ Refuse(a) \/ VerifyPasses(a) \/ VerifyFails(a) \/ RollbackFails(a)
           \/ RemoveNothing(a) \/ ListLeftovers(a) \/ Inspect(a) \/ PlanOnly(a) \/ Decide(a)
           \/ Reverify(a) \/ Unlease(a) \/ Cleaned(a)
    PROVE  UNCHANGED files /\ (Moved(a)' /\ a \in Committers => Moved(a) /\ replaced'[a] = replaced[a])
<1>1. UNCHANGED files
    BY DEF Own, FillFails, Acquire, Withdraw, Unlock, Crash, Refuse, VerifyPasses, VerifyFails,
       RollbackFails, RemoveNothing, ListLeftovers, Inspect, PlanOnly, Decide, Reverify,
       Unlease, Cleaned
<1>2. a \in Committers => ~Decide(a)
    BY InHand, RolesApart DEF Decide
<1>3. CASE Decide(a)
    BY <1>1, <1>2, <1>3
<1>4. CASE ~Decide(a)
  <2>1. replaced' = replaced
    BY <1>4 DEF Own, FillFails, Acquire, Withdraw, Unlock, Crash, Refuse, VerifyPasses,
       VerifyFails, RollbackFails, RemoveNothing, ListLeftovers, Inspect, PlanOnly, Reverify,
       Unlease, Cleaned, local
  <2>2. pc'[a] \in {"aside", "verify", "rollback", "rejected"} =>
            pc[a] \in {"aside", "verify", "rollback", "rejected"}
    BY <1>4 DEF Own, FillFails, Acquire, Withdraw, Unlock, Crash, Refuse, VerifyPasses,
       VerifyFails, RollbackFails, RemoveNothing, ListLeftovers, Inspect, PlanOnly, Reverify,
       Unlease, Cleaned, Abandon, NotPublished, Goto, TypeOK, LocalTypes
  <2> QED
    BY <1>1, <2>1, <2>2 DEF Moved
<1> QED
    BY <1>3, <1>4

\* Staging and deletion touch nothing a commit moved aside.
LEMMA StagingMoves ==
    ASSUME TypeOK, Flow, Kept, NEW a \in Procs,
           Stage(a) \/ Fill(a) \/ Tear(a) \/ TearMoved(a) \/ Vanish(a)
    PROVE  dest' \in {dest, Torn} /\ ~Moved(a)'
<1> USE DEF Goto, TypeOK, LocalTypes
<1>1. CASE Stage(a) \/ Fill(a)
    BY <1>1 DEF Stage, Fill, Moved
<1>2. CASE Tear(a) \/ TearMoved(a) \/ Vanish(a)
    BY <1>2 DEF Tear, TearMoved, Vanish, Moved, local
<1> QED
    BY <1>1, <1>2

LEMMA CommitMoves ==
    ASSUME TypeOK, Flow, Kept, NEW a \in Procs,
           \/ RenameIn(a) \/ ExchangeIn(a) \/ MoveAside(a) \/ PutIn(a) \/ RenameFails(a)
           \/ ExchangeBack(a) \/ RejectAside(a) \/ PutBack(a)
    PROVE  Moves(a)
<1> USE DEF Goto, local, files, TypeOK, FileTypes, LocalTypes
<1>0. a \in Committers
    BY InHand
       DEF RenameIn, ExchangeIn, MoveAside, PutIn, RenameFails, ExchangeBack, RejectAside,
       PutBack, Staged
<1>1. /\ temp[a] \in Names \union {None} /\ replaced[a] \in Names \union {None}
      /\ temp[a] # None => beside[temp[a]] \in {None, Torn, a}
      /\ CommitterSound(a) /\ None \notin Names
    BY <1>0, CommitterFacts, Distinct DEF StagedSound
<1>2. CASE RenameIn(a)
    BY <1>0, <1>1, <1>2 DEF RenameIn, Publish, Staged, Moves, Moved, CommitterSound
<1>3. CASE ExchangeIn(a)
    BY <1>0, <1>1, <1>3 DEF ExchangeIn, Publish, Staged, Moves, Moved, CommitterSound
<1>4. CASE MoveAside(a)
    BY <1>0, <1>1, <1>4, FreshFacts DEF MoveAside, Staged, Moves, Moved
<1>5. CASE PutIn(a)
    BY <1>0, <1>1, <1>5 DEF PutIn, Publish, Moves, Moved, CommitterSound
<1>6. CASE RenameFails(a)
    BY <1>0, <1>1, <1>6 DEF RenameFails, NotPublished, Moves, Moved, CommitterSound
<1>7. CASE ExchangeBack(a)
    BY <1>0, <1>1, <1>7 DEF ExchangeBack, Moves, Moved
<1>8. CASE RejectAside(a)
  <2>1. replaced[a] # None => replaced[a] # Fresh
    BY <1>0, <1>8, CommitterFacts, FreshFacts DEF RejectAside
  <2> QED
    BY <1>0, <1>1, <1>8, <2>1, FreshFacts DEF RejectAside, Moves, Moved
<1>9. CASE PutBack(a)
    BY <1>0, <1>1, <1>9 DEF PutBack, Moves, Moved, CommitterSound
<1> QED
    BY <1>2, <1>3, <1>4, <1>5, <1>6, <1>7, <1>8, <1>9

LEMMA RecoverMoves ==
    ASSUME TypeOK, Flow, Kept, Recovered, NEW a \in Procs, Restore(a) \/ RemoveEntry(a)
    PROVE  Moves(a)
<1>1. a \notin Committers
    BY InHand, RolesApart DEF Restore, RemoveEntry
<1>2. CASE Restore(a)
  <2>1. a \in Recoverers /\ FoundSound(a) /\ RecovererSound(a)
    BY <1>2, InHand DEF Restore, Recovered, Flow, RoleSound
  <2>2. beside[replaced[a]] \in {Original, Torn, None}
    BY <1>2, <2>1 DEF Restore, FoundSound, RecovererSound
  <2> QED
    BY <1>1, <1>2, <2>2 DEF Restore, Moves
<1>3. CASE RemoveEntry(a)
    BY <1>1, <1>3 DEF RemoveEntry, Moves
<1> QED
    BY <1>2, <1>3

LEMMA StepMoves ==
    ASSUME TypeOK, Flow, Kept, Recovered, NEW a \in Procs, Step(a) \/ Withdraw(a) \/ Crash(a)
    PROVE  Moves(a)
<1>1. ASSUME UNCHANGED files, Moved(a)' /\ a \in Committers => Moved(a) /\ replaced'[a] = replaced[a]
      PROVE  Moves(a)
    BY <1>1 DEF Moves, files
<1>2. ASSUME dest' \in {dest, Torn} /\ ~Moved(a)' PROVE Moves(a)
    BY <1>2 DEF Moves
<1> QED
    BY <1>1, <1>2, QuietMoves, StagingMoves, CommitMoves, RecoverMoves
       DEF Step, Commit, Remove, Recover

\* A tree that was clear stays so unless its own commit moves it.
LEMMA ClearByOthers ==
    ASSUME TypeOK, Flow, Kept, NEW a \in Procs, Advances(a), Writes(a), Moves(a),
           NEW p \in Trees, p # a
    PROVE  /\ Clear(p) => Clear(p)'
           /\ Moved(p) /\ beside[replaced[p]] # p => Moved(p)' /\ beside'[replaced'[p]] # p
<1> USE DEF Advances, Seen, SameLocal
<1>0. /\ p \in Committers /\ p \in Procs /\ p # None /\ p # Original /\ p # Torn
      /\ \A q \in Committers : q \in Procs /\ replaced[q] \in Names \union {None}
    BY CommitterFacts DEF Trees, Procs
<1>1. ASSUME NEW q \in Committers, q # a, Moved(q), beside[replaced[q]] # p
      PROVE  Moved(q)' /\ beside'[replaced'[q]] # p
  <2>1. lock = q /\ q # a /\ replaced[q] \in Names /\ replaced'[q] = replaced[q] /\ pc'[q] = pc[q]
    BY <1>0, <1>1, CommitterFacts DEF Moved, LockSound, Holding
  <2>2. \/ beside'[replaced[q]] = beside[replaced[q]]
        \/ beside'[replaced[q]] \in {None, Torn} \/ beside'[replaced[q]] = a
    BY <1>1, <2>1 DEF Writes
  <2> QED
    BY <1>0, <1>1, <2>1, <2>2 DEF Moved
<1>2. ASSUME NEW q \in Committers, q # a, Moved(q)' PROVE Moved(q)
    BY <1>0, <1>2 DEF Moved
<1>3. ASSUME Clear(p) PROVE Clear(p)'
  <2>1. dest' # p
    BY <1>0, <1>3 DEF Moves, Clear
  <2>2. ASSUME NEW q \in Committers, Moved(q)' PROVE beside'[replaced'[q]] # p
    <3>1. CASE q = a
      BY <1>0, <1>3, <2>2, <3>1 DEF Moves, Clear
    <3>2. CASE q # a
      BY <1>1, <1>2, <1>3, <2>2, <3>2 DEF Clear
    <3> QED
      BY <3>1, <3>2
  <2> QED
    BY <2>1, <2>2 DEF Clear
<1>4. ASSUME Moved(p), beside[replaced[p]] # p
      PROVE  Moved(p)' /\ beside'[replaced'[p]] # p
    BY <1>0, <1>1, <1>4
<1> QED
    BY <1>3, <1>4

LEMMA RejectedByOthers ==
    ASSUME TypeOK, Flow, Kept, NEW a \in Procs, Advances(a), Writes(a), Moves(a),
           faults' = 0 => faults = 0,
           NEW p \in Trees, p # a, RejectedSound(p)
    PROVE  RejectedSound(p)'
<1>0. /\ p \in Committers /\ p \in Procs /\ p # None
      /\ pc'[p] = pc[p] /\ verdict'[p] = verdict[p] /\ replaced'[p] = replaced[p]
    BY CommitterFacts DEF Trees, Advances, Seen, SameLocal
<1>1. Moved(p)' => Moved(p)
    BY <1>0 DEF Moved
<1>2. Rejected(p)' => Rejected(p)
    BY <1>0 DEF Rejected
<1> QED
    BY <1>0, <1>1, <1>2, ClearByOthers DEF RejectedSound

\* Under the lock of p no other commit has moved anything aside.
LEMMA OnlyMover ==
    ASSUME TypeOK, Flow, Kept, NEW p \in Procs, lock = p, Advances(p), NEW q \in Committers, q # p
    PROVE  ~Moved(q) /\ ~Moved(q)'
<1>1. q \in Procs /\ q # None /\ LockSound(q)
    BY CommitterFacts
<1> QED
    BY <1>1 DEF Moved, LockSound, Holding, Advances, Seen, SameLocal

\* The commit of a tree that is nowhere near the destination yet.
LEMMA OwnStaging ==
    ASSUME TypeOK, Flow, Kept, Recovered, NEW p \in Trees, RejectedSound(p), Advances(p),
           Stage(p) \/ Own(p) \/ Fill(p) \/ FillFails(p) \/ Acquire(p) \/ Withdraw(p) \/ Refuse(p)
    PROVE  RejectedSound(p)'
<1> USE DEF Goto, TypeOK, FileTypes, LocalTypes
<1>0. /\ p \in Committers /\ p \in Procs /\ p \notin Recoverers /\ CommitterSound(p)
      /\ Clear(p) /\ p # Torn /\ ~Moved(p)'
  <2>1. p \in Committers
    BY DEF Trees
  <2>2. pc[p] \in {"stage", "own", "fill", "wait", "locked"}
    BY <2>1, CommitterFacts DEF Stage, Own, Fill, FillFails, Acquire, Withdraw, Refuse
  <2>3. pc'[p] \notin {"aside", "verify", "rollback", "rejected"}
    BY <2>1, CommitterFacts
       DEF Stage, Own, Fill, FillFails, Acquire, Withdraw, Refuse, Abandon, NotPublished
  <2> QED
    BY <2>1, <2>2, <2>3, CommitterFacts DEF RejectedSound, Moved
<1>1. dest' = dest /\ replaced' = replaced
    BY DEF Stage, Own, Fill, FillFails, Acquire, Withdraw, Refuse, files, local
<1>2. ASSUME NEW q \in Committers, q # p, Moved(q)
      PROVE  beside'[replaced[q]] # p
  <2>1. beside[replaced[q]] # p /\ replaced[q] # None /\ replaced[q] \in Names
    BY <1>0, <1>2, CommitterFacts DEF Clear, Moved
  <2>2. CASE Stage(p)
    BY <1>0, <2>1, <2>2 DEF Stage
  <2>3. CASE Fill(p)
    <3>1. temp[p] # replaced[q]
      <4>1. q \in Procs \ Recoverers
        BY CommitterFacts
      <4>2. Mine(p) \intersect Mine(q) = {}
        BY <1>0, <1>2, <4>1 DEF Flow, NamesSound
      <4> QED
        BY <2>1, <4>2 DEF Mine
    <3> QED
      BY <2>1, <2>3, <3>1 DEF Fill
  <2>4. CASE beside' = beside
    BY <2>1, <2>4
  <2> QED
    BY <2>2, <2>3, <2>4 DEF Own, FillFails, Acquire, Withdraw, Refuse, files
<1>3. \A q \in Committers : q # p => (Moved(q)' <=> Moved(q))
    BY <1>1 DEF Moved, Advances, Seen, SameLocal, Procs
<1>4. Clear(p)'
  <2>1. dest # p
    BY <1>0 DEF Clear
  <2>2. \A q \in Committers : Moved(q)' => beside'[replaced'[q]] # p
    BY <1>0, <1>1, <1>2, <1>3
  <2> QED
    BY <1>1, <2>1, <2>2 DEF Clear
<1> QED
    BY <1>0, <1>4 DEF RejectedSound

\* ... that is published, and what it replaced is another;
LEMMA OwnPublish ==
    ASSUME TypeOK, Flow, Kept, Recovered, NEW p \in Trees, RejectedSound(p), Advances(p),
           Moves(p), RenameIn(p) \/ ExchangeIn(p) \/ MoveAside(p) \/ PutIn(p) \/ RenameFails(p)
    PROVE  RejectedSound(p)'
<1> USE DEF Goto, Ends, TypeOK, FileTypes, LocalTypes
<1>0. /\ p \in Committers /\ p \in Procs /\ CommitterSound(p) /\ lock = p
      /\ Clear(p) /\ p # Torn /\ p # None /\ p \notin Files
  <2>1. p \in Committers /\ p \notin Files
    BY DEF Trees
  <2>2. pc[p] \in {"locked", "aside"}
    BY DEF RenameIn, ExchangeIn, MoveAside, PutIn, RenameFails, Staged
  <2> QED
    BY <2>1, <2>2, CommitterFacts DEF RejectedSound, LockSound, Holding
<1>1. Moved(p)' => beside'[replaced'[p]] # p
    BY <1>0 DEF Moves, Clear
<1>2. CASE RenameIn(p) \/ ExchangeIn(p) \/ PutIn(p)
  <2>1. pc'[p] = "verify"
    BY <1>0, <1>2 DEF RenameIn, ExchangeIn, PutIn, Publish
  <2> QED
    BY <1>1, <2>1 DEF RejectedSound, Rejected
<1>3. CASE MoveAside(p)
  <2>1. pc'[p] = "aside" /\ dest' = None
    BY <1>0, <1>3 DEF MoveAside
  <2>2. Clear(p)'
    BY <1>0, <1>1, <2>1, OnlyMover DEF Clear
  <2> QED
    BY <1>1, <2>2 DEF RejectedSound
<1>4. CASE RenameFails(p)
  <2>1. pc'[p] = "unlock" /\ faults' # 0
    <3>1. faults \in Nat
      BY PublishAssumption
    <3> QED
      BY <1>0, <1>4, <3>1 DEF RenameFails, NotPublished, Fault
  <2> QED
    BY <1>1, <2>1 DEF RejectedSound, Rejected
<1> QED
    BY <1>2, <1>3, <1>4

\* ... verified, or taken back.
LEMMA OwnRollback ==
    ASSUME TypeOK, Flow, Kept, Recovered, NEW p \in Trees, RejectedSound(p), Advances(p),
           \/ VerifyPasses(p) \/ VerifyFails(p) \/ ExchangeBack(p) \/ RejectAside(p)
           \/ PutBack(p) \/ RollbackFails(p)
    PROVE  RejectedSound(p)'
<1> USE DEF Goto, Ends, TypeOK, FileTypes, LocalTypes
<1>0. /\ p \in Committers /\ p \in Procs /\ CommitterSound(p) /\ lock = p
      /\ p # Torn /\ p # None /\ p \notin Files
      /\ replaced[p] \in Names \union {None}
      /\ replaced[p] # None => beside[replaced[p]] # p
  <2>1. p \in Committers /\ p \notin Files
    BY DEF Trees
  <2>2. pc[p] \in {"verify", "rollback", "rejected"}
    BY DEF VerifyPasses, VerifyFails, ExchangeBack, RejectAside, PutBack, RollbackFails
  <2> QED
    BY <2>1, <2>2, CommitterFacts DEF RejectedSound, Moved, LockSound, Holding
<1>1. CASE VerifyPasses(p)
  <2>1. pc'[p] = "unlock" /\ verdict'[p] = "ok"
    BY <1>0, <1>1 DEF VerifyPasses
  <2> QED
    BY <2>1 DEF RejectedSound, Rejected, Moved
<1>2. CASE VerifyFails(p)
  <2>1. pc'[p] = "rollback" /\ replaced' = replaced /\ beside' = beside
    BY <1>0, <1>2 DEF VerifyFails, files
  <2> QED
    BY <1>0, <2>1 DEF RejectedSound, Rejected, Moved
<1>3. CASE ExchangeBack(p) \/ PutBack(p)
  <2>1. pc'[p] = "unlock" /\ dest' # p
    BY <1>0, <1>3 DEF ExchangeBack, PutBack, CommitterSound
  <2>2. \A q \in Committers : ~Moved(q)'
    BY <1>0, <2>1, OnlyMover DEF Moved
  <2> QED
    BY <1>0, <2>1, <2>2 DEF RejectedSound, Clear
<1>4. CASE RejectAside(p)
  <2>1. /\ pc'[p] \in {"unlock", "rejected"} /\ dest' = None /\ MakeName
        /\ beside' = [beside EXCEPT ![Fresh] = dest] /\ replaced' = replaced
        /\ replaced[p] = None => pc'[p] = "unlock"
        /\ replaced[p] # None => pc'[p] = "rejected"
    BY <1>0, <1>4 DEF RejectAside
  <2>2. replaced[p] # None => beside'[replaced[p]] # p
    BY <1>0, <2>1, CommitterFacts, FreshFacts
  <2>3. CASE pc'[p] = "unlock"
    <3>1. \A q \in Committers : ~Moved(q)'
      BY <1>0, <2>3, OnlyMover DEF Moved
    <3> QED
      BY <1>0, <2>1, <3>1 DEF RejectedSound, Clear
  <2>4. CASE pc'[p] = "rejected"
    BY <2>1, <2>2, <2>4 DEF RejectedSound, Rejected, Moved
  <2> QED
    BY <2>1, <2>3, <2>4
<1>5. CASE RollbackFails(p)
  <2>1. pc'[p] = "unlock" /\ faults' # 0
    <3>1. faults \in Nat
      BY PublishAssumption
    <3> QED
      BY <1>0, <1>5, <3>1 DEF RollbackFails, Fault
  <2> QED
    BY <2>1 DEF RejectedSound, Rejected, Moved
<1> QED
    BY <1>1, <1>2, <1>3, <1>4, <1>5

\* After it, the entries it deletes are not those moved aside by others.
LEMMA OwnEnd ==
    ASSUME TypeOK, Flow, Kept, Recovered, NEW p \in Trees, RejectedSound(p), Advances(p),
           Writes(p),
           Unlock(p) \/ Tear(p) \/ TearMoved(p) \/ Vanish(p) \/ Cleaned(p) \/ Crash(p)
    PROVE  RejectedSound(p)'
<1> USE DEF Goto, TypeOK, FileTypes, LocalTypes
<1>0. /\ p \in Committers /\ p \in Procs /\ p # Torn /\ p # None /\ p \notin Recoverers
    BY CommitterFacts DEF Trees
<1>1. CASE Crash(p)
  <2>1. pc'[p] = "crashed"
    BY <1>0, <1>1 DEF Crash
  <2> QED
    BY <2>1 DEF RejectedSound, Rejected, Moved
<1>2. CASE Unlock(p) \/ Tear(p) \/ TearMoved(p) \/ Vanish(p) \/ Cleaned(p)
  <2>1. /\ pc[p] \in {"unlock", "clean"} /\ pc'[p] \in {"unlock", "clean", "unlease", "done"}
        /\ dest' \in {dest, Torn} /\ verdict' = verdict /\ faults' = faults
        /\ replaced' = replaced
        /\ \A n \in Names : beside'[n] = beside[n] \/ beside'[n] \in {None, Torn}
    BY <1>0, <1>2 DEF Unlock, Tear, TearMoved, Vanish, Cleaned, files, local, luck
  <2>2. Rejected(p)' => Rejected(p)
    BY <2>1 DEF Rejected
  <2>3. \A q \in Committers : Moved(q)' => Moved(q) /\ replaced[q] \in Names
    BY <1>0, <2>1, CommitterFacts DEF Moved, Advances, Seen, SameLocal
  <2>4. Clear(p) => Clear(p)'
    BY <1>0, <2>1, <2>3 DEF Clear
  <2>5. ~Moved(p)'
    BY <2>1 DEF Moved
  <2> QED
    BY <2>1, <2>2, <2>4, <2>5 DEF RejectedSound
<1> QED
    BY <1>1, <1>2

LEMMA OwnRejected ==
    ASSUME TypeOK, Flow, Kept, Recovered, NEW p \in Trees, RejectedSound(p), Advances(p),
           Writes(p), Moves(p), Step(p) \/ Withdraw(p) \/ Crash(p)
    PROVE  RejectedSound(p)'
<1>1. p \in Procs /\ p \notin Recoverers /\ p \notin Removers
    BY CommitterFacts DEF Trees
<1>2. ~Remove(p) /\ ~Recover(p)
    BY <1>1, InHand
       DEF Remove, RemoveNothing, RemoveEntry, Recover, ListLeftovers, Inspect, Decide,
       PlanOnly, Restore, Reverify, Unlease
<1> QED
    BY <1>2, OwnStaging, OwnPublish, OwnRollback, OwnEnd DEF Step, Commit

LEMMA FaultsGrow ==
    ASSUME TypeOK, NEW a \in Procs, Step(a) \/ Withdraw(a) \/ Crash(a)
    PROVE  faults' = 0 => faults = 0
<1>1. faults \in Nat
    BY PublishAssumption DEF TypeOK
<1>2. CASE RenameFails(a) \/ RollbackFails(a)
    BY <1>1, <1>2 DEF RenameFails, RollbackFails, Fault, luck
<1>3. CASE Commit(a) /\ ~RenameFails(a) /\ ~RollbackFails(a)
    BY <1>3
       DEF Commit, Stage, Own, Fill, FillFails, Refuse, RenameIn, ExchangeIn, MoveAside, PutIn,
       VerifyPasses, VerifyFails, ExchangeBack, RejectAside, PutBack, Publish, luck
<1>4. CASE Remove(a) \/ Recover(a)
    BY <1>4
       DEF Remove, RemoveNothing, RemoveEntry, Recover, ListLeftovers, Inspect, Decide,
       PlanOnly, Restore, Reverify, Unlease, luck
<1>5. CASE \/ Withdraw(a) \/ Crash(a) \/ Acquire(a) \/ Unlock(a) \/ Tear(a) \/ TearMoved(a)
           \/ Vanish(a) \/ Cleaned(a)
    BY <1>5 DEF Withdraw, Crash, Acquire, Unlock, Tear, TearMoved, Vanish, Cleaned, luck
<1> QED
    BY <1>2, <1>3, <1>4, <1>5 DEF Step

LEMMA RejectedStep ==
    ASSUME TypeOK, Flow, Kept, Recovered, \A p \in Trees : RejectedSound(p), [Next]_vars
    PROVE  (\A p \in Trees : RejectedSound(p))'
<1>1. CASE AncestorCommit
  <2>0. \A p \in Trees : p # None /\ p \in Procs /\ p \in Committers
    BY CommitterFacts DEF Trees
  <2>1. \A q \in Committers : Moved(q)' => FALSE
    BY <1>1, CommitterFacts DEF AncestorCommit, Moved, coord, LockSound, Holding
  <2> QED
    BY <1>1, <2>0, <2>1 DEF AncestorCommit, RejectedSound, Clear, Trees
<1>2. CASE UNCHANGED vars
    BY <1>2
       DEF vars, files, coord, local, luck, RejectedSound, Clear, Moved, Rejected
<1>3. ASSUME NEW a \in Procs, Step(a) \/ Withdraw(a) \/ Crash(a), NEW p \in Trees
      PROVE  RejectedSound(p)'
  <2>1. Advances(a) /\ Writes(a) /\ Moves(a) /\ (faults' = 0 => faults = 0)
    BY <1>3, Advance, StepKeeps, StepMoves, FaultsGrow DEF KeepsOriginal
  <2>2. CASE p = a
    BY <1>3, <2>1, <2>2, OwnRejected
  <2>3. CASE p # a
    BY <1>3, <2>1, <2>3, RejectedByOthers
  <2> QED
    BY <2>2, <2>3
<1> QED
    BY <1>1, <1>2, <1>3 DEF Next

LEMMA InitRejected == Init => \A p \in Trees : RejectedSound(p)
<1> SUFFICES ASSUME Init, NEW p \in Trees PROVE RejectedSound(p)
    OBVIOUS
<1>1. p # Original
    BY RolesApart DEF Trees, Procs
<1>2. \A q \in Committers : ~Moved(q)
    BY DEF Init, Moved, Procs
<1> QED
    BY <1>1, <1>2 DEF Init, RejectedSound, Clear, Trees

\* Everything together.
LEMMA Invariant == Spec => []PublishInv
BY InitTypeOK, InitFlow, InitKept, InitRecovered, InitRejected, TypeStep, FlowStep, KeptStep,
   RecoveredStep, RejectedStep, PTL DEF Spec, PublishInv

\* A tree that failed its verification is gone from the destination when
\* Commit has let go of the lock, if no rename of the rollback failed; nor does
\* anyone else bring it back.
THEOREM RejectedStaysOut == Spec => []RejectedNotPublished
<1>1. PublishInv => RejectedNotPublished
    BY DEF PublishInv, RejectedNotPublished, RejectedSound, Rejected, Clear, Trees
<1> QED
    BY <1>1, Invariant, PTL


-----------------------------------------------------------------------------
\* Types.

Stages == {"waiting", "basis", "callback", "derived"} \cup Claimed \cup Ended
Perhaps(S) == S \cup {Nil}

Types ==
    /\ program \in Programs /\ phase \in {"runs", "run"}
    /\ stage \in [Tasks -> Stages] /\ at \in [Tasks -> Nat \ {0}]
    /\ DOMAIN seen = Tasks /\ DOMAIN source = Tasks /\ DOMAIN pending = Tasks
    /\ DOMAIN skipped = Tasks /\ DOMAIN watching = Tasks /\ DOMAIN passed = Tasks
    /\ DOMAIN store = Tasks /\ DOMAIN saved = Tasks /\ DOMAIN disk = Paths
    /\ owner \in [Paths -> Perhaps(Tasks)] /\ writer \in [Paths -> Perhaps(Tasks)]
    /\ gate \in [Paths -> {"none", "open", "settled"}]

\* What each stage says of the operation: which kinds reach it, and that there
\* is one.
Reaches(s) == IF s = "derived" THEN {"patch"}
              ELSE IF s = "held" THEN {"file", "patch"}
              ELSE IF s = "observing" THEN {"file", "exec", "patch"} ELSE {"exec"}
Underway == Claimed \cup {"derived"}

Stands ==
    /\ phase = "runs" => \A t \in Tasks : stage[t] = "waiting"
    /\ \A t \in Tasks : stage[t] \in Underway =>
        at[t] \in DOMAIN program.ops[t] /\ Op(t).kind \in Reaches(stage[t])

\* A step of t leaves every other Task where it stands.
OthersStay(t) ==
    /\ UNCHANGED <<program, phase, dry>>
    /\ \A u \in Tasks \ {t} :
        /\ stage'[u] = stage[u] /\ at'[u] = at[u] /\ seen'[u] = seen[u]
        /\ source'[u] = source[u] /\ pending'[u] = pending[u]
        /\ skipped'[u] = skipped[u] /\ watching'[u] = watching[u]
        /\ store'[u] = store[u]
        /\ stage'[u] \in Underway => Op(u)' = Op(u)

\* Each operation of a program is one.
LEMMA OpTyped ==
    ASSUME Types, NEW t \in Tasks, at[t] \in DOMAIN program.ops[t]
    PROVE  /\ Op(t) \in Operation
           /\ Outs(t) \subseteq Paths
           /\ Op(t).kind # "exec" => Out(t) \in Outs(t) /\ Outs(t) = {Out(t)}
           /\ Op(t).kind = "patch" => Op(t).basis = {}
<1>1. program.ops[t] \in Seq(Operation)
    BY OperationsAssumption DEF Types
<1>2. Op(t) \in Operation
    BY <1>1 DEF Op
<1>3. Op(t).outs \in Seq(Paths)
    BY <1>2 DEF Operation
<1>4. Outs(t) \subseteq Paths
    BY <1>3 DEF Outs, Range
<1>5. /\ Op(t).kind # "exec" => Len(Op(t).outs) = 1
      /\ Op(t).kind = "patch" => Op(t).basis = {}
    BY OperationsAssumption DEF Types, Op
<1>6. ASSUME Op(t).kind # "exec"
      PROVE  Out(t) \in Outs(t) /\ Outs(t) = {Out(t)}
  <2>1. DOMAIN Op(t).outs = {1}
    BY <1>3, <1>5, <1>6
  <2> QED
    BY <2>1 DEF Outs, Out, Range
<1> QED
    BY <1>2, <1>4, <1>5, <1>6

LEMMA Issued ==
    ASSUME Types, NEW t \in Tasks, NEW kind, Issuing(t, kind)
    PROVE  at[t] \in DOMAIN program.ops[t] /\ Op(t).kind = kind
<1>1. program.ops[t] \in Seq(Operation)
    BY OperationsAssumption DEF Types
<1> QED
    BY <1>1 DEF Issuing, Types

-----------------------------------------------------------------------------
\* What the steps of a Task change.

\* An operation that ends leaves its Task outside it.
LEMMA Leaves ==
    ASSUME Types, NEW t \in Tasks, GoesOn(t) \/ Errs(t)
    PROVE  /\ stage' \in [Tasks -> Stages] /\ stage'[t] \in {"callback", "failed"}
           /\ at' \in [Tasks -> Nat \ {0}]
           /\ \A u \in Tasks \ {t} :
                /\ stage'[u] = stage[u] /\ at'[u] = at[u] /\ seen'[u] = seen[u]
                /\ source'[u] = source[u]
           /\ DOMAIN seen' = Tasks /\ DOMAIN source' = Tasks /\ DOMAIN passed' = Tasks
<1>1. CASE GoesOn(t)
  <2>1. at[t] + 1 \in Nat \ {0}
    BY DEF Types
  <2> QED
    BY <1>1, <2>1 DEF GoesOn, Forget, Types, Stages
<1>2. CASE stage' = [stage EXCEPT ![t] = "failed"] /\ Forget(t) /\ UNCHANGED at
    BY <1>2 DEF Forget, Types, Stages, Ended
<1> QED
    BY <1>1, <1>2 DEF Errs

LEMMA FrameStep ==
    ASSUME Types, NEW t \in Tasks, TaskStep(t)
    PROVE  OthersStay(t)
<1> SUFFICES /\ UNCHANGED <<program, phase, dry>>
             /\ \A u \in Tasks \ {t} :
                  /\ stage'[u] = stage[u] /\ at'[u] = at[u] /\ seen'[u] = seen[u]
                  /\ source'[u] = source[u] /\ pending'[u] = pending[u]
                  /\ skipped'[u] = skipped[u] /\ watching'[u] = watching[u]
                  /\ store'[u] = store[u]
    BY DEF OthersStay, Op
<1> USE DEF Types, world
<1>1. CASE Start(t) \/ GivenUp(t)
    BY <1>1 DEF Start, GivenUp
<1>2. CASE ObserveWatched(t) \/ Observe(t)
    BY <1>2 DEF ObserveWatched, Observe
<1>3. CASE BasisVerdict(t)
    BY <1>3 DEF BasisVerdict
<1>4. CASE SettleDone(t) \/ CallbackFails(t)
    BY <1>4 DEF SettleDone, CallbackFails, Committed
<1>5. CASE ClaimOutputs(t)
  <2>1. CASE Conflict(t, Op(t).outs) = {}
      BY <1>5, <2>1 DEF ClaimOutputs, Still
  <2>2. CASE Conflict(t, Op(t).outs) # {}
    <3>1. Errs(t) /\ Still /\ UNCHANGED <<disk, watching, writer>>
        BY <1>5, <2>2 DEF ClaimOutputs
    <3> QED
        BY <3>1, Leaves DEF Errs, Still
  <2> QED
      BY <2>1, <2>2
<1>6. CASE Await(t)
    BY <1>6 DEF Await
<1>7. CASE Derive(t)
  <2>1. CASE disk[Out(t)] = Nil
    <3>1. Errs(t) /\ Still /\ UNCHANGED <<disk, watching, owner, gate, writer>>
        BY <1>7, <2>1 DEF Derive
    <3> QED
        BY <3>1, Leaves DEF Errs, Still
  <2>2. CASE disk[Out(t)] # Nil
      BY <1>7, <2>2 DEF Derive, Still
  <2> QED
      BY <2>1, <2>2
<1>8. CASE Hold(t)
  <2>1. CASE Valid(t)
      BY <1>8, <2>1 DEF Hold, Still
  <2>2. CASE ~Valid(t)
    <3>1. Errs(t) /\ Still /\ UNCHANGED <<disk, watching, owner>>
        BY <1>8, <2>2 DEF Hold
    <3> QED
        BY <3>1, Leaves DEF Errs, Still
  <2> QED
      BY <2>1, <2>2
<1>9. CASE SkipCurrent(t)
  <2>1. pending' = pending \/ Records(t, Prior(t))
      BY <1>9 DEF SkipCurrent, CarryForward
  <2>2. GoesOn(t) /\ Still /\ UNCHANGED watching
        /\ skipped' = [skipped EXCEPT ![t] = @ \cup {at[t]}]
      BY <1>9 DEF SkipCurrent
  <2> QED
      BY <2>1, <2>2, Leaves DEF Records, Still
<1>10. CASE Plan(t)
  <2>1. GoesOn(t) /\ Still /\ UNCHANGED <<pending, watching, skipped>>
      BY <1>10 DEF Plan
  <2> QED
      BY <2>1, Leaves DEF Still
<1>11. CASE Establish(t)
  <2>1. GoesOn(t) /\ Still /\ UNCHANGED <<watching, skipped>>
      BY <1>11 DEF Establish
  <2>2. PICK rec : Records(t, rec)
      BY <1>11 DEF Establish
  <2> QED
      BY <2>1, <2>2, Leaves DEF Still, Records
<1>12. CASE FileFails(t) \/ ChildFails(t)
  <2>1. Errs(t) /\ Still /\ UNCHANGED watching
      BY <1>12 DEF FileFails, ChildFails
  <2> QED
      BY <2>1, Leaves DEF Errs, Still
<1>13. CASE Spawn(t) \/ ChildEnds(t)
    BY <1>13 DEF Spawn, ChildEnds, Still
<1>14. CASE Verify(t)
  <2>1. CASE Errs(t)
      BY <1>14, <2>1, Leaves DEF Verify, Errs, Still
  <2>2. CASE Records(t, Record(t)) /\ GoesOn(t) /\ UNCHANGED skipped
      BY <1>14, <2>2, Leaves DEF Verify, Records, Still
  <2> QED
      BY <1>14, <2>1, <2>2 DEF Verify
<1> QED
    BY <1>1, <1>2, <1>3, <1>4, <1>5, <1>6, <1>7, <1>8, <1>9, <1>10, <1>11,
       <1>12, <1>13, <1>14 DEF TaskStep

\* What an operation does to claims and barriers keeps their types.
LEMMA ClaimsTyped ==
    ASSUME Types, NEW t \in Tasks
    PROVE  /\ \A ps : Opened(ps) \in [Paths -> {"none", "open", "settled"}]
           /\ \A ps : Unwound(ps) \in [Paths -> {"none", "open", "settled"}]
           /\ \A ps : Settled(ps) \in [Paths -> {"none", "open", "settled"}]
           /\ Unheld(t) \in [Paths -> Perhaps(Tasks)]
BY DEF Types, Opened, Unwound, Settled, Unheld, Perhaps

LEMMA TypesStep ==
    ASSUME Types, NEW t \in Tasks, TaskStep(t)
    PROVE  Types'
<1> DEFINE Steady == /\ UNCHANGED <<program, phase>>
                     /\ DOMAIN store' = Tasks /\ DOMAIN saved' = Tasks
           Standing == /\ stage' \in [Tasks -> Stages] /\ at' \in [Tasks -> Nat \ {0}]
                       /\ DOMAIN seen' = Tasks /\ DOMAIN source' = Tasks
                       /\ DOMAIN passed' = Tasks
           Told == /\ DOMAIN pending' = Tasks /\ DOMAIN skipped' = Tasks
                   /\ DOMAIN watching' = Tasks
           Taken == /\ DOMAIN disk' = Paths
                    /\ owner' \in [Paths -> Perhaps(Tasks)]
                    /\ writer' \in [Paths -> Perhaps(Tasks)]
                    /\ gate' \in [Paths -> {"none", "open", "settled"}]
<1> SUFFICES Steady /\ Standing /\ Told /\ Taken
    BY DEF Types
<1>1. Steady
  <2>1. UNCHANGED <<program, phase>>
    BY FrameStep DEF OthersStay
  <2>2. DOMAIN store' = Tasks /\ DOMAIN saved' = Tasks
    <3>1. Still => DOMAIN store' = Tasks /\ DOMAIN saved' = Tasks
      BY DEF Types, Still
    <3>2. CASE SettleDone(t)
      BY <3>2 DEF SettleDone, Committed, Types
    <3>3. CASE \/ Start(t) \/ GivenUp(t) \/ ObserveWatched(t) \/ BasisVerdict(t)
               \/ CallbackFails(t) \/ Await(t) \/ Observe(t)
      BY <3>3 DEF Types, Start, GivenUp, ObserveWatched, BasisVerdict, CallbackFails,
         Await, Observe, world
    <3> QED
      BY <3>1, <3>2, <3>3 DEF TaskStep, ClaimOutputs, SkipCurrent, Plan, Derive, Hold,
         Establish, FileFails, Spawn, ChildEnds, ChildFails, Verify
  <2> QED
    BY <2>1, <2>2
<1>2. Standing
  <2>1. GoesOn(t) \/ Errs(t) => Standing
    BY Leaves
  <2>2. CASE \/ Start(t) \/ GivenUp(t) \/ ObserveWatched(t) \/ BasisVerdict(t)
             \/ CallbackFails(t) \/ SettleDone(t) \/ Await(t) \/ Observe(t)
    BY <2>2 DEF Types, Start, GivenUp, ObserveWatched, BasisVerdict, CallbackFails,
       SettleDone, Await, Observe, world, Stages, Claimed, Ended
  <2>3. CASE ClaimOutputs(t) \/ Derive(t) \/ Hold(t)
    <3>1. CASE Errs(t)
      BY <2>1, <3>1
    <3>2. CASE ~Errs(t)
      <4>1. UNCHANGED <<at, seen, passed>> /\ DOMAIN source' = Tasks
        BY <2>3, <3>2 DEF ClaimOutputs, Derive, Hold, Types
      <4>2. stage' \in [Tasks -> Stages]
        BY <2>3, <3>2 DEF ClaimOutputs, Derive, Hold, Types, Stages, Claimed
      <4> QED
        BY <4>1, <4>2 DEF Types
    <3> QED
      BY <3>1, <3>2
  <2>4. CASE Spawn(t) \/ ChildEnds(t)
    BY <2>4 DEF Types, Spawn, ChildEnds, Stages, Claimed
  <2> QED
    BY <2>1, <2>2, <2>3, <2>4 DEF TaskStep, SkipCurrent, Plan, Establish, FileFails,
       ChildFails, Verify
<1>3. Told
  <2>1. \A rec : Records(t, rec) => DOMAIN pending' = Tasks
    BY DEF Records, Types
  <2>2. Errs(t) => UNCHANGED <<pending, skipped>>
    BY DEF Errs
  <2>3. CASE \/ Start(t) \/ GivenUp(t) \/ ObserveWatched(t) \/ BasisVerdict(t)
             \/ CallbackFails(t) \/ SettleDone(t) \/ Await(t) \/ Observe(t)
    BY <2>3 DEF Types, Start, GivenUp, ObserveWatched, BasisVerdict, CallbackFails,
       SettleDone, Await, Observe
  <2>4. CASE ClaimOutputs(t) \/ Derive(t) \/ Hold(t) \/ Spawn(t) \/ ChildEnds(t)
    BY <2>2, <2>4 DEF Types, ClaimOutputs, Derive, Hold, Spawn, ChildEnds
  <2>5. CASE SkipCurrent(t) \/ Plan(t) \/ Establish(t)
    BY <2>1, <2>5 DEF Types, SkipCurrent, CarryForward, Plan, Establish
  <2>6. CASE FileFails(t) \/ ChildFails(t) \/ Verify(t)
    BY <2>1, <2>2, <2>6 DEF Types, FileFails, ChildFails, Verify
  <2> QED
    BY <2>3, <2>4, <2>5, <2>6 DEF TaskStep
<1>4. Taken
  <2>1. Returns(t) => /\ writer' \in [Paths -> Perhaps(Tasks)]
                      /\ gate' \in [Paths -> {"none", "open", "settled"}]
    BY ClaimsTyped DEF Returns
  <2>2. CASE \/ Start(t) \/ GivenUp(t) \/ ObserveWatched(t) \/ BasisVerdict(t)
             \/ CallbackFails(t) \/ SettleDone(t) \/ Await(t) \/ Observe(t) \/ Derive(t)
    BY <2>2 DEF Types, Start, GivenUp, ObserveWatched, BasisVerdict, CallbackFails,
       SettleDone, Await, Observe, Derive, world
  <2>3. CASE ClaimOutputs(t)
    <3>1. owner' \in [Paths -> Perhaps(Tasks)]
      BY <2>3 DEF ClaimOutputs, Types, Perhaps
    <3>2. gate' \in [Paths -> {"none", "open", "settled"}]
      BY <2>3, ClaimsTyped DEF ClaimOutputs
    <3> QED
      BY <2>3, <3>1, <3>2 DEF ClaimOutputs, Types
  <2>4. CASE Hold(t)
    <3>1. CASE Valid(t)
      BY <2>4, <3>1 DEF Hold, Types, Perhaps
    <3>2. CASE ~Valid(t)
      BY <2>1, <2>4, <3>2 DEF Hold, Types
    <3> QED
      BY <3>1, <3>2
  <2>5. CASE SkipCurrent(t) \/ Plan(t) \/ Establish(t) \/ FileFails(t) \/ ChildFails(t)
             \/ Verify(t)
    BY <2>1, <2>5 DEF SkipCurrent, Plan, Establish, FileFails, ChildFails, Verify, Types
  <2>6. CASE Spawn(t) \/ ChildEnds(t)
    BY <2>6 DEF Spawn, ChildEnds, Types
  <2> QED
    BY <2>2, <2>3, <2>4, <2>5, <2>6 DEF TaskStep
<1> QED
    BY <1>1, <1>2, <1>3, <1>4

\* A Task's own step leaves it where its stage says.
LEMMA StandsStep ==
    ASSUME Types, Stands, NEW t \in Tasks, TaskStep(t)
    PROVE  Stands'
<1>1. OthersStay(t)
    BY FrameStep
<1>2. Types'
    BY TypesStep
<1>3. phase' = "run"
  <2>1. phase = "run"
    BY DEF Stands, TaskStep, Start, GivenUp, ObserveWatched, BasisVerdict, SettleDone,
       CallbackFails, ClaimOutputs, Issuing, Await, Observe, Derive, Hold, At, SkipCurrent,
       Plan, Consulting, Establish, FileFails, Spawn, ChildEnds, ChildFails, Verify, Types
  <2> QED
    BY <1>1, <2>1 DEF OthersStay
<1>4. stage'[t] \in Underway =>
        at'[t] \in DOMAIN program.ops[t] /\ Op(t)'.kind \in Reaches(stage'[t])
  <2>1. CASE stage'[t] \notin Underway
    BY <2>1
  <2>2. GoesOn(t) \/ Errs(t) => stage'[t] \notin Underway
    BY Leaves DEF Underway, Claimed
  <2> SUFFICES ASSUME at'[t] = at[t]
               PROVE  stage'[t] \in Underway =>
                        at[t] \in DOMAIN program.ops[t] /\ Op(t).kind \in Reaches(stage'[t])
    <3>1. at'[t] = at[t] => Op(t)' = Op(t)
      BY <1>1 DEF Op, OthersStay
    <3>2. CASE GoesOn(t) \/ Errs(t)
      BY <2>2, <3>2
    <3>3. CASE ~(GoesOn(t) \/ Errs(t))
      <4>1. at'[t] = at[t]
        BY <3>3 DEF TaskStep, Start, GivenUp, ObserveWatched, BasisVerdict, SettleDone,
           CallbackFails, ClaimOutputs, Await, Observe, Derive, Hold, SkipCurrent, Plan,
           Establish, FileFails, Spawn, ChildEnds, ChildFails, Verify
      <4> QED
        BY <3>1, <4>1
    <3> QED
      BY <3>2, <3>3
  <2>3. CASE \/ Start(t) \/ GivenUp(t) \/ ObserveWatched(t) \/ BasisVerdict(t)
             \/ CallbackFails(t) \/ SettleDone(t)
    BY <2>3 DEF Start, GivenUp, ObserveWatched, BasisVerdict, CallbackFails, SettleDone,
       Underway, Claimed, Types, Stands
  <2>4. CASE ClaimOutputs(t)
    <3>1. at[t] \in DOMAIN program.ops[t] /\ Op(t).kind \in {"exec", "file", "patch"}
      <4>1. CASE stage[t] = "derived"
        BY <4>1 DEF Stands, Underway, Reaches
      <4>2. CASE Issuing(t, "exec") \/ Issuing(t, "file")
        BY <4>2, Issued
      <4> QED
        BY <2>4, <4>1, <4>2 DEF ClaimOutputs
    <3>2. Errs(t) \/ stage'[t] = IF Op(t).kind = "exec" THEN "awaiting" ELSE "observing"
      BY <2>4 DEF ClaimOutputs, Types
    <3> QED
      BY <2>2, <3>1, <3>2 DEF Reaches
  <2>5. CASE Await(t)
    BY <2>5 DEF Await, Types, Stands, Underway, Claimed, Reaches
  <2>6. CASE Observe(t)
    BY <2>6 DEF Observe, Stands
  <2>7. CASE Derive(t)
    <3>1. Errs(t) \/ stage'[t] = "derived"
      BY <2>7 DEF Derive, Types
    <3> QED
      BY <2>2, <2>7, <3>1, Issued DEF Derive, Reaches
  <2>8. CASE Hold(t)
    <3>1. Errs(t) \/ stage'[t] = "held"
      BY <2>8 DEF Hold, Types
    <3> QED
      BY <2>2, <2>8, <3>1 DEF Hold, At, Stands, Underway, Claimed, Reaches
  <2>9. CASE Spawn(t) \/ ChildEnds(t)
    BY <2>9 DEF Spawn, ChildEnds, At, Stands, Underway, Claimed, Reaches, Types
  <2>10. CASE \/ SkipCurrent(t) \/ Plan(t) \/ Establish(t) \/ FileFails(t) \/ ChildFails(t)
              \/ Verify(t)
    BY <2>2, <2>10 DEF SkipCurrent, Plan, Establish, FileFails, ChildFails, Verify
  <2> QED
    BY <2>3, <2>4, <2>5, <2>6, <2>7, <2>8, <2>9, <2>10 DEF TaskStep
<1>5. ASSUME NEW u \in Tasks \ {t}, stage'[u] \in Underway
      PROVE  at'[u] \in DOMAIN program'.ops[u] /\ Op(u)'.kind \in Reaches(stage'[u])
    BY <1>1, <1>5 DEF OthersStay, Stands
<1>6. program' = program
    BY <1>1 DEF OthersStay
<1> QED
    BY <1>3, <1>4, <1>5, <1>6 DEF Stands

-----------------------------------------------------------------------------
\* Claims and barriers.

\* Whoever works on an operation owns its outputs, and only such a one keeps a
\* barrier open.
Owned == \A t \in Tasks : stage[t] \in Claimed => \A p \in Outs(t) : owner[p] = t
Barred ==
    \A p \in Paths : gate[p] = "open" =>
        \E t \in Tasks : owner[p] = t /\ stage[t] \in Claimed /\ p \in Outs(t)

\* A step of t claims; or begins and ends outside an operation; or goes on with
\* one; or ends one, and settles its barriers.
LEMMA ClaimMoves ==
    ASSUME Types, NEW t \in Tasks, TaskStep(t)
    PROVE  \/ ClaimOutputs(t)
           \/ /\ stage[t] \notin Claimed /\ stage'[t] \notin Claimed
              /\ UNCHANGED <<owner, gate>>
           \/ /\ stage[t] \in Claimed /\ stage'[t] \in Claimed
              /\ Op(t)' = Op(t) /\ UNCHANGED <<owner, gate>>
           \/ /\ stage[t] \in Claimed /\ stage'[t] \notin Claimed
              /\ owner' = owner /\ gate' = Settled(Outs(t))
<1>1. program' = program
    BY FrameStep DEF OthersStay
<1>2. GoesOn(t) \/ Errs(t) => stage'[t] \notin Claimed
    BY Leaves DEF Claimed
<1>3. CASE \/ Start(t) \/ GivenUp(t) \/ ObserveWatched(t) \/ BasisVerdict(t)
           \/ CallbackFails(t) \/ SettleDone(t)
    BY <1>3 DEF Start, GivenUp, ObserveWatched, BasisVerdict, CallbackFails, SettleDone,
       Claimed, Types
<1>4. CASE Derive(t)
  <2>1. Errs(t) \/ stage'[t] = "derived"
    BY <1>4 DEF Derive, Types
  <2> QED
    BY <1>2, <1>4, <2>1 DEF Derive, Issuing, Claimed
<1>5. CASE Await(t) \/ Observe(t)
    BY <1>1, <1>5 DEF Await, Observe, Op, Claimed, Types
<1>6. CASE Hold(t)
  <2>1. CASE Valid(t)
    BY <1>1, <1>6, <2>1 DEF Hold, At, Op, Claimed, Types
  <2>2. CASE ~Valid(t)
    BY <1>2, <1>6, <2>2 DEF Hold, At, Claimed, Returns
  <2> QED
    BY <2>1, <2>2
<1>7. CASE Spawn(t) \/ ChildEnds(t)
    BY <1>1, <1>7 DEF Spawn, ChildEnds, At, Op, Claimed, Types
<1>8. CASE SkipCurrent(t) \/ Plan(t) \/ Establish(t)
    BY <1>2, <1>8 DEF SkipCurrent, Plan, Establish, Consulting, At, Claimed, Returns
<1>9. CASE FileFails(t) \/ ChildFails(t) \/ Verify(t)
    BY <1>2, <1>9 DEF FileFails, ChildFails, Verify, Claimed, Returns
<1> QED
    BY <1>3, <1>4, <1>5, <1>6, <1>7, <1>8, <1>9 DEF TaskStep

\* A claim takes all outputs, with a barrier each, or settles what it took.
LEMMA ClaimTakes ==
    ASSUME Types, Stands, Owned, NEW t \in Tasks, ClaimOutputs(t)
    PROVE  /\ stage[t] \notin Claimed
           /\ \A p \in Paths : owner'[p] # owner[p] => owner[p] = Nil /\ owner'[p] = t
           /\ stage'[t] \in Claimed =>
                /\ Op(t)' = Op(t) /\ \A p \in Outs(t) : owner'[p] = t
                /\ gate' = Opened(Outs(t))
           /\ stage'[t] \notin Claimed => \E ps : gate' = Unwound(ps)
<1> DEFINE ps == ClaimedOuts(t, Op(t).outs)
<1>1. at[t] \in DOMAIN program.ops[t]
    BY Issued DEF ClaimOutputs, Stands, Underway
<1>2. Op(t).outs \in Seq(Paths) /\ Outs(t) \subseteq Paths
    BY <1>1, OpTyped DEF Operation
<1>3. stage[t] \notin Claimed
    BY DEF ClaimOutputs, Issuing, Claimed
<1>4. owner' = [p \in Paths |-> IF p \in ps THEN t ELSE owner[p]]
    BY DEF ClaimOutputs
<1>5. \A p \in ps : owner[p] \in {Nil, t}
  <2> SUFFICES ASSUME NEW i \in DOMAIN Op(t).outs,
                      \A c \in Conflict(t, Op(t).outs) : i < c
               PROVE  owner[Op(t).outs[i]] \in {Nil, t}
    BY DEF ClaimedOuts
  <2>1. i \in Nat
    BY <1>2
  <2>2. i \notin Conflict(t, Op(t).outs)
    BY <2>1
  <2> QED
    BY <2>2 DEF Conflict
<1>6. program' = program
    BY DEF ClaimOutputs, Still
<1>7. CASE Conflict(t, Op(t).outs) = {}
  <2>1. ps = Outs(t)
    BY <1>7 DEF ClaimedOuts, Outs, Range
  <2>2. gate' = Opened(Outs(t)) /\ at' = at /\ stage'[t] \in Claimed
    BY <1>7, <2>1 DEF ClaimOutputs, Claimed, Types
  <2>3. \A p \in Outs(t) : owner'[p] = t
    BY <1>2, <1>4, <2>1
  <2>4. Op(t)' = Op(t)
    BY <1>6, <2>2 DEF Op
  <2> QED
    BY <1>3, <1>4, <1>5, <2>2, <2>3, <2>4
<1>8. CASE Conflict(t, Op(t).outs) # {}
  <2>1. gate' = Unwound(ps) /\ Errs(t)
    BY <1>8 DEF ClaimOutputs
  <2>2. stage'[t] \notin Claimed
    BY <2>1, Leaves DEF Claimed
  <2> QED
    BY <1>3, <1>4, <1>5, <2>1, <2>2
<1> QED
    BY <1>7, <1>8

LEMMA OwnedStep ==
    ASSUME Types, Stands, Owned, NEW t \in Tasks, TaskStep(t)
    PROVE  Owned'
<1>1. OthersStay(t)
    BY FrameStep
<1>2. ASSUME NEW u \in Tasks \ {t}, stage'[u] \in Claimed, NEW p \in Outs(u)'
      PROVE  owner'[p] = u
  <2>1. stage[u] \in Claimed /\ p \in Outs(u)
    BY <1>1, <1>2 DEF OthersStay, Outs, Underway
  <2>2. p \in Paths
    BY <2>1, OpTyped DEF Stands, Underway
  <2>3. owner[p] = u /\ u # Nil
    BY <2>1, OperationsAssumption DEF Owned
  <2>4. CASE ClaimOutputs(t)
    BY <2>2, <2>3, <2>4, ClaimTakes
  <2>5. CASE owner' = owner
    BY <2>3, <2>5
  <2> QED
    BY <2>4, <2>5, ClaimMoves
<1>3. ASSUME stage'[t] \in Claimed, NEW p \in Outs(t)'
      PROVE  owner'[p] = t
  <2>1. CASE ClaimOutputs(t)
    BY <1>3, <2>1, ClaimTakes DEF Outs
  <2>2. CASE /\ stage[t] \in Claimed /\ Op(t)' = Op(t) /\ owner' = owner
    BY <1>3, <2>2 DEF Outs, Owned
  <2> QED
    BY <1>3, <2>1, <2>2, ClaimMoves
<1> QED
    BY <1>2, <1>3 DEF Owned

LEMMA BarredStep ==
    ASSUME Types, Stands, Owned, Barred, NEW t \in Tasks, TaskStep(t)
    PROVE  Barred'
<1>1. OthersStay(t)
    BY FrameStep
<1> SUFFICES ASSUME NEW p \in Paths, gate'[p] = "open"
             PROVE  \E u \in Tasks : owner'[p] = u /\ stage'[u] \in Claimed /\ p \in Outs(u)'
    BY DEF Barred
<1>2. ASSUME gate[p] = "open", owner'[p] = owner[p], NEW u \in Tasks \ {t},
             owner[p] = u, stage[u] \in Claimed, p \in Outs(u)
      PROVE  owner'[p] = u /\ stage'[u] \in Claimed /\ p \in Outs(u)'
    BY <1>1, <1>2 DEF OthersStay, Outs, Underway
<1>3. CASE ClaimOutputs(t)
  <2>1. CASE stage'[t] \in Claimed
    <3>1. CASE p \in Outs(t)
      BY <1>3, <2>1, <3>1, ClaimTakes DEF Outs
    <3>2. CASE p \notin Outs(t)
      <4>1. gate[p] = "open"
        BY <1>3, <2>1, <3>2, ClaimTakes DEF Opened
      <4>2. PICK u \in Tasks : owner[p] = u /\ stage[u] \in Claimed /\ p \in Outs(u)
        BY <4>1 DEF Barred
      <4>3. owner'[p] = owner[p] /\ u # t
        BY <1>3, <4>2, ClaimTakes, OperationsAssumption
      <4> QED
        BY <1>2, <4>1, <4>2, <4>3
    <3> QED
      BY <3>1, <3>2
  <2>2. CASE stage'[t] \notin Claimed
    <3>1. gate[p] = "open"
      BY <1>3, <2>2, ClaimTakes DEF Unwound
    <3>2. PICK u \in Tasks : owner[p] = u /\ stage[u] \in Claimed /\ p \in Outs(u)
      BY <3>1 DEF Barred
    <3>3. owner'[p] = owner[p] /\ u # t
      BY <1>3, <3>2, ClaimTakes, OperationsAssumption
    <3> QED
      BY <1>2, <3>1, <3>2, <3>3
  <2> QED
    BY <2>1, <2>2
<1>4. CASE stage[t] \notin Claimed /\ UNCHANGED <<owner, gate>>
  <2>1. PICK u \in Tasks : owner[p] = u /\ stage[u] \in Claimed /\ p \in Outs(u)
    BY <1>4 DEF Barred
  <2> QED
    BY <1>2, <1>4, <2>1
<1>5. CASE stage[t] \in Claimed /\ stage'[t] \in Claimed /\ Op(t)' = Op(t)
           /\ UNCHANGED <<owner, gate>>
  <2>1. PICK u \in Tasks : owner[p] = u /\ stage[u] \in Claimed /\ p \in Outs(u)
    BY <1>5 DEF Barred
  <2> QED
    BY <1>2, <1>5, <2>1 DEF Outs
<1>6. CASE stage[t] \in Claimed /\ owner' = owner /\ gate' = Settled(Outs(t))
  <2>1. gate[p] = "open" /\ p \notin Outs(t)
    BY <1>6 DEF Settled
  <2>2. PICK u \in Tasks : owner[p] = u /\ stage[u] \in Claimed /\ p \in Outs(u)
    BY <2>1 DEF Barred
  <2> QED
    BY <1>2, <1>6, <2>1, <2>2
<1> QED
    BY <1>3, <1>4, <1>5, <1>6, ClaimMoves

-----------------------------------------------------------------------------
\* What is held for writing.

\* Who holds its path has it alone, and Patch found there what it derives from.
Held == \A t \in Tasks : stage[t] = "held" => writer[Out(t)] = t /\ Valid(t)

\* A step of t changes the contents of its own outputs alone, while it works on
\* them, and takes no path from another.
LEMMA WriteMoves ==
    ASSUME Types, Stands, NEW t \in Tasks, TaskStep(t), NEW p \in Paths
    PROVE  /\ disk'[p] # disk[p] => stage[t] \in Claimed /\ p \in Outs(t)
           /\ \A u \in Tasks \ {t} : writer[p] = u => writer'[p] = u
<1>1. Returns(t) => \A u \in Tasks \ {t} : writer[p] = u => writer'[p] = u
    BY DEF Returns, Unheld
<1>2. stage[t] = "held" => Outs(t) = {Out(t)}
    BY OpTyped DEF Stands, Underway, Claimed, Reaches
<1>3. CASE \/ Start(t) \/ GivenUp(t) \/ ObserveWatched(t) \/ BasisVerdict(t)
           \/ CallbackFails(t) \/ SettleDone(t) \/ Await(t) \/ Observe(t) \/ Derive(t)
           \/ ClaimOutputs(t)
    BY <1>3 DEF Start, GivenUp, ObserveWatched, BasisVerdict, CallbackFails, SettleDone,
       Await, Observe, Derive, ClaimOutputs, world
<1>4. CASE Hold(t)
  <2>1. CASE Valid(t)
    <3>1. writer[Out(t)] = Nil /\ writer' = [writer EXCEPT ![Out(t)] = t] /\ disk' = disk
      BY <1>4, <2>1 DEF Hold
    <3> QED
      BY <3>1, OperationsAssumption DEF Types
  <2>2. CASE ~Valid(t)
    BY <1>1, <1>4, <2>2 DEF Hold
  <2> QED
    BY <2>1, <2>2
<1>5. CASE SkipCurrent(t) \/ Plan(t) \/ ChildFails(t) \/ Verify(t)
    BY <1>1, <1>5 DEF SkipCurrent, Plan, ChildFails, Verify
<1>6. CASE Establish(t) \/ FileFails(t)
  <2>1. stage[t] = "held" /\ Returns(t)
    BY <1>6 DEF Establish, FileFails
  <2>2. disk' \in {disk, [disk EXCEPT ![Out(t)] = Desired(t)]}
    BY <1>6 DEF Establish, FileFails
  <2> QED
    BY <1>1, <1>2, <2>1, <2>2 DEF Types, Claimed
<1>7. CASE Spawn(t) \/ ChildEnds(t)
    BY <1>7 DEF Spawn, ChildEnds, At, Claimed, Types
<1> QED
    BY <1>3, <1>4, <1>5, <1>6, <1>7 DEF TaskStep

\* The contents another Task is at work on stay as they are.
LEMMA OthersAlone ==
    ASSUME Types, Stands, Owned, NEW t \in Tasks, TaskStep(t),
           NEW u \in Tasks \ {t}, stage[u] \in Claimed, NEW p \in Outs(u)
    PROVE  p \in Paths /\ disk'[p] = disk[p]
<1>1. p \in Paths
    BY OpTyped DEF Stands, Underway
<1> QED
    BY <1>1, WriteMoves DEF Owned

LEMMA HeldStep ==
    ASSUME Types, Stands, Owned, Held, NEW t \in Tasks, TaskStep(t)
    PROVE  Held'
<1>1. OthersStay(t)
    BY FrameStep
<1>2. ASSUME NEW u \in Tasks \ {t}, stage'[u] = "held"
      PROVE  writer'[Out(u)'] = u /\ Valid(u)'
  <2>1. stage[u] = "held" /\ Op(u)' = Op(u) /\ Out(u)' = Out(u)
    BY <1>1, <1>2 DEF OthersStay, Underway, Claimed, Out
  <2>2. Out(u) \in Outs(u) /\ Out(u) \in Paths
    BY <2>1, OpTyped DEF Stands, Underway, Claimed, Reaches
  <2>3. writer'[Out(u)] = u
    BY <2>1, <2>2, WriteMoves DEF Held
  <2>4. disk'[Out(u)] = disk[Out(u)]
    BY <2>1, <2>2, OthersAlone DEF Claimed
  <2>5. source'[u] = source[u] /\ store'[u] = store[u] /\ at'[u] = at[u]
    BY <1>1 DEF OthersStay
  <2>6. Desired(u)' = Desired(u)
    BY <2>1, <2>5 DEF Desired, LastLeft
  <2>7. Valid(u)
    BY <2>1 DEF Held
  <2>8. Valid(u)'
    BY <2>1, <2>4, <2>5, <2>6, <2>7 DEF Valid
  <2> QED
    BY <2>1, <2>3, <2>8
<1>3. ASSUME stage'[t] = "held"
      PROVE  writer'[Out(t)'] = t /\ Valid(t)'
  <2>1. Hold(t) /\ Valid(t)
    <3>1. ~(GoesOn(t) \/ Errs(t))
      BY <1>3, Leaves
    <3> QED
      BY <1>3, <3>1 DEF TaskStep, Start, GivenUp, ObserveWatched, BasisVerdict,
         CallbackFails, SettleDone, Await, Observe, Derive, ClaimOutputs, Hold, SkipCurrent,
         Plan, Establish, FileFails, ChildFails, Verify, Spawn, ChildEnds, Types
  <2>2. /\ writer' = [writer EXCEPT ![Out(t)] = t]
        /\ UNCHANGED <<disk, at, source, store, program>>
    BY <2>1 DEF Hold, Still
  <2>3. Out(t) \in Paths
    BY <2>1, OpTyped DEF Hold, At, Stands, Underway, Claimed
  <2>4. Op(t)' = Op(t) /\ Out(t)' = Out(t)
    BY <2>2 DEF Op, Out
  <2>5. Valid(t)'
    BY <2>1, <2>2, <2>4 DEF Valid, Desired, LastLeft
  <2> QED
    BY <2>2, <2>3, <2>4, <2>5 DEF Types
<1> QED
    BY <1>2, <1>3 DEF Held

-----------------------------------------------------------------------------
\* Runs, and what happens outside them.

OperationsInv == Types /\ Stands /\ Owned /\ Barred /\ Held

\* A Run begins and ends with nothing claimed or held.
Bare ==
    /\ stage = [t \in Tasks |-> "waiting"] /\ at = [t \in Tasks |-> 1]
    /\ DOMAIN seen = Tasks /\ DOMAIN source = Tasks /\ DOMAIN pending = Tasks
    /\ DOMAIN skipped = Tasks /\ DOMAIN watching = Tasks /\ DOMAIN passed = Tasks
    /\ owner = [p \in Paths |-> Nil] /\ writer = [p \in Paths |-> Nil]
    /\ gate = [p \in Paths |-> "none"]

Between ==
    /\ Bare /\ program \in Programs /\ phase \in {"runs", "run"}
    /\ DOMAIN store = Tasks /\ DOMAIN saved = Tasks /\ DOMAIN disk = Paths

LEMMA BetweenInv == Between => OperationsInv
<1> SUFFICES ASSUME Between PROVE OperationsInv
    OBVIOUS
<1> USE DEF Between
<1>1. Types
    BY DEF Bare, Types, Stages, Perhaps
<1>2. \A t \in Tasks : stage[t] \notin Underway
    BY DEF Bare, Underway, Claimed
<1>3. Stands /\ Owned /\ Barred /\ Held
    BY <1>2 DEF Bare, Stands, Owned, Barred, Held, Underway, Claimed
<1> QED
    BY <1>1, <1>3 DEF OperationsInv

LEMMA InitIInv == OperationsInit => OperationsInv
<1> SUFFICES ASSUME OperationsInit PROVE OperationsInv
    OBVIOUS
<1>1. Between
    BY DEF OperationsInit, Between, Bare, EachTask, EachPath
<1> QED
    BY <1>1, BetweenInv

LEMMA FreshBare == FreshRun => Bare'
    BY DEF FreshRun, Bare, EachTask, EachPath

LEMMA EditKeeps ==
    ASSUME OperationsInv, Edit
    PROVE  OperationsInv'
<1>1. PICK p \in Paths :
        /\ phase = "run" => writer[p] = Nil
        /\ \E c : disk' = [disk EXCEPT ![p] = c]
    BY DEF Edit
<1>2. UNCHANGED <<program, phase, store, saved, stage, at, pending, watching, seen, passed,
                  source, owner, gate, writer, skipped>>
    BY DEF Edit, run
<1>3. \A t \in Tasks : Op(t)' = Op(t) /\ Outs(t)' = Outs(t) /\ Out(t)' = Out(t)
    BY <1>2 DEF Op, Outs, Out
<1>4. Types' /\ Stands' /\ Owned' /\ Barred'
    BY <1>1, <1>2, <1>3 DEF OperationsInv, Types, Stands, Owned, Barred
<1>5. ASSUME NEW t \in Tasks, stage[t] = "held"
      PROVE  writer[Out(t)] = t /\ Valid(t)'
  <2>1. writer[Out(t)] = t /\ Valid(t)
    BY <1>5 DEF OperationsInv, Held
  <2>2. phase = "run"
    BY <1>5 DEF OperationsInv, Stands, Types
  <2>3. Out(t) # p
    BY <1>1, <2>1, <2>2, OperationsAssumption
  <2>4. disk'[Out(t)] = disk[Out(t)]
    BY <1>1, <2>3 DEF OperationsInv, Types
  <2>5. Desired(t)' = Desired(t)
    BY <1>2, <1>3 DEF Desired, LastLeft
  <2>6. Valid(t)'
    BY <1>2, <1>3, <2>1, <2>4, <2>5 DEF Valid
  <2> QED
    BY <2>1, <2>6
<1> QED
    BY <1>2, <1>3, <1>4, <1>5 DEF OperationsInv, Held

LEMMA IInvStep == OperationsInv /\ [OperationsNext]_operations => OperationsInv'
<1> SUFFICES ASSUME OperationsInv, [OperationsNext]_operations PROVE OperationsInv'
    OBVIOUS
<1>1. ASSUME NEW t \in Tasks, TaskStep(t) PROVE OperationsInv'
    BY <1>1, TypesStep, StandsStep, OwnedStep, BarredStep, HeldStep DEF OperationsInv
<1>2. CASE Finish \/ ProcessEnds
  <2>1. Bare' /\ phase' = "runs" /\ UNCHANGED <<program, disk>>
    BY <1>2, FreshBare DEF Finish, ProcessEnds
  <2>2. DOMAIN store' = Tasks /\ DOMAIN saved' = Tasks
    BY <1>2 DEF Finish, ProcessEnds, OperationsInv, Types
  <2>3. Between'
    BY <2>1, <2>2 DEF Between, OperationsInv, Types
  <2> QED
    BY <2>3, BetweenInv, PTL
<1>3. CASE Edit
    BY <1>3, EditKeeps
<1>4. CASE Begin \/ Save \/ UNCHANGED operations
  <2>1. UNCHANGED <<program, store, disk, stage, at, pending, watching, seen, passed,
                    source, owner, gate, writer, skipped>>
    BY <1>4 DEF Begin, Save, operations, world, run
  <2>2. phase' = "runs" => phase = "runs"
    BY <1>4 DEF Begin, Save, operations, world
  <2>3. DOMAIN saved' = Tasks /\ phase' \in {"runs", "run"}
    BY <1>4 DEF Begin, Save, operations, world, OperationsInv, Types
  <2>4. \A t \in Tasks : /\ Op(t)' = Op(t) /\ Outs(t)' = Outs(t) /\ Out(t)' = Out(t)
                         /\ Desired(t)' = Desired(t)
    BY <2>1 DEF Op, Outs, Out, Desired, LastLeft
  <2>5. Types' /\ Stands'
    BY <2>1, <2>2, <2>3, <2>4 DEF OperationsInv, Types, Stands
  <2>6. Owned' /\ Barred' /\ Held'
    BY <2>1, <2>4 DEF OperationsInv, Owned, Barred, Held, Valid
  <2> QED
    BY <2>5, <2>6 DEF OperationsInv
<1> QED
    BY <1>1, <1>2, <1>3, <1>4 DEF OperationsNext

LEMMA IInvInvariant == OperationsSpec => []OperationsInv
<1> QED
    BY InitIInv, IInvStep, PTL DEF OperationsSpec

\* No barrier outlives the operation that opened it, however many outputs it
\* has and wherever it is refused.
THEOREM BarriersSettle == OperationsSpec => []NoDanglingBarrier
<1>1. OperationsInv => NoDanglingBarrier
    BY DEF OperationsInv, Barred, NoDanglingBarrier
<1> QED
    BY <1>1, IInvInvariant, PTL

\* Files writes over nothing but what Patch read.
THEOREM NothingOverwritten == OperationsSpec => NeverOverwritten
<1> DEFINE StillThere(t) == stage[t] = "held" /\ Op(t).kind = "patch" /\ disk'[Out(t)] # disk[Out(t)]
                        => disk[Out(t)] = source[t]
<1>1. ASSUME OperationsInv, [OperationsNext]_operations, NEW t \in Tasks
      PROVE  StillThere(t)
  <2> SUFFICES ASSUME stage[t] = "held", Op(t).kind = "patch",
                      disk'[Out(t)] # disk[Out(t)]
               PROVE  disk[Out(t)] = source[t]
    OBVIOUS
  <2>1. Out(t) \in Outs(t) /\ Out(t) \in Paths
    BY <1>1, OpTyped DEF OperationsInv, Stands, Underway, Claimed
  <2>2. disk[Out(t)] \in {source[t], Desired(t)} /\ writer[Out(t)] = t
    BY <1>1 DEF OperationsInv, Held, Valid
  <2>3. CASE TaskStep(t)
    <3>1. disk' \in {disk, [disk EXCEPT ![Out(t)] = Desired(t)]}
      BY <2>3 DEF TaskStep, Start, GivenUp, ObserveWatched, BasisVerdict, CallbackFails,
         SettleDone, Await, Observe, Derive, Issuing, ClaimOutputs, Hold, At, SkipCurrent,
         Plan, Establish, FileFails, ChildFails, Verify, Spawn, ChildEnds
    <3> QED
      BY <1>1, <2>1, <2>2, <3>1 DEF OperationsInv, Types
  <2>4. ASSUME NEW u \in Tasks \ {t}, TaskStep(u) PROVE FALSE
    BY <1>1, <2>1, <2>4, OthersAlone DEF OperationsInv, Claimed
  <2>5. CASE Edit
    BY <1>1, <2>1, <2>2, <2>5, OperationsAssumption DEF Edit, OperationsInv, Stands, Types
  <2>6. CASE Begin \/ Finish \/ Save \/ ProcessEnds \/ UNCHANGED operations
    BY <2>6 DEF Begin, Finish, Save, ProcessEnds, operations, world
  <2> QED
    BY <1>1, <2>3, <2>4, <2>5, <2>6 DEF OperationsNext
<1>2. OperationsInv /\ [OperationsNext]_operations => [\A t \in Tasks : StillThere(t)]_operations
    BY <1>1
<1> QED
    BY <1>2, IInvInvariant, PTL DEF OperationsSpec, NeverOverwritten

-----------------------------------------------------------------------------
\* What records say.

\* No content and no Basis is Nil; no other Output's File writes where an Exec
\* does.
NilIsNothing ==
    /\ \A c : Patched(c) # Nil
    /\ \A f : DOMAIN f \in SUBSET Paths /\ DOMAIN f # {} => f # Nil
OutputsOwn ==
    \A s \in Programs : \A t \in Tasks : \A k \in DOMAIN s.ops[t] :
        s.ops[t][k].kind = "exec" => Range(s.ops[t][k].outs) \cap s.rivals = {}

\* Nobody rewrites what an Exec observed while its child runs.
InputsHold ==
    \A t \in Tasks : stage[t] = "child" => \A q \in Op(t).basis : disk[q] = seen[t][q]

\* What operation k leaves at an output, run on a Basis.
Leaving(t, k, c, basis) ==
    LET op == program.ops[t][k] IN
    /\ op.kind = "file" => c = FileLeaves(t, k)
    /\ op.kind = "patch" => Applied(c)
    /\ op.kind = "exec" => c = ExecLeaves(t, k, [q \in op.basis |-> basis[q]])

\* A record is of one of its Task's operations, and holds what that operation
\* leaves when it runs on the Basis recorded.
Sound(t, r) ==
    LET k == r.definition.op IN
    /\ k \in DOMAIN program.ops[t] /\ r.paths = program.ops[t][k].outs
    /\ \A i \in DOMAIN r.paths : Leaving(t, k, r.outs[i], r.basis)
AllSound(t, rs) == rs \in Seq(Range(rs)) /\ \A r \in Range(rs) : Sound(t, r)

RecordsSound ==
    \A t \in Tasks : /\ AllSound(t, pending[t]) /\ AllSound(t, store[t].ops)
                     /\ AllSound(t, saved[t].ops)

\* Until it is recorded, what a child left is what it leaves on what was observed.
Verifying ==
    \A t \in Tasks : stage[t] = "verifying" => \A p \in Outs(t) :
        disk[p] # Nil => Leaving(t, at[t], disk[p], seen[t])

LEMMA AppendRange ==
    ASSUME NEW rs, rs \in Seq(Range(rs)), NEW r
    PROVE  /\ Append(rs, r) \in Seq(Range(rs) \cup {r})
           /\ Range(Append(rs, r)) = Range(rs) \cup {r}
<1> DEFINE S == Range(rs) \cup {r}
<1>1. rs \in Seq(S)
    OBVIOUS
<1>2. Append(rs, r) \in Seq(S)
    BY <1>1
<1>3. Range(Append(rs, r)) = S
  <2>1. DOMAIN Append(rs, r) = 1 .. (Len(rs) + 1) /\ DOMAIN rs = 1 .. Len(rs)
    BY <1>1
  <2>2. \A i \in 1 .. Len(rs) : Append(rs, r)[i] = rs[i]
    BY <1>1
  <2>3. Append(rs, r)[Len(rs) + 1] = r /\ Len(rs) \in Nat
    BY <1>1
  <2> QED
    BY <2>1, <2>2, <2>3 DEF Range
<1> QED
    BY <1>2, <1>3

LEMMA AppendSound ==
    ASSUME NEW t, NEW rs, NEW r, AllSound(t, rs), Sound(t, r)
    PROVE  AllSound(t, Append(rs, r))
<1>1. rs \in Seq(Range(rs)) /\ \A x \in Range(rs) : Sound(t, x)
    BY DEF AllSound
<1>2. /\ Append(rs, r) \in Seq(Range(rs) \cup {r})
      /\ Range(Append(rs, r)) = Range(rs) \cup {r}
    BY <1>1, AppendRange
<1>3. Append(rs, r) \in Seq(Range(Append(rs, r)))
    BY <1>2
<1>4. \A x \in Range(Append(rs, r)) : Sound(t, x)
    BY <1>1, <1>2
<1> QED
    BY <1>3, <1>4 DEF AllSound

\* The record an operation would be skipped by is one of its Task's.
LEMMA PriorSound ==
    ASSUME NEW t \in Tasks, RecordsSound, HasPrior(t)
    PROVE  Prior(t) \in Range(store[t].ops) /\ Sound(t, Prior(t))
<1>1. pending[t] \in Seq(Range(pending[t])) /\ store[t].ops \in Seq(Range(store[t].ops))
    BY DEF RecordsSound, AllSound
<1>2. Len(pending[t]) + 1 \in DOMAIN store[t].ops
    BY <1>1 DEF HasPrior
<1> QED
    BY <1>2 DEF Prior, Range, RecordsSound, AllSound

\* What desiredContents gives is what the operation leaves.
LEMMA DesiredLeft ==
    ASSUME NilIsNothing, NEW t \in Tasks, Op(t).kind \in {"file", "patch"}, NEW basis
    PROVE  Leaving(t, at[t], Desired(t), basis)
<1>1. CASE Op(t).kind = "file"
    BY <1>1 DEF Leaving, Desired, Op
<1>2. CASE Op(t).kind = "patch"
  <2>1. Applied(Patched(source[t]))
    <3>1. Patched(source[t])[1] = "patched"
      BY DEF Patched
    <3> QED
      BY <3>1 DEF Applied, NilIsNothing
  <2> QED
    BY <1>2, <2>1 DEF Leaving, Desired, Op
<1> QED
    BY <1>1, <1>2

\* What Verify and Establish record is sound.
LEMMA RecordSound ==
    ASSUME Types, Stands, NilIsNothing, Verifying, NEW t \in Tasks
    PROVE  /\ stage[t] = "verifying" /\ (\A p \in Outs(t) : disk[p] # Nil)
                => Sound(t, Record(t))
           /\ stage[t] = "held"
                => Sound(t, [Record(t) EXCEPT !.outs = <<Desired(t)>>])
<1>1. ASSUME stage[t] \in Claimed
      PROVE  /\ at[t] \in DOMAIN program.ops[t] /\ Op(t).outs \in Seq(Paths)
             /\ Op(t).kind # "exec" => Len(Op(t).outs) = 1
  <2>1. at[t] \in DOMAIN program.ops[t]
    BY <1>1 DEF Stands, Underway
  <2> QED
    BY <2>1, OpTyped, OperationsAssumption DEF Operation, Types, Op
<1>2. /\ Record(t).definition.op = at[t] /\ Record(t).paths = Op(t).outs
      /\ Record(t).basis = seen[t]
      /\ Record(t).outs = [i \in DOMAIN Op(t).outs |-> disk[Op(t).outs[i]]]
    BY DEF Record, RecordOver, Definition
<1>3. ASSUME stage[t] = "verifying", \A p \in Outs(t) : disk[p] # Nil
      PROVE  Sound(t, Record(t))
  <2>1. at[t] \in DOMAIN program.ops[t]
    BY <1>1, <1>3 DEF Claimed
  <2>2. ASSUME NEW i \in DOMAIN Op(t).outs
        PROVE  Leaving(t, at[t], Record(t).outs[i], Record(t).basis)
    <3>1. Op(t).outs[i] \in Outs(t)
      BY DEF Outs, Range
    <3> QED
      BY <1>2, <1>3, <3>1 DEF Verifying
  <2> QED
    BY <1>2, <2>1, <2>2 DEF Sound, Op
<1>4. ASSUME stage[t] = "held"
      PROVE  Sound(t, [Record(t) EXCEPT !.outs = <<Desired(t)>>])
  <2> DEFINE rec == [Record(t) EXCEPT !.outs = <<Desired(t)>>]
  <2>1. /\ rec.definition.op = at[t] /\ rec.paths = Op(t).outs
        /\ rec.outs = <<Desired(t)>>
    BY DEF Record, RecordOver, Definition
  <2>2. Op(t).kind \in {"file", "patch"}
    BY <1>4 DEF Stands, Underway, Claimed, Reaches
  <2>3. at[t] \in DOMAIN program.ops[t] /\ DOMAIN Op(t).outs = {1}
    BY <1>1, <1>4, <2>2 DEF Claimed
  <2>4. Leaving(t, at[t], Desired(t), rec.basis)
    BY <2>2, DesiredLeft
  <2> HIDE DEF rec
  <2>5. Sound(t, rec)
    BY <2>1, <2>3, <2>4 DEF Sound, Op
  <2> QED
    BY <2>5 DEF rec
<1> QED
    BY <1>3, <1>4

\* What a step of t does to its records: nothing, one record more, or the records
\* of the Run before once its Basis proved current; and to those of its Task.
LEMMA RecordsOneOf ==
    ASSUME Types, NEW t \in Tasks, TaskStep(t)
    PROVE  /\ \/ pending'[t] = pending[t]
              \/ SkipCurrent(t) /\ pending'[t] = Append(pending[t], Prior(t))
              \/ /\ Establish(t)
                 /\ pending'[t] = Append(pending[t], [Record(t) EXCEPT !.outs = <<Desired(t)>>])
              \/ /\ Verify(t) /\ \A p \in Outs(t) : disk[p] # Nil
                 /\ pending'[t] = Append(pending[t], Record(t))
              \/ BasisVerdict(t) /\ pending'[t] = store[t].ops
           /\ \/ store'[t] = store[t]
              \/ SettleDone(t) /\ store'[t] = [ops |-> pending[t], basis |-> watching[t]]
           /\ saved' = saved
<1>1. \A r : Records(t, r) => pending'[t] = Append(pending[t], r)
    BY DEF Records, Types
<1>2. CASE \/ Start(t) \/ GivenUp(t) \/ ObserveWatched(t) \/ BasisVerdict(t)
           \/ CallbackFails(t) \/ Await(t) \/ Observe(t)
    BY <1>2 DEF Start, GivenUp, ObserveWatched, BasisVerdict, CallbackFails, Await,
       Observe, world, Types
<1>3. CASE SettleDone(t)
    BY <1>3 DEF SettleDone, Committed, Types
<1>4. CASE \/ ClaimOutputs(t) \/ Derive(t) \/ Hold(t) \/ Plan(t) \/ FileFails(t)
           \/ ChildFails(t) \/ Spawn(t) \/ ChildEnds(t)
    BY <1>4 DEF ClaimOutputs, Derive, Hold, Plan, FileFails, ChildFails, Spawn, ChildEnds,
       Errs, Still
<1>5. CASE SkipCurrent(t)
  <2>1. UNCHANGED pending \/ Records(t, Prior(t))
    BY <1>5 DEF SkipCurrent, CarryForward
  <2> QED
    BY <1>1, <1>5, <2>1 DEF SkipCurrent, Still
<1>6. CASE Establish(t)
    BY <1>1, <1>6 DEF Establish, Still
<1>7. CASE Verify(t)
  <2>1. CASE Errs(t)
    BY <1>7, <2>1 DEF Errs, Verify, Still
  <2>2. CASE Records(t, Record(t)) /\ \A p \in Outs(t) : disk[p] # Nil
    BY <1>1, <1>7, <2>2 DEF Verify, Still
  <2> QED
    BY <1>7, <2>1, <2>2 DEF Verify
<1> QED
    BY <1>2, <1>3, <1>4, <1>5, <1>6, <1>7 DEF TaskStep

LEMMA RecordMoves ==
    ASSUME Types, Stands, RecordsSound, Verifying, NilIsNothing,
           NEW t \in Tasks, TaskStep(t)
    PROVE  /\ \/ pending'[t] = pending[t]
              \/ \E r : Sound(t, r) /\ pending'[t] = Append(pending[t], r)
              \/ pending'[t] = store[t].ops
           /\ store'[t] = store[t] \/ store'[t].ops = pending[t]
           /\ saved' = saved
<1>1. SkipCurrent(t) => Sound(t, Prior(t))
    BY PriorSound DEF SkipCurrent, IsCurrent
<1>2. Establish(t) => Sound(t, [Record(t) EXCEPT !.outs = <<Desired(t)>>])
    BY RecordSound DEF Establish
<1>3. Verify(t) /\ (\A p \in Outs(t) : disk[p] # Nil) => Sound(t, Record(t))
    BY RecordSound DEF Verify
<1>4. \A m : m = [ops |-> pending[t], basis |-> watching[t]] => m.ops = pending[t]
    OBVIOUS
<1> QED
    BY <1>1, <1>2, <1>3, <1>4, RecordsOneOf

LEMMA RecordsStep ==
    ASSUME Types, Stands, RecordsSound, Verifying, NilIsNothing,
           NEW t \in Tasks, TaskStep(t)
    PROVE  RecordsSound'
<1>1. OthersStay(t)
    BY FrameStep
<1>2. \A u, rs : AllSound(u, rs)' <=> AllSound(u, rs)
    BY <1>1 DEF AllSound, Sound, Leaving, OthersStay
<1>3. saved' = saved /\ AllSound(t, saved[t].ops)
    BY RecordMoves DEF RecordsSound
<1>4. AllSound(t, pending'[t])
  <2>1. AllSound(t, pending[t]) /\ AllSound(t, store[t].ops)
    BY DEF RecordsSound
  <2>2. ASSUME NEW r, Sound(t, r), pending'[t] = Append(pending[t], r)
        PROVE  AllSound(t, pending'[t])
    BY <2>1, <2>2, AppendSound
  <2> QED
    BY <2>1, <2>2, RecordMoves
<1>5. AllSound(t, store'[t].ops)
    BY RecordMoves DEF RecordsSound
<1>6. \A u \in Tasks : AllSound(u, pending'[u]) /\ AllSound(u, store'[u].ops)
                        /\ AllSound(u, saved'[u].ops)
    BY <1>1, <1>3, <1>4, <1>5 DEF OthersStay, RecordsSound
<1> QED
    BY <1>2, <1>6 DEF RecordsSound

\* The child runs on what was observed, and what it left stays until it is
\* recorded.
LEMMA VerifyingStep ==
    ASSUME Types, Stands, Owned, Verifying, InputsHold, NEW t \in Tasks, TaskStep(t)
    PROVE  Verifying'
<1>1. OthersStay(t)
    BY FrameStep
<1>2. ASSUME NEW u \in Tasks \ {t}, stage'[u] = "verifying", NEW p \in Outs(u)',
             disk'[p] # Nil
      PROVE  Leaving(u, at[u], disk[p], seen[u])'
  <2>1. stage[u] = "verifying" /\ p \in Outs(u) /\ at'[u] = at[u] /\ seen'[u] = seen[u]
    BY <1>1, <1>2 DEF OthersStay, Outs, Underway, Claimed
  <2>2. disk'[p] = disk[p]
    BY <2>1, OthersAlone DEF Claimed
  <2>3. Leaving(u, at[u], disk[p], seen[u])
    BY <1>2, <2>1, <2>2 DEF Verifying
  <2> QED
    BY <1>1, <2>1, <2>2, <2>3 DEF Leaving, OthersStay
<1>3. ASSUME stage'[t] = "verifying", NEW p \in Outs(t)', disk'[p] # Nil
      PROVE  Leaving(t, at[t], disk[p], seen[t])'
  <2>1. ChildEnds(t)
    <3>1. ~(GoesOn(t) \/ Errs(t))
      BY <1>3, Leaves
    <3> QED
      BY <1>3, <3>1 DEF TaskStep, Start, GivenUp, ObserveWatched, BasisVerdict,
         CallbackFails, SettleDone, Await, Observe, Derive, ClaimOutputs, Hold, SkipCurrent,
         Plan, Establish, FileFails, ChildFails, Verify, Spawn, ChildEnds, Types, At
  <2> DEFINE left == ExecLeaves(t, at[t], [q \in Op(t).basis |-> disk[q]])
  <2>2. stage[t] = "child" /\ UNCHANGED <<at, seen, program>>
    BY <2>1 DEF ChildEnds, Still
  <2>3. p \in Outs(t) /\ p \in Paths
    BY <1>3, <2>2, OpTyped DEF Outs, Op, Stands, Underway, Claimed
  <2>4. disk'[p] = left
    BY <1>3, <2>1, <2>3 DEF ChildEnds
  <2>5. [q \in Op(t).basis |-> disk[q]] = [q \in Op(t).basis |-> seen[t][q]]
    BY <2>2 DEF InputsHold
  <2>6. Op(t).kind = "exec"
    BY <2>2 DEF Stands, Underway, Claimed, Reaches
  <2>7. Leaving(t, at[t], disk'[p], seen[t])
    BY <2>4, <2>5, <2>6 DEF Leaving, Op
  <2> QED
    BY <2>2, <2>7 DEF Leaving
<1> QED
    BY <1>2, <1>3 DEF Verifying

RInv == RecordsSound /\ Verifying

LEMMA InitRInv == OperationsInit => RInv
<1> SUFFICES ASSUME OperationsInit PROVE RInv
    OBVIOUS
<1>1. \A t : AllSound(t, <<>>)
    BY DEF AllSound, Range
<1>2. RecordsSound
    BY <1>1 DEF OperationsInit, EachTask, NoRecord, RecordsSound
<1>3. Verifying
    BY DEF OperationsInit, EachTask, Verifying
<1> QED
    BY <1>2, <1>3 DEF RInv

LEMMA RInvStep ==
    ASSUME NilIsNothing, OutputsOwn, OperationsInv, RInv, InputsHold, [OperationsNext]_operations
    PROVE  RInv'
<1>1. ASSUME NEW t \in Tasks, TaskStep(t) PROVE RInv'
    BY <1>1, RecordsStep, VerifyingStep DEF OperationsInv, RInv
<1>2. ASSUME program' = program
      PROVE  \A u, rs : AllSound(u, rs)' <=> AllSound(u, rs)
    BY <1>2 DEF AllSound, Sound, Leaving
<1>3. CASE Finish \/ ProcessEnds
  <2>1. program' = program /\ FreshRun /\ store' \in {store, saved} /\ saved' \in {store, saved}
    BY <1>3 DEF Finish, ProcessEnds
  <2>2. \A t : AllSound(t, <<>>)
    BY DEF AllSound, Range
  <2>3. \A t \in Tasks : AllSound(t, pending'[t]) /\ AllSound(t, store'[t].ops)
                          /\ AllSound(t, saved'[t].ops)
    BY <2>1, <2>2 DEF FreshRun, EachTask, RInv, RecordsSound
  <2>4. Verifying'
    BY <2>1 DEF FreshRun, EachTask, Verifying
  <2> QED
    BY <1>2, <2>1, <2>3, <2>4 DEF RInv, RecordsSound
<1>4. CASE Begin \/ Save \/ Edit \/ UNCHANGED operations
  <2>1. /\ UNCHANGED <<program, store, pending, stage, at, seen>>
        /\ saved' \in {store, saved}
    BY <1>4 DEF Begin, Save, Edit, operations, world, run
  <2>2. RecordsSound'
    BY <1>2, <2>1 DEF RInv, RecordsSound
  <2>3. ASSUME NEW t \in Tasks, stage[t] = "verifying", NEW p \in Outs(t)
        PROVE  disk'[p] = disk[p]
    <3>1. CASE Edit
      <4>1. PICK q \in Paths : /\ phase = "run" => q \in program.rivals
                               /\ \E c : disk' = [disk EXCEPT ![q] = c]
        BY <3>1 DEF Edit
      <4>2. phase = "run"
        BY <2>3 DEF OperationsInv, Stands, Types
      <4>3. Op(t).kind = "exec" /\ at[t] \in DOMAIN program.ops[t]
        BY <2>3 DEF OperationsInv, Stands, Underway, Claimed, Reaches
      <4>4. p \notin program.rivals
        BY <4>3 DEF OutputsOwn, OperationsInv, Types, Outs, Op
      <4> QED
        BY <4>1, <4>2, <4>4 DEF OperationsInv, Types
    <3>2. CASE Begin \/ Save \/ UNCHANGED operations
      BY <3>2 DEF Begin, Save, operations, world
    <3> QED
      BY <1>4, <3>1, <3>2
  <2>4. \A t \in Tasks : Outs(t)' = Outs(t)
    BY <2>1 DEF Outs, Op
  <2>5. Verifying'
    BY <2>1, <2>3, <2>4 DEF RInv, Verifying, Leaving
  <2> QED
    BY <2>2, <2>5 DEF RInv
<1> QED
    BY <1>1, <1>3, <1>4 DEF OperationsNext

LEMMA RInvInvariant ==
    ASSUME NilIsNothing, OutputsOwn
    PROVE  OperationsSpec /\ []InputsHold => []RInv
<1>1. OperationsInv /\ RInv /\ InputsHold /\ [OperationsNext]_operations => RInv'
    BY RInvStep
<1> QED
    BY <1>1, InitRInv, IInvInvariant, PTL DEF OperationsSpec

\* An operation whose record is current has at each output what it leaves.
LEMMA CurrentIsDone ==
    ASSUME OperationsInv, RInv, NEW t \in Tasks, stage[t] \in Claimed, IsCurrent(t), NEW p \in Outs(t)
    PROVE  Done(t, at[t], p, seen[t])
<1> DEFINE r == Prior(t)
<1>1. Sound(t, r)
    BY PriorSound DEF IsCurrent, RInv
<1>2. r.definition.op = at[t]
    BY DEF IsCurrent, Definition
<1>3. PICK i \in DOMAIN Op(t).outs : p = Op(t).outs[i]
    BY DEF Outs, Range
<1>4. Leaving(t, at[t], r.outs[i], seen[t])
    BY <1>1, <1>2 DEF IsCurrent, Sound
<1>5. disk[p] = r.outs[i]
    BY <1>3 DEF IsCurrent, OutputsHold
<1>6. Op(t).kind \in {"file", "exec", "patch"}
    BY OpTyped DEF OperationsInv, Stands, Underway, Operation
<1> QED
    BY <1>4, <1>5, <1>6 DEF Leaving, Done, Op

\* Of the operations of a Task that runs, none is skipped by its own record
\* that is not done: each output holds what the operation leaves when run on
\* the Basis just observed, provided nobody rewrote what an Exec observed while
\* its child ran.
OperationSkipsDone ==
    [][\A t \in Tasks : stage[t] # "basis" /\ phase' = "run" =>
          \A k \in skipped'[t] \ skipped[t] :
            \A p \in Range(program.ops[t][k].outs) : Done(t, k, p, seen[t])]_operations

\* What a step adds to the operations found current.
LEMMA SkipMoves ==
    ASSUME Types, Stands, NEW t \in Tasks, [OperationsNext]_operations, phase' = "run",
           NEW k \in skipped'[t] \ skipped[t]
    PROVE  \/ SkipCurrent(t) /\ k = at[t]
           \/ /\ BasisVerdict(t) /\ k \in DOMAIN program.ops[t]
              /\ store[t].basis = seen[t] /\ RecordedOutputsHold(t)
<1>1. CASE TaskStep(t)
  <2>1. skipped' # skipped
    OBVIOUS
  <2>2. SkipCurrent(t) \/ BasisVerdict(t)
    BY <1>1, <2>1 DEF TaskStep, Start, GivenUp, ObserveWatched, CallbackFails, SettleDone,
       Await, Observe, Derive, ClaimOutputs, Hold, Plan, Establish, FileFails, ChildFails,
       Verify, Spawn, ChildEnds, Errs
  <2>3. CASE SkipCurrent(t)
    BY <2>3 DEF SkipCurrent, Types
  <2>4. CASE BasisVerdict(t)
    BY <2>4 DEF BasisVerdict, Types
  <2> QED
    BY <2>2, <2>3, <2>4
<1>2. ASSUME NEW u \in Tasks \ {t}, TaskStep(u) PROVE FALSE
    BY <1>2, FrameStep DEF OthersStay
<1>3. CASE Begin \/ Finish \/ Save \/ ProcessEnds \/ Edit \/ UNCHANGED operations
    BY <1>3 DEF Begin, Finish, Save, ProcessEnds, Edit, operations, run
<1> QED
    BY <1>1, <1>2, <1>3 DEF OperationsNext

THEOREM SkippedOperationsDone ==
    ASSUME NilIsNothing, OutputsOwn
    PROVE  OperationsSpec /\ []InputsHold => OperationSkipsDone
<1> DEFINE Skips(t) == stage[t] # "basis" /\ phase' = "run" =>
          \A k \in skipped'[t] \ skipped[t] :
            \A p \in Range(program.ops[t][k].outs) : Done(t, k, p, seen[t])
<1>1. ASSUME OperationsInv, RInv, [OperationsNext]_operations, NEW t \in Tasks
      PROVE  Skips(t)
  <2> SUFFICES ASSUME stage[t] # "basis", phase' = "run", NEW k \in skipped'[t] \ skipped[t],
                      NEW p \in Range(program.ops[t][k].outs)
               PROVE  Done(t, k, p, seen[t])
    OBVIOUS
  <2>1. SkipCurrent(t) /\ k = at[t]
    BY <1>1, SkipMoves DEF OperationsInv, BasisVerdict
  <2>2. stage[t] \in Claimed /\ IsCurrent(t) /\ p \in Outs(t)
    BY <2>1 DEF SkipCurrent, Consulting, At, Claimed, Outs, Op
  <2> QED
    BY <1>1, <2>1, <2>2, CurrentIsDone
<1>2. OperationsInv /\ RInv /\ [OperationsNext]_operations => [\A t \in Tasks : Skips(t)]_operations
    BY <1>1
<1> QED
    BY <1>2, IInvInvariant, RInvInvariant, PTL DEF OperationsSpec, OperationSkipsDone

-----------------------------------------------------------------------------
\* Whole Tasks.

\* Where a Task watches its Basis, Runs are real, and a callback returns the
\* error of an operation.
RealAndStrict ==
    \A s \in Programs : (\E t \in Tasks : s.watched[t] # {}) => s.dry = {FALSE} /\ ~s.swallows
Strict == program.dry = {FALSE} /\ ~program.swallows

\* While its callback runs, nobody rewrites what a Task watches, the Task itself
\* included.
Working == {"callback"} \cup Underway
Watches(t) == program.watched[t] # {}
WatchedHold ==
    \A t \in Tasks : Watches(t) /\ stage[t] \in Working =>
        \A q \in program.watched[t] : disk[q] = watching[t][q]

\* Records of the first n operations of t, which agree with a Basis.
Full(t, rs, n, basis) ==
    /\ \A k \in 1 .. n : \E r \in Range(rs) : r.definition.op = k
    /\ \A r \in Range(rs) : \A q \in program.ops[t][r.definition.op].basis :
          r.basis[q] = basis[q]
Opaque(t, m) == m.basis = Nil \/ Full(t, m.ops, Len(program.ops[t]), m.basis)

Unstarted ==
    \A t \in Tasks : /\ stage[t] = "basis" => Watches(t)
                     /\ stage[t] \in {"waiting", "basis"} => pending[t] = <<>> /\ at[t] = 1
ObservedAll ==
    \A t \in Tasks : stage[t] \in {"held", "child", "verifying"} =>
        DOMAIN seen[t] = Op(t).basis
Agreeing ==
    \A t \in Tasks : Watches(t) /\ stage[t] \in Working =>
        /\ \A q \in DOMAIN seen[t] : seen[t][q] = watching[t][q]
        /\ Full(t, pending[t], at[t] - 1, watching[t])
Filed ==
    \A t \in Tasks : Watches(t) => Opaque(t, store[t]) /\ Opaque(t, saved[t])

FInv == dry = FALSE /\ Unstarted /\ ObservedAll /\ Agreeing /\ Filed
WInv == Unstarted /\ ((\E t \in Tasks : Watches(t)) => FInv)

\* How a step of t leaves it at work: it proved not to be current; it recorded
\* the operation under the Basis observed and goes on with the next; or it is
\* at work on the same one, with at most one path more observed.
LEMMA WorkMoves ==
    ASSUME Types, Stands, Strict, FInv, NEW t \in Tasks, TaskStep(t),
           stage'[t] \in Working
    PROVE  \/ /\ stage[t] = "basis" /\ watching'[t] = seen[t] /\ seen'[t] = Nothing
              /\ stage'[t] = "callback" /\ at'[t] = 1 /\ pending'[t] = <<>>
           \/ /\ stage[t] = "waiting" /\ stage'[t] = "callback" /\ ~Watches(t)
           \/ /\ stage[t] \in Claimed /\ stage'[t] = "callback"
              /\ at'[t] = at[t] + 1 /\ seen'[t] = Nothing /\ watching'[t] = watching[t]
              /\ DOMAIN seen[t] = Op(t).basis
              /\ \E r : /\ pending'[t] = Append(pending[t], r)
                        /\ r.definition.op = at[t] /\ r.basis = seen[t]
           \/ /\ stage[t] \in Working /\ at'[t] = at[t] /\ pending'[t] = pending[t]
              /\ watching'[t] = watching[t] /\ Op(t)' = Op(t)
              /\ \/ seen'[t] = seen[t]
                 \/ stage'[t] = "observing" /\ \E p \in Op(t).basis :
                      seen'[t] = [q \in DOMAIN seen[t] \cup {p} |->
                                     IF q = p THEN disk[p] ELSE seen[t][q]]
              /\ stage'[t] \in {"held", "child", "verifying"} => DOMAIN seen[t] = Op(t).basis
<1>1. program' = program
    BY FrameStep DEF OthersStay
<1>2. ~Errs(t)
  <2>1. ~program.swallows
    BY DEF Strict
  <2>2. ASSUME Errs(t) PROVE stage'[t] = "failed"
    BY <2>1, <2>2 DEF Errs, Types
  <2> QED
    BY <2>2 DEF Working, Underway, Claimed
<1>3. GoesOn(t) => /\ stage'[t] = "callback" /\ at'[t] = at[t] + 1 /\ seen'[t] = Nothing
    BY DEF GoesOn, Forget, Types
<1>4. \A r : Records(t, r) => pending'[t] = Append(pending[t], r)
    BY DEF Records, Types
<1>5. CASE Start(t)
    BY <1>5 DEF Start, Types, Working, Underway, Claimed, Watches
<1>6. CASE GivenUp(t) \/ CallbackFails(t) \/ SettleDone(t) \/ ObserveWatched(t)
    BY <1>6 DEF GivenUp, CallbackFails, SettleDone, ObserveWatched, Types, Working,
       Underway, Claimed
<1>7. CASE BasisVerdict(t)
    BY <1>7 DEF BasisVerdict, Types, Working, Underway, Claimed, FInv, Unstarted
<1>8. CASE ClaimOutputs(t)
  <2>1. stage[t] \in Working
    BY <1>8 DEF ClaimOutputs, Issuing, Working, Underway
  <2>2. UNCHANGED <<pending, at, seen, watching>>
    BY <1>2, <1>8 DEF ClaimOutputs
  <2>3. stage'[t] \in {"awaiting", "observing"}
    BY <1>2, <1>8 DEF ClaimOutputs, Types
  <2> QED
    BY <1>1, <2>1, <2>2, <2>3 DEF Op
<1>9. CASE Await(t)
    BY <1>1, <1>9 DEF Await, Working, Underway, Claimed, Op, Types
<1>10. CASE Observe(t)
    BY <1>1, <1>10 DEF Observe, Working, Underway, Claimed, Op, Types
<1>11. CASE Derive(t)
  <2>1. UNCHANGED <<pending, at, seen, watching>> /\ stage'[t] = "derived"
    BY <1>2, <1>11 DEF Derive, Types
  <2> QED
    BY <1>1, <1>11, <2>1 DEF Derive, Issuing, Op, Working
<1>12. CASE Hold(t)
  <2>1. UNCHANGED <<pending, at, seen, watching>> /\ stage'[t] = "held"
    BY <1>2, <1>12 DEF Hold, Types
  <2> QED
    BY <1>1, <1>12, <2>1 DEF Hold, At, Observed, Op, Working, Underway, Claimed
<1>13. CASE Spawn(t) \/ ChildEnds(t)
    BY <1>1, <1>13 DEF Spawn, ChildEnds, At, Observed, Op, Working, Underway, Claimed,
       Types, FInv, ObservedAll
<1>14. CASE SkipCurrent(t)
  <2>1. Records(t, Prior(t))
    BY <1>14 DEF SkipCurrent, CarryForward, FInv
  <2>2. Prior(t).definition.op = at[t] /\ Prior(t).basis = seen[t]
    BY <1>14 DEF SkipCurrent, IsCurrent, Definition
  <2>3. stage[t] \in Claimed /\ DOMAIN seen[t] = Op(t).basis
    BY <1>14 DEF SkipCurrent, Consulting, At, Observed, Claimed, FInv, ObservedAll
  <2> QED
    BY <1>3, <1>4, <1>14, <2>1, <2>2, <2>3 DEF SkipCurrent
<1>15. CASE Plan(t)
    BY <1>15 DEF Plan, FInv
<1>16. CASE Establish(t)
  <2> DEFINE rec == [Record(t) EXCEPT !.outs = <<Desired(t)>>]
  <2>1. stage[t] = "held" /\ Records(t, rec) /\ GoesOn(t) /\ UNCHANGED watching
    BY <1>16 DEF Establish
  <2>2. rec.definition.op = at[t] /\ rec.basis = seen[t]
    BY DEF Record, RecordOver, Definition
  <2>3. DOMAIN seen[t] = Op(t).basis
    BY <2>1 DEF FInv, ObservedAll
  <2> HIDE DEF rec
  <2> QED
    BY <1>3, <1>4, <2>1, <2>2, <2>3 DEF Claimed
<1>17. CASE FileFails(t) \/ ChildFails(t)
    BY <1>2, <1>17 DEF FileFails, ChildFails
<1>18. CASE Verify(t)
  <2>1. stage[t] = "verifying" /\ Records(t, Record(t)) /\ GoesOn(t) /\ UNCHANGED watching
    BY <1>2, <1>18 DEF Verify
  <2>2. Record(t).definition.op = at[t] /\ Record(t).basis = seen[t]
    BY DEF Record, RecordOver, Definition
  <2>3. DOMAIN seen[t] = Op(t).basis
    BY <2>1 DEF FInv, ObservedAll
  <2> QED
    BY <1>3, <1>4, <2>1, <2>2, <2>3 DEF Claimed
<1> QED
    BY <1>5, <1>6, <1>7, <1>8, <1>9, <1>10, <1>11, <1>12, <1>13, <1>14, <1>15, <1>16,
       <1>17, <1>18 DEF TaskStep

LEMMA AgreeingStep ==
    ASSUME Types, Stands, RecordsSound, Strict, WatchedHold, FInv,
           NEW t \in Tasks, TaskStep(t)
    PROVE  Agreeing'
<1>1. OthersStay(t)
    BY FrameStep
<1>2. program' = program
    BY <1>1 DEF OthersStay
<1>3. ASSUME NEW u \in Tasks \ {t}, Watches(u)', stage'[u] \in Working
      PROVE  /\ \A q \in DOMAIN seen'[u] : seen'[u][q] = watching'[u][q]
             /\ Full(u, pending[u], at[u] - 1, watching[u])'
  <2>1. /\ stage'[u] = stage[u] /\ at'[u] = at[u] /\ seen'[u] = seen[u]
        /\ pending'[u] = pending[u] /\ watching'[u] = watching[u] /\ Watches(u)
    BY <1>1, <1>2, <1>3 DEF OthersStay, Watches
  <2>2. /\ \A q \in DOMAIN seen[u] : seen[u][q] = watching[u][q]
        /\ Full(u, pending[u], at[u] - 1, watching[u])
    BY <1>3, <2>1 DEF FInv, Agreeing
  <2> QED
    BY <1>2, <2>1, <2>2 DEF Full
<1>4. ASSUME Watches(t)', stage'[t] \in Working
      PROVE  /\ \A q \in DOMAIN seen'[t] : seen'[t][q] = watching'[t][q]
             /\ Full(t, pending[t], at[t] - 1, watching[t])'
  <2>1. Watches(t) /\ at[t] \in Nat \ {0}
    BY <1>2, <1>4 DEF Watches, Types
  <2>2. CASE seen'[t] = Nothing /\ at'[t] = 1 /\ pending'[t] = <<>>
    <3>1. DOMAIN seen'[t] = {} /\ Range(pending'[t]) = {} /\ at'[t] - 1 = 0
      BY <2>2 DEF Nothing, Range
    <3> QED
      BY <3>1 DEF Full
  <2>3. ASSUME stage[t] \in Claimed, at'[t] = at[t] + 1, seen'[t] = Nothing,
               watching'[t] = watching[t], DOMAIN seen[t] = Op(t).basis, NEW r,
               pending'[t] = Append(pending[t], r), r.definition.op = at[t],
               r.basis = seen[t]
        PROVE  /\ \A q \in DOMAIN seen'[t] : seen'[t][q] = watching'[t][q]
               /\ Full(t, pending[t], at[t] - 1, watching[t])'
    <3>1. DOMAIN seen'[t] = {}
      BY <2>3 DEF Nothing
    <3>2. /\ \A q \in DOMAIN seen[t] : seen[t][q] = watching[t][q]
          /\ Full(t, pending[t], at[t] - 1, watching[t])
      BY <2>1, <2>3 DEF FInv, Agreeing, Working, Underway
    <3>3. Range(pending'[t]) = Range(pending[t]) \cup {r}
      BY <2>3, AppendRange DEF RecordsSound, AllSound
    <3>4. \A q \in program.ops[t][r.definition.op].basis : r.basis[q] = watching[t][q]
      BY <2>3, <3>2 DEF Op
    <3>5. \A k \in 1 .. at[t] : k = at[t] \/ k \in 1 .. (at[t] - 1)
      BY <2>1
    <3>6. at'[t] - 1 = at[t]
      BY <2>1, <2>3
    <3>7. Full(t, pending'[t], at[t], watching[t])
      BY <2>3, <3>2, <3>3, <3>4, <3>5 DEF Full
    <3> QED
      BY <1>2, <2>3, <3>1, <3>6, <3>7 DEF Full
  <2>4. ASSUME stage[t] \in Working, at'[t] = at[t], pending'[t] = pending[t],
               watching'[t] = watching[t], Op(t)' = Op(t),
               \/ seen'[t] = seen[t]
               \/ stage'[t] = "observing" /\ \E p \in Op(t).basis :
                      seen'[t] = [q \in DOMAIN seen[t] \cup {p} |->
                                     IF q = p THEN disk[p] ELSE seen[t][q]]
        PROVE  /\ \A q \in DOMAIN seen'[t] : seen'[t][q] = watching'[t][q]
               /\ Full(t, pending[t], at[t] - 1, watching[t])'
    <3>1. /\ \A q \in DOMAIN seen[t] : seen[t][q] = watching[t][q]
          /\ Full(t, pending[t], at[t] - 1, watching[t])
      BY <2>1, <2>4 DEF FInv, Agreeing
    <3>2. \A q \in DOMAIN seen'[t] : seen'[t][q] = watching[t][q]
      <4>1. ASSUME stage'[t] = "observing", NEW p \in Op(t).basis
            PROVE  disk[p] = watching[t][p]
        <5>1. at'[t] \in DOMAIN program'.ops[t]
          BY <4>1, StandsStep DEF Stands, Underway, Claimed
        <5>2. p \in program.watched[t]
          BY <1>2, <2>1, <2>4, <4>1, <5>1, OperationsAssumption DEF Types, Op, Watches
        <5> QED
          BY <2>1, <2>4, <5>2 DEF WatchedHold
      <4> QED
        BY <2>4, <3>1, <4>1
    <3> QED
      BY <1>2, <2>4, <3>1, <3>2 DEF Full
  <2> QED
    BY <1>4, <2>1, <2>2, <2>3, <2>4, WorkMoves
<1> QED
    BY <1>3, <1>4 DEF Agreeing

LEMMA FiledStep ==
    ASSUME Types, FInv, NEW t \in Tasks, TaskStep(t)
    PROVE  Filed'
<1>1. OthersStay(t)
    BY FrameStep
<1>2. saved' = saved
    BY DEF TaskStep, Start, GivenUp, ObserveWatched, BasisVerdict, CallbackFails,
       SettleDone, Await, Observe, Derive, ClaimOutputs, Hold, SkipCurrent, Plan,
       Establish, FileFails, ChildFails, Verify, Spawn, ChildEnds, Still, world
<1>3. \A u, m : Opaque(u, m)' <=> Opaque(u, m)
    BY <1>1 DEF Opaque, Full, OthersStay
<1>4. ASSUME Watches(t) PROVE Opaque(t, store'[t])
  <2>1. CASE SettleDone(t)
    <3>1. store'[t] = [ops |-> pending[t], basis |-> watching[t]]
      BY <2>1 DEF SettleDone, Committed, Types
    <3>2. stage[t] = "callback" /\ at[t] > Len(program.ops[t])
      BY <2>1 DEF SettleDone
    <3>3. Full(t, pending[t], at[t] - 1, watching[t])
      BY <1>4, <3>2 DEF FInv, Agreeing, Working
    <3>4. Len(program.ops[t]) \in Nat /\ at[t] \in Nat
      BY OperationsAssumption DEF Types
    <3>5. \A k \in 1 .. Len(program.ops[t]) : k \in 1 .. (at[t] - 1)
      BY <3>2, <3>4
    <3>6. Full(t, pending[t], Len(program.ops[t]), watching[t])
      BY <3>3, <3>5 DEF Full
    <3> QED
      BY <3>1, <3>6 DEF Opaque
  <2>2. CASE ~SettleDone(t)
    <3>1. store' = store
      BY <2>2 DEF TaskStep, Start, GivenUp, ObserveWatched, BasisVerdict, CallbackFails,
         Await, Observe, Derive, ClaimOutputs, Hold, SkipCurrent, Plan,
         Establish, FileFails, ChildFails, Verify, Spawn, ChildEnds, Still, world
    <3> QED
      BY <1>4, <3>1 DEF FInv, Filed
  <2> QED
    BY <2>1, <2>2
<1>5. ASSUME NEW u \in Tasks, Watches(u)
      PROVE  Opaque(u, store'[u]) /\ Opaque(u, saved'[u])
    BY <1>1, <1>2, <1>4, <1>5 DEF OthersStay, FInv, Filed
<1>6. \A u : Watches(u)' <=> Watches(u)
    BY <1>1 DEF OthersStay, Watches
<1> QED
    BY <1>3, <1>5, <1>6 DEF Filed

LEMMA ObservedAllStep ==
    ASSUME Types, Stands, Strict, FInv, NEW t \in Tasks, TaskStep(t)
    PROVE  ObservedAll'
<1>1. OthersStay(t)
    BY FrameStep
<1>2. ASSUME NEW u \in Tasks \ {t}, stage'[u] \in {"held", "child", "verifying"}
      PROVE  DOMAIN seen'[u] = Op(u)'.basis
  <2>1. stage'[u] = stage[u] /\ seen'[u] = seen[u] /\ Op(u)' = Op(u)
    BY <1>1, <1>2 DEF OthersStay, Underway, Claimed
  <2> QED
    BY <1>2, <2>1 DEF FInv, ObservedAll
<1>3. ASSUME stage'[t] \in {"held", "child", "verifying"}
      PROVE  DOMAIN seen'[t] = Op(t)'.basis
    BY <1>3, WorkMoves DEF Working, Underway, Claimed
<1> QED
    BY <1>2, <1>3 DEF ObservedAll

LEMMA UnstartedStep ==
    ASSUME Types, Stands, Unstarted, NEW t \in Tasks, TaskStep(t)
    PROVE  Unstarted'
<1>1. OthersStay(t)
    BY FrameStep
<1>2. ASSUME NEW u \in Tasks \ {t}
      PROVE  /\ stage'[u] = "basis" => Watches(u)'
             /\ stage'[u] \in {"waiting", "basis"} => pending'[u] = <<>> /\ at'[u] = 1
    BY <1>1 DEF OthersStay, Unstarted, Watches
<1>3. stage'[t] \in {"waiting", "basis"} => Start(t) \/ ObserveWatched(t)
  <2>1. GoesOn(t) \/ Errs(t) => stage'[t] \in {"callback", "failed"}
    BY Leaves
  <2> QED
    BY <2>1 DEF TaskStep, GivenUp, BasisVerdict, CallbackFails, SettleDone, Await, Observe,
       Derive, ClaimOutputs, Hold, SkipCurrent, Plan, Establish, FileFails, ChildFails,
       Verify, Spawn, ChildEnds, Types, At
<1>4. CASE Start(t) \/ ObserveWatched(t)
  <2>1. UNCHANGED <<pending, at>> /\ stage[t] \in {"waiting", "basis"}
    BY <1>4 DEF Start, ObserveWatched
  <2>2. stage'[t] = "basis" => Watches(t)
    BY <1>4 DEF Start, ObserveWatched, Types, Watches, Unstarted
  <2> QED
    BY <1>1, <1>2, <2>1, <2>2 DEF Unstarted, Watches, OthersStay
<1> QED
    BY <1>2, <1>3, <1>4 DEF Unstarted

LEMMA InitWInv == OperationsInit => WInv
<1> SUFFICES ASSUME OperationsInit PROVE Unstarted /\ FInv
    BY DEF WInv
<1>1. Unstarted /\ ObservedAll /\ Agreeing
    BY DEF OperationsInit, EachTask, Unstarted, ObservedAll, Agreeing, Working, Underway, Claimed
<1>2. \A t \in Tasks : store[t].basis = Nil /\ saved[t].basis = Nil
    BY DEF OperationsInit, NoRecord
<1> QED
    BY <1>1, <1>2 DEF OperationsInit, FInv, Filed, Opaque

LEMMA FInvStep ==
    ASSUME Strict, OperationsInv, RInv, FInv, WatchedHold, [OperationsNext]_operations
    PROVE  FInv'
<1>1. ASSUME NEW t \in Tasks, TaskStep(t) PROVE FInv'
  <2>1. dry' = FALSE
    BY <1>1, FrameStep DEF OperationsInv, FInv, OthersStay
  <2> QED
    BY <1>1, <2>1, AgreeingStep, FiledStep, ObservedAllStep, UnstartedStep DEF OperationsInv, RInv, FInv
<1>2. ASSUME program' = program
      PROVE  /\ \A u, m : Opaque(u, m)' <=> Opaque(u, m)
             /\ \A u : Watches(u)' <=> Watches(u)
    BY <1>2 DEF Opaque, Full, Watches
<1>3. CASE Finish \/ ProcessEnds
  <2>1. /\ program' = program /\ FreshRun /\ dry' = FALSE
        /\ store' \in {store, saved} /\ saved' \in {store, saved}
    BY <1>3 DEF Finish, ProcessEnds
  <2>2. Filed'
    BY <1>2, <2>1 DEF FInv, Filed
  <2>3. Unstarted' /\ ObservedAll' /\ Agreeing'
    BY <2>1 DEF FreshRun, EachTask, Unstarted, ObservedAll, Agreeing, Working, Underway,
       Claimed
  <2> QED
    BY <2>1, <2>2, <2>3 DEF FInv
<1>4. CASE Begin \/ Save \/ Edit \/ UNCHANGED operations
  <2>1. /\ UNCHANGED <<program, store, stage, at, pending, watching, seen>>
        /\ saved' \in {store, saved}
    BY <1>4 DEF Begin, Save, Edit, operations, world, run
  <2>2. dry' = FALSE
    BY <1>4 DEF Begin, Save, Edit, operations, world, FInv, Strict
  <2>3. Filed'
    BY <1>2, <2>1 DEF FInv, Filed
  <2>4. \A t \in Tasks : Op(t)' = Op(t)
    BY <2>1 DEF Op
  <2>5. Unstarted' /\ ObservedAll'
    BY <1>2, <2>1, <2>4 DEF FInv, Unstarted, ObservedAll
  <2>6. Agreeing'
    BY <1>2, <2>1 DEF FInv, Agreeing, Full
  <2> QED
    BY <2>2, <2>3, <2>5, <2>6 DEF FInv
<1> QED
    BY <1>1, <1>3, <1>4 DEF OperationsNext

\* Of a program where no Task watches, it says only that none is at its Basis.
LEMMA WInvStep ==
    ASSUME RealAndStrict, OperationsInv, RInv, WInv, WatchedHold, [OperationsNext]_operations
    PROVE  WInv'
<1>1. CASE \E t \in Tasks : Watches(t)
  <2>1. Strict
    BY <1>1 DEF OperationsInv, Types, RealAndStrict, Strict, Watches
  <2> QED
    BY <1>1, <2>1, FInvStep DEF WInv, FInv
<1>2. CASE ~\E t \in Tasks : Watches(t)
  <2>1. program' = program
    BY FrameStep DEF OperationsInv, OperationsNext, OthersStay, Begin, Finish, Save, ProcessEnds, Edit,
       operations, world
  <2>2. ~\E t \in Tasks : Watches(t)'
    BY <1>2, <2>1 DEF Watches
  <2>3. ASSUME NEW t \in Tasks, TaskStep(t) PROVE Unstarted'
    BY <2>3, UnstartedStep DEF OperationsInv, WInv
  <2>4. CASE Finish \/ ProcessEnds
    <3>1. FreshRun
      BY <2>4 DEF Finish, ProcessEnds
    <3>2. Unstarted'
      BY <3>1 DEF FreshRun, EachTask, Unstarted
    <3> QED
      BY <2>2, <3>2 DEF WInv
  <2>5. CASE Begin \/ Save \/ Edit \/ UNCHANGED operations
    <3>1. UNCHANGED <<program, stage, pending, at>>
      BY <2>5 DEF Begin, Save, Edit, operations, world, run
    <3>2. ASSUME NEW t \in Tasks
          PROVE  /\ stage'[t] = "basis" => Watches(t)'
                 /\ stage'[t] \in {"waiting", "basis"} => pending'[t] = <<>> /\ at'[t] = 1
      BY <3>1 DEF WInv, Unstarted, Watches
    <3>3. Unstarted'
      BY <3>2 DEF Unstarted
    <3> QED
      BY <2>2, <3>3 DEF WInv
  <2> QED
    BY <2>2, <2>3, <2>4, <2>5 DEF OperationsNext, WInv
<1> QED
    BY <1>1, <1>2

LEMMA WInvInvariant ==
    ASSUME NilIsNothing, OutputsOwn, RealAndStrict
    PROVE  OperationsSpec /\ []InputsHold /\ []WatchedHold => []WInv
<1>1. OperationsInv /\ RInv /\ WInv /\ WatchedHold /\ [OperationsNext]_operations => WInv'
    BY WInvStep
<1> QED
    BY <1>1, InitWInv, IInvInvariant, RInvInvariant, PTL DEF OperationsSpec

\* What a Task that its own Basis proves current was to leave is there.
LEMMA CurrentTaskDone ==
    ASSUME NilIsNothing, OperationsInv, RInv, WInv, NEW t \in Tasks, BasisVerdict(t),
           store[t].basis = seen[t], RecordedOutputsHold(t),
           NEW k \in DOMAIN program.ops[t], NEW p \in Range(program.ops[t][k].outs)
    PROVE  Done(t, k, p, seen[t])
<1>1. Watches(t) /\ DOMAIN seen[t] = program.watched[t]
    BY DEF BasisVerdict, WInv, Unstarted
<1>2. program.watched[t] \subseteq Paths /\ program.ops[t] \in Seq(Operation)
    BY OperationsAssumption DEF OperationsInv, Types
<1>3. seen[t] # Nil
    BY <1>1, <1>2 DEF NilIsNothing, Watches
<1>4. Full(t, store[t].ops, Len(program.ops[t]), seen[t])
    BY <1>1, <1>3 DEF WInv, FInv, Filed, Opaque
<1>5. PICK r \in Range(store[t].ops) : r.definition.op = k
  <2>1. k \in 1..Len(program.ops[t])
    BY <1>2
  <2> QED
    BY <1>4, <2>1 DEF Full
<1>6. \A q \in program.ops[t][k].basis : r.basis[q] = seen[t][q]
    BY <1>4, <1>5 DEF Full
<1>7. Sound(t, r) /\ OutputsHold(r)
    BY DEF RInv, RecordsSound, AllSound, RecordedOutputsHold
<1>8. PICK i \in DOMAIN r.paths : p = r.paths[i]
    BY <1>5, <1>7 DEF Sound, Range
<1>9. Leaving(t, k, disk[p], r.basis)
    BY <1>5, <1>7, <1>8 DEF Sound, OutputsHold
<1>10. [q \in program.ops[t][k].basis |-> r.basis[q]]
          = [q \in program.ops[t][k].basis |-> seen[t][q]]
    BY <1>6
<1>11. program.ops[t][k].kind \in {"file", "exec", "patch"}
  <2>1. program.ops[t][k] \in Operation
    BY <1>2
  <2> QED
    BY <2>1 DEF Operation
<1> QED
    BY <1>9, <1>10, <1>11 DEF Leaving, Done

\* Nothing is taken for current that is not: no operation and no Task is skipped
\* whose outputs are not what running it would leave (fileOperationCurrent,
\* execOperationCurrent, basisIsCurrent), provided nobody rewrites what was
\* observed for an Exec while its child runs, or what a Task watches while its
\* callback does; that dry Runs and swallowed errors occur only where no Task
\* watches; and that other Outputs write where no Exec of this one does.
THEOREM NothingFalselySatisfied ==
    ASSUME NilIsNothing, OutputsOwn, RealAndStrict
    PROVE  OperationsSpec /\ []InputsHold /\ []WatchedHold => NoFalseSatisfaction
<1> DEFINE Skips(t) == phase' = "run" => \A k \in skipped'[t] \ skipped[t] :
          \A p \in Range(program.ops[t][k].outs) : Done(t, k, p, seen[t])
<1>1. ASSUME OperationsInv, RInv, WInv, [OperationsNext]_operations, NEW t \in Tasks
      PROVE  Skips(t)
  <2> SUFFICES ASSUME phase' = "run", NEW k \in skipped'[t] \ skipped[t],
                      NEW p \in Range(program.ops[t][k].outs)
               PROVE  Done(t, k, p, seen[t])
    OBVIOUS
  <2>1. CASE SkipCurrent(t) /\ k = at[t]
    <3>1. stage[t] \in Claimed /\ IsCurrent(t) /\ p \in Outs(t)
      BY <2>1 DEF SkipCurrent, Consulting, At, Claimed, Outs, Op
    <3> QED
      BY <1>1, <2>1, <3>1, CurrentIsDone
  <2>2. CASE /\ BasisVerdict(t) /\ k \in DOMAIN program.ops[t]
             /\ store[t].basis = seen[t] /\ RecordedOutputsHold(t)
    BY <1>1, <2>2, CurrentTaskDone
  <2> QED
    BY <1>1, <2>1, <2>2, SkipMoves DEF OperationsInv
<1>2. OperationsInv /\ RInv /\ WInv /\ [OperationsNext]_operations => [\A t \in Tasks : Skips(t)]_operations
    BY <1>1
<1> QED
    BY <1>2, IInvInvariant, RInvInvariant, WInvInvariant, PTL
       DEF OperationsSpec, NoFalseSatisfaction

-----------------------------------------------------------------------------
\* The second Run.

\* No two operations of a program make the same path, none makes none, and what
\* one makes another observes, or a Task watches, only later in its own callback
\* or in the declared order.
Apart ==
    \A s \in Programs : \A t, u \in Tasks : \A j \in DOMAIN s.ops[u] :
        /\ s.ops[u][j].outs # <<>>
        /\ \A p \in Range(s.ops[u][j].outs) :
            /\ p \in s.watched[t] => <<u, t>> \in s.after
            /\ \A k \in DOMAIN s.ops[t] :
                /\ p \in Range(s.ops[t][k].outs) => t = u /\ k = j
                /\ p \in s.ops[t][k].basis => <<u, t>> \in s.after \/ (t = u /\ j < k)

\* A Task starts when those it is declared after are done.
Orderly ==
    \A t, u \in Tasks : stage[t] \notin {"waiting", "failed"} /\ <<u, t>> \in program.after
        => stage[u] = "done"

\* An operation has observed nothing before it claims its outputs.
Idle ==
    \A t \in Tasks : stage[t] \in {"waiting", "callback", "derived", "awaiting"} => seen[t] = Nothing

\* A record is filed under the operation it defines, with the outputs of that
\* operation, and for File and Patch with the contents it was to establish.
Attests(t, r) ==
    LET k == r.definition.op IN
    /\ r.op = k /\ k \in DOMAIN program.ops[t] /\ r.paths = program.ops[t][k].outs
    /\ program.ops[t][k].kind # "exec" => r.outs = <<r.definition.contents>>
AllAttest(t, rs) == rs \in Seq(Range(rs)) /\ \A r \in Range(rs) : Attests(t, r)

Attested ==
    \A t \in Tasks : AllAttest(t, pending[t]) /\ AllAttest(t, store[t].ops) /\ AllAttest(t, saved[t].ops)

\* Record r proves operation k current as the disk is now.
UpToDate(t, k, r) ==
    LET op == program.ops[t][k] IN
    /\ r.op = k /\ r.paths = op.outs /\ OutputsHold(r)
    /\ r.basis = [p \in op.basis |-> disk[p]]
    /\ r.definition = [op |-> k, contents |-> IF op.kind = "exec" THEN Nil ELSE disk[op.outs[1]]]
    /\ op.kind # "exec" => r.outs = <<disk[op.outs[1]]>>
    /\ op.kind = "file" => disk[op.outs[1]] = FileLeaves(t, k)
    /\ op.kind = "patch" => Applied(disk[op.outs[1]])

\* The manifest proves a Task current: by its own Basis, or operation by operation.
Whole(t) ==
    /\ Watches(t) => /\ store[t].basis = [p \in program.watched[t] |-> disk[p]]
                     /\ RecordedOutputsHold(t)
    /\ ~Watches(t) => /\ Len(store[t].ops) >= Len(program.ops[t])
                      /\ \A k \in DOMAIN program.ops[t] : UpToDate(t, k, store[t].ops[k])

\* What a Task observed is still what is there.
Observing == {"basis", "observing", "held", "child", "verifying"}
SeesNow(t) ==
    /\ stage[t] \in Observing =>
        /\ seen[t] = [p \in DOMAIN seen[t] |-> disk[p]]
        /\ DOMAIN seen[t] \subseteq (IF stage[t] = "basis" THEN program.watched[t] ELSE Op(t).basis)
    /\ stage[t] \in {"held", "child", "verifying"} => DOMAIN seen[t] = Op(t).basis

\* What it recorded still proves those operations current.
RecordedSoFar(t) ==
    stage[t] \in Working =>
        /\ Len(pending[t]) = at[t] - 1 /\ 1 .. (at[t] - 1) \subseteq DOMAIN program.ops[t]
        /\ \A k \in 1 .. (at[t] - 1) : UpToDate(t, k, pending[t][k])
        /\ Watches(t) => watching[t] = [p \in program.watched[t] |-> disk[p]]

\* What Patch read is still there.
ReadNow(t) ==
    stage[t] \in {"derived", "observing", "held"} /\ Op(t).kind = "patch"
        => source[t] = disk[Out(t)]

Follows(t) == SeesNow(t) /\ RecordedSoFar(t) /\ ReadNow(t) /\ (stage[t] = "done" => Whole(t))

\* A real Run in which nothing has gone wrong.
Real == phase = "run" /\ steady /\ ~dry

CalmIsSteady == (calm => steady) /\ (phase = "runs" => ~dry)

\* Over what such a Run left Done, no watched Task has work to do, and no child
\* is started, in a dry Run either.
Resting ==
    /\ calm /\ ~dry => \A t \in Tasks : Whole(t) /\ (Watches(t) => stage[t] \notin Working)
    /\ calm \/ dry => \A t \in Tasks : stage[t] \notin {"child", "verifying"}

QInv ==
    /\ Unstarted /\ Idle /\ Orderly /\ Attested /\ CalmIsSteady
    /\ (Real => \A t \in Tasks : Follows(t)) /\ Resting

-----------------------------------------------------------------------------
\* Where the steps of others reach.

LEMMA ApartHere ==
    ASSUME Apart, Types, NEW t \in Tasks, NEW u \in Tasks, NEW j \in DOMAIN program.ops[u],
           NEW p \in Range(program.ops[u][j].outs)
    PROVE  /\ p \in program.watched[t] => <<u, t>> \in program.after
           /\ \A k \in DOMAIN program.ops[t] :
                /\ p \in Range(program.ops[t][k].outs) => t = u /\ k = j
                /\ p \in program.ops[t][k].basis => <<u, t>> \in program.after \/ (t = u /\ j < k)
BY DEF Apart, Types

\* The paths of an operation, and of a Task's Basis.
LEMMA PathsTyped ==
    ASSUME Types, NEW t \in Tasks
    PROVE  /\ program.watched[t] \subseteq Paths /\ program.ops[t] \in Seq(Operation)
           /\ \A k \in DOMAIN program.ops[t] :
                LET op == program.ops[t][k] IN
                /\ op \in Operation /\ op.outs \in Seq(Paths) /\ op.basis \subseteq Paths
                /\ Range(op.outs) \subseteq Paths /\ op.kind \in {"file", "exec", "patch"}
                /\ op.kind # "exec" => Len(op.outs) = 1 /\ op.outs[1] \in Range(op.outs)
<1>1. /\ program.watched[t] \subseteq Paths /\ program.ops[t] \in Seq(Operation)
      /\ \A k \in DOMAIN program.ops[t] :
            program.ops[t][k].kind # "exec" => Len(program.ops[t][k].outs) = 1
    BY OperationsAssumption DEF Types
<1> SUFFICES ASSUME NEW k \in DOMAIN program.ops[t]
             PROVE  LET op == program.ops[t][k] IN
                    /\ op \in Operation /\ op.outs \in Seq(Paths) /\ op.basis \subseteq Paths
                    /\ Range(op.outs) \subseteq Paths /\ op.kind \in {"file", "exec", "patch"}
                    /\ op.kind # "exec" => Len(op.outs) = 1 /\ op.outs[1] \in Range(op.outs)
    BY <1>1
<1> DEFINE op == program.ops[t][k]
<1>2. op \in Operation
    BY <1>1
<1> HIDE DEF op
<1>3. op.outs \in Seq(Paths) /\ op.basis \subseteq Paths /\ op.kind \in {"file", "exec", "patch"}
    BY <1>2 DEF Operation
<1>4. Range(op.outs) \subseteq Paths
    BY <1>3 DEF Range
<1>5. op.kind # "exec" => Len(op.outs) = 1
    BY <1>1 DEF op
<1>6. op.kind # "exec" => op.outs[1] \in Range(op.outs)
    BY <1>3, <1>5 DEF Range
<1> QED
    BY <1>2, <1>3, <1>4, <1>5, <1>6 DEF op

\* Whoever works leaves alone what a Task under way has recorded, observed or
\* watched, but for the outputs of its own operation.
LEMMA Undisturbed ==
    ASSUME Apart, Types, Stands, Orderly, NEW u \in Tasks, TaskStep(u),
           NEW t \in Tasks, stage[t] \notin {"waiting", "failed"}
    PROVE  /\ \A p \in program.watched[t] : disk'[p] = disk[p]
           /\ \A k \in DOMAIN program.ops[t] :
                /\ u # t \/ k # at[t] =>
                    \A p \in Range(program.ops[t][k].outs) : disk'[p] = disk[p]
                /\ u # t \/ k <= at[t] =>
                    \A p \in program.ops[t][k].basis : disk'[p] = disk[p]
<1>1. ASSUME NEW p \in Paths, disk'[p] # disk[p]
      PROVE  /\ stage[u] \in Claimed /\ at[u] \in DOMAIN program.ops[u]
             /\ p \in Range(program.ops[u][at[u]].outs)
  <2>1. stage[u] \in Claimed /\ p \in Outs(u)
    BY <1>1, WriteMoves
  <2> QED
    BY <2>1 DEF Stands, Underway, Outs, Op
<1>2. ~(<<u, t>> \in program.after /\ stage[u] \in Claimed)
    BY DEF Orderly, Claimed
<1>3. ASSUME NEW p \in program.watched[t] PROVE disk'[p] = disk[p]
  <2>1. p \in Paths
    BY PathsTyped
  <2> QED
    BY <1>1, <1>2, <2>1, ApartHere
<1>4. ASSUME NEW k \in DOMAIN program.ops[t], u # t \/ k # at[t],
             NEW p \in Range(program.ops[t][k].outs)
      PROVE  disk'[p] = disk[p]
  <2>1. p \in Paths
    BY PathsTyped
  <2>2. SUFFICES ASSUME disk'[p] # disk[p] PROVE FALSE
    OBVIOUS
  <2>3. /\ stage[u] \in Claimed /\ at[u] \in DOMAIN program.ops[u]
        /\ p \in Range(program.ops[u][at[u]].outs)
    BY <1>1, <2>1, <2>2
  <2>4. t = u /\ k = at[u]
    BY <2>3, ApartHere
  <2> QED
    BY <1>4, <2>4
<1>5. ASSUME NEW k \in DOMAIN program.ops[t], u # t \/ k <= at[t],
             NEW p \in program.ops[t][k].basis
      PROVE  disk'[p] = disk[p]
  <2>1. p \in Paths
    BY PathsTyped
  <2>2. k \in Nat /\ at[t] \in Nat
    BY PathsTyped DEF Types
  <2>3. SUFFICES ASSUME disk'[p] # disk[p] PROVE FALSE
    OBVIOUS
  <2>4. /\ stage[u] \in Claimed /\ at[u] \in DOMAIN program.ops[u]
        /\ p \in Range(program.ops[u][at[u]].outs)
    BY <1>1, <2>1, <2>3
  <2>5. <<u, t>> \in program.after \/ (t = u /\ at[u] < k)
    BY <2>4, ApartHere
  <2> QED
    BY <1>2, <1>5, <2>2, <2>4, <2>5
<1> QED
    BY <1>3, <1>4, <1>5

\* A record proves its operation current as long as its paths keep their contents.
LEMMA UpToDateStays ==
    ASSUME Types, NEW t \in Tasks, NEW k \in DOMAIN program.ops[t], NEW r, UpToDate(t, k, r),
           program' = program,
           \A p \in Range(program.ops[t][k].outs) \cup program.ops[t][k].basis : disk'[p] = disk[p]
    PROVE  UpToDate(t, k, r)'
<1> DEFINE op == program.ops[t][k]
<1>1. op.outs \in Seq(Paths) /\ (op.kind # "exec" => op.outs[1] \in Range(op.outs))
      /\ op.kind \in {"file", "exec", "patch"}
    BY PathsTyped
<1>2. \A i \in DOMAIN r.paths : disk'[r.paths[i]] = disk[r.paths[i]]
    BY DEF UpToDate, Range
<1>3. OutputsHold(r)'
    BY <1>2 DEF OutputsHold, UpToDate
<1>4. [p \in op.basis |-> disk'[p]] = [p \in op.basis |-> disk[p]]
    OBVIOUS
<1>5. op.kind # "exec" => disk'[op.outs[1]] = disk[op.outs[1]]
    BY <1>1
<1> QED
    BY <1>1, <1>3, <1>4, <1>5 DEF UpToDate, FileLeaves, Applied

\* So does the manifest of a Task.
LEMMA WholeStays ==
    ASSUME Types, Attested, NEW t \in Tasks, Whole(t), program' = program, store'[t] = store[t],
           \A p \in program.watched[t] : disk'[p] = disk[p],
           \A k \in DOMAIN program.ops[t] :
              \A p \in Range(program.ops[t][k].outs) \cup program.ops[t][k].basis : disk'[p] = disk[p]
    PROVE  Whole(t)'
<1>1. Watches(t)' <=> Watches(t)
    BY DEF Watches
<1>2. ASSUME Watches(t)
      PROVE  store'[t].basis = [p \in program.watched[t] |-> disk'[p]] /\ RecordedOutputsHold(t)'
  <2>1. [p \in program.watched[t] |-> disk'[p]] = [p \in program.watched[t] |-> disk[p]]
    OBVIOUS
  <2>2. ASSUME NEW r \in Range(store[t].ops) PROVE OutputsHold(r)'
    <3>1. OutputsHold(r) /\ Attests(t, r)
      BY <1>2 DEF Whole, RecordedOutputsHold, Attested, AllAttest
    <3>2. \A i \in DOMAIN r.paths : disk'[r.paths[i]] = disk[r.paths[i]]
      BY <3>1 DEF Attests, Range
    <3> QED
      BY <3>1, <3>2 DEF OutputsHold
  <2> QED
    BY <1>2, <2>1, <2>2 DEF Whole, RecordedOutputsHold
<1>3. ASSUME ~Watches(t)
      PROVE  /\ Len(store'[t].ops) >= Len(program.ops[t])
             /\ \A k \in DOMAIN program.ops[t] : UpToDate(t, k, store[t].ops[k])'
  <2>1. ASSUME NEW k \in DOMAIN program.ops[t], NEW r, r = store[t].ops[k]
        PROVE  UpToDate(t, k, r)'
    <3>1. UpToDate(t, k, r)
      BY <1>3, <2>1 DEF Whole
    <3> QED
      BY <3>1, UpToDateStays
  <2>2. \A k \in DOMAIN program.ops[t] : UpToDate(t, k, store[t].ops[k])'
    BY <2>1
  <2> QED
    BY <1>3, <2>2 DEF Whole
<1> QED
    BY <1>1, <1>2, <1>3 DEF Whole

-----------------------------------------------------------------------------
\* What holds of every Run, disturbed or not.

LEMMA OrderlyStep ==
    ASSUME Types, Stands, Orderly, NEW v \in Tasks, TaskStep(v)
    PROVE  Orderly'
<1>1. OthersStay(v)
    BY FrameStep
<1>2. stage[v] = "done" => stage'[v] = "done"
    BY DEF TaskStep, Start, GivenUp, ObserveWatched, BasisVerdict, SettleDone, CallbackFails,
       ClaimOutputs, Issuing, Await, Observe, Derive, Hold, At, SkipCurrent, Plan, Consulting,
       Establish, FileFails, Spawn, ChildEnds, ChildFails, Verify
<1>3. stage[v] = "waiting" => Start(v) \/ GivenUp(v)
    BY DEF TaskStep, ObserveWatched, BasisVerdict, SettleDone, CallbackFails,
       ClaimOutputs, Issuing, Await, Observe, Derive, Hold, At, SkipCurrent, Plan, Consulting,
       Establish, FileFails, Spawn, ChildEnds, ChildFails, Verify
<1>4. GivenUp(v) => stage'[v] = "failed"
    BY DEF GivenUp, Types
<1>5. stage[v] = "failed" => stage'[v] = "failed"
    BY DEF TaskStep, Start, GivenUp, ObserveWatched, BasisVerdict, SettleDone, CallbackFails,
       ClaimOutputs, Issuing, Await, Observe, Derive, Hold, At, SkipCurrent, Plan, Consulting,
       Establish, FileFails, Spawn, ChildEnds, ChildFails, Verify
<1>6. ASSUME NEW t \in Tasks, NEW u \in Tasks, stage'[t] \notin {"waiting", "failed"},
             <<u, t>> \in program'.after
      PROVE  stage'[u] = "done"
  <2>1. <<u, t>> \in program.after
    BY <1>1, <1>6 DEF OthersStay
  <2>2. stage[u] = "done"
    <3>1. CASE t # v
      BY <1>1, <1>6, <2>1, <3>1 DEF OthersStay, Orderly
    <3>2. CASE t = v /\ stage[v] = "waiting"
      BY <1>3, <1>4, <1>6, <2>1, <3>2 DEF Start
    <3>3. CASE t = v /\ stage[v] # "waiting"
      BY <1>5, <1>6, <2>1, <3>3 DEF Orderly
    <3> QED
      BY <3>1, <3>2, <3>3
  <2> QED
    BY <1>1, <1>2, <2>2 DEF OthersStay
<1> QED
    BY <1>6 DEF Orderly

LEMMA IdleStep ==
    ASSUME Types, Stands, Idle, NEW t \in Tasks, TaskStep(t)
    PROVE  Idle'
<1>1. OthersStay(t)
    BY FrameStep
<1>2. ASSUME stage'[t] \in {"waiting", "callback", "derived", "awaiting"}
      PROVE  seen'[t] = Nothing
  <2>1. GoesOn(t) \/ Errs(t) => seen'[t] = Nothing
    BY DEF GoesOn, Errs, Forget, Types
  <2>2. CASE GoesOn(t) \/ Errs(t)
    BY <2>1, <2>2
  <2>3. CASE BasisVerdict(t)
    BY <2>3 DEF BasisVerdict, Types
  <2>4. CASE ~(GoesOn(t) \/ Errs(t)) /\ ~BasisVerdict(t)
    <3>1. /\ stage[t] \in {"waiting", "callback", "derived", "awaiting"}
          /\ seen' = seen
      BY <1>2, <2>4 DEF TaskStep, Start, GivenUp, ObserveWatched, SettleDone, CallbackFails,
         ClaimOutputs, Issuing, Await, Observe, Derive, Hold, At, SkipCurrent, Plan, Establish,
         FileFails, Spawn, ChildEnds, ChildFails, Verify, Types
    <3> QED
      BY <3>1 DEF Idle
  <2> QED
    BY <2>2, <2>3, <2>4
<1>3. ASSUME NEW u \in Tasks \ {t}, stage'[u] \in {"waiting", "callback", "derived", "awaiting"}
      PROVE  seen'[u] = Nothing
    BY <1>1, <1>3 DEF OthersStay, Idle
<1> QED
    BY <1>2, <1>3 DEF Idle, Nothing

LEMMA AppendAttests ==
    ASSUME NEW t, NEW rs, NEW r, AllAttest(t, rs), Attests(t, r)
    PROVE  AllAttest(t, Append(rs, r))
<1>1. rs \in Seq(Range(rs)) /\ \A x \in Range(rs) : Attests(t, x)
    BY DEF AllAttest
<1>2. /\ Append(rs, r) \in Seq(Range(rs) \cup {r})
      /\ Range(Append(rs, r)) = Range(rs) \cup {r}
    BY <1>1, AppendRange
<1>3. Append(rs, r) \in Seq(Range(Append(rs, r)))
    BY <1>2
<1>4. \A x \in Range(Append(rs, r)) : Attests(t, x)
    BY <1>1, <1>2
<1> QED
    BY <1>3, <1>4 DEF AllAttest

\* What an operation records is filed under it.
LEMMA RecordAttests ==
    ASSUME Types, Stands, NEW t \in Tasks
    PROVE  /\ stage[t] = "verifying" => Attests(t, Record(t))
           /\ stage[t] = "held" => Attests(t, [Record(t) EXCEPT !.outs = <<Desired(t)>>])
<1>1. /\ Record(t).definition = Definition(t) /\ Record(t).paths = Op(t).outs
      /\ Record(t).op = at[t]
    BY DEF Record, RecordOver
<1>2. ASSUME stage[t] = "verifying" PROVE Attests(t, Record(t))
  <2>1. at[t] \in DOMAIN program.ops[t] /\ Op(t).kind = "exec"
    BY <1>2 DEF Stands, Underway, Claimed, Reaches
  <2> QED
    BY <1>1, <2>1 DEF Attests, Definition, Op
<1>3. ASSUME stage[t] = "held"
      PROVE  Attests(t, [Record(t) EXCEPT !.outs = <<Desired(t)>>])
  <2> DEFINE rec == [Record(t) EXCEPT !.outs = <<Desired(t)>>]
  <2>1. at[t] \in DOMAIN program.ops[t] /\ Op(t).kind # "exec"
    BY <1>3 DEF Stands, Underway, Claimed, Reaches
  <2>2. /\ rec.definition = Definition(t) /\ rec.paths = Op(t).outs /\ rec.op = at[t]
        /\ rec.outs = <<Desired(t)>>
    BY DEF Record, RecordOver
  <2>3. Definition(t).op = at[t] /\ Definition(t).contents = Desired(t)
    BY <2>1 DEF Definition
  <2> HIDE DEF rec
  <2>4. Attests(t, rec)
    BY <2>1, <2>2, <2>3 DEF Attests, Op
  <2> QED
    BY <2>4 DEF rec
<1> QED
    BY <1>2, <1>3

\* The record at the ordinal of an operation is one of its Task's.
LEMMA PriorAttests ==
    ASSUME NEW t \in Tasks, Attested, HasPrior(t)
    PROVE  Prior(t) \in Range(store[t].ops) /\ Attests(t, Prior(t))
<1>1. pending[t] \in Seq(Range(pending[t])) /\ store[t].ops \in Seq(Range(store[t].ops))
    BY DEF Attested, AllAttest
<1>2. Len(pending[t]) + 1 \in DOMAIN store[t].ops
    BY <1>1 DEF HasPrior
<1> QED
    BY <1>2 DEF Prior, Range, Attested, AllAttest

LEMMA AttestedStep ==
    ASSUME Types, Stands, Attested, NEW t \in Tasks, TaskStep(t)
    PROVE  Attested'
<1>1. OthersStay(t)
    BY FrameStep
<1>2. \A u, rs : AllAttest(u, rs)' <=> AllAttest(u, rs)
    BY <1>1 DEF AllAttest, Attests, OthersStay
<1>3. /\ AllAttest(t, pending[t]) /\ AllAttest(t, store[t].ops)
      /\ saved' = saved /\ AllAttest(t, saved[t].ops)
    BY RecordsOneOf DEF Attested
<1>4. AllAttest(t, pending'[t])
  <2>1. CASE pending'[t] = pending[t] \/ pending'[t] = store[t].ops
    BY <1>3, <2>1
  <2>2. CASE SkipCurrent(t) /\ pending'[t] = Append(pending[t], Prior(t))
    <3>1. Attests(t, Prior(t))
      BY <2>2, PriorAttests DEF SkipCurrent, IsCurrent
    <3> QED
      BY <1>3, <2>2, <3>1, AppendAttests
  <2>3. CASE /\ Establish(t)
             /\ pending'[t] = Append(pending[t], [Record(t) EXCEPT !.outs = <<Desired(t)>>])
    <3>1. Attests(t, [Record(t) EXCEPT !.outs = <<Desired(t)>>])
      BY <2>3, RecordAttests DEF Establish
    <3> QED
      BY <1>3, <2>3, <3>1, AppendAttests
  <2>4. CASE Verify(t) /\ pending'[t] = Append(pending[t], Record(t))
    <3>1. Attests(t, Record(t))
      BY <2>4, RecordAttests DEF Verify
    <3> QED
      BY <1>3, <2>4, <3>1, AppendAttests
  <2> QED
    BY <2>1, <2>2, <2>3, <2>4, RecordsOneOf
<1>5. AllAttest(t, store'[t].ops)
  <2>1. store'[t].ops = store[t].ops \/ store'[t].ops = pending[t]
    <3>1. \A m : m = [ops |-> pending[t], basis |-> watching[t]] => m.ops = pending[t]
      OBVIOUS
    <3> QED
      BY <3>1, RecordsOneOf
  <2> QED
    BY <1>3, <2>1
<1>6. \A u \in Tasks : AllAttest(u, pending'[u]) /\ AllAttest(u, store'[u].ops)
                        /\ AllAttest(u, saved'[u].ops)
    BY <1>1, <1>3, <1>4, <1>5 DEF OthersStay, Attested
<1> QED
    BY <1>2, <1>6 DEF Attested

-----------------------------------------------------------------------------
\* A Task's own step in a real Run in which nothing goes wrong.

LEMMA SeesNowStep ==
    ASSUME Apart, Types, Stands, Orderly, Idle, NEW t \in Tasks, SeesNow(t), TaskStep(t)
    PROVE  SeesNow(t)'
<1>1. program' = program
    BY FrameStep DEF OthersStay
<1>2. GoesOn(t) \/ Errs(t) => stage'[t] \notin Observing
    BY Leaves DEF Observing
<1>3. DOMAIN Nothing = {} /\ Nothing = [p \in DOMAIN Nothing |-> disk'[p]]
    BY DEF Nothing
<1>4. CASE stage'[t] \notin Observing
    BY <1>4 DEF SeesNow, Observing
<1>5. CASE seen'[t] = Nothing /\ stage'[t] \in {"basis", "observing"}
    BY <1>3, <1>5 DEF SeesNow
<1>6. ASSUME disk' = disk,
             NEW p \in (IF stage'[t] = "basis" THEN program.watched[t] ELSE Op(t).basis),
             seen'[t] = [q \in DOMAIN seen[t] \cup {p} |-> IF q = p THEN disk[p] ELSE seen[t][q]],
             stage'[t] = stage[t], at' = at, stage[t] \in {"basis", "observing"}
      PROVE  SeesNow(t)'
  <2>1. /\ seen[t] = [q \in DOMAIN seen[t] |-> disk[q]]
        /\ DOMAIN seen[t] \subseteq (IF stage[t] = "basis" THEN program.watched[t] ELSE Op(t).basis)
    BY <1>6 DEF SeesNow, Observing
  <2>2. DOMAIN seen'[t] = DOMAIN seen[t] \cup {p}
    BY <1>6
  <2>3. seen'[t] = [q \in DOMAIN seen[t] \cup {p} |-> disk'[q]]
    BY <1>6, <2>1
  <2>4. seen'[t] = [q \in DOMAIN seen'[t] |-> disk'[q]]
    BY <2>2, <2>3
  <2>5. Op(t)' = Op(t)
    BY <1>1, <1>6 DEF Op
  <2> QED
    BY <1>1, <1>6, <2>1, <2>2, <2>4, <2>5 DEF SeesNow
<1>7. CASE Start(t)
    BY <1>4, <1>5, <1>7 DEF Start, Idle, Types, Observing
<1>8. CASE ObserveWatched(t)
  <2>1. PICK p \in program.watched[t] \ DOMAIN seen[t] :
          seen' = [seen EXCEPT ![t] = [q \in DOMAIN @ \cup {p} |-> IF q = p THEN disk[p] ELSE @[q]]]
    BY <1>8 DEF ObserveWatched
  <2> QED
    BY <1>6, <1>8, <2>1 DEF ObserveWatched, Types, world
<1>9. CASE ClaimOutputs(t)
  <2>1. CASE Errs(t)
    BY <1>2, <1>4, <2>1
  <2>2. CASE ~Errs(t)
    <3>1. seen' = seen /\ stage'[t] \in {"awaiting", "observing"} /\ stage[t] \in {"callback", "derived"}
      BY <1>9, <2>2 DEF ClaimOutputs, Issuing, Types
    <3> QED
      BY <1>4, <1>5, <3>1 DEF Idle, Observing
  <2> QED
    BY <2>1, <2>2
<1>10. CASE Await(t)
    BY <1>4, <1>5, <1>10 DEF Await, Idle, Types, Observing
<1>11. CASE Observe(t)
  <2>1. PICK p \in Op(t).basis \ DOMAIN seen[t] :
          seen' = [seen EXCEPT ![t] = [q \in DOMAIN @ \cup {p} |-> IF q = p THEN disk[p] ELSE @[q]]]
    BY <1>11 DEF Observe
  <2> QED
    BY <1>6, <1>11, <2>1 DEF Observe, Types, world
<1>12. CASE Hold(t)
  <2>1. CASE Errs(t)
    BY <1>2, <1>4, <2>1
  <2>2. CASE ~Errs(t)
    <3>1. /\ seen' = seen /\ at' = at /\ disk' = disk /\ stage'[t] = "held"
          /\ stage[t] = "observing" /\ DOMAIN seen[t] = Op(t).basis
      BY <1>12, <2>2 DEF Hold, At, Observed, Types
    <3>2. Op(t)' = Op(t)
      BY <1>1, <3>1 DEF Op
    <3> QED
      BY <3>1, <3>2 DEF SeesNow, Observing
  <2> QED
    BY <2>1, <2>2
<1>13. CASE Spawn(t) \/ ChildEnds(t)
  <2>1. /\ seen' = seen /\ at' = at /\ stage'[t] \in {"child", "verifying"}
        /\ stage[t] \in {"observing", "child"} /\ DOMAIN seen[t] = Op(t).basis
    BY <1>13 DEF Spawn, ChildEnds, At, Observed, Types, SeesNow
  <2>2. Op(t)' = Op(t)
    BY <1>1, <2>1 DEF Op
  <2>3. at[t] \in DOMAIN program.ops[t] /\ at[t] <= at[t]
    BY <2>1 DEF Stands, Underway, Claimed, Types
  <2>4. \A p \in Op(t).basis : disk'[p] = disk[p]
    BY <2>1, <2>3, Undisturbed DEF Op
  <2>5. seen[t] = [p \in DOMAIN seen[t] |-> disk[p]]
    BY <2>1 DEF SeesNow, Observing
  <2>6. seen[t] = [p \in DOMAIN seen[t] |-> disk'[p]]
    BY <2>1, <2>4, <2>5
  <2> QED
    BY <2>1, <2>2, <2>6 DEF SeesNow
<1>14. CASE \/ GivenUp(t) \/ BasisVerdict(t) \/ SettleDone(t) \/ CallbackFails(t)
  <2>1. stage'[t] \notin Observing
    BY <1>14 DEF GivenUp, BasisVerdict, SettleDone, CallbackFails, Observing, Types
  <2> QED
    BY <1>4, <2>1
<1>15. CASE Derive(t)
  <2>1. Errs(t) \/ stage'[t] = "derived"
    BY <1>15 DEF Derive, Types
  <2> QED
    BY <1>2, <1>4, <2>1 DEF Observing
<1>16. CASE \/ SkipCurrent(t) \/ Plan(t) \/ Establish(t) \/ FileFails(t) \/ ChildFails(t) \/ Verify(t)
    BY <1>2, <1>4, <1>16 DEF SkipCurrent, Plan, Establish, FileFails, ChildFails, Verify
<1> QED
    BY <1>7, <1>8, <1>9, <1>10, <1>11, <1>12, <1>13, <1>14, <1>15, <1>16 DEF TaskStep

LEMMA ReadNowStep ==
    ASSUME Types, Stands, NEW t \in Tasks, ReadNow(t), TaskStep(t)
    PROVE  ReadNow(t)'
<1>1. program' = program
    BY FrameStep DEF OthersStay
<1> DEFINE Reads(s) == s \in {"derived", "observing", "held"}
<1>2. GoesOn(t) \/ Errs(t) => ~Reads(stage'[t])
    BY Leaves
<1>3. CASE ~Reads(stage'[t])
    BY <1>3 DEF ReadNow
<1>4. CASE at' = at /\ source' = source /\ disk' = disk /\ Reads(stage[t])
    BY <1>1, <1>4 DEF ReadNow, Op, Out
<1>5. CASE Derive(t)
  <2>1. Errs(t) \/ (at' = at /\ disk' = disk /\ source'[t] = disk[Out(t)])
    BY <1>5 DEF Derive, Types
  <2> QED
    BY <1>1, <1>2, <1>3, <2>1 DEF ReadNow, Op, Out
<1>6. CASE ClaimOutputs(t)
  <2>1. Errs(t) \/ (at' = at /\ disk' = disk /\ source' = source)
    BY <1>6 DEF ClaimOutputs
  <2>2. stage[t] = "derived" \/ Op(t).kind # "patch"
    BY <1>6 DEF ClaimOutputs, Issuing
  <2> QED
    BY <1>1, <1>2, <1>3, <1>4, <2>1, <2>2 DEF ReadNow, Op, Out
<1>7. CASE Await(t)
  <2>1. Op(t).kind # "patch" /\ at' = at
    BY <1>7 DEF Await, Stands, Underway, Claimed, Reaches
  <2> QED
    BY <1>1, <2>1 DEF ReadNow, Op
<1>8. CASE Observe(t)
    BY <1>4, <1>8 DEF Observe, world
<1>9. CASE Hold(t)
  <2>1. Errs(t) \/ (at' = at /\ disk' = disk /\ source' = source /\ stage[t] = "observing")
    BY <1>9 DEF Hold, At
  <2> QED
    BY <1>2, <1>3, <1>4, <2>1
<1>10. CASE \/ Start(t) \/ GivenUp(t) \/ ObserveWatched(t) \/ BasisVerdict(t) \/ SettleDone(t)
            \/ CallbackFails(t) \/ Spawn(t) \/ ChildEnds(t)
  <2>1. ~Reads(stage'[t])
    BY <1>10 DEF Start, GivenUp, ObserveWatched, BasisVerdict, SettleDone, CallbackFails, Spawn,
       ChildEnds, Types
  <2> QED
    BY <1>3, <2>1
<1>11. CASE \/ SkipCurrent(t) \/ Plan(t) \/ Establish(t) \/ FileFails(t) \/ ChildFails(t) \/ Verify(t)
    BY <1>2, <1>3, <1>11 DEF SkipCurrent, Plan, Establish, FileFails, ChildFails, Verify
<1> QED
    BY <1>5, <1>6, <1>7, <1>8, <1>9, <1>10, <1>11 DEF TaskStep

\* The record an operation is found current by proves it current as the disk is.
LEMMA PriorUpToDate ==
    ASSUME NilIsNothing, Types, Stands, Attested, NEW t \in Tasks, SeesNow(t),
           Consulting(t), IsCurrent(t)
    PROVE  UpToDate(t, at[t], Prior(t))
<1> DEFINE r == Prior(t)
<1>1. stage[t] \in Claimed /\ stage[t] \in Observing
    BY DEF Consulting, At, Claimed, Observing
<1>2. at[t] \in DOMAIN program.ops[t] /\ Op(t) = program.ops[t][at[t]]
    BY <1>1 DEF Stands, Underway, Op
<1>3. DOMAIN seen[t] = Op(t).basis /\ seen[t] = [p \in DOMAIN seen[t] |-> disk[p]]
    BY <1>1 DEF Consulting, Observed, SeesNow
<1>4. Attests(t, r)
    BY PriorAttests DEF IsCurrent
<1>5. r.basis = seen[t] /\ r.definition = Definition(t) /\ r.paths = Op(t).outs /\ OutputsHold(r)
    BY DEF IsCurrent
<1>6. Definition(t).op = at[t]
    BY DEF Definition
<1> HIDE DEF r
<1>7. r.op = at[t]
    BY <1>4, <1>5, <1>6 DEF Attests
<1>8. r.basis = [p \in Op(t).basis |-> disk[p]]
    BY <1>3, <1>5
<1>9. ASSUME Op(t).kind = "exec" PROVE UpToDate(t, at[t], r)
    BY <1>2, <1>5, <1>7, <1>8, <1>9 DEF UpToDate, Definition
<1>10. ASSUME Op(t).kind # "exec" PROVE UpToDate(t, at[t], r)
  <2>1. r.outs = <<Desired(t)>>
    BY <1>2, <1>4, <1>5, <1>6, <1>10 DEF Attests, Definition
  <2>2. Op(t).outs \in Seq(Paths) /\ Len(Op(t).outs) = 1 /\ Op(t).kind \in {"file", "patch"}
    BY <1>2, <1>10, PathsTyped
  <2>3. disk[Op(t).outs[1]] = Desired(t)
    BY <1>5, <2>1, <2>2 DEF OutputsHold
  <2>4. Leaving(t, at[t], Desired(t), seen[t])
    BY <2>2, DesiredLeft
  <2>5. /\ Op(t).kind = "file" => Desired(t) = FileLeaves(t, at[t])
        /\ Op(t).kind = "patch" => Applied(Desired(t))
    BY <1>2, <2>4 DEF Leaving
  <2> QED
    BY <1>2, <1>5, <1>7, <1>8, <1>10, <2>1, <2>3, <2>5 DEF UpToDate, Definition
<1> QED
    BY <1>9, <1>10 DEF r

\* So does what Exec records of what it observed and left.
LEMMA VerifiedUpToDate ==
    ASSUME Types, Stands, NEW t \in Tasks, SeesNow(t), stage[t] = "verifying"
    PROVE  UpToDate(t, at[t], Record(t))
<1>1. /\ at[t] \in DOMAIN program.ops[t] /\ Op(t) = program.ops[t][at[t]] /\ Op(t).kind = "exec"
    BY DEF Stands, Underway, Claimed, Reaches, Op
<1>2. DOMAIN seen[t] = Op(t).basis /\ seen[t] = [p \in DOMAIN seen[t] |-> disk[p]]
    BY DEF SeesNow, Observing
<1>3. /\ Record(t).op = at[t] /\ Record(t).definition = [op |-> at[t], contents |-> Nil]
      /\ Record(t).basis = seen[t] /\ Record(t).paths = Op(t).outs
      /\ Record(t).outs = [i \in DOMAIN Op(t).outs |-> disk[Op(t).outs[i]]]
    BY <1>1 DEF Record, RecordOver, Definition
<1>4. OutputsHold(Record(t))
    BY <1>3 DEF OutputsHold
<1>5. Record(t).basis = [p \in Op(t).basis |-> disk[p]]
    BY <1>2, <1>3
<1> QED
    BY <1>1, <1>3, <1>4, <1>5 DEF UpToDate

\* And what Files records of the contents it established.
LEMMA EstablishedUpToDate ==
    ASSUME NilIsNothing, Apart, Types, Stands, Orderly, NEW t \in Tasks, SeesNow(t), TaskStep(t),
           Establish(t), NEW k, k = at[t],
           NEW r, r = [Record(t) EXCEPT !.outs = <<Desired(t)>>]
    PROVE  UpToDate(t, k, r)'
<1>1. stage[t] = "held" /\ disk' = [disk EXCEPT ![Out(t)] = Desired(t)] /\ program' = program
    BY DEF Establish, Still
<1>2. /\ k \in DOMAIN program.ops[t] /\ Op(t) = program.ops[t][k]
      /\ Op(t).kind \in {"file", "patch"} /\ k <= at[t]
    BY <1>1 DEF Stands, Underway, Claimed, Reaches, Op, Types
<1>3. DOMAIN seen[t] = Op(t).basis /\ seen[t] = [p \in DOMAIN seen[t] |-> disk[p]]
    BY <1>1 DEF SeesNow, Observing
<1>4. /\ r.op = k /\ r.definition = [op |-> k, contents |-> Desired(t)]
      /\ r.basis = seen[t] /\ r.paths = Op(t).outs /\ r.outs = <<Desired(t)>>
    BY <1>2 DEF Record, RecordOver, Definition
<1>5. Op(t).outs \in Seq(Paths) /\ Len(Op(t).outs) = 1 /\ Out(t) \in Paths
    BY <1>2, PathsTyped DEF Out
<1>6. disk'[Op(t).outs[1]] = Desired(t)
    BY <1>1, <1>5 DEF Out, Types
<1>7. \A p \in Op(t).basis : disk'[p] = disk[p]
    BY <1>1, <1>2, Undisturbed
<1>8. r.basis = [p \in Op(t).basis |-> disk'[p]]
    BY <1>3, <1>4, <1>7
<1>9. Leaving(t, k, Desired(t), seen[t])
    BY <1>2, DesiredLeft
<1>10. /\ Op(t).kind = "file" => Desired(t) = FileLeaves(t, k)
       /\ Op(t).kind = "patch" => Applied(Desired(t))
    BY <1>2, <1>9 DEF Leaving
<1>11. \A i \in DOMAIN r.paths : disk'[r.paths[i]] = r.outs[i]
    BY <1>4, <1>5, <1>6
<1> QED
    BY <1>1, <1>2, <1>4, <1>6, <1>8, <1>10, <1>11 DEF UpToDate, OutputsHold, FileLeaves, Applied

\* How a step of t leaves it at work when nothing goes wrong: it proved not to
\* be current; it starts, and watches nothing; it recorded the operation and goes
\* on with the next; or it is at work on the same one.
LEMMA SteadyMoves ==
    ASSUME NilIsNothing, Apart, Types, Stands, Orderly, Attested, Unstarted, NEW t \in Tasks,
           SeesNow(t), TaskStep(t), ~dry, steady', stage'[t] \in Working
    PROVE  \/ /\ stage[t] = "basis" /\ DOMAIN seen[t] = program.watched[t]
              /\ watching'[t] = seen[t] /\ at'[t] = 1 /\ pending'[t] = <<>> /\ disk' = disk
           \/ ~Watches(t) /\ at'[t] = 1 /\ pending'[t] = <<>>
           \/ /\ stage[t] \in Claimed /\ at'[t] = at[t] + 1 /\ watching'[t] = watching[t]
              /\ \E r, k : k = at[t] /\ pending'[t] = Append(pending[t], r) /\ UpToDate(t, k, r)'
           \/ /\ stage[t] \in Working /\ at'[t] = at[t] /\ pending'[t] = pending[t]
              /\ watching'[t] = watching[t]
<1>1. ~Errs(t)
    BY DEF Errs, Disturbed
<1>2. GoesOn(t) => at'[t] = at[t] + 1
    BY DEF GoesOn, Types
<1>3. \A r : Records(t, r) => pending'[t] = Append(pending[t], r)
    BY DEF Records, Types
<1>4. CASE Start(t)
    BY <1>4 DEF Start, Types, Working, Underway, Claimed, Watches, Unstarted
<1>5. CASE GivenUp(t) \/ CallbackFails(t) \/ SettleDone(t) \/ ObserveWatched(t)
    BY <1>5 DEF GivenUp, CallbackFails, SettleDone, ObserveWatched, Types, Working,
       Underway, Claimed
<1>6. CASE BasisVerdict(t)
    BY <1>6 DEF BasisVerdict, Types, Working, Underway, Claimed, Unstarted, world
<1>7. CASE ClaimOutputs(t)
    BY <1>1, <1>7 DEF ClaimOutputs, Issuing, Working, Underway
<1>8. CASE Await(t) \/ Observe(t)
    BY <1>8 DEF Await, Observe, Working, Underway, Claimed
<1>9. CASE Derive(t)
    BY <1>1, <1>9 DEF Derive, Issuing, Working
<1>10. CASE Hold(t)
    BY <1>1, <1>10 DEF Hold, At, Working, Underway, Claimed
<1>11. CASE Spawn(t) \/ ChildEnds(t)
    BY <1>11 DEF Spawn, ChildEnds, At, Working, Underway, Claimed
<1>12. CASE SkipCurrent(t)
  <2>1. /\ Consulting(t) /\ IsCurrent(t) /\ GoesOn(t) /\ Records(t, Prior(t))
        /\ disk' = disk /\ program' = program /\ watching' = watching
    BY <1>12 DEF SkipCurrent, CarryForward, Still
  <2>2. stage[t] \in Claimed /\ at[t] \in DOMAIN program.ops[t]
    BY <2>1 DEF Consulting, At, Claimed, Stands, Underway
  <2>3. ASSUME NEW r, r = Prior(t), NEW k, k = at[t] PROVE UpToDate(t, k, r)'
    <3>1. UpToDate(t, k, r)
      BY <2>1, <2>3, PriorUpToDate
    <3> QED
      BY <2>1, <2>2, <2>3, <3>1, UpToDateStays
  <2> QED
    BY <1>2, <1>3, <2>1, <2>2, <2>3
<1>13. CASE Plan(t)
    BY <1>13 DEF Plan
<1>14. CASE Establish(t)
  <2> DEFINE rec == [Record(t) EXCEPT !.outs = <<Desired(t)>>]
  <2>1. stage[t] = "held" /\ Records(t, rec) /\ GoesOn(t) /\ UNCHANGED watching
    BY <1>14 DEF Establish
  <2>2. ASSUME NEW r, r = rec, NEW k, k = at[t] PROVE UpToDate(t, k, r)'
    BY <1>14, <2>2, EstablishedUpToDate
  <2> HIDE DEF rec
  <2> QED
    BY <1>2, <1>3, <2>1, <2>2 DEF Claimed
<1>15. CASE FileFails(t) \/ ChildFails(t)
    BY <1>1, <1>15 DEF FileFails, ChildFails
<1>16. CASE Verify(t)
  <2>1. /\ stage[t] = "verifying" /\ Records(t, Record(t)) /\ GoesOn(t) /\ UNCHANGED watching
        /\ disk' = disk /\ program' = program
    BY <1>1, <1>16 DEF Verify, Still
  <2>2. stage[t] \in Claimed /\ at[t] \in DOMAIN program.ops[t]
    BY <2>1 DEF Claimed, Stands, Underway
  <2>3. ASSUME NEW r, r = Record(t), NEW k, k = at[t] PROVE UpToDate(t, k, r)'
    <3>1. UpToDate(t, k, r)
      BY <2>1, <2>3, VerifiedUpToDate
    <3> QED
      BY <2>1, <2>2, <2>3, <3>1, UpToDateStays
  <2> QED
    BY <1>2, <1>3, <2>1, <2>2, <2>3
<1> QED
    BY <1>4, <1>5, <1>6, <1>7, <1>8, <1>9, <1>10, <1>11, <1>12, <1>13, <1>14, <1>15, <1>16
       DEF TaskStep

\* No step unsettles what a Task at work has recorded or watched.
LEMMA RecordedStays ==
    ASSUME Apart, Types, Stands, Orderly, NEW u \in Tasks, TaskStep(u),
           NEW t \in Tasks, stage[t] \in Working, RecordedSoFar(t)
    PROVE  /\ \A k \in 1 .. (at[t] - 1) : \A r : r = pending[t][k] => UpToDate(t, k, r)'
           /\ Watches(t) => watching[t] = [p \in program.watched[t] |-> disk'[p]]
<1>1. program' = program
    BY FrameStep DEF OthersStay
<1>2. stage[t] \notin {"waiting", "failed"}
    BY DEF Working, Underway, Claimed
<1>3. ASSUME NEW k \in 1 .. (at[t] - 1), NEW r, r = pending[t][k] PROVE UpToDate(t, k, r)'
  <2>1. k \in DOMAIN program.ops[t] /\ UpToDate(t, k, r)
    BY <1>3 DEF RecordedSoFar
  <2>2. k # at[t] /\ k <= at[t]
    BY DEF Types
  <2>3. \A p \in Range(program.ops[t][k].outs) \cup program.ops[t][k].basis : disk'[p] = disk[p]
    BY <1>2, <2>1, <2>2, Undisturbed
  <2> QED
    BY <1>1, <2>1, <2>3, UpToDateStays
<1>4. ASSUME Watches(t) PROVE watching[t] = [p \in program.watched[t] |-> disk'[p]]
  <2>1. watching[t] = [p \in program.watched[t] |-> disk[p]]
    BY <1>4 DEF RecordedSoFar
  <2>2. \A p \in program.watched[t] : disk'[p] = disk[p]
    BY <1>2, Undisturbed
  <2> QED
    BY <2>1, <2>2
<1> QED
    BY <1>3, <1>4

LEMMA RecordedSoFarStep ==
    ASSUME NilIsNothing, Apart, Types, Stands, Orderly, Attested, Unstarted, NEW t \in Tasks,
           SeesNow(t), RecordedSoFar(t), TaskStep(t), ~dry, steady'
    PROVE  RecordedSoFar(t)'
<1>1. program' = program /\ (Watches(t)' <=> Watches(t))
    BY FrameStep DEF OthersStay, Watches
<1> SUFFICES ASSUME stage'[t] \in Working
             PROVE  /\ Len(pending'[t]) = at'[t] - 1
                    /\ 1 .. (at'[t] - 1) \subseteq DOMAIN program.ops[t]
                    /\ \A k \in 1 .. (at'[t] - 1) : \A r : r = pending'[t][k] => UpToDate(t, k, r)'
                    /\ Watches(t) => watching'[t] = [p \in program.watched[t] |-> disk'[p]]
    BY <1>1 DEF RecordedSoFar
<1>2. pending[t] \in Seq(Range(pending[t])) /\ at[t] \in Nat \ {0}
    BY DEF Attested, AllAttest, Types
<1>3. CASE at'[t] = 1 /\ pending'[t] = <<>> /\ ~Watches(t)
    BY <1>3
<1>4. CASE /\ stage[t] = "basis" /\ DOMAIN seen[t] = program.watched[t]
           /\ watching'[t] = seen[t] /\ at'[t] = 1 /\ pending'[t] = <<>> /\ disk' = disk
  <2>1. seen[t] = [p \in program.watched[t] |-> disk'[p]]
    BY <1>4 DEF SeesNow, Observing
  <2> QED
    BY <1>4, <2>1
<1>5. ASSUME stage[t] \in Claimed, at'[t] = at[t] + 1, watching'[t] = watching[t],
             NEW x, NEW j, j = at[t], pending'[t] = Append(pending[t], x), UpToDate(t, j, x)'
      PROVE  /\ Len(pending'[t]) = at'[t] - 1
             /\ 1 .. (at'[t] - 1) \subseteq DOMAIN program.ops[t]
             /\ \A k \in 1 .. (at'[t] - 1) : \A r : r = pending'[t][k] => UpToDate(t, k, r)'
             /\ Watches(t) => watching'[t] = [p \in program.watched[t] |-> disk'[p]]
  <2>1. stage[t] \in Working
    BY <1>5 DEF Working, Underway
  <2>2. Len(pending[t]) = at[t] - 1
    BY <2>1 DEF RecordedSoFar
  <2>3. Len(pending'[t]) = at[t] /\ pending'[t][at[t]] = x
        /\ \A k \in 1 .. (at[t] - 1) : pending'[t][k] = pending[t][k]
    BY <1>2, <1>5, <2>2
  <2>4. at[t] \in DOMAIN program.ops[t] /\ DOMAIN program.ops[t] = 1 .. Len(program.ops[t])
        /\ Len(program.ops[t]) \in Nat
    BY <1>5, PathsTyped DEF Stands, Underway
  <2>5. 1 .. at[t] \subseteq DOMAIN program.ops[t]
    BY <1>2, <2>4
  <2>6. ASSUME NEW k \in 1 .. at[t], NEW r, r = pending'[t][k] PROVE UpToDate(t, k, r)'
    <3>1. CASE k = j
      BY <1>5, <2>3, <2>6, <3>1
    <3>2. CASE k # j
      <4>1. k \in 1 .. (at[t] - 1)
        BY <1>2, <1>5, <3>2
      <4> QED
        BY <2>1, <2>3, <2>6, <4>1, RecordedStays
    <3> QED
      BY <3>1, <3>2
  <2>7. at'[t] - 1 = at[t]
    BY <1>2, <1>5
  <2> QED
    BY <1>5, <2>1, <2>3, <2>5, <2>6, <2>7, RecordedStays
<1>6. CASE /\ stage[t] \in Working /\ at'[t] = at[t] /\ pending'[t] = pending[t]
           /\ watching'[t] = watching[t]
    BY <1>6, RecordedStays DEF RecordedSoFar
<1> QED
    BY <1>3, <1>4, <1>5, <1>6, SteadyMoves

\* A Task that settles Done leaves a manifest that proves it current.
LEMMA DoneStep ==
    ASSUME Types, Attested, Unstarted, NEW t \in Tasks, SeesNow(t), RecordedSoFar(t),
           TaskStep(t), stage'[t] = "done"
    PROVE  Whole(t)'
<1>1. BasisVerdict(t) \/ SettleDone(t)
  <2>1. ~(GoesOn(t) \/ Errs(t))
    BY Leaves
  <2> QED
    BY <2>1 DEF TaskStep, Start, GivenUp, ObserveWatched, CallbackFails, ClaimOutputs, Issuing,
       Await, Observe, Derive, Hold, At, SkipCurrent, Plan, Establish, FileFails, Spawn,
       ChildEnds, ChildFails, Verify, Types
<1>2. program' = program /\ disk' = disk
    BY <1>1 DEF BasisVerdict, SettleDone, world
<1>3. \A r : OutputsHold(r)' <=> OutputsHold(r)
    BY <1>2 DEF OutputsHold
<1>4. CASE BasisVerdict(t)
  <2>1. /\ store' = store /\ DOMAIN seen[t] = program.watched[t] /\ stage[t] = "basis"
        /\ store[t].basis = seen[t] /\ RecordedOutputsHold(t)
    BY <1>4 DEF BasisVerdict, world, Types
  <2>2. Watches(t) /\ seen[t] = [p \in program.watched[t] |-> disk[p]]
    BY <2>1 DEF Unstarted, SeesNow, Observing
  <2>3. RecordedOutputsHold(t)'
    BY <1>3, <2>1 DEF RecordedOutputsHold
  <2> QED
    BY <1>2, <2>1, <2>2, <2>3 DEF Whole, Watches
<1>5. CASE SettleDone(t)
  <2>1. /\ store'[t] = [ops |-> pending[t], basis |-> watching[t]]
        /\ stage[t] = "callback" /\ at[t] > Len(program.ops[t])
    BY <1>5 DEF SettleDone, Committed, Types
  <2>2. store'[t].ops = pending[t] /\ store'[t].basis = watching[t]
    BY <2>1
  <2>3. /\ Len(pending[t]) = at[t] - 1
        /\ \A k \in 1 .. (at[t] - 1) : UpToDate(t, k, pending[t][k])
        /\ Watches(t) => watching[t] = [p \in program.watched[t] |-> disk[p]]
    BY <2>1 DEF RecordedSoFar, Working
  <2>4. pending[t] \in Seq(Range(pending[t])) /\ at[t] \in Nat \ {0}
        /\ DOMAIN program.ops[t] = 1 .. Len(program.ops[t]) /\ Len(program.ops[t]) \in Nat
    BY PathsTyped DEF Attested, AllAttest, Types
  <2>5. ASSUME NEW r \in Range(pending[t]) PROVE OutputsHold(r)
    <3>1. PICK k \in 1 .. (at[t] - 1) : r = pending[t][k]
      BY <2>3, <2>4 DEF Range
    <3> QED
      BY <2>3, <3>1 DEF UpToDate
  <2>6. RecordedOutputsHold(t)'
    BY <1>3, <2>2, <2>5 DEF RecordedOutputsHold
  <2>7. ASSUME NEW k \in DOMAIN program.ops[t], NEW r, r = pending[t][k]
        PROVE  UpToDate(t, k, r)'
    <3>1. k \in 1 .. (at[t] - 1)
      BY <2>1, <2>4
    <3>2. UpToDate(t, k, r)
      BY <2>3, <2>7, <3>1
    <3> QED
      BY <1>2, <3>2, UpToDateStays
  <2>8. Len(pending[t]) >= Len(program.ops[t])
    BY <2>1, <2>3, <2>4
  <2> QED
    BY <1>2, <2>2, <2>3, <2>6, <2>7, <2>8 DEF Whole, Watches
<1> QED
    BY <1>1, <1>4, <1>5

-----------------------------------------------------------------------------
\* A step of another Task.

LEMMA OthersFollow ==
    ASSUME Apart, Types, Stands, Orderly, Attested, NEW u \in Tasks, TaskStep(u),
           NEW t \in Tasks \ {u}, Follows(t)
    PROVE  Follows(t)'
<1>1. /\ program' = program /\ stage'[t] = stage[t] /\ at'[t] = at[t] /\ seen'[t] = seen[t]
      /\ source'[t] = source[t] /\ pending'[t] = pending[t] /\ watching'[t] = watching[t]
      /\ store'[t] = store[t]
    BY FrameStep DEF OthersStay
<1>2. Op(t)' = Op(t) /\ Out(t)' = Out(t) /\ (Watches(t)' <=> Watches(t))
    BY <1>1 DEF Op, Out, Watches
<1>3. ASSUME stage[t] \in Underway
      PROVE  /\ \A p \in Op(t).basis : disk'[p] = disk[p]
             /\ Op(t).kind # "exec" => disk'[Out(t)] = disk[Out(t)]
  <2>1. at[t] \in DOMAIN program.ops[t] /\ stage[t] \notin {"waiting", "failed"}
    BY <1>3 DEF Stands, Underway, Claimed
  <2>2. Op(t).kind # "exec" => Out(t) \in Range(Op(t).outs)
    BY <2>1, PathsTyped DEF Op, Out
  <2> QED
    BY <2>1, <2>2, Undisturbed DEF Op
<1>4. SeesNow(t)'
  <2>1. ASSUME stage[t] \in Observing
        PROVE  seen[t] = [p \in DOMAIN seen[t] |-> disk'[p]]
    <3>1. seen[t] = [p \in DOMAIN seen[t] |-> disk[p]]
      BY <2>1 DEF Follows, SeesNow
    <3>2. \A p \in DOMAIN seen[t] : disk'[p] = disk[p]
      <4>1. CASE stage[t] = "basis"
        BY <4>1, Undisturbed DEF Follows, SeesNow, Observing
      <4>2. CASE stage[t] # "basis"
        BY <1>3, <2>1, <4>2 DEF Follows, SeesNow, Observing, Underway, Claimed
      <4> QED
        BY <4>1, <4>2
    <3> QED
      BY <3>1, <3>2
  <2> QED
    BY <1>1, <1>2, <2>1 DEF Follows, SeesNow
<1>5. RecordedSoFar(t)'
    BY <1>1, <1>2, RecordedStays DEF Follows, RecordedSoFar
<1>6. ReadNow(t)'
    BY <1>1, <1>2, <1>3 DEF Follows, ReadNow, Underway, Claimed
<1>7. stage'[t] = "done" => Whole(t)'
  <2> SUFFICES ASSUME stage[t] = "done" PROVE Whole(t)'
    BY <1>1
  <2>1. Whole(t)
    BY DEF Follows
  <2> QED
    BY <1>1, <2>1, Undisturbed, WholeStays
<1> QED
    BY <1>4, <1>5, <1>6, <1>7 DEF Follows

\* A step of a Task in a real Run in which nothing has gone wrong.
LEMMA FollowsStep ==
    ASSUME NilIsNothing, Apart, Types, Stands, QInv, \A t \in Tasks : Follows(t),
           NEW u \in Tasks, TaskStep(u), ~dry, steady'
    PROVE  \A t \in Tasks : Follows(t)'
<1>1. Follows(u)'
  <2>1. SeesNow(u) /\ RecordedSoFar(u) /\ ReadNow(u)
    BY DEF Follows
  <2> QED
    BY <2>1, SeesNowStep, RecordedSoFarStep, ReadNowStep, DoneStep DEF QInv, Follows
<1>2. \A t \in Tasks \ {u} : Follows(t)'
    BY OthersFollow DEF QInv
<1> QED
    BY <1>1, <1>2

-----------------------------------------------------------------------------
\* A Run over what such a one left Done.

\* Every operation that looks at its record finds it current.
LEMMA FoundCurrent ==
    ASSUME Apart, Types, Stands, Attested, NEW t \in Tasks, Follows(t), Whole(t), ~Watches(t),
           Consulting(t)
    PROVE  IsCurrent(t)
<1> DEFINE k == at[t]
           r == Prior(t)
<1>1. stage[t] \in Claimed /\ stage[t] \in Observing /\ stage[t] \in Working
    BY DEF Consulting, At, Claimed, Observing, Working, Underway
<1>2. k \in DOMAIN program.ops[t] /\ Op(t) = program.ops[t][k] /\ Op(t).kind \in Reaches(stage[t])
    BY <1>1 DEF Stands, Underway, Op
<1>3. /\ Op(t).outs \in Seq(Paths) /\ Op(t).kind \in {"file", "exec", "patch"}
      /\ DOMAIN program.ops[t] = 1 .. Len(program.ops[t]) /\ Len(program.ops[t]) \in Nat
    BY <1>2, PathsTyped
<1>4. Op(t).outs # <<>>
  <2>1. \A j \in DOMAIN program.ops[t] : program.ops[t][j].outs # <<>>
    BY DEF Apart, Types
  <2> QED
    BY <1>2, <2>1
<1>5. Len(pending[t]) = k - 1 /\ k \in Nat \ {0} /\ Len(store[t].ops) \in Nat
    BY <1>1 DEF Follows, RecordedSoFar, Types, Attested, AllAttest
<1>6. HasPrior(t) /\ r = store[t].ops[k]
  <2>1. k <= Len(store[t].ops)
    BY <1>2, <1>3, <1>5 DEF Whole
  <2> QED
    BY <1>5, <2>1 DEF HasPrior, Prior
<1>7. UpToDate(t, k, r)
    BY <1>2, <1>6 DEF Whole
<1>8. r \in Range(store[t].ops)
    BY <1>6, PriorAttests
<1> HIDE DEF r
<1>9. r.basis = seen[t]
  <2>1. DOMAIN seen[t] = Op(t).basis /\ seen[t] = [p \in DOMAIN seen[t] |-> disk[p]]
    BY <1>1 DEF Consulting, Observed, Follows, SeesNow
  <2> QED
    BY <1>2, <1>7, <2>1 DEF UpToDate
<1>10. r.definition = Definition(t)
  <2>1. CASE Op(t).kind = "exec"
    BY <1>2, <1>7, <2>1 DEF UpToDate, Definition
  <2>2. CASE Op(t).kind = "file"
    BY <1>2, <1>7, <2>2 DEF UpToDate, Definition, Desired
  <2>3. CASE Op(t).kind = "patch"
    <3>1. source[t] = disk[Out(t)]
      BY <2>3 DEF Consulting, At, Follows, ReadNow
    <3>2. Applied(source[t]) /\ r.op = k /\ r.outs = <<source[t]>>
      BY <1>2, <1>7, <2>3, <3>1 DEF UpToDate, Out
    <3>3. Desired(t) = source[t]
      BY <1>8, <2>3, <3>2 DEF Desired, LastLeft
    <3> QED
      BY <1>2, <1>7, <2>3, <3>1, <3>3 DEF UpToDate, Definition, Out
  <2> QED
    BY <1>3, <2>1, <2>2, <2>3
<1> QED
    BY <1>2, <1>4, <1>6, <1>7, <1>9, <1>10 DEF IsCurrent, UpToDate, r

\* Nothing moves between Runs; and what a step of a Task does to the marks.
LEMMA TaskMarks ==
    ASSUME Types, Stands, NEW t \in Tasks, TaskStep(t)
    PROVE  phase = "run" /\ (UNCHANGED <<steady, calm>> \/ Disturbed)
<1>1. phase = "run"
    BY DEF Stands, TaskStep, Start, GivenUp, ObserveWatched, BasisVerdict, SettleDone,
       CallbackFails, ClaimOutputs, Issuing, Await, Observe, Derive, Hold, At, SkipCurrent,
       Plan, Consulting, Establish, FileFails, Spawn, ChildEnds, ChildFails, Verify, Types
<1>2. Errs(t) => Disturbed
    BY DEF Errs
<1>3. CASE \/ Start(t) \/ GivenUp(t) \/ ObserveWatched(t) \/ BasisVerdict(t) \/ CallbackFails(t)
           \/ SettleDone(t) \/ Await(t) \/ Observe(t)
    BY <1>1, <1>3 DEF Start, GivenUp, ObserveWatched, BasisVerdict, CallbackFails, SettleDone,
       Await, Observe, world
<1>4. CASE ClaimOutputs(t) \/ Derive(t) \/ Hold(t) \/ SkipCurrent(t) \/ Plan(t)
    BY <1>1, <1>2, <1>4 DEF ClaimOutputs, Derive, Hold, SkipCurrent, Plan
<1>5. CASE \/ Establish(t) \/ FileFails(t) \/ Spawn(t) \/ ChildEnds(t) \/ ChildFails(t)
           \/ Verify(t)
    BY <1>1, <1>2, <1>5 DEF Establish, FileFails, Spawn, ChildEnds, ChildFails, Verify
<1> QED
    BY <1>3, <1>4, <1>5 DEF TaskStep

\* Nothing is written, no child is started, and no watched Task is put to work.
LEMMA CalmStep ==
    ASSUME Apart, Types, Stands, QInv, NEW t \in Tasks, TaskStep(t), calm, calm'
    PROVE  /\ disk' = disk /\ stage'[t] \notin {"child", "verifying"}
           /\ ~dry /\ Watches(t) => stage'[t] \notin Working
<1>1. Attested /\ stage[t] \notin {"child", "verifying"}
    BY DEF QInv, Resting
<1>2. ~dry => Follows(t) /\ Whole(t) /\ (Watches(t) => stage[t] \notin Working)
    BY TaskMarks DEF QInv, Real, CalmIsSteady, Resting
<1>3. ~Errs(t)
    BY DEF Errs, Disturbed
<1>4. ~dry /\ Consulting(t) => IsCurrent(t)
  <2>1. Consulting(t) => stage[t] \in Working
    BY DEF Consulting, At, Working, Underway, Claimed
  <2> QED
    BY <1>1, <1>2, <2>1, FoundCurrent
<1>5. ~(Establish(t) \/ FileFails(t) \/ Spawn(t))
    BY <1>4 DEF Establish, FileFails, Spawn, Consulting
<1>6. ~(ChildEnds(t) \/ ChildFails(t) \/ Verify(t))
    BY <1>1 DEF ChildEnds, ChildFails, Verify
<1>7. GoesOn(t) => stage'[t] = "callback"
    BY DEF GoesOn, Types
<1>8. disk' = disk
    BY <1>5, <1>6 DEF TaskStep, Start, GivenUp, ObserveWatched, BasisVerdict, SettleDone,
       CallbackFails, ClaimOutputs, Await, Observe, Derive, Hold, SkipCurrent, Plan, world
<1>9. stage'[t] \notin {"child", "verifying"}
    BY <1>1, <1>3, <1>5, <1>6, <1>7 DEF TaskStep, Start, GivenUp, ObserveWatched, BasisVerdict,
       SettleDone, CallbackFails, ClaimOutputs, Await, Observe, Derive, Hold, SkipCurrent, Plan, Types
<1>10. ASSUME ~dry, Watches(t) PROVE stage'[t] \notin Working
  <2>1. stage[t] \notin Working
    BY <1>2, <1>10
  <2>2. Start(t) \/ GivenUp(t) \/ ObserveWatched(t) \/ BasisVerdict(t)
    BY <1>5, <1>6, <2>1 DEF TaskStep, SettleDone, CallbackFails, ClaimOutputs, Issuing, Await,
       Observe, Derive, Hold, At, SkipCurrent, Plan, Consulting, Working, Underway, Claimed
  <2>3. CASE Start(t) \/ GivenUp(t) \/ ObserveWatched(t)
    BY <1>10, <2>1, <2>3 DEF Start, GivenUp, ObserveWatched, Watches, Working, Underway, Claimed, Types
  <2>4. CASE BasisVerdict(t)
    <3>1. seen[t] = [p \in program.watched[t] |-> disk[p]]
      BY <1>2, <1>10, <2>4 DEF BasisVerdict, Follows, SeesNow, Observing
    <3>2. store[t].basis = seen[t] /\ RecordedOutputsHold(t)
      BY <1>2, <1>10, <3>1 DEF Whole
    <3> QED
      BY <2>4, <3>2 DEF BasisVerdict, Working, Underway, Claimed, Types
  <2> QED
    BY <2>2, <2>3, <2>4
<1> QED
    BY <1>8, <1>9, <1>10

\* Only the Task that settles changes the manifest, and a Run never undoes it.
LEMMA WholeStep ==
    ASSUME Apart, Types, Stands, QInv, NEW u \in Tasks, TaskStep(u), calm, calm', ~dry
    PROVE  \A t \in Tasks : Whole(t)'
<1>1. /\ program' = program /\ disk' = disk /\ \A t \in Tasks \ {u} : store'[t] = store[t]
    BY FrameStep, CalmStep DEF OthersStay
<1>2. Attested /\ Unstarted /\ (\A t \in Tasks : Whole(t)) /\ Follows(u)
    BY TaskMarks DEF QInv, Resting, CalmIsSteady, Real
<1>3. \A t \in Tasks : store'[t] = store[t] => Whole(t)'
    BY <1>1, <1>2, WholeStays
<1>4. SettleDone(u) => Whole(u)'
  <2>1. SettleDone(u) => stage'[u] = "done"
    BY DEF SettleDone, Types
  <2> QED
    BY <1>2, <2>1, DoneStep DEF Follows
<1>5. Whole(u)'
    BY <1>3, <1>4, RecordsOneOf
<1> QED
    BY <1>1, <1>3, <1>5

LEMMA QuietTaskStep ==
    ASSUME NilIsNothing, Apart, Types, Stands, QInv, NEW u \in Tasks, TaskStep(u)
    PROVE  QInv'
<1>1. /\ program' = program /\ phase' = phase /\ dry' = dry
      /\ \A t \in Tasks \ {u} : stage'[t] = stage[t]
    BY FrameStep DEF OthersStay
<1>2. phase = "run" /\ (UNCHANGED <<steady, calm>> \/ Disturbed)
    BY TaskMarks
<1>3. Unstarted' /\ Idle' /\ Orderly' /\ Attested'
    BY UnstartedStep, IdleStep, OrderlyStep, AttestedStep DEF QInv
<1>4. CalmIsSteady'
    BY <1>1, <1>2 DEF QInv, CalmIsSteady, Disturbed
<1>5. Real' => \A t \in Tasks : Follows(t)'
  <2> SUFFICES ASSUME Real' PROVE \A t \in Tasks : Follows(t)'
    OBVIOUS
  <2>1. ~dry /\ steady' /\ Real
    BY <1>1, <1>2 DEF Real, Disturbed
  <2> QED
    BY <2>1, FollowsStep DEF QInv
<1>6. ASSUME calm', ~dry'
      PROVE  \A t \in Tasks : Whole(t)' /\ (Watches(t)' => stage'[t] \notin Working)
  <2>1. calm /\ ~dry
    BY <1>1, <1>2, <1>6 DEF Disturbed
  <2>2. \A t \in Tasks : Watches(t)' <=> Watches(t)
    BY <1>1 DEF Watches
  <2>3. \A t \in Tasks : Watches(t) => stage[t] \notin Working
    BY <2>1 DEF QInv, Resting
  <2>4. Watches(u) => stage'[u] \notin Working
    BY <1>6, <2>1, CalmStep
  <2> QED
    BY <1>1, <1>6, <2>1, <2>2, <2>3, <2>4, WholeStep
<1>7. ASSUME calm' \/ dry' PROVE \A t \in Tasks : stage'[t] \notin {"child", "verifying"}
  <2>1. (calm /\ calm') \/ dry
    BY <1>1, <1>2, <1>7 DEF Disturbed
  <2>2. \A t \in Tasks : stage[t] \notin {"child", "verifying"}
    BY <2>1 DEF QInv, Resting
  <2>3. stage'[u] \notin {"child", "verifying"}
    <3>1. CASE calm /\ calm'
      BY <3>1, CalmStep
    <3>2. CASE dry
      <4>1. GoesOn(u) \/ Errs(u) => stage'[u] \notin {"child", "verifying"}
        BY Leaves
      <4> QED
        BY <2>2, <3>2, <4>1 DEF TaskStep, Start, GivenUp, ObserveWatched, BasisVerdict,
           SettleDone, CallbackFails, ClaimOutputs, Await, Observe, Derive, Hold, SkipCurrent,
           Plan, Establish, FileFails, Spawn, ChildEnds, ChildFails, Verify, Types
    <3> QED
      BY <2>1, <3>1, <3>2
  <2> QED
    BY <1>1, <2>2, <2>3
<1> QED
    BY <1>3, <1>4, <1>5, <1>6, <1>7 DEF QInv, Resting

\* Between Runs, and when a Run begins or is over.
LEMMA QuietOtherStep ==
    ASSUME Types, Types', Stands, QInv,
           Begin \/ Finish \/ Save \/ ProcessEnds \/ Edit \/ UNCHANGED operations
    PROVE  QInv'
<1>1. program' = program
    BY DEF Begin, Finish, Save, ProcessEnds, Edit, operations, world
<1>2. /\ \A u, rs : AllAttest(u, rs)' <=> AllAttest(u, rs)
      /\ \A u : Watches(u)' <=> Watches(u)
    BY <1>1 DEF AllAttest, Attests, Watches
<1>3. CASE Finish \/ ProcessEnds
  <2>1. /\ FreshRun /\ phase' = "runs" /\ dry' = FALSE /\ disk' = disk
        /\ store' \in {store, saved} /\ saved' \in {store, saved}
    BY <1>3 DEF Finish, ProcessEnds
  <2>2. \A t : AllAttest(t, <<>>)
    BY DEF AllAttest, Range
  <2>3. Unstarted' /\ Idle' /\ Orderly'
    BY <2>1 DEF FreshRun, EachTask, Unstarted, Idle, Orderly, Nothing
  <2>4. Attested'
    BY <1>2, <2>1, <2>2 DEF FreshRun, EachTask, QInv, Attested
  <2>5. ASSUME calm'
        PROVE  steady' /\ \A t \in Tasks : Whole(t)'
    <3>1. /\ phase = "run" /\ steady /\ ~dry /\ steady' = steady /\ store' = store
          /\ \A t \in Tasks : stage[t] = "done"
      BY <1>3, <2>5 DEF Finish, ProcessEnds, Disturbed
    <3>2. \A t \in Tasks : Whole(t)
      BY <3>1 DEF QInv, Real, Follows
    <3> QED
      BY <1>1, <2>1, <3>1, <3>2, WholeStays DEF QInv
  <2>6. Resting'
    BY <2>1, <2>5 DEF Resting, FreshRun, EachTask, Working, Underway, Claimed
  <2>7. CalmIsSteady' /\ ~Real'
    BY <2>1, <2>5 DEF CalmIsSteady, Real
  <2> QED
    BY <2>3, <2>4, <2>6, <2>7 DEF QInv
<1>4. CASE Begin \/ Save \/ Edit \/ UNCHANGED operations
  <2>1. /\ UNCHANGED <<store, stage, at, pending, watching, seen, source>>
        /\ saved' \in {store, saved}
    BY <1>4 DEF Begin, Save, Edit, operations, world, run
  <2>2. Unstarted' /\ Idle' /\ Orderly'
    BY <1>1, <1>2, <2>1 DEF QInv, Unstarted, Idle, Orderly, Nothing
  <2>3. Attested'
    BY <1>2, <2>1 DEF QInv, Attested
  <2>4. CASE Edit
    <3>1. ~calm' /\ ~steady' /\ UNCHANGED <<phase, dry>>
      BY <2>4 DEF Edit, Disturbed
    <3>2. CalmIsSteady' /\ Resting' /\ ~Real'
      BY <2>1, <3>1 DEF QInv, CalmIsSteady, Resting, Real
    <3> QED
      BY <2>2, <2>3, <3>2 DEF QInv
  <2>5. CASE Begin \/ Save \/ UNCHANGED operations
    <3>1. calm' = calm /\ disk' = disk
      BY <2>5 DEF Begin, Save, operations, world
    <3>2. ASSUME calm', ~dry'
          PROVE  \A t \in Tasks : Whole(t)' /\ (Watches(t)' => stage'[t] \notin Working)
      <4>1. calm /\ ~dry
        <5>1. phase = "runs" \/ dry' = dry
          BY <2>5 DEF Begin, Save, operations, world
        <5> QED
          BY <3>1, <3>2, <5>1 DEF QInv, CalmIsSteady
      <4> QED
        BY <1>1, <1>2, <2>1, <3>1, <4>1, WholeStays DEF QInv, Resting
    <3>3. CASE Begin
      <4>1. /\ \A t \in Tasks : stage'[t] = "waiting"
            /\ phase' = "run" /\ steady'
        BY <2>1, <3>3 DEF Begin, Stands
      <4>2. CalmIsSteady' /\ \A t \in Tasks : Follows(t)'
        BY <4>1 DEF CalmIsSteady, Follows, SeesNow, Observing, RecordedSoFar, Working, Underway,
           Claimed, ReadNow
      <4> QED
        BY <2>2, <2>3, <3>2, <4>1, <4>2 DEF QInv, Resting
    <3>4. CASE Save \/ UNCHANGED operations
      <4>1. UNCHANGED <<phase, dry, steady>>
        BY <3>4 DEF Save, operations, world
      <4>2. \A t \in Tasks : Op(t)' = Op(t) /\ Out(t)' = Out(t)
        BY <1>1, <2>1 DEF Op, Out
      <4>3. /\ \A r : OutputsHold(r)' <=> OutputsHold(r)
            /\ \A t, k, r : UpToDate(t, k, r)' <=> UpToDate(t, k, r)
        BY <1>1, <3>1 DEF OutputsHold, UpToDate, FileLeaves, Applied
      <4>4. ASSUME NEW t \in Tasks, Follows(t) PROVE Follows(t)'
        <5>1. SeesNow(t)' /\ ReadNow(t)'
          BY <1>1, <2>1, <3>1, <4>2, <4>4 DEF Follows, SeesNow, ReadNow
        <5>2. RecordedSoFar(t)'
          BY <1>1, <1>2, <2>1, <3>1, <4>3, <4>4 DEF Follows, RecordedSoFar
        <5>3. stage'[t] = "done" => Whole(t)'
          BY <1>1, <2>1, <3>1, <4>4, WholeStays DEF QInv, Follows
        <5> QED
          BY <5>1, <5>2, <5>3 DEF Follows
      <4>5. Real' => \A t \in Tasks : Follows(t)'
        BY <4>1, <4>4 DEF QInv, Real
      <4>6. CalmIsSteady'
        BY <3>1, <4>1 DEF QInv, CalmIsSteady
      <4>7. calm' \/ dry' => \A t \in Tasks : stage'[t] \notin {"child", "verifying"}
        BY <2>1, <3>1, <4>1 DEF QInv, Resting
      <4> QED
        BY <2>2, <2>3, <3>2, <4>5, <4>6, <4>7 DEF QInv, Resting
    <3> QED
      BY <2>5, <3>3, <3>4
  <2> QED
    BY <1>4, <2>4, <2>5
<1> QED
    BY <1>3, <1>4

LEMMA InitQInv == OperationsInit => QInv
<1> SUFFICES ASSUME OperationsInit PROVE QInv
    OBVIOUS
<1>1. \A t : AllAttest(t, <<>>)
    BY DEF AllAttest, Range
<1>2. Attested
    BY <1>1 DEF OperationsInit, EachTask, NoRecord, Attested
<1>3. Unstarted /\ Idle /\ Orderly
    BY DEF OperationsInit, EachTask, Unstarted, Idle, Orderly
<1>4. CalmIsSteady /\ ~Real /\ Resting
    BY DEF OperationsInit, CalmIsSteady, Real, Resting
<1> QED
    BY <1>2, <1>3, <1>4 DEF QInv

LEMMA QInvInvariant == ASSUME NilIsNothing, Apart PROVE OperationsSpec => [](OperationsInv /\ QInv)
<1>1. OperationsInv /\ QInv /\ [OperationsNext]_operations => QInv'
  <2> SUFFICES ASSUME OperationsInv, QInv, [OperationsNext]_operations PROVE QInv'
    OBVIOUS
  <2>1. Types /\ Stands /\ Types'
    BY IInvStep DEF OperationsInv
  <2> QED
    BY <2>1, QuietTaskStep, QuietOtherStep DEF OperationsNext
<1> QED
    BY <1>1, InitIInv, InitQInv, IInvStep, PTL DEF OperationsSpec

\* A Run over what the last one left Done, with nothing touched in between or
\* since, writes nothing and starts no child (fileOperationCurrent,
\* execOperationCurrent, basisIsCurrent, desiredContents), whatever operations,
\* Tasks and order the program has, provided each operation makes something, no
\* two make the same path, and what one makes is observed or watched only after
\* it, in its own callback or the declared order.
THEOREM SecondRunDoesNothing ==
    ASSUME NilIsNothing, Apart
    PROVE  OperationsSpec => SecondRunQuiet
<1> DEFINE Quiet == phase = "run" /\ calm /\ calm' =>
                       disk' = disk /\ \A t \in Tasks : stage'[t] # "child"
<1>1. ASSUME OperationsInv, QInv, [OperationsNext]_operations PROVE Quiet
  <2> SUFFICES ASSUME phase = "run", calm, calm'
               PROVE  disk' = disk /\ \A t \in Tasks : stage'[t] # "child"
    OBVIOUS
  <2>1. Types /\ Stands /\ \A t \in Tasks : stage[t] # "child"
    BY <1>1 DEF OperationsInv, QInv, Resting
  <2>2. ASSUME NEW u \in Tasks, TaskStep(u)
        PROVE  disk' = disk /\ \A t \in Tasks : stage'[t] # "child"
    BY <1>1, <2>1, <2>2, CalmStep, FrameStep DEF OthersStay
  <2>3. CASE Finish
    BY <2>3 DEF Finish, FreshRun, EachTask
  <2>4. ~Edit /\ ~ProcessEnds /\ ~Begin
    BY DEF Edit, ProcessEnds, Disturbed, Begin
  <2>5. CASE Save \/ UNCHANGED operations
    BY <2>1, <2>5 DEF Save, operations, world, run
  <2> QED
    BY <1>1, <2>2, <2>3, <2>4, <2>5 DEF OperationsNext
<1>2. OperationsInv /\ QInv /\ [OperationsNext]_operations => [Quiet]_operations
    BY <1>1
<1> QED
    BY <1>2, QInvInvariant, PTL DEF OperationsSpec, SecondRunQuiet
===============================================================================
