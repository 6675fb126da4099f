---------------------------- MODULE CloudVersion ----------------------------
(***************************************************************************)
(* The versions S3 keeps of one object, and what CloudVersionService and   *)
(* the writers of the object do to them.                                   *)
(*                                                                         *)
(* Versions are numbered in the order S3 creates them; the current version *)
(* (IsLatest) is the newest one present.  The service reads a listing,     *)
(* decides, and then sends one DeleteObject per version, so that writes,   *)
(* cleanups, restores, deletions and purges of the same object interleave  *)
(* between any two S3 calls, and each of them may stop half way.           *)
(***************************************************************************)
EXTENDS Integers, FiniteSets

CONSTANTS Tasks,            \* operations on the object in flight at a time
          MaxOldVersions,   \* old versions a cleanup keeps
          PageSize,         \* MaxKeys of the listing of a purge
          MaxVersions       \* bound: versions ever created

ASSUME VersionAssumption ==
    /\ MaxOldVersions \in Nat
    /\ PageSize \in Nat \ {0}
    /\ MaxVersions \in Nat

VARIABLES versions,    \* versions present in the bucket
          created,     \* number of versions created so far
          taskPc,      \* per operation: the S3 call it is at
          todo,        \* per operation: versions left to delete
          target,      \* per operation: version restored, deleted or written,
                       \* or the marker below which a purge lists next
          \* history of the run
          dropped,     \* versions removed by DeleteVersion
          purged,      \* versions removed by a purge
          swept,       \* newest version whose own cleanup ran to its end
          purgedUpTo   \* a completed purge began after this many versions

versionVars == <<versions, created, taskPc, todo, target,
                 dropped, purged, swept, purgedUpTo>>

history == <<dropped, purged, swept, purgedUpTo>>

Ever == 1..created

IsCurrent(v) == v \in versions /\ \A w \in versions : w <= v

Newest(v, S) == v \in S /\ \A w \in S : w <= v

Newer(v, S) == {w \in S : w > v}

TaskPcs == {"idle", "list", "sweep", "head", "copy", "drop",
            "purgeList", "purge"}

\* Every version anyone refers to has been created.
VersionTypeOK ==
    /\ versions \subseteq Ever
    /\ created \in 0..MaxVersions
    /\ taskPc \in [Tasks -> TaskPcs]
    /\ todo \in [Tasks -> SUBSET Ever]
    /\ target \in [Tasks -> 0..created]
    /\ dropped \subseteq Ever /\ purged \subseteq Ever
    /\ swept \in 0..created /\ purgedUpTo \in 0..created

VersionInit ==
    /\ versions = {}
    /\ created = 0
    /\ taskPc = [t \in Tasks |-> "idle"]
    /\ todo = [t \in Tasks |-> {}]
    /\ target = [t \in Tasks |-> 0]
    /\ dropped = {} /\ purged = {}
    /\ swept = 0 /\ purgedUpTo = 0

-----------------------------------------------------------------------------
TaskAt(t, pc) == taskPc[t] = pc

Move(t, pc, work, v) ==
    /\ taskPc' = [taskPc EXCEPT ![t] = pc]
    /\ todo' = [todo EXCEPT ![t] = work]
    /\ target' = [target EXCEPT ![t] = v]

FinishTask(t) == Move(t, "idle", {}, 0)

\* S3 adds a version; the writer goes on to CleanupOldVersions.
AddVersion(t) ==
    /\ created < MaxVersions
    /\ created' = created + 1
    /\ versions' = versions \cup {created + 1}
    /\ Move(t, "list", {}, created + 1)
    /\ UNCHANGED history

\* An upload completes or a document is saved.
WriteVersion(t) == TaskAt(t, "idle") /\ AddVersion(t)

-----------------------------------------------------------------------------
(* CleanupOldVersions                                                      *)

Old == {v \in versions : ~IsCurrent(v)}

\* Mutant: the current version is counted, and may be deleted, as an old one.
ExcessOfAll ==
    {v \in versions : Cardinality(Newer(v, versions)) >= MaxOldVersions}

\* Mutant: one old version too many is kept.
ExcessOffByOne ==
    {v \in Old : Cardinality(Newer(v, Old)) >= MaxOldVersions + 1}

\* oldVersions.slice(maxVersions): all but the newest MaxOldVersions.
Excess == {v \in Old : Cardinality(Newer(v, Old)) >= MaxOldVersions}

EndSweep(t) ==
    /\ FinishTask(t)
    /\ swept' = IF target[t] > swept THEN target[t] ELSE swept
    /\ UNCHANGED <<dropped, purged, purgedUpTo>>

SweepList(t) ==
    /\ TaskAt(t, "list")
    /\ \/ Excess = {} /\ EndSweep(t)
       \/ Excess # {} /\ Move(t, "sweep", Excess, target[t]) /\ UNCHANGED history
    /\ UNCHANGED <<versions, created>>

SweepDelete(t) ==
    /\ TaskAt(t, "sweep")
    /\ \E v \in todo[t] :
          /\ Newest(v, todo[t])
          /\ versions' = versions \ {v}
          /\ \/ todo[t] = {v} /\ EndSweep(t)
             \/ /\ todo[t] # {v}
                /\ Move(t, "sweep", todo[t] \ {v}, target[t])
                /\ UNCHANGED history
    /\ UNCHANGED created

-----------------------------------------------------------------------------
(* RestoreVersion: the listing, a HEAD of the version, a copy of it over   *)
(* the object.  S3 refuses the last two once the version is gone.          *)

RestoreCheck(t, v) ==
    /\ TaskAt(t, "idle")
    /\ v \in Old
    /\ Move(t, "head", {}, v)
    /\ UNCHANGED <<versions, created, history>>

RestoreHead(t) ==
    /\ TaskAt(t, "head")
    /\ \/ target[t] \in versions /\ Move(t, "copy", {}, target[t])
       \/ target[t] \notin versions /\ FinishTask(t)
    /\ UNCHANGED <<versions, created, history>>

RestoreCopy(t) ==
    /\ TaskAt(t, "copy")
    /\ \/ target[t] \in versions /\ AddVersion(t)
       \/ /\ target[t] \notin versions
          /\ FinishTask(t)
          /\ UNCHANGED <<versions, created, history>>

-----------------------------------------------------------------------------
(* DeleteVersion                                                           *)

\* Mutant: IsLatest is not looked at.
DropCheckAny(t, v) ==
    /\ TaskAt(t, "idle")
    /\ v \in versions
    /\ Move(t, "drop", {v}, v)
    /\ UNCHANGED <<versions, created, history>>

DropCheck(t, v) ==
    /\ TaskAt(t, "idle")
    /\ v \in Old
    /\ Move(t, "drop", {v}, v)
    /\ UNCHANGED <<versions, created, history>>

Drop(t) ==
    /\ TaskAt(t, "drop")
    /\ versions' = versions \ todo[t]
    /\ dropped' = dropped \cup todo[t]
    /\ FinishTask(t)
    /\ UNCHANGED <<created, purged, swept, purgedUpTo>>

-----------------------------------------------------------------------------
(* PermanentlyDeleteAllVersions.  todo is the page of the listing that is  *)
(* being deleted, target the newest version there was when the first page  *)
(* was read: later pages (NextVersionIdMarker) only go down from there.    *)
(* The end of the listing is noticed by reading one more, empty page.      *)

Page(top) ==
    LET below == {v \in versions : v <= top}
    IN  {v \in below : Cardinality(Newer(v, below)) < PageSize}

BeginPurge(t) ==
    /\ TaskAt(t, "idle")
    /\ \/ /\ versions # {}
          /\ Move(t, "purge", Page(created), created)
          /\ UNCHANGED purgedUpTo
       \/ /\ versions = {}                     \* over before it began
          /\ purgedUpTo' = created
          /\ UNCHANGED <<taskPc, todo, target>>
    /\ UNCHANGED <<versions, created, dropped, purged, swept>>

PurgeEnd(t) ==
    /\ FinishTask(t)
    /\ purgedUpTo' = IF target[t] > purgedUpTo THEN target[t] ELSE purgedUpTo
    /\ UNCHANGED <<dropped, purged, swept>>

PurgeList(t) ==
    /\ TaskAt(t, "purgeList")
    /\ \/ (\A v \in versions : v > target[t]) /\ PurgeEnd(t)
       \/ /\ \E v \in versions : v <= target[t]
          /\ Move(t, "purge", Page(target[t]), target[t])
          /\ UNCHANGED history
    /\ UNCHANGED <<versions, created>>

\* Mutant: only the first page is emptied.
PurgeDeleteFirstPage(t) ==
    /\ TaskAt(t, "purge")
    /\ \E v \in todo[t] :
          /\ Newest(v, todo[t])
          /\ versions' = versions \ {v}
          /\ purged' = purged \cup {v}
          /\ \/ /\ todo[t] # {v}
                /\ Move(t, "purge", todo[t] \ {v}, target[t])
                /\ UNCHANGED purgedUpTo
             \/ /\ todo[t] = {v}
                /\ FinishTask(t)
                /\ purgedUpTo' = IF target[t] > purgedUpTo THEN target[t] ELSE purgedUpTo
    /\ UNCHANGED <<created, dropped, swept>>

PurgeDelete(t) ==
    /\ TaskAt(t, "purge")
    /\ \E v \in todo[t] :
          /\ Newest(v, todo[t])
          /\ versions' = versions \ {v}
          /\ purged' = purged \cup {v}
          /\ \/ todo[t] # {v} /\ Move(t, "purge", todo[t] \ {v}, target[t])
             \/ todo[t] = {v} /\ Move(t, "purgeList", {}, target[t])
    /\ UNCHANGED <<created, dropped, swept, purgedUpTo>>

-----------------------------------------------------------------------------
\* An S3 call fails or the process dies: the operation stops where it is.
Stop(t) ==
    /\ ~TaskAt(t, "idle")
    /\ FinishTask(t)
    /\ UNCHANGED <<versions, created, history>>

VersionNext ==
    \E t \in Tasks :
        \/ WriteVersion(t) \/ SweepList(t) \/ SweepDelete(t)
        \/ \E v \in versions : RestoreCheck(t, v) \/ DropCheck(t, v)
        \/ RestoreHead(t) \/ RestoreCopy(t) \/ Drop(t)
        \/ BeginPurge(t) \/ PurgeList(t) \/ PurgeDelete(t)
        \/ Stop(t)

VersionSpec == VersionInit /\ [][VersionNext]_versionVars

-----------------------------------------------------------------------------
(* Properties                                                              *)

\* A cleanup, a restore or a DeleteVersion deletes the current version of an
\* object only after a purge deleted a newer one: the listing it works from then
\* dates from before that deletion (DeleteVersion looks at IsLatest there and
\* nowhere else).  As long as no purge took the newest version, and again from
\* the next write on, the current version goes to nobody but a purge, whatever
\* ran between the others' listings and their deletes.
CurrentSurvives ==
    [][\A v \in versions :
          IsCurrent(v) /\ v \notin versions' =>
              \/ v \in purged'
              \/ \E w \in purged : w > v]_versionVars

\* Retention: a version goes missing only because somebody deleted it, or with
\* more than MaxOldVersions versions newer than it.
HistoryKept ==
    \A v \in Ever \ (versions \cup dropped \cup purged) :
        Cardinality(Newer(v, Ever)) > MaxOldVersions

\* Retention, the other way: once the cleanup of the current version ran to its
\* end, at most MaxOldVersions old versions remain, even if earlier cleanups
\* failed, and whatever else is in flight.
HistoryBounded ==
    IsCurrent(swept) => Cardinality(versions) <= MaxOldVersions + 1

\* A purge that ends without an error has left none of the versions that
\* existed when it began, over all pages of the listing.
PurgeIsComplete == \A v \in versions : v > purgedUpTo

=============================================================================
