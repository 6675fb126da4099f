------------------------------ MODULE CloudMove ------------------------------
(***************************************************************************)
(* The files of one storage owner and the requests that move, rename,      *)
(* upload and delete them (CloudObjectService, CloudUploadService).        *)
(*                                                                         *)
(* S3 has no rename: a move copies an object and then deletes every        *)
(* version of the original.  Looking for conflicts, the copy and the       *)
(* deletion are S3 calls of their own, between which other requests run,   *)
(* or at which the request may end.                                        *)
(*                                                                         *)
(* A key is a directory and a name; the bucket keeps the versions of a key *)
(* (newest first, as contents).  "n (1)" of KEEP_BOTH is any free name of  *)
(* the directory.  The deletion of all versions (CloudVersion) is one step.*)
(***************************************************************************)
EXTENDS Naturals, Sequences, FiniteSets

CONSTANTS Dirs, Names,       \* directories and file names
          Requests,          \* requests handled at the same time
          NoKey,
          MaxOldVersions,    \* old versions that CleanupOldVersions keeps
          MaxFiles,          \* bound: files there are at first
          MaxOps             \* bound: requests

Keys == Dirs \X Names

ASSUME MoveAssumption ==
    NoKey \notin Keys /\ MaxOldVersions \in Nat /\ MaxFiles \in Nat /\ MaxOps \in Nat

VARIABLES versions,     \* per key: the contents of its versions
          req,          \* per request: what it does and knows
          ops,          \* requests begun so far
          calm,         \* history: requests ran alone and to their end
          discarded,    \* history: contents that a request has removed
          overtaken     \* history: a file was written while it was moved away

moveVars == <<versions, req, ops, calm, discarded, overtaken>>

\* Where it was first written, and in which request.
Contents == Keys \X (0..MaxOps)

Strategies == {"FAIL", "SKIP", "KEEP_BOTH", "REPLACE"}
Ops == {"move", "moveDir", "rename", "touch", "upload", "delete"}
Pcs == {"idle", "check", "find", "list", "next", "copy", "prune", "purge"}

Jobs == [from : Keys \cup {NoKey}, to : Keys \cup {NoKey},
         plan : Strategies \cup {"none"}]
NoJob == [from |-> NoKey, to |-> NoKey, plan |-> "none"]

Idle == [op |-> "none", todo |-> {}, job |-> NoJob, dir |-> <<>>,
         old |-> {}, pc |-> "idle"]

MoveTypeOK ==
    /\ versions \in [Keys -> Seq(Contents)]
    /\ req \in [Requests -> [op : Ops \cup {"none"}, todo : SUBSET Jobs, job : Jobs,
                             dir : {<<>>} \cup Dirs \X Dirs, old : SUBSET Contents,
                             pc : Pcs]]
    /\ ops \in 0..MaxOps /\ calm \in BOOLEAN
    /\ discarded \subseteq Contents /\ overtaken \in BOOLEAN

MoveInit ==
    /\ \E files \in SUBSET Keys :
          /\ Cardinality(files) <= MaxFiles
          /\ versions = [k \in Keys |-> IF k \in files THEN <<<<k, 0>>>> ELSE <<>>]
    /\ req = [r \in Requests |-> Idle]
    /\ ops = 0 /\ calm = TRUE /\ discarded = {} /\ overtaken = FALSE

-----------------------------------------------------------------------------
(* The bucket                                                              *)

Exists(k) == versions[k] # <<>>
Files == {k \in Keys : Exists(k)}
InDir(d) == {k \in Keys : k[1] = d /\ Exists(k)}
Elements(seq) == {seq[i] : i \in DOMAIN seq}
Stored(k) == Elements(versions[k])

\* GenerateKeepBothKey, of a file and of a directory.
FreeKeys(k) == {free \in Keys : free[1] = k[1] /\ ~Exists(free)}
FreeDirs(d) == {free \in Dirs \ {d} : InDir(free) = {}}

\* The key is the source of a move that has copied it already.
MovingAway(r, k) ==
    req[r].job.from = k /\ req[r].op # "delete" /\ req[r].pc \in {"prune", "purge"}

MovedAway(k) == \E r \in Requests : MovingAway(r, k)

Put(k, c) ==
    /\ versions' = [versions EXCEPT ![k] = <<c>> \o @]
    /\ overtaken' = (overtaken \/ MovedAway(k))

-----------------------------------------------------------------------------
(* Requests                                                                *)

At(r, pc) == req[r].pc = pc
Set(r, new) == req' = [req EXCEPT ![r] = new]
Finish(r) == Set(r, Idle)

\* Nothing but the request changes.
Quietly == UNCHANGED <<versions, ops, calm, discarded, overtaken>>

Job(from, to) == [from |-> from, to |-> to, plan |-> "none"]

Begin(r, op, jobs, dir, pc) ==
    /\ At(r, "idle") /\ ops < MaxOps
    /\ ops' = ops + 1
    /\ calm' = (calm /\ \A s \in Requests : At(s, "idle"))
    /\ Set(r, [Idle EXCEPT !.op = op, !.todo = jobs, !.dir = dir, !.pc = pc])
    /\ UNCHANGED <<versions, discarded, overtaken>>

\* Up to two files into a directory.  (What is not there when a request comes
\* ends it with 404, as what is not there any more when its turn comes does.)
BeginMove(r) ==
    \E a, b \in Files, d \in Dirs :
        Begin(r, "move", {Job(k, <<d, k[2]>>) : k \in {a, b}}, <<>>, "check")

\* A directory, to where it is to be found then.
BeginMoveDir(r) ==
    \E from, to \in Dirs :
        /\ from # to /\ InDir(from) # {}
        /\ Begin(r, "moveDir", {}, <<from, to>>, "check")

BeginRename(r) ==
    \E k \in Files : \E n \in Names \ {k[2]} :
        Begin(r, "rename", {Job(k, <<k[1], n>>)}, <<>>, "check")

\* Update with the metadata only.
BeginTouch(r) == \E k \in Files : Begin(r, "touch", {Job(k, k)}, <<>>, "next")

BeginUpload(r) == \E k \in Keys : Begin(r, "upload", {Job(NoKey, k)}, <<>>, "check")

BeginDelete(r) == \E k \in Files : Begin(r, "delete", {Job(k, NoKey)}, <<>>, "find")

Planned(jobs, plan) ==
    {[j EXCEPT !.plan = IF j \in DOMAIN plan THEN plan[j] ELSE "none"] : j \in jobs}

\* Strategies that go on although the target exists: an item of a move has its
\* own or the global one, and the move goes on as soon as one of them is given.
GoesOn(op) == CASE op = "move" -> Strategies
                [] op = "upload" -> {"KEEP_BOTH", "REPLACE"}
                [] OTHER -> {"SKIP", "KEEP_BOTH", "REPLACE"}

\* The targets of all items are looked at before any is moved.
CheckConflicts(r) ==
    /\ At(r, "check") /\ req[r].op # "moveDir"
    /\ LET jobs == req[r].todo
           conflicted == {j \in jobs : Exists(j.to)}
       IN  \/ conflicted # {} /\ Finish(r)                               \* 409
           \/ \E plan \in [conflicted -> GoesOn(req[r].op)] :
                 Set(r, [req[r] EXCEPT !.todo = Planned(jobs, plan), !.pc = "next"])
    /\ Quietly

\* A directory is merged into the existing one, or takes a free name.
CheckDirectory(r) ==
    /\ At(r, "check") /\ req[r].op = "moveDir"
    /\ \/ Set(r, [req[r] EXCEPT !.pc = "list"])
       \/ /\ InDir(req[r].dir[2]) # {}
          /\ \/ Finish(r)                                                \* 409, SKIP
             \/ \E free \in FreeDirs(req[r].dir[1]) :
                   Set(r, [req[r] EXCEPT !.dir = <<@[1], free>>, !.pc = "list"])
    /\ Quietly

ListDirectory(r) ==
    /\ At(r, "list")
    /\ LET found == InDir(req[r].dir[1])
           jobs == {Job(k, <<req[r].dir[2], k[2]>>) : k \in found}
       IN  IF found = {} THEN Finish(r)                                  \* 404
                         ELSE Set(r, [req[r] EXCEPT !.todo = jobs, !.pc = "next"])
    /\ Quietly

Start(r, j, to) ==
    Set(r, [req[r] EXCEPT !.todo = @ \ {j}, !.job = [j EXCEPT !.to = to], !.pc = "copy"])

\* The client orders the items; the order of a listing is that of the keys.
NextItem(r) ==
    /\ At(r, "next")
    /\ \/ req[r].todo = {} /\ Finish(r)
       \/ \E j \in req[r].todo :
             CASE j.plan = "SKIP" -> Set(r, [req[r] EXCEPT !.todo = @ \ {j}])
               [] j.plan = "KEEP_BOTH" ->
                    \/ \E free \in FreeKeys(j.to) : Start(r, j, free)
                    \/ FreeKeys(j.to) = {} /\ Finish(r)                  \* 409
               [] OTHER -> Start(r, j, j.to)
    /\ Quietly

\* CleanupOldVersions comes next, where it is called.
AfterCopy(r) ==
    IF \/ req[r].op = "upload"
       \/ req[r].op = "move" /\ req[r].job.plan = "REPLACE"
       \/ req[r].op = "rename" /\ req[r].job.plan # "none"
      THEN "prune" ELSE "purge"

\* Mutant of Copy: an item whose copy fails is deleted all the same.
CopyOrNot(r) ==
    /\ At(r, "copy") /\ req[r].op \notin {"upload", "touch"}
    /\ LET from == req[r].job.from
       IN  /\ \/ Exists(from) /\ Put(req[r].job.to, Head(versions[from]))
              \/ UNCHANGED <<versions, overtaken>>
           /\ Set(r, [req[r] EXCEPT !.pc = AfterCopy(r)])
    /\ UNCHANGED <<ops, calm, discarded>>

\* S3 refuses to copy an object that is gone, or onto itself.
Copy(r) ==
    /\ At(r, "copy") /\ req[r].op \notin {"upload", "touch"}
    /\ LET from == req[r].job.from
           to == req[r].job.to
       IN  IF Exists(from) /\ from # to
             THEN /\ Put(to, Head(versions[from]))
                  /\ Set(r, [req[r] EXCEPT !.old = Stored(from) \ {Head(versions[from])},
                                           !.pc = AfterCopy(r)])
             ELSE Finish(r) /\ UNCHANGED <<versions, overtaken>>
    /\ UNCHANGED <<ops, calm, discarded>>

\* CompleteMultipartUpload.
Write(r) ==
    /\ At(r, "copy") /\ req[r].op = "upload"
    /\ Put(req[r].job.to, <<req[r].job.to, ops>>)
    /\ Set(r, [req[r] EXCEPT !.pc = "prune"])
    /\ UNCHANGED <<ops, calm, discarded>>

\* The object is copied onto itself with other metadata.
Touch(r) ==
    /\ At(r, "copy") /\ req[r].op = "touch"
    /\ LET k == req[r].job.from
       IN  IF Exists(k) THEN Put(k, Head(versions[k]))
                        ELSE UNCHANGED <<versions, overtaken>>           \* 404
    /\ Finish(r)
    /\ UNCHANGED <<ops, calm, discarded>>

\* What CleanupOldVersions leaves.
Kept(k) == SubSeq(versions[k], 1,
                  IF Len(versions[k]) <= 1 + MaxOldVersions
                    THEN Len(versions[k]) ELSE 1 + MaxOldVersions)

\* What a request is to remove with its next step: all of a file it deletes, the
\* old versions of one it has moved, and what is beyond the version limit.
Doomed(r) ==
    CASE At(r, "purge") /\ req[r].op = "delete" -> Stored(req[r].job.from)
      [] At(r, "purge") /\ req[r].op # "delete" -> req[r].old
      [] At(r, "prune") -> Stored(req[r].job.to) \ Elements(Kept(req[r].job.to))
      [] OTHER -> {}

\* CleanupOldVersions of the target.
Prune(r) ==
    /\ At(r, "prune")
    /\ versions' = [versions EXCEPT ![req[r].job.to] = Kept(req[r].job.to)]
    /\ discarded' = discarded \cup Doomed(r)
    /\ IF req[r].op = "upload" THEN Finish(r) ELSE Set(r, [req[r] EXCEPT !.pc = "purge"])
    /\ UNCHANGED <<ops, calm, overtaken>>

\* Delete looks for the object first.
FindFile(r) ==
    /\ At(r, "find")
    /\ \E j \in req[r].todo :
          IF Exists(j.from)
            THEN Set(r, [req[r] EXCEPT !.todo = {}, !.job = j, !.pc = "purge"])
            ELSE Finish(r)
    /\ Quietly

\* Mutant of Purge: a file that kept another name stays where it was.
PurgeNotKeepBoth(r) ==
    /\ At(r, "purge")
    /\ versions' = IF req[r].job.plan = "KEEP_BOTH"
                     THEN versions ELSE [versions EXCEPT ![req[r].job.from] = <<>>]
    /\ discarded' = discarded \cup Doomed(r)
    /\ Set(r, [req[r] EXCEPT !.job = NoJob, !.old = {}, !.pc = "next"])
    /\ UNCHANGED <<ops, calm, overtaken>>

\* PermanentlyDeleteAllVersions of the source: its history goes with it.
Purge(r) ==
    /\ At(r, "purge")
    /\ versions' = [versions EXCEPT ![req[r].job.from] = <<>>]
    /\ discarded' = discarded \cup Doomed(r)
    /\ Set(r, [req[r] EXCEPT !.job = NoJob, !.old = {}, !.pc = "next"])
    /\ UNCHANGED <<ops, calm, overtaken>>

\* A call fails, or the process dies: what is done stays done.
Abort(r) ==
    /\ req[r].pc \in {"copy", "prune", "purge"}
    /\ Finish(r)
    /\ calm' = FALSE
    /\ UNCHANGED <<versions, ops, discarded, overtaken>>

MoveNext ==
    \E r \in Requests :
        \/ BeginMove(r) \/ BeginMoveDir(r) \/ BeginRename(r) \/ BeginTouch(r)
        \/ BeginUpload(r) \/ BeginDelete(r)
        \/ CheckConflicts(r) \/ CheckDirectory(r) \/ ListDirectory(r) \/ NextItem(r)
        \/ Copy(r) \/ Write(r) \/ Touch(r) \/ Prune(r) \/ FindFile(r) \/ Purge(r)
        \/ Abort(r)

MoveSpec == MoveInit /\ [][MoveNext]_moveVars

-----------------------------------------------------------------------------
(* Properties                                                              *)

AllStored == UNION {Stored(k) : k \in Keys}

\* However requests interleave, and wherever they stop, the last version of a
\* content goes only if a request was to remove it, here or where it had been
\* moved (or a file was written between the copy and the deletion of a move).
NothingLost ==
    [][overtaken \/ AllStored \ AllStored' \subseteq discarded']_moveVars

\* Wherever a move has copied a file and not deleted it yet, each content it will
\* delete is one it is to remove, or has been removed on purpose, or is kept by a
\* file that no move is about to delete it from.
Safe(c) ==
    \/ c \in discarded
    \/ \E k \in Keys : /\ c \in Stored(k)
                        /\ \A r \in Requests : MovingAway(r, k) => c \in req[r].old

CopiedBeforeDeleted ==
    overtaken \/
    \A r \in Requests, k \in Keys :
        MovingAway(r, k) => \A c \in Stored(k) \ req[r].old : Safe(c)

\* Requests that run alone and to their end leave no copies: a content is the
\* current one of one file at most.
OneCopy ==
    calm /\ (\A r \in Requests : At(r, "idle")) =>
        \A j, k \in Keys : Exists(j) /\ Exists(k) /\ j # k =>
            Head(versions[j]) # Head(versions[k])

\* "Default: FAIL (return 409)": an item whose strategy is FAIL replaces nothing.
\* It does not hold once another item has a strategy of its own.
FailReplacesNothing ==
    \A r \in Requests : req[r].job.plan = "FAIL" => ~At(r, "purge")

=============================================================================
