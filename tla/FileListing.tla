----------------------------- MODULE FileListing -----------------------------
(***************************************************************************)
(* What a user sees of a storage (CloudListService), and the operations of *)
(* CloudService that change it.  A listing is made of pages of S3, of the  *)
(* marks of the folders and the sessions that open them, and of pictures   *)
(* of the folders; it is kept in Redis, by key, and so are the pictures.   *)
(* An operation changes the storage, then deletes the pictures it spoils,  *)
(* then every kept listing.                                                *)
(*                                                                         *)
(* The objects are numbered in the order S3 lists them.  Listed is a       *)
(* directory with its subfolders, or one of these.  A folder has one mark, *)
(* and one token stands for that of encrypted and that of hidden folders.  *)
(* How marks and sessions are kept is in FolderManifest, how a rename of a *)
(* directory moves its content too.                                        *)
(***************************************************************************)
EXTENDS Naturals, FiniteSets

CONSTANTS Objects,       \* 1..n
          Folders, Here, \* the subfolders, the directory itself
          FolderOf,      \* of each object
          GroupOf,       \* the subfolder of its folder an object is in
          Images, Placeholders, Matching,   \* kinds of objects
          MaxListObjects, MaxProcessed, MaxScan,
          ThumbnailLimit, ThumbnailFolders,
          Viewers, Changers,
          Absent, Old, NoAnswer,
          ListWorkloads

ViewOps == {"none", "list", "objects", "dirs", "search"}

ChangeOps == {"none", "upload", "update", "restore", "delete", "move", "mkdir", "rmdir", "unlock",
              "lock", "reveal", "conceal", "encrypt", "decrypt", "hide", "unhide", "dropVersion"}

Marks == {"plain", "encrypted", "hidden"}

ASSUME ListingAssumption ==
    /\ IsFiniteSet(Objects) /\ Objects \subseteq Nat \ {0}
    /\ Here \notin Folders /\ FolderOf \in [Objects -> Folders \cup {Here}]
    \* What S3 lists of a folder is all together.
    /\ \A i, j, k \in Objects : i < j /\ j < k /\ FolderOf[i] = FolderOf[k] /\ FolderOf[i] # Here
                                  => FolderOf[j] = FolderOf[i]
    /\ {MaxListObjects, MaxScan, ThumbnailLimit, ThumbnailFolders} \subseteq Nat \ {0}
    /\ MaxProcessed \in Nat /\ ThumbnailLimit <= ThumbnailFolders
    /\ \A w \in ListWorkloads :
          /\ w.marks \in [Folders -> Marks] /\ w.open \subseteq Folders
          /\ \A v \in Viewers :
                /\ w.views[v].op \in ViewOps /\ w.views[v].path \in Folders \cup {Here}
                /\ w.views[v].skip \in Nat /\ w.views[v].take \in Nat
                /\ w.views[v].op = "search" => ~w.views[v].delimiter /\ w.views[v].take > 0
          /\ \A c \in Changers :
                /\ w.changes[c].op \in ChangeOps
                /\ w.changes[c].key \in Objects /\ w.changes[c].to \in Objects
                /\ w.changes[c].folder \in Folders \cup {Here}
                /\ w.changes[c].op = "mkdir" =>
                      \E p \in Placeholders \cap Objects : FolderOf[p] = w.changes[c].folder

VARIABLES contents,     \* per object: its version, or Absent
          marks,      \* per folder: "plain", "encrypted" or "hidden"
          openWith,   \* the folders the live token opens
          ends,       \* bound: sessions expire
          listing,    \* Redis: kept listings, by key
          pictures,   \* Redis: kept pictures, by folder
          kept,       \* Redis: idempotency keys with their answer
          look,       \* per viewer: the request and what it has seen
          change,     \* per changer: the request and where it is
          lateListings,   \* history: keys whose kept listing was spoilt unnoticed
          latePictures    \* history: folders whose kept pictures were

late == <<lateListings, latePictures>>
lists == <<listing, pictures>>
storage == <<contents, marks, openWith, ends>>
listVars == <<contents, marks, openWith, ends, listing, pictures, kept, look, change,
              late>>

Also(f, x, value) == [y \in DOMAIN f \cup {x} |-> IF y = x THEN value ELSE f[y]]

NoPictures == [f \in {} |-> {}]

NewLook(job) ==
    [job |-> job, pc |-> "new", marks |-> NoAnswer, at |-> 0, more |-> TRUE, seen |-> {},
     total |-> 0, scanned |-> 0, valid |-> {}, known |-> {}, left |-> {}, folder |-> Here,
     picAt |-> 0, taken |-> {},
     pics |-> NoPictures, answer |-> NoAnswer, outdated |-> FALSE, own |-> FALSE]

ListInit ==
    \E w \in ListWorkloads :
       /\ contents = [k \in Objects |-> IF k \in w.contents THEN Old ELSE Absent]
       /\ marks = w.marks /\ openWith = w.open /\ ends = w.ends
       /\ listing = [k \in {} |-> NoAnswer] /\ pictures = [f \in Folders |-> NoAnswer]
       /\ kept = {} /\ lateListings = {} /\ latePictures = {}
       /\ look = [v \in Viewers |-> NewLook(w.views[v])]
       /\ change = [c \in Changers |-> [job |-> w.changes[c], pc |-> "new", keys |-> {}]]

-----------------------------------------------------------------------------
(* Sets of numbers in the order of S3.                                     *)

First(S, n) == {e \in S : Cardinality({x \in S : x <= e}) <= n}

Slice(S, skip, take) == First(S, skip + take) \ First(S, skip)

Latest(S) == CHOOSE e \in S : \A x \in S : x <= e

Least(a, b) == IF a < b THEN a ELSE b

In(f) == {k \in Objects : contents[k] # Absent /\ FolderOf[k] = f}

\* The first object of each folder stands for the common prefix.
Heads == {k \in Objects : /\ k \in In(FolderOf[k]) /\ FolderOf[k] # Here
                          /\ \A j \in In(FolderOf[k]) : k <= j}

\* What S3 lists of the path, with or without the delimiter.
Entries(job) ==
    CASE job.path # Here -> In(job.path)
      [] job.path = Here /\ job.delimiter -> In(Here) \cup Heads
      [] OTHER -> {k \in Objects : contents[k] # Absent}

IsHead(job, e) == job.path = Here /\ job.delimiter /\ FolderOf[e] # Here

Wanted(job, S) ==
    CASE job.op = "dirs"    -> {e \in S : IsHead(job, e)}
      [] job.op = "objects" -> {e \in S : ~IsHead(job, e)}
      [] OTHER              -> S

\* Behind the last entry of a page, and what its prefix stands for.
Behind(job, P, at) ==
    CASE P = {} -> at
      [] P # {} /\ IsHead(job, Latest(P)) ->
            Latest({k \in Objects : FolderOf[k] = FolderOf[Latest(P)]})
      [] OTHER -> Latest(P)

-----------------------------------------------------------------------------
(* The pictures of a folder: up to so many of each of the first groups,    *)
(* dealt in turns.                                                         *)

GroupIn(S, k) == {j \in S : GroupOf[j] = GroupOf[k]}

Leads(S) == {k \in S : \A j \in GroupIn(S, k) : k <= j}

Leader(S, k) == CHOOSE j \in Leads(S) : GroupOf[j] = GroupOf[k]

\* How many of its group come before it.
Rank(S, k) == Cardinality({j \in GroupIn(S, k) : j < k})

\* The buckets after these images; those before stay, as their groups came first.
Buckets(S) ==
    {k \in S : Leader(S, k) \in First(Leads(S), ThumbnailFolders) /\ Rank(S, k) < ThumbnailLimit}

AddPictures(taken, S) == Buckets(taken \cup S)

\* Of each bucket one, in the order of the buckets, and again.
Before(S, j, k) == \/ Rank(S, j) < Rank(S, k)
                   \/ Rank(S, j) = Rank(S, k) /\ Leader(S, j) < Leader(S, k)

Turn(S, k) == Cardinality({j \in S : Before(S, j, k)})

Deal(S) == {<<k, Turn(S, k)>> : k \in {j \in S : Turn(S, j) < ThumbnailLimit}}

\* Mutant of Enough: one of the two will do.
EnoughOfEither(taken) ==
    Cardinality(Leads(taken)) >= ThumbnailFolders \/ Cardinality(taken) >= ThumbnailLimit

Enough(taken) ==
    Cardinality(Leads(taken)) >= ThumbnailFolders /\ Cardinality(taken) >= ThumbnailLimit

Pictures(f) == Deal(AddPictures({}, In(f) \cap Images))

-----------------------------------------------------------------------------
(* What a listing shows.                                                   *)

Opened(job) == IF job.token = "live" THEN openWith ELSE {}

Shown(S) == {<<k, contents[k]>> : k \in S \ Placeholders}

Concealed(m, valid, f) == m[f] = "hidden" /\ f \notin valid

Locked(m, valid, f) == m[f] = "encrypted" /\ f \notin valid

Directories(m, valid, names) ==
    {[name |-> f, mark |-> m[f], locked |-> Locked(m, valid, f)] :
        f \in {g \in names : ~Concealed(m, valid, g)}}

NamesOf(heads) == {FolderOf[e] : e \in heads}

HeadsOf(job, S) == {e \in S : IsHead(job, e)}

ObjectsOf(job, S) == First(S \ HeadsOf(job, S), MaxProcessed)

DirsOf(job, S, m, valid) == Directories(m, valid, NamesOf(HeadsOf(job, S)))

\* The folders that are shown with pictures.
ToPicture(job, dirs) ==
    IF job.op = "dirs" THEN {d.name : d \in {x \in dirs : ~x.locked}} ELSE {}

Reply(objects, dirs, pics, total) ==
    [objects |-> objects, dirs |-> dirs, pics |-> pics, total |-> total]

\* Skip and Take are 0 when they are not given.
Take(job) == IF job.take > 0 THEN job.take ELSE MaxListObjects

Paged(job) == \/ job.op = "dirs"
              \/ job.op = "objects" /\ (job.skip > 0 \/ Take(job) # MaxListObjects)

\* Skip and Take, or the first page.
Chosen(job, S) == IF Paged(job) THEN Slice(S, job.skip, Take(job)) ELSE S

\* An object in a marked folder that is not open to the viewer is passed over.
Visible(m, valid, S) ==
    {k \in S : FolderOf[k] = Here \/ m[FolderOf[k]] = "plain" \/ FolderOf[k] \in valid}

Hits(S) == (S \cap Matching) \ Placeholders

FoundNames(S) == {FolderOf[k] : k \in S} \ {Here}

Empty == Reply({}, {}, NoPictures, 0)

-----------------------------------------------------------------------------
(* A viewer: CloudService.List, ListObjects, ListDirectories and Search.   *)

LookAt(v, pc) == look[v].pc = pc

\* The request ends: only its answer is left.
Ended(v, answer) ==
    [NewLook(look[v].job) EXCEPT !.pc = "done", !.answer = answer, !.own = look[v].own,
                                 !.outdated = look[v].outdated]

See(v, new) == look' = [look EXCEPT ![v] = new]

Unmoved == UNCHANGED <<storage, lists, kept, change, late>>

\* The key says whether there is a token, not which.
ListKey(job) ==
    [op |-> job.op, path |-> job.path, delimiter |-> job.delimiter, skip |-> job.skip,
     take |-> IF job.op = "objects" THEN Take(job) ELSE job.take,
     token |-> job.op # "objects" /\ job.token # "none"]

\* CheckEncryptedFolderAccess refuses.
Enter(v, op, pc) ==
    LET job == look[v].job IN
    /\ LookAt(v, "new") /\ job.op = op
    /\ See(v, CASE job.path # Here /\ Locked(marks, Opened(job), job.path) ->
                       [look[v] EXCEPT !.pc = "refused"]
                [] pc = "ask" /\ job.path # Here /\ Concealed(marks, Opened(job), job.path) ->
                       Ended(v, Empty)
                [] OTHER ->
                       [look[v] EXCEPT !.pc = pc, !.marks = marks])
    /\ Unmoved

\* A search does not ask CheckHiddenFolderAccess.
BeginList(v)        == Enter(v, "list", "ask")
BeginDirectories(v) == Enter(v, "dirs", "ask")
BeginObjects(v)     == Enter(v, "objects", "ask")
BeginSearch(v)      == Enter(v, "search", "page")

AskListing(v) ==
    LET k == ListKey(look[v].job) IN
    /\ LookAt(v, "ask")
    /\ See(v, IF k \in DOMAIN listing
                THEN Ended(v, listing[k])
                ELSE [look[v] EXCEPT !.pc = "page", !.own = TRUE])
    /\ Unmoved

\* A page of S3, of at most n entries.
Page(v, n) == First({e \in Entries(look[v].job) : e > look[v].at}, n)

MoreBehind(v, P) == \E e \in Entries(look[v].job) : e > Behind(look[v].job, P, look[v].at)

Seeing(v, P) == {<<e, contents[e]>> : e \in P}

Fetched(v, n, last) ==
    LET l == look[v]  P == Page(v, n)  W == Wanted(l.job, P)
        enough == Cardinality(l.seen) + Cardinality(W) >= l.job.skip + Take(l.job)
    IN
    [l EXCEPT !.seen = @ \cup Seeing(v, W), !.at = Behind(l.job, P, @),
              !.total = @ + Cardinality(W), !.more = MoreBehind(v, P),
              !.pc = IF last \/ enough \/ ~MoreBehind(v, P) THEN "build" ELSE "page"]

FetchOnce(v) == Fetched(v, MaxListObjects, TRUE)

\* As many pages as skip and take need.
FetchMore(v) ==
    LET l == look[v]
        missing == (l.job.skip + Take(l.job)) - Cardinality(l.seen)
    IN  Fetched(v, Least(MaxListObjects, missing), FALSE)

Fetch(v, op) ==
    /\ LookAt(v, "page") /\ look[v].job.op = op
    /\ See(v, IF Paged(look[v].job) THEN FetchMore(v) ELSE FetchOnce(v))
    /\ Unmoved

FetchList(v)        == Fetch(v, "list")
FetchObjects(v)     == Fetch(v, "objects")
FetchDirectories(v) == Fetch(v, "dirs")

\* Mutant of CountBehind: the pages behind the one asked for are not counted.
CountBehindNot(v) == [look[v] EXCEPT !.pc = "keep"]

\* One more page that is only counted.
CountBehind(v) ==
    LET l == look[v]  P == Page(v, MaxListObjects) IN
    [l EXCEPT !.total = @ + Cardinality(Wanted(l.job, P)), !.at = Behind(l.job, P, @),
              !.more = MoreBehind(v, P), !.pc = IF MoreBehind(v, P) THEN "count" ELSE "keep"]

CountRest(v, op) ==
    LookAt(v, "count") /\ look[v].job.op = op /\ See(v, CountBehind(v)) /\ Unmoved

CountObjects(v)     == CountRest(v, "objects")
CountDirectories(v) == CountRest(v, "dirs")

SeenOf(seen) == {p[1] : p \in seen}

\* ProcessObjects, and ProcessDirectories, which asks for the sessions now.
Build(v) ==
    LET l == look[v]  job == l.job
        page == Chosen(job, SeenOf(l.seen))
        dirs == DirsOf(job, page, l.marks, Opened(job))
        shown == {p \in l.seen : p[1] \in ObjectsOf(job, page) \ Placeholders}
    IN
    /\ LookAt(v, "build")
    /\ See(v, [l EXCEPT !.answer = Reply(shown, dirs, l.pics, 0),
                        !.total = IF job.op = "objects" /\ ~Paged(job)
                                    THEN Cardinality(shown) ELSE @,
                        !.left = ToPicture(job, dirs), !.pc = "picture"])
    /\ Unmoved

\* ListDirectoryThumbnails, for the folders in any order.
AskPictures(v) ==
    \E f \in look[v].left :
       /\ LookAt(v, "picture")
       /\ See(v, IF pictures[f] # NoAnswer
                   THEN [look[v] EXCEPT !.left = @ \ {f}, !.pics = Also(@, f, pictures[f]),
                                        !.outdated = @ \/ pictures[f] # Pictures(f)]
                   ELSE [look[v] EXCEPT !.folder = f, !.picAt = 0, !.taken = {},
                                        !.pc = "pages"])
       /\ Unmoved

FetchPictures(v) ==
    LET l == look[v]
        rest == {k \in In(l.folder) : k > l.picAt}
        P == First(rest, MaxListObjects)
        taken == AddPictures(l.taken, P \cap Images)
    IN
    /\ LookAt(v, "pages")
    /\ See(v, [l EXCEPT !.taken = taken, !.picAt = IF P = {} THEN @ ELSE Latest(P),
                        !.pc = IF Enough(taken) \/ P = rest THEN "keepPictures" ELSE "pages"])
    /\ Unmoved

Spoil(v, k, those) == IF look[v].outdated THEN those \cup {k} ELSE those \ {k}

KeepPictures(v) ==
    LET l == look[v]  pics == Deal(l.taken) IN
    /\ LookAt(v, "keepPictures")
    /\ pictures' = [pictures EXCEPT ![l.folder] = pics]
    /\ latePictures' = Spoil(v, l.folder, latePictures)
    /\ See(v, [l EXCEPT !.left = @ \ {l.folder}, !.pics = Also(@, l.folder, pics),
                        !.pc = "picture"])
    /\ UNCHANGED <<storage, listing, kept, change, lateListings>>

Pictured(v) ==
    /\ LookAt(v, "picture") /\ look[v].left = {}
    /\ See(v, [look[v] EXCEPT !.pc = IF look[v].more /\ Paged(look[v].job) THEN "count"
                                     ELSE "keep"])
    /\ Unmoved

KeepListing(v) ==
    LET l == look[v]  k == ListKey(l.job)
        total == IF l.job.op = "list" THEN 0 ELSE l.total
        answer == Reply(l.answer.objects, l.answer.dirs, l.pics, total)
    IN
    /\ LookAt(v, "keep")
    /\ listing' = Also(listing, k, answer)
    /\ lateListings' = Spoil(v, k, lateListings)
    /\ See(v, Ended(v, answer))
    /\ UNCHANGED <<storage, pictures, kept, change, latePictures>>

\* The marked folders that a page is the first to show.
Met(l, P) == {f \in FoundNames(P) : l.marks[f] # "plain"} \ l.known

\* SearchObjects: every page; the sessions of a folder are asked for once.
SearchPage(v) ==
    LET l == look[v]  job == l.job
        P == Page(v, MaxListObjects)
        met == Met(l, P)
        valid == l.valid \cup (met \cap Opened(job))
        sight == Visible(l.marks, valid, P)
        hits == Seeing(v, Hits(sight))
        scanned == l.scanned + Cardinality(P)
    IN
    /\ LookAt(v, "page") /\ job.op = "search"
    /\ See(v, [l EXCEPT !.at = Behind(job, P, @), !.known = @ \cup met, !.valid = valid,
                        !.seen = @ \cup hits, !.total = @ + Cardinality(hits),
                        !.left = @ \cup (FoundNames(sight) \cap job.names), !.own = TRUE,
                        !.scanned = scanned,
                        !.pc = IF MoreBehind(v, P) /\ scanned < MaxScan THEN "page" ELSE "found"])
    /\ Unmoved

\* The matches that a search of that page answers with, at most a listing's worth.
HitsPage(job, S) == First(Slice(S, job.skip, job.take), MaxProcessed)

SearchDone(v) ==
    LET l == look[v]  page == HitsPage(l.job, SeenOf(l.seen)) IN
    /\ LookAt(v, "found")
    /\ See(v, Ended(v, Reply({p \in l.seen : p[1] \in page}, l.left, l.pics, l.total)))
    /\ Unmoved

-----------------------------------------------------------------------------
(* A changer: the operations of CloudService.                              *)

ChangeAt(c, pc) == change[c].pc = pc

Step(c, pc) == change' = [change EXCEPT ![c].pc = pc]

\* The storage changes under the viewers that are at work, or have their answer.
Disturb == look' = [v \in Viewers |->
                      IF look[v].pc \in {"new", "refused"} THEN look[v]
                      ELSE [look[v] EXCEPT !.outdated = TRUE]]

\* ... and nothing will delete what is kept.
Unnoticed == /\ lateListings' = lateListings \cup DOMAIN listing
             /\ latePictures' = latePictures \cup {f \in Folders : pictures[f] # NoAnswer}

\* EnsureUploadAccess, EnsureDirectoryAccess.
Guarded == {"upload", "mkdir", "rmdir", "encrypt", "decrypt"}

FolderOfJob(job) == IF job.op \in {"upload", "move", "delete", "update", "restore", "dropVersion"}
                      THEN FolderOf[job.key] ELSE job.folder

BeginChange(c) ==
    LET job == change[c].job  f == FolderOfJob(job)
        refused == job.op \in Guarded /\ f # Here /\ Locked(marks, openWith, f)
    IN
    /\ ChangeAt(c, "new") /\ job.op # "none"
    /\ Step(c, CASE refused -> "refused"
                 [] ~refused /\ job.idem # NoAnswer /\ job.idem \in kept -> "done"
                 [] OTHER -> "change")
    /\ UNCHANGED <<storage, lists, kept, look, late>>

Put(k, version) ==
    contents' = [contents EXCEPT ![k] = version] /\ UNCHANGED <<marks, openWith, ends>>

\* What the operations do, as the modules on files, folders and versions have it.
Upload(c, job) == job.op = "upload" /\ Put(job.key, c)

Update(c, job) == job.op = "update" /\ Put(job.key, c)

Restore(c, job) == job.op = "restore" /\ Put(job.key, c)

DeleteFile(job) == job.op = "delete" /\ Put(job.key, Absent)

MoveFile(job) ==
    /\ job.op = "move"
    /\ contents' = [contents EXCEPT ![job.to] = contents[job.key], ![job.key] = Absent]
    /\ UNCHANGED <<marks, openWith, ends>>

CreateFolder(c, job) ==
    job.op = "mkdir" /\ Put(CHOOSE p \in Placeholders : FolderOf[p] = job.folder, c)

DeleteFolder(job) ==
    /\ job.op = "rmdir"
    /\ contents' = [j \in Objects |-> IF FolderOf[j] = job.folder THEN Absent ELSE contents[j]]
    /\ UNCHANGED <<marks, openWith, ends>>

OpenTo(opened) == openWith' = opened /\ UNCHANGED <<contents, marks, ends>>

UnlockFolder(job)  == job.op = "unlock"  /\ OpenTo(openWith \cup {job.folder})
LockFolder(job)    == job.op = "lock"    /\ OpenTo(openWith \ {job.folder})
RevealFolder(job)  == job.op = "reveal"  /\ OpenTo(openWith \cup {job.folder})
ConcealFolder(job) == job.op = "conceal" /\ OpenTo(openWith \ {job.folder})

SetMark(f, mark) == marks' = [marks EXCEPT ![f] = mark] /\ UNCHANGED <<contents, openWith, ends>>

EncryptFolder(job) == job.op = "encrypt" /\ SetMark(job.folder, "encrypted")
DecryptFolder(job) == job.op = "decrypt" /\ SetMark(job.folder, "plain")
HideFolder(job)    == job.op = "hide"    /\ SetMark(job.folder, "hidden")
UnhideFolder(job)  == job.op = "unhide"  /\ SetMark(job.folder, "plain")

\* The folder is marked already, is not marked so, or is empty.
Unfit(job) ==
    LET mark == marks[job.folder] IN
    \/ job.op \in {"encrypt", "hide"} /\ (mark # "plain" \/ In(job.folder) = {})
    \/ job.op \in {"decrypt", "unlock"} /\ mark # "encrypted"
    \/ job.op \in {"unhide", "reveal"} /\ mark # "hidden"

RefuseChange(c) ==
    /\ ChangeAt(c, "change") /\ Unfit(change[c].job) /\ Step(c, "refused")
    /\ UNCHANGED <<storage, lists, kept, look, late>>

Change(c) ==
    LET job == change[c].job IN
    /\ ChangeAt(c, "change") /\ job.op # "dropVersion" /\ ~Unfit(job)
    /\ \/ Upload(c, job) \/ Update(c, job) \/ Restore(c, job) \/ DeleteFile(job) \/ MoveFile(job)
       \/ CreateFolder(c, job) \/ DeleteFolder(job)
       \/ UnlockFolder(job) \/ LockFolder(job) \/ RevealFolder(job) \/ ConcealFolder(job)
       \/ EncryptFolder(job) \/ DecryptFolder(job) \/ HideFolder(job) \/ UnhideFolder(job)
    /\ Disturb
    /\ Step(c, IF job.op = "upload" THEN "limits" ELSE "pictures")
    /\ UNCHANGED <<lists, kept, late>>

\* DeleteVersion may bring back the version before, and deletes no kept listing.
DropVersion(c) ==
    LET k == change[c].job.key IN
    /\ ChangeAt(c, "change") /\ change[c].job.op = "dropVersion"
    /\ Put(k, c) /\ Disturb /\ Unnoticed /\ Step(c, "done")
    /\ UNCHANGED <<lists, kept>>

\* EnsureUploadedObjectWithinLimits deletes what is over the limits, and throws.
CheckLimits(c) ==
    /\ ChangeAt(c, "limits")
    /\ \/ Step(c, "pictures") /\ UNCHANGED <<storage, look, late>>
       \/ /\ Put(change[c].job.key, Absent) /\ Disturb /\ Unnoticed
          /\ Step(c, "failed")
    /\ UNCHANGED <<lists, kept>>

\* InvalidateThumbnailCacheForObjectKey, InvalidateDirectoryThumbnailCache.
Spoilt(job) ==
    ((CASE job.op \in {"hide", "unhide", "reveal", "conceal"} -> {}
        [] job.op = "move" -> {FolderOf[job.key], FolderOf[job.to]}
        [] OTHER -> {FolderOfJob(job)}) \ {Here})

ForgetPictures(c) ==
    LET spoilt == Spoilt(change[c].job) IN
    /\ ChangeAt(c, "pictures")
    /\ pictures' = [f \in Folders |-> IF f \in spoilt THEN NoAnswer ELSE pictures[f]]
    /\ latePictures' = latePictures \ spoilt
    /\ Step(c, IF change[c].job.idem = NoAnswer THEN "find" ELSE "keep")
    /\ UNCHANGED <<storage, listing, kept, look, lateListings>>

\* SetIdempotentResult comes before InvalidateListCache.
KeepResult(c) ==
    /\ ChangeAt(c, "keep") /\ kept' = kept \cup {change[c].job.idem} /\ Step(c, "find")
    /\ UNCHANGED <<storage, lists, look, late>>

\* Mutant of FindListings: the pattern misses the listings of folders.
FindListingsButFolders(c) ==
    /\ ChangeAt(c, "find")
    /\ change' = [change EXCEPT ![c].keys = {k \in DOMAIN listing : k.op # "dirs"},
                                ![c].pc = "forget"]
    /\ UNCHANGED <<storage, lists, kept, look, late>>

\* DeleteByPattern: the keys there are, and then those.
FindListings(c) ==
    /\ ChangeAt(c, "find")
    /\ change' = [change EXCEPT ![c].keys = DOMAIN listing, ![c].pc = "forget"]
    /\ UNCHANGED <<storage, lists, kept, look, late>>

ForgetListings(c) ==
    LET gone == change[c].keys IN
    /\ ChangeAt(c, "forget")
    /\ listing' = [k \in DOMAIN listing \ gone |-> listing[k]]
    /\ lateListings' = lateListings \ gone
    /\ Step(c, "done")
    /\ UNCHANGED <<storage, pictures, kept, look, latePictures>>

\* A later call fails, or the process ends: what is kept stays.
Cut(c) ==
    /\ change[c].pc \in {"pictures", "keep", "find", "forget"} /\ change[c].job.cut
    /\ Unnoticed /\ Step(c, "failed")
    /\ UNCHANGED <<storage, lists, kept, look>>

\* The session of a folder expires.
SessionEnds(f) ==
    /\ ends /\ f \in openWith /\ openWith' = openWith \ {f} /\ Disturb
    /\ lateListings' = lateListings \cup DOMAIN listing
    /\ UNCHANGED <<contents, marks, ends, lists, kept, change, latePictures>>

-----------------------------------------------------------------------------

ViewStep(v) ==
    \/ BeginList(v) \/ BeginDirectories(v) \/ BeginObjects(v) \/ BeginSearch(v) \/ AskListing(v)
    \/ FetchList(v) \/ FetchObjects(v) \/ FetchDirectories(v)
    \/ CountObjects(v) \/ CountDirectories(v) \/ Build(v)
    \/ AskPictures(v) \/ FetchPictures(v) \/ KeepPictures(v) \/ Pictured(v) \/ KeepListing(v)
    \/ SearchPage(v) \/ SearchDone(v)

ChangeStep(c) ==
    \/ BeginChange(c) \/ RefuseChange(c) \/ Change(c) \/ DropVersion(c) \/ CheckLimits(c)
    \/ ForgetPictures(c) \/ KeepResult(c) \/ FindListings(c) \/ ForgetListings(c) \/ Cut(c)

ListNext ==
    \/ \E v \in Viewers : ViewStep(v)
    \/ \E c \in Changers : ChangeStep(c)
    \/ \E f \in Folders : SessionEnds(f)

ListSpec == ListInit /\ [][ListNext]_listVars

-----------------------------------------------------------------------------

\* A search ends with the page that reaches the limit.
Scanned == MaxListObjects * (CHOOSE n \in 1..MaxScan : /\ MaxScan <= n * MaxListObjects
                                                       /\ (n - 1) * MaxListObjects < MaxScan)

ExpectedHits(job, opened) ==
    LET sight == Visible(marks, opened, First(Entries(job), Scanned)) IN
    Reply(Shown(HitsPage(job, Hits(sight))), FoundNames(sight) \cap job.names,
          NoPictures, Cardinality(Hits(sight)))

Asked(job) ==
    Chosen(job, Wanted(job, IF Paged(job) THEN Entries(job)
                            ELSE First(Entries(job), MaxListObjects)))

ExpectedTotal(job) ==
    CASE job.op = "list" -> 0
      [] Paged(job) -> Cardinality(Wanted(job, Entries(job)))
      [] OTHER -> Cardinality(Shown(ObjectsOf(job, Asked(job))))

AllPictures(those) == [f \in those |-> Pictures(f)]

ExpectedPage(job, opened) ==
    LET dirs == DirsOf(job, Asked(job), marks, opened)
    IN  Reply(Shown(ObjectsOf(job, Asked(job))), dirs, AllPictures(ToPicture(job, dirs)),
              ExpectedTotal(job))

\* The listing as it should be now, computed at once.
Expected(job, opened) ==
    IF job.op = "search" THEN ExpectedHits(job, opened) ELSE ExpectedPage(job, opened)

(* A listing that a viewer computed, page by page, while nothing changed is *)
(* the one of the storage: each page has the entries that skip and take     *)
(* name, the total counts what is behind it too, and nothing that is locked *)
(* or concealed shows (cloud.list.service.ts:149-470, 472-648).             *)
AnswersAreSlices ==
    \A v \in Viewers :
       LookAt(v, "done") /\ look[v].own /\ ~look[v].outdated
         => look[v].answer = Expected(look[v].job, Opened(look[v].job))

Changing == \E c \in Changers : change[c].pc \in {"limits", "pictures", "keep", "find", "forget"}

(* A kept listing is the one of the storage for one of the viewers with     *)
(* that key, as soon as all changes are announced; but for listings kept    *)
(* late, by a viewer a change overtook, and what nothing announces: an      *)
(* operation cut short, DeleteVersion, a session that ends                  *)
(* (cloud.list.service.ts:98-146, 1079-1081; cloud.service.ts:439-1260).    *)
ListingsAreCurrent ==
    ~Changing =>
       \A k \in DOMAIN listing \ lateListings :
          \E opened \in IF k.token THEN {{}, openWith} ELSE {{}} :
             listing[k] = Expected([k EXCEPT !.token = "none"], opened)

(* Kept pictures are the ones dealt from all images of the folder, however  *)
(* they are spread over the pages of S3 (cloud.list.service.ts:912-1043).   *)
PicturesAreDealt ==
    ~Changing => \A f \in Folders \ latePictures : pictures[f] \in {NoAnswer, Pictures(f)}
=============================================================================
