---------------------------- MODULE MCCloudUsage ----------------------------
(***************************************************************************)
(* The instances: how much a storage holds while it is counted; what it    *)
(* holds while it is listed.  The two parts share no state: a behaviour is *)
(* one of a single part.                                                   *)
(***************************************************************************)
EXTENDS CloudUsage, FileListing, TLC

VARIABLE part   \* what this behaviour is about

CONSTANTS docs, media, Top, v1, v2, c1, c2

UsageSymmetry == Permutations(Files) \cup Permutations(Requests)

-----------------------------------------------------------------------------
(* Folder docs with a placeholder, two images and one in a subfolder;      *)
(* media with a placeholder and an image; a file.                          *)

MCFolderOf == [k \in 1..7 |-> CASE k \in 1..4 -> docs [] k \in 5..6 -> media [] OTHER -> Top]
MCGroupOf == [k \in 1..7 |-> IF k = 4 THEN "sub" ELSE "root"]

View(op, path, delimiter) ==
    [op |-> op, path |-> path, delimiter |-> delimiter, skip |-> 0, take |-> 0,
     token |-> "none", names |-> {}]
With(view, token) == [view EXCEPT !.token = token]
Paging(view, skip, take) == [view EXCEPT !.skip = skip, !.take = take]

NoView == View("none", Top, TRUE)
Root == View("list", Top, TRUE)
All == View("objects", Top, FALSE)
Inside(d) == View("objects", d, TRUE)
Dirs == View("dirs", Top, TRUE)
Find == [Paging(View("search", Top, FALSE), 1, 1) EXCEPT !.names = {media}]

Job(op, key, folder) ==
    [op |-> op, key |-> key, to |-> key, folder |-> folder, idem |-> NoAnswer, cut |-> FALSE]
Cutting(job) == [job EXCEPT !.cut = TRUE]
Once(job) == [job EXCEPT !.idem = "key"]

NoChange == Job("none", 1, docs)
OnFile(op, k) == Job(op, k, docs)
OnFolder(op, d) == Job(op, 1, d)

Plain == [d \in {docs, media} |-> "plain"]

World(objects, mks, opens, w1, w2, d1, d2) ==
    [contents |-> objects, marks |-> mks, open |-> opens, ends |-> FALSE,
     views |-> (v1 :> w1) @@ (v2 :> w2), changes |-> (c1 :> d1) @@ (c2 :> d2)]

MCListWorkloads ==
    {World({1, 2, 3, 6, 7}, Plain, {}, Root, Inside(docs), OnFile("upload", 4), OnFolder("rmdir", media)),
     World({2, 3, 4, 6, 7}, Plain, {}, Paging(Dirs, 0, 2), Paging(Inside(docs), 1, 1),
           Once(OnFile("delete", 3)), Once(OnFile("delete", 3))),
     World({1, 2, 4, 6, 7}, Plain, {}, Paging(All, 1, 2), Paging(All, 0, 1),
           [OnFile("move", 2) EXCEPT !.to = 3], OnFile("dropVersion", 6)),
     World({1, 2, 3, 5, 6, 7}, [Plain EXCEPT ![docs] = "encrypted"], {docs},
           With(Dirs, "live"), With(Dirs, "dead"), OnFolder("lock", docs), OnFile("update", 6)),
     World({1, 2, 6, 7}, [Plain EXCEPT ![media] = "hidden"], {},
           With(Root, "live"), Root, OnFolder("reveal", media), OnFolder("conceal", media)),
     World({1, 2, 6, 7}, [Plain EXCEPT ![docs] = "encrypted", ![media] = "hidden"], {media},
           With(Find, "live"), Inside(docs), OnFolder("unlock", docs), OnFolder("decrypt", docs)),
     World({2, 6, 7}, Plain, {}, Paging(Dirs, 1, 1), Find, OnFolder("hide", docs),
           OnFolder("unlock", media)),
     World({2, 3, 4, 7}, Plain, {}, Dirs, Inside(media), OnFolder("mkdir", media),
           OnFolder("encrypt", docs)),
     World({2, 3, 4, 7}, [Plain EXCEPT ![docs] = "encrypted"], {}, Dirs, Inside(docs),
           OnFile("upload", 2), Cutting(OnFile("restore", 7))),
     [World({2, 3, 7}, [Plain EXCEPT ![docs] = "encrypted", ![media] = "hidden"], {docs, media},
            With(Inside(docs), "live"), With(Dirs, "live"),
            OnFolder("unhide", media), NoChange) EXCEPT !.ends = TRUE]}

-----------------------------------------------------------------------------

UsageIdle ==
    /\ stored = [x \in Files |-> 0] /\ counter = NoCount
    /\ req = [r \in Requests |-> Idle] /\ ops = 0 /\ exact = TRUE

ListingIdle ==
    /\ contents = [k \in Objects |-> Absent] /\ marks = Plain /\ openWith = {} /\ ends = FALSE
    /\ listing = [k \in {} |-> NoAnswer] /\ pictures = [d \in {docs, media} |-> NoAnswer]
    /\ kept = {} /\ lateListings = {} /\ latePictures = {}
    /\ look = [v \in Viewers |-> NewLook(NoView)]
    /\ change = [c \in Changers |-> [job |-> NoChange, pc |-> "new", keys |-> {}]]

StorageInit ==
    \/ part = "usage" /\ UsageInit /\ ListingIdle
    \/ part = "listing" /\ ListInit /\ UsageIdle

StorageNext ==
    /\ UNCHANGED part
    /\ \/ part = "usage" /\ UsageNext /\ UNCHANGED listVars
       \/ part = "listing" /\ ListNext /\ UNCHANGED usageVars

storageVars == <<part, usageVars, listVars>>

StorageSpec == StorageInit /\ [][StorageNext]_storageVars

=============================================================================
