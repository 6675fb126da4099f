---------------------------- MODULE FolderManifest ----------------------------
(***************************************************************************)
(* The directories of one storage owner and the manifests that mark some   *)
(* of them as encrypted or hidden (CloudDirectoryService).                 *)
(*                                                                         *)
(* A manifest is a JSON object in S3, with a copy in Redis that is filled  *)
(* when it is read and deleted when it is saved.  Every operation works on *)
(* a manifest it has read some awaits before: a request keeps it in "copy" *)
(* and its steps interleave with those of others.                          *)
(*                                                                         *)
(* A path is a sequence of names, none of which begins with another one.   *)
(* Items stand for the S3 objects, each with a name of its own.  Wrong or  *)
(* missing passphrases and sessions end a request in Refuse.               *)
(***************************************************************************)
EXTENDS Naturals, Sequences

CONSTANTS Paths,      \* directory paths
          Items,      \* objects: files and placeholders of empty folders
          Requests,   \* requests handled at the same time
          Gone,       \* an item that does not exist
          NoCache,    \* the Redis key is absent
          NoPath,
          MaxOps,     \* bound: requests, as long as the run is clean
          MaxRaced    \* bound: requests, once it is not

Kinds == {"encrypted", "hidden"}

Writers == {"mark", "unmark", "create", "mkdir", "delete", "rename", "renamePlain",
            "follow"}
Readers == {"check", "unlock"}

ASSUME FolderAssumption ==
    /\ Paths \subseteq Seq(UNION {{p[i] : i \in DOMAIN p} : p \in Paths})
    /\ Gone \notin Paths /\ NoPath \notin Paths
    /\ \A marked \in SUBSET Paths : marked # NoCache
    /\ MaxOps \in Nat /\ MaxRaced \in Nat

VARIABLES items,      \* where each object is
          manifest,   \* per kind: the paths the manifest in S3 marks
          cache,      \* per kind: the manifest in Redis
          sessions,   \* per kind and path: the token of its session, 0 if none
          issued,     \* how many tokens there are
          req,        \* per request: what it does and has read
          ops,        \* requests begun so far
          \* history
          clean,      \* writers ran one at a time, to their end, on fresh copies
          secret,     \* per kind: items that were marked
          stale,      \* kinds cached by a late fill, or kept by an aborted save
          given       \* per kind: <<path, token>> of unlocks nothing has undone

sessionVars == <<sessions, issued, given>>
historyVars == <<ops, clean, secret, stale>>
folderVars == <<items, manifest, cache, sessionVars, req, historyVars>>

Idle == [op |-> "none", kind |-> "encrypted", path |-> NoPath, to |-> NoPath,
         copy |-> {}, batch |-> {}, token |-> 0, pc |-> "idle"]

Pcs == {"idle", "cache", "s3", "fill", "act", "target", "purge", "place", "list",
        "move", "put", "invalidate", "open", "lock"}

FolderTypeOK ==
    /\ items \in [Items -> Paths \cup {Gone}]
    /\ manifest \in [Kinds -> SUBSET Paths]
    /\ cache \in [Kinds -> {NoCache} \cup SUBSET Paths]
    /\ sessions \in [Kinds -> [Paths -> Nat]] /\ issued \in Nat
    /\ req \in [Requests ->
                  [op : Writers \cup Readers \cup {"none", "lock"}, kind : Kinds,
                   path : Paths \cup {NoPath}, to : Paths \cup {NoPath},
                   copy : SUBSET Paths, batch : SUBSET Items, token : Nat, pc : Pcs]]
    /\ ops \in Nat /\ clean \in BOOLEAN /\ stale \subseteq Kinds
    /\ secret \in [Kinds -> SUBSET Items]
    /\ given \in [Kinds -> SUBSET (Paths \X Nat)]

FolderInit ==
    /\ items \in [Items -> Paths]
    /\ manifest = [k \in Kinds |-> {}]
    /\ cache = [k \in Kinds |-> NoCache]
    /\ sessions = [k \in Kinds |-> [p \in Paths |-> 0]] /\ issued = 0
    /\ req = [r \in Requests |-> Idle]
    /\ ops = 0 /\ clean = TRUE /\ stale = {}
    /\ secret = [k \in Kinds |-> {}]
    /\ given = [k \in Kinds |-> {}]

-----------------------------------------------------------------------------
(* Paths                                                                   *)

Within(p, q) == Len(q) <= Len(p) /\ SubSeq(p, 1, Len(q)) = q

Siblings(p) == {q \in Paths : /\ Len(q) = Len(p)
                              /\ SubSeq(q, 1, Len(q) - 1) = SubSeq(p, 1, Len(p) - 1)}

\* A path once the directory "from" is called "to".
Move(p, from, to) ==
    IF Within(p, from) THEN to \o SubSeq(p, Len(from) + 1, Len(p)) ELSE p

\* No rename leads out of Paths.
ASSUME PathsAreClosed ==
    \A p, from \in Paths : \A to \in Siblings(from) : Move(p, from, to) \in Paths

Covered(p, marked) == \E q \in marked : Within(p, q)

Content(p) == {i \in Items : items[i] # Gone /\ Within(items[i], p)}

\* DirectoryUnlock takes the innermost marked folder around a path.
Innermost(p, marked) ==
    {q \in marked : /\ Within(p, q)
                    /\ \A o \in marked : Within(p, o) => Len(o) <= Len(q)}

-----------------------------------------------------------------------------
(* Steps shared by the operations                                          *)

At(r, pc) == req[r].pc = pc
Doing(r, op) == At(r, "act") /\ req[r].op = op
Set(r, new) == req' = [req EXCEPT ![r] = new]
Goto(r, pc) == Set(r, [req[r] EXCEPT !.pc = pc])
Finish(r) == Set(r, Idle)

Busy == {r \in Requests : ~At(r, "idle")}

Begin(r, op, k, p) ==
    /\ At(r, "idle")
    /\ ops' = ops + 1
    /\ clean' = (clean /\ ~ (op \in Writers /\ \E b \in Busy : req[b].op \in Writers))
    /\ ops < IF clean' THEN MaxOps ELSE MaxRaced
    /\ Set(r, [Idle EXCEPT !.op = op, !.kind = k, !.path = p,
                           !.pc = IF op = "lock" THEN "lock"
                                  ELSE IF op = "mkdir" THEN "target" ELSE "cache"])
    /\ UNCHANGED <<items, manifest, cache, sessionVars, secret, stale>>

\* Nothing but the request changes.
Quietly == UNCHANGED <<items, manifest, cache, sessionVars, historyVars>>

\* GetEncryptedFolderManifest, GetHiddenFolderManifest.
ReadCache(r) ==
    /\ At(r, "cache")
    /\ LET found == cache[req[r].kind]
       IN  \/ found = NoCache /\ Goto(r, "s3") /\ UNCHANGED clean
          \/ /\ found # NoCache
             /\ Set(r, [req[r] EXCEPT !.copy = found, !.pc = "act"])
             /\ clean' = (clean /\ (req[r].op \in Writers => found = manifest[req[r].kind]))
    /\ UNCHANGED <<items, manifest, cache, sessionVars, ops, secret, stale>>

ReadS3(r) ==
    /\ At(r, "s3")
    /\ Set(r, [req[r] EXCEPT !.copy = manifest[req[r].kind], !.pc = "fill"])
    /\ Quietly

FillCache(r) ==
    /\ At(r, "fill")
    /\ LET k == req[r].kind
       IN  /\ cache' = [cache EXCEPT ![k] = req[r].copy]
           /\ stale' = IF req[r].copy = manifest[k] THEN stale \ {k} ELSE stale \cup {k}
    /\ Goto(r, "act")
    /\ UNCHANGED <<items, manifest, sessionVars, ops, clean, secret>>

Save(r, marked) == Set(r, [req[r] EXCEPT !.copy = marked, !.pc = "put"])

\* Items that the manifest to be written makes, or no longer makes, secret.
Secret(r) ==
    LET k == req[r].kind
        here == Content(req[r].path)
    IN  CASE req[r].op \in {"mark", "create"} -> secret[k] \cup here
          [] req[r].op = "unmark" ->
               secret[k] \ {i \in here : ~Covered(items[i], req[r].copy)}
          [] OTHER -> secret[k]

\* SaveEncryptedFolderManifest, SaveHiddenFolderManifest.
PutManifest(r) ==
    /\ At(r, "put")
    /\ manifest' = [manifest EXCEPT ![req[r].kind] = req[r].copy]
    /\ secret' = [secret EXCEPT ![req[r].kind] = Secret(r)]
    /\ given' = [given EXCEPT ![req[r].kind] = {}]
    /\ Goto(r, "invalidate")
    /\ UNCHANGED <<items, cache, sessions, issued, ops, clean, stale>>

\* A rename goes on with the manifest of the other kind.
NextKind(r) ==
    IF req[r].op = "follow" /\ req[r].kind = "encrypted"
      THEN Set(r, [req[r] EXCEPT !.kind = "hidden", !.copy = {}, !.pc = "cache"])
      ELSE Finish(r)

\* Mutant of InvalidateCache: the cached manifest is kept.
InvalidateCacheNot(r) ==
    /\ At(r, "invalidate")
    /\ NextKind(r)
    /\ Quietly

InvalidateCache(r) ==
    /\ At(r, "invalidate")
    /\ cache' = [cache EXCEPT ![req[r].kind] = NoCache]
    /\ stale' = stale \ {req[r].kind}
    /\ NextKind(r)
    /\ UNCHANGED <<items, manifest, sessionVars, ops, clean, secret>>

-----------------------------------------------------------------------------
(* Marking: DirectoryConvertToEncrypted and DirectoryHide, DirectoryCreate *)
(* with IsEncrypted, DirectoryDecrypt and DirectoryUnhide                  *)

Mark(r) ==
    /\ Doing(r, "mark")
    /\ IF req[r].path \in req[r].copy \/ Content(req[r].path) = {}
         THEN Finish(r)                                       \* 409, 404
         ELSE Save(r, req[r].copy \cup {req[r].path})
    /\ Quietly

\* CreateDirectory: the placeholder, if one is left to follow.
Placeholder(p) ==
    \/ \E i \in Items : items[i] = Gone /\ items' = [items EXCEPT ![i] = p]
    \/ (\A i \in Items : items[i] # Gone) /\ UNCHANGED items

CreateMarked(r) ==
    /\ Doing(r, "create")
    /\ IF req[r].path \in req[r].copy
         THEN Finish(r) /\ UNCHANGED items                    \* 409
         ELSE Save(r, req[r].copy \cup {req[r].path}) /\ Placeholder(req[r].path)
    /\ UNCHANGED <<manifest, cache, sessionVars, historyVars>>

Unmark(r) ==
    /\ Doing(r, "unmark")
    /\ IF req[r].path \in req[r].copy
         THEN Save(r, req[r].copy \ {req[r].path})
         ELSE Finish(r)                                       \* 400
    /\ Quietly

-----------------------------------------------------------------------------
(* DirectoryDelete, DirectoryRename, and DirectoryCreate of a plain folder *)

Purge(p) ==
    /\ items' = [i \in Items |-> IF i \in Content(p) THEN Gone ELSE items[i]]
    /\ secret' = [k \in Kinds |-> secret[k] \ Content(p)]

\* Only the encrypted folders' manifest is looked at.
Delete(r) ==
    /\ Doing(r, "delete")
    /\ Purge(req[r].path)
    /\ IF req[r].path \in req[r].copy
         THEN Save(r, req[r].copy \ {req[r].path})
         ELSE Finish(r)
    /\ UNCHANGED <<manifest, cache, sessionVars, ops, clean, stale>>

\* An encrypted folder is renamed with its passphrase; for another one
\* RenameDirectory reads the manifest again, lest it has become encrypted.
Rename(r) ==
    /\ Doing(r, "rename")
    /\ \E to \in Siblings(req[r].path) :
          IF to = req[r].path
            THEN Finish(r)
            ELSE IF req[r].path \in req[r].copy
              THEN Set(r, [req[r] EXCEPT !.to = to, !.pc = "target"])
              ELSE Set(r, [req[r] EXCEPT !.op = "renamePlain", !.to = to, !.pc = "cache"])
    /\ Quietly

RenamePlain(r) ==
    /\ Doing(r, "renamePlain")
    /\ IF req[r].path \in req[r].copy THEN Finish(r) ELSE Goto(r, "target")   \* 403
    /\ Quietly

Target(r) == IF req[r].op = "mkdir" THEN req[r].path ELSE req[r].to

\* The conflict strategies: FAIL and SKIP end the request, KEEP_BOTH takes
\* another name, REPLACE empties the target of a rename.
CheckTarget(r) ==
    /\ At(r, "target")
    /\ LET next == IF req[r].op = "mkdir" THEN "place" ELSE "list"
       IN  IF Content(Target(r)) = {}
             THEN Set(r, [req[r] EXCEPT !.to = Target(r), !.pc = next])
             ELSE \/ Finish(r)
                  \/ \E free \in Siblings(Target(r)) :
                        /\ Content(free) = {}
                        /\ Set(r, [req[r] EXCEPT !.to = free, !.pc = next])
                  \/ Set(r, [req[r] EXCEPT !.to = Target(r),
                                           !.pc = IF next = "list" THEN "purge" ELSE next])
    /\ Quietly

PurgeTarget(r) ==
    /\ At(r, "purge")
    /\ Purge(req[r].to)
    /\ Goto(r, "list")
    /\ UNCHANGED <<manifest, cache, sessionVars, ops, clean, stale>>

PlaceFolder(r) ==
    /\ At(r, "place")
    /\ Placeholder(req[r].to)
    /\ Finish(r)
    /\ UNCHANGED <<manifest, cache, sessionVars, historyVars>>

ListSource(r) ==
    /\ At(r, "list")
    /\ IF Content(req[r].path) = {}
         THEN Finish(r)                                       \* 404
         ELSE Set(r, [req[r] EXCEPT !.batch = Content(req[r].path), !.pc = "move"])
    /\ Quietly

\* Copy one object and purge the original; 404 if it is no longer there.
MoveItem(r) ==
    /\ At(r, "move")
    /\ \E i \in req[r].batch :
          IF i \in Content(req[r].path)
            THEN /\ items' = [items EXCEPT ![i] = Move(@, req[r].path, req[r].to)]
                 /\ Set(r, [req[r] EXCEPT !.batch = @ \ {i}])
                 /\ UNCHANGED clean
            ELSE Finish(r) /\ clean' = FALSE /\ UNCHANGED items
    /\ UNCHANGED <<manifest, cache, sessionVars, ops, secret, stale>>

MovedAll(r) ==
    /\ At(r, "move")
    /\ req[r].batch = {}
    /\ Set(r, [req[r] EXCEPT !.op = "follow", !.kind = "encrypted",
                             !.copy = {}, !.pc = "cache"])
    /\ Quietly

\* Mutant of Follow: the folders in the renamed one keep their entries.
FollowSelfOnly(r) ==
    /\ Doing(r, "follow")
    /\ IF req[r].path \in req[r].copy
         THEN Save(r, (req[r].copy \ {req[r].path}) \cup {req[r].to})
         ELSE NextKind(r)
    /\ Quietly

\* UpdateEncryptedFoldersAfterRename, UpdateHiddenFoldersAfterRename.
Follow(r) ==
    /\ Doing(r, "follow")
    /\ IF \E p \in req[r].copy : Within(p, req[r].path)
         THEN Save(r, {Move(p, req[r].path, req[r].to) : p \in req[r].copy})
         ELSE NextKind(r)
    /\ Quietly

-----------------------------------------------------------------------------
(* Sessions: DirectoryUnlock and DirectoryReveal, DirectoryLock and        *)
(* DirectoryConceal, and the checks of other requests                      *)

\* The session of p is written, over another one that may be there: the tokens
\* that it was to accept for p and what lies in it are worth nothing any more.
SetSession(k, p, token, promised) ==
    /\ sessions' = [sessions EXCEPT ![k][p] = token]
    /\ given' = [given EXCEPT ![k] = {g \in @ : g[2] = token \/ ~Within(g[1], p)}
                                      \cup (promised \X {token})]
    /\ UNCHANGED <<items, manifest, cache, historyVars>>

\* The sessions still to be written, with the token of the first one.
OpenLater(r, paths, token) ==
    IF paths = {} THEN Finish(r)
    ELSE Set(r, [req[r] EXCEPT !.copy = paths, !.token = token, !.pc = "open"])

\* A fresh token, and the first of its sessions.
Open(r, first, others, promised) ==
    /\ issued' = issued + 1
    /\ SetSession(req[r].kind, first, issued', promised)
    /\ OpenLater(r, others, issued')

\* An unlock by the manifest as it is promises access.
Promise(r, p) == IF req[r].copy = manifest[req[r].kind] THEN {p} ELSE {}

\* Mutant of OpenAround: the session is kept for the path asked for only.
OpenAroundPathOnly(r) ==
    /\ Innermost(req[r].path, req[r].copy) # {}
    /\ Open(r, req[r].path, {}, Promise(r, req[r].path))

\* The session is kept for the innermost marked folder, and then for the path.
OpenAround(r) ==
    \E folder \in Innermost(req[r].path, req[r].copy) :
        Open(r, folder, {req[r].path} \ {folder}, Promise(r, req[r].path))

\* The second Redis call of an unlock, or the next one of RevealBelow.
OpenNext(r) ==
    /\ At(r, "open")
    /\ \E p \in req[r].copy :
          /\ SetSession(req[r].kind, p, req[r].token, {p} \cap manifest[req[r].kind])
          /\ OpenLater(r, req[r].copy \ {p}, req[r].token)
    /\ UNCHANGED issued

Unlock(r) ==
    /\ Doing(r, "unlock") /\ req[r].kind = "encrypted"
    /\ \/ OpenAround(r)
       \/ /\ Innermost(req[r].path, req[r].copy) = {}        \* 404
          /\ Finish(r)
          /\ Quietly

\* Hidden folders below the path whose passphrase fits; 404 if none does.
RevealBelow(r) ==
    /\ Innermost(req[r].path, req[r].copy) = {}
    /\ \E some \in SUBSET {q \in req[r].copy : Within(q, req[r].path)} : \E p \in some :
          Open(r, p, some \ {p}, Promise(r, p))

Reveal(r) ==
    /\ Doing(r, "unlock") /\ req[r].kind = "hidden"
    /\ OpenAround(r) \/ RevealBelow(r)

\* DeleteByPattern: gone are the sessions of p and below.
Close(k, p) ==
    /\ sessions' = [sessions EXCEPT ![k] = [q \in Paths |-> IF Within(q, p) THEN 0 ELSE @[q]]]
    /\ given' = [given EXCEPT ![k] = {g \in @ : ~Within(g[1], p)}]
    /\ UNCHANGED <<items, manifest, cache, issued, historyVars>>

Lock(r) == At(r, "lock") /\ Close(req[r].kind, req[r].path) /\ Finish(r)

\* CheckEncryptedFolderAccess, CheckHiddenFolderAccess and listings.
Check(r) == Doing(r, "check") /\ Finish(r) /\ Quietly

-----------------------------------------------------------------------------
(* Failures and time                                                       *)

Refuse(r) == At(r, "act") /\ req[r].op # "follow" /\ Finish(r) /\ Quietly

\* A call fails, or the process dies: what is done stays done.
Abort(r) ==
    /\ ~At(r, "idle") /\ ~At(r, "act")
    /\ Finish(r)
    /\ clean' = (clean /\ req[r].op \notin Writers)
    /\ stale' = IF At(r, "invalidate") THEN stale \cup {req[r].kind} ELSE stale
    /\ UNCHANGED <<items, manifest, cache, sessionVars, ops, secret>>

CacheExpires(k) ==
    /\ cache[k] # NoCache
    /\ cache' = [cache EXCEPT ![k] = NoCache]
    /\ stale' = stale \ {k}
    /\ UNCHANGED <<items, manifest, sessionVars, req, ops, clean, secret>>

SessionExpires(k) ==
    \E p \in Paths :
        /\ sessions[k][p] # 0
        /\ sessions' = [sessions EXCEPT ![k][p] = 0]
        /\ given' = [given EXCEPT ![k] = {g \in @ : ~Within(g[1], p)}]
        /\ UNCHANGED <<items, manifest, cache, issued, req, historyVars>>

-----------------------------------------------------------------------------
\* Folders are created and deleted, and renamed, whatever they are marked as.
Starts(r) ==
    \E p \in Paths :
        \/ \E k \in Kinds, op \in {"mark", "unmark", "unlock", "lock", "check"} :
              Begin(r, op, k, p)
        \/ \E op \in {"create", "mkdir", "delete", "rename"} :
              Begin(r, op, "encrypted", p)

FolderStep(r) ==
    \/ ReadCache(r) \/ ReadS3(r) \/ FillCache(r)
    \/ PutManifest(r) \/ InvalidateCache(r)
    \/ Mark(r) \/ CreateMarked(r) \/ Unmark(r) \/ Delete(r)
    \/ Rename(r) \/ RenamePlain(r) \/ CheckTarget(r) \/ PurgeTarget(r)
    \/ PlaceFolder(r) \/ ListSource(r) \/ MoveItem(r) \/ MovedAll(r) \/ Follow(r)
    \/ Unlock(r) \/ Reveal(r) \/ OpenNext(r) \/ Lock(r) \/ Check(r)

FolderNext ==
    \/ \E r \in Requests : Starts(r) \/ FolderStep(r) \/ Refuse(r) \/ Abort(r)
    \/ \E k \in Kinds : CacheExpires(k) \/ SessionExpires(k)

FolderSpec == FolderInit /\ [][FolderNext]_folderVars

-----------------------------------------------------------------------------
(* Properties                                                              *)

\* An item that was put under a mark stays under one, wherever renames take it,
\* until it is unmarked or deleted.  This asks of the requests that write that
\* they run one at a time and to their end, and that none of them works on a copy
\* of the manifest out of Redis that is not the one in S3: it would write that
\* copy back.  Requests that only read may overlap with anything.
MarksFollowContent ==
    clean /\ (\A b \in Busy : req[b].op \notin Writers) =>
        \A k \in Kinds : \A i \in secret[k] :
            items[i] # Gone => Covered(items[i], manifest[k])

\* However requests overlap, there are three ways to a manifest in Redis that is
\* not the one in S3: a request that has saved it is still to delete the key; it
\* died or failed before it could; or a request that had read the manifest before
\* the save filled the cache after it.
CacheIsFresh ==
    \A k \in Kinds :
        \/ cache[k] \in {NoCache, manifest[k]} \/ k \in stale
        \/ \E r \in Requests : At(r, "invalidate") /\ req[r].kind = k

\* "The session token allows access to folder contents": the token of an unlock
\* is the one the access check compares with, until the path or a folder around
\* it is locked, expires or is unlocked anew (the new token replaces the old
\* one), or the manifest is saved.  Where marked folders are nested the check may
\* ask for the session of another one than was opened; and an unlock that worked
\* on a manifest that was saved meanwhile promises nothing.
UnlockOpens ==
    \A k \in Kinds : \A g \in given[k], f \in manifest[k] :
        {q \in manifest[k] : Within(g[1], q)} = {f} => sessions[k][f] = g[2]

=============================================================================
