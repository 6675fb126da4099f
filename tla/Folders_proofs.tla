---------------------------- MODULE Folders_proofs ----------------------------
(***************************************************************************)
(* Proofs about FolderManifest, for any directories, objects and number of *)
(* requests: what was put under a mark stays under one while the requests  *)
(* that write run one at a time (MarksFollowContent); however requests     *)
(* overlap, a cached manifest that is not the one in S3 has one of three   *)
(* causes (CacheIsFresh), and the token of an unlock is accepted until     *)
(* something named undoes it (UnlockOpens).                                *)
(*                                                                         *)
(* Each has an invariant of its own.  FolderInv says at every step of a    *)
(* writing request what it has read and what it is about to write (Sure),  *)
(* and says nothing of the cache, which readers may fill with anything     *)
(* old.  The heart of it is the rename: while objects move, and until the  *)
(* manifest of their kind is rewritten, each of them was under a mark      *)
(* where it was before (Moved); that it is under one again afterwards is a *)
(* fact about paths (MoveTogether): marks and objects that are moved alike *)
(* stay within one another.                                                *)
(*                                                                         *)
(* CacheIsFresh is inductive given those types (CacheApart).  So is        *)
(* UnlockOpens with the types of the sessions (SessionInv): it rests on    *)
(* "within" being a partial order (WithinItself, WithinWithin).            *)
(***************************************************************************)
EXTENDS FolderManifest, SequenceTheorems, TLAPS

-----------------------------------------------------------------------------
(* The lengths and the parts of paths, and renames                         *)

Names == UNION {{p[i] : i \in DOMAIN p} : p \in Paths}

\* A path lies within another one if it agrees with it on its whole length.
LEMMA PathsAreSeqs ==
  ASSUME NEW p \in Paths
  PROVE  /\ Len(p) \in Nat /\ DOMAIN p = 1..Len(p)
         /\ p \in Seq(Names)
<1>1. p \in Seq(Names)
  BY FolderAssumption DEF Names
<1>2. Len(p) \in Nat /\ DOMAIN p = 1..Len(p)
  BY <1>1
<1> QED BY <1>1, <1>2

LEMMA WithinIff ==
  ASSUME NEW p \in Paths, NEW q \in Paths
  PROVE  Within(p, q) <=> Len(q) <= Len(p) /\ \A i \in 1..Len(q) : p[i] = q[i]
<1>1. p \in Seq(Names)
  BY PathsAreSeqs
<1>2. q \in Seq(Names)
  BY PathsAreSeqs
<1>3. Len(p) \in Nat /\ Len(q) \in Nat
  BY PathsAreSeqs
<1>4. CASE Len(q) <= Len(p)
  <2>1. /\ SubSeq(p, 1, Len(q)) \in Seq(Names) /\ Len(SubSeq(p, 1, Len(q))) = Len(q)
        /\ \A i \in 1..Len(q) : SubSeq(p, 1, Len(q))[i] = p[i]
    BY <1>1, <1>3, <1>4
  <2>2. SubSeq(p, 1, Len(q)) = q <=> \A i \in 1..Len(q) : p[i] = q[i]
    BY <1>2, <1>3, <2>1
  <2> QED BY <1>4, <2>2 DEF Within
<1>5. CASE ~(Len(q) <= Len(p))
  BY <1>5 DEF Within
<1> QED BY <1>4, <1>5

LEMMA WithinItself == ASSUME NEW p \in Paths PROVE Within(p, p)
BY WithinIff, PathsAreSeqs

LEMMA WithinWithin ==
  ASSUME NEW p \in Paths, NEW q \in Paths, NEW o \in Paths, Within(p, q), Within(q, o)
  PROVE  Within(p, o)
<1>1. Len(p) \in Nat /\ Len(q) \in Nat /\ Len(o) \in Nat
  BY PathsAreSeqs
<1>2. Len(o) <= Len(p) /\ \A i \in 1..Len(o) : i \in 1..Len(q)
  BY <1>1, WithinIff
<1>3. \A i \in 1..Len(o) : p[i] = o[i]
  BY <1>2, WithinIff
<1> QED BY <1>2, <1>3, WithinIff

LEMMA SiblingsAre ==
  ASSUME NEW p \in Paths, NEW to \in Siblings(p)
  PROVE  to \in Paths /\ Len(to) = Len(p) /\ \A i \in 1..(Len(p) - 1) : to[i] = p[i]
<1>1. p \in Seq(Names)
  BY PathsAreSeqs
<1>2. to \in Paths /\ Len(to) = Len(p)
  BY DEF Siblings
<1>3. to \in Seq(Names)
  BY <1>2, PathsAreSeqs
<1>4. Len(p) \in Nat
  BY PathsAreSeqs
<1>5. SubSeq(to, 1, Len(to) - 1) = SubSeq(p, 1, Len(p) - 1)
  BY DEF Siblings
<1>6. ASSUME NEW i \in 1..(Len(p) - 1) PROVE to[i] = p[i]
  <2>1. SubSeq(to, 1, Len(to) - 1)[i] = to[i]
    BY <1>2, <1>3, <1>4
  <2>2. SubSeq(p, 1, Len(p) - 1)[i] = p[i]
    BY <1>1, <1>4
  <2> QED BY <1>5, <2>1, <2>2
<1> QED BY <1>2, <1>6

\* A path that is moved keeps its length; the part that is renamed is replaced.
LEMMA MoveIs ==
  ASSUME NEW p \in Paths, NEW from \in Paths, NEW to \in Siblings(from), Within(p, from)
  PROVE  /\ Move(p, from, to) \in Paths /\ Len(Move(p, from, to)) = Len(p)
         /\ \A i \in 1..Len(p) : Move(p, from, to)[i] = IF i <= Len(from) THEN to[i] ELSE p[i]
<1>1. p \in Seq(Names)
  BY PathsAreSeqs
<1>2. to \in Paths /\ Len(to) = Len(from)
  BY SiblingsAre
<1>3. to \in Seq(Names)
  BY <1>2, PathsAreSeqs
<1>4. Len(p) \in Nat /\ Len(from) \in Nat /\ Len(from) <= Len(p)
  BY PathsAreSeqs, WithinIff
<1>5. PICK rest : rest = SubSeq(p, Len(from) + 1, Len(p))
  OBVIOUS
<1>6. /\ rest \in Seq(Names) /\ Len(rest) = Len(p) - Len(from)
      /\ \A i \in 1..Len(rest) : rest[i] = p[Len(from) + i]
  BY <1>1, <1>4, <1>5
<1>7. Move(p, from, to) = to \o rest
  BY <1>5 DEF Move
<1>8. /\ Len(to \o rest) = Len(to) + Len(rest)
      /\ \A i \in 1..(Len(to) + Len(rest)) :
            (to \o rest)[i] = IF i <= Len(to) THEN to[i] ELSE rest[i - Len(to)]
  BY <1>3, <1>6, ConcatProperties
<1>9. ASSUME NEW i \in 1..Len(p)
      PROVE  Move(p, from, to)[i] = IF i <= Len(from) THEN to[i] ELSE p[i]
  <2>1. i \in 1..(Len(to) + Len(rest))
    BY <1>2, <1>4, <1>6
  <2>2. (to \o rest)[i] = IF i <= Len(to) THEN to[i] ELSE rest[i - Len(to)]
    BY <1>8, <2>1
  <2>3. ASSUME ~(i <= Len(to)) PROVE rest[i - Len(to)] = p[i]
    <3>1. i - Len(to) \in 1..Len(rest) /\ Len(from) + (i - Len(to)) = i
      BY <1>2, <1>4, <1>6, <2>3
    <3> QED BY <1>6, <3>1
  <2> QED BY <1>2, <1>7, <2>2, <2>3
<1>10. Len(to \o rest) = Len(p)
  BY <1>2, <1>4, <1>6, <1>8
<1> QED BY <1>7, <1>9, <1>10, PathsAreClosed

LEMMA MovedIsAPath ==
  ASSUME NEW p \in Paths, NEW from \in Paths, NEW to \in Siblings(from)
  PROVE  Move(p, from, to) \in Paths
BY PathsAreClosed

\* What is covered stays covered when paths and marks are moved alike: a mark on
\* the way to the renamed directory is on the way to its new name as well.
LEMMA MoveTogether ==
  ASSUME NEW p \in Paths, NEW q \in Paths, NEW from \in Paths, NEW to \in Siblings(from),
         Within(p, q)
  PROVE  Within(Move(p, from, to), Move(q, from, to))
<1>1. Len(p) \in Nat /\ Len(q) \in Nat /\ Len(from) \in Nat
  BY PathsAreSeqs
<1>2. Len(q) <= Len(p) /\ \A i \in 1..Len(q) : p[i] = q[i]
  BY WithinIff
<1>3. CASE Within(q, from)
  <2>1. Within(p, from)
    BY <1>3, WithinWithin
  <2>2. Len(Move(q, from, to)) <= Len(Move(p, from, to))
    BY <1>2, <1>3, <2>1, MoveIs
  <2>3. \A i \in 1..Len(q) : i \in 1..Len(p)
    BY <1>1, <1>2
  <2>4. \A i \in 1..Len(q) : Move(p, from, to)[i] = Move(q, from, to)[i]
    BY <1>2, <1>3, <2>1, <2>3, MoveIs
  <2>5. Len(Move(q, from, to)) = Len(q)
    BY <1>3, MoveIs
  <2>6. Move(p, from, to) \in Paths /\ Move(q, from, to) \in Paths
    BY MovedIsAPath
  <2> QED BY <2>2, <2>4, <2>5, <2>6, WithinIff
<1>4. CASE ~Within(q, from) /\ ~Within(p, from)
  BY <1>4 DEF Move
<1>5. CASE ~Within(q, from) /\ Within(p, from)
  <2>1. \A i \in 1..Len(from) : p[i] = from[i]
    BY <1>5, WithinIff
  <2>2. Len(q) < Len(from)
    <3> SUFFICES ASSUME Len(from) <= Len(q) PROVE FALSE
      BY <1>1
    <3>1. \A i \in 1..Len(from) : i \in 1..Len(q)
      BY <1>1
    <3>2. \A i \in 1..Len(from) : q[i] = from[i]
      BY <1>2, <2>1, <3>1
    <3> QED BY <1>5, <3>2, WithinIff
  <2>3. \A i \in 1..Len(q) : i \in 1..(Len(from) - 1) /\ i \in 1..Len(p) /\ i <= Len(from)
                             /\ i \in 1..Len(from)
    BY <1>1, <1>2, <2>2
  <2>4. \A i \in 1..Len(q) : Move(p, from, to)[i] = to[i] /\ to[i] = from[i] /\ from[i] = q[i]
    BY <1>2, <1>5, <2>1, <2>3, MoveIs, SiblingsAre
  <2>5. Move(q, from, to) = q /\ Len(q) <= Len(Move(p, from, to))
    BY <1>2, <1>5, MoveIs DEF Move
  <2>6. Move(p, from, to) \in Paths
    BY MovedIsAPath
  <2> QED BY <2>4, <2>5, <2>6, WithinIff
<1> QED BY <1>3, <1>4, <1>5

-----------------------------------------------------------------------------
(* The inductive invariant                                                 *)

ReqRecords == [op : Writers \cup Readers \cup {"none", "lock"}, kind : Kinds,
               path : Paths \cup {NoPath}, to : Paths \cup {NoPath},
               copy : SUBSET Paths, batch : SUBSET Items, token : Nat, pc : Pcs]

\* What a kind of request may be doing, and what it then works on.
Shaped(q) ==
    /\ q.pc = "idle" => q = Idle
    /\ q.pc # "idle" => q.op # "none" /\ q.path \in Paths
    /\ q.pc = "lock" <=> q.op = "lock"
    /\ q.pc \in {"put", "invalidate"} => q.op \in {"mark", "unmark", "create", "delete", "follow"}
    /\ q.pc \in {"target", "place"} => q.op \in {"rename", "renamePlain", "mkdir"}
    /\ q.pc \in {"purge", "list", "move"} => q.op \in {"rename", "renamePlain"}
    /\ q.pc = "place" => q.op = "mkdir" /\ q.to \in Paths
    /\ q.pc = "open" => q.op = "unlock"
    /\ q.op = "mkdir" => q.pc \in {"target", "place"}
    /\ \/ q.op \in {"renamePlain", "follow"} \/ q.pc \in {"purge", "list", "move"}
       \/ q.pc = "target" /\ q.op = "rename"
       => q.to \in Siblings(q.path)
    /\ q.op \in {"create", "delete"} => q.kind = "encrypted"
    /\ q.op = "follow" => q.batch = {}

\* A rename has moved objects whose marks do not follow yet.
Pending(q, k) ==
    \/ q.pc = "move"
    \/ q.op = "follow" /\ \/ q.kind = k /\ q.pc # "invalidate"
                          \/ q.kind = "encrypted" /\ k = "hidden"

Kept(k, at, marked, sec) == \A i \in sec[k] : Covered(at[i], marked[k])

\* What was moved was covered where it was before.
Moved(q, k, at, marked, sec) ==
    \A i \in sec[k] :
       IF i \in q.batch THEN Covered(at[i], marked[k])
       ELSE \E p \in Paths : Covered(p, marked[k]) /\ at[i] = Move(p, q.path, q.to)

\* The manifest that is about to be written.
Prepared(q, at, marked, sec) ==
    /\ q.op \in {"mark", "create"} => q.copy = marked[q.kind] \cup {q.path}
    /\ q.op \in {"unmark", "delete"} => q.copy = marked[q.kind] \ {q.path}
    /\ q.op = "delete" => \A i \in sec[q.kind] : ~Within(at[i], q.path)
    /\ q.op = "follow" => q.copy = {Move(p, q.path, q.to) : p \in marked[q.kind]}

\* What is true of a request that writes while no other one does.
Sure(q, at, marked, sec) ==
    /\ q.pc \in {"fill", "act"} => q.copy = marked[q.kind]
    /\ q.pc = "put" => Prepared(q, at, marked, sec)
    /\ \A k \in Kinds :
          IF Pending(q, k) THEN Moved(q, k, at, marked, sec) ELSE Kept(k, at, marked, sec)

Present(at, sec) == \A k \in Kinds : \A i \in sec[k] : at[i] # Gone

Working(r) == req[r].pc # "idle"
Writing(r) == req[r].op \in Writers

Typed ==
    /\ items \in [Items -> Paths \cup {Gone}]
    /\ manifest \in [Kinds -> SUBSET Paths]
    /\ cache \in [Kinds -> {NoCache} \cup SUBSET Paths]
    /\ req \in [Requests -> ReqRecords]
    /\ secret \in [Kinds -> SUBSET Items]
    /\ clean \in BOOLEAN

FolderInv ==
    /\ Typed
    /\ \A r \in Requests : Shaped(req[r])
    /\ Present(items, secret)
    /\ clean =>
          /\ \A r, s \in Requests : Writing(r) /\ Writing(s) => r = s
          /\ \A r \in Requests : Writing(r) => Sure(req[r], items, manifest, secret)
          /\ (\A r \in Requests : ~Writing(r)) => Sure(Idle, items, manifest, secret)

-----------------------------------------------------------------------------
(* Steps in general                                                        *)

LEMMA IdleIs ==
  /\ Idle \in ReqRecords /\ Shaped(Idle) /\ Idle.op = "none" /\ Idle.pc = "idle"
  /\ Idle.kind = "encrypted" /\ Idle.copy = {} /\ Idle.batch = {} /\ Idle.op \notin Writers
  /\ \A k : ~Pending(Idle, k)
BY DEF Idle, ReqRecords, Shaped, Pending, Kinds, Writers, Readers, Pcs

\* What the invariant says of a request.
LEMMA Known ==
  ASSUME FolderInv, NEW r \in Requests, NEW q, q = req[r]
  PROVE  /\ Typed /\ q \in ReqRecords /\ Shaped(q)
         /\ q.op \in Writers \cup Readers \cup {"none", "lock"} /\ q.kind \in Kinds
         /\ q.copy \subseteq Paths /\ q.batch \subseteq Items /\ q.token \in Nat
         /\ items \in [Items -> Paths \cup {Gone}] /\ manifest \in [Kinds -> SUBSET Paths]
         /\ cache \in [Kinds -> {NoCache} \cup SUBSET Paths]
         /\ secret \in [Kinds -> SUBSET Items]
         /\ clean \in BOOLEAN /\ Present(items, secret)
         /\ q.pc # "idle" => q.path \in Paths
         /\ q.op \in Writers => q.pc # "idle"
         /\ clean /\ q.op \in Writers => Sure(q, items, manifest, secret)
<1>1. Typed /\ q \in ReqRecords /\ Shaped(q)
  BY DEF FolderInv, Typed
<1>2. q.op \in Writers => q.pc # "idle"
  BY <1>1, IdleIs DEF Shaped
<1> QED BY <1>1, <1>2 DEF FolderInv, Typed, ReqRecords, Writing, Shaped

LEMMA OneStep ==
  ASSUME FolderInv, NEW r \in Requests, NEW new \in ReqRecords, Set(r, new), Shaped(new),
         items' \in [Items -> Paths \cup {Gone}], manifest' \in [Kinds -> SUBSET Paths],
         cache' \in [Kinds -> {NoCache} \cup SUBSET Paths],
         secret' \in [Kinds -> SUBSET Items], clean' \in BOOLEAN,
         Present(items', secret'),
         clean' => clean,
         clean' /\ req[r].op \in Writers =>
             /\ Sure(new, items', manifest', secret')
             /\ new.op \in Writers \/ new = Idle,
         clean' /\ req[r].op \notin Writers =>
             /\ new.op \notin Writers
             /\ items' = items /\ manifest' = manifest /\ secret' = secret
  PROVE  FolderInv'
<1>1. req \in [Requests -> ReqRecords]
  BY DEF FolderInv, Typed
<1>2. /\ req' \in [Requests -> ReqRecords] /\ req'[r] = new
      /\ \A s \in Requests \ {r} : req'[s] = req[s]
  BY <1>1 DEF Set
<1>3. Typed'
  BY <1>2 DEF Typed, ReqRecords
<1>4. \A s \in Requests : Shaped(req'[s])
  BY <1>2 DEF FolderInv
<1>5. /\ Present(items, secret)' <=> Present(items', secret')
      /\ Idle' = Idle
  BY DEF Present, Idle
<1>6. CASE clean' /\ req[r].op \in Writers
  <2>1. \A s \in Requests \ {r} : req'[s].op \notin Writers
    BY <1>2, <1>6 DEF FolderInv, Writing
  <2> QED BY <1>2, <1>3, <1>4, <1>5, <1>6, <2>1, IdleIs DEF FolderInv, Writing
<1>7. CASE clean' /\ req[r].op \notin Writers
  <2>1. \A s \in Requests : /\ req'[s].op \in Writers <=> req[s].op \in Writers
                            /\ req[s].op \in Writers => req'[s] = req[s]
    BY <1>2, <1>7
  <2> QED BY <1>3, <1>4, <1>5, <1>7, <2>1 DEF FolderInv, Writing
<1>8. CASE ~clean'
  BY <1>3, <1>4, <1>5, <1>8 DEF FolderInv
<1> QED BY <1>6, <1>7, <1>8

\* Nothing but the request changes, and it is as far with the marks as before.
LEMMA Carried ==
  ASSUME NEW q \in ReqRecords, NEW new \in ReqRecords, NEW at, NEW marked, NEW sec,
         Sure(q, at, marked, sec),
         new.pc \in {"fill", "act"} => new.copy = marked[new.kind],
         new.pc = "put" => Prepared(new, at, marked, sec),
         \A k \in Kinds : Pending(new, k) <=> Pending(q, k),
         (\E k \in Kinds : Pending(q, k)) =>
             new.batch = q.batch /\ new.path = q.path /\ new.to = q.to
  PROVE  Sure(new, at, marked, sec)
<1> QED BY DEF Sure, Moved

LEMMA QuietStep ==
  ASSUME FolderInv, NEW r \in Requests, NEW q, q = req[r],
         NEW new \in ReqRecords, Set(r, new), Shaped(new),
         UNCHANGED <<items, manifest, secret>>,
         cache' \in [Kinds -> {NoCache} \cup SUBSET Paths],
         clean' \in BOOLEAN, clean' => clean,
         IF q.op \in Writers THEN new.op \in Writers \/ new = Idle ELSE new.op \notin Writers,
         clean' /\ q.op \in Writers /\ new.pc \in {"fill", "act"} =>
             new.copy = manifest[new.kind],
         clean' /\ q.op \in Writers /\ new.pc = "put" =>
             Prepared(new, items, manifest, secret),
         q.op \in Writers =>
             /\ \A k \in Kinds : Pending(new, k) <=> Pending(q, k)
             /\ (\E k \in Kinds : Pending(q, k)) =>
                    new.batch = q.batch /\ new.path = q.path /\ new.to = q.to
  PROVE  FolderInv'
<1>1. clean' /\ q.op \in Writers => Sure(new, items, manifest, secret)
  BY Known, Carried
<1>2. /\ items' = items /\ manifest' = manifest /\ secret' = secret
      /\ items \in [Items -> Paths \cup {Gone}] /\ manifest \in [Kinds -> SUBSET Paths]
      /\ secret \in [Kinds -> SUBSET Items] /\ Present(items, secret)
  BY Known
<1> QED BY <1>1, <1>2, OneStep

\* A request goes on with nothing but its own state, or ends.
LEMMA QuietlyIs ==
  ASSUME FolderInv, Quietly
  PROVE  /\ UNCHANGED <<items, manifest, secret>> /\ clean' \in BOOLEAN /\ (clean' => clean)
         /\ items' = items /\ manifest' = manifest /\ secret' = secret
         /\ cache' = cache /\ clean' = clean
         /\ cache' \in [Kinds -> {NoCache} \cup SUBSET Paths]
BY DEF FolderInv, Typed, Quietly, historyVars

\* A request ends that has nothing left to follow and leaves what the marks are
\* about alone.
LEMMA Ends ==
  ASSUME FolderInv, NEW r \in Requests, Finish(r), UNCHANGED <<items, manifest, secret>>,
         cache' \in [Kinds -> {NoCache} \cup SUBSET Paths],
         clean' \in BOOLEAN, clean' => clean,
         req[r].pc # "move", req[r].op # "follow"
  PROVE  FolderInv'
<1>1. Set(r, Idle) /\ \A k : ~Pending(req[r], k)
  BY DEF Finish, Pending
<1> QED BY <1>1, IdleIs, QuietStep

LEMMA FolderInitInv == FolderInit => FolderInv
<1> SUFFICES ASSUME FolderInit PROVE FolderInv
  OBVIOUS
<1>1. Typed
  BY IdleIs DEF FolderInit, Typed
<1>2. \A r \in Requests : Shaped(req[r]) /\ ~Writing(r)
  BY IdleIs DEF FolderInit, Writing
<1>3. Present(items, secret)
  BY DEF FolderInit, Present
<1>4. Sure(Idle, items, manifest, secret)
  BY IdleIs DEF FolderInit, Sure, Kept
<1> QED BY <1>1, <1>2, <1>3, <1>4 DEF FolderInv

-----------------------------------------------------------------------------
(* Reading and caching a manifest                                          *)

\* A request that only goes on is shaped as before.
LEMMA ReadCacheInv ==
  ASSUME FolderInv, NEW r \in Requests, ReadCache(r) PROVE FolderInv'
<1>1. PICK q : q = req[r]
  OBVIOUS
<1>2. q \in ReqRecords /\ Shaped(q) /\ q.pc = "cache" /\ q.kind \in Kinds
  BY <1>1, Known DEF ReadCache, At
<1>3. /\ UNCHANGED <<items, manifest, secret>>
      /\ cache' \in [Kinds -> {NoCache} \cup SUBSET Paths]
      /\ cache \in [Kinds -> {NoCache} \cup SUBSET Paths] /\ clean \in BOOLEAN
  BY <1>1, Known DEF ReadCache
<1>4. CASE cache[q.kind] = NoCache
  <2>1. PICK new : new = [q EXCEPT !.pc = "s3"]
    OBVIOUS
  <2>2. Set(r, new) /\ clean' = clean
    BY <1>1, <1>4, <2>1 DEF ReadCache, Goto
  <2>3. new \in ReqRecords /\ Shaped(new)
    BY <1>2, <2>1 DEF ReqRecords, Shaped, Pcs
  <2>4. /\ new.pc = "s3" /\ new.op = q.op /\ new.kind = q.kind /\ new.batch = q.batch
        /\ new.path = q.path /\ new.to = q.to
    BY <1>2, <2>1 DEF ReqRecords
  <2>5. \A k \in Kinds : Pending(new, k) <=> Pending(q, k)
    BY <1>2, <2>4 DEF Pending
  <2> QED BY <1>1, <1>2, <1>3, <2>2, <2>3, <2>4, <2>5, QuietStep
<1>5. CASE cache[q.kind] # NoCache
  <2>1. PICK new : new = [q EXCEPT !.copy = cache[q.kind], !.pc = "act"]
    OBVIOUS
  <2>2. /\ Set(r, new)
        /\ clean' = (clean /\ (q.op \in Writers => cache[q.kind] = manifest[q.kind]))
    BY <1>1, <1>5, <2>1 DEF ReadCache
  <2>3. new \in ReqRecords /\ Shaped(new)
    BY <1>2, <1>3, <1>5, <2>1 DEF ReqRecords, Shaped, Pcs
  <2>4. /\ new.pc = "act" /\ new.op = q.op /\ new.kind = q.kind /\ new.batch = q.batch
        /\ new.path = q.path /\ new.to = q.to /\ new.copy = cache[q.kind]
    BY <1>2, <2>1 DEF ReqRecords
  <2>5. \A k \in Kinds : Pending(new, k) <=> Pending(q, k)
    BY <1>2, <2>4 DEF Pending
  <2>6. /\ clean' \in BOOLEAN /\ (clean' => clean)
        /\ clean' /\ q.op \in Writers => new.copy = manifest[new.kind]
    BY <1>3, <2>2, <2>4
  <2> QED BY <1>1, <1>2, <1>3, <2>2, <2>3, <2>4, <2>5, <2>6, QuietStep
<1> QED BY <1>4, <1>5

LEMMA ReadS3Inv ==
  ASSUME FolderInv, NEW r \in Requests, ReadS3(r) PROVE FolderInv'
<1>1. PICK q : q = req[r]
  OBVIOUS
<1>2. q \in ReqRecords /\ Shaped(q) /\ q.pc = "s3" /\ q.kind \in Kinds
  BY <1>1, Known DEF ReadS3, At
<1>3. manifest \in [Kinds -> SUBSET Paths]
  BY Known
<1>4. PICK new : new = [q EXCEPT !.copy = manifest[q.kind], !.pc = "fill"]
  OBVIOUS
<1>5. Set(r, new) /\ Quietly
  BY <1>1, <1>4 DEF ReadS3
<1>6. new \in ReqRecords /\ Shaped(new)
  BY <1>2, <1>3, <1>4 DEF ReqRecords, Shaped, Pcs
<1>7. /\ new.pc = "fill" /\ new.op = q.op /\ new.kind = q.kind /\ new.batch = q.batch
      /\ new.path = q.path /\ new.to = q.to /\ new.copy = manifest[q.kind]
  BY <1>2, <1>4 DEF ReqRecords
<1>8. \A k \in Kinds : Pending(new, k) <=> Pending(q, k)
  BY <1>2, <1>7 DEF Pending
<1> QED BY <1>1, <1>2, <1>5, <1>6, <1>7, <1>8, QuietlyIs, QuietStep

LEMMA FillCacheInv ==
  ASSUME FolderInv, NEW r \in Requests, FillCache(r) PROVE FolderInv'
<1>1. PICK q : q = req[r]
  OBVIOUS
<1>2. /\ q \in ReqRecords /\ Shaped(q) /\ q.pc = "fill" /\ q.kind \in Kinds
      /\ q.copy \subseteq Paths
  BY <1>1, Known DEF FillCache, At
<1>3. PICK new : new = [q EXCEPT !.pc = "act"]
  OBVIOUS
<1>4. Set(r, new)
  BY <1>1, <1>3 DEF FillCache, Goto
<1>5. new \in ReqRecords /\ Shaped(new)
  BY <1>2, <1>3 DEF ReqRecords, Shaped, Pcs
<1>6. /\ new.pc = "act" /\ new.op = q.op /\ new.kind = q.kind /\ new.batch = q.batch
      /\ new.path = q.path /\ new.to = q.to /\ new.copy = q.copy
  BY <1>2, <1>3 DEF ReqRecords
<1>7. \A k \in Kinds : Pending(new, k) <=> Pending(q, k)
  BY <1>2, <1>6 DEF Pending
<1>8. /\ UNCHANGED <<items, manifest, secret>> /\ clean' = clean /\ clean \in BOOLEAN
      /\ cache \in [Kinds -> {NoCache} \cup SUBSET Paths]
      /\ cache' = [cache EXCEPT ![q.kind] = q.copy]
  BY <1>1, Known DEF FillCache
<1>9. cache' \in [Kinds -> {NoCache} \cup SUBSET Paths]
  BY <1>2, <1>8
<1>10. clean /\ q.op \in Writers => q.copy = manifest[q.kind]
  BY <1>1, <1>2, Known DEF Sure
<1> QED BY <1>1, <1>2, <1>4, <1>5, <1>6, <1>7, <1>8, <1>9, <1>10, QuietStep

\* A request that goes to save a manifest.
Saving(q, marked) == [q EXCEPT !.copy = marked, !.pc = "put"]

LEMMA Saves ==
  ASSUME FolderInv, NEW r \in Requests, NEW q, q = req[r], NEW marked, marked \subseteq Paths,
         q.pc = "act", q.op \in {"mark", "unmark", "create", "delete", "follow"},
         Save(r, marked), NEW new, new = Saving(q, marked)
  PROVE  /\ Set(r, new) /\ new \in ReqRecords /\ Shaped(new)
         /\ new.pc = "put" /\ new.op = q.op /\ new.kind = q.kind /\ new.batch = q.batch
         /\ new.path = q.path /\ new.to = q.to /\ new.copy = marked
         /\ \A k \in Kinds : Pending(new, k) <=> Pending(q, k)
<1>1. q \in ReqRecords /\ Shaped(q)
  BY Known
<1>2. /\ new.pc = "put" /\ new.op = q.op /\ new.kind = q.kind /\ new.batch = q.batch
      /\ new.path = q.path /\ new.to = q.to /\ new.copy = marked
  BY <1>1 DEF ReqRecords, Saving
<1>3. new \in ReqRecords
  BY <1>1 DEF ReqRecords, Pcs, Saving
<1>4. Set(r, new)
  BY DEF Save, Saving
<1>5. \A k \in Kinds : Pending(new, k) <=> Pending(q, k)
  BY <1>1, <1>2 DEF Pending
<1>6. Shaped(new)
  BY <1>1, <1>2 DEF Shaped
<1> QED BY <1>2, <1>3, <1>4, <1>5, <1>6

-----------------------------------------------------------------------------
(* Marks, creations and deletions                                          *)

LEMMA MarkInv ==
  ASSUME FolderInv, NEW r \in Requests, Mark(r) PROVE FolderInv'
<1>1. PICK q : q = req[r]
  OBVIOUS
<1>2. /\ q \in ReqRecords /\ q.pc = "act" /\ q.op = "mark" /\ q.op \in Writers /\ q.kind \in Kinds
      /\ q.copy \subseteq Paths /\ q.path \in Paths
  BY <1>1, Known DEF Mark, Doing, At, Writers
<1>3. CASE Finish(r)
  BY <1>1, <1>2, <1>3, Ends, QuietlyIs DEF Mark
<1>4. CASE Save(r, q.copy \cup {q.path})
  <2>1. PICK marked : marked = q.copy \cup {q.path}
    OBVIOUS
  <2>2. marked \subseteq Paths /\ Save(r, marked)
    BY <1>2, <2>1, <1>4
  <2>3. PICK new : new = Saving(q, marked)
    OBVIOUS
  <2>4. /\ Set(r, new) /\ new \in ReqRecords /\ Shaped(new)
        /\ new.pc = "put" /\ new.op = q.op /\ new.kind = q.kind /\ new.batch = q.batch
        /\ new.path = q.path /\ new.to = q.to /\ new.copy = marked
        /\ \A k \in Kinds : Pending(new, k) <=> Pending(q, k)
    BY ONLY FolderInv, r \in Requests, <1>1, <1>2, <2>2, <2>3, Saves
  <2>5. clean => Prepared(new, items, manifest, secret)
    BY <1>1, <1>2, <2>1, <2>4, Known DEF Prepared, Sure
  <2> QED BY <1>1, <1>2, <2>4, <2>5, QuietlyIs, QuietStep DEF Mark
<1> QED BY <1>1, <1>3, <1>4 DEF Mark

LEMMA UnmarkInv ==
  ASSUME FolderInv, NEW r \in Requests, Unmark(r) PROVE FolderInv'
<1>1. PICK q : q = req[r]
  OBVIOUS
<1>2. /\ q \in ReqRecords /\ q.pc = "act" /\ q.op = "unmark" /\ q.op \in Writers /\ q.kind \in Kinds
      /\ q.copy \subseteq Paths /\ q.path \in Paths
  BY <1>1, Known DEF Unmark, Doing, At, Writers
<1>3. CASE Finish(r)
  BY <1>1, <1>2, <1>3, Ends, QuietlyIs DEF Unmark
<1>4. CASE Save(r, q.copy \ {q.path})
  <2>1. PICK marked : marked = q.copy \ {q.path}
    OBVIOUS
  <2>2. marked \subseteq Paths /\ Save(r, marked)
    BY <1>2, <2>1, <1>4
  <2>3. PICK new : new = Saving(q, marked)
    OBVIOUS
  <2>4. /\ Set(r, new) /\ new \in ReqRecords /\ Shaped(new)
        /\ new.pc = "put" /\ new.op = q.op /\ new.kind = q.kind /\ new.batch = q.batch
        /\ new.path = q.path /\ new.to = q.to /\ new.copy = marked
        /\ \A k \in Kinds : Pending(new, k) <=> Pending(q, k)
    BY ONLY FolderInv, r \in Requests, <1>1, <1>2, <2>2, <2>3, Saves
  <2>5. clean => Prepared(new, items, manifest, secret)
    BY <1>1, <1>2, <2>1, <2>4, Known DEF Prepared, Sure
  <2> QED BY <1>1, <1>2, <2>4, <2>5, QuietlyIs, QuietStep DEF Unmark
<1> QED BY <1>1, <1>3, <1>4 DEF Unmark

\* A placeholder is no item that was marked.
LEMMA Placed ==
  ASSUME FolderInv, NEW p \in Paths, Placeholder(p)
  PROVE  /\ items' \in [Items -> Paths \cup {Gone}]
         /\ \A k \in Kinds : \A i \in secret[k] : items'[i] = items[i]
<1>1. items \in [Items -> Paths \cup {Gone}] /\ secret \in [Kinds -> SUBSET Items]
  BY DEF FolderInv, Typed
<1> QED BY <1>1 DEF Placeholder, FolderInv, Present

LEMMA SameItems ==
  ASSUME NEW q \in ReqRecords, NEW at, NEW now, NEW marked, NEW sec,
         \A k \in Kinds : \A i \in sec[k] : now[i] = at[i],
         Sure(q, at, marked, sec)
  PROVE  Sure(q, now, marked, sec)
<1>1. \A k \in Kinds : Kept(k, at, marked, sec) => Kept(k, now, marked, sec)
  BY DEF Kept
<1>2. \A k \in Kinds : Moved(q, k, at, marked, sec) => Moved(q, k, now, marked, sec)
  BY DEF Moved
<1>3. q.kind \in Kinds
  BY DEF ReqRecords
<1>4. Prepared(q, at, marked, sec) => Prepared(q, now, marked, sec)
  BY <1>3 DEF Prepared
<1> QED BY <1>1, <1>2, <1>4 DEF Sure

LEMMA CreateMarkedInv ==
  ASSUME FolderInv, NEW r \in Requests, CreateMarked(r) PROVE FolderInv'
<1>1. PICK q : q = req[r]
  OBVIOUS
<1>2. /\ q \in ReqRecords /\ q.pc = "act" /\ q.op = "create" /\ q.op \in Writers /\ q.kind \in Kinds
      /\ q.copy \subseteq Paths /\ q.path \in Paths
  BY <1>1, Known DEF CreateMarked, Doing, At, Writers
<1>3. CASE Finish(r) /\ UNCHANGED items
  <2>1. Quietly
    BY <1>3 DEF CreateMarked, Quietly
  <2> QED BY <1>1, <1>2, <1>3, <2>1, Ends, QuietlyIs
<1>4. CASE Save(r, q.copy \cup {q.path}) /\ Placeholder(q.path)
  <2>1. PICK marked : marked = q.copy \cup {q.path}
    OBVIOUS
  <2>2. marked \subseteq Paths /\ Save(r, marked)
    BY <1>2, <2>1, <1>4
  <2>3. PICK new : new = Saving(q, marked)
    OBVIOUS
  <2>4. /\ Set(r, new) /\ new \in ReqRecords /\ Shaped(new)
        /\ new.pc = "put" /\ new.op = q.op /\ new.kind = q.kind /\ new.batch = q.batch
        /\ new.path = q.path /\ new.to = q.to /\ new.copy = marked
        /\ \A k \in Kinds : Pending(new, k) <=> Pending(q, k)
    BY ONLY FolderInv, r \in Requests, <1>1, <1>2, <2>2, <2>3, Saves
  <2>5. clean => Sure(q, items, manifest, secret)
    BY <1>1, <1>2, Known
  <2>6. clean => Sure(new, items, manifest, secret)
    <3>1. clean => Prepared(new, items, manifest, secret)
      BY <1>2, <2>1, <2>4, <2>5 DEF Prepared, Sure
    <3> QED BY <1>2, <2>4, <2>5, <3>1, Carried
  <2>7. /\ items' \in [Items -> Paths \cup {Gone}]
        /\ \A k \in Kinds : \A i \in secret[k] : items'[i] = items[i]
    BY <1>2, <1>4, Placed
  <2>8. /\ manifest' = manifest /\ cache' = cache
        /\ clean' = clean /\ secret' = secret
    BY DEF CreateMarked, historyVars
  <2>9. clean' => Sure(new, items', manifest', secret')
    BY <2>4, <2>6, <2>7, <2>8, SameItems
  <2>10. Present(items', secret')
    BY <1>1, <2>7, <2>8, Known DEF Present
  <2>11. q.op \in Writers
    BY <1>2 DEF Writers
  <2> QED BY <1>1, <1>2, <2>4, <2>7, <2>8, <2>9, <2>10, <2>11, Known, OneStep
<1> QED BY <1>1, <1>3, <1>4 DEF CreateMarked

\* What is purged is no longer secret; the rest stays where it is.
LEMMA Purged ==
  ASSUME FolderInv, NEW p \in Paths, Purge(p)
  PROVE  /\ items' \in [Items -> Paths \cup {Gone}] /\ secret' \in [Kinds -> SUBSET Items]
         /\ \A k \in Kinds : \A i \in secret'[k] :
               /\ i \in secret[k] /\ items'[i] = items[i] /\ ~Within(items[i], p)
         /\ Present(items', secret')
<1>1. items \in [Items -> Paths \cup {Gone}] /\ secret \in [Kinds -> SUBSET Items]
  BY DEF FolderInv, Typed
<1>2. \A k \in Kinds : \A i \in secret[k] : items[i] # Gone
  BY DEF FolderInv, Present
<1>3. /\ items' = [i \in Items |-> IF i \in Content(p) THEN Gone ELSE items[i]]
      /\ secret' = [k \in Kinds |-> secret[k] \ Content(p)]
  BY DEF Purge
<1>4. items' \in [Items -> Paths \cup {Gone}]
  BY <1>1, <1>3
<1>5. secret' \in [Kinds -> SUBSET Items]
  BY <1>1, <1>3
<1>6. ASSUME NEW k \in Kinds, NEW i \in secret'[k]
      PROVE  i \in secret[k] /\ items'[i] = items[i] /\ ~Within(items[i], p)
  <2>1. i \in secret[k] /\ i \notin Content(p) /\ i \in Items
    BY <1>1, <1>3, <1>6
  <2> QED BY <1>2, <1>3, <2>1 DEF Content
<1> QED BY <1>2, <1>4, <1>5, <1>6 DEF Present

\* With nothing left to follow a purge keeps everything under its mark.
LEMMA SureAfterPurge ==
  ASSUME NEW q \in ReqRecords, NEW new \in ReqRecords, NEW at, NEW now, NEW marked,
         NEW sec, NEW left,
         \A k \in Kinds : \A i \in left[k] : i \in sec[k] /\ now[i] = at[i],
         Sure(q, at, marked, sec),
         \A k \in Kinds : ~Pending(q, k) /\ ~Pending(new, k),
         new.pc \notin {"fill", "act"},
         new.pc = "put" => Prepared(new, now, marked, left)
  PROVE  Sure(new, now, marked, left)
<1>1. \A k \in Kinds : Kept(k, now, marked, left)
  BY DEF Sure, Kept
<1> QED BY <1>1 DEF Sure

LEMMA DeleteInv ==
  ASSUME FolderInv, NEW r \in Requests, Delete(r) PROVE FolderInv'
<1>1. PICK q : q = req[r]
  OBVIOUS
<1>2. /\ q \in ReqRecords /\ q.pc = "act" /\ q.op = "delete" /\ q.kind \in Kinds
      /\ q.copy \subseteq Paths /\ q.path \in Paths /\ q.op \in Writers
      /\ \A k \in Kinds : ~Pending(q, k)
  BY <1>1, Known DEF Delete, Doing, At, Writers, Pending
<1>3. /\ items' \in [Items -> Paths \cup {Gone}] /\ secret' \in [Kinds -> SUBSET Items]
      /\ \A k \in Kinds : \A i \in secret'[k] :
            i \in secret[k] /\ items'[i] = items[i] /\ ~Within(items[i], q.path)
      /\ Present(items', secret')
  BY <1>1, <1>2, Purged DEF Delete
<1>4. /\ manifest' = manifest /\ cache' = cache
      /\ clean' = clean
  BY DEF Delete
<1>6. CASE Finish(r)
  <2>1. Set(r, Idle)
    BY <1>6 DEF Finish
  <2>2. clean => Sure(Idle, items', manifest, secret')
    BY <1>1, <1>2, <1>3, Known, IdleIs, SureAfterPurge
  <2> QED BY <1>1, <1>2, <1>3, <1>4, <2>1, <2>2, Known, IdleIs, OneStep
<1>7. CASE Save(r, q.copy \ {q.path})
  <2>1. PICK marked : marked = q.copy \ {q.path}
    OBVIOUS
  <2>2. marked \subseteq Paths /\ Save(r, marked)
    BY <1>2, <2>1, <1>7
  <2>3. PICK new : new = Saving(q, marked)
    OBVIOUS
  <2>4. /\ Set(r, new) /\ new \in ReqRecords /\ Shaped(new)
        /\ new.pc = "put" /\ new.op = q.op /\ new.kind = q.kind /\ new.batch = q.batch
        /\ new.path = q.path /\ new.to = q.to /\ new.copy = marked
        /\ \A k \in Kinds : Pending(new, k) <=> Pending(q, k)
    BY ONLY FolderInv, r \in Requests, <1>1, <1>2, <2>2, <2>3, Saves
  <2>5. clean => Prepared(new, items', manifest, secret')
    BY <1>1, <1>2, <1>3, <2>1, <2>4, Known DEF Prepared, Sure
  <2>6. clean => Sure(new, items', manifest, secret')
    BY <1>1, <1>2, <1>3, <2>4, <2>5, Known, SureAfterPurge
  <2> QED BY <1>1, <1>2, <1>3, <1>4, <2>4, <2>6, Known, OneStep
<1> QED BY <1>1, <1>6, <1>7 DEF Delete

-----------------------------------------------------------------------------
(* Writing a manifest                                                      *)

\* Covered by more, or by what is left when the mark is not around the path.
LEMMA CoveredByMore ==
  ASSUME NEW p, NEW marked, NEW more, marked \subseteq more, Covered(p, marked)
  PROVE  Covered(p, more)
BY DEF Covered

LEMMA CoveredByRest ==
  ASSUME NEW p, NEW marked, NEW q, Covered(p, marked), ~Within(p, q)
  PROVE  Covered(p, marked \ {q})
BY DEF Covered

LEMMA CoveredMoves ==
  ASSUME NEW p \in Paths, NEW marked, marked \subseteq Paths, NEW from \in Paths,
         NEW to \in Siblings(from), Covered(p, marked)
  PROVE  Covered(Move(p, from, to), {Move(q, from, to) : q \in marked})
BY MoveTogether DEF Covered

\* Who is secret once a manifest is written.
LEMMA SecretIs ==
  ASSUME FolderInv, NEW r \in Requests, NEW q, q = req[r], NEW k, k = q.kind,
         q.op \in {"mark", "unmark", "create", "delete", "follow"}
  PROVE  /\ Secret(r) \subseteq Items
         /\ \A i \in Secret(r) : items[i] # Gone
         /\ q.op \in {"mark", "create"} =>
               \A i \in Secret(r) : i \in secret[k] \/ Within(items[i], q.path)
         /\ q.op = "unmark" =>
               \A i \in Secret(r) : /\ i \in secret[k]
                                    /\ \/ ~Within(items[i], q.path)
                                       \/ Covered(items[i], q.copy)
         /\ q.op \in {"delete", "follow"} => Secret(r) = secret[k]
<1>1. /\ k \in Kinds /\ secret \in [Kinds -> SUBSET Items] /\ secret[k] \subseteq Items
      /\ \A i \in secret[k] : items[i] # Gone
  BY Known DEF Present
<1>2. Content(q.path) \subseteq Items
  BY DEF Content
<1>3. CASE q.op \in {"mark", "create"}
  <2>1. Secret(r) = secret[k] \cup Content(q.path)
    BY <1>3 DEF Secret
  <2> QED BY <1>1, <1>2, <1>3, <2>1 DEF Content
<1>4. CASE q.op = "unmark"
  <2>1. Secret(r) = secret[k] \ {i \in Content(q.path) : ~Covered(items[i], q.copy)}
    BY <1>4 DEF Secret
  <2> QED BY <1>1, <1>2, <1>4, <2>1 DEF Content
<1>5. CASE q.op \in {"delete", "follow"}
  <2>1. Secret(r) = secret[k]
    BY <1>5 DEF Secret
  <2> QED BY <1>1, <1>5, <2>1
<1> QED BY <1>3, <1>4, <1>5

\* Once the manifest is written, its kind is under marks again.
LEMMA KeptWhenWritten ==
  ASSUME FolderInv, NEW r \in Requests, NEW q, q = req[r], NEW k, k = q.kind, clean,
         q.pc = "put", NEW marked, NEW sec, marked[k] = q.copy, sec[k] = Secret(r)
  PROVE  Kept(k, items, marked, sec)
<1>1. /\ q \in ReqRecords /\ Shaped(q) /\ k \in Kinds /\ q.path \in Paths
      /\ Prepared(q, items, manifest, secret)
      /\ q.op \in {"mark", "unmark", "create", "delete", "follow"}
      /\ items \in [Items -> Paths \cup {Gone}] /\ secret[k] \subseteq Items
      /\ manifest[k] \subseteq Paths /\ Sure(q, items, manifest, secret)
  <2>1. /\ q \in ReqRecords /\ Shaped(q) /\ k \in Kinds /\ q.path \in Paths
        /\ items \in [Items -> Paths \cup {Gone}] /\ secret[k] \subseteq Items
        /\ manifest[k] \subseteq Paths /\ Sure(q, items, manifest, secret)
    BY Known DEF Shaped, Writers
  <2>2. Prepared(q, items, manifest, secret)
    BY <2>1 DEF Sure
  <2>3. q.op \in {"mark", "unmark", "create", "delete", "follow"}
    BY <2>1 DEF Shaped
  <2> QED BY <2>1, <2>2, <2>3
<1>2. \A i \in Secret(r) : items[i] # Gone
  BY <1>1, SecretIs
<1> SUFFICES ASSUME NEW i \in Secret(r) PROVE Covered(items[i], q.copy)
  BY DEF Kept
<1>3. CASE q.op = "follow"
  <2>1. i \in secret[k] /\ i \in Items
    BY <1>1, <1>3, SecretIs
  <2>2. Moved(q, k, items, manifest, secret) /\ q.batch = {} /\ q.to \in Siblings(q.path)
    BY <1>1, <1>3 DEF Sure, Pending, Shaped
  <2>3. PICK p \in Paths : Covered(p, manifest[k]) /\ items[i] = Move(p, q.path, q.to)
    BY <2>1, <2>2 DEF Moved
  <2>4. q.copy = {Move(p2, q.path, q.to) : p2 \in manifest[k]}
    BY <1>1, <1>3 DEF Prepared
  <2> QED BY <1>1, <2>2, <2>3, <2>4, CoveredMoves
<1>4. CASE q.op # "follow"
  <2>1. \A j \in secret[k] : Covered(items[j], manifest[k])
    BY <1>1, <1>4 DEF Sure, Pending, Kept
  <2>2. CASE q.op \in {"mark", "create"}
    <3>1. q.copy = manifest[k] \cup {q.path}
      BY <1>1, <2>2 DEF Prepared
    <3>2. CASE i \in secret[k]
      BY <2>1, <3>1, <3>2, CoveredByMore
    <3>3. CASE Within(items[i], q.path)
      BY <3>1, <3>3 DEF Covered
    <3> QED BY <1>1, <2>2, <3>2, <3>3, SecretIs
  <2>3. CASE q.op = "unmark"
    <3>1. q.copy = manifest[k] \ {q.path}
      BY <1>1, <2>3 DEF Prepared
    <3>2. i \in secret[k] /\ (~Within(items[i], q.path) \/ Covered(items[i], q.copy))
      BY <1>1, <2>3, SecretIs
    <3> QED BY <2>1, <3>1, <3>2, CoveredByRest
  <2>4. CASE q.op = "delete"
    <3>1. q.copy = manifest[k] \ {q.path} /\ \A j \in secret[k] : ~Within(items[j], q.path)
      BY <1>1, <2>4 DEF Prepared
    <3>2. i \in secret[k]
      BY <1>1, <2>4, SecretIs
    <3> QED BY <2>1, <3>1, <3>2, CoveredByRest
  <2> QED BY <1>1, <1>4, <2>2, <2>3, <2>4
<1> QED BY <1>3, <1>4

LEMMA PutManifestInv ==
  ASSUME FolderInv, NEW r \in Requests, PutManifest(r) PROVE FolderInv'
<1>1. PICK q : q = req[r]
  OBVIOUS
<1>2. PICK k : k = q.kind
  OBVIOUS
<1>3. /\ q \in ReqRecords /\ Shaped(q) /\ q.pc = "put" /\ q.op \in Writers /\ k \in Kinds
      /\ q.copy \subseteq Paths /\ q.path \in Paths
      /\ q.op \in {"mark", "unmark", "create", "delete", "follow"}
  BY <1>1, <1>2, Known DEF PutManifest, At, Writers, Shaped
<1>4. PICK new : new = [q EXCEPT !.pc = "invalidate"]
  OBVIOUS
<1>5. new \in ReqRecords
  BY <1>3, <1>4 DEF ReqRecords, Pcs
<1>6. /\ new.pc = "invalidate" /\ new.op = q.op /\ new.kind = q.kind /\ new.batch = q.batch
      /\ new.path = q.path /\ new.to = q.to /\ new.copy = q.copy
  BY <1>3, <1>4 DEF ReqRecords
<1>7. Shaped(new)
  BY <1>3, <1>6 DEF Shaped
<1>8. /\ Set(r, new) /\ items' = items /\ cache' = cache
      /\ clean' = clean
      /\ manifest' = [manifest EXCEPT ![k] = q.copy]
      /\ secret' = [secret EXCEPT ![k] = Secret(r)]
  BY <1>1, <1>2, <1>4 DEF PutManifest, Goto
<1>15. q.op \in Writers
  BY <1>3 DEF Writers
<1>9. /\ items \in [Items -> Paths \cup {Gone}] /\ manifest \in [Kinds -> SUBSET Paths]
      /\ cache \in [Kinds -> {NoCache} \cup SUBSET Paths]
      /\ secret \in [Kinds -> SUBSET Items]
      /\ clean \in BOOLEAN /\ Present(items, secret)
      /\ clean => Sure(q, items, manifest, secret)
  BY <1>1, <1>3, <1>15, Known
<1>10. Secret(r) \subseteq Items /\ \A i \in Secret(r) : items[i] # Gone
  BY <1>1, <1>2, <1>3, SecretIs
<1>11. /\ manifest' \in [Kinds -> SUBSET Paths] /\ secret' \in [Kinds -> SUBSET Items]
       /\ manifest'[k] = q.copy /\ secret'[k] = Secret(r)
       /\ \A o \in Kinds \ {k} : manifest'[o] = manifest[o] /\ secret'[o] = secret[o]
  BY <1>3, <1>8, <1>9, <1>10
<1>12. Present(items', secret')
  BY <1>8, <1>9, <1>10, <1>11 DEF Present
<1>14. ASSUME clean PROVE Sure(new, items, manifest', secret')
  <2>1. Kept(k, items, manifest', secret')
    BY <1>1, <1>2, <1>3, <1>11, <1>14, KeptWhenWritten
  <2>3. ASSUME NEW o \in Kinds \ {k}
        PROVE  IF Pending(new, o) THEN Moved(new, o, items, manifest', secret')
               ELSE Kept(o, items, manifest', secret')
    <3>1. Pending(new, o) <=> Pending(q, o)
      BY <1>2, <1>3, <1>6, <2>3 DEF Pending
    <3>2. IF Pending(q, o) THEN Moved(q, o, items, manifest, secret)
          ELSE Kept(o, items, manifest, secret)
      BY <1>9, <1>14, <2>3 DEF Sure
    <3>3. Moved(q, o, items, manifest, secret) => Moved(new, o, items, manifest', secret')
      BY <1>6, <1>11, <2>3 DEF Moved
    <3>4. Kept(o, items, manifest, secret) => Kept(o, items, manifest', secret')
      BY <1>11, <2>3 DEF Kept
    <3> QED BY <3>1, <3>2, <3>3, <3>4
  <2>4. ~Pending(new, k)
    BY <1>2, <1>3, <1>6 DEF Pending, Kinds
  <2> QED BY <1>2, <1>3, <1>6, <2>1, <2>3, <2>4 DEF Sure
<1> QED BY <1>1, <1>3, <1>5, <1>6, <1>7, <1>8, <1>9, <1>11, <1>12, <1>14, <1>15, OneStep

-----------------------------------------------------------------------------
(* Renames and what follows them                                           *)

\* A rename that goes on with the manifest of the other kind.
NextOf(q) == IF q.op = "follow" /\ q.kind = "encrypted"
               THEN [q EXCEPT !.kind = "hidden", !.copy = {}, !.pc = "cache"]
               ELSE Idle

\* A request that is through with its kind goes on to the next one, or ends.
LEMMA NextKindSure ==
  ASSUME NEW q \in ReqRecords, Shaped(q), q.pc # "idle", q.pc # "move",
         q.op # "mkdir", NEW new, new = NextOf(q)
  PROVE  /\ new \in ReqRecords /\ Shaped(new)
         /\ new = Idle \/ (new.op \in Writers /\ q.op \in Writers)
         /\ \A at, marked, sec :
               /\ Kept(q.kind, at, marked, sec)
               /\ \A k \in Kinds \ {q.kind} :
                     IF Pending(q, k) THEN Moved(q, k, at, marked, sec)
                     ELSE Kept(k, at, marked, sec)
               => Sure(new, at, marked, sec)
<1>1. CASE q.op = "follow" /\ q.kind = "encrypted"
  <2>1. new = [q EXCEPT !.kind = "hidden", !.copy = {}, !.pc = "cache"]
    BY <1>1 DEF NextOf
  <2>2. new \in ReqRecords
    BY <2>1 DEF ReqRecords, Pcs, Kinds
  <2>3. /\ new.pc = "cache" /\ new.op = q.op /\ new.kind = "hidden" /\ new.batch = q.batch
        /\ new.path = q.path /\ new.to = q.to /\ new.copy = {}
    BY <2>1 DEF ReqRecords
  <2>4. Shaped(new)
    BY <1>1, <2>3 DEF Shaped
  <2>5. \A k \in Kinds : Pending(new, k) <=> k = "hidden"
    BY <1>1, <2>3 DEF Pending, Kinds
  <2>6. Pending(q, "hidden") /\ "hidden" \in Kinds \ {q.kind}
    BY <1>1 DEF Pending, Kinds
  <2>7. \A at, marked, sec :
            Moved(q, "hidden", at, marked, sec) <=> Moved(new, "hidden", at, marked, sec)
    BY <2>3 DEF Moved
  <2>8. \A k \in Kinds : k = "hidden" \/ k = q.kind
    BY <1>1 DEF Kinds
  <2>9. new.op \in Writers /\ q.op \in Writers
    BY <1>1, <2>3 DEF Writers
  <2> QED BY <1>1, <2>2, <2>3, <2>4, <2>5, <2>6, <2>7, <2>8, <2>9 DEF Sure
<1>2. CASE ~(q.op = "follow" /\ q.kind = "encrypted")
  <2>1. new = Idle
    BY <1>2 DEF NextOf
  <2>2. \A k \in Kinds \ {q.kind} : ~Pending(q, k)
    BY <1>2 DEF Pending
  <2> QED BY <2>1, <2>2, IdleIs DEF Sure, Writers
<1> QED BY <1>1, <1>2

LEMMA NextKindSets ==
  ASSUME NEW r \in Requests, NEW q, q = req[r], NextKind(r)
  PROVE  Set(r, NextOf(q))
BY DEF NextKind, NextOf, Finish

LEMMA InvalidateCacheInv ==
  ASSUME FolderInv, NEW r \in Requests, InvalidateCache(r) PROVE FolderInv'
<1>1. PICK q : q = req[r]
  OBVIOUS
<1>2. PICK new : new = NextOf(q)
  OBVIOUS
<1>3. /\ q \in ReqRecords /\ Shaped(q) /\ q.pc = "invalidate" /\ q.kind \in Kinds
      /\ q.op \in {"mark", "unmark", "create", "delete", "follow"}
  BY <1>1, Known DEF InvalidateCache, At, Shaped
<1>4. Set(r, new)
  BY <1>1, <1>2, NextKindSets DEF InvalidateCache
<1>5. /\ items' = items /\ manifest' = manifest /\ clean' = clean /\ secret' = secret
      /\ cache \in [Kinds -> {NoCache} \cup SUBSET Paths]
      /\ cache' = [cache EXCEPT ![q.kind] = NoCache]
  BY <1>1, Known DEF InvalidateCache
<1>6. cache' \in [Kinds -> {NoCache} \cup SUBSET Paths]
  BY <1>3, <1>5
<1>7. new \in ReqRecords /\ Shaped(new) /\ q.op \in Writers /\ (new.op \in Writers \/ new = Idle)
  BY <1>2, <1>3, NextKindSure DEF Writers
<1>8. ASSUME clean
      PROVE  Sure(new, items, manifest, secret)
  <2>1. Sure(q, items, manifest, secret)
    BY <1>1, <1>7, <1>8, Known
  <2>2. ~Pending(q, q.kind)
    BY <1>3 DEF Pending, Kinds
  <2>3. Kept(q.kind, items, manifest, secret)
    BY <1>3, <2>1, <2>2 DEF Sure
  <2>4. \A k \in Kinds \ {q.kind} :
            IF Pending(q, k) THEN Moved(q, k, items, manifest, secret)
            ELSE Kept(k, items, manifest, secret)
    BY <2>1 DEF Sure
  <2> QED BY <1>2, <1>3, <2>3, <2>4, NextKindSure
<1> QED BY <1>1, <1>4, <1>5, <1>6, <1>7, <1>8, Known, OneStep

\* Where no mark lies within the renamed directory, none has to follow.
LEMMA NothingToFollow ==
  ASSUME FolderInv, NEW r \in Requests, NEW q, q = req[r], q.pc = "act", q.op = "follow", clean,
         NEW k, k = q.kind, ~ \E p \in q.copy : Within(p, q.path)
  PROVE  Kept(k, items, manifest, secret)
<1>1. /\ q \in ReqRecords /\ Shaped(q) /\ k \in Kinds /\ q.path \in Paths
      /\ Sure(q, items, manifest, secret) /\ secret[k] \subseteq Items
      /\ manifest[k] \subseteq Paths
  BY Known DEF Writers
<1>2. Moved(q, k, items, manifest, secret) /\ q.batch = {} /\ q.to \in Siblings(q.path)
  BY <1>1 DEF Sure, Pending, Shaped
<1>3. q.copy = manifest[k]
  BY <1>1 DEF Sure
<1> SUFFICES ASSUME NEW i \in secret[k] PROVE Covered(items[i], manifest[k])
  BY DEF Kept
<1>4. PICK p \in Paths : Covered(p, manifest[k]) /\ items[i] = Move(p, q.path, q.to)
  BY <1>1, <1>2 DEF Moved
<1>5. PICK m \in manifest[k] : Within(p, m)
  BY <1>4 DEF Covered
<1>6. Within(items[i], Move(m, q.path, q.to))
  BY <1>1, <1>2, <1>4, <1>5, MoveTogether
<1>7. Move(m, q.path, q.to) = m
  BY <1>3, <1>5 DEF Move
<1> QED BY <1>5, <1>6, <1>7 DEF Covered

LEMMA FollowInv ==
  ASSUME FolderInv, NEW r \in Requests, Follow(r) PROVE FolderInv'
<1>1. PICK q : q = req[r]
  OBVIOUS
<1>2. /\ q \in ReqRecords /\ Shaped(q) /\ q.pc = "act" /\ q.op = "follow"
      /\ q.kind \in Kinds /\ q.copy \subseteq Paths /\ q.path \in Paths
      /\ q.to \in Siblings(q.path) /\ q.op \in Writers
  BY <1>1, Known DEF Follow, Doing, At, Shaped, Writers
<1>3. /\ items' = items /\ manifest' = manifest /\ cache' = cache
      /\ clean' = clean /\ secret' = secret /\ Quietly
  BY DEF Follow, Quietly, historyVars
<1>4. CASE \E p \in q.copy : Within(p, q.path)
  <2>1. PICK marked : marked = {Move(p, q.path, q.to) : p \in q.copy}
    OBVIOUS
  <2>2. marked \subseteq Paths
    BY <1>2, <2>1, MovedIsAPath
  <2>3. Save(r, marked)
    BY <1>1, <1>4, <2>1 DEF Follow
  <2>4. PICK new : new = Saving(q, marked)
    OBVIOUS
  <2>5. /\ Set(r, new) /\ new \in ReqRecords /\ Shaped(new)
        /\ new.pc = "put" /\ new.op = q.op /\ new.kind = q.kind /\ new.batch = q.batch
        /\ new.path = q.path /\ new.to = q.to /\ new.copy = marked
        /\ \A k \in Kinds : Pending(new, k) <=> Pending(q, k)
    BY ONLY FolderInv, r \in Requests, <1>1, <1>2, <2>2, <2>3, <2>4, Saves
  <2>6. clean => Prepared(new, items, manifest, secret)
    <3>1. clean => q.copy = manifest[q.kind]
      BY <1>1, <1>2, Known DEF Sure
    <3> QED BY <1>2, <2>1, <2>5, <3>1 DEF Prepared
  <2> QED BY <1>1, <1>2, <1>3, <2>5, <2>6, QuietlyIs, QuietStep
<1>5. CASE ~ \E p \in q.copy : Within(p, q.path)
  <2>1. PICK new : new = NextOf(q)
    OBVIOUS
  <2>2. Set(r, new)
    BY <1>1, <1>5, <2>1, NextKindSets DEF Follow
  <2>3. new \in ReqRecords /\ Shaped(new) /\ (new.op \in Writers \/ new = Idle)
    BY <1>2, <2>1, NextKindSure
  <2>4. ASSUME clean PROVE Sure(new, items, manifest, secret)
    <3>1. Kept(q.kind, items, manifest, secret)
      BY <1>1, <1>2, <1>5, <2>4, NothingToFollow
    <3>2. Sure(q, items, manifest, secret)
      BY <1>1, <1>2, <2>4, Known
    <3>3. \A k \in Kinds \ {q.kind} :
              IF Pending(q, k) THEN Moved(q, k, items, manifest, secret)
              ELSE Kept(k, items, manifest, secret)
      BY <1>2, <3>2 DEF Sure
    <3> QED BY <1>2, <2>1, <3>1, <3>3, NextKindSure
  <2> QED BY <1>1, <1>2, <1>3, <2>2, <2>3, <2>4, Known, OneStep
<1> QED BY <1>4, <1>5

LEMMA MovedAllInv ==
  ASSUME FolderInv, NEW r \in Requests, MovedAll(r) PROVE FolderInv'
<1>1. PICK q : q = req[r]
  OBVIOUS
<1>2. /\ q \in ReqRecords /\ Shaped(q) /\ q.pc = "move" /\ q.batch = {}
      /\ q.op \in {"rename", "renamePlain"} /\ q.op \in Writers /\ q.path \in Paths
      /\ q.to \in Siblings(q.path)
  BY <1>1, Known DEF MovedAll, At, Shaped, Writers
<1>3. PICK new : new = [q EXCEPT !.op = "follow", !.kind = "encrypted", !.copy = {},
                                 !.pc = "cache"]
  OBVIOUS
<1>4. Set(r, new) /\ Quietly
  BY <1>1, <1>3 DEF MovedAll
<1>5. new \in ReqRecords
  BY <1>2, <1>3 DEF ReqRecords, Writers, Kinds, Pcs
<1>6. /\ new.pc = "cache" /\ new.op = "follow" /\ new.kind = "encrypted" /\ new.batch = {}
      /\ new.path = q.path /\ new.to = q.to /\ new.op \in Writers
  BY <1>2, <1>3 DEF ReqRecords, Writers
<1>7. Shaped(new)
  BY <1>2, <1>6 DEF Shaped
<1>8. \A k \in Kinds : Pending(q, k) /\ Pending(new, k)
  BY <1>2, <1>6 DEF Pending, Kinds
<1> QED BY <1>1, <1>2, <1>4, <1>5, <1>6, <1>7, <1>8, QuietlyIs, QuietStep

LEMMA ListSourceInv ==
  ASSUME FolderInv, NEW r \in Requests, ListSource(r) PROVE FolderInv'
<1>1. PICK q : q = req[r]
  OBVIOUS
<1>2. /\ q \in ReqRecords /\ Shaped(q) /\ q.pc = "list"
      /\ q.op \in {"rename", "renamePlain"} /\ q.op \in Writers /\ q.path \in Paths
      /\ q.to \in Siblings(q.path) /\ \A k \in Kinds : ~Pending(q, k)
  BY <1>1, Known DEF ListSource, At, Shaped, Writers, Pending
<1>3. CASE Finish(r)
  BY <1>1, <1>2, <1>3, Ends, QuietlyIs DEF ListSource
<1>4. PICK here : here = Content(q.path)
  OBVIOUS
<1>5. CASE Set(r, [q EXCEPT !.batch = here, !.pc = "move"])
  <2>1. PICK new : new = [q EXCEPT !.batch = here, !.pc = "move"]
    OBVIOUS
  <2>2. Set(r, new) /\ here \subseteq Items
    BY <1>4, <1>5, <2>1 DEF Content
  <2>3. new \in ReqRecords
    BY <1>2, <2>1, <2>2 DEF ReqRecords, Pcs
  <2>4. /\ new.pc = "move" /\ new.op = q.op /\ new.kind = q.kind /\ new.batch = here
        /\ new.path = q.path /\ new.to = q.to
    BY <1>2, <2>1 DEF ReqRecords
  <2>5. Shaped(new)
    BY <1>2, <2>4 DEF Shaped
  <2>6. /\ items' = items /\ manifest' = manifest /\ cache' = cache
        /\ clean' = clean /\ secret' = secret
    BY DEF ListSource, Quietly, historyVars
  <2>7. ASSUME clean PROVE Sure(new, items, manifest, secret)
    <3>1. Sure(q, items, manifest, secret) /\ Present(items, secret)
          /\ items \in [Items -> Paths \cup {Gone}] /\ secret \in [Kinds -> SUBSET Items]
      BY <1>1, <1>2, <2>7, Known
    <3>2. ASSUME NEW k \in Kinds PROVE Moved(new, k, items, manifest, secret)
      <4>1. Kept(k, items, manifest, secret)
        BY <1>2, <3>1 DEF Sure
      <4>2. ASSUME NEW i \in secret[k], i \notin here
            PROVE  items[i] \in Paths /\ items[i] = Move(items[i], q.path, q.to)
        BY <1>4, <3>1, <4>2 DEF Content, Present, Move
      <4> QED BY <2>4, <4>1, <4>2 DEF Kept, Moved
    <3> QED BY <2>4, <3>2 DEF Sure, Pending
  <2> QED BY <1>1, <1>2, <2>2, <2>3, <2>4, <2>5, <2>6, <2>7, Known, OneStep
<1> QED BY <1>1, <1>3, <1>4, <1>5 DEF ListSource

LEMMA MoveItemInv ==
  ASSUME FolderInv, NEW r \in Requests, MoveItem(r) PROVE FolderInv'
<1>1. PICK q : q = req[r]
  OBVIOUS
<1>2. /\ q \in ReqRecords /\ Shaped(q) /\ q.pc = "move"
      /\ q.op \in {"rename", "renamePlain"} /\ q.op \in Writers /\ q.path \in Paths
      /\ q.to \in Siblings(q.path) /\ q.batch \subseteq Items
  BY <1>1, Known DEF MoveItem, At, Shaped, Writers
<1>3. /\ items \in [Items -> Paths \cup {Gone}] /\ secret \in [Kinds -> SUBSET Items]
      /\ manifest' = manifest /\ cache' = cache
      /\ secret' = secret /\ Present(items, secret)
  BY <1>1, Known DEF MoveItem
<1>5. PICK i \in q.batch :
         IF i \in Content(q.path)
           THEN /\ items' = [items EXCEPT ![i] = Move(@, q.path, q.to)]
                /\ Set(r, [q EXCEPT !.batch = @ \ {i}])
                /\ UNCHANGED clean
           ELSE Finish(r) /\ clean' = FALSE /\ UNCHANGED items
  BY <1>1 DEF MoveItem
<1>6. CASE i \in Content(q.path)
  <2>1. PICK new : new = [q EXCEPT !.batch = q.batch \ {i}]
    OBVIOUS
  <2>2. /\ Set(r, new) /\ clean' = clean
        /\ items' = [items EXCEPT ![i] = Move(items[i], q.path, q.to)]
    BY <1>2, <1>5, <1>6, <2>1
  <2>3. new \in ReqRecords
    BY <1>2, <2>1 DEF ReqRecords
  <2>4. /\ new.pc = "move" /\ new.op = q.op /\ new.kind = q.kind /\ new.batch = q.batch \ {i}
        /\ new.path = q.path /\ new.to = q.to
    BY <1>2, <2>1 DEF ReqRecords
  <2>5. Shaped(new)
    BY <1>2, <2>4 DEF Shaped
  <2>6. i \in Items /\ items[i] \in Paths
    BY <1>3, <1>6 DEF Content
  <2>7. Move(items[i], q.path, q.to) \in Paths
    BY <1>2, <2>6, MovedIsAPath
  <2>8. items' \in [Items -> Paths \cup {Gone}] /\ Present(items', secret')
    <3>1. items' \in [Items -> Paths \cup {Gone}]
      BY <1>3, <2>2, <2>7
    <3>2. Move(items[i], q.path, q.to) # Gone
      BY <2>7, FolderAssumption
    <3> QED BY <1>3, <2>2, <2>6, <3>1, <3>2 DEF Present
  <2>9. ASSUME clean PROVE Sure(new, items', manifest, secret)
    <3>1. Sure(q, items, manifest, secret)
      BY <1>1, <1>2, <2>9, Known
    <3>2. ASSUME NEW k \in Kinds PROVE Moved(new, k, items', manifest, secret)
      <4>1. Moved(q, k, items, manifest, secret)
        BY <1>2, <3>1, <3>2 DEF Sure, Pending
      <4>2. ASSUME NEW j \in secret[k]
            PROVE  IF j \in new.batch THEN Covered(items'[j], manifest[k])
                   ELSE \E p \in Paths : /\ Covered(p, manifest[k])
                                         /\ items'[j] = Move(p, new.path, new.to)
        <5>1. j \in Items
          BY <1>3, <3>2, <4>2
        <5>2. CASE j = i
          <6>1. Covered(items[i], manifest[k])
            BY <4>1, <4>2, <5>2 DEF Moved
          <6> QED BY <1>3, <2>2, <2>4, <2>6, <5>2, <6>1
        <5>3. CASE j # i
          BY <1>3, <2>2, <2>4, <4>1, <4>2, <5>1, <5>3 DEF Moved
        <5> QED BY <5>2, <5>3
      <4> QED BY <4>2 DEF Moved
    <3> QED BY <2>4, <3>2 DEF Sure, Pending
  <2> QED BY <1>1, <1>2, <1>3, <2>2, <2>3, <2>4, <2>5, <2>8, <2>9, Known, OneStep
<1>7. CASE i \notin Content(q.path)
  <2>1. Set(r, Idle) /\ clean' = FALSE /\ items' = items
    BY <1>5, <1>7 DEF Finish
  <2> QED BY <1>1, <1>2, <1>3, <2>1, Known, IdleIs, OneStep
<1> QED BY <1>6, <1>7

-----------------------------------------------------------------------------
(* The start and the target of a rename                                    *)

\* A rename or a creation goes on and has nothing to follow yet.
LEMMA GoesOn ==
  ASSUME FolderInv, NEW r \in Requests, NEW q, q = req[r], q.pc \in {"act", "target"},
         q.op \in {"rename", "renamePlain", "mkdir"},
         NEW new \in ReqRecords, Set(r, new), Shaped(new), Quietly,
         new.op = q.op \/ (q.op = "rename" /\ new.op = "renamePlain"),
         new.pc \in {"cache", "target", "purge", "place", "list"}
  PROVE  FolderInv'
<1>1. q.op \in Writers /\ new.op \in Writers
  BY DEF Writers, Writers
<1>2. \A k \in Kinds : ~Pending(q, k) /\ ~Pending(new, k)
  BY DEF Pending
<1> QED BY <1>1, <1>2, QuietlyIs, QuietStep

LEMMA SiblingsAmong ==
  ASSUME NEW p \in Paths, NEW q \in Siblings(p), NEW o \in Siblings(q)
  PROVE  o \in Siblings(p)
BY DEF Siblings

LEMMA RenameInv ==
  ASSUME FolderInv, NEW r \in Requests, Rename(r) PROVE FolderInv'
<1>1. PICK q : q = req[r]
  OBVIOUS
<1>2. /\ q \in ReqRecords /\ Shaped(q) /\ q.pc = "act" /\ q.op = "rename" /\ q.op \in Writers
      /\ q.path \in Paths
  BY <1>1, Known DEF Rename, Doing, At, Writers
<1>3. PICK to \in Siblings(q.path) :
         \/ Finish(r)
         \/ Set(r, [q EXCEPT !.to = to, !.pc = "target"])
         \/ Set(r, [q EXCEPT !.op = "renamePlain", !.to = to, !.pc = "cache"])
  BY <1>1 DEF Rename
<1>4. Quietly /\ to \in Paths
  BY DEF Rename, Siblings
<1>5. CASE Finish(r)
  BY <1>1, <1>2, <1>4, <1>5, Ends, QuietlyIs
<1>6. CASE Set(r, [q EXCEPT !.to = to, !.pc = "target"])
  <2>1. PICK new : new = [q EXCEPT !.to = to, !.pc = "target"]
    OBVIOUS
  <2>2. Set(r, new)
    BY <1>6, <2>1
  <2>3. new \in ReqRecords
    BY <1>2, <1>4, <2>1 DEF ReqRecords, Pcs
  <2>4. /\ new.pc = "target" /\ new.op = "rename" /\ new.path = q.path /\ new.to = to
        /\ new.batch = q.batch
    BY <1>2, <2>1 DEF ReqRecords
  <2>5. Shaped(new)
    BY <1>2, <2>4 DEF Shaped
  <2> QED BY <1>1, <1>2, <1>4, <2>2, <2>3, <2>4, <2>5, GoesOn
<1>7. CASE Set(r, [q EXCEPT !.op = "renamePlain", !.to = to, !.pc = "cache"])
  <2>1. PICK new : new = [q EXCEPT !.op = "renamePlain", !.to = to, !.pc = "cache"]
    OBVIOUS
  <2>2. Set(r, new)
    BY <1>7, <2>1
  <2>3. new \in ReqRecords
    BY <1>2, <1>4, <2>1 DEF ReqRecords, Pcs, Writers
  <2>4. /\ new.pc = "cache" /\ new.op = "renamePlain" /\ new.path = q.path /\ new.to = to
        /\ new.batch = q.batch
    BY <1>2, <2>1 DEF ReqRecords
  <2>5. Shaped(new)
    BY <1>2, <2>4 DEF Shaped
  <2> QED BY <1>1, <1>2, <1>4, <2>2, <2>3, <2>4, <2>5, GoesOn
<1> QED BY <1>3, <1>5, <1>6, <1>7

LEMMA RenamePlainInv ==
  ASSUME FolderInv, NEW r \in Requests, RenamePlain(r) PROVE FolderInv'
<1>1. PICK q : q = req[r]
  OBVIOUS
<1>2. /\ q \in ReqRecords /\ Shaped(q) /\ q.pc = "act" /\ q.op = "renamePlain" /\ q.op \in Writers
      /\ q.path \in Paths /\ Quietly
  BY <1>1, Known DEF RenamePlain, Doing, At, Writers
<1>3. CASE Finish(r)
  BY <1>1, <1>2, <1>3, Ends, QuietlyIs
<1>4. CASE Goto(r, "target")
  <2>1. PICK new : new = [q EXCEPT !.pc = "target"]
    OBVIOUS
  <2>2. Set(r, new)
    BY <1>1, <1>4, <2>1 DEF Goto
  <2>3. new \in ReqRecords
    BY <1>2, <2>1 DEF ReqRecords, Pcs
  <2>4. /\ new.pc = "target" /\ new.op = "renamePlain" /\ new.path = q.path /\ new.to = q.to
        /\ new.batch = q.batch
    BY <1>2, <2>1 DEF ReqRecords
  <2>5. Shaped(new)
    BY <1>2, <2>4 DEF Shaped
  <2> QED BY <1>1, <1>2, <2>2, <2>3, <2>4, <2>5, GoesOn
<1> QED BY <1>3, <1>4 DEF RenamePlain

LEMMA CheckTargetInv ==
  ASSUME FolderInv, NEW r \in Requests, CheckTarget(r) PROVE FolderInv'
<1>1. PICK q : q = req[r]
  OBVIOUS
<1>2. /\ q \in ReqRecords /\ Shaped(q) /\ q.pc = "target" /\ q.op \in Writers /\ q.path \in Paths
      /\ q.op \in {"rename", "renamePlain", "mkdir"} /\ Quietly
      /\ q.op # "mkdir" => q.to \in Siblings(q.path)
  BY <1>1, Known DEF CheckTarget, At, Writers, Shaped
<1>3. PICK next, to :
         /\ Finish(r) \/ Set(r, [q EXCEPT !.to = to, !.pc = next])
         /\ to = Target(r) \/ to \in Siblings(Target(r))
         /\ IF q.op = "mkdir" THEN next = "place" ELSE next \in {"list", "purge"}
  <2>1. PICK goal : goal = IF q.op = "mkdir" THEN "place" ELSE "list"
    OBVIOUS
  <2>2. \/ Set(r, [q EXCEPT !.to = Target(r), !.pc = goal])
        \/ Finish(r)
        \/ \E free \in Siblings(Target(r)) : Set(r, [q EXCEPT !.to = free, !.pc = goal])
        \/ Set(r, [q EXCEPT !.to = Target(r),
                            !.pc = IF goal = "list" THEN "purge" ELSE goal])
    BY <1>1, <2>1 DEF CheckTarget
  <2>3. CASE \E free \in Siblings(Target(r)) : Set(r, [q EXCEPT !.to = free, !.pc = goal])
    BY <2>1, <2>3
  <2>4. CASE Set(r, [q EXCEPT !.to = Target(r), !.pc = goal]) \/ Finish(r)
    BY <2>1, <2>4
  <2>5. CASE Set(r, [q EXCEPT !.to = Target(r),
                              !.pc = IF goal = "list" THEN "purge" ELSE goal])
    BY <2>1, <2>5
  <2> QED BY <2>2, <2>3, <2>4, <2>5
<1>4. /\ to \in Paths
      /\ q.op # "mkdir" => to \in Siblings(q.path)
  <2>1. CASE q.op = "mkdir"
    BY <1>1, <1>2, <1>3, <2>1 DEF Target, Siblings
  <2>2. CASE q.op # "mkdir"
    <3>1. to \in Siblings(q.path)
      BY <1>1, <1>2, <1>3, <2>2, SiblingsAmong DEF Target
    <3> QED BY <2>2, <3>1 DEF Siblings
  <2> QED BY <2>1, <2>2
<1>5. CASE Finish(r)
  BY <1>1, <1>2, <1>5, Ends, QuietlyIs
<1>6. CASE Set(r, [q EXCEPT !.to = to, !.pc = next])
  <2>1. PICK new : new = [q EXCEPT !.to = to, !.pc = next]
    OBVIOUS
  <2>2. Set(r, new)
    BY <1>6, <2>1
  <2>3. new \in ReqRecords
    BY <1>2, <1>3, <1>4, <2>1 DEF ReqRecords, Pcs
  <2>4. /\ new.pc = next /\ new.op = q.op /\ new.path = q.path /\ new.to = to
        /\ new.batch = q.batch
    BY <1>2, <2>1 DEF ReqRecords
  <2>5. Shaped(new)
    BY <1>2, <1>3, <1>4, <2>4 DEF Shaped
  <2> QED BY <1>1, <1>2, <1>3, <2>2, <2>3, <2>4, <2>5, GoesOn
<1> QED BY <1>3, <1>5, <1>6

LEMMA PurgeTargetInv ==
  ASSUME FolderInv, NEW r \in Requests, PurgeTarget(r) PROVE FolderInv'
<1>1. PICK q : q = req[r]
  OBVIOUS
<1>2. /\ q \in ReqRecords /\ Shaped(q) /\ q.pc = "purge" /\ q.path \in Paths
      /\ q.op \in {"rename", "renamePlain"} /\ q.op \in Writers
      /\ q.to \in Siblings(q.path) /\ q.to \in Paths
      /\ \A k \in Kinds : ~Pending(q, k)
  BY <1>1, Known DEF PurgeTarget, At, Shaped, Writers, Pending, Siblings
<1>3. /\ items' \in [Items -> Paths \cup {Gone}] /\ secret' \in [Kinds -> SUBSET Items]
      /\ \A k \in Kinds : \A i \in secret'[k] : i \in secret[k] /\ items'[i] = items[i]
      /\ Present(items', secret')
  BY <1>1, <1>2, Purged DEF PurgeTarget
<1>4. /\ manifest' = manifest /\ cache' = cache
      /\ clean' = clean
  BY DEF PurgeTarget
<1>6. PICK new : new = [q EXCEPT !.pc = "list"]
  OBVIOUS
<1>7. Set(r, new)
  BY <1>1, <1>6 DEF PurgeTarget, Goto
<1>8. new \in ReqRecords
  BY <1>2, <1>6 DEF ReqRecords, Pcs
<1>9. /\ new.pc = "list" /\ new.op = q.op /\ new.path = q.path /\ new.to = q.to
      /\ new.batch = q.batch
  BY <1>2, <1>6 DEF ReqRecords
<1>10. Shaped(new) /\ \A k \in Kinds : ~Pending(new, k)
  BY <1>2, <1>9 DEF Shaped, Pending
<1>11. clean => Sure(new, items', manifest, secret')
  BY <1>1, <1>2, <1>3, <1>8, <1>9, <1>10, Known, SureAfterPurge
<1> QED BY <1>1, <1>2, <1>3, <1>4, <1>7, <1>8, <1>9, <1>10, <1>11, Known, OneStep

LEMMA PlaceFolderInv ==
  ASSUME FolderInv, NEW r \in Requests, PlaceFolder(r) PROVE FolderInv'
<1>1. PICK q : q = req[r]
  OBVIOUS
<1>2. /\ q \in ReqRecords /\ Shaped(q) /\ q.pc = "place"
      /\ q.op = "mkdir" /\ q.op \in Writers /\ q.to \in Paths
      /\ \A k \in Kinds : ~Pending(q, k)
  BY <1>1, Known DEF PlaceFolder, At, Shaped, Writers, Pending
<1>3. /\ items' \in [Items -> Paths \cup {Gone}]
      /\ \A k \in Kinds : \A i \in secret[k] : items'[i] = items[i]
  BY <1>1, <1>2, Placed DEF PlaceFolder
<1>4. /\ manifest' = manifest /\ cache' = cache /\ secret' = secret
      /\ clean' = clean /\ Set(r, Idle)
  BY DEF PlaceFolder, historyVars, Finish
<1>6. clean => Sure(Idle, items', manifest, secret)
  BY <1>1, <1>2, <1>3, Known, IdleIs, SureAfterPurge
<1>7. Present(items', secret')
  BY <1>1, <1>3, <1>4, Known DEF Present
<1> QED BY <1>1, <1>2, <1>3, <1>4, <1>6, <1>7, Known, IdleIs, OneStep

-----------------------------------------------------------------------------
(* Sessions, failures, time, and the marks                                 *)

\* Sessions are no matter of the marks: a request that opens one goes on or ends.
LEMMA SessionsStep ==
  ASSUME FolderInv, NEW r \in Requests, NEW q, q = req[r], q.op \notin Writers,
         NEW new \in ReqRecords, Set(r, new), Shaped(new), new.op \notin Writers,
         UNCHANGED <<items, manifest, cache, clean, secret>>
  PROVE  FolderInv'
BY Known, QuietStep

LEMMA OpenLaterInv ==
  ASSUME FolderInv, NEW r \in Requests, NEW q, q = req[r], q.pc \in {"act", "open"},
         q.op = "unlock", NEW paths, paths \subseteq Paths, NEW token \in Nat,
         OpenLater(r, paths, token), UNCHANGED <<items, manifest, cache, clean, secret>>
  PROVE  FolderInv'
<1>1. q \in ReqRecords /\ Shaped(q) /\ q.op \notin Writers
  BY Known DEF Writers
<1>2. CASE Finish(r)
  BY <1>1, <1>2, IdleIs, SessionsStep DEF Finish
<1>3. CASE ~Finish(r)
  <2>1. PICK new : new = [q EXCEPT !.copy = paths, !.token = token, !.pc = "open"]
    OBVIOUS
  <2>2. Set(r, new)
    BY <1>3, <2>1 DEF OpenLater
  <2>3. new \in ReqRecords
    BY <1>1, <2>1 DEF ReqRecords, Pcs
  <2>4. /\ new.pc = "open" /\ new.op = "unlock" /\ new.path = q.path /\ new.to = q.to
        /\ new.batch = q.batch
    BY <1>1, <2>1 DEF ReqRecords
  <2>5. Shaped(new)
    BY <1>1, <2>4 DEF Shaped
  <2>6. new.op \notin Writers
    BY <2>4 DEF Writers
  <2> QED BY <1>1, <2>2, <2>3, <2>5, <2>6, SessionsStep
<1> QED BY <1>2, <1>3

\* An unlock takes a new token and opens its first session.
LEMMA OpenInv ==
  ASSUME FolderInv, issued \in Nat, NEW r \in Requests, NEW q, q = req[r], q.pc = "act",
         q.op = "unlock", NEW first, NEW others, others \subseteq Paths, NEW promised,
         Open(r, first, others, promised)
  PROVE  FolderInv'
<1>1. PICK token \in Nat : token = issued'
  BY DEF Open
<1>2. OpenLater(r, others, token) /\ UNCHANGED <<items, manifest, cache, clean, secret>>
  BY <1>1 DEF Open, SetSession, historyVars
<1> QED BY <1>2, OpenLaterInv

LEMMA OpenNextInv ==
  ASSUME FolderInv, NEW r \in Requests, OpenNext(r) PROVE FolderInv'
<1>1. PICK q : q = req[r]
  OBVIOUS
<1>2. /\ q.pc = "open" /\ q.op = "unlock" /\ q.copy \subseteq Paths /\ q.token \in Nat
  BY <1>1, Known DEF OpenNext, At, Shaped
<1>3. PICK p \in q.copy : /\ SetSession(q.kind, p, q.token, {p} \cap manifest[q.kind])
                          /\ OpenLater(r, q.copy \ {p}, q.token)
  BY <1>1 DEF OpenNext
<1>4. UNCHANGED <<items, manifest, cache, clean, secret>>
  BY <1>3 DEF SetSession, historyVars
<1>5. PICK paths : paths = q.copy \ {p}
  OBVIOUS
<1>6. paths \subseteq Paths /\ OpenLater(r, paths, q.token)
  BY <1>2, <1>3, <1>5
<1> QED BY <1>1, <1>2, <1>4, <1>6, OpenLaterInv

LEMMA OpenAroundInv ==
  ASSUME FolderInv, issued \in Nat, NEW r \in Requests, req[r].pc = "act",
         req[r].op = "unlock", OpenAround(r)
  PROVE  FolderInv'
<1>1. PICK q : q = req[r]
  OBVIOUS
<1>2. PICK folder : Open(r, folder, {q.path} \ {folder}, Promise(r, q.path))
  BY <1>1 DEF OpenAround
<1>3. PICK others, promised : others = {q.path} \ {folder} /\ promised = Promise(r, q.path)
  OBVIOUS
<1>4. others \subseteq Paths /\ Open(r, folder, others, promised)
  BY <1>1, <1>2, <1>3, Known
<1> QED BY <1>1, <1>4, OpenInv

LEMMA UnlockInv ==
  ASSUME FolderInv, issued \in Nat, NEW r \in Requests, Unlock(r) PROVE FolderInv'
<1>1. req[r].pc = "act" /\ req[r].op = "unlock"
  BY DEF Unlock, Doing, At
<1>2. CASE OpenAround(r)
  BY <1>1, <1>2, OpenAroundInv
<1>3. CASE Finish(r) /\ Quietly
  BY <1>1, <1>3, Ends, QuietlyIs
<1> QED BY <1>2, <1>3 DEF Unlock

LEMMA RevealInv ==
  ASSUME FolderInv, issued \in Nat, NEW r \in Requests, Reveal(r) PROVE FolderInv'
<1>1. req[r].pc = "act" /\ req[r].op = "unlock"
  BY DEF Reveal, Doing, At
<1>2. CASE OpenAround(r)
  BY <1>1, <1>2, OpenAroundInv
<1>3. CASE RevealBelow(r)
  <2>1. PICK q : q = req[r]
    OBVIOUS
  <2>2. PICK p, some : some \subseteq q.copy /\ Open(r, p, some \ {p}, Promise(r, p))
    BY <1>3, <2>1 DEF RevealBelow
  <2>3. PICK others, promised : others = some \ {p} /\ promised = Promise(r, p)
    OBVIOUS
  <2>4. others \subseteq Paths /\ Open(r, p, others, promised)
    BY <2>1, <2>2, <2>3, Known
  <2> QED BY <1>1, <2>1, <2>4, OpenInv
<1> QED BY <1>2, <1>3 DEF Reveal

LEMMA LockInv ==
  ASSUME FolderInv, NEW r \in Requests, Lock(r) PROVE FolderInv'
<1>1. req[r].pc = "lock" /\ req[r].op = "lock"
  BY Known DEF Lock, At, Shaped
<1>2. UNCHANGED <<items, manifest, cache, clean, secret>> /\ Finish(r)
  BY DEF Lock, Close, historyVars
<1> QED BY <1>1, <1>2, IdleIs, SessionsStep DEF Finish, Writers

LEMMA AbortInv ==
  ASSUME FolderInv, NEW r \in Requests, Abort(r) PROVE FolderInv'
<1>1. /\ items' = items /\ manifest' = manifest /\ cache' = cache /\ secret' = secret
      /\ clean' = (clean /\ req[r].op \notin Writers) /\ Set(r, Idle)
  BY DEF Abort, Finish
<1>2. clean' \in BOOLEAN /\ (clean' => clean /\ req[r].op \notin Writers)
  BY <1>1
<1> QED BY <1>1, <1>2, Known, IdleIs, OneStep

\* Time passes: no request goes on.
LEMMA TimeStep ==
  ASSUME FolderInv, UNCHANGED <<items, manifest, req, clean, secret>>,
         cache' \in [Kinds -> {NoCache} \cup SUBSET Paths]
  PROVE  FolderInv'
<1>1. Typed'
  BY DEF FolderInv, Typed
<1>2. Idle' = Idle /\ (Present(items, secret)' <=> Present(items', secret'))
  BY DEF Idle, Present
<1> QED BY <1>1, <1>2 DEF FolderInv, Writing, Present

\* A request begins.
LEMMA BeginInv ==
  ASSUME FolderInv, NEW r \in Requests, NEW op, NEW k \in Kinds, NEW p \in Paths,
         op \in {"mark", "unmark", "unlock", "lock", "check", "create", "mkdir", "delete",
                 "rename"},
         op \in {"create", "mkdir", "delete", "rename"} => k = "encrypted",
         Begin(r, op, k, p)
  PROVE  FolderInv'
<1>1. PICK start : start = IF op = "lock" THEN "lock"
                           ELSE IF op = "mkdir" THEN "target" ELSE "cache"
  OBVIOUS
<1>2. PICK new : new = [Idle EXCEPT !.op = op, !.kind = k, !.path = p, !.pc = start]
  OBVIOUS
<1>3. /\ Set(r, new) /\ req[r].pc = "idle"
      /\ items' = items /\ manifest' = manifest /\ cache' = cache /\ secret' = secret
      /\ clean' = (clean /\ ~ (op \in Writers /\ \E b \in Busy : req[b].op \in Writers))
  BY <1>1, <1>2 DEF Begin, At
<1>4. new = [op |-> op, kind |-> k, path |-> p, to |-> NoPath, copy |-> {}, batch |-> {},
             token |-> 0, pc |-> start]
  BY <1>2 DEF Idle
<1>5. new \in ReqRecords
  BY <1>1, <1>4 DEF ReqRecords, Writers, Readers, Pcs
<1>6. Shaped(new)
  BY <1>1, <1>4 DEF Shaped
<1>7. new.op = op /\ new.pc \notin {"fill", "act", "put"} /\ \A o \in Kinds : ~Pending(new, o)
  BY <1>1, <1>4 DEF Pending
<1>8. req[r].op \notin Writers /\ clean \in BOOLEAN
  BY <1>3, Known
<1>9. CASE op \notin Writers
  BY <1>3, <1>5, <1>6, <1>7, <1>8, <1>9, Known, OneStep
<1>10. CASE op \in Writers
  <2>1. /\ req \in [Requests -> ReqRecords] /\ \A s \in Requests : Shaped(req[s])
        /\ Typed /\ Present(items, secret)
    BY DEF FolderInv, Typed
  <2>2. /\ req' \in [Requests -> ReqRecords] /\ req'[r] = new
        /\ \A s \in Requests \ {r} : req'[s] = req[s]
    BY <1>3, <1>5, <2>1 DEF Set
  <2>3. ASSUME clean', NEW s \in Requests PROVE req[s].op \notin Writers
    <3>1. req[s].pc = "idle" => req[s].op \notin Writers
      BY <2>1, IdleIs DEF Shaped
    <3> QED BY <1>3, <1>10, <2>3, <3>1 DEF Busy, At
  <2>4. clean' => Sure(new, items, manifest, secret)
    <3>1. clean' => Sure(Idle, items, manifest, secret)
      BY <1>3, <2>3 DEF FolderInv, Writing
    <3> QED BY <1>5, <1>7, <3>1, IdleIs, Carried
  <2>5. Typed'
    BY <1>3, <1>8, <2>1, <2>2 DEF Typed
  <2>6. (\A s \in Requests : Shaped(req'[s])) /\ (Present(items, secret)' <=> Present(items, secret))
    BY <1>3, <1>6, <2>1, <2>2 DEF Present
  <2>7. clean' => \A s \in Requests : req'[s].op \in Writers => s = r
    BY <2>2, <2>3
  <2> QED BY <1>3, <1>7, <1>10, <2>1, <2>2, <2>4, <2>5, <2>6, <2>7 DEF FolderInv, Writing
<1> QED BY <1>9, <1>10

SessionsTyped ==
    /\ sessions \in [Kinds -> [Paths -> Nat]] /\ issued \in Nat
    /\ given \in [Kinds -> SUBSET (Paths \X Nat)]

LEMMA FolderNextInv == FolderInv /\ issued \in Nat /\ [FolderNext]_folderVars => FolderInv'
<1> SUFFICES ASSUME FolderInv, issued \in Nat, [FolderNext]_folderVars PROVE FolderInv'
  OBVIOUS
<1>1. CASE UNCHANGED folderVars
  BY <1>1, TimeStep DEF FolderInv, Typed, folderVars, historyVars
<1>2. ASSUME NEW r \in Requests, Starts(r) PROVE FolderInv'
  <2>1. PICK p \in Paths :
           \/ \E k \in Kinds, op \in {"mark", "unmark", "unlock", "lock", "check"} :
                 Begin(r, op, k, p)
           \/ \E op \in {"create", "mkdir", "delete", "rename"} :
                 Begin(r, op, "encrypted", p)
    BY <1>2 DEF Starts
  <2>2. "encrypted" \in Kinds
    BY DEF Kinds
  <2> QED BY <2>1, <2>2, BeginInv
<1>3. ASSUME NEW r \in Requests, FolderStep(r) PROVE FolderInv'
  <2>1. Check(r) => FolderInv'
    BY Ends, QuietlyIs DEF Check, Doing, At
  <2> QED BY <1>3, <2>1, ReadCacheInv, ReadS3Inv, FillCacheInv, PutManifestInv,
          InvalidateCacheInv, MarkInv, CreateMarkedInv, UnmarkInv, DeleteInv, RenameInv,
          RenamePlainInv, CheckTargetInv, PurgeTargetInv, PlaceFolderInv, ListSourceInv,
          MoveItemInv, MovedAllInv, FollowInv, UnlockInv, RevealInv, OpenNextInv, LockInv
          DEF FolderStep
<1>4. ASSUME NEW r \in Requests, Refuse(r) PROVE FolderInv'
  BY <1>4, Ends, QuietlyIs DEF Refuse, At
<1>5. ASSUME NEW k \in Kinds, CacheExpires(k) \/ SessionExpires(k) PROVE FolderInv'
  BY <1>5, TimeStep DEF CacheExpires, SessionExpires, historyVars, FolderInv, Typed
<1> QED BY <1>1, <1>2, <1>3, <1>4, <1>5, AbortInv DEF FolderNext

-----------------------------------------------------------------------------
(* What the sessions and the cache depend on                               *)

\* Of the steps of a request only a few touch the sessions or the manifest.
LEMMA StepsApart ==
  ASSUME NEW r \in Requests,
         Starts(r) \/ FolderStep(r) \/ Refuse(r) \/ Abort(r)
  PROVE  \/ UNCHANGED <<manifest, sessionVars>>
         \/ PutManifest(r) \/ Unlock(r) \/ Reveal(r) \/ OpenNext(r) \/ Lock(r)
<1>1. CASE Starts(r)
  BY <1>1 DEF Starts, Begin
<1>2. CASE FolderStep(r)
  <2>1. CASE ReadCache(r) \/ ReadS3(r) \/ FillCache(r) \/ InvalidateCache(r)
    BY <2>1 DEF ReadCache, ReadS3, FillCache, InvalidateCache, Quietly
  <2>2. CASE Mark(r) \/ CreateMarked(r) \/ Unmark(r) \/ Delete(r)
    BY <2>2 DEF Mark, CreateMarked, Unmark, Delete, Quietly
  <2>3. CASE Rename(r) \/ RenamePlain(r) \/ CheckTarget(r) \/ PurgeTarget(r) \/ PlaceFolder(r)
    BY <2>3 DEF Rename, RenamePlain, CheckTarget, PurgeTarget, PlaceFolder, Quietly
  <2>4. CASE ListSource(r) \/ MoveItem(r) \/ MovedAll(r) \/ Follow(r) \/ Check(r)
    BY <2>4 DEF ListSource, MoveItem, MovedAll, Follow, Check, Quietly
  <2> QED BY <1>2, <2>1, <2>2, <2>3, <2>4 DEF FolderStep
<1>3. CASE Refuse(r) \/ Abort(r)
  BY <1>3 DEF Refuse, Abort, Quietly
<1> QED BY <1>1, <1>2, <1>3

\* A session is written: the tokens it does not accept are no longer promised.
LEMMA SetSessionOpens ==
  ASSUME Typed, SessionsTyped, UnlockOpens, NEW k \in Kinds, NEW p \in Paths,
         NEW token \in Nat, NEW promised, promised \subseteq Paths,
         SetSession(k, p, token, promised),
         \A x \in promised, f \in manifest[k] :
            {q \in manifest[k] : Within(x, q)} = {f} => f = p
  PROVE  /\ sessions' \in [Kinds -> [Paths -> Nat]]
         /\ given' \in [Kinds -> SUBSET (Paths \X Nat)] /\ UnlockOpens'
<1>1. /\ sessions' = [sessions EXCEPT ![k] = [sessions[k] EXCEPT ![p] = token]]
      /\ given' = [given EXCEPT ![k] = {g \in given[k] : g[2] = token \/ ~Within(g[1], p)}
                                        \cup (promised \X {token})]
      /\ manifest' = manifest
      /\ sessions \in [Kinds -> [Paths -> Nat]] /\ given \in [Kinds -> SUBSET (Paths \X Nat)]
      /\ manifest \in [Kinds -> SUBSET Paths]
  BY DEF SetSession, SessionsTyped, Typed
<1>2. sessions' \in [Kinds -> [Paths -> Nat]]
  BY <1>1
<1>3. /\ sessions'[k][p] = token /\ \A q \in Paths \ {p} : sessions'[k][q] = sessions[k][q]
      /\ \A o \in Kinds \ {k} : sessions'[o] = sessions[o] /\ given'[o] = given[o]
      /\ given'[k] = {g \in given[k] : g[2] = token \/ ~Within(g[1], p)}
                       \cup (promised \X {token})
  BY <1>1
<1>4. given'[k] \subseteq Paths \X Nat
  BY <1>1, <1>3
<1>5. given' \in [Kinds -> SUBSET (Paths \X Nat)]
  BY <1>1, <1>3, <1>4
<1>6. ASSUME NEW o \in Kinds, NEW g \in given'[o], NEW f \in manifest[o],
             {q \in manifest[o] : Within(g[1], q)} = {f}
      PROVE  sessions'[o][f] = g[2]
  <2>1. CASE o # k
    BY <1>3, <1>6, <2>1 DEF UnlockOpens
  <2>2. CASE o = k /\ g \in given[k] /\ (g[2] = token \/ ~Within(g[1], p))
    <3>1. f \in Paths /\ Within(g[1], f) /\ sessions[k][f] = g[2]
      BY <1>1, <1>6, <2>2 DEF UnlockOpens
    <3> QED BY <1>3, <2>2, <3>1
  <2>3. CASE o = k /\ g \in promised \X {token}
    BY <1>3, <1>6, <2>3
  <2> QED BY <1>3, <1>6, <2>1, <2>2, <2>3
<1> QED BY <1>1, <1>2, <1>5, <1>6 DEF UnlockOpens

\* Without the sessions in and below a path the tokens for other paths hold.
LEMMA StillOpen ==
  ASSUME Typed, SessionsTyped, UnlockOpens, NEW k \in Kinds, NEW p \in Paths, UNCHANGED manifest,
         given' = [given EXCEPT ![k] = {g \in @ : ~Within(g[1], p)}],
         sessions' \in [Kinds -> [Paths -> Nat]],
         \A o \in Kinds \ {k} : sessions'[o] = sessions[o],
         \A q \in Paths : Within(q, p) \/ sessions'[k][q] = sessions[k][q]
  PROVE  given' \in [Kinds -> SUBSET (Paths \X Nat)] /\ UnlockOpens'
<1>1. /\ manifest \in [Kinds -> SUBSET Paths] /\ given \in [Kinds -> SUBSET (Paths \X Nat)]
      /\ manifest' = manifest
  BY DEF SessionsTyped, Typed
<1>2. /\ given' \in [Kinds -> SUBSET (Paths \X Nat)]
      /\ given'[k] = {g \in given[k] : ~Within(g[1], p)}
      /\ \A o \in Kinds \ {k} : given'[o] = given[o]
  BY <1>1
<1>3. ASSUME NEW o \in Kinds, NEW g \in given'[o], NEW f \in manifest[o],
             {q \in manifest[o] : Within(g[1], q)} = {f}
      PROVE  sessions'[o][f] = g[2]
  <2>1. g \in given[o] /\ g[1] \in Paths /\ f \in Paths
    BY <1>1, <1>2, <1>3
  <2>2. sessions[o][f] = g[2] /\ Within(g[1], f)
    BY <1>3, <2>1 DEF UnlockOpens
  <2>3. CASE o # k
    BY <2>2, <2>3
  <2>4. CASE o = k
    <3>1. ~Within(g[1], p)
      BY <1>2, <1>3, <2>4
    <3>2. ~Within(f, p)
      BY <2>1, <2>2, <3>1, WithinWithin
    <3> QED BY <2>1, <2>2, <2>4, <3>2
  <2> QED BY <2>3, <2>4
<1> QED BY <1>1, <1>2, <1>3 DEF UnlockOpens

SessionInv == SessionsTyped /\ UnlockOpens

\* The innermost marked folder is the only one, if there is only one.
LEMMA OpenAroundOpens ==
  ASSUME FolderInv, SessionInv, NEW r \in Requests, req[r].pc = "act", OpenAround(r)
  PROVE  SessionInv'
<1>1. PICK q : q = req[r]
  OBVIOUS
<1>2. PICK k : k = q.kind
  OBVIOUS
<1>3. k \in Kinds /\ q.copy \subseteq Paths /\ q.path \in Paths /\ Typed /\ issued \in Nat
  BY <1>1, <1>2, Known DEF SessionInv, SessionsTyped
<1>4. PICK folder \in Innermost(q.path, q.copy) :
         Open(r, folder, {q.path} \ {folder}, Promise(r, q.path))
  BY <1>1 DEF OpenAround
<1>5. PICK promised, token : promised = Promise(r, q.path) /\ token = issued'
  OBVIOUS
<1>6. SetSession(k, folder, token, promised) /\ issued' = issued + 1
  BY <1>1, <1>2, <1>4, <1>5 DEF Open
<1>7. folder \in Paths /\ token \in Nat /\ promised \subseteq Paths /\ issued' \in Nat
  BY <1>3, <1>4, <1>5, <1>6 DEF Innermost, Promise
<1>8. \A x \in promised, f \in manifest[k] :
         {o \in manifest[k] : Within(x, o)} = {f} => f = folder
  BY <1>1, <1>2, <1>4, <1>5 DEF Promise, Innermost
<1>10. /\ sessions' \in [Kinds -> [Paths -> Nat]]
       /\ given' \in [Kinds -> SUBSET (Paths \X Nat)] /\ UnlockOpens'
  BY <1>3, <1>6, <1>7, <1>8, SetSessionOpens DEF SessionInv
<1> QED BY <1>7, <1>10 DEF SessionInv, SessionsTyped

LEMMA RevealBelowOpens ==
  ASSUME FolderInv, SessionInv, NEW r \in Requests, req[r].pc = "act", RevealBelow(r)
  PROVE  SessionInv'
<1>1. PICK q : q = req[r]
  OBVIOUS
<1>2. PICK k : k = q.kind
  OBVIOUS
<1>3. k \in Kinds /\ q.copy \subseteq Paths /\ Typed /\ issued \in Nat
  BY <1>1, <1>2, Known DEF SessionInv, SessionsTyped
<1>4. PICK some, p : some \subseteq q.copy /\ p \in some /\ Open(r, p, some \ {p}, Promise(r, p))
  BY <1>1 DEF RevealBelow
<1>5. PICK promised, token : promised = Promise(r, p) /\ token = issued'
  OBVIOUS
<1>6. SetSession(k, p, token, promised) /\ issued' = issued + 1 /\ p \in q.copy
  BY <1>1, <1>2, <1>4, <1>5 DEF Open
<1>7. p \in Paths /\ token \in Nat /\ promised \subseteq Paths /\ issued' \in Nat /\ Within(p, p)
  BY <1>3, <1>5, <1>6, WithinItself DEF Promise
<1>8. \A x \in promised, f \in manifest[k] :
         {o \in manifest[k] : Within(x, o)} = {f} => f = p
  BY <1>1, <1>2, <1>5, <1>6, <1>7 DEF Promise
<1>10. /\ sessions' \in [Kinds -> [Paths -> Nat]]
       /\ given' \in [Kinds -> SUBSET (Paths \X Nat)] /\ UnlockOpens'
  BY <1>3, <1>6, <1>7, <1>8, SetSessionOpens DEF SessionInv
<1> QED BY <1>7, <1>10 DEF SessionInv, SessionsTyped

LEMMA OpenNextOpens ==
  ASSUME FolderInv, SessionInv, NEW r \in Requests, OpenNext(r)
  PROVE  SessionInv'
<1>1. PICK q : q = req[r]
  OBVIOUS
<1>2. PICK k, token : k = q.kind /\ token = q.token
  OBVIOUS
<1>3. /\ k \in Kinds /\ q.copy \subseteq Paths /\ token \in Nat /\ Typed /\ issued \in Nat
      /\ manifest \in [Kinds -> SUBSET Paths] /\ issued' = issued
  BY <1>1, <1>2, Known DEF SessionInv, SessionsTyped, OpenNext
<1>4. PICK p \in q.copy : SetSession(k, p, token, {p} \cap manifest[k])
  BY <1>1, <1>2 DEF OpenNext
<1>5. PICK promised : promised = {p} \cap manifest[k]
  OBVIOUS
<1>6. p \in Paths /\ Within(p, p) /\ promised \subseteq Paths /\ SetSession(k, p, token, promised)
  BY <1>3, <1>4, <1>5, WithinItself
<1>7. \A x \in promised, f \in manifest[k] :
         {o \in manifest[k] : Within(x, o)} = {f} => f = p
  BY <1>5, <1>6
<1>10. /\ sessions' \in [Kinds -> [Paths -> Nat]]
       /\ given' \in [Kinds -> SUBSET (Paths \X Nat)] /\ UnlockOpens'
  BY <1>3, <1>6, <1>7, SetSessionOpens DEF SessionInv
<1> QED BY <1>3, <1>10 DEF SessionInv, SessionsTyped

LEMMA LockOpens ==
  ASSUME FolderInv, SessionInv, NEW r \in Requests, Lock(r)
  PROVE  SessionInv'
<1>1. PICK q : q = req[r]
  OBVIOUS
<1>2. PICK k, p : k = q.kind /\ p = q.path
  OBVIOUS
<1>3. /\ k \in Kinds /\ p \in Paths /\ Typed
      /\ sessions \in [Kinds -> [Paths -> Nat]] /\ issued \in Nat
  BY <1>1, <1>2, Known DEF Lock, At, SessionInv, SessionsTyped
<1>4. /\ sessions' = [sessions EXCEPT ![k] = [o \in Paths |-> IF Within(o, p) THEN 0 ELSE @[o]]]
      /\ given' = [given EXCEPT ![k] = {g \in @ : ~Within(g[1], p)}]
      /\ manifest' = manifest /\ issued' = issued
  BY <1>1, <1>2 DEF Lock, Close
<1>5. /\ sessions' \in [Kinds -> [Paths -> Nat]]
      /\ \A o \in Kinds \ {k} : sessions'[o] = sessions[o]
      /\ \A o \in Paths : Within(o, p) \/ sessions'[k][o] = sessions[k][o]
  BY <1>3, <1>4
<1> QED BY <1>3, <1>4, <1>5, StillOpen DEF SessionInv, SessionsTyped

LEMMA SessionNextInv ==
  FolderInv /\ SessionInv /\ [FolderNext]_folderVars => SessionInv'
<1> SUFFICES ASSUME FolderInv, SessionInv, [FolderNext]_folderVars PROVE SessionInv'
  OBVIOUS
<1>1. ASSUME UNCHANGED <<manifest, sessionVars>> PROVE SessionInv'
  BY <1>1 DEF SessionInv, SessionsTyped, UnlockOpens, sessionVars
<1>2. ASSUME NEW r \in Requests, PutManifest(r) PROVE SessionInv'
  <2>1. PICK k : k = req[r].kind
    OBVIOUS
  <2>2. /\ k \in Kinds /\ sessions' = sessions /\ issued' = issued
        /\ manifest' = [manifest EXCEPT ![k] = req[r].copy]
        /\ given' = [given EXCEPT ![k] = {}]
        /\ manifest \in [Kinds -> SUBSET Paths] /\ given \in [Kinds -> SUBSET (Paths \X Nat)]
    BY <1>2, <2>1, Known DEF PutManifest, SessionInv, SessionsTyped
  <2>3. given' \in [Kinds -> SUBSET (Paths \X Nat)]
    BY <2>2
  <2>4. given'[k] = {} /\ \A o \in Kinds \ {k} : given'[o] = given[o] /\ manifest'[o] = manifest[o]
    BY <2>2
  <2> QED BY <2>2, <2>3, <2>4 DEF SessionInv, SessionsTyped, UnlockOpens
<1>3. ASSUME NEW r \in Requests, Unlock(r) \/ Reveal(r) PROVE SessionInv'
  <2>1. req[r].pc = "act"
    BY <1>3 DEF Unlock, Reveal, Doing, At
  <2>2. OpenAround(r) \/ RevealBelow(r) \/ Quietly
    BY <1>3 DEF Unlock, Reveal
  <2> QED BY <1>1, <2>1, <2>2, OpenAroundOpens, RevealBelowOpens DEF Quietly
<1>4. ASSUME NEW k \in Kinds, SessionExpires(k) PROVE SessionInv'
  <2>1. PICK p \in Paths :
           /\ sessions' = [sessions EXCEPT ![k] = [sessions[k] EXCEPT ![p] = 0]]
           /\ given' = [given EXCEPT ![k] = {g \in @ : ~Within(g[1], p)}]
           /\ manifest' = manifest /\ issued' = issued
    BY <1>4 DEF SessionExpires
  <2>2. sessions \in [Kinds -> [Paths -> Nat]] /\ Within(p, p) /\ Typed
    BY WithinItself DEF SessionInv, SessionsTyped, FolderInv
  <2>3. /\ sessions' \in [Kinds -> [Paths -> Nat]]
        /\ \A o \in Kinds \ {k} : sessions'[o] = sessions[o]
        /\ \A o \in Paths : Within(o, p) \/ sessions'[k][o] = sessions[k][o]
    BY <2>1, <2>2
  <2> QED BY <2>1, <2>2, <2>3, StillOpen DEF SessionInv, SessionsTyped
<1>5. ASSUME NEW k \in Kinds, CacheExpires(k) PROVE UNCHANGED <<manifest, sessionVars>>
  BY <1>5 DEF CacheExpires
<1>6. UNCHANGED folderVars => UNCHANGED <<manifest, sessionVars>>
  BY DEF folderVars
<1> QED BY <1>1, <1>2, <1>3, <1>4, <1>5, <1>6, StepsApart, OpenNextOpens, LockOpens
        DEF FolderNext

\* A request leaves the others alone, and but for four kinds of step the cache.
LEMMA CacheApart ==
  ASSUME NEW r \in Requests,
         Starts(r) \/ FolderStep(r) \/ Refuse(r) \/ Abort(r)
  PROVE  /\ \E new : Set(r, new)
         /\ \/ UNCHANGED <<manifest, cache, stale>> /\ ~At(r, "invalidate")
            \/ FillCache(r) \/ PutManifest(r) \/ InvalidateCache(r) \/ Abort(r)
<1>1. CASE Starts(r)
  BY <1>1 DEF Starts, Begin, At
<1>2. CASE ReadCache(r) \/ ReadS3(r)
  BY <1>2 DEF ReadCache, ReadS3, Goto, At, Quietly, historyVars
<1>3. CASE FillCache(r) \/ PutManifest(r) \/ InvalidateCache(r) \/ Abort(r)
  BY <1>3 DEF FillCache, PutManifest, InvalidateCache, Abort, Goto, Finish, NextKind
<1>4. CASE Mark(r) \/ CreateMarked(r) \/ Unmark(r) \/ Delete(r)
  BY <1>4 DEF Mark, CreateMarked, Unmark, Delete, Doing, At, Save, Finish, Quietly, historyVars
<1>5. CASE Rename(r) \/ RenamePlain(r) \/ CheckTarget(r)
  BY <1>5 DEF Rename, RenamePlain, CheckTarget, Doing, At, Goto, Finish, Quietly, historyVars
<1>6. CASE PurgeTarget(r) \/ PlaceFolder(r) \/ ListSource(r)
  BY <1>6 DEF PurgeTarget, PlaceFolder, ListSource, At, Goto, Finish, Quietly, historyVars
<1>7. CASE MoveItem(r) \/ MovedAll(r) \/ Follow(r)
  BY <1>7 DEF MoveItem, MovedAll, Follow, Doing, At, Save, NextKind, Finish, Quietly, historyVars
<1>8. CASE Unlock(r) \/ Reveal(r)
  BY <1>8 DEF Unlock, Reveal, OpenAround, RevealBelow, Open, OpenLater, SetSession, Doing, At,
              Finish, Quietly, historyVars
<1>9. CASE OpenNext(r) \/ Lock(r)
  BY <1>9 DEF OpenNext, Lock, Close, OpenLater, SetSession, At, Finish, historyVars
<1>10. CASE Check(r) \/ Refuse(r)
  BY <1>10 DEF Check, Refuse, Doing, At, Finish, Quietly, historyVars
<1> QED BY <1>1, <1>2, <1>3, <1>4, <1>5, <1>6, <1>7, <1>8, <1>9, <1>10 DEF FolderStep

LEMMA FreshNextInv ==
  FolderInv /\ CacheIsFresh /\ [FolderNext]_folderVars => CacheIsFresh'
<1> SUFFICES ASSUME FolderInv, CacheIsFresh, [FolderNext]_folderVars PROVE CacheIsFresh'
  OBVIOUS
<1>1. /\ cache \in [Kinds -> {NoCache} \cup SUBSET Paths] /\ manifest \in [Kinds -> SUBSET Paths]
      /\ req \in [Requests -> ReqRecords]
      /\ \A r \in Requests : req[r].kind \in Kinds /\ req[r].copy \subseteq Paths
  BY DEF FolderInv, Typed, ReqRecords
<1>2. ASSUME NEW r \in Requests,
             Starts(r) \/ FolderStep(r) \/ Refuse(r) \/ Abort(r)
      PROVE  CacheIsFresh'
  <2>1. /\ \A s \in Requests \ {r} : req'[s] = req[s]
        /\ \/ UNCHANGED <<manifest, cache, stale>> /\ ~At(r, "invalidate")
           \/ FillCache(r) \/ PutManifest(r) \/ InvalidateCache(r) \/ Abort(r)
    BY <1>1, <1>2, CacheApart DEF Set
  <2>2. CASE UNCHANGED <<manifest, cache, stale>> /\ ~At(r, "invalidate")
    BY <2>1, <2>2 DEF CacheIsFresh, At
  <2>3. CASE FillCache(r)
    <3>1. PICK k : k = req[r].kind
      OBVIOUS
    <3>2. /\ cache' = [cache EXCEPT ![k] = req[r].copy] /\ manifest' = manifest
          /\ stale' = IF req[r].copy = manifest[k] THEN stale \ {k} ELSE stale \cup {k}
          /\ ~At(r, "invalidate") /\ k \in Kinds
      BY <1>1, <2>3, <3>1 DEF FillCache, At
    <3>3. cache'[k] = manifest[k] \/ k \in stale'
      BY <1>1, <3>2
    <3>4. \A o \in Kinds \ {k} : cache'[o] = cache[o] /\ (o \in stale' <=> o \in stale)
      BY <1>1, <3>2
    <3> QED BY <2>1, <3>2, <3>3, <3>4 DEF CacheIsFresh, At
  <2>4. CASE PutManifest(r)
    <3>1. PICK k : k = req[r].kind
      OBVIOUS
    <3>2. /\ manifest' = [manifest EXCEPT ![k] = req[r].copy] /\ cache' = cache /\ stale' = stale
          /\ ~At(r, "invalidate") /\ k \in Kinds
          /\ req' = [req EXCEPT ![r] = [req[r] EXCEPT !.pc = "invalidate"]]
      BY <1>1, <2>4, <3>1 DEF PutManifest, At, Goto, Set
    <3>3. req'[r].pc = "invalidate" /\ req'[r].kind = k
      BY <1>1, <3>1, <3>2 DEF ReqRecords
    <3>4. \A o \in Kinds \ {k} : manifest'[o] = manifest[o]
      BY <1>1, <3>2
    <3> QED BY <2>1, <3>2, <3>3, <3>4 DEF CacheIsFresh, At
  <2>5. CASE InvalidateCache(r)
    <3>1. PICK k : k = req[r].kind
      OBVIOUS
    <3>2. /\ cache' = [cache EXCEPT ![k] = NoCache] /\ manifest' = manifest
          /\ stale' = stale \ {k} /\ k \in Kinds
      BY <1>1, <2>5, <3>1 DEF InvalidateCache
    <3>3. cache'[k] = NoCache /\ \A o \in Kinds \ {k} : cache'[o] = cache[o]
      BY <1>1, <3>2
    <3> QED BY <2>1, <3>1, <3>2, <3>3 DEF CacheIsFresh, At
  <2>6. CASE Abort(r)
    <3>1. /\ cache' = cache /\ manifest' = manifest
          /\ stale' = IF At(r, "invalidate") THEN stale \cup {req[r].kind} ELSE stale
      BY <2>6 DEF Abort
    <3> QED BY <2>1, <3>1 DEF CacheIsFresh, At
  <2> QED BY <2>1, <2>2, <2>3, <2>4, <2>5, <2>6
<1>3. ASSUME NEW k \in Kinds, CacheExpires(k) PROVE CacheIsFresh'
  <2>1. /\ cache' = [cache EXCEPT ![k] = NoCache] /\ manifest' = manifest /\ req' = req
        /\ stale' = stale \ {k}
    BY <1>3 DEF CacheExpires
  <2>2. cache'[k] = NoCache /\ \A o \in Kinds \ {k} : cache'[o] = cache[o]
    BY <1>1, <2>1
  <2> QED BY <2>1, <2>2 DEF CacheIsFresh, At
<1>4. ASSUME UNCHANGED <<manifest, cache, req, stale>> PROVE CacheIsFresh'
  BY <1>4 DEF CacheIsFresh, At
<1>5. ASSUME NEW k \in Kinds, SessionExpires(k) PROVE UNCHANGED <<manifest, cache, req, stale>>
  BY <1>5 DEF SessionExpires, historyVars
<1>6. UNCHANGED folderVars => UNCHANGED <<manifest, cache, req, stale>>
  BY DEF folderVars, historyVars
<1> QED BY <1>2, <1>3, <1>4, <1>5, <1>6 DEF FolderNext

-----------------------------------------------------------------------------
(* The theorems                                                            *)

LEMMA FolderIsInv == FolderSpec => [](FolderInv /\ SessionInv)
<1>1. FolderInit => FolderInv /\ SessionInv
  <2>1. FolderInit => SessionInv
    BY DEF FolderInit, SessionInv, SessionsTyped, UnlockOpens
  <2> QED BY <2>1, FolderInitInv
<1>2. FolderInv /\ SessionInv /\ [FolderNext]_folderVars => (FolderInv /\ SessionInv)'
  BY FolderNextInv, SessionNextInv DEF SessionInv, SessionsTyped
<1> QED BY <1>1, <1>2, PTL DEF FolderSpec

\* An item that was put under a mark stays under one until it is unmarked or
\* deleted, whichever directories are created, renamed and removed, while requests
\* that write run one at a time, to their end, and on copies of the manifest that
\* are the one in S3; requests that only read may overlap with them and fill the
\* cache (DirectoryRename and what follows it).
THEOREM MarksAreKept == FolderSpec => []MarksFollowContent
<1>1. FolderInv => MarksFollowContent
  <2> SUFFICES ASSUME FolderInv, clean, \A b \in Busy : req[b].op \notin Writers
               PROVE  \A k \in Kinds : Kept(k, items, manifest, secret)
    BY DEF MarksFollowContent, Kept
  <2>1. \A r \in Requests : ~Writing(r)
    BY Known DEF Busy, At, Writing
  <2> QED BY <2>1, IdleIs DEF FolderInv, Sure
<1> QED BY <1>1, FolderIsInv, PTL

\* However requests overlap, a cached manifest that is not the one in S3 is one
\* that a save still has to delete, could not delete, or that a late fill brought
\* back (SaveEncryptedFolderManifest deletes the key after its PutObject).
THEOREM ManifestsAreFresh == FolderSpec => []CacheIsFresh
<1>1. FolderInit => CacheIsFresh
  BY DEF FolderInit, CacheIsFresh
<1> QED BY <1>1, FreshNextInv, FolderIsInv, PTL DEF FolderSpec

\* However requests overlap, the token of an unlock is the one that the check of a
\* single marked folder around the path compares with, until a lock, an expiry, a
\* later unlock or a saved manifest undoes it (DirectoryUnlock, DirectoryReveal,
\* DirectoryLock, ValidateDirectorySession).
THEOREM UnlockedStaysOpen == FolderSpec => []UnlockOpens
<1>1. SessionInv => UnlockOpens
  BY DEF SessionInv
<1> QED BY <1>1, FolderIsInv, PTL

=============================================================================
