--------------------------- MODULE CloudMove_proofs ---------------------------
(***************************************************************************)
(* Proofs about CloudMove, for any directories, names, number of requests  *)
(* and version limit: the types, what a move still has to delete           *)
(* (CopiedBeforeDeleted), that nothing is lost by it (NothingLost), and    *)
(* that a calm run leaves no copies (OneCopy).                             *)
(*                                                                         *)
(* CopiedBeforeDeleted is what makes NothingLost go through a Purge; it is *)
(* inductive together with the types and with Shape, which says what kind  *)
(* of item each kind of request works on.                                  *)
(***************************************************************************)
EXTENDS CloudMove, SequenceTheorems, TLAPS

-----------------------------------------------------------------------------
(* Version lists                                                           *)

LEMMA ElementsOfPut ==
  ASSUME NEW S, NEW c \in S, NEW s \in Seq(S)
  PROVE  /\ <<c>> \o s \in Seq(S)
         /\ Elements(<<c>> \o s) = {c} \cup Elements(s)
<1>1. <<c>> \in Seq(S) /\ Len(<<c>>) = 1 /\ <<c>>[1] = c
  OBVIOUS
<1>2. /\ <<c>> \o s \in Seq(S) /\ Len(<<c>> \o s) = 1 + Len(s)
      /\ \A i \in 1..(1 + Len(s)) :
            (<<c>> \o s)[i] = IF i <= 1 THEN <<c>>[i] ELSE s[i - 1]
  BY <1>1, ConcatProperties
<1>3. DOMAIN (<<c>> \o s) = 1..(1 + Len(s)) /\ DOMAIN s = 1..Len(s) /\ Len(s) \in Nat
  BY <1>2
<1>4. Elements(<<c>> \o s) \subseteq {c} \cup Elements(s)
  BY <1>1, <1>2, <1>3 DEF Elements
<1>5. c \in Elements(<<c>> \o s)
  <2>1. 1 \in DOMAIN (<<c>> \o s) /\ (<<c>> \o s)[1] = c
    BY <1>1, <1>2, <1>3
  <2> QED BY <2>1 DEF Elements
<1>6. Elements(s) \subseteq Elements(<<c>> \o s)
  <2> SUFFICES ASSUME NEW i \in DOMAIN s PROVE s[i] \in Elements(<<c>> \o s)
    BY DEF Elements
  <2>1. i + 1 \in DOMAIN (<<c>> \o s) /\ (<<c>> \o s)[i + 1] = s[i]
    BY <1>2, <1>3
  <2> QED BY <2>1 DEF Elements
<1> QED BY <1>2, <1>4, <1>5, <1>6

LEMMA ElementsOfHead ==
  ASSUME NEW S, NEW s \in Seq(S), s # <<>>
  PROVE  Head(s) \in S /\ Head(s) \in Elements(s)
  BY DEF Elements

LEMMA ElementsOfNone == Elements(<<>>) = {}
  BY DEF Elements

LEMMA ElementsTyped ==
  ASSUME NEW S, NEW s \in Seq(S)
  PROVE  Elements(s) \subseteq S
  BY DEF Elements

LEMMA ElementsOfKept ==
  ASSUME MoveTypeOK, NEW k \in Keys
  PROVE  /\ Kept(k) \in Seq(Contents)
         /\ Elements(Kept(k)) \subseteq Stored(k)
<1> DEFINE s == versions[k]
           n == IF Len(s) <= 1 + MaxOldVersions THEN Len(s) ELSE 1 + MaxOldVersions
<1>1. s \in Seq(Contents) /\ Len(s) \in Nat /\ n \in Nat /\ n <= Len(s)
  BY MoveAssumption DEF MoveTypeOK
<1>2. /\ SubSeq(s, 1, n) \in Seq(Contents)
      /\ \A i \in DOMAIN SubSeq(s, 1, n) : i \in DOMAIN s /\ SubSeq(s, 1, n)[i] = s[i]
  <2> HIDE DEF n, s
  <2> QED BY <1>1
<1>3. Kept(k) = SubSeq(s, 1, n)
  BY DEF Kept
<1> HIDE DEF n, s
<1>4. Elements(Kept(k)) \subseteq Elements(s)
  BY <1>2, <1>3 DEF Elements
<1> QED BY <1>2, <1>3, <1>4 DEF Stored, s

-----------------------------------------------------------------------------
(* Typing                                                                  *)

ReqRecords ==
    [op : Ops \cup {"none"}, todo : SUBSET Jobs, job : Jobs,
     dir : {<<>>} \cup Dirs \X Dirs, old : SUBSET Contents, pc : Pcs]

\* What kind of item each kind of request works on, and where it can be.
Fits(op, j) ==
    /\ op = "upload" <=> j.from = NoKey
    /\ op = "delete" <=> j.to = NoKey

InShape(q) ==
    /\ \A j \in q.todo : Fits(q.op, j)
    /\ q.pc \in {"copy", "prune", "purge"} => Fits(q.op, q.job)
    /\ q.pc = "find" => q.op = "delete"
    /\ q.pc \in {"next", "purge"} /\ q.op = "delete" => q.todo = {}
    /\ q.pc \in {"check", "list", "copy", "prune"} => q.op # "delete"
    /\ q.pc = "purge" => q.op # "upload"
    /\ q.pc \in {"list", "check"} /\ q.op = "moveDir" => q.dir \in Dirs \X Dirs
    /\ q.pc = "list" => q.op = "moveDir"

Shape == \A r \in Requests : InShape(req[r])

LEMMA SetKeeps ==
  ASSUME MoveTypeOK, Shape, NEW r \in Requests,
         NEW new \in ReqRecords, InShape(new), Set(r, new)
  PROVE  /\ req' \in [Requests -> ReqRecords]
         /\ Shape'
         /\ req'[r] = new
         /\ \A s \in Requests \ {r} : req'[s] = req[s]
<1>1. req \in [Requests -> ReqRecords]
  BY DEF MoveTypeOK, ReqRecords
<1>2. /\ req' \in [Requests -> ReqRecords]
      /\ req'[r] = new
      /\ \A s \in Requests \ {r} : req'[s] = req[s]
  BY <1>1 DEF Set
<1> QED
  BY <1>2 DEF Shape

LEMMA IdleKeeps == Idle \in ReqRecords /\ InShape(Idle)
  BY DEF Idle, ReqRecords, NoJob, Jobs, Pcs, Ops, InShape, Fits

LEMMA TypedParts ==
  ASSUME MoveTypeOK
  PROVE  /\ \A r \in Requests : req[r] \in ReqRecords
         /\ \A k \in Keys : versions[k] \in Seq(Contents) /\ Stored(k) \subseteq Contents
<1>1. \A k \in Keys : versions[k] \in Seq(Contents)
  BY DEF MoveTypeOK
<1> QED
  BY <1>1, ElementsTyped DEF MoveTypeOK, ReqRecords, Stored

LEMMA JobTyped ==
  ASSUME NEW from \in Keys \cup {NoKey}, NEW to \in Keys \cup {NoKey}
  PROVE  Job(from, to) \in Jobs /\ Job(from, to).from = from /\ Job(from, to).to = to
  BY DEF Job, Jobs

\* A request that begins with items that fit.
LEMMA BeginKeeps ==
  ASSUME MoveTypeOK, Shape, NEW r \in Requests,
         NEW op \in Ops, NEW jobs \in SUBSET Jobs,
         NEW dir \in {<<>>} \cup Dirs \X Dirs, NEW pc \in {"check", "next", "find"},
         Begin(r, op, jobs, dir, pc),
         \A j \in jobs : Fits(op, j),
         op = "delete" <=> pc = "find",
         op = "moveDir" => dir \in Dirs \X Dirs
  PROVE  MoveTypeOK' /\ Shape'
<1> DEFINE new == [Idle EXCEPT !.op = op, !.todo = jobs, !.dir = dir, !.pc = pc]
<1>1. new \in ReqRecords
  BY DEF Idle, ReqRecords, NoJob, Jobs, Pcs, Ops
<1>2. new.op = op /\ new.todo = jobs /\ new.dir = dir /\ new.pc = pc
  BY DEF Idle
<1>3. Set(r, new)
  BY DEF Begin
<1> HIDE DEF new
<1>4. InShape(new)
  BY <1>2 DEF InShape
<1>5. req' \in [Requests -> ReqRecords] /\ Shape'
  BY <1>1, <1>3, <1>4, SetKeeps
<1>6. /\ ops' \in 0..MaxOps /\ calm' \in BOOLEAN
      /\ UNCHANGED <<versions, discarded, overtaken>>
  BY MoveAssumption DEF MoveTypeOK, Begin
<1> QED
  BY <1>5, <1>6 DEF MoveTypeOK, ReqRecords

Beginning(r) ==
    \/ BeginMove(r) \/ BeginMoveDir(r) \/ BeginRename(r) \/ BeginTouch(r)
    \/ BeginUpload(r) \/ BeginDelete(r)

LEMMA BeginningKeeps ==
  ASSUME MoveTypeOK, Shape, NEW r \in Requests, Beginning(r)
  PROVE  MoveTypeOK' /\ Shape'
<1> USE MoveAssumption
<1>0. \A k \in Files : k \in Keys /\ k[1] \in Dirs /\ k[2] \in Names
  BY DEF Files, Keys
<1>1. ASSUME NEW a \in Files, NEW b \in Files, NEW d \in Dirs,
             Begin(r, "move", {Job(k, <<d, k[2]>>) : k \in {a, b}}, <<>>, "check")
      PROVE  MoveTypeOK' /\ Shape'
  <2>1. \A k \in {a, b} : /\ Job(k, <<d, k[2]>>) \in Jobs
                          /\ Fits("move", Job(k, <<d, k[2]>>))
    <3> TAKE k \in {a, b}
    <3>1. k \in Keys /\ <<d, k[2]>> \in Keys
      BY <1>0 DEF Keys
    <3> QED BY <3>1, JobTyped DEF Fits
  <2> DEFINE jobs == {Job(k, <<d, k[2]>>) : k \in {a, b}}
  <2>2. jobs \in SUBSET Jobs /\ \A j \in jobs : Fits("move", j)
    BY <2>1
  <2>3. Begin(r, "move", jobs, <<>>, "check")
    BY <1>1
  <2> HIDE DEF jobs
  <2> QED BY <2>2, <2>3, BeginKeeps DEF Ops
<1>2. ASSUME NEW from \in Dirs, NEW to \in Dirs,
             Begin(r, "moveDir", {}, <<from, to>>, "check")
      PROVE  MoveTypeOK' /\ Shape'
  BY <1>2, BeginKeeps DEF Ops
<1>3. ASSUME NEW op \in Ops \ {"moveDir"}, NEW pc \in {"check", "next", "find"},
             NEW from \in Keys \cup {NoKey}, NEW to \in Keys \cup {NoKey},
             Begin(r, op, {Job(from, to)}, <<>>, pc),
             op = "upload" <=> from = NoKey, op = "delete" <=> to = NoKey,
             op = "delete" <=> pc = "find"
      PROVE  MoveTypeOK' /\ Shape'
  <2>1. {Job(from, to)} \in SUBSET Jobs /\ \A j \in {Job(from, to)} : Fits(op, j)
    BY <1>3, JobTyped DEF Fits
  <2> QED BY <1>3, <2>1, BeginKeeps
<1>4. CASE BeginMove(r)
  BY <1>4, <1>1 DEF BeginMove
<1>5. CASE BeginMoveDir(r)
  BY <1>5, <1>2 DEF BeginMoveDir
<1>6. CASE BeginRename(r)
  <2>1. PICK k \in Files, n \in Names : Begin(r, "rename", {Job(k, <<k[1], n>>)}, <<>>, "check")
    BY <1>6 DEF BeginRename
  <2>2. k \in Keys /\ <<k[1], n>> \in Keys
    BY <1>0 DEF Keys
  <2>3. k # NoKey /\ <<k[1], n>> # NoKey /\ "rename" \in Ops \ {"moveDir"}
    BY <2>2 DEF Ops
  <2> DEFINE to == <<k[1], n>>
  <2>4. Begin(r, "rename", {Job(k, to)}, <<>>, "check") /\ to \in Keys /\ to # NoKey
    BY <2>1, <2>2, <2>3
  <2> HIDE DEF to
  <2> QED BY <2>2, <2>3, <2>4, <1>3
<1>7. CASE BeginTouch(r)
  BY <1>7, <1>0, <1>3 DEF BeginTouch, Ops
<1>8. CASE BeginUpload(r)
  BY <1>8, <1>3 DEF BeginUpload, Ops
<1>9. CASE BeginDelete(r)
  BY <1>9, <1>0, <1>3 DEF BeginDelete, Ops
<1> QED
  BY <1>4, <1>5, <1>6, <1>7, <1>8, <1>9 DEF Beginning


\* A request that looks for its next step without changing anything.
Looking(r) ==
    CheckConflicts(r) \/ CheckDirectory(r) \/ ListDirectory(r) \/ NextItem(r) \/ FindFile(r)

LEMMA QuietSetKeeps ==
  ASSUME MoveTypeOK, Shape, NEW r \in Requests,
         NEW new \in ReqRecords, InShape(new), Set(r, new),
         ops' \in 0..MaxOps, calm' \in BOOLEAN, UNCHANGED <<versions, discarded, overtaken>>
  PROVE  MoveTypeOK' /\ Shape'
  BY SetKeeps DEF MoveTypeOK, ReqRecords

LEMMA LookingKeeps ==
  ASSUME MoveTypeOK, Shape, NEW r \in Requests, Looking(r)
  PROVE  MoveTypeOK' /\ Shape'
<1> DEFINE q == req[r]
<1>1. q \in ReqRecords /\ InShape(q) /\ Quietly
      /\ ops \in 0..MaxOps /\ calm \in BOOLEAN
  BY TypedParts DEF Looking, Shape, CheckConflicts, CheckDirectory, ListDirectory,
                    NextItem, FindFile, MoveTypeOK
<1>2. ASSUME NEW new \in ReqRecords, InShape(new), Set(r, new)
      PROVE  MoveTypeOK' /\ Shape'
  BY <1>1, <1>2, QuietSetKeeps DEF Quietly
<1>3. ASSUME Finish(r) PROVE MoveTypeOK' /\ Shape'
  BY <1>2, <1>3, IdleKeeps DEF Finish
<1>4. CASE CheckConflicts(r)
  <2>1. ASSUME NEW conflicted \in SUBSET q.todo,
               NEW plan \in [conflicted -> GoesOn(q.op)],
               Set(r, [q EXCEPT !.todo = Planned(q.todo, plan), !.pc = "next"])
        PROVE  MoveTypeOK' /\ Shape'
    <3> DEFINE jobs == Planned(q.todo, plan)
               new == [q EXCEPT !.todo = jobs, !.pc = "next"]
    <3>1. \A j \in q.todo : j \in Jobs /\ Fits(q.op, j)
      BY <1>1 DEF InShape, ReqRecords
    <3>2. GoesOn(q.op) \subseteq Strategies /\ DOMAIN plan = conflicted
      BY DEF GoesOn, Strategies
    <3>3. jobs \in SUBSET Jobs /\ \A j \in jobs : Fits(q.op, j)
      <4> SUFFICES ASSUME NEW j \in q.todo,
                          NEW p \in Strategies \cup {"none"}
                   PROVE  [j EXCEPT !.plan = p] \in Jobs /\ Fits(q.op, [j EXCEPT !.plan = p])
        BY <3>2 DEF Planned
      <4> QED BY <3>1 DEF Jobs, Fits
    <3>0. Set(r, new)
      BY <2>1
    <3> HIDE DEF jobs
    <3>4. new \in ReqRecords /\ q.op # "delete"
      BY <1>1, <1>4, <3>3 DEF ReqRecords, Pcs, InShape, CheckConflicts, At
    <3>5. new.todo = jobs /\ new.pc = "next" /\ new.op = q.op
      BY <1>1 DEF ReqRecords
    <3>6. InShape(new)
      BY <3>3, <3>4, <3>5 DEF InShape
    <3> QED BY <1>2, <3>0, <3>4, <3>6
  <2> DEFINE conf == {j \in q.todo : Exists(j.to)}
  <2>2. CASE \E plan \in [conf -> GoesOn(q.op)] :
               Set(r, [q EXCEPT !.todo = Planned(q.todo, plan), !.pc = "next"])
    <3>1. conf \in SUBSET q.todo
      OBVIOUS
    <3> HIDE DEF conf
    <3>2. PICK plan \in [conf -> GoesOn(q.op)] :
               Set(r, [q EXCEPT !.todo = Planned(q.todo, plan), !.pc = "next"])
      BY <2>2
    <3> QED BY <2>1, <3>1, <3>2
  <2>3. \/ Finish(r)
        \/ \E plan \in [conf -> GoesOn(q.op)] :
               Set(r, [q EXCEPT !.todo = Planned(q.todo, plan), !.pc = "next"])
    BY <1>4, Zenon DEF CheckConflicts
  <2> QED BY <1>3, <2>2, <2>3
<1>5. CASE CheckDirectory(r)
  <2>0. q.dir \in Dirs \X Dirs /\ q.op = "moveDir"
    BY <1>1, <1>5 DEF InShape, CheckDirectory, At
  <2>1. ASSUME NEW free \in Dirs,
               Set(r, [q EXCEPT !.dir = <<q.dir[1], free>>, !.pc = "list"])
        PROVE  MoveTypeOK' /\ Shape'
    <3> DEFINE new == [q EXCEPT !.dir = <<q.dir[1], free>>, !.pc = "list"]
    <3>1. new \in ReqRecords /\ new.dir \in Dirs \X Dirs /\ new.pc = "list"
          /\ new.op = "moveDir" /\ new.todo = q.todo
      BY <1>1, <2>0 DEF ReqRecords, Pcs
    <3>2. InShape(new)
      BY <1>1, <2>0, <3>1 DEF InShape
    <3> QED BY <1>2, <2>1, <3>1, <3>2
  <2>2. CASE Set(r, [q EXCEPT !.pc = "list"])
    <3> DEFINE new == [q EXCEPT !.pc = "list"]
    <3>1. new \in ReqRecords /\ new.dir = q.dir /\ new.pc = "list"
          /\ new.op = "moveDir" /\ new.todo = q.todo
      BY <1>1, <2>0 DEF ReqRecords, Pcs
    <3>2. InShape(new)
      BY <1>1, <2>0, <3>1 DEF InShape
    <3> QED BY <1>2, <2>2, <3>1, <3>2
  <2> QED BY <1>3, <1>5, <2>1, <2>2 DEF CheckDirectory, FreeDirs
<1>6. CASE ListDirectory(r)
  <2>0. q.dir \in Dirs \X Dirs /\ q.op = "moveDir"
    BY <1>1, <1>6 DEF InShape, ListDirectory, At
  <2> DEFINE jobs == {Job(k, <<q.dir[2], k[2]>>) : k \in InDir(q.dir[1])}
             new == [q EXCEPT !.todo = jobs, !.pc = "next"]
  <2>1. jobs \in SUBSET Jobs /\ \A j \in jobs : Fits("moveDir", j)
    <3> SUFFICES ASSUME NEW k \in InDir(q.dir[1])
                 PROVE  /\ Job(k, <<q.dir[2], k[2]>>) \in Jobs
                        /\ Fits("moveDir", Job(k, <<q.dir[2], k[2]>>))
      OBVIOUS
    <3>1. k \in Keys /\ <<q.dir[2], k[2]>> \in Keys
      BY <2>0 DEF InDir, Keys
    <3> QED BY <3>1, JobTyped, MoveAssumption DEF Fits
  <2>2. Finish(r) \/ Set(r, new)
    BY <1>6 DEF ListDirectory
  <2> HIDE DEF jobs
  <2>3. new \in ReqRecords /\ new.todo = jobs /\ new.pc = "next" /\ new.op = "moveDir"
    BY <1>1, <2>0, <2>1 DEF ReqRecords, Pcs
  <2>4. InShape(new)
    BY <2>1, <2>3 DEF InShape
  <2> QED BY <1>2, <1>3, <2>2, <2>3, <2>4
<1>7. CASE NextItem(r)
  <2>0. q.pc = "next"
    BY <1>7 DEF NextItem, At
  <2>1. ASSUME NEW j \in q.todo, Set(r, [q EXCEPT !.todo = q.todo \ {j}])
        PROVE  MoveTypeOK' /\ Shape'
    <3> DEFINE new == [q EXCEPT !.todo = q.todo \ {j}]
    <3>1. new \in ReqRecords /\ new.todo = q.todo \ {j} /\ new.pc = "next" /\ new.op = q.op
      BY <1>1, <2>0 DEF ReqRecords
    <3>2. InShape(new)
      BY <1>1, <2>0, <3>1 DEF InShape
    <3> QED BY <1>2, <2>1, <3>1, <3>2
  <2>2. ASSUME NEW j \in q.todo, NEW to \in Keys \cup {NoKey}, Start(r, j, to),
               to \in Keys <=> j.to \in Keys
        PROVE  MoveTypeOK' /\ Shape'
    <3> DEFINE job == [j EXCEPT !.to = to]
               new == [q EXCEPT !.todo = q.todo \ {j}, !.job = job, !.pc = "copy"]
    <3>1. j \in Jobs /\ Fits(q.op, j) /\ q.op # "delete"
      BY <1>1, <2>0 DEF ReqRecords, InShape
    <3>2. job \in Jobs /\ Fits(q.op, job)
      BY <2>2, <3>1, MoveAssumption DEF Jobs, Fits
    <3>3. Set(r, new)
      BY <2>2 DEF Start
    <3> HIDE DEF job
    <3>4. new \in ReqRecords
          /\ new.todo = q.todo \ {j} /\ new.pc = "copy" /\ new.op = q.op /\ new.job = job
      BY <1>1, <3>2 DEF ReqRecords, Pcs
    <3>5. InShape(new)
      BY <1>1, <3>1, <3>2, <3>4 DEF InShape
    <3> QED BY <1>2, <3>3, <3>4, <3>5
  <2>3. \A j \in q.todo : j.to \in Keys /\ FreeKeys(j.to) \subseteq Keys
    BY <1>1, <2>0 DEF ReqRecords, Jobs, InShape, Fits, FreeKeys
  <2>4. CASE \E j \in q.todo :
               \/ Set(r, [q EXCEPT !.todo = q.todo \ {j}])
               \/ \E to \in FreeKeys(j.to) \cup {j.to} : Start(r, j, to)
    BY <2>1, <2>2, <2>3, <2>4
  <2> QED BY <1>3, <1>7, <2>4 DEF NextItem
<1>8. CASE FindFile(r)
  <2>1. ASSUME NEW j \in q.todo,
               Set(r, [q EXCEPT !.todo = {}, !.job = j, !.pc = "purge"])
        PROVE  MoveTypeOK' /\ Shape'
    <3> DEFINE new == [q EXCEPT !.todo = {}, !.job = j, !.pc = "purge"]
    <3>1. q.op = "delete" /\ Fits(q.op, j) /\ j \in Jobs
      BY <1>1, <1>8 DEF FindFile, At, InShape, ReqRecords
    <3>2. new \in ReqRecords
          /\ new.todo = {} /\ new.pc = "purge" /\ new.op = q.op /\ new.job = j
      BY <1>1, <3>1 DEF ReqRecords, Pcs
    <3>3. InShape(new)
      BY <3>1, <3>2 DEF InShape
    <3> QED BY <1>2, <2>1, <3>2, <3>3
  <2> QED BY <1>3, <1>8, <2>1 DEF FindFile
<1> QED
  BY <1>4, <1>5, <1>6, <1>7, <1>8 DEF Looking


-----------------------------------------------------------------------------
(* Steps that write                                                        *)

Writing(r) ==
    Copy(r) \/ Write(r) \/ Touch(r) \/ Prune(r) \/ Purge(r) \/ Abort(r)

LEMMA PutTyped ==
  ASSUME MoveTypeOK, NEW k \in Keys, NEW c \in Contents, Put(k, c)
  PROVE  /\ versions' \in [Keys -> Seq(Contents)]
         /\ overtaken' \in BOOLEAN
         /\ Stored(k)' = {c} \cup Stored(k)
         /\ \A j \in Keys \ {k} : versions'[j] = versions[j]
<1>1. versions[k] \in Seq(Contents)
  BY TypedParts
<1>2. <<c>> \o versions[k] \in Seq(Contents)
      /\ Elements(<<c>> \o versions[k]) = {c} \cup Elements(versions[k])
  BY <1>1, ElementsOfPut
<1>3. versions' \in [Keys -> Seq(Contents)] /\ versions'[k] = <<c>> \o versions[k]
      /\ \A j \in Keys \ {k} : versions'[j] = versions[j]
  BY <1>2 DEF Put, MoveTypeOK
<1>4. overtaken' \in BOOLEAN
  BY DEF Put, MoveTypeOK, MovedAway
<1> QED
  BY <1>2, <1>3, <1>4 DEF Stored

\* What a request that writes does to itself.
LEMMA WritingKeeps ==
  ASSUME MoveTypeOK, Shape, NEW r \in Requests, Writing(r)
  PROVE  MoveTypeOK' /\ Shape'
<1> DEFINE q == req[r]
<1>1. q \in ReqRecords /\ InShape(q)
  BY TypedParts DEF Shape
<1>2. ops' \in 0..MaxOps /\ calm' \in BOOLEAN
  BY DEF MoveTypeOK, Writing, Copy, Write, Touch, Prune, Purge, Abort
<1>3. ASSUME NEW new \in ReqRecords, InShape(new), Set(r, new),
             versions' \in [Keys -> Seq(Contents)],
             discarded' \subseteq Contents, overtaken' \in BOOLEAN
      PROVE  MoveTypeOK' /\ Shape'
  BY <1>2, <1>3, SetKeeps DEF MoveTypeOK, ReqRecords
<1>4. ASSUME Finish(r), versions' \in [Keys -> Seq(Contents)],
             discarded' \subseteq Contents, overtaken' \in BOOLEAN
      PROVE  MoveTypeOK' /\ Shape'
  BY <1>3, <1>4, IdleKeeps DEF Finish
<1>5. /\ versions \in [Keys -> Seq(Contents)]
      /\ discarded \subseteq Contents /\ overtaken \in BOOLEAN
  BY DEF MoveTypeOK
<1>6. CASE Copy(r)
  <2> DEFINE from == q.job.from
             to == q.job.to
             new == [q EXCEPT !.old = Stored(from) \ {Head(versions[from])},
                              !.pc = AfterCopy(r)]
  <2>0. q.pc = "copy" /\ q.op # "upload" /\ from \in Keys /\ to \in Keys
    BY <1>1, <1>6 DEF Copy, At, InShape, Fits, ReqRecords, Jobs
  <2>1. CASE Exists(from) /\ Put(to, Head(versions[from])) /\ Set(r, new)
    <3>1. Head(versions[from]) \in Contents /\ Stored(from) \subseteq Contents
      BY <2>0, <2>1, TypedParts, ElementsOfHead DEF Exists
    <3>2. versions' \in [Keys -> Seq(Contents)] /\ overtaken' \in BOOLEAN
      BY <2>0, <2>1, <3>1, PutTyped
    <3>3. AfterCopy(r) \in {"prune", "purge"}
      BY DEF AfterCopy
    <3>4. new \in ReqRecords
          /\ new.todo = q.todo /\ new.pc = AfterCopy(r) /\ new.op = q.op /\ new.job = q.job
      BY <1>1, <3>1, <3>3 DEF ReqRecords, Pcs
    <3>5. InShape(new)
      BY <1>1, <2>0, <3>3, <3>4 DEF InShape
    <3>6. discarded' \subseteq Contents
      BY <1>5, <1>6 DEF Copy
    <3> QED BY <1>3, <2>1, <3>2, <3>4, <3>5, <3>6
  <2>2. CASE Finish(r) /\ UNCHANGED <<versions, overtaken>>
    BY <1>4, <1>5, <1>6, <2>2 DEF Copy
  <2> QED BY <1>6, <2>1, <2>2 DEF Copy
<1>7. CASE Write(r)
  <2> DEFINE to == q.job.to
             new == [q EXCEPT !.pc = "prune"]
  <2>0. q.pc = "copy" /\ q.op = "upload" /\ to \in Keys
    BY <1>1, <1>7 DEF Write, At, InShape, Fits, ReqRecords, Jobs
  <2>1. <<to, ops>> \in Contents
    BY <2>0 DEF Contents, MoveTypeOK
  <2>2. versions' \in [Keys -> Seq(Contents)] /\ overtaken' \in BOOLEAN
    BY <1>7, <2>0, <2>1, PutTyped DEF Write
  <2>3. new \in ReqRecords
        /\ new.todo = q.todo /\ new.pc = "prune" /\ new.op = q.op /\ new.job = q.job
    BY <1>1 DEF ReqRecords, Pcs
  <2>4. InShape(new)
    BY <1>1, <2>0, <2>3 DEF InShape
  <2> QED BY <1>3, <1>5, <1>7, <2>2, <2>3, <2>4 DEF Write
<1>8. CASE Touch(r)
  <2> DEFINE k == q.job.from
  <2>0. k \in Keys
    BY <1>1, <1>8 DEF Touch, At, InShape, Fits, ReqRecords, Jobs
  <2>1. CASE Exists(k) /\ Put(k, Head(versions[k]))
    <3>1. Head(versions[k]) \in Contents
      BY <2>0, <2>1, TypedParts, ElementsOfHead DEF Exists
    <3>2. versions' \in [Keys -> Seq(Contents)] /\ overtaken' \in BOOLEAN
      BY <2>0, <2>1, <3>1, PutTyped
    <3> QED BY <1>4, <1>5, <1>8, <3>2 DEF Touch
  <2>2. CASE UNCHANGED <<versions, overtaken>>
    BY <1>4, <1>5, <1>8, <2>2 DEF Touch
  <2> QED BY <1>8, <2>1, <2>2 DEF Touch
<1>9. CASE Prune(r)
  <2> DEFINE to == q.job.to
             new == [q EXCEPT !.pc = "purge"]
  <2>0. q.pc = "prune" /\ to \in Keys
    BY <1>1, <1>9 DEF Prune, At, InShape, Fits, ReqRecords, Jobs
  <2>1. versions' \in [Keys -> Seq(Contents)]
    BY <1>5, <1>9, <2>0, ElementsOfKept DEF Prune
  <2>2. discarded' \subseteq Contents
    BY <1>5, <1>9, <2>0, TypedParts DEF Prune, Doomed, At
  <2>3. CASE q.op # "upload" /\ Set(r, new)
    <3>1. new \in ReqRecords
          /\ new.todo = q.todo /\ new.pc = "purge" /\ new.op = q.op /\ new.job = q.job
      BY <1>1 DEF ReqRecords, Pcs
    <3>2. InShape(new)
      BY <1>1, <2>0, <2>3, <3>1 DEF InShape
    <3> QED BY <1>3, <1>5, <1>9, <2>1, <2>2, <2>3, <3>1, <3>2 DEF Prune
  <2>4. CASE Finish(r)
    BY <1>4, <1>5, <1>9, <2>1, <2>2, <2>4 DEF Prune
  <2> QED BY <1>9, <2>3, <2>4 DEF Prune
<1>10. CASE Purge(r)
  <2> DEFINE from == q.job.from
             new == [q EXCEPT !.job = NoJob, !.old = {}, !.pc = "next"]
  <2>0. q.pc = "purge" /\ from \in Keys
    BY <1>1, <1>10 DEF Purge, At, InShape, Fits, ReqRecords, Jobs
  <2>1. versions' \in [Keys -> Seq(Contents)]
    BY <1>5, <1>10, <2>0 DEF Purge
  <2>2. discarded' \subseteq Contents
    BY <1>1, <1>5, <1>10, <2>0, TypedParts DEF Purge, Doomed, At, ReqRecords
  <2>3. new \in ReqRecords /\ new.todo = q.todo /\ new.pc = "next" /\ new.op = q.op
    BY <1>1 DEF ReqRecords, Pcs, NoJob, Jobs
  <2>4. InShape(new)
    BY <1>1, <2>0, <2>3 DEF InShape
  <2> QED BY <1>3, <1>5, <1>10, <2>1, <2>2, <2>3, <2>4 DEF Purge
<1>11. CASE Abort(r)
  BY <1>4, <1>5, <1>11 DEF Abort
<1> QED
  BY <1>6, <1>7, <1>8, <1>9, <1>10, <1>11 DEF Writing


LEMMA NextSplit ==
  ASSUME MoveNext
  PROVE  \E r \in Requests : Beginning(r) \/ Looking(r) \/ Writing(r)
  BY DEF MoveNext, Beginning, Looking, Writing

LEMMA TypeAndShapeKept ==
  MoveTypeOK /\ Shape /\ [MoveNext]_moveVars => MoveTypeOK' /\ Shape'
<1> SUFFICES ASSUME MoveTypeOK, Shape, [MoveNext]_moveVars PROVE MoveTypeOK' /\ Shape'
  OBVIOUS
<1>1. CASE MoveNext
  BY <1>1, NextSplit, BeginningKeeps, LookingKeeps, WritingKeeps
<1>2. CASE UNCHANGED moveVars
  BY <1>2 DEF moveVars, MoveTypeOK, Shape
<1> QED
  BY <1>1, <1>2

LEMMA TypeAndShapeAtFirst == MoveInit => MoveTypeOK /\ Shape
<1> SUFFICES ASSUME MoveInit PROVE MoveTypeOK /\ Shape
  OBVIOUS
<1>1. \A r \in Requests : req[r] \in ReqRecords /\ InShape(req[r])
  BY IdleKeeps DEF MoveInit
<1>2. req \in [Requests -> ReqRecords]
  BY <1>1 DEF MoveInit
<1>3. versions \in [Keys -> Seq(Contents)]
  <2>1. PICK files \in SUBSET Keys :
             versions = [k \in Keys |-> IF k \in files THEN <<<<k, 0>>>> ELSE <<>>]
    BY DEF MoveInit
  <2>2. ASSUME NEW k \in Keys
        PROVE  (IF k \in files THEN <<<<k, 0>>>> ELSE <<>>) \in Seq(Contents)
    <3> DEFINE c == <<k, 0>>
    <3>1. c \in Contents
      BY MoveAssumption DEF Contents
    <3> HIDE DEF c
    <3>2. <<c>> \in Seq(Contents) /\ <<>> \in Seq(Contents)
      BY <3>1
    <3>3. (IF k \in files THEN <<c>> ELSE <<>>) \in Seq(Contents)
      BY <3>2
    <3> QED BY <3>3 DEF c
  <2> DEFINE v(k) == IF k \in files THEN <<<<k, 0>>>> ELSE <<>>
  <2>3. versions = [k \in Keys |-> v(k)] /\ \A k \in Keys : v(k) \in Seq(Contents)
    BY <2>1, <2>2
  <2> HIDE DEF v
  <2> QED BY <2>3
<1>4. ops \in 0..MaxOps /\ calm \in BOOLEAN /\ discarded \subseteq Contents
      /\ overtaken \in BOOLEAN
  <2>1. ops = 0 /\ calm = TRUE /\ discarded = {} /\ overtaken = FALSE
    BY Zenon DEF MoveInit
  <2>2. calm \in BOOLEAN /\ overtaken \in BOOLEAN
    BY <2>1, Zenon
  <2>3. ops \in 0..MaxOps
    BY <2>1, MoveAssumption
  <2> QED BY <2>1, <2>2, <2>3, Zenon
<1>5. MoveTypeOK
  BY <1>2, <1>3, <1>4 DEF MoveTypeOK, ReqRecords
<1> QED
  BY <1>1, <1>5 DEF Shape

\* Versions, requests and what was discarded keep their types, for any number of
\* requests of CloudObjectService and CloudUploadService at once.
THEOREM MoveTypeCorrect == MoveSpec => []MoveTypeOK
<1>1. MoveInit => MoveTypeOK /\ Shape
  BY TypeAndShapeAtFirst
<1>2. MoveTypeOK /\ Shape /\ [MoveNext]_moveVars => MoveTypeOK' /\ Shape'
  BY TypeAndShapeKept
<1> QED
  BY <1>1, <1>2, PTL DEF MoveSpec

-----------------------------------------------------------------------------
(* Nothing is lost                                                         *)

MoveIInv == MoveTypeOK /\ Shape /\ CopiedBeforeDeleted

\* Stores grow, what was discarded stays so, and the only files on their way
\* are ones that were before and that nothing was written to.
LEMMA GrowKeeps ==
  ASSUME CopiedBeforeDeleted,
         discarded \subseteq discarded', overtaken => overtaken',
         \A k \in Keys : Stored(k) \subseteq Stored(k)',
         \A r \in Requests, k \in Keys :
            MovingAway(r, k)' => /\ MovingAway(r, k)
                                 /\ req'[r].old = req[r].old
                                 /\ overtaken' \/ Stored(k)' = Stored(k)
  PROVE  CopiedBeforeDeleted'
<1> SUFFICES ASSUME ~overtaken', NEW r \in Requests, NEW k \in Keys, MovingAway(r, k)',
                    NEW c \in Stored(k)' \ req'[r].old
             PROVE  Safe(c)'
  BY DEF CopiedBeforeDeleted
<1>1. Safe(c)
  BY DEF CopiedBeforeDeleted
<1> QED
  BY <1>1 DEF Safe


\* A step that only sets its request, to one that moves no file away.
LEMMA SetIsSafe ==
  ASSUME MoveIInv, NEW r \in Requests, NEW new, Set(r, new),
         new.op = "delete" \/ new.pc \notin {"prune", "purge"},
         UNCHANGED <<versions, discarded, overtaken>>
  PROVE  CopiedBeforeDeleted'
<1>1. req'[r] = new /\ \A s \in Requests \ {r} : req'[s] = req[s]
  BY DEF Set, MoveIInv, MoveTypeOK
<1>2. \A s \in Requests, k \in Keys : MovingAway(s, k)' =>
         MovingAway(s, k) /\ req'[s].old = req[s].old
  BY <1>1 DEF MovingAway
<1>3. \A k \in Keys : Stored(k)' = Stored(k)
  BY DEF Stored
<1> QED
  BY <1>2, <1>3, GrowKeeps DEF MoveIInv

LEMMA BeginningIsSafe ==
  ASSUME MoveIInv, NEW r \in Requests, Beginning(r)
  PROVE  CopiedBeforeDeleted'
<1>1. ASSUME NEW op, NEW jobs, NEW dir, NEW pc, pc \notin {"prune", "purge"},
             Begin(r, op, jobs, dir, pc)
      PROVE  CopiedBeforeDeleted'
  <2> DEFINE new == [Idle EXCEPT !.op = op, !.todo = jobs, !.dir = dir, !.pc = pc]
  <2>1. Set(r, new) /\ UNCHANGED <<versions, discarded, overtaken>>
    BY <1>1 DEF Begin
  <2>2. new.pc = pc
    BY DEF Idle
  <2> HIDE DEF new
  <2> QED BY <1>1, <2>1, <2>2, SetIsSafe
<1>2. "check" \notin {"prune", "purge"} /\ "next" \notin {"prune", "purge"}
      /\ "find" \notin {"prune", "purge"}
  OBVIOUS
<1>3. CASE BeginMove(r)
  BY <1>1, <1>2, <1>3, Zenon DEF BeginMove
<1>4. CASE BeginMoveDir(r)
  BY <1>1, <1>2, <1>4, Zenon DEF BeginMoveDir
<1>5. CASE BeginRename(r)
  BY <1>1, <1>2, <1>5, Zenon DEF BeginRename
<1>6. CASE BeginTouch(r)
  BY <1>1, <1>2, <1>6, Zenon DEF BeginTouch
<1>7. CASE BeginUpload(r)
  BY <1>1, <1>2, <1>7, Zenon DEF BeginUpload
<1>8. CASE BeginDelete(r)
  BY <1>1, <1>2, <1>8, Zenon DEF BeginDelete
<1> QED
  BY <1>3, <1>4, <1>5, <1>6, <1>7, <1>8 DEF Beginning

LEMMA LookingIsSafe ==
  ASSUME MoveIInv, NEW r \in Requests, Looking(r)
  PROVE  CopiedBeforeDeleted'
<1> DEFINE q == req[r]
<1>1. q \in ReqRecords /\ InShape(q)
  BY TypedParts DEF MoveIInv, Shape
<1>2. UNCHANGED <<versions, discarded, overtaken>>
  BY DEF Looking, CheckConflicts, CheckDirectory, ListDirectory, NextItem, FindFile, Quietly
<1>3. ASSUME NEW new, Set(r, new), new.op = "delete" \/ new.pc \notin {"prune", "purge"}
      PROVE  CopiedBeforeDeleted'
  BY <1>2, <1>3, SetIsSafe
<1>4. ASSUME Finish(r) PROVE CopiedBeforeDeleted'
  BY <1>3, <1>4 DEF Finish, Idle
<1>5. ASSUME NEW todo, NEW pc, pc \notin {"prune", "purge"},
             Set(r, [q EXCEPT !.todo = todo, !.pc = pc])
      PROVE  CopiedBeforeDeleted'
  BY <1>1, <1>3, <1>5 DEF ReqRecords
<1>6. CASE CheckConflicts(r)
  BY <1>4, <1>5, <1>6 DEF CheckConflicts
<1>7. CASE CheckDirectory(r)
  <2>1. ASSUME NEW dir, Set(r, [q EXCEPT !.dir = dir, !.pc = "list"])
        PROVE  CopiedBeforeDeleted'
    BY <1>1, <1>3, <2>1 DEF ReqRecords
  <2>2. ASSUME Set(r, [q EXCEPT !.pc = "list"])
        PROVE  CopiedBeforeDeleted'
    BY <1>1, <1>3, <2>2 DEF ReqRecords
  <2> QED BY <1>4, <1>7, <2>1, <2>2 DEF CheckDirectory
<1>8. CASE ListDirectory(r)
  BY <1>4, <1>5, <1>8 DEF ListDirectory
<1>9. CASE NextItem(r)
  <2>1. ASSUME NEW j \in q.todo, Set(r, [q EXCEPT !.todo = q.todo \ {j}])
        PROVE  CopiedBeforeDeleted'
    BY <1>1, <1>3, <1>9, <2>1 DEF ReqRecords, NextItem, At
  <2>2. ASSUME NEW j \in q.todo, NEW to, Start(r, j, to)
        PROVE  CopiedBeforeDeleted'
    <3> DEFINE new == [q EXCEPT !.todo = q.todo \ {j}, !.job = [j EXCEPT !.to = to],
                                !.pc = "copy"]
    <3>1. Set(r, new) /\ new.pc = "copy"
      BY <1>1, <2>2 DEF Start, ReqRecords
    <3> HIDE DEF new
    <3> QED BY <1>3, <3>1
  <2> QED BY <1>4, <1>9, <2>1, <2>2 DEF NextItem
<1>10. CASE FindFile(r)
  <2>1. ASSUME NEW j \in q.todo,
               Set(r, [q EXCEPT !.todo = {}, !.job = j, !.pc = "purge"])
        PROVE  CopiedBeforeDeleted'
    <3> DEFINE new == [q EXCEPT !.todo = {}, !.job = j, !.pc = "purge"]
    <3>1. Set(r, new) /\ new.op = "delete"
      BY <1>1, <1>10, <2>1 DEF FindFile, At, InShape, ReqRecords
    <3> HIDE DEF new
    <3> QED BY <1>3, <3>1
  <2> QED BY <1>4, <1>10, <2>1 DEF FindFile
<1> QED
  BY <1>6, <1>7, <1>8, <1>9, <1>10 DEF Looking


\* What is put where no file is being moved away from.
LEMMA PutIsSafe ==
  ASSUME MoveIInv, NEW to \in Keys, NEW c \in Contents, Put(to, c),
         discarded' = discarded,
         \A r \in Requests, k \in Keys :
            MovingAway(r, k)' => MovingAway(r, k) /\ req'[r].old = req[r].old
  PROVE  CopiedBeforeDeleted'
<1>1. /\ Stored(to)' = {c} \cup Stored(to)
      /\ \A j \in Keys \ {to} : Stored(j)' = Stored(j)
  BY PutTyped DEF MoveIInv, Stored
<1>2. ~overtaken' => \A r \in Requests : ~MovingAway(r, to)
  BY DEF Put, MovedAway
<1>3. overtaken => overtaken'
  BY DEF Put
<1>4. \A r \in Requests, k \in Keys : MovingAway(r, k)' => overtaken' \/ Stored(k)' = Stored(k)
  BY <1>1, <1>2
<1>5. \A k \in Keys : Stored(k) \subseteq Stored(k)'
  BY <1>1
<1> QED
  BY <1>3, <1>4, <1>5, GrowKeeps DEF MoveIInv

LEMMA CopyIsSafe ==
  ASSUME MoveIInv, NEW r \in Requests, Copy(r)
  PROVE  CopiedBeforeDeleted'
<1>0. /\ req[r] \in ReqRecords /\ InShape(req[r])
      /\ req[r].job.from \in Keys /\ req[r].job.to \in Keys /\ req[r].pc = "copy"
      /\ discarded' = discarded
  BY TypedParts DEF MoveIInv, Shape, Copy, At, InShape, Fits, ReqRecords, Jobs
<1>01. PICK q \in ReqRecords, from \in Keys, to \in Keys :
         /\ q = req[r] /\ q.pc = "copy" /\ discarded' = discarded
         /\ from = q.job.from /\ to = q.job.to
  BY <1>0
<1>02. PICK head : head = Head(versions[from])
  OBVIOUS
<1>1. /\ q = req[r] /\ q.pc = "copy" /\ discarded' = discarded
      /\ from = q.job.from /\ to = q.job.to /\ head = Head(versions[from])
  BY <1>01, <1>02
<1>2. CASE Finish(r) /\ UNCHANGED <<versions, overtaken>>
  BY <1>1, <1>2, SetIsSafe DEF Finish, Idle
<1>3. CASE /\ Exists(from) /\ from # to
           /\ Put(to, head)
           /\ Set(r, [q EXCEPT !.old = Stored(from) \ {head}, !.pc = AfterCopy(r)])
  <2>1. /\ req'[r].old = Stored(from) \ {head}
        /\ req'[r].job = q.job
        /\ \A s \in Requests \ {r} : req'[s] = req[s]
    BY <1>1, <1>3 DEF Set, MoveIInv, MoveTypeOK, ReqRecords
  <2>2. head \in Contents /\ head \in Stored(from)
    BY <1>1, <1>3, TypedParts, ElementsOfHead DEF MoveIInv, Exists, Stored
  <2>3. /\ Stored(to)' = {head} \cup Stored(to)
        /\ \A j \in Keys \ {to} : Stored(j)' = Stored(j)
    <3>1. /\ Stored(to)' = {head} \cup Stored(to)
          /\ \A j \in Keys \ {to} : versions'[j] = versions[j]
      BY <1>1, <1>3, <2>2, PutTyped DEF MoveIInv
    <3> QED BY <3>1 DEF Stored
  <2>4. \A s \in Requests \ {r}, k \in Keys : MovingAway(s, k)' <=> MovingAway(s, k)
    BY <2>1 DEF MovingAway
  <2>5. \A k \in Keys : MovingAway(r, k)' => k = from
    BY <1>1, <2>1 DEF MovingAway
  <2> SUFFICES ASSUME ~overtaken', NEW s \in Requests, NEW k \in Keys, MovingAway(s, k)',
                      NEW c \in Stored(k)' \ req'[s].old
               PROVE  Safe(c)'
    BY DEF CopiedBeforeDeleted
  <2>6. ~overtaken /\ \A w \in Requests : ~MovingAway(w, to)
    BY <1>3 DEF Put, MovedAway
  <2>7. \A w \in Requests : ~MovingAway(w, to)'
    BY <1>3, <2>4, <2>5, <2>6
  <2>8. CASE c = head
    BY <1>1, <2>3, <2>7, <2>8 DEF Safe
  <2>9. CASE c # head
    <3>1. s # r /\ k # to
      BY <1>3, <2>1, <2>3, <2>5, <2>7, <2>9
    <3>2. Safe(c)
      BY <2>1, <2>3, <2>4, <2>6, <3>1 DEF MoveIInv, CopiedBeforeDeleted
    <3>3. ASSUME NEW h \in Keys, c \in Stored(h),
                 \A w \in Requests : MovingAway(w, h) => c \in req[w].old
          PROVE  Safe(c)'
      <4>1. c \in Stored(h)'
        BY <2>3, <3>3
      <4>2. ASSUME NEW w \in Requests, MovingAway(w, h)' PROVE c \in req'[w].old
        BY <2>1, <2>4, <2>5, <2>9, <3>3, <4>2
      <4> QED BY <4>1, <4>2 DEF Safe
    <3> QED BY <1>1, <3>2, <3>3 DEF Safe
  <2> QED BY <2>8, <2>9
<1> QED
  BY <1>1, <1>2, <1>3 DEF Copy

LEMMA WriteIsSafe ==
  ASSUME MoveIInv, NEW r \in Requests, Write(r) \/ Touch(r)
  PROVE  CopiedBeforeDeleted'
<1> DEFINE q == req[r]
<1>1. /\ q \in ReqRecords /\ InShape(q) /\ q.pc = "copy"
      /\ discarded' = discarded
  BY TypedParts DEF MoveIInv, Shape, Write, Touch, At
<1>2. CASE Write(r)
  <2>1. q.job.to \in Keys /\ q.job.from = NoKey /\ <<q.job.to, ops>> \in Contents
    BY <1>1, <1>2 DEF Write, InShape, Fits, ReqRecords, Jobs, Contents, MoveIInv, MoveTypeOK
  <2>2. req'[r].job = q.job /\ \A s \in Requests \ {r} : req'[s] = req[s]
    BY <1>1, <1>2 DEF Write, Set, MoveIInv, MoveTypeOK, ReqRecords
  <2>3. \A s \in Requests, k \in Keys :
           MovingAway(s, k)' => MovingAway(s, k) /\ req'[s].old = req[s].old
    BY <2>1, <2>2, MoveAssumption DEF MovingAway
  <2> QED BY <1>1, <1>2, <2>1, <2>3, PutIsSafe DEF Write
<1>3. CASE Touch(r)
  <2> DEFINE k == q.job.from
  <2>1. k \in Keys /\ Finish(r)
    BY <1>1, <1>3 DEF Touch, InShape, Fits, ReqRecords, Jobs
  <2>2. CASE Exists(k) /\ Put(k, Head(versions[k]))
    <3>1. Head(versions[k]) \in Contents
      BY <2>1, <2>2, TypedParts, ElementsOfHead DEF MoveIInv, Exists
    <3>2. req'[r] = Idle /\ \A s \in Requests \ {r} : req'[s] = req[s]
      BY <2>1 DEF Finish, Set, MoveIInv, MoveTypeOK
    <3>3. \A s \in Requests, j \in Keys :
             MovingAway(s, j)' => MovingAway(s, j) /\ req'[s].old = req[s].old
      BY <3>2 DEF MovingAway, Idle
    <3> QED BY <1>1, <2>1, <2>2, <3>1, <3>3, PutIsSafe
  <2>3. CASE UNCHANGED <<versions, overtaken>>
    BY <1>1, <2>1, <2>3, SetIsSafe DEF Finish, Idle
  <2> QED BY <1>3, <2>2, <2>3 DEF Touch
<1> QED
  BY <1>2, <1>3

LEMMA AbortIsSafe ==
  ASSUME MoveIInv, NEW r \in Requests, Abort(r)
  PROVE  CopiedBeforeDeleted'
  BY SetIsSafe DEF Abort, Finish, Idle


LEMMA PruneIsSafe ==
  ASSUME MoveIInv, NEW r \in Requests, Prune(r)
  PROVE  /\ CopiedBeforeDeleted'
         /\ AllStored \ AllStored' \subseteq discarded'
<1>0. /\ req[r] \in ReqRecords /\ InShape(req[r])
      /\ req[r].job.to \in Keys /\ req[r].pc = "prune"
  BY TypedParts DEF MoveIInv, Shape, Prune, At, InShape, Fits, ReqRecords, Jobs
<1>1. PICK to \in Keys : to = req[r].job.to
  BY <1>0
<1>2. /\ versions'[to] = Kept(to)
      /\ \A k \in Keys \ {to} : versions'[k] = versions[k]
      /\ discarded' = discarded \cup (Stored(to) \ Elements(Kept(to)))
      /\ overtaken' = overtaken
  BY <1>0, <1>1 DEF Prune, Doomed, At, MoveIInv, MoveTypeOK
<1>3. \A k \in Keys : /\ Stored(k)' \subseteq Stored(k)
                      /\ Stored(k) \subseteq Stored(k)' \cup discarded'
  BY <1>2, ElementsOfKept DEF MoveIInv, Stored
<1>4. \A s \in Requests, k \in Keys :
         MovingAway(s, k)' => MovingAway(s, k) /\ req'[s].old = req[s].old
  <2>1. \A s \in Requests \ {r} : req'[s] = req[s]
    BY DEF Prune, Finish, Set, MoveIInv, MoveTypeOK
  <2>2. \/ req'[r] = Idle
        \/ req'[r].job = req[r].job /\ req'[r].op = req[r].op /\ req'[r].old = req[r].old
    BY <1>0 DEF Prune, Finish, Set, MoveIInv, MoveTypeOK, ReqRecords
  <2> QED BY <1>0, <2>1, <2>2 DEF MovingAway, Idle
<1>5. CopiedBeforeDeleted'
  <2> SUFFICES ASSUME ~overtaken', NEW s \in Requests, NEW k \in Keys, MovingAway(s, k)',
                      NEW c \in Stored(k)' \ req'[s].old
               PROVE  Safe(c)'
    BY DEF CopiedBeforeDeleted
  <2>1. Safe(c)
    BY <1>2, <1>3, <1>4 DEF MoveIInv, CopiedBeforeDeleted
  <2> QED BY <1>2, <1>3, <1>4, <2>1 DEF Safe
<1> QED
  BY <1>3, <1>5 DEF AllStored

LEMMA PurgeIsSafe ==
  ASSUME MoveIInv, NEW r \in Requests, Purge(r)
  PROVE  /\ CopiedBeforeDeleted'
         /\ overtaken \/ AllStored \ AllStored' \subseteq discarded'
<1>0. /\ req[r] \in ReqRecords /\ InShape(req[r])
      /\ req[r].job.from \in Keys /\ req[r].pc = "purge"
  BY TypedParts DEF MoveIInv, Shape, Purge, At, InShape, Fits, ReqRecords, Jobs
<1>1. PICK from \in Keys : from = req[r].job.from
  BY <1>0
<1>2. /\ Stored(from)' = {}
      /\ \A k \in Keys \ {from} : Stored(k)' = Stored(k)
      /\ overtaken' = overtaken
  BY <1>0, <1>1, ElementsOfNone DEF Purge, MoveIInv, MoveTypeOK, Stored
\* The versions it removes are the ones it was to remove; others are safe.
<1>3. /\ discarded \subseteq discarded'
      /\ req[r].op = "delete" => Stored(from) \subseteq discarded'
      /\ req[r].op # "delete" => MovingAway(r, from) /\ req[r].old \subseteq discarded'
  BY <1>0, <1>1 DEF Purge, Doomed, At, MovingAway
<1>4. \A s \in Requests, k \in Keys :
         MovingAway(s, k)' => MovingAway(s, k) /\ req'[s].old = req[s].old
  <2>1. /\ \A s \in Requests \ {r} : req'[s] = req[s]
        /\ req'[r].pc = "next"
    BY <1>0 DEF Purge, Set, MoveIInv, MoveTypeOK, ReqRecords
  <2> QED BY <2>1 DEF MovingAway
\* A content that was safe is so without the purged file.
<1>5. ASSUME NEW c, Safe(c) PROVE c \in discarded' \/ \E k \in Keys :
         /\ c \in Stored(k)'
         /\ \A s \in Requests : MovingAway(s, k) => c \in req[s].old
  BY <1>2, <1>3, <1>5 DEF Safe
<1>6. CopiedBeforeDeleted'
  <2> SUFFICES ASSUME ~overtaken', NEW s \in Requests, NEW k \in Keys, MovingAway(s, k)',
                      NEW c \in Stored(k)' \ req'[s].old
               PROVE  Safe(c)'
    BY DEF CopiedBeforeDeleted
  <2>1. Safe(c)
    BY <1>2, <1>4 DEF MoveIInv, CopiedBeforeDeleted
  <2> QED BY <1>4, <1>5, <2>1 DEF Safe
<1>7. ASSUME ~overtaken, NEW c \in AllStored, c \notin AllStored' PROVE c \in discarded'
  <2>1. c \in Stored(from)
    BY <1>2, <1>7 DEF AllStored
  <2>2. CASE req[r].op # "delete" /\ c \notin req[r].old
    <3>1. Safe(c)
      BY <1>3, <1>7, <2>1, <2>2 DEF MoveIInv, CopiedBeforeDeleted
    <3> QED BY <1>5, <1>7, <3>1 DEF AllStored
  <2> QED BY <1>3, <2>1, <2>2
<1> QED
  BY <1>6, <1>7

LEMMA WriterPuts ==
  ASSUME MoveIInv, NEW r \in Requests, Copy(r) \/ Write(r) \/ Touch(r)
  PROVE  UNCHANGED versions \/ \E k \in Keys, c \in Contents : Put(k, c)
<1>1. /\ req[r] \in ReqRecords /\ InShape(req[r]) /\ req[r].pc = "copy"
      /\ ops \in 0..MaxOps
  BY TypedParts DEF MoveIInv, Shape, MoveTypeOK, Copy, Write, Touch, At
<1>2. \A k \in Keys : Exists(k) => Head(versions[k]) \in Contents
  BY TypedParts, ElementsOfHead DEF MoveIInv, Exists
<1>3. CASE Copy(r)
  <2>1. req[r].job.from \in Keys /\ req[r].job.to \in Keys
    BY <1>1, <1>3 DEF Copy, InShape, Fits, ReqRecords, Jobs
  <2> QED BY <1>2, <1>3, <2>1 DEF Copy
<1>4. CASE Write(r)
  <2>1. req[r].job.to \in Keys /\ <<req[r].job.to, ops>> \in Contents
    BY <1>1, <1>4 DEF Write, InShape, Fits, ReqRecords, Jobs, Contents
  <2> QED BY <1>4, <2>1 DEF Write
<1>5. CASE Touch(r)
  <2>1. req[r].job.from \in Keys
    BY <1>1, <1>5 DEF Touch, InShape, Fits, ReqRecords, Jobs
  <2> QED BY <1>2, <1>5, <2>1 DEF Touch
<1> QED
  BY <1>3, <1>4, <1>5

LEMMA CopiedBeforeDeletedKept ==
  MoveIInv /\ [MoveNext]_moveVars => CopiedBeforeDeleted'
<1> SUFFICES ASSUME MoveIInv, [MoveNext]_moveVars PROVE CopiedBeforeDeleted'
  OBVIOUS
<1>1. ASSUME NEW r \in Requests, Writing(r) PROVE CopiedBeforeDeleted'
  BY <1>1, CopyIsSafe, WriteIsSafe, PruneIsSafe, PurgeIsSafe, AbortIsSafe DEF Writing
<1>2. CASE MoveNext
  BY <1>1, <1>2, NextSplit, BeginningIsSafe, LookingIsSafe
<1>3. CASE UNCHANGED moveVars
  BY <1>3 DEF moveVars, MoveIInv, CopiedBeforeDeleted, Safe, Stored, MovingAway
<1> QED
  BY <1>2, <1>3

LEMMA MoveIInvInvariant == MoveSpec => []MoveIInv
<1>1. MoveInit => MoveIInv
  BY TypeAndShapeAtFirst DEF MoveInit, MoveIInv, CopiedBeforeDeleted, MovingAway, Idle
<1>2. MoveIInv /\ [MoveNext]_moveVars => MoveIInv'
  BY TypeAndShapeKept, CopiedBeforeDeletedKept DEF MoveIInv
<1> QED
  BY <1>1, <1>2, PTL DEF MoveSpec

\* Between the copy and the deletion of a move, each content the deletion will
\* take along stays elsewhere, or was to go, however many requests interleave.
THEOREM MovesCopyBeforeTheyDelete == MoveSpec => []CopiedBeforeDeleted
<1>1. MoveIInv => CopiedBeforeDeleted
  BY DEF MoveIInv
<1> QED
  BY <1>1, MoveIInvInvariant, PTL

\* No step of a move, rename, upload or deletion, of any number of them, loses
\* the last version of a content that no request was to remove, unless a file
\* was written while it was moved away.
THEOREM MovesLoseNothing == MoveSpec => NothingLost
<1>1. MoveIInv /\ [MoveNext]_moveVars =>
         [overtaken \/ AllStored \ AllStored' \subseteq discarded']_moveVars
  <2> SUFFICES ASSUME MoveIInv, MoveNext
               PROVE  overtaken \/ AllStored \ AllStored' \subseteq discarded'
    OBVIOUS
  <2>1. PICK r \in Requests : Beginning(r) \/ Looking(r) \/ Writing(r)
    BY NextSplit
  <2>2. CASE UNCHANGED versions
    BY <2>2 DEF AllStored, Stored
  <2>3. CASE \E k \in Keys, c \in Contents : Put(k, c)
    <3>1. PICK k \in Keys, c \in Contents : Put(k, c)
      BY <2>3
    <3>2. \A j \in Keys : Stored(j) \subseteq Stored(j)'
      BY <3>1, PutTyped DEF MoveIInv, Stored
    <3> QED BY <3>2 DEF AllStored
  <2>4. CASE Beginning(r) \/ Looking(r) \/ Abort(r)
    <3>1. UNCHANGED versions
      BY <2>4 DEF Beginning, BeginMove, BeginMoveDir, BeginRename, BeginTouch,
                  BeginUpload, BeginDelete, Begin, Looking, CheckConflicts,
                  CheckDirectory, ListDirectory, NextItem, FindFile, Quietly, Abort
    <3> QED BY <2>2, <3>1
  <2>5. CASE Copy(r) \/ Write(r) \/ Touch(r)
    BY <2>2, <2>3, <2>5, WriterPuts
  <2>6. CASE Prune(r) \/ Purge(r)
    BY <2>6, PruneIsSafe, PurgeIsSafe
  <2> QED BY <2>1, <2>4, <2>5, <2>6 DEF Writing
<1> QED
  BY <1>1, MoveIInvInvariant, PTL DEF MoveSpec, NothingLost

-----------------------------------------------------------------------------
(* No copies are left                                                      *)

\* No two of the files in v have the same current content, but for those that
\* are about to go.
Apart(v, away) ==
    \A j, k \in Keys \ away :
        v[j] # <<>> /\ v[k] # <<>> /\ j # k => Head(v[j]) # Head(v[k])

\* What is in v was written before the n-th request.
Older(v, n) == \A k \in Keys : \A c \in Elements(v[k]) : c[2] < n

\* The source of a move that has been copied.
Leaving(q) ==
    IF q.op # "upload" /\ q.pc \in {"prune", "purge"} THEN {q.job.from} ELSE {}

\* What the bucket is like where the only request at work is.
Orderly(q, v, n) ==
    /\ Apart(v, Leaving(q))
    /\ q.op = "upload" /\ q.pc \in {"check", "next", "copy"} => Older(v, n)

AloneIInv ==
    /\ Older(versions, ops + 1)
    /\ calm => /\ \A r, s \in Requests : ~At(r, "idle") /\ ~At(s, "idle") => r = s
               /\ (\A r \in Requests : At(r, "idle")) => Apart(versions, {})
               /\ \A r \in Requests : ~At(r, "idle") => Orderly(req[r], versions, ops)

LEMMA LeavingOf ==
  ASSUME NEW q
  PROVE  q.pc \notin {"prune", "purge"} => Leaving(q) = {}
  BY DEF Leaving

\* A step of the only request at work, or one after which the run is not calm.
LEMMA AloneMoves ==
  ASSUME AloneIInv, NEW r \in Requests,
         \A s \in Requests \ {r} : req'[s] = req[s],
         calm' => calm /\ \A s \in Requests \ {r} : At(s, "idle"),
         Older(versions', ops' + 1),
         calm' => Orderly(req'[r], versions', ops')
  PROVE  AloneIInv'
<1>1. CASE ~calm'
  BY <1>1 DEF AloneIInv, Older
<1>2. CASE calm'
  <2>1. \A s \in Requests : req'[s].pc # "idle" => s = r
    BY <1>2 DEF At
  <2>2. \A s, u \in Requests : ~At(s, "idle")' /\ ~At(u, "idle")' => s = u
    BY <2>1 DEF At
  <2>3. (\A s \in Requests : At(s, "idle"))' => Apart(versions', {})
    BY <1>2, LeavingOf DEF At, Orderly
  <2>4. \A s \in Requests : ~At(s, "idle")' => Orderly(req'[s], versions', ops')
    BY <1>2, <2>1 DEF At
  <2> QED
    BY <2>2, <2>3, <2>4 DEF AloneIInv, Older, Orderly, Apart
<1> QED BY <1>1, <1>2

\* What a request at work knows.
LEMMA AloneAtWork ==
  ASSUME AloneIInv, NEW r \in Requests, ~At(r, "idle"), calm
  PROVE  /\ \A s \in Requests \ {r} : At(s, "idle")
         /\ Orderly(req[r], versions, ops)
  BY DEF AloneIInv

\* When a request begins.
LEMMA BeginningIsOrderly ==
  ASSUME MoveTypeOK, Shape, AloneIInv, NEW r \in Requests, Beginning(r)
  PROVE  AloneIInv'
<1>1. /\ At(r, "idle") /\ ops' = ops + 1 /\ versions' = versions
      /\ calm' = (calm /\ \A s \in Requests : At(s, "idle"))
      /\ \A s \in Requests \ {r} : req'[s] = req[s]
      /\ req'[r].pc \in {"check", "next", "find"}
  <2>1. ASSUME NEW op, NEW jobs, NEW dir, NEW pc \in {"check", "next", "find"},
               Begin(r, op, jobs, dir, pc)
        PROVE  /\ At(r, "idle") /\ ops' = ops + 1 /\ versions' = versions
               /\ calm' = (calm /\ \A s \in Requests : At(s, "idle"))
               /\ \A s \in Requests \ {r} : req'[s] = req[s]
               /\ req'[r].pc \in {"check", "next", "find"}
    BY <2>1 DEF Begin, Set, MoveTypeOK, Idle
  <2>2. CASE BeginMove(r) \/ BeginMoveDir(r)
    BY <2>1, <2>2 DEF BeginMove, BeginMoveDir
  <2>3. CASE BeginRename(r) \/ BeginTouch(r) \/ BeginUpload(r) \/ BeginDelete(r)
    BY <2>1, <2>3 DEF BeginRename, BeginTouch, BeginUpload, BeginDelete
  <2> QED BY <2>2, <2>3 DEF Beginning
<1>2. \A k \in Keys : \A c \in Elements(versions[k]) : c[2] \in Nat /\ ops \in Nat
  BY TypedParts DEF MoveTypeOK, Stored, Contents
<1>3. Older(versions, ops + 1) /\ Older(versions', ops') /\ Older(versions', ops' + 1)
  BY <1>1, <1>2 DEF AloneIInv, Older
<1>4. calm' => Apart(versions', {})
  BY <1>1 DEF AloneIInv
<1>5. Leaving(req'[r]) = {}
  BY <1>1, LeavingOf
<1> QED
  BY <1>1, <1>3, <1>4, <1>5, AloneMoves DEF Orderly

\* While it looks for its next step.
LEMMA LookingIsOrderly ==
  ASSUME MoveTypeOK, Shape, AloneIInv, NEW r \in Requests, Looking(r)
  PROVE  AloneIInv'
<1>1. /\ req[r].pc \in {"check", "list", "next", "find"}
      /\ UNCHANGED <<versions, ops, calm>>
      /\ \A s \in Requests \ {r} : req'[s] = req[s]
  BY DEF Looking, CheckConflicts, CheckDirectory, ListDirectory, NextItem, FindFile,
         Quietly, At, Finish, Set, Start, MoveTypeOK
<1>2. req'[r] = Idle \/ req'[r].op = req[r].op
  <2>1. req[r] \in ReqRecords /\ \A new : Set(r, new) => req'[r] = new
    BY TypedParts DEF Set, MoveTypeOK
  <2>2. CASE CheckConflicts(r)
    BY <2>1, <2>2 DEF CheckConflicts, Finish, ReqRecords
  <2>3. CASE CheckDirectory(r) \/ ListDirectory(r)
    BY <2>1, <2>3 DEF CheckDirectory, ListDirectory, Finish, ReqRecords
  <2>4. CASE NextItem(r)
    BY <2>1, <2>4 DEF NextItem, Start, Finish, ReqRecords
  <2>5. CASE FindFile(r)
    BY <2>1, <2>5 DEF FindFile, Finish, ReqRecords
  <2> QED BY <2>2, <2>3, <2>4, <2>5 DEF Looking
<1>3. InShape(req[r])
  BY DEF Shape
<1>4. calm => /\ \A s \in Requests \ {r} : At(s, "idle")
              /\ Orderly(req[r], versions, ops)
  BY <1>1, AloneAtWork DEF At
<1>5. calm => Apart(versions, {})
  BY <1>1, <1>4, LeavingOf DEF Orderly
<1>6. calm => Apart(versions, Leaving(req'[r]))
  BY <1>5 DEF Apart
<1>7. calm => (req'[r].op = "upload" => Older(versions, ops))
  BY <1>1, <1>2, <1>3, <1>4 DEF Orderly, InShape, Idle
<1>8. Older(versions', ops' + 1)
  BY <1>1 DEF AloneIInv, Older
<1> QED
  BY <1>1, <1>4, <1>6, <1>7, <1>8, AloneMoves DEF Orderly

LEMMA HeadOfPut ==
  ASSUME MoveTypeOK, NEW k \in Keys, NEW c \in Contents, Put(k, c)
  PROVE  versions'[k] # <<>> /\ Head(versions'[k]) = c
<1>1. versions[k] \in Seq(Contents) /\ versions'[k] = <<c>> \o versions[k]
  BY TypedParts DEF Put, MoveTypeOK
<1>2. /\ <<c>> \o versions[k] \in Seq(Contents)
      /\ Len(<<c>> \o versions[k]) = 1 + Len(versions[k])
      /\ (<<c>> \o versions[k])[1] = c
  <2>1. <<c>> \in Seq(Contents) /\ Len(<<c>>) = 1 /\ <<c>>[1] = c
    OBVIOUS
  <2> QED BY <1>1, <2>1, ConcatProperties
<1> QED BY <1>1, <1>2

LEMMA HeadOfKept ==
  ASSUME MoveTypeOK, NEW k \in Keys
  PROVE  Kept(k) # <<>> => Exists(k) /\ Head(Kept(k)) = Head(versions[k])
<1> DEFINE s == versions[k]
           n == IF Len(s) <= 1 + MaxOldVersions THEN Len(s) ELSE 1 + MaxOldVersions
<1>1. s \in Seq(Contents) /\ Len(s) \in Nat /\ n \in Nat /\ n <= Len(s)
  BY MoveAssumption DEF MoveTypeOK
<1>2. Kept(k) = SubSeq(s, 1, n)
  BY DEF Kept
<1> HIDE DEF n
<1>3. CASE n = 0
  <2>1. SubSeq(s, 1, n) = <<>>
    BY <1>1, <1>3
  <2> QED BY <1>2, <2>1
<1>4. CASE n # 0
  <2> HIDE DEF s
  <2>1. SubSeq(s, 1, n)[1] = s[1] /\ SubSeq(s, 1, n) \in Seq(Contents)
        /\ Len(SubSeq(s, 1, n)) = n
    BY <1>1, <1>4
  <2>2. s # <<>> /\ Head(SubSeq(s, 1, n)) = Head(s)
    BY <1>1, <1>4, <2>1
  <2> QED BY <1>2, <2>2 DEF s, Exists
<1> QED BY <1>3, <1>4

\* Writing a file whose content is that of no other file that stays.
LEMMA PutApart ==
  ASSUME MoveTypeOK, NEW k \in Keys, NEW c \in Contents, Put(k, c), NEW away,
         Apart(versions, away \cup {k}),
         \A j \in Keys \ away : j # k /\ Exists(j) => Head(versions[j]) # c
  PROVE  Apart(versions', away)
<1>1. \A j \in Keys \ {k} : versions'[j] = versions[j]
  BY PutTyped
<1>2. Head(versions'[k]) = c
  BY HeadOfPut
<1> QED BY <1>1, <1>2 DEF Apart, Exists

LEMMA PutOlder ==
  ASSUME MoveTypeOK, NEW k \in Keys, NEW c \in Contents, Put(k, c), NEW n,
         Older(versions, n), c[2] < n
  PROVE  Older(versions', n)
<1>1. Elements(versions'[k]) = {c} \cup Elements(versions[k])
      /\ \A j \in Keys \ {k} : versions'[j] = versions[j]
  BY PutTyped DEF Stored
<1> QED BY <1>1 DEF Older

LEMMA WritingIsOrderly ==
  ASSUME MoveTypeOK, Shape, AloneIInv, NEW r \in Requests, Writing(r)
  PROVE  AloneIInv'
<1> DEFINE q == req[r]
<1>1. q \in ReqRecords /\ InShape(q) /\ req' \in [Requests -> ReqRecords]
  BY TypedParts, WritingKeeps DEF Shape, MoveTypeOK, ReqRecords
<1>2. /\ ~At(r, "idle") /\ UNCHANGED ops /\ (calm' => calm)
      /\ \A s \in Requests \ {r} : req'[s] = req[s]
  BY DEF Writing, Copy, Write, Touch, Prune, Purge, Abort, At, Finish, Set, MoveTypeOK
<1>3. Older(versions, ops + 1) /\ ops \in Nat
  BY MoveAssumption DEF AloneIInv, MoveTypeOK
<1>4. calm => /\ \A s \in Requests \ {r} : At(s, "idle")
              /\ Apart(versions, Leaving(q))
              /\ q.op = "upload" /\ q.pc = "copy" => Older(versions, ops)
  <2> SUFFICES ASSUME calm
               PROVE  /\ \A s \in Requests \ {r} : At(s, "idle")
                      /\ Apart(versions, Leaving(q))
                      /\ q.op = "upload" /\ q.pc = "copy" => Older(versions, ops)
    OBVIOUS
  <2>1. /\ \A s \in Requests \ {r} : At(s, "idle")
        /\ Orderly(req[r], versions, ops)
    BY <1>2, AloneAtWork
  <2> QED BY <2>1 DEF Orderly
<1>5. ASSUME Older(versions', ops + 1),
             calm => Apart(versions', Leaving(req'[r])),
             req'[r].op = "upload" => req'[r].pc \notin {"check", "next", "copy"}
      PROVE  AloneIInv'
  <2>1. calm' => calm /\ \A s \in Requests \ {r} : At(s, "idle")
    BY <1>2, <1>4
  <2>2. Older(versions', ops' + 1)
    BY <1>2, <1>5
  <2>3. calm' => Orderly(req'[r], versions', ops')
    BY <1>2, <1>5 DEF Orderly
  <2> QED BY <1>2, <2>1, <2>2, <2>3, AloneMoves
<1>6. \A k \in Keys : Exists(k) =>
         /\ Head(versions[k]) \in Contents /\ Head(versions[k])[2] < ops + 1
  <2> TAKE k \in Keys
  <2> HAVE Exists(k)
  <2>1. Head(versions[k]) \in Contents /\ Head(versions[k]) \in Elements(versions[k])
    BY TypedParts, ElementsOfHead DEF Exists
  <2> QED BY <1>3, <2>1 DEF Older
<1>7. Idle.pc = "idle" /\ Leaving(Idle) = {} /\ Idle.op # "upload"
  BY DEF Idle, Leaving
<1>8. CASE Copy(r)
  <2> DEFINE from == q.job.from
             to == q.job.to
             c == Head(versions[from])
  <2>0. q.pc = "copy" /\ q.op # "upload" /\ from \in Keys /\ to \in Keys
    BY <1>1, <1>8 DEF Copy, At, InShape, Fits, ReqRecords, Jobs
  <2>1. calm => Apart(versions, {})
    BY <1>4, <2>0 DEF Leaving
  <2>2. CASE /\ Exists(from) /\ from # to /\ Put(to, c)
             /\ Set(r, [q EXCEPT !.old = Stored(from) \ {c}, !.pc = AfterCopy(r)])
    <3>1. /\ req'[r].op = q.op /\ req'[r].job = q.job
          /\ req'[r].pc \in {"prune", "purge"}
      BY <1>1, <2>2 DEF Set, MoveTypeOK, ReqRecords, AfterCopy
    <3>2. Leaving(req'[r]) = {from}
      BY <2>0, <3>1 DEF Leaving
    <3>3. c \in Contents /\ c[2] < ops + 1
      BY <1>6, <2>0, <2>2
    <3>4. Older(versions', ops + 1)
      BY <1>3, <2>0, <2>2, <3>3, PutOlder
    <3>5. ASSUME calm PROVE Apart(versions', {from})
      <4>1. Apart(versions, {from} \cup {to})
        BY <2>1, <3>5 DEF Apart
      <4>2. \A j \in Keys \ {from} : j # to /\ Exists(j) => Head(versions[j]) # c
        BY <2>0, <2>1, <2>2, <3>5 DEF Apart, Exists
      <4> QED BY SMTT(20), <2>0, <2>2, <3>3, <4>1, <4>2, PutApart
    <3> QED BY <1>5, <2>0, <3>1, <3>2, <3>4, <3>5
  <2>3. CASE Finish(r) /\ UNCHANGED versions
    <3>1. req'[r] = Idle
      BY <2>3 DEF Finish, Set, MoveTypeOK
    <3> QED BY <1>3, <1>5, <1>7, <2>1, <2>3, <3>1
  <2> QED BY <1>8, <2>2, <2>3 DEF Copy
<1>9. CASE Write(r)
  <2> DEFINE to == q.job.to
             c == <<to, ops>>
  <2>0. q.pc = "copy" /\ q.op = "upload" /\ to \in Keys /\ Put(to, c)
    BY <1>1, <1>9 DEF Write, At, InShape, Fits, ReqRecords, Jobs
  <2>1. c \in Contents /\ c[2] = ops /\ c[2] < ops + 1
    BY <1>3, <2>0 DEF Contents, MoveTypeOK
  <2>2. calm => Apart(versions, {}) /\ Older(versions, ops)
    BY <1>4, <2>0 DEF Leaving
  <2>3. req'[r].pc = "prune" /\ req'[r].op = "upload" /\ Leaving(req'[r]) = {}
    BY <1>1, <1>9, <2>0 DEF Write, Set, MoveTypeOK, ReqRecords, Leaving
  <2> HIDE DEF c
  <2>4. Older(versions', ops + 1)
    BY <1>3, <2>0, <2>1, PutOlder
  <2>5. ASSUME calm PROVE Apart(versions', {})
    <3>1. Apart(versions, {} \cup {to})
      BY <2>2, <2>5 DEF Apart
    <3>2. ASSUME NEW j \in Keys, Exists(j) PROVE Head(versions[j]) # c
      <4>1. Head(versions[j]) \in Elements(versions[j])
        BY <3>2, TypedParts, ElementsOfHead DEF Exists
      <4> QED BY <1>3, <2>1, <2>2, <2>5, <4>1 DEF Older
    <3> QED BY <2>0, <2>1, <3>1, <3>2, PutApart
  <2> QED BY <1>5, <2>3, <2>4, <2>5
<1>10. CASE Touch(r)
  <2> DEFINE k == q.job.from
             c == Head(versions[k])
  <2>0. q.pc = "copy" /\ k \in Keys /\ req'[r] = Idle
    BY <1>1, <1>10 DEF Touch, At, InShape, Fits, ReqRecords, Jobs, Finish, Set, MoveTypeOK
  <2>1. calm => Apart(versions, {})
    BY <1>4, <2>0 DEF Leaving
  <2>2. CASE Exists(k) /\ Put(k, c)
    <3>1. c \in Contents /\ c[2] < ops + 1
      BY <1>6, <2>0, <2>2
    <3>2. Older(versions', ops + 1)
      BY <1>3, <2>0, <2>2, <3>1, PutOlder
    <3>3. ASSUME calm PROVE Apart(versions', {})
      <4>1. Apart(versions, {} \cup {k})
        BY <2>1, <3>3 DEF Apart
      <4>2. \A j \in Keys \ {} : j # k /\ Exists(j) => Head(versions[j]) # c
        BY <2>0, <2>1, <2>2, <3>3 DEF Apart, Exists
      <4> QED BY <2>0, <2>2, <3>1, <4>1, <4>2, PutApart
    <3> QED BY <1>5, <1>7, <2>0, <3>2, <3>3
  <2>3. CASE UNCHANGED versions
    BY <1>3, <1>5, <1>7, <2>0, <2>1, <2>3
  <2> QED BY <1>10, <2>2, <2>3 DEF Touch
<1>11. CASE Prune(r)
  <2> DEFINE to == q.job.to
  <2>0. q.pc = "prune" /\ to \in Keys
        /\ versions' = [versions EXCEPT ![to] = Kept(to)]
    BY <1>1, <1>11 DEF Prune, At, InShape, Fits, ReqRecords, Jobs
  <2>1. versions'[to] = Kept(to) /\ \A j \in Keys \ {to} : versions'[j] = versions[j]
    BY <2>0 DEF MoveTypeOK
  <2>2. \A k \in Keys : versions'[k] # <<>> =>
           versions[k] # <<>> /\ Head(versions'[k]) = Head(versions[k])
    BY <2>0, <2>1, HeadOfKept DEF Exists
  <2>3. Older(versions', ops + 1)
    BY <1>3, <2>0, <2>1, ElementsOfKept DEF Older, Stored
  <2>4. \A away : Apart(versions, away) => Apart(versions', away)
    BY <2>2 DEF Apart
  <2>5. \/ q.op = "upload" /\ req'[r] = Idle
        \/ /\ q.op # "upload" /\ req'[r].pc = "purge" /\ req'[r].op = q.op
           /\ req'[r].job = q.job
    BY <1>1, <1>11 DEF Prune, Finish, Set, MoveTypeOK, ReqRecords
  <2>6. Leaving(req'[r]) = Leaving(q)
    BY <1>7, <2>0, <2>5 DEF Leaving
  <2>7. req'[r].pc \notin {"check", "next", "copy"}
    BY <1>7, <2>5
  <2> QED BY <1>4, <1>5, <2>3, <2>4, <2>6, <2>7
<1>12. CASE Purge(r)
  <2> DEFINE from == q.job.from
  <2>0. q.pc = "purge" /\ q.op # "upload" /\ from \in Keys
        /\ versions' = [versions EXCEPT ![from] = <<>>]
    BY <1>1, <1>12 DEF Purge, At, InShape, Fits, ReqRecords, Jobs
  <2>1. versions'[from] = <<>> /\ \A j \in Keys \ {from} : versions'[j] = versions[j]
    BY <2>0 DEF MoveTypeOK
  <2>2. calm => Apart(versions, {from})
    BY <1>4, <2>0 DEF Leaving
  <2>3. calm => Apart(versions', {})
    BY <2>1, <2>2 DEF Apart
  <2>4. Older(versions', ops + 1)
    BY <1>3, <2>0, <2>1, ElementsOfNone DEF Older
  <2>5. req'[r].pc = "next" /\ req'[r].op # "upload" /\ Leaving(req'[r]) = {}
    BY <1>1, <1>12, <2>0 DEF Purge, Set, MoveTypeOK, ReqRecords, Leaving
  <2> QED BY <1>5, <2>3, <2>4, <2>5
<1>13. CASE Abort(r)
  <2>1. UNCHANGED versions /\ ~calm'
    BY <1>13 DEF Abort
  <2>2. Older(versions', ops' + 1)
    BY <1>2, <1>3, <2>1
  <2> QED BY <1>2, <2>1, <2>2, AloneMoves
<1> QED
  BY <1>8, <1>9, <1>10, <1>11, <1>12, <1>13 DEF Writing

LEMMA OrderlyAtFirst == MoveInit => AloneIInv
<1> SUFFICES ASSUME MoveInit PROVE AloneIInv
  OBVIOUS
<1>1. PICK files \in SUBSET Keys :
           versions = [k \in Keys |-> IF k \in files THEN <<<<k, 0>>>> ELSE <<>>]
  BY DEF MoveInit
<1>2. \A k \in Keys : versions[k] \in {<<>>, <<<<k, 0>>>>}
  BY <1>1
<1>3. Older(versions, ops + 1)
  BY <1>2, ElementsOfNone DEF MoveInit, Older, Elements
<1>4. Apart(versions, {})
  BY <1>2 DEF Apart
<1>5. \A r \in Requests : At(r, "idle")
  BY DEF MoveInit, At, Idle
<1> QED
  BY <1>3, <1>4, <1>5 DEF AloneIInv

\* Requests that run one after the other and to their end, any number of them,
\* leave no two files with the same current content.
THEOREM MovesLeaveNoCopies == MoveSpec => []OneCopy
<1>1. MoveIInv /\ AloneIInv /\ [MoveNext]_moveVars => AloneIInv'
  <2> SUFFICES ASSUME MoveIInv, AloneIInv, [MoveNext]_moveVars PROVE AloneIInv'
    OBVIOUS
  <2>1. CASE MoveNext
    BY <2>1, NextSplit, BeginningIsOrderly, LookingIsOrderly, WritingIsOrderly DEF MoveIInv
  <2>2. CASE UNCHANGED moveVars
    BY <2>2 DEF moveVars, AloneIInv, Older, Orderly, Apart, Leaving, At
  <2> QED BY <2>1, <2>2
<1>2. AloneIInv => OneCopy
  BY DEF AloneIInv, OneCopy, Apart, Exists
<1> QED
  BY <1>1, <1>2, OrderlyAtFirst, MoveIInvInvariant, PTL DEF MoveSpec

=============================================================================
