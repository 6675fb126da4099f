-------------------------- MODULE ArchiveJobs_proofs --------------------------
(***************************************************************************)
(* Proofs about ArchiveJobs, for any requests, archives, trees, numbers of *)
(* jobs and uploads at once: that a completed extraction is quiet          *)
(* (CompleteIsQuiet), that it never replaces what it must keep             *)
(* (NothingKnownIsReplaced), and that nothing of a secured folder gets     *)
(* into an archive of other things (LeakOnlyByNavigation).                 *)
(*                                                                         *)
(* The inductive invariant says, of each job by itself, where it is in its *)
(* life (Life), how it resolved its target (Plan), and which keys its      *)
(* uploads may land on (Flight): since it speaks of one job at a time, a   *)
(* step of another job matters only by the objects that one writes.        *)
(***************************************************************************)
EXTENDS ArchiveJobs, SequenceTheorems, WellFoundedInduction, TLAPS

-----------------------------------------------------------------------------
(* Bounded sets of numbers have a greatest element                         *)

LEMMA Least ==
  ASSUME NEW S, S \subseteq Nat, S # {}
  PROVE  \E x \in S : \A y \in S : x <= y
<1> DEFINE R == OpToRel(<, Nat)
<1>1. PICK x \in S : \A y \in S : <<y, x>> \notin R
  <2> HIDE DEF R
  <2>1. IsWellFoundedOn(R, Nat)
    BY NatLessThanWellFounded DEF R
  <2> QED BY <2>1, WFMin
<1>2. \A y \in S : ~(y < x)
  <2> TAKE y \in S
  <2>1. <<y, x>> \in Nat \X Nat /\ <<y, x>>[1] = y /\ <<y, x>>[2] = x
    OBVIOUS
  <2>2. (<<y, x>>[1] < <<y, x>>[2]) => <<y, x>> \in R
    BY <2>1 DEF OpToRel
  <2> QED BY <1>1, <2>1, <2>2
<1> QED BY <1>2

LEMMA Greatest ==
  ASSUME NEW S, NEW m \in Nat, S \subseteq 0..m, S # {}
  PROVE  \E x \in S : \A y \in S : y <= x
<1> DEFINE T == {n \in Nat : \A y \in S : y <= n}
<1>1. m \in T
  OBVIOUS
<1>2. PICK x \in T : \A n \in T : x <= n
  <2> T \subseteq Nat /\ T # {} BY <1>1
  <2> HIDE DEF T
  <2> QED BY Least
<1>3. CASE x \in S
  BY <1>3
<1>4. CASE x \notin S
  <2>1. PICK z \in S : TRUE
    OBVIOUS
  <2>2. \A y \in S : y <= x - 1 /\ x \in Nat /\ y \in Nat
    BY <1>4
  <2>3. x - 1 \in T
    BY <2>1, <2>2
  <2> QED BY <2>3, <1>2
<1> QED BY <1>3, <1>4

-----------------------------------------------------------------------------
(* Common prefixes                                                         *)

Path == Seq(STRING)

LEMMA PrefixByElements ==
  ASSUME NEW s \in Path, NEW t \in Path
  PROVE  IsPrefix(s, t) <=> Len(s) <= Len(t) /\ \A i \in 1..Len(s) : s[i] = t[i]
<1>1. CASE Len(s) <= Len(t)
  <2>1. /\ SubSeq(s, 1, Len(s)) = [i \in 1..Len(s) |-> s[i]]
        /\ SubSeq(t, 1, Len(s)) = [i \in 1..Len(s) |-> t[i]]
    BY <1>1 DEF Path
  <2> QED BY <1>1, <2>1 DEF IsPrefix
<1>2. CASE ~(Len(s) <= Len(t))
  BY <1>2 DEF IsPrefix
<1> QED BY <1>1, <1>2

LEMMA PrefixTransitive ==
  ASSUME NEW s \in Path, NEW t \in Path, NEW u \in Path, IsPrefix(s, t), IsPrefix(t, u)
  PROVE  IsPrefix(s, u)
<1>1. Len(s) \in Nat /\ Len(t) \in Nat /\ Len(u) \in Nat
  BY DEF Path
<1> QED BY <1>1, PrefixByElements

LEMMA FrontIsProper ==
  ASSUME NEW s \in Path
  PROVE  /\ Front(s) \in Path
         /\ s # <<>> => IsPrefix(Front(s), s) /\ Len(Front(s)) = Len(s) - 1
         /\ s = <<>> => Front(s) = <<>>
<1>1. CASE s = <<>>
  <2>1. Len(s) - 1 = -1 /\ SubSeq(s, 1, -1) = <<>> /\ <<>> \in Path
    BY <1>1 DEF Path
  <2>2. Front(s) = <<>>
    BY <2>1 DEF Front
  <2> QED BY <1>1, <2>1, <2>2
<1>2. CASE s # <<>>
  <2>1. Len(s) \in Nat /\ Len(s) >= 1
    BY <1>2 DEF Path
  <2>2. /\ \A i \in 1..(Len(s) - 1) : Front(s)[i] = s[i]
        /\ Front(s) \in Path /\ Len(Front(s)) = Len(s) - 1
    <3> DEFINE n == Len(s) - 1
    <3>1. n \in Int /\ 1 \in Int /\ n >= 0 /\ \A i \in 1..n : s[i] \in STRING
      BY <2>1 DEF Path
    <3> HIDE DEF n
    <3>2. /\ SubSeq(s, 1, n) \in Seq(STRING)
          /\ Len(SubSeq(s, 1, n)) = IF 1 <= n THEN n - 1 + 1 ELSE 0
          /\ \A i \in 1..(n - 1 + 1) : SubSeq(s, 1, n)[i] = s[1 + i - 1]
      BY <3>1, SubSeqProperties
    <3>3. Len(SubSeq(s, 1, n)) = n /\ \A i \in 1..n : SubSeq(s, 1, n)[i] = s[i]
      BY <3>1, <3>2
    <3> QED BY <3>2, <3>3 DEF Path, Front, n
  <2> QED BY <1>2, <2>1, <2>2, PrefixByElements
<1> QED BY <1>1, <1>2

LEMMA SharedPrefix ==
  ASSUME NEW S, S \subseteq Path, S # {}
  PROVE  /\ LongestCommonPrefix(S) \in Path
         /\ \A t \in S : IsPrefix(LongestCommonPrefix(S), t)
<1>1. PICK t \in S : TRUE
  OBVIOUS
<1> DEFINE C == CommonPrefixes(S)
           L == {Len(p) : p \in C}
<1>2. \A p \in C : /\ p \in Path /\ Len(p) <= Len(t)
                   /\ \A u \in S : IsPrefix(p, u)
  <2> SUFFICES ASSUME NEW p \in C
               PROVE  /\ p \in Path /\ Len(p) <= Len(t)
                      /\ \A u \in S : IsPrefix(p, u)
    OBVIOUS
  <2>1. (\E u \in S : p \in Prefixes(u)) /\ \A u \in S : IsPrefix(p, u)
    BY DEF CommonPrefixes
  <2>2. PICK u \in S : \E n \in 0..Len(u) : p = SubSeq(u, 1, n)
    BY <2>1 DEF Prefixes
  <2>3. u \in Path /\ p \in Path
    BY <2>2 DEF Path
  <2> QED BY <2>1, <2>3, <1>1 DEF IsPrefix
<1>3. <<>> \in C
  <2>1. \A u \in S : IsPrefix(<<>>, u)
    <3> TAKE u \in S
    <3> <<>> \in Path /\ u \in Path /\ Len(<<>>) = 0 /\ Len(u) \in Nat
      BY DEF Path
    <3> QED BY PrefixByElements
  <2>2. <<>> = SubSeq(t, 1, 0) /\ 0 \in 0..Len(t)
    BY <1>1 DEF Path
  <2>3. <<>> \in Prefixes(t)
    BY <2>2 DEF Prefixes
  <2> QED BY <1>1, <2>1, <2>3 DEF CommonPrefixes
<1>4. L \subseteq 0..Len(t) /\ L # {} /\ Len(t) \in Nat
  <2>1. Len(t) \in Nat /\ \A p \in C : Len(p) \in Nat /\ Len(p) <= Len(t)
    BY <1>1, <1>2 DEF Path
  <2>2. \A n \in L : n \in 0..Len(t)
    BY <2>1
  <2>3. Len(<<>>) \in L
    BY <1>3
  <2> QED BY <2>1, <2>2, <2>3
<1>5. \E p \in C : \A q \in C : Len(q) <= Len(p)
  <2>1. PICK n \in L : \A m \in L : m <= n
    <3> HIDE DEF L
    <3> QED BY <1>4, Greatest
  <2> QED BY <2>1
<1>6. LongestCommonPrefix(S) \in C
  BY <1>5 DEF LongestCommonPrefix
<1> QED BY <1>2, <1>6

\* What lets a folder off the exclusion: all that was selected lies inside it.
LEMMA InsideTheFolder ==
  ASSUME NEW keys, keys \subseteq Path, NEW k \in keys, NEW f \in Path \ {<<>>},
         IsPrefix(f, CommonParent(keys))
  PROVE  IsPrefix(f, k) /\ f # k
<1> DEFINE S == {Front(x) : x \in keys}
<1>1. S \subseteq Path /\ S # {} /\ Front(k) \in S
  BY FrontIsProper
<1>2. /\ LongestCommonPrefix(S) \in Path
      /\ \A t \in S : IsPrefix(LongestCommonPrefix(S), t)
  <2> HIDE DEF S
  <2> QED BY <1>1, SharedPrefix
<1>3. IsPrefix(f, Front(k)) /\ Front(k) \in Path
  <2>1. IsPrefix(f, LongestCommonPrefix(S))
    BY DEF CommonParent
  <2> HIDE DEF S
  <2> QED BY <1>1, <1>2, <2>1, PrefixTransitive
<1>4. Len(f) \in Nat /\ Len(f) >= 1 /\ Len(k) \in Nat /\ k \in Path
  BY DEF Path
<1>5. Len(f) <= Len(Front(k))
  BY <1>3 DEF IsPrefix
<1>6. k # <<>>
  <2> SUFFICES ASSUME k = <<>> PROVE FALSE
    OBVIOUS
  <2>1. Front(k) = <<>> /\ Len(<<>>) = 0
    BY <1>4, FrontIsProper
  <2> QED BY <1>4, <1>5, <2>1
<1>7. IsPrefix(Front(k), k) /\ Len(Front(k)) = Len(k) - 1
  BY <1>4, <1>6, FrontIsProper
<1> QED BY <1>3, <1>4, <1>5, <1>7, PrefixTransitive

-----------------------------------------------------------------------------
(* The inductive invariant                                                 *)

JobFields == {"kind", "state", "pc", "outcome", "told", "stalls"}
RunFields == {"archive", "format", "strategy", "newFolder", "dir", "mode", "seen",
              "claimed", "next", "handled", "flying", "done", "stalled"}
ArcFields == {"keys", "format", "marks", "toExpand", "entries", "packed", "stored"}

Shape ==
    /\ DOMAIN job = Jobs /\ DOMAIN ext = Jobs /\ DOMAIN arc = Jobs
    /\ \A j \in Jobs : /\ DOMAIN job[j] = JobFields
                       /\ DOMAIN ext[j] = RunFields
                       /\ DOMAIN arc[j] = ArcFields
    /\ workload \in Workloads /\ secured \subseteq Folders

\* Where a job can be in its life.
Life(q) ==
    /\ q.kind = "none" <=> q.state = "none"
    /\ q.state \in {"none", "waiting"} => q.outcome = "none" /\ q.pc = "off"
    /\ q.pc # "off" => q.state = "active"
    /\ q.outcome \in {"none", "completed", "failed"}
    /\ q.outcome # "none" => q.pc \in {"clean", "settle", "off"}
    /\ q.pc \in {"clean", "settle"} => q.outcome # "none"

Quiet(q, x) == q.pc = "tell" \/ q.outcome = "completed" => x.flying = {}

\* How an extraction resolves where it writes.
Plan(q, x) ==
    /\ x.strategy \in {"fail", "skip", "replace", "keepBoth"}
    /\ x.mode \in {"none", "overwrite", "fail", "skip", "keepBoth"}
    /\ ~x.newFolder => x.dir = 0
    /\ q.pc = "probe" => x.newFolder
    /\ q.pc = "list" => x.strategy # "replace" /\ (x.newFolder => x.strategy = "skip")
    /\ q.pc \in {"probe", "list"} =>
          x.mode = "none" /\ x.seen = {} /\ x.claimed = {} /\ x.flying = {}
    /\ q.pc \in {"entries", "race"} /\ x.strategy # "replace" => x.mode # "none"
    /\ x.mode = "keepBoth" => ~x.newFolder
    /\ x.mode = "overwrite" /\ x.strategy # "replace" => x.seen = {}

\* The objects a job wrote while it keeps both were there when it looked, or it
\* claimed them; folders are no copies.
Claims(j, x, fs) ==
    x.mode = "keepBoth" =>
       /\ \A k \in DOMAIN fs :
             fs[k][1] = j /\ k[2] \notin FolderEntries => k \in x.seen \cup x.claimed
       /\ \A up \in x.flying : up.key[2] \notin FolderEntries =>
             /\ up.key \in x.claimed
             /\ up.key \in DOMAIN fs => fs[up.key][1] # j
             /\ \A other \in x.flying : other.key = up.key => other = up

Flight(j, x, fs) ==
    /\ \A up \in x.flying : /\ up.key[1] = x.dir
                            /\ x.strategy # "replace" => up.key \notin x.seen
    /\ Claims(j, x, fs)

WrittenBy(j, kind, newFolder, fs) ==
    \A k \in DOMAIN fs : fs[k][1] = j =>
       kind # "none" /\ (kind = "extract" /\ ~newFolder => k[1] = 0)

JobOk(j, q, x, fs) ==
    /\ Life(q)
    /\ WrittenBy(j, q.kind, x.newFolder, fs)
    /\ q.kind # "extract" => x.flying = {}
    /\ q.kind = "extract" => Quiet(q, x) /\ Plan(q, x) /\ Flight(j, x, fs)

ArcOk(a) ==
    /\ a.keys \subseteq Path /\ a.marks \subseteq Folders
    /\ a.packed \subseteq a.entries
    /\ \A p \in a.entries : \A f \in a.marks :
          IsPrefix(f, p) => IsPrefix(f, CommonParent(a.keys))

Ordered == \A j \in Jobs : JobOk(j, job[j], ext[j], files)

Packed == \A j \in Jobs : ArcOk(arc[j])

JobsIInv == Shape /\ Ordered /\ Packed

-----------------------------------------------------------------------------

JobsAssumptions == WorkloadAssumption /\ CreateAssumption

LEMMA NoUserJob == User \notin Jobs
  BY QueueAssumption DEF User, Jobs

\* What others write is no concern of a job's.
NothingOf(j) ==
    \A k \in DOMAIN files' : files'[k][1] = j => k \in DOMAIN files /\ files'[k] = files[k]

LEMMA Bystander ==
  ASSUME NEW j, NEW q, NEW x, JobOk(j, q, x, files), NothingOf(j)
  PROVE  JobOk(j, q, x, files')
<1>1. WrittenBy(j, q.kind, x.newFolder, files')
  BY DEF JobOk, WrittenBy, NothingOf
<1>2. Flight(j, x, files) => Flight(j, x, files')
  BY DEF Flight, Claims, NothingOf
<1> QED BY <1>1, <1>2 DEF JobOk

\* A step of one job: the others need not be looked at.
LEMMA OneJob ==
  ASSUME JobsIInv, NEW j \in Jobs,
         \A i \in Jobs \ {j} : job'[i] = job[i] /\ ext'[i] = ext[i] /\ NothingOf(i),
         JobOk(j, job'[j], ext'[j], files')
  PROVE  Ordered'
<1> SUFFICES ASSUME NEW i \in Jobs PROVE JobOk(i, job'[i], ext'[i], files')
  BY DEF Ordered
<1>1. JobOk(i, job[i], ext[i], files)
  BY DEF JobsIInv, Ordered
<1> QED BY <1>1, Bystander

LEMMA Unwritten == ASSUME files' = files PROVE \A i : NothingOf(i)
  BY DEF NothingOf

\* A step that only moves a job.
OnlyJob(j, q) ==
    /\ job' = [job EXCEPT ![j] = q]
    /\ UNCHANGED <<files, ext>>

LEMMA OnlyMoves ==
  ASSUME JobsIInv, NEW j \in Jobs, NEW q, OnlyJob(j, q),
         DOMAIN q = JobFields, q.kind = job[j].kind, Life(q),
         q.kind = "extract" => Quiet(q, ext[j]) /\ Plan(q, ext[j])
  PROVE  Ordered'
<1>1. /\ job'[j] = q /\ ext'[j] = ext[j] /\ files' = files
      /\ \A i \in Jobs \ {j} : job'[i] = job[i] /\ ext'[i] = ext[i]
  BY DEF OnlyJob, JobsIInv, Shape
<1>2. JobOk(j, q, ext[j], files)
  BY DEF JobsIInv, Ordered, JobOk
<1> QED BY <1>1, <1>2, OneJob, Unwritten

LEMMA NoMoves ==
  ASSUME JobsIInv, UNCHANGED <<job, ext, files>>
  PROVE  Ordered'
<1> job' = job /\ ext' = ext /\ files' = files
  OBVIOUS
<1> QED BY DEF JobsIInv, Ordered

-----------------------------------------------------------------------------
(* Steps of the queue                                                      *)

\* The job a step leaves, when it says so with EXCEPT.
LEMMA JobShape ==
  ASSUME Shape, NEW j \in Jobs
  PROVE  /\ \A pc : LET q == [job[j] EXCEPT !.pc = pc] IN
               /\ DOMAIN q = JobFields /\ q.pc = pc
               /\ q.kind = job[j].kind /\ q.state = job[j].state
               /\ q.outcome = job[j].outcome
         /\ \A state : LET q == [job[j] EXCEPT !.state = state] IN
               /\ DOMAIN q = JobFields /\ q.state = state
               /\ q.kind = job[j].kind /\ q.pc = job[j].pc
               /\ q.outcome = job[j].outcome
  BY DEF Shape, JobFields

LEMMA GotoMoves ==
  ASSUME JobsIInv, NEW j \in Jobs, NEW pc, Goto(j, pc), UNCHANGED <<files, ext>>,
         job[j].pc \notin {"off", "clean", "settle"},
         pc \notin {"off", "clean", "settle"},
         job[j].kind = "extract" =>
            Quiet([job[j] EXCEPT !.pc = pc], ext[j]) /\ Plan([job[j] EXCEPT !.pc = pc], ext[j])
  PROVE  Ordered'
<1> DEFINE q == [job[j] EXCEPT !.pc = pc]
<1>1. OnlyJob(j, q)
  BY DEF OnlyJob, Goto
<1>2. DOMAIN q = JobFields /\ q.kind = job[j].kind /\ q.pc = pc
      /\ q.state = job[j].state /\ q.outcome = job[j].outcome
  BY JobShape DEF JobsIInv
<1>3. Life(job[j])
  BY DEF JobsIInv, Ordered, JobOk
<1> HIDE DEF q
<1>4. Life(q)
  BY <1>2, <1>3 DEF Life
<1> QED BY <1>1, <1>2, <1>4, OnlyMoves DEF q

LEMMA OutcomeMoves ==
  ASSUME JobsIInv, NEW j \in Jobs, NEW event, NEW outcome \in {"completed", "failed"},
         Outcome(j, event, outcome), UNCHANGED <<files, ext>>,
         job[j].pc \notin {"off", "clean", "settle"},
         outcome = "completed" /\ job[j].kind = "extract" => ext[j].flying = {}
  PROVE  Ordered'
<1> DEFINE q == [job[j] EXCEPT !.told = @ \cup {event}, !.outcome = outcome,
                               !.pc = IF job[j].kind = "mkdir" THEN "settle" ELSE "clean"]
<1>1. OnlyJob(j, q)
  BY DEF OnlyJob, Outcome
<1>2. /\ DOMAIN q = JobFields /\ q.kind = job[j].kind /\ q.pc \in {"settle", "clean"}
      /\ q.state = job[j].state /\ q.outcome = outcome
  BY DEF JobsIInv, Shape, JobFields
<1>3. /\ Life(job[j])
      /\ job[j].kind = "extract" => Plan(job[j], ext[j])
  BY DEF JobsIInv, Ordered, JobOk
<1> HIDE DEF q
<1>4. Life(q)
  BY <1>2, <1>3 DEF Life
<1>5. q.kind = "extract" => Quiet(q, ext[j]) /\ Plan(q, ext[j])
  BY <1>2, <1>3 DEF Quiet, Plan
<1> QED BY <1>1, <1>2, <1>4, <1>5, OnlyMoves

LEMMA TakeMoves ==
  ASSUME JobsIInv, NEW j \in Jobs, QueueOnly(Take(j))
  PROVE  Ordered'
<1> DEFINE q == [job[j] EXCEPT !.state = "active", !.pc = "begin"]
<1>1. OnlyJob(j, q) /\ job[j].state = "waiting"
  BY DEF OnlyJob, Take, QueueOnly
<1>2. /\ DOMAIN q = JobFields /\ q.kind = job[j].kind /\ q.pc = "begin"
      /\ q.state = "active" /\ q.outcome = job[j].outcome
  BY DEF JobsIInv, Shape, JobFields
<1>3. /\ Life(job[j])
      /\ job[j].kind = "extract" => Plan(job[j], ext[j])
  BY DEF JobsIInv, Ordered, JobOk
<1> HIDE DEF q
<1>4. Life(q)
  BY <1>1, <1>2, <1>3 DEF Life
<1>5. q.kind = "extract" => Quiet(q, ext[j]) /\ Plan(q, ext[j])
  BY <1>1, <1>2, <1>3 DEF Quiet, Plan, Life
<1> QED BY <1>1, <1>2, <1>4, <1>5, OnlyMoves

LEMMA CleanMoves ==
  ASSUME JobsIInv, NEW j \in Jobs, QueueOnly(Clean(j))
  PROVE  Ordered'
<1>1. /\ Life(job[j])
      /\ job[j].kind = "extract" => Plan(job[j], ext[j]) /\ Quiet(job[j], ext[j])
  BY DEF JobsIInv, Ordered, JobOk
<1>2. PICK q : /\ OnlyJob(j, q) /\ job[j].pc = "clean"
               /\ \/ q = [job[j] EXCEPT !.pc = "settle"]
                  \/ q = [job[j] EXCEPT !.pc = "settle", !.outcome = "failed"]
  BY DEF OnlyJob, Clean, Goto, QueueOnly
<1>3. /\ DOMAIN q = JobFields /\ q.kind = job[j].kind /\ q.pc = "settle"
      /\ q.state = job[j].state /\ q.outcome \in {job[j].outcome, "failed"}
  BY <1>2 DEF JobsIInv, Shape, JobFields
<1>4. Life(q)
  BY <1>1, <1>2, <1>3 DEF Life
<1>5. q.kind = "extract" => Quiet(q, ext[j]) /\ Plan(q, ext[j])
  BY <1>1, <1>2, <1>3 DEF Quiet, Plan
<1> QED BY <1>2, <1>3, <1>4, <1>5, OnlyMoves

LEMMA SettleMoves ==
  ASSUME JobsIInv, NEW j \in Jobs, QueueOnly(Settle(j))
  PROVE  Ordered'
<1> DEFINE q == [job[j] EXCEPT !.state = job[j].outcome, !.pc = "off"]
<1>1. /\ Life(job[j])
      /\ job[j].kind = "extract" => Plan(job[j], ext[j]) /\ Quiet(job[j], ext[j])
  BY DEF JobsIInv, Ordered, JobOk
<1>2. OnlyJob(j, q) /\ job[j].pc = "settle"
  BY DEF OnlyJob, Settle, QueueOnly
<1>3. /\ DOMAIN q = JobFields /\ q.kind = job[j].kind /\ q.pc = "off"
      /\ q.state = job[j].outcome /\ q.outcome = job[j].outcome
  BY DEF JobsIInv, Shape, JobFields
<1> HIDE DEF q
<1>4. Life(q)
  BY <1>1, <1>2, <1>3 DEF Life
<1>5. q.kind = "extract" => Quiet(q, ext[j]) /\ Plan(q, ext[j])
  BY <1>1, <1>2, <1>3 DEF Quiet, Plan
<1> QED BY <1>2, <1>3, <1>4, <1>5, OnlyMoves

LEMMA CancelMoves ==
  ASSUME JobsIInv, NEW j \in Jobs, Cancel(j)
  PROVE  Ordered'
<1>1. CASE CancelLook(j) \/ CancelFlag(j)
  BY <1>1, NoMoves DEF CancelLook, CancelFlag, Cancel, QueueOnly
<1>2. CASE CancelRemove(j)
  <2> DEFINE q == [job[j] EXCEPT !.state = IF @ = "waiting" THEN "removed" ELSE @]
  <2>1. /\ Life(job[j])
        /\ job[j].kind = "extract" => Plan(job[j], ext[j]) /\ Quiet(job[j], ext[j])
    BY DEF JobsIInv, Ordered, JobOk
  <2>2. OnlyJob(j, q)
    BY <1>2 DEF OnlyJob, CancelRemove, Cancel, QueueOnly
  <2>3. /\ DOMAIN q = JobFields /\ q.kind = job[j].kind /\ q.pc = job[j].pc
        /\ q.state = (IF job[j].state = "waiting" THEN "removed" ELSE job[j].state)
        /\ q.outcome = job[j].outcome
    BY DEF JobsIInv, Shape, JobFields
  <2> HIDE DEF q
  <2>4. Life(q)
    BY <2>1, <2>2, <2>3 DEF Life
  <2>5. q.kind = "extract" => Quiet(q, ext[j]) /\ Plan(q, ext[j])
    BY <2>1, <2>2, <2>3 DEF Quiet, Plan
  <2> QED BY <2>2, <2>3, <2>4, <2>5, OnlyMoves
<1> QED BY <1>1, <1>2 DEF Cancel, QueueOnly, ExtractCancel, CreateCancel

-----------------------------------------------------------------------------
(* Requests, crashes, and the other kinds of jobs                          *)

LEMMA ArrivalMoves ==
  ASSUME JobsIInv, NEW j \in Jobs, NEW kind \in {"extract", "create", "mkdir"},
         Enqueue(j, kind), files' = files,
         \A i \in Jobs \ {j} : ext'[i] = ext[i],
         \/ kind # "extract" /\ ext'[j] = ext[j]
         \/ \E req : /\ ext'[j] = NewRun(req)
                     /\ req.strategy \in {"fail", "skip", "replace", "keepBoth"}
  PROVE  Ordered'
<1> DEFINE q == [job[j] EXCEPT !.kind = kind, !.state = "waiting"]
<1>1. /\ JobOk(j, job[j], ext[j], files) /\ job[j].state = "none"
      /\ job' = [job EXCEPT ![j] = q]
  BY DEF JobsIInv, Ordered, Enqueue
<1>2. /\ q.kind = kind /\ q.state = "waiting" /\ q.pc = job[j].pc
      /\ q.outcome = job[j].outcome
      /\ job'[j] = q /\ \A i \in Jobs \ {j} : job'[i] = job[i]
  BY <1>1 DEF JobsIInv, Shape, JobFields
<1> HIDE DEF q
<1>3. /\ Life(job[j]) /\ job[j].kind = "none" /\ job[j].pc = "off"
      /\ job[j].outcome = "none" /\ ext[j].flying = {}
  BY <1>1 DEF JobOk, Life
<1>4. Life(q)
  BY <1>1, <1>2, <1>3 DEF Life
<1>5. \A k \in DOMAIN files : files[k][1] # j
  BY <1>1, <1>3 DEF JobOk, WrittenBy
<1>6. \A newFolder : WrittenBy(j, q.kind, newFolder, files')
  BY <1>5 DEF WrittenBy
<1>7. ext'[j].flying = {}
  <2>1. CASE ext'[j] = ext[j]
    BY <1>3, <2>1
  <2>2. CASE \E req : ext'[j] = NewRun(req)
    <3>1. PICK req : ext'[j] = NewRun(req)
      BY <2>2
    <3>2. NewRun(req).flying = {}
      BY DEF NewRun
    <3> QED BY <3>1, <3>2
  <2> QED BY <2>1, <2>2
<1>8. q.kind = "extract" =>
         Quiet(q, ext'[j]) /\ Plan(q, ext'[j]) /\ Flight(j, ext'[j], files')
  <2> SUFFICES ASSUME q.kind = "extract"
               PROVE  Quiet(q, ext'[j]) /\ Plan(q, ext'[j]) /\ Flight(j, ext'[j], files')
    OBVIOUS
  <2>1. PICK req : /\ ext'[j] = NewRun(req)
                   /\ req.strategy \in {"fail", "skip", "replace", "keepBoth"}
    BY <1>2
  <2>2. /\ ext'[j].strategy = req.strategy /\ ext'[j].mode = "none"
        /\ ext'[j].newFolder = req.newFolder
        /\ ext'[j].dir = (IF req.newFolder THEN 1 ELSE 0)
    BY <2>1 DEF NewRun
  <2>3. Plan(q, ext'[j])
    BY <1>2, <1>3, <2>1, <2>2 DEF Plan
  <2> QED BY <1>7, <2>2, <2>3 DEF Quiet, Flight, Claims
<1>9. JobOk(j, q, ext'[j], files')
  BY <1>4, <1>6, <1>7, <1>8 DEF JobOk
<1> QED BY <1>2, <1>9, OneJob, Unwritten

LEMMA RequestMoves ==
  ASSUME JobsIInv, JobsAssumptions, NEW j \in Jobs, Request(j)
  PROVE  Ordered'
<1> DEFINE r == workload[j]
<1>1. /\ workload \in Workloads /\ j \in DOMAIN workload
      /\ r.kind = "extract" => r.strategy \in {"fail", "skip", "replace", "keepBoth"}
  BY DEF JobsIInv, Shape, Request, JobsAssumptions, WorkloadAssumption
<1>2. DOMAIN ext = Jobs
  BY DEF JobsIInv, Shape
<1>3. CASE r.kind = "extract" /\ ExtractOnly(ExtractStart(j, r))
  <2>1. /\ Enqueue(j, "extract") /\ files' = files /\ ext' = [ext EXCEPT ![j] = NewRun(r)]
    BY <1>3 DEF ExtractOnly, ExtractStart
  <2>2. ext'[j] = NewRun(r) /\ \A i \in Jobs \ {j} : ext'[i] = ext[i]
    BY <1>2, <2>1
  <2> HIDE DEF r
  <2> QED BY <1>1, <1>3, <2>1, <2>2, ArrivalMoves
<1>4. CASE r.kind = "create" /\ CreateOnly(CreateStart(j, r.keys, r.format))
  <2>1. Enqueue(j, "create") /\ files' = files /\ ext' = ext
    BY <1>4 DEF CreateOnly, CreateStart
  <2> QED BY <2>1, ArrivalMoves
<1>5. CASE r.kind = "mkdir" /\ DirectoryStart(j, r.dir, r.strategy)
  <2>1. Enqueue(j, "mkdir") /\ files' = files /\ ext' = ext
    BY <1>5 DEF DirectoryStart
  <2> QED BY <2>1, ArrivalMoves
<1> QED BY <1>3, <1>4, <1>5 DEF Request

LEMMA CrashMoves ==
  ASSUME JobsIInv, ProcessDies
  PROVE  Ordered'
<1> SUFFICES ASSUME NEW j \in Jobs PROVE JobOk(j, job'[j], ext'[j], files')
  BY DEF Ordered
<1> DEFINE q == job'[j]
           x == [ext[j] EXCEPT !.flying = {}]
<1>1. JobOk(j, job[j], ext[j], files) /\ files' = files /\ ext'[j] = x
  BY DEF JobsIInv, Ordered, ProcessDies, Crash
<1>2. /\ x.flying = {} /\ x.strategy = ext[j].strategy /\ x.mode = ext[j].mode
      /\ x.newFolder = ext[j].newFolder /\ x.dir = ext[j].dir /\ x.seen = ext[j].seen
      /\ x.claimed = ext[j].claimed
  BY DEF JobsIInv, Shape, RunFields
<1>3. \/ q = job[j]
      \/ /\ q.kind = job[j].kind /\ q.pc = "off" /\ q.outcome = "none"
         /\ q.state \in {"waiting", "failed"} /\ job[j].state = "active"
  BY DEF JobsIInv, Shape, JobFields, ProcessDies, Crash
<1> HIDE DEF q, x
<1>4. Life(q) /\ WrittenBy(j, q.kind, x.newFolder, files)
  BY <1>1, <1>2, <1>3 DEF JobOk, Life
<1>5. ASSUME q.kind = "extract"
      PROVE  Quiet(q, x) /\ Plan(q, x) /\ Flight(j, x, files)
  <2>1. Plan(job[j], ext[j]) /\ Flight(j, ext[j], files)
    BY <1>1, <1>3, <1>5 DEF JobOk
  <2>2. Plan(q, x)
    BY <1>2, <1>3, <2>1 DEF Plan
  <2>3. Claims(j, x, files)
    BY <1>2, <2>1 DEF Flight, Claims
  <2> QED BY <1>2, <2>2, <2>3 DEF Quiet, Flight
<1> QED BY <1>1, <1>2, <1>4, <1>5 DEF JobOk, q

LEMMA PutOthers ==
  ASSUME NEW key, NEW writer, NEW what, NEW j, PutObject(key, writer, what), writer # j
  PROVE  NothingOf(j)
<1>1. <<writer, what>>[1] = writer
  OBVIOUS
<1> QED BY <1>1 DEF PutObject, NothingOf

LEMMA UserMoves ==
  ASSUME JobsIInv, NEW k, QueueOnly(UserPut(k))
  PROVE  Ordered'
<1> SUFFICES ASSUME NEW j \in Jobs PROVE JobOk(j, job'[j], ext'[j], files')
  BY DEF Ordered
<1>1. /\ JobOk(j, job[j], ext[j], files) /\ job' = job /\ ext' = ext
      /\ PutObject(k, User, outside)
  BY DEF JobsIInv, Ordered, UserPut, QueueOnly
<1> QED BY <1>1, NoUserJob, PutOthers, Bystander

LEMMA DirectoryMoves ==
  ASSUME JobsIInv, NEW j \in Jobs, CreateDirectory(j)
  PROVE  Ordered'
<1> DEFINE q == [job[j] EXCEPT !.pc = "tell"]
<1>1. /\ JobOk(j, job[j], ext[j], files) /\ job[j].kind = "mkdir" /\ job[j].pc = "begin"
      /\ job' = [job EXCEPT ![j] = q] /\ ext' = ext
      /\ PutObject(<<target[j], Placeholder>>, j, 0)
  BY DEF JobsIInv, Ordered, CreateDirectory, At, Goto
<1>2. /\ q.kind = "mkdir" /\ q.pc = "tell" /\ q.state = job[j].state
      /\ q.outcome = job[j].outcome /\ job'[j] = q
      /\ \A i \in Jobs \ {j} : job'[i] = job[i]
  BY <1>1, JobShape DEF JobsIInv, Shape
<1> HIDE DEF q
<1>3. Life(q)
  BY <1>1, <1>2 DEF JobOk, Life
<1>4. WrittenBy(j, q.kind, ext[j].newFolder, files') /\ ext[j].flying = {}
  BY <1>1, <1>2 DEF WrittenBy, JobOk
<1>5. JobOk(j, job'[j], ext'[j], files')
  BY <1>1, <1>2, <1>3, <1>4 DEF JobOk
<1>6. \A i \in Jobs \ {j} : NothingOf(i)
  BY <1>1, PutOthers
<1> QED BY <1>1, <1>2, <1>5, <1>6, OneJob

\* The other steps of jobs that are no extractions.
LEMMA PlainMoves ==
  ASSUME JobsIInv, NEW j \in Jobs,
         \/ CreateOnly(CreateSteps(j) \/ CreateBreaks(j))
         \/ TellDirectory(j) \/ DirectoryBreaks(j)
  PROVE  Ordered'
<1>1. /\ job[j].kind # "extract" /\ UNCHANGED <<files, ext>>
      /\ job[j].pc \notin {"off", "clean", "settle"}
      /\ \/ \E pc \in {"expand", "pack", "tell"} : Goto(j, pc)
         \/ \E event : \E outcome \in {"completed", "failed"} : Outcome(j, event, outcome)
  <2>1. CASE TellDirectory(j) \/ DirectoryBreaks(j)
    BY <2>1 DEF TellDirectory, DirectoryBreaks, At, Tell, Throw
  <2>2. CASE CreateOnly(CreateSteps(j) \/ CreateBreaks(j))
    BY <2>2 DEF CreateOnly, CreateSteps, CreateBreaks, ReadMarks, Expand, EntriesResolved,
       PackEntry, CancelZip, CancelTar, StoreArchive, TellCreated, CreatePc, CreateFails,
       At, Tell, Throw
  <2> QED BY <2>1, <2>2
<1>2. CASE \E pc \in {"expand", "pack", "tell"} : Goto(j, pc)
  BY <1>1, <1>2, GotoMoves
<1>3. CASE \E event : \E outcome \in {"completed", "failed"} : Outcome(j, event, outcome)
  BY <1>1, <1>3, OutcomeMoves
<1> QED BY <1>1, <1>2, <1>3

-----------------------------------------------------------------------------
(* Extractions                                                             *)

LEMMA RunMoves ==
  ASSUME JobsIInv, NEW j \in Jobs, NEW q, NEW x,
         job'[j] = q, ext'[j] = x, files' = files,
         \A i \in Jobs \ {j} : job'[i] = job[i] /\ ext'[i] = ext[i],
         q.kind = "extract", job[j].kind = "extract", Life(q),
         x.newFolder = ext[j].newFolder,
         Quiet(q, x), Plan(q, x), Flight(j, x, files)
  PROVE  Ordered'
<1>1. JobOk(j, job[j], ext[j], files)
  BY DEF JobsIInv, Ordered
<1>2. JobOk(j, q, x, files')
  BY <1>1 DEF JobOk
<1> QED BY <1>2, OneJob, Unwritten

\* Where a step goes on that changes the run.
LEMMA PcMoves ==
  ASSUME JobsIInv, NEW j \in Jobs, NEW pc, NEW x, OnlyPc(j, pc),
         ext' = [ext EXCEPT ![j] = x],
         job[j].kind = "extract", job[j].pc \notin {"off", "clean", "settle"},
         pc \notin {"off", "clean", "settle", "tell"},
         x.newFolder = ext[j].newFolder,
         Plan([job[j] EXCEPT !.pc = pc], x), Flight(j, x, files)
  PROVE  Ordered'
<1> DEFINE q == [job[j] EXCEPT !.pc = pc]
<1>1. /\ job' = [job EXCEPT ![j] = q] /\ files' = files
  BY DEF OnlyPc, Goto
<1>2. /\ job'[j] = q /\ ext'[j] = x
      /\ \A i \in Jobs \ {j} : job'[i] = job[i] /\ ext'[i] = ext[i]
  BY <1>1 DEF JobsIInv, Shape
<1>3. q.kind = "extract" /\ q.pc = pc /\ q.state = job[j].state /\ q.outcome = job[j].outcome
  BY JobShape DEF JobsIInv
<1>4. Life(job[j])
  BY DEF JobsIInv, Ordered, JobOk
<1> HIDE DEF q
<1>5. Life(q) /\ Quiet(q, x)
  BY <1>3, <1>4 DEF Life, Quiet
<1> QED BY <1>1, <1>2, <1>3, <1>5, RunMoves DEF q

LEMMA StayMoves ==
  ASSUME JobsIInv, NEW j \in Jobs, NEW x, UNCHANGED <<job, files>>,
         ext' = [ext EXCEPT ![j] = x], job[j].kind = "extract",
         x.newFolder = ext[j].newFolder,
         Quiet(job[j], x), Plan(job[j], x), Flight(j, x, files)
  PROVE  Ordered'
<1>1. /\ job' = job /\ ext'[j] = x /\ \A i \in Jobs \ {j} : ext'[i] = ext[i]
  BY DEF JobsIInv, Shape
<1>2. Life(job[j])
  BY DEF JobsIInv, Ordered, JobOk
<1> QED BY <1>1, <1>2, RunMoves

LEMMA FailMoves ==
  ASSUME JobsIInv, NEW j \in Jobs, Throw(j), UNCHANGED <<files, ext>>,
         job[j].pc \notin {"off", "clean", "settle"}
  PROVE  Ordered'
  BY OutcomeMoves DEF Throw

LEMMA RunShape ==
  ASSUME JobsIInv, NEW j \in Jobs, job[j].kind = "extract"
  PROVE  /\ DOMAIN ext[j] = RunFields
         /\ Life(job[j]) /\ Quiet(job[j], ext[j]) /\ Plan(job[j], ext[j])
         /\ Flight(j, ext[j], files)
         /\ WrittenBy(j, "extract", ext[j].newFolder, files)
  BY DEF JobsIInv, Shape, Ordered, JobOk

-----------------------------------------------------------------------------
(* The target is resolved                                                  *)

LEMMA BeginMoves ==
  ASSUME JobsIInv, NEW j \in Jobs, BeginExtract(j)
  PROVE  Ordered'
<1> DEFINE x == NewRun(ext[j])
           pc == IF ext[j].newFolder THEN "probe"
                 ELSE IF ext[j].strategy = "replace" THEN "entries" ELSE "list"
           q == [job[j] EXCEPT !.pc = pc]
<1>1. /\ job[j].kind = "extract" /\ job[j].pc = "begin" /\ OnlyPc(j, pc)
      /\ ext' = [ext EXCEPT ![j] = x]
  BY DEF BeginExtract, At
<1>2. Plan(job[j], ext[j]) /\ q.pc = pc
  BY <1>1, RunShape, JobShape DEF JobsIInv
<1>3. /\ x.strategy = ext[j].strategy /\ x.newFolder = ext[j].newFolder
      /\ x.dir = (IF ext[j].newFolder THEN 1 ELSE 0) /\ x.mode = "none"
      /\ x.seen = {} /\ x.claimed = {} /\ x.flying = {}
  BY DEF NewRun
<1>4. pc \in {"probe", "entries", "list"}
      /\ (pc = "probe" => ext[j].newFolder)
      /\ (pc = "list" => ~ext[j].newFolder /\ ext[j].strategy # "replace")
      /\ (pc = "entries" => ext[j].strategy = "replace")
  OBVIOUS
<1> HIDE DEF x, pc
<1>5. Plan(q, x)
  BY <1>2, <1>3, <1>4 DEF Plan
<1>6. Flight(j, x, files)
  BY <1>3 DEF Flight, Claims
<1> QED BY <1>1, <1>3, <1>4, <1>5, <1>6, PcMoves

LEMMA OverwriteMoves ==
  ASSUME JobsIInv, NEW j \in Jobs, At(j, "extract", "probe"), Overwrites(j),
         ext[j].strategy # "replace" => KeysIn(ext[j].dir) = {}
  PROVE  Ordered'
<1> DEFINE x == [ext[j] EXCEPT !.mode = "overwrite", !.seen = KeysIn(ext[j].dir)]
           q == [job[j] EXCEPT !.pc = "entries"]
<1>1. /\ job[j].kind = "extract" /\ job[j].pc = "probe" /\ OnlyPc(j, "entries")
      /\ ext' = [ext EXCEPT ![j] = x]
  BY DEF Overwrites, At
<1>2. /\ Plan(job[j], ext[j]) /\ DOMAIN ext[j] = RunFields /\ q.pc = "entries"
  BY <1>1, RunShape, JobShape DEF JobsIInv
<1>3. /\ x.strategy = ext[j].strategy /\ x.newFolder = ext[j].newFolder
      /\ x.dir = ext[j].dir /\ x.mode = "overwrite" /\ x.seen = KeysIn(ext[j].dir)
      /\ x.claimed = ext[j].claimed /\ x.flying = ext[j].flying
  BY <1>2 DEF RunFields
<1> HIDE DEF x, q
<1>4. Plan(q, x)
  BY <1>1, <1>2, <1>3 DEF Plan
<1>5. Flight(j, x, files)
  BY <1>1, <1>2, <1>3 DEF Plan, Flight, Claims
<1> QED BY <1>1, <1>3, <1>4, <1>5, PcMoves DEF q

LEMMA ProbeMoves ==
  ASSUME JobsIInv, NEW j \in Jobs, ProbeTaken(j) \/ ProbeFree(j)
  PROVE  Ordered'
<1>1. At(j, "extract", "probe") /\ job[j].kind = "extract" /\ job[j].pc = "probe"
  BY DEF ProbeTaken, ProbeFree, At
<1>2. /\ Plan(job[j], ext[j]) /\ Flight(j, ext[j], files) /\ Quiet(job[j], ext[j])
      /\ DOMAIN ext[j] = RunFields
      /\ ext[j].strategy \in {"fail", "skip", "replace", "keepBoth"}
  BY <1>1, RunShape DEF Plan
<1>3. CASE ProbeFree(j)
  BY <1>1, <1>3, OverwriteMoves DEF ProbeFree
<1>4. CASE ProbeTaken(j) /\ ext[j].strategy = "replace"
  BY <1>1, <1>4, OverwriteMoves DEF ProbeTaken
<1>5. CASE ProbeTaken(j) /\ (ext[j].strategy = "fail" \/ ext[j].dir > MaxCopies)
           /\ Throw(j) /\ UNCHANGED <<files, ext>>
  BY <1>1, <1>5, FailMoves
<1>6. CASE ProbeTaken(j) /\ ext[j].strategy = "skip"
  <2> DEFINE q == [job[j] EXCEPT !.pc = "list"]
  <2>1. /\ Goto(j, "list") /\ UNCHANGED <<files, ext>>
    BY <1>6 DEF ProbeTaken, OnlyPc
  <2>2. q.pc = "list" /\ q.outcome = job[j].outcome
    BY JobShape DEF JobsIInv
  <2>3. Quiet(q, ext[j]) /\ Plan(q, ext[j])
    BY <1>1, <1>2, <1>6, <2>2 DEF Plan, Quiet
  <2> HIDE DEF q
  <2> QED BY <1>1, <2>1, <2>3, GotoMoves DEF q
<1>7. CASE ProbeTaken(j) /\ ext[j].strategy = "keepBoth" /\ ~(ext[j].dir > MaxCopies)
  <2> DEFINE x == [ext[j] EXCEPT !.dir = @ + 1]
             q == [job[j] EXCEPT !.pc = "probe"]
  <2>1. OnlyPc(j, "probe") /\ ext' = [ext EXCEPT ![j] = x]
    BY <1>7 DEF ProbeTaken, TryNextPrefix
  <2>2. /\ x.strategy = ext[j].strategy /\ x.newFolder = ext[j].newFolder
        /\ x.mode = ext[j].mode /\ x.seen = ext[j].seen
        /\ x.claimed = ext[j].claimed /\ x.flying = ext[j].flying
        /\ q.pc = "probe"
    BY <1>2, JobShape DEF RunFields, JobsIInv
  <2> HIDE DEF x, q
  <2>3. Plan(q, x) /\ Flight(j, x, files)
    BY <1>1, <1>2, <2>2 DEF Plan, Flight, Claims
  <2> QED BY <1>1, <2>1, <2>2, <2>3, PcMoves DEF q
<1>8. ProbeTaken(j) /\ ext[j].strategy = "fail" => Throw(j) /\ UNCHANGED <<files, ext>>
  BY DEF ProbeTaken, Fails
<1>9. ProbeTaken(j) /\ ext[j].strategy = "keepBoth" /\ ext[j].dir > MaxCopies
        => Throw(j) /\ UNCHANGED <<files, ext>>
  BY DEF ProbeTaken, TryNextPrefix, Fails
<1> QED BY <1>2, <1>3, <1>4, <1>5, <1>6, <1>7, <1>8, <1>9

LEMMA ListMoves ==
  ASSUME JobsIInv, NEW j \in Jobs, ListExisting(j)
  PROVE  Ordered'
<1> DEFINE x == [ext[j] EXCEPT !.mode = ext[j].strategy, !.seen = KeysIn(ext[j].dir)]
           q == [job[j] EXCEPT !.pc = "entries"]
<1>1. /\ job[j].kind = "extract" /\ job[j].pc = "list" /\ OnlyPc(j, "entries")
      /\ ext' = [ext EXCEPT ![j] = x]
  BY DEF ListExisting, At
<1>2. /\ Plan(job[j], ext[j]) /\ DOMAIN ext[j] = RunFields /\ q.pc = "entries"
      /\ WrittenBy(j, "extract", ext[j].newFolder, files)
  BY <1>1, RunShape, JobShape DEF JobsIInv
<1>3. /\ x.strategy = ext[j].strategy /\ x.newFolder = ext[j].newFolder
      /\ x.dir = ext[j].dir /\ x.mode = ext[j].strategy /\ x.seen = KeysIn(ext[j].dir)
      /\ x.claimed = ext[j].claimed /\ x.flying = ext[j].flying
  BY <1>2 DEF RunFields
<1> HIDE DEF x, q
<1>4. Plan(q, x)
  BY <1>1, <1>2, <1>3 DEF Plan
<1>5. ASSUME x.mode = "keepBoth", NEW k \in DOMAIN files, files[k][1] = j
      PROVE  k \in x.seen
  <2>1. ~ext[j].newFolder /\ ext[j].dir = 0
    BY <1>1, <1>2, <1>3, <1>5 DEF Plan
  <2>2. k[1] = 0
    BY <1>2, <1>5, <2>1 DEF WrittenBy
  <2> QED BY <1>3, <2>1, <2>2 DEF KeysIn
<1>6. Flight(j, x, files)
  BY <1>1, <1>2, <1>3, <1>5 DEF Plan, Flight, Claims
<1> QED BY <1>1, <1>3, <1>4, <1>6, PcMoves DEF q

-----------------------------------------------------------------------------
(* Entries                                                                 *)

LEMMA FirstCopyIsFree ==
  ASSUME NEW key, NEW taken
  PROVE  \A c \in FirstCopy(key, taken) : c \notin taken /\ c[1] = key[1]
<1> TAKE c \in FirstCopy(key, taken)
<1>1. PICK n : c = Copy(key, n) /\ Copy(key, n) \notin taken
  BY DEF FirstCopy
<1>2. Copy(key, n)[1] = key[1]
  BY DEF Copy
<1> QED BY <1>1, <1>2

\* An entry is written where nothing was that the job must keep.
LEMMA TargetIsFree ==
  ASSUME NEW j \in Jobs, Plan(job[j], ext[j]), job[j].pc = "entries", ~Stays(j)
  PROVE  \A key \in Target(j) :
            /\ key[1] = ext[j].dir
            /\ ext[j].strategy # "replace" => key \notin ext[j].seen
            /\ ext[j].mode = "keepBoth" /\ Entry(j) \notin FolderEntries
                 => key \notin ext[j].seen \cup ext[j].claimed
            /\ ext[j].mode = "keepBoth" /\ Entry(j) \in FolderEntries
                 => key[2] \in FolderEntries
<1>1. Key(j)[1] = ext[j].dir /\ Key(j)[2] = Entry(j)
  BY DEF Key
<1>2. CASE ext[j].mode = "fail"
  <2>1. Target(j) = {Key(j)} \ ext[j].seen
    BY <1>2 DEF Target
  <2> QED BY <1>1, <1>2, <2>1
<1>3. CASE ext[j].mode = "keepBoth" /\ Entry(j) \notin FolderEntries
           /\ Key(j) \in ext[j].seen \cup ext[j].claimed
  <2>1. Target(j) = FirstCopy(Key(j), ext[j].seen \cup ext[j].claimed)
    BY <1>3 DEF Target, NextAvailableEntryKey
  <2> QED BY <1>1, <1>3, <2>1, FirstCopyIsFree
<1>4. CASE ext[j].mode = "keepBoth" /\ Entry(j) \notin FolderEntries
           /\ Key(j) \notin ext[j].seen \cup ext[j].claimed
  <2>1. Target(j) = {Key(j)}
    BY <1>4 DEF Target
  <2> QED BY <1>1, <1>4, <2>1
<1>5. CASE ext[j].mode = "keepBoth" /\ Entry(j) \in FolderEntries
  <2>1. Target(j) = {Key(j)}
    BY <1>5 DEF Target
  <2> QED BY <1>1, <1>5, <2>1 DEF Stays
<1>6. CASE ext[j].mode \in {"none", "overwrite", "skip"}
  <2>1. Target(j) = {Key(j)}
    BY <1>6 DEF Target
  <2> QED BY <1>1, <1>6, <2>1 DEF Stays, Plan
<1> QED BY <1>2, <1>3, <1>4, <1>5, <1>6 DEF Plan

LEMMA UploadMoves ==
  ASSUME JobsIInv, NEW j \in Jobs, At(j, "extract", "entries"), ~Stays(j),
         NEW whole, UploadEntry(j, whole)
  PROVE  Ordered'
<1>1. PICK key \in Target(j) :
         LET up == [entry |-> ext[j].next, key |-> key, whole |-> whole] IN
         /\ ext' = [ext EXCEPT
              ![j].next = @ + 1, ![j].handled = @ + 1, ![j].flying = @ \cup {up},
              ![j].claimed = IF ext[j].mode = "keepBoth" /\ Entry(j) \notin FolderEntries
                               THEN @ \cup {key} ELSE @]
         /\ OnlyPc(j, IF Cardinality(ext[j].flying) + 1 >= EntryConcurrency
                       THEN "race" ELSE "entries")
  BY DEF UploadEntry
<1> DEFINE up == [entry |-> ext[j].next, key |-> key, whole |-> whole]
           files0 == Entry(j) \notin FolderEntries
           x == [ext[j] EXCEPT !.next = @ + 1, !.handled = @ + 1, !.flying = @ \cup {up},
                               !.claimed = IF ext[j].mode = "keepBoth" /\ files0
                                             THEN @ \cup {key} ELSE @]
<1>2. PICK pc \in {"race", "entries"} : OnlyPc(j, pc)
  BY <1>1
<1> DEFINE q == [job[j] EXCEPT !.pc = pc]
<1>3. ext' = [ext EXCEPT ![j] = x] /\ job[j].kind = "extract" /\ job[j].pc = "entries"
  BY <1>1 DEF At
<1>4. /\ Plan(job[j], ext[j]) /\ Flight(j, ext[j], files) /\ DOMAIN ext[j] = RunFields
      /\ q.pc = pc
  BY <1>3, RunShape, JobShape DEF JobsIInv
<1>5. /\ x.strategy = ext[j].strategy /\ x.newFolder = ext[j].newFolder
      /\ x.dir = ext[j].dir /\ x.mode = ext[j].mode /\ x.seen = ext[j].seen
      /\ x.claimed = (IF ext[j].mode = "keepBoth" /\ files0
                        THEN ext[j].claimed \cup {key} ELSE ext[j].claimed)
      /\ x.flying = ext[j].flying \cup {up}
  BY <1>4 DEF RunFields
<1>6. up.key = key
  OBVIOUS
<1>7. /\ key[1] = ext[j].dir
      /\ ext[j].strategy # "replace" => key \notin ext[j].seen
      /\ ext[j].mode = "keepBoth" /\ files0 => key \notin ext[j].seen \cup ext[j].claimed
      /\ ext[j].mode = "keepBoth" /\ ~files0 => key[2] \in FolderEntries
  BY <1>3, <1>4, TargetIsFree
<1> HIDE DEF x, up, q, files0
<1>8. Plan(q, x)
  BY <1>3, <1>4, <1>5 DEF Plan
<1>9. \A u \in x.flying : /\ u.key[1] = x.dir
                          /\ x.strategy # "replace" => u.key \notin x.seen
  BY <1>4, <1>5, <1>6, <1>7 DEF Flight
<1>10. ASSUME x.mode = "keepBoth"
       PROVE  /\ \A k \in DOMAIN files :
                    files[k][1] = j /\ k[2] \notin FolderEntries => k \in x.seen \cup x.claimed
              /\ \A u \in x.flying : u.key[2] \notin FolderEntries =>
                    /\ u.key \in x.claimed
                    /\ u.key \in DOMAIN files => files[u.key][1] # j
                    /\ \A other \in x.flying : other.key = u.key => other = u
  <2>1. Claims(j, ext[j], files) /\ ext[j].mode = "keepBoth"
        /\ ext[j].claimed \subseteq x.claimed
    BY <1>4, <1>5, <1>10 DEF Flight
  <2>2. \A k \in DOMAIN files :
           files[k][1] = j /\ k[2] \notin FolderEntries => k \in x.seen \cup x.claimed
    BY <1>5, <2>1 DEF Claims
  <2>3. ASSUME key[2] \notin FolderEntries
        PROVE  /\ key \in x.claimed
               /\ key \in DOMAIN files => files[key][1] # j
               /\ \A other \in ext[j].flying : other.key # key
    BY <1>5, <1>7, <2>1, <2>3 DEF Claims
  <2>4. \A u \in ext[j].flying : u.key[2] \notin FolderEntries =>
                    /\ u.key \in x.claimed
                    /\ u.key \in DOMAIN files => files[u.key][1] # j
                    /\ \A other \in ext[j].flying : other.key = u.key => other = u
    BY <2>1 DEF Claims
  <2> QED BY <1>5, <1>6, <2>2, <2>3, <2>4
<1>11. Flight(j, x, files)
  BY <1>9, <1>10 DEF Flight, Claims
<1> QED BY <1>2, <1>3, <1>5, <1>8, <1>11, PcMoves DEF q

\* A step of the loop that sets no upload out.
LEMMA PassMoves ==
  ASSUME JobsIInv, NEW j \in Jobs, NEW x, At(j, "extract", "entries"),
         UNCHANGED <<job, files>>, ext' = [ext EXCEPT ![j] = x],
         \A f \in {"strategy", "newFolder", "dir", "mode", "seen", "claimed", "flying"} :
            x[f] = ext[j][f]
  PROVE  Ordered'
<1>1. /\ x.strategy = ext[j].strategy /\ x.newFolder = ext[j].newFolder
      /\ x.dir = ext[j].dir /\ x.mode = ext[j].mode /\ x.seen = ext[j].seen
      /\ x.claimed = ext[j].claimed /\ x.flying = ext[j].flying
  OBVIOUS
<1>2. /\ job[j].kind = "extract" /\ Plan(job[j], ext[j]) /\ Quiet(job[j], ext[j])
      /\ Flight(j, ext[j], files)
  BY RunShape DEF At
<1>3. Quiet(job[j], x) /\ Plan(job[j], x) /\ Flight(j, x, files)
  BY <1>1, <1>2 DEF Quiet, Plan, Flight, Claims
<1> QED BY <1>1, <1>2, <1>3, StayMoves

LEMMA EntryMoves ==
  ASSUME JobsIInv, NEW j \in Jobs, At(j, "extract", "entries"), NEW whole,
         HandleEntry(j, whole)
  PROVE  Ordered'
<1>1. DOMAIN ext[j] = RunFields
  BY DEF JobsIInv, Shape
<1>2. CASE Throw(j) /\ UNCHANGED <<files, ext>>
  BY <1>2, FailMoves DEF At
<1>3. CASE ext' = [ext EXCEPT ![j].next = @ + 1] /\ UNCHANGED queueVars
  <2> DEFINE x == [ext[j] EXCEPT !.next = @ + 1]
  <2>1. \A f \in {"strategy", "newFolder", "dir", "mode", "seen", "claimed", "flying"} :
           x[f] = ext[j][f]
    BY <1>1 DEF RunFields
  <2> QED BY <1>3, <2>1, PassMoves DEF queueVars
<1>4. CASE ~Stays(j) /\ UploadEntry(j, whole)
  BY <1>4, UploadMoves
<1>5. CASE LeaveEntry(j)
  <2> DEFINE x == [ext[j] EXCEPT !.next = @ + 1, !.handled = @ + 1,
                                 !.done = @ \cup {ext[j].next}]
  <2>1. \A f \in {"strategy", "newFolder", "dir", "mode", "seen", "claimed", "flying"} :
           x[f] = ext[j][f]
    BY <1>1 DEF RunFields
  <2> QED BY <1>5, <2>1, PassMoves DEF queueVars, LeaveEntry
<1>6. CASE RefuseEntry(j)
  <2> DEFINE x == [ext[j] EXCEPT !.next = @ + 1, !.handled = @ + 1, !.stalled = TRUE]
  <2>1. \A f \in {"strategy", "newFolder", "dir", "mode", "seen", "claimed", "flying"} :
           x[f] = ext[j][f]
    BY <1>1 DEF RunFields
  <2>2. CASE ext' = [ext EXCEPT ![j] = x] /\ UNCHANGED queueVars
    BY <2>1, <2>2, PassMoves DEF queueVars
  <2>3. CASE Fails(j) /\ UNCHANGED ext
    BY <1>2, <2>3 DEF Fails
  <2> QED BY <1>6, <2>2, <2>3 DEF RefuseEntry
<1> QED BY <1>2, <1>3, <1>4, <1>5, <1>6 DEF HandleEntry, Fails

LEMMA HangMoves ==
  ASSUME JobsIInv, NEW j \in Jobs, At(j, "extract", "entries"),
         NEW pc \in {"hung", "all"}, OnlyPc(j, pc), UNCHANGED ext
  PROVE  Ordered'
<1> DEFINE q == [job[j] EXCEPT !.pc = pc]
<1>1. /\ job[j].kind = "extract" /\ job[j].pc = "entries"
      /\ Goto(j, pc) /\ UNCHANGED <<files, ext>>
  BY DEF At, OnlyPc
<1>2. Plan(job[j], ext[j]) /\ Quiet(job[j], ext[j]) /\ Life(job[j])
  BY <1>1, RunShape
<1>3. q.pc = pc /\ q.outcome = job[j].outcome
  BY JobShape DEF JobsIInv
<1> HIDE DEF q
<1>4. Quiet(q, ext[j]) /\ Plan(q, ext[j])
  BY <1>1, <1>2, <1>3 DEF Quiet, Plan
<1> QED BY <1>1, <1>4, GotoMoves DEF q

LEMMA HandlerMoves ==
  ASSUME JobsIInv, NEW j \in Jobs,
         ZipEntry(j) \/ TarEntry(j) \/ RarEntry(j) \/ EndOfArchive(j) \/ Starve(j)
  PROVE  Ordered'
<1>1. CASE ZipEntry(j) \/ RarEntry(j)
  BY <1>1, EntryMoves DEF ZipEntry, RarEntry, Reading
<1>2. CASE TarEntry(j)
  BY <1>2, EntryMoves, HangMoves DEF TarEntry, Reading
<1>3. CASE EndOfArchive(j) \/ Starve(j)
  BY <1>3, HangMoves DEF EndOfArchive, Starve
<1> QED BY <1>1, <1>2, <1>3

-----------------------------------------------------------------------------
(* Uploads land or fail                                                    *)

\* An upload is over; it may have put its object.
LEMMA LandingMoves ==
  ASSUME JobsIInv, NEW j \in Jobs, NEW up \in ext[j].flying, NEW q, NEW x,
         job'[j] = q, ext'[j] = x,
         \A i \in Jobs \ {j} : job'[i] = job[i] /\ ext'[i] = ext[i],
         files' = files \/ PutObject(up.key, j, up.entry),
         q.kind = job[j].kind, Life(q),
         \A f \in {"strategy", "newFolder", "dir", "mode", "seen", "claimed"} :
            x[f] = ext[j][f],
         x.flying = ext[j].flying \ {up},
         q.kind = "extract" => Quiet(q, x) /\ Plan(q, x)
  PROVE  Ordered'
<1>1. /\ x.strategy = ext[j].strategy /\ x.newFolder = ext[j].newFolder
      /\ x.dir = ext[j].dir /\ x.mode = ext[j].mode /\ x.seen = ext[j].seen
      /\ x.claimed = ext[j].claimed
  OBVIOUS
<1>2. JobOk(j, job[j], ext[j], files) /\ job[j].kind = "extract"
  BY DEF JobsIInv, Ordered, JobOk
<1>3. /\ WrittenBy(j, "extract", ext[j].newFolder, files) /\ Plan(job[j], ext[j])
      /\ Flight(j, ext[j], files)
  BY <1>2 DEF JobOk
<1>4. \A k \in DOMAIN files' : files'[k][1] = j /\ k # up.key =>
         k \in DOMAIN files /\ files'[k] = files[k]
  BY DEF PutObject
<1>5. up.key[1] = ext[j].dir
  BY <1>3 DEF Flight
<1>6. WrittenBy(j, q.kind, x.newFolder, files')
  <2> SUFFICES ASSUME NEW k \in DOMAIN files', files'[k][1] = j
               PROVE  ~x.newFolder => k[1] = 0
    BY <1>2 DEF WrittenBy
  <2>1. CASE k = up.key
    BY <1>1, <1>3, <1>5, <2>1 DEF Plan
  <2>2. CASE k # up.key
    BY <1>1, <1>3, <1>4, <2>2 DEF WrittenBy
  <2> QED BY <2>1, <2>2
<1>7. Claims(j, x, files')
  <2> SUFFICES ASSUME x.mode = "keepBoth" PROVE Claims(j, x, files')
    BY DEF Claims
  <2>1. Claims(j, ext[j], files) /\ ext[j].mode = "keepBoth"
    BY <1>1, <1>3 DEF Flight
  <2>2. \A k \in DOMAIN files' :
           files'[k][1] = j /\ k[2] \notin FolderEntries => k \in x.seen \cup x.claimed
    <3> TAKE k \in DOMAIN files'
    <3>1. CASE k = up.key
      BY <1>1, <2>1, <3>1 DEF Claims
    <3>2. CASE k # up.key
      BY <1>1, <1>4, <2>1, <3>2 DEF Claims
    <3> QED BY <3>1, <3>2
  <2>3. ASSUME NEW u \in x.flying, u.key[2] \notin FolderEntries
        PROVE  /\ u.key \in x.claimed
               /\ u.key \in DOMAIN files' => files'[u.key][1] # j
               /\ \A other \in x.flying : other.key = u.key => other = u
    <3>1. /\ u \in ext[j].flying /\ u # up
          /\ u.key \in x.claimed
          /\ u.key \in DOMAIN files => files[u.key][1] # j
          /\ \A other \in ext[j].flying : other.key = u.key => other = u
      BY <1>1, <2>1, <2>3 DEF Claims
    <3>2. u.key # up.key
      BY <3>1
    <3>3. u.key \in DOMAIN files' => files'[u.key][1] # j
      BY <1>4, <3>1, <3>2
    <3> QED BY <3>1, <3>3
  <2> QED BY <2>2, <2>3 DEF Claims
<1>8. Flight(j, x, files')
  BY <1>1, <1>3, <1>7 DEF Flight
<1>9. JobOk(j, q, x, files')
  BY <1>2, <1>6, <1>8 DEF JobOk
<1>10. \A i \in Jobs \ {j} : NothingOf(i)
  BY PutOthers, Unwritten
<1> QED BY <1>9, <1>10, OneJob

LEMMA UploadEnds ==
  ASSUME JobsIInv, NEW j \in Jobs, NEW up \in ext[j].flying,
         UploadLands(j, up) \/ UploadFails(j, up)
  PROVE  Ordered'
<1>1. PICK done, stalled :
         ext' = [ext EXCEPT ![j] = [ext[j] EXCEPT !.flying = ext[j].flying \ {up},
                                                  !.done = done, !.stalled = stalled]]
  <2>1. DOMAIN ext = Jobs /\ DOMAIN ext[j] = RunFields
    BY DEF JobsIInv, Shape
  <2>2. CASE UploadLands(j, up)
    <3> DEFINE done == IF up.whole THEN ext[j].done \cup {up.entry} ELSE ext[j].done
    <3>1. ext' = [ext EXCEPT ![j] = [ext[j] EXCEPT !.flying = ext[j].flying \ {up},
                                                   !.done = done]]
      BY <2>2 DEF UploadLands
    <3>2. [ext[j] EXCEPT !.flying = ext[j].flying \ {up}, !.done = done]
            = [ext[j] EXCEPT !.flying = ext[j].flying \ {up}, !.done = done,
                             !.stalled = ext[j].stalled]
      BY <2>1 DEF RunFields
    <3> QED BY <3>1, <3>2
  <2>3. CASE UploadFails(j, up)
    <3>1. ext' = [ext EXCEPT ![j] = [ext[j] EXCEPT !.flying = ext[j].flying \ {up},
                                                   !.stalled = TRUE]]
      BY <2>3 DEF UploadFails
    <3>2. [ext[j] EXCEPT !.flying = ext[j].flying \ {up}, !.stalled = TRUE]
            = [ext[j] EXCEPT !.flying = ext[j].flying \ {up}, !.done = ext[j].done,
                             !.stalled = TRUE]
      BY <2>1 DEF RunFields
    <3> QED BY <3>1, <3>2
  <2> QED BY <2>2, <2>3
<1> DEFINE x == [ext[j] EXCEPT !.flying = ext[j].flying \ {up},
                               !.done = done, !.stalled = stalled]
<1>2. /\ \A f \in {"strategy", "newFolder", "dir", "mode", "seen", "claimed"} :
            x[f] = ext[j][f]
      /\ x.flying = ext[j].flying \ {up}
      /\ ext'[j] = x /\ \A i \in Jobs \ {j} : ext'[i] = ext[i]
  BY <1>1 DEF JobsIInv, Shape, RunFields
<1> HIDE DEF x
<1>3. /\ job[j].kind = "extract" /\ Life(job[j])
      /\ Plan(job[j], ext[j]) /\ Quiet(job[j], ext[j])
  BY DEF JobsIInv, Ordered, JobOk
<1>4. PICK q : /\ job'[j] = q /\ \A i \in Jobs \ {j} : job'[i] = job[i]
               /\ \/ q = job[j]
                  \/ job[j].pc = "race" /\ q = [job[j] EXCEPT !.pc = "entries"]
                  \/ /\ job[j].pc \in {"race", "all"}
                     /\ q = [job[j] EXCEPT !.told = @ \cup {"failed"}, !.outcome = "failed",
                               !.pc = IF job[j].kind = "mkdir" THEN "settle" ELSE "clean"]
  <2>1. \/ UNCHANGED job
        \/ At(j, "extract", "race") /\ Goto(j, "entries")
        \/ job[j].pc \in {"race", "all"} /\ Throw(j)
    BY DEF UploadLands, UploadFails
  <2>2. DOMAIN job = Jobs
    BY DEF JobsIInv, Shape
  <2> QED BY <2>1, <2>2 DEF At, Goto, Throw, Outcome
<1>5. /\ q.kind = job[j].kind /\ q.state = job[j].state
      /\ \/ q.pc = job[j].pc /\ q.outcome = job[j].outcome
         \/ job[j].pc = "race" /\ q.pc = "entries" /\ q.outcome = job[j].outcome
         \/ job[j].pc \in {"race", "all"} /\ q.pc = "clean" /\ q.outcome = "failed"
  BY <1>3, <1>4 DEF JobsIInv, Shape, JobFields
<1>6. Life(q)
  BY <1>3, <1>5 DEF Life
<1>7. Quiet(q, x) /\ Plan(q, x)
  <2>1. /\ x.strategy = ext[j].strategy /\ x.newFolder = ext[j].newFolder
        /\ x.dir = ext[j].dir /\ x.mode = ext[j].mode /\ x.seen = ext[j].seen
        /\ x.claimed = ext[j].claimed /\ x.flying \subseteq ext[j].flying
    BY <1>2
  <2> QED BY <1>3, <1>5, <2>1 DEF Quiet, Plan
<1>8. files' = files \/ PutObject(up.key, j, up.entry)
  BY DEF UploadLands, UploadFails
<1> QED BY <1>2, <1>4, <1>5, <1>6, <1>7, <1>8, LandingMoves

LEMMA EndMoves ==
  ASSUME JobsIInv, NEW j \in Jobs, AllLanded(j) \/ TellExtracted(j) \/ ExtractBreaks(j)
  PROVE  Ordered'
<1>1. /\ job[j].kind = "extract" /\ UNCHANGED <<files, ext>>
      /\ job[j].pc \notin {"off", "clean", "settle"}
  BY DEF AllLanded, TellExtracted, ExtractBreaks, At, OnlyPc
<1>2. /\ Plan(job[j], ext[j]) /\ Quiet(job[j], ext[j])
  BY <1>1, RunShape
<1>3. CASE AllLanded(j)
  <2> DEFINE q == [job[j] EXCEPT !.pc = "tell"]
  <2>1. Goto(j, "tell") /\ ext[j].flying = {}
    BY <1>3 DEF AllLanded, OnlyPc
  <2>2. q.pc = "tell"
    BY JobShape DEF JobsIInv
  <2> HIDE DEF q
  <2>3. Quiet(q, ext[j]) /\ Plan(q, ext[j])
    BY <1>2, <2>1, <2>2 DEF Quiet, Plan
  <2> QED BY <1>1, <2>1, <2>3, GotoMoves DEF q
<1>4. CASE TellExtracted(j)
  <2>1. Outcome(j, "complete", "completed") /\ ext[j].flying = {}
    BY <1>2, <1>4 DEF TellExtracted, At, Tell, Quiet
  <2> QED BY <1>1, <2>1, OutcomeMoves
<1>5. CASE ExtractBreaks(j)
  BY <1>1, <1>5, FailMoves DEF ExtractBreaks
<1> QED BY <1>3, <1>4, <1>5

-----------------------------------------------------------------------------
(* All steps                                                               *)

LEMMA OrderedStep ==
  ASSUME JobsIInv, JobsAssumptions, [JobsNext]_jobsVars
  PROVE  Ordered'
<1>1. CASE UNCHANGED jobsVars
  BY <1>1, NoMoves DEF jobsVars, queueVars
<1>2. ASSUME NEW j \in Jobs, Request(j) PROVE Ordered'
  BY <1>2, RequestMoves
<1>3. ASSUME NEW j \in Jobs, QueueOnly(Take(j)) PROVE Ordered'
  BY <1>3, TakeMoves
<1>4. ASSUME NEW j \in Jobs, Work(j) PROVE Ordered'
  <2>1. CASE ExtractOnly(ExtractSteps(j))
    BY <2>1, BeginMoves, ProbeMoves, ListMoves, HandlerMoves, UploadEnds, EndMoves
       DEF ExtractOnly, ExtractSteps
  <2>2. CASE CreateOnly(CreateSteps(j)) \/ TellDirectory(j)
    BY <2>2, PlainMoves DEF CreateOnly
  <2>3. CASE CreateDirectory(j)
    BY <2>3, DirectoryMoves
  <2>4. CASE QueueOnly(Clean(j)) \/ QueueOnly(Settle(j))
    BY <2>4, CleanMoves, SettleMoves
  <2> QED BY <1>4, <2>1, <2>2, <2>3, <2>4 DEF Work
<1>5. ASSUME NEW j \in Jobs, ExtractOnly(Starve(j)) PROVE Ordered'
  BY <1>5, HandlerMoves DEF ExtractOnly
<1>6. ASSUME NEW j \in Jobs, Failure(j) PROVE Ordered'
  BY <1>6, EndMoves, PlainMoves, UploadEnds DEF Failure, ExtractOnly, CreateOnly
<1>7. ASSUME NEW j \in Jobs, Cancel(j) PROVE Ordered'
  BY <1>7, CancelMoves
<1>8. ASSUME NEW k \in UserKeys, QueueOnly(UserPut(k)) PROVE Ordered'
  BY <1>8, UserMoves
<1>9. ASSUME NEW f \in Folders, CreateOnly(MarkFolder(f)) PROVE Ordered'
  BY <1>9, NoMoves DEF CreateOnly, MarkFolder
<1>10. CASE ProcessDies
  BY <1>10, CrashMoves
<1> QED BY <1>1, <1>2, <1>3, <1>4, <1>5, <1>6, <1>7, <1>8, <1>9, <1>10 DEF JobsNext

-----------------------------------------------------------------------------
(* The shape of the records                                                *)

JobsShaped == DOMAIN job = Jobs /\ \A j \in Jobs : DOMAIN job[j] = JobFields

RunsShaped == DOMAIN ext = Jobs /\ \A j \in Jobs : DOMAIN ext[j] = RunFields

ArcsShaped == DOMAIN arc = Jobs /\ \A j \in Jobs : DOMAIN arc[j] = ArcFields

LEMMA MovesShaped ==
  ASSUME JobsShaped, NEW j \in Jobs
  PROVE  /\ \A pc : Goto(j, pc) => JobsShaped'
         /\ \A event, outcome : Outcome(j, event, outcome) => JobsShaped'
         /\ \A kind : Enqueue(j, kind) => JobsShaped'
<1>1. ASSUME NEW pc, Goto(j, pc) PROVE JobsShaped'
  BY <1>1 DEF JobsShaped, Goto
<1>2. ASSUME NEW event, NEW outcome, Outcome(j, event, outcome) PROVE JobsShaped'
  BY <1>2 DEF JobsShaped, Outcome
<1>3. ASSUME NEW kind, Enqueue(j, kind) PROVE JobsShaped'
  BY <1>3 DEF JobsShaped, Enqueue
<1> QED BY <1>1, <1>2, <1>3

LEMMA ExtractJobsShaped ==
  ASSUME JobsIInv, JobsShaped, NEW j \in Jobs,
         ExtractSteps(j) \/ Starve(j) \/ ExtractBreaks(j)
           \/ \E up \in ext[j].flying : UploadFails(j, up)
  PROVE  JobsShaped'
<1>1. ASSUME NEW whole, HandleEntry(j, whole) PROVE JobsShaped'
  <2>1. \/ UNCHANGED job \/ Throw(j) \/ \E pc : Goto(j, pc)
    BY <1>1 DEF HandleEntry, LeaveEntry, RefuseEntry, UploadEntry, Fails, OnlyPc, queueVars
  <2>2. CASE UNCHANGED job
    BY <2>2 DEF JobsShaped
  <2> QED BY <2>1, <2>2, MovesShaped DEF Throw
<1>2. CASE \/ BeginExtract(j) \/ ProbeTaken(j) \/ ProbeFree(j) \/ ListExisting(j)
           \/ EndOfArchive(j) \/ AllLanded(j) \/ Starve(j)
  <2>1. CASE BeginExtract(j) \/ ProbeFree(j) \/ ListExisting(j)
             \/ EndOfArchive(j) \/ AllLanded(j) \/ Starve(j)
    BY <2>1, MovesShaped DEF BeginExtract, ProbeFree, ListExisting, EndOfArchive, AllLanded,
       Starve, Overwrites, OnlyPc
  <2>2. CASE ProbeTaken(j)
    <3>1. ext[j].strategy \in {"fail", "skip", "replace", "keepBoth"}
      BY <2>2, RunShape DEF ProbeTaken, At, Plan
    <3>2. Throw(j) \/ \E pc : Goto(j, pc)
      BY <2>2, <3>1 DEF ProbeTaken, Overwrites, TryNextPrefix, Fails, OnlyPc
    <3> QED BY <3>2, MovesShaped DEF Throw
  <2> QED BY <1>2, <2>1, <2>2
<1>3. CASE ZipEntry(j) \/ TarEntry(j) \/ RarEntry(j)
  BY <1>1, <1>3, MovesShaped DEF ZipEntry, TarEntry, RarEntry, OnlyPc
<1>4. CASE TellExtracted(j) \/ ExtractBreaks(j)
  BY <1>4, MovesShaped DEF TellExtracted, ExtractBreaks, Tell, Throw
<1>5. CASE \E up \in ext[j].flying : UploadLands(j, up) \/ UploadFails(j, up)
  <2>1. UNCHANGED job \/ Throw(j) \/ \E pc : Goto(j, pc)
    BY <1>5 DEF UploadLands, UploadFails
  <2>2. CASE UNCHANGED job
    BY <2>2 DEF JobsShaped
  <2> QED BY <2>1, <2>2, MovesShaped DEF Throw
<1> QED BY <1>2, <1>3, <1>4, <1>5 DEF ExtractSteps

LEMMA OtherJobsShaped ==
  ASSUME JobsShaped, NEW j \in Jobs,
         \/ Request(j) \/ Take(j) \/ Clean(j) \/ Settle(j) \/ Cancel(j)
         \/ CreateSteps(j) \/ CreateBreaks(j)
         \/ CreateDirectory(j) \/ TellDirectory(j) \/ DirectoryBreaks(j)
  PROVE  JobsShaped'
<1>1. CASE Request(j)
  BY <1>1, MovesShaped DEF Request, ExtractOnly, CreateOnly, ExtractStart, CreateStart,
     DirectoryStart
<1>2. CASE Take(j) \/ Settle(j)
  BY <1>2 DEF Take, Settle, JobsShaped
<1>3. CASE Clean(j)
  BY <1>3 DEF Clean, Goto, JobsShaped
<1>4. CASE Cancel(j)
  BY <1>4 DEF Cancel, QueueOnly, ExtractCancel, CreateCancel, CancelLook, CancelRemove,
     CancelFlag, JobsShaped
<1>5. CASE CreateSteps(j) \/ CreateBreaks(j)
  <2>1. \/ \E pc : Goto(j, pc)
        \/ \E event, outcome : Outcome(j, event, outcome)
    BY <1>5 DEF CreateSteps, CreateBreaks, ReadMarks, Expand, EntriesResolved, PackEntry,
       CancelZip, CancelTar, StoreArchive, TellCreated, CreatePc, CreateFails, Tell, Throw
  <2> QED BY <2>1, MovesShaped
<1>6. CASE CreateDirectory(j) \/ TellDirectory(j) \/ DirectoryBreaks(j)
  BY <1>6, MovesShaped DEF CreateDirectory, TellDirectory, DirectoryBreaks, Tell, Throw
<1> QED BY <1>1, <1>2, <1>3, <1>4, <1>5, <1>6

LEMMA RunsShapedStep ==
  ASSUME JobsIInv, RunsShaped, NEW j \in Jobs,
         \/ \E req : ExtractStart(j, req)
         \/ ExtractSteps(j) \/ Starve(j) \/ ExtractBreaks(j)
         \/ \E up \in ext[j].flying : UploadFails(j, up)
  PROVE  RunsShaped'
<1>1. ASSUME NEW req, ext' = [ext EXCEPT ![j] = NewRun(req)] PROVE RunsShaped'
  BY <1>1 DEF RunsShaped, NewRun, RunFields
<1>2. CASE UNCHANGED ext
  BY <1>2 DEF RunsShaped
<1>3. ASSUME NEW whole, HandleEntry(j, whole) PROVE RunsShaped'
  BY <1>3 DEF RunsShaped, HandleEntry, LeaveEntry, RefuseEntry, UploadEntry
<1>4. CASE (\E req : ExtractStart(j, req)) \/ BeginExtract(j)
  BY <1>1, <1>4 DEF ExtractStart, BeginExtract
<1>5. CASE ProbeTaken(j) \/ ProbeFree(j) \/ ListExisting(j)
  <2>1. ProbeTaken(j) => ext[j].strategy \in {"fail", "skip", "replace", "keepBoth"}
    BY RunShape DEF ProbeTaken, At, Plan
  <2> QED BY <1>5, <2>1 DEF ProbeTaken, ProbeFree, ListExisting, Overwrites, TryNextPrefix,
             Fails, RunsShaped
<1>6. CASE ZipEntry(j) \/ TarEntry(j) \/ RarEntry(j)
  BY <1>2, <1>3, <1>6 DEF ZipEntry, TarEntry, RarEntry
<1>7. CASE \/ EndOfArchive(j) \/ AllLanded(j) \/ Starve(j)
           \/ TellExtracted(j) \/ ExtractBreaks(j)
  BY <1>2, <1>7 DEF EndOfArchive, AllLanded, Starve, TellExtracted, ExtractBreaks
<1>8. CASE \E up \in ext[j].flying : UploadLands(j, up) \/ UploadFails(j, up)
  BY <1>8 DEF UploadLands, UploadFails, RunsShaped
<1> QED BY <1>4, <1>5, <1>6, <1>7, <1>8 DEF ExtractSteps

-----------------------------------------------------------------------------
(* Archives                                                                *)

\* Which of the archives a step changes.
LEMMA ArcStep ==
  ASSUME Packed, ArcsShaped, NEW j \in Jobs, NEW a, arc' = [arc EXCEPT ![j] = a],
         DOMAIN a = ArcFields, ArcOk(a)
  PROVE  Packed' /\ ArcsShaped'
<1>1. \A i \in Jobs : arc'[i] = IF i = j THEN a ELSE arc[i]
  BY DEF ArcsShaped
<1> QED BY <1>1 DEF Packed, ArcsShaped

LEMMA NewArchiveOk ==
  ASSUME NEW keys, keys \subseteq Path, NEW format
  PROVE  /\ ArcOk(NewArchive(keys, format)) /\ DOMAIN NewArchive(keys, format) = ArcFields
  BY DEF NewArchive, ArcOk, ArcFields

LEMMA CreateStepsPack ==
  ASSUME JobsIInv, JobsAssumptions, ArcsShaped, NEW j \in Jobs,
         CreateSteps(j) \/ CreateBreaks(j)
  PROVE  Packed' /\ ArcsShaped'
<1>1. /\ Packed /\ ArcOk(arc[j]) /\ DOMAIN arc[j] = ArcFields /\ secured \subseteq Folders
  BY DEF JobsIInv, Packed, Shape
<1>2. CASE UNCHANGED arc
  BY <1>1, <1>2 DEF Packed, ArcsShaped
<1>3. CASE ReadMarks(j)
  <2> DEFINE n == NewArchive(arc[j].keys, arc[j].format)
             a == [n EXCEPT !.marks = secured]
  <2>1. arc' = [arc EXCEPT ![j] = a]
    BY <1>3 DEF ReadMarks
  <2>2. arc[j].keys \subseteq Path
    BY <1>1 DEF ArcOk
  <2>3. /\ DOMAIN a = ArcFields /\ a.keys = arc[j].keys /\ a.marks = secured
        /\ a.packed = {} /\ a.entries = {}
    BY DEF NewArchive, ArcFields
  <2> HIDE DEF a
  <2>4. ArcOk(a)
    BY <1>1, <2>2, <2>3 DEF ArcOk
  <2> QED BY <1>1, <2>1, <2>3, <2>4, ArcStep
<1>4. CASE Expand(j)
  <2>1. PICK key : LET excluded == SecureFoldersToExclude(arc[j].marks, arc[j].keys)
                       found == {p \in Tree : IsPrefix(key, p) /\ ~IsSecurePath(p, excluded)}
                   IN  arc' = [arc EXCEPT ![j].toExpand = @ \ {key},
                                          ![j].entries = @ \cup found]
    BY <1>4 DEF Expand
  <2> DEFINE excluded == SecureFoldersToExclude(arc[j].marks, arc[j].keys)
             found == {p \in Tree : IsPrefix(key, p) /\ ~IsSecurePath(p, excluded)}
             a == [arc[j] EXCEPT !.toExpand = @ \ {key}, !.entries = @ \cup found]
  <2>2. arc' = [arc EXCEPT ![j] = a]
    BY <2>1
  <2>3. /\ DOMAIN a = ArcFields /\ a.keys = arc[j].keys /\ a.marks = arc[j].marks
        /\ a.packed = arc[j].packed /\ a.entries = arc[j].entries \cup found
    BY <1>1 DEF ArcFields
  <2>4. \A p \in found : \A f \in arc[j].marks :
           IsPrefix(f, p) => IsPrefix(f, CommonParent(arc[j].keys))
    BY DEF IsSecurePath, IsInsideFolder, SecureFoldersToExclude
  <2> HIDE DEF a, found
  <2>5. ArcOk(a)
    BY <1>1, <2>3, <2>4 DEF ArcOk
  <2> QED BY <1>1, <2>2, <2>3, <2>5, ArcStep
<1>5. CASE PackEntry(j)
  <2> DEFINE path == CHOOSE p \in arc[j].entries \ arc[j].packed : TRUE
             a == [arc[j] EXCEPT !.packed = @ \cup {path}]
  <2>1. arc' = [arc EXCEPT ![j] = a] /\ arc[j].packed # arc[j].entries
    BY <1>5 DEF PackEntry, Unpacked
  <2>2. arc[j].packed \subseteq arc[j].entries
    BY <1>1 DEF ArcOk
  <2>3. path \in arc[j].entries
    BY <2>1, <2>2
  <2> HIDE DEF path
  <2>4. /\ DOMAIN a = ArcFields /\ a.keys = arc[j].keys /\ a.marks = arc[j].marks
        /\ a.packed = arc[j].packed \cup {path} /\ a.entries = arc[j].entries
    BY <1>1 DEF ArcFields
  <2> HIDE DEF a
  <2>5. ArcOk(a)
    BY <1>1, <2>3, <2>4 DEF ArcOk
  <2> QED BY <1>1, <2>1, <2>4, <2>5, ArcStep
<1>6. CASE CancelZip(j) \/ StoreArchive(j)
  <2>1. PICK stored : arc' = [arc EXCEPT ![j] = [arc[j] EXCEPT !.stored = stored]]
    BY <1>6 DEF CancelZip, StoreArchive
  <2> DEFINE a == [arc[j] EXCEPT !.stored = stored]
  <2>2. /\ DOMAIN a = ArcFields /\ a.keys = arc[j].keys /\ a.marks = arc[j].marks
        /\ a.packed = arc[j].packed /\ a.entries = arc[j].entries
    BY <1>1 DEF ArcFields
  <2>3. arc' = [arc EXCEPT ![j] = a]
    BY <2>1
  <2> HIDE DEF a
  <2>4. ArcOk(a)
    BY <1>1, <2>2 DEF ArcOk
  <2> QED BY <1>1, <2>2, <2>3, <2>4, ArcStep
<1>7. CASE EntriesResolved(j) \/ CancelTar(j) \/ TellCreated(j) \/ CreateBreaks(j)
  BY <1>2, <1>7 DEF EntriesResolved, CancelTar, TellCreated, CreateBreaks
<1> QED BY <1>3, <1>4, <1>5, <1>6, <1>7 DEF CreateSteps

LEMMA ShapeStep ==
  ASSUME JobsIInv, JobsAssumptions, [JobsNext]_jobsVars
  PROVE  Shape' /\ Packed'
<1>1. JobsShaped /\ RunsShaped /\ ArcsShaped /\ Packed /\ workload \in Workloads
      /\ secured \subseteq Folders
  BY DEF JobsIInv, Shape, JobsShaped, RunsShaped, ArcsShaped
<1>2. workload' = workload
  BY DEF JobsNext, jobsVars, Request, Work, Failure, Cancel, ExtractOnly, CreateOnly,
     QueueOnly, DirectoryStart, CreateDirectory, TellDirectory, DirectoryBreaks, ProcessDies
<1>3. UNCHANGED job => JobsShaped'
  BY <1>1 DEF JobsShaped
<1>4. UNCHANGED ext => RunsShaped'
  BY <1>1 DEF RunsShaped
<1>5. UNCHANGED arc => ArcsShaped' /\ Packed'
  BY <1>1 DEF ArcsShaped, Packed
<1>6. UNCHANGED secured => (secured \subseteq Folders)'
  BY <1>1
<1> DEFINE Done == JobsShaped' /\ RunsShaped' /\ ArcsShaped' /\ Packed'
                     /\ (secured \subseteq Folders)'
<1>7. CASE UNCHANGED jobsVars
  <2>1. UNCHANGED <<job, ext, arc, secured>>
    BY <1>7 DEF jobsVars, queueVars
  <2>2. Done
    BY <2>1, <1>3, <1>4, <1>5, <1>6
  <2> QED BY <1>1, <1>2, <2>2 DEF Shape, JobsShaped, RunsShaped, ArcsShaped
<1>8. ASSUME NEW j \in Jobs, Request(j) PROVE Done
  <2>1. JobsShaped'
    BY <1>1, <1>8, OtherJobsShaped
  <2>2. CASE workload[j].kind = "extract" /\ ExtractOnly(ExtractStart(j, workload[j]))
    BY <1>1, <1>5, <1>6, <2>1, <2>2, RunsShapedStep DEF ExtractOnly
  <2>3. CASE workload[j].kind = "create"
             /\ CreateOnly(CreateStart(j, workload[j].keys, workload[j].format))
    <3> DEFINE r == workload[j]
               a == NewArchive(r.keys, r.format)
    <3>1. arc' = [arc EXCEPT ![j] = a] /\ UNCHANGED <<ext, secured>>
      BY <2>3 DEF CreateOnly, CreateStart
    <3>2. r.keys \subseteq Path
      BY <1>1, <1>8, <2>3 DEF Request, JobsAssumptions, WorkloadAssumption, Path
    <3>3. DOMAIN a = ArcFields /\ ArcOk(a)
      BY <3>2, NewArchiveOk
    <3> HIDE DEF a
    <3>4. Packed' /\ ArcsShaped'
      BY <1>1, <3>1, <3>3, ArcStep
    <3> QED BY <1>4, <1>6, <2>1, <3>1, <3>4
  <2>4. CASE DirectoryStart(j, workload[j].dir, workload[j].strategy)
    BY <1>4, <1>5, <1>6, <2>1, <2>4 DEF DirectoryStart
  <2> QED BY <1>8, <2>2, <2>3, <2>4 DEF Request
<1>9. ASSUME NEW j \in Jobs,
             ExtractOnly(ExtractSteps(j) \/ Starve(j) \/ ExtractBreaks(j)
                           \/ \E up \in ext[j].flying : UploadFails(j, up))
      PROVE  Done
  <2>1. JobsShaped' /\ RunsShaped'
    BY <1>1, <1>9, ExtractJobsShaped, RunsShapedStep DEF ExtractOnly
  <2> QED BY <1>5, <1>6, <1>9, <2>1 DEF ExtractOnly
<1>10. ASSUME NEW j \in Jobs, CreateOnly(CreateSteps(j) \/ CreateBreaks(j)) PROVE Done
  <2>1. JobsShaped' /\ Packed' /\ ArcsShaped' /\ RunsShaped'
    BY <1>1, <1>4, <1>10, OtherJobsShaped, CreateStepsPack DEF CreateOnly
  <2>2. secured' = secured
    BY <1>10 DEF CreateOnly, CreateSteps, CreateBreaks, ReadMarks, Expand, EntriesResolved,
       PackEntry, CancelZip, CancelTar, StoreArchive, TellCreated, CreatePc, CreateFails
  <2> QED BY <1>6, <2>1, <2>2
<1>11. ASSUME NEW j \in Jobs,
              \/ QueueOnly(Take(j)) \/ QueueOnly(Clean(j)) \/ QueueOnly(Settle(j)) \/ Cancel(j)
              \/ CreateDirectory(j) \/ TellDirectory(j) \/ DirectoryBreaks(j)
       PROVE  Done
  <2>1. JobsShaped'
    BY <1>1, <1>11, OtherJobsShaped DEF QueueOnly
  <2>2. UNCHANGED <<ext, arc, secured>>
    BY <1>11 DEF QueueOnly, Cancel, CreateDirectory, TellDirectory, DirectoryBreaks
  <2> QED BY <1>4, <1>5, <1>6, <2>1, <2>2
<1>12. ASSUME NEW k, QueueOnly(UserPut(k)) PROVE Done
  BY <1>3, <1>4, <1>5, <1>6, <1>12 DEF QueueOnly, UserPut
<1>13. ASSUME NEW f \in Folders, CreateOnly(MarkFolder(f)) PROVE Done
  BY <1>1, <1>3, <1>4, <1>5, <1>13 DEF CreateOnly, MarkFolder
<1>14. CASE ProcessDies
  <2>1. JobsShaped'
    BY <1>1, <1>14 DEF ProcessDies, Crash, JobsShaped, JobFields
  <2>2. RunsShaped'
    BY <1>1, <1>14 DEF ProcessDies, RunsShaped, RunFields
  <2>3. UNCHANGED <<arc, secured>>
    BY <1>14 DEF ProcessDies
  <2>4. Done
    BY <1>5, <1>6, <2>1, <2>2, <2>3
  <2> QED BY <1>1, <1>2, <2>4 DEF Shape, JobsShaped, RunsShaped, ArcsShaped
<1>15. ASSUME NEW j \in Jobs,
              Request(j) \/ QueueOnly(Take(j)) \/ Work(j)
                \/ ExtractOnly(Starve(j)) \/ Failure(j) \/ Cancel(j)
       PROVE  Done
  <2> HIDE DEF Done
  <2>1. CASE Work(j) \/ ExtractOnly(Starve(j))
    BY <1>9, <1>10, <1>11, <2>1 DEF Work, ExtractOnly, CreateOnly
  <2>2. CASE Failure(j)
    BY <1>9, <1>10, <1>11, <2>2 DEF Failure, ExtractOnly, CreateOnly
  <2> QED BY <1>8, <1>11, <1>15, <2>1, <2>2
<1>16. CASE Done
  BY <1>1, <1>2, <1>16 DEF Shape, JobsShaped, RunsShaped, ArcsShaped
<1> HIDE DEF Done
<1> QED BY <1>7, <1>12, <1>13, <1>14, <1>15, <1>16 DEF JobsNext

LEMMA JobsStart ==
  ASSUME JobsInit PROVE JobsIInv
<1>1. \A j \in Jobs : job[j] = NewJob /\ arc[j] = NewArchive({}, "none")
  BY DEF JobsInit, QueueInit, CreateInit
<1>2. \A j \in Jobs : /\ DOMAIN ext[j] = RunFields /\ ext[j].flying = {}
  BY DEF JobsInit, ExtractInit, NewRun, RunFields
<1>3. Shape
  BY <1>1, <1>2 DEF JobsInit, QueueInit, ExtractInit, CreateInit, Shape, NewJob, JobFields,
     NewArchive, ArcFields
<1>4. \A j \in Jobs : Life(job[j])
  BY <1>1 DEF NewJob, Life
<1>5. \A k \in DOMAIN files : files[k][1] = User
  BY DEF JobsInit, QueueInit
<1>6. Ordered
  BY <1>1, <1>2, <1>4, <1>5, NoUserJob DEF Ordered, JobOk, WrittenBy, NewJob
<1>7. Packed
  <2>1. {} \subseteq Path
    OBVIOUS
  <2> QED BY <1>1, <2>1, NewArchiveOk DEF Packed
<1> QED BY <1>3, <1>6, <1>7 DEF JobsIInv

LEMMA JobsInvariant == JobsSpec => []JobsIInv
<1>1. JobsAssumptions
  BY WorkloadAssumption, CreateAssumption DEF JobsAssumptions
<1>2. JobsInit => JobsIInv
  BY JobsStart
<1>3. JobsIInv /\ [JobsNext]_jobsVars => JobsIInv'
  BY <1>1, OrderedStep, ShapeStep DEF JobsIInv
<1> QED BY <1>2, <1>3, PTL DEF JobsSpec

(* When an extraction is announced as complete, or is about to be, none of  *)
(* its uploads is in flight (ProcessExtractJob, EndOfArchive).              *)
THEOREM CompleteJobsAreQuiet == JobsSpec => []CompleteIsQuiet
<1>1. JobsIInv => CompleteIsQuiet
  BY DEF JobsIInv, Ordered, JobOk, Quiet, CompleteIsQuiet
<1> QED BY <1>1, JobsInvariant, PTL

(* What is packed lies in a secured folder only if all that was selected    *)
(* does, for any tree, selection and marks (SecureFoldersToExcludeForScan). *)
THEOREM NothingSecuredLeaks == JobsSpec => []LeakOnlyByNavigation
<1>1. ASSUME JobsIInv PROVE LeakOnlyByNavigation
  <2> SUFFICES ASSUME NEW j \in Jobs, NEW p \in arc[j].packed, NEW f \in arc[j].marks,
                      IsPrefix(f, p), NEW k \in arc[j].keys
               PROVE  IsPrefix(f, k) /\ f # k
    BY DEF LeakOnlyByNavigation
  <2>1. ArcOk(arc[j])
    BY <1>1 DEF JobsIInv, Packed
  <2>2. /\ arc[j].keys \subseteq Path /\ f \in Folders
        /\ IsPrefix(f, CommonParent(arc[j].keys))
    BY <2>1 DEF ArcOk
  <2>3. f \in Path \ {<<>>}
    BY <2>2, CreateAssumption DEF CreateAssumption, Path
  <2> QED BY <2>2, <2>3, InsideTheFolder
<1> QED BY <1>1, JobsInvariant, PTL

-----------------------------------------------------------------------------
(* What an upload replaces                                                 *)

\* Which step of a job writes an object.
LEMMA WhoWrites ==
  ASSUME JobsIInv, [JobsNext]_jobsVars, NEW k \in DOMAIN files, NEW j \in Jobs,
         files'[k] # files[k], files'[k][1] = j, job[j].kind = "extract"
  PROVE  \E up \in ext[j].flying : up.key = k
<1>1. ASSUME NEW key, NEW writer, NEW what, PutObject(key, writer, what)
      PROVE  key = k /\ writer = j
  <2>1. <<writer, what>>[1] = writer
    OBVIOUS
  <2> QED BY <1>1, <2>1 DEF PutObject
<1>2. ASSUME NEW i \in Jobs, NEW up \in ext[i].flying,
             files' = files \/ PutObject(up.key, i, up.entry)
      PROVE  \E u \in ext[j].flying : u.key = k
  BY <1>1, <1>2
<1>3. CASE files' = files
  BY <1>3
<1>4. ASSUME NEW i \in Jobs, HandleEntry(i, TRUE) \/ HandleEntry(i, FALSE)
      PROVE  files' = files
  BY <1>4 DEF HandleEntry, LeaveEntry, RefuseEntry, UploadEntry, Fails, OnlyPc, queueVars
<1>5. ASSUME NEW i \in Jobs, ExtractSteps(i)
      PROVE  \E u \in ext[j].flying : u.key = k
  <2>1. CASE ZipEntry(i) \/ TarEntry(i) \/ RarEntry(i)
    BY <1>3, <1>4, <2>1 DEF ZipEntry, TarEntry, RarEntry, OnlyPc
  <2>2. CASE BeginExtract(i) \/ ProbeTaken(i) \/ ProbeFree(i) \/ ListExisting(i)
               \/ EndOfArchive(i) \/ AllLanded(i) \/ TellExtracted(i)
    <3>1. ProbeTaken(i) => ext[i].strategy \in {"fail", "skip", "replace", "keepBoth"}
      BY RunShape DEF ProbeTaken, At, Plan
    <3> QED BY <1>3, <2>2, <3>1 DEF BeginExtract, ProbeTaken, ProbeFree, ListExisting,
               EndOfArchive, AllLanded, TellExtracted, OnlyPc, Overwrites, TryNextPrefix, Fails
  <2>3. CASE \E up \in ext[i].flying : UploadLands(i, up)
    BY <1>2, <2>3 DEF UploadLands
  <2> QED BY <1>5, <2>1, <2>2, <2>3 DEF ExtractSteps
<1>6. ASSUME NEW i \in Jobs, CreateSteps(i) \/ CreateBreaks(i) \/ Starve(i) \/ ExtractBreaks(i)
      PROVE  files' = files
  BY <1>6 DEF CreateSteps, CreateBreaks, ReadMarks, Expand, EntriesResolved, PackEntry,
     CancelZip, CancelTar, StoreArchive, TellCreated, CreatePc, CreateFails, Starve,
     ExtractBreaks, OnlyPc
<1>7. ASSUME NEW i \in Jobs, Take(i) \/ Clean(i) \/ Settle(i) \/ ExtractCancel(i)
                               \/ CreateCancel(i)
      PROVE  files' = files
  BY <1>7 DEF Take, Clean, Settle, ExtractCancel, CreateCancel, CancelLook, CancelRemove,
     CancelFlag
<1>8. ASSUME NEW i \in Jobs, Request(i) \/ TellDirectory(i) \/ DirectoryBreaks(i)
      PROVE  files' = files
  BY <1>8 DEF Request, ExtractOnly, CreateOnly, ExtractStart, CreateStart, DirectoryStart,
     TellDirectory, DirectoryBreaks
<1>9. ASSUME NEW i \in Jobs, CreateDirectory(i) PROVE FALSE
  BY <1>1, <1>9 DEF CreateDirectory, At
<1>10. ASSUME NEW key, UserPut(key) PROVE FALSE
  BY <1>1, <1>10, NoUserJob DEF UserPut
<1>11. CASE ProcessDies \/ UNCHANGED jobsVars
  BY <1>3, <1>11 DEF ProcessDies, Crash, jobsVars, queueVars
<1>12. ASSUME NEW i \in Jobs, Failure(i) PROVE \E u \in ext[j].flying : u.key = k
  BY <1>2, <1>3, <1>6, <1>8, <1>12 DEF Failure, ExtractOnly, CreateOnly, UploadFails
<1>13. ASSUME NEW f \in Folders, MarkFolder(f) PROVE files' = files
  BY <1>13 DEF MarkFolder
<1>14. ASSUME NEW i \in Jobs, Work(i) PROVE \E u \in ext[j].flying : u.key = k
  BY <1>3, <1>5, <1>6, <1>7, <1>8, <1>9, <1>14 DEF Work, ExtractOnly, CreateOnly, QueueOnly
<1>15. ASSUME NEW i \in Jobs,
              Request(i) \/ QueueOnly(Take(i)) \/ ExtractOnly(Starve(i)) \/ Cancel(i)
       PROVE  files' = files
  BY <1>6, <1>7, <1>8, <1>15 DEF ExtractOnly, QueueOnly, Cancel
<1> QED BY <1>3, <1>10, <1>11, <1>12, <1>13, <1>14, <1>15 DEF JobsNext, QueueOnly, CreateOnly

(* No step of an extraction changes an object it had to keep: what was in   *)
(* its target when it looked, and, of the files it wrote itself, what it    *)
(* was told to keep both of (ResolveExtractTarget, UploadExtractedEntry).   *)
THEOREM KnownObjectsStay == JobsSpec => NothingKnownIsReplaced
<1> DEFINE Keeps ==
      \A k \in DOMAIN files, j \in Jobs :
          /\ files'[k] # files[k] /\ files'[k][1] = j
          /\ job[j].kind = "extract" /\ ext[j].strategy # "replace"
          => /\ k \notin ext[j].seen
             /\ ext[j].mode = "keepBoth" /\ k[2] \notin FolderEntries
                  => files[k][1] # j
<1>1. ASSUME JobsIInv, [JobsNext]_jobsVars PROVE [Keeps]_jobsVars
  <2> SUFFICES ASSUME NEW k \in DOMAIN files, NEW j \in Jobs,
                      files'[k] # files[k], files'[k][1] = j,
                      job[j].kind = "extract", ext[j].strategy # "replace"
               PROVE  /\ k \notin ext[j].seen
                      /\ ext[j].mode = "keepBoth" /\ k[2] \notin FolderEntries
                           => files[k][1] # j
    OBVIOUS
  <2>1. PICK up \in ext[j].flying : up.key = k
    BY <1>1, WhoWrites
  <2>2. Flight(j, ext[j], files)
    BY <1>1, RunShape
  <2> QED BY <2>1, <2>2 DEF Flight, Claims
<1> HIDE DEF Keeps
<1>2. JobsSpec => [][Keeps]_jobsVars
  BY <1>1, JobsInvariant, PTL DEF JobsSpec
<1> QED BY <1>2 DEF NothingKnownIsReplaced, Keeps
=============================================================================
