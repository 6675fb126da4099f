----------------------------- MODULE CloudUsage -----------------------------
(***************************************************************************)
(* The bytes one storage owner uses: the objects in S3, and the counter in *)
(* Redis that CloudUsageService keeps of them (one owner, one limit).      *)
(*                                                                         *)
(* The counter is a cached value with a TTL.  Where it is missing it is    *)
(* summed up from a listing, and every change reads it and writes the sum  *)
(* back; each of these is an await.  Uploads are checked against the limit *)
(* when they begin (if the client tells the size) and once more when they  *)
(* are complete, documents when they are created.                          *)
(***************************************************************************)
EXTENDS Integers, FiniteSets

CONSTANTS Files,        \* keys of files
          Sizes,        \* sizes of their contents
          Requests,     \* requests handled at the same time
          NoFile,
          Limit,        \* StorageLimitBytes of the subscription
          MaxUpload,    \* MaxUploadSizeBytes of the subscription
          MaxOps,       \* bound: requests
          MaxRaced      \* bound: requests, once they overlap

ASSUME UsageAssumption ==
    /\ IsFiniteSet(Files) /\ NoFile \notin Files
    /\ Sizes \subseteq Nat \ {0}
    /\ Limit \in Nat \ {0} /\ MaxUpload \in Nat \ {0}
    /\ MaxOps \in Nat /\ MaxRaced \in Nat

VARIABLES stored,     \* per file: its size in S3, 0 if it does not exist
          counter,    \* cloud:usage:<owner>; NoCount if the key is absent
          req,        \* per request: what it does and has read
          ops,        \* requests begun so far
          exact       \* history: nothing has happened that the counter misses

usageVars == <<stored, counter, req, ops, exact>>

NoCount == -1

Ops == {"read", "upload", "create", "update", "delete"}
Pcs == {"idle", "get", "compute", "seed", "admit", "measure", "write", "count",
        "set", "limit", "erase", "accepted", "refused"}

Idle == [op |-> "none", file |-> NoFile, size |-> 0, delta |-> 0, used |-> 0,
         then |-> "idle", pc |-> "idle"]

\* The bytes in S3, and how many they are.
Bytes == UNION {{f} \X (1..stored[f]) : f \in Files}
Total == Cardinality(Bytes)

UsageTypeOK ==
    /\ stored \in [Files -> {0} \cup Sizes]
    /\ counter \in Nat \cup {NoCount}
    /\ \A r \in Requests :
          /\ req[r].op \in Ops \cup {"none"} /\ req[r].file \in Files \cup {NoFile}
          /\ req[r].size \in {0} \cup Sizes /\ req[r].delta \in Int
          /\ req[r].used \in Nat
          /\ req[r].then \in Pcs /\ req[r].pc \in Pcs
    /\ ops \in 0..MaxOps /\ exact \in BOOLEAN

UsageInit ==
    /\ stored \in [Files -> {0} \cup Sizes]
    /\ counter = NoCount
    /\ req = [r \in Requests |-> Idle]
    /\ ops = 0 /\ exact = TRUE

-----------------------------------------------------------------------------

At(r, pc) == req[r].pc = pc
Set(r, new) == req' = [req EXCEPT ![r] = new]
Goto(r, pc) == Set(r, [req[r] EXCEPT !.pc = pc])
Finish(r) == Set(r, Idle)

\* GetOrSeedUsage, and what follows.
GetThen(r, fields, then) == Set(r, [fields EXCEPT !.then = then, !.pc = "get"])

Begin(r, op, f, n, pc, then) ==
    /\ At(r, "idle")
    /\ ops < IF \A s \in Requests : At(s, "idle") THEN MaxOps ELSE MaxRaced
    /\ ops' = ops + 1
    /\ Set(r, [Idle EXCEPT !.op = op, !.file = f, !.size = n, !.pc = pc, !.then = then])
    /\ exact' = (exact /\ \A s \in Requests \ {r} :
                              At(s, "idle") \/ (op = "read" /\ req[s].op = "read"))
    /\ UNCHANGED <<stored, counter>>

\* UserStorageUsage.
BeginRead(r) == Begin(r, "read", NoFile, 0, "get", "accepted")

\* A client that does not tell the TotalSize is not checked at first.
BeginUpload(r) ==
    \E f \in Files, n \in Sizes :
        Begin(r, "upload", f, n, "get", "admit") \/ Begin(r, "upload", f, n, "write", "idle")

\* DocumentService: Create, UpdateContent; CloudService: Delete.
BeginCreate(r) == \E f \in Files, n \in Sizes : Begin(r, "create", f, n, "get", "admit")
BeginUpdate(r) == \E f \in Files, n \in Sizes : Begin(r, "update", f, n, "measure", "idle")
BeginDelete(r) == \E f \in Files : Begin(r, "delete", f, 0, "measure", "idle")

\* A counter that is missing when a change is to be counted is summed up from
\* the objects as they are after the change.
GetUsage(r) ==
    /\ At(r, "get")
    /\ IF counter = NoCount
         THEN Goto(r, "compute") /\ exact' = (exact /\ req[r].then # "count")
         ELSE /\ Set(r, [req[r] EXCEPT !.used = counter, !.pc = req[r].then])
              /\ UNCHANGED exact
    /\ UNCHANGED <<stored, counter, ops>>

ComputeUsageFromS3(r) ==
    /\ At(r, "compute")
    /\ Set(r, [req[r] EXCEPT !.used = Total, !.pc = "seed"])
    /\ UNCHANGED <<stored, counter, ops, exact>>

Seed(r) ==
    /\ At(r, "seed")
    /\ counter' = req[r].used
    /\ Goto(r, req[r].then)
    /\ UNCHANGED <<stored, ops, exact>>

Admit(r) ==
    /\ At(r, "admit")
    /\ IF req[r].used + req[r].size > Limit \/ (req[r].op = "upload" /\ req[r].size > MaxUpload)
         THEN Goto(r, "refused")
         ELSE Goto(r, "write")
    /\ UNCHANGED <<stored, counter, ops, exact>>

\* Mutant of Measure: an update is counted as if nothing had been there.
MeasureWhole(r) ==
    /\ At(r, "measure")
    /\ \/ stored[req[r].file] = 0 /\ Finish(r)
       \/ /\ stored[req[r].file] > 0 /\ req[r].op = "update"
          /\ Set(r, [req[r] EXCEPT !.delta = req[r].size, !.pc = "write"])
       \/ /\ stored[req[r].file] > 0 /\ req[r].op = "delete"
          /\ Set(r, [req[r] EXCEPT !.delta = -stored[req[r].file], !.pc = "erase"])
    /\ UNCHANGED <<stored, counter, ops, exact>>

\* The size before an update (404 without one) or a deletion.
Measure(r) ==
    /\ At(r, "measure")
    /\ LET old == stored[req[r].file]
       IN  \/ old = 0 /\ Finish(r)
           \/ /\ old > 0 /\ req[r].op = "update"
              /\ Set(r, [req[r] EXCEPT !.delta = req[r].size - old, !.pc = "write"])
           \/ /\ old > 0 /\ req[r].op = "delete"
              /\ Set(r, [req[r] EXCEPT !.delta = -old, !.pc = "erase"])
    /\ UNCHANGED <<stored, counter, ops, exact>>

\* CompleteMultipartUpload, WriteContent.  What an upload replaces stays
\* counted; an update of the same size has nothing to count.
Write(r) ==
    /\ At(r, "write")
    /\ stored' = [stored EXCEPT ![req[r].file] = req[r].size]
    /\ IF req[r].op = "update"
         THEN /\ IF req[r].delta = 0 THEN Goto(r, "accepted") ELSE GetThen(r, req[r], "count")
              /\ UNCHANGED exact
         ELSE /\ GetThen(r, [req[r] EXCEPT !.delta = req[r].size], "count")
              /\ exact' = (exact /\ stored[req[r].file] = 0)
    /\ UNCHANGED <<counter, ops>>

Erase(r) ==
    /\ At(r, "erase")
    /\ stored' = [stored EXCEPT ![req[r].file] = 0]
    /\ GetThen(r, req[r], "count")
    /\ UNCHANGED <<counter, ops, exact>>

\* IncrementUsage, DecrementUsage: at least 0.
Count(r) ==
    /\ At(r, "count")
    /\ Set(r, [req[r] EXCEPT !.used = IF @ + req[r].delta < 0 THEN 0 ELSE @ + req[r].delta,
                             !.pc = "set"])
    /\ UNCHANGED <<stored, counter, ops, exact>>

\* A complete upload is checked with the new sum; one that is undone is refused.
SetUsage(r) ==
    /\ At(r, "set")
    /\ counter' = req[r].used
    /\ CASE req[r].op # "upload" -> Goto(r, "accepted")
         [] req[r].op = "upload" /\ req[r].delta > 0 -> GetThen(r, req[r], "limit")
         [] OTHER -> Goto(r, "refused")
    /\ UNCHANGED <<stored, ops, exact>>

\* Mutant of CheckLimit: an upload that fills the limit exactly is undone.
CheckLimitReached(r) ==
    /\ At(r, "limit")
    /\ IF req[r].used >= Limit \/ req[r].size > MaxUpload
         THEN Set(r, [req[r] EXCEPT !.delta = -req[r].size, !.pc = "erase"])
         ELSE Goto(r, "accepted")
    /\ UNCHANGED <<stored, counter, ops, exact>>

\* EnsureUploadedObjectWithinLimits.
CheckLimit(r) ==
    /\ At(r, "limit")
    /\ IF req[r].used > Limit \/ req[r].size > MaxUpload
         THEN Set(r, [req[r] EXCEPT !.delta = -req[r].size, !.pc = "erase"])
         ELSE Goto(r, "accepted")
    /\ UNCHANGED <<stored, counter, ops, exact>>

Answer(r) ==
    /\ At(r, "accepted") \/ At(r, "refused")
    /\ Finish(r)
    /\ UNCHANGED <<stored, counter, ops, exact>>

\* A call fails, or the process dies.
Abort(r) ==
    /\ req[r].pc \in {"compute", "write", "get", "set", "erase"}
    /\ Finish(r)
    /\ exact' = (exact /\ req[r].op = "read")
    /\ UNCHANGED <<stored, counter, ops>>

\* The default TTL of the cache, which every write starts anew.
Expire ==
    /\ counter # NoCount
    /\ counter' = NoCount
    /\ exact' = (exact \/ \A r \in Requests : At(r, "idle"))
    /\ UNCHANGED <<stored, req, ops>>

UsageNext ==
    \/ \E r \in Requests :
          \/ BeginRead(r) \/ BeginUpload(r) \/ BeginCreate(r) \/ BeginUpdate(r)
          \/ BeginDelete(r)
          \/ GetUsage(r) \/ ComputeUsageFromS3(r) \/ Seed(r) \/ Admit(r) \/ Measure(r)
          \/ Write(r) \/ Erase(r) \/ Count(r) \/ SetUsage(r) \/ CheckLimit(r)
          \/ Answer(r) \/ Abort(r)
    \/ Expire

UsageSpec == UsageInit /\ [][UsageNext]_usageVars

-----------------------------------------------------------------------------
(* Properties                                                              *)

\* Between requests the counter is what a listing would sum up to, from the
\* time it expires while nothing runs, until requests overlap or fail, a file
\* is replaced or a change is counted without a counter.
CountsStorage ==
    exact /\ (\A r \in Requests : At(r, "idle")) => counter \in {NoCount, Total}

\* As long as the counter is exact, an upload that is accepted leaves the owner
\* within the limit, and one that is refused would not fit.
UploadsFitExactly ==
    \A r \in Requests : exact /\ req[r].op = "upload" =>
        /\ At(r, "accepted") => Total <= Limit /\ req[r].size <= MaxUpload
        /\ At(r, "refused") => Total + req[r].size > Limit \/ req[r].size > MaxUpload

=============================================================================
