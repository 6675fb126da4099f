---------------------------- MODULE Storage_proofs ----------------------------
(***************************************************************************)
(* Proofs about what is kept of a storage: the bytes it uses, the scans    *)
(* for duplicates and the old versions of its objects.                     *)
(*                                                                         *)
(* The counter (CountsStorage, UploadsFitExactly), for any files, sizes,   *)
(* limits and number of requests.  Total counts the bytes of the objects,  *)
(* so that a write changes it by the difference of two sizes               *)
(* (TotalChanges).  While the counter is exact only readers overlap; the   *)
(* counter lacks what the one request that changes something has changed   *)
(* and not yet counted (Due), and what it has read and measured still      *)
(* holds (Sure).                                                           *)
(*                                                                         *)
(* Scans (OutcomeAnnounced), for any number of scans, workers and faults:  *)
(* the status of a scan nobody works on is one its job announced, or       *)
(* CANCELLED; and whatever says CANCELLED comes from a cancel request that *)
(* is still to say so, has done it, or stopped half way (ScanShape).       *)
(*                                                                         *)
(* Versions, for any number of operations on an object and any bounds:     *)
(* the survival of the current version (CurrentSurvives), the retention of *)
(* MaxOldVersions old versions and of no more (HistoryKept,                *)
(* HistoryBounded), and the completeness of purges (PurgeIsComplete).      *)
(***************************************************************************)
EXTENDS CloudUsage, CloudVersion, DuplicateScan, FiniteSetTheorems, TLAPS

-----------------------------------------------------------------------------
(* The usage counter                                                       *)

ReqRecords == [op : Ops \cup {"none"}, file : Files \cup {NoFile}, size : {0} \cup Sizes,
               delta : Int, used : Nat, then : Pcs, pc : Pcs]

UTyped ==
    /\ stored \in [Files -> {0} \cup Sizes]
    /\ counter \in Nat \cup {NoCount}
    /\ req \in [Requests -> ReqRecords]
    /\ exact \in BOOLEAN

-----------------------------------------------------------------------------
(* The bytes of the objects.                                               *)

Part(f, n) == {f} \X (1..n)

LEMMA SizesAreNat == ASSUME UTyped PROVE \A f \in Files : stored[f] \in Nat
<1>1. \A f \in Files : stored[f] \in {0} \cup Sizes
  BY DEF UTyped
<1>2. \A n \in {0} \cup Sizes : n \in Nat
  BY UsageAssumption
<1> QED BY <1>1, <1>2

LEMMA PartSize ==
  ASSUME NEW f, NEW n \in Nat
  PROVE  IsFiniteSet(Part(f, n)) /\ Cardinality(Part(f, n)) = n
<1>1. IsFiniteSet({f}) /\ Cardinality({f}) = 1
  BY FS_Singleton
<1>2. IsFiniteSet(1..n) /\ Cardinality(1..n) = n
  BY FS_Interval
<1> DEFINE S == {f}
           T == 1..n
<1>3. IsFiniteSet(S \X T) /\ Cardinality(S \X T) = Cardinality(S) * Cardinality(T)
  <2> HIDE DEF S, T
  <2>1. IsFiniteSet(S) /\ IsFiniteSet(T)
    BY <1>1, <1>2 DEF S, T
  <2> QED BY <2>1, FS_Product
<1>4. Cardinality(S) * Cardinality(T) = n
  BY <1>1, <1>2
<1> QED BY <1>3, <1>4 DEF Part

LEMMA BytesAreFinite == ASSUME UTyped PROVE IsFiniteSet(Bytes) /\ Total \in Nat
<1> DEFINE P == {Part(f, stored[f]) : f \in Files}
           F == [f \in Files |-> Part(f, stored[f])]
<1>1. F \in Surjection(Files, P)
  BY DEF Surjection
<1>2. IsFiniteSet(P)
  BY <1>1, FS_Surjection, UsageAssumption DEF ExistsSurjection
<1>3. \A T \in P : IsFiniteSet(T)
  BY SizesAreNat, PartSize
<1>4. IsFiniteSet(UNION P)
  BY <1>2, <1>3, FS_UNION
<1>5. Bytes = UNION P
  BY DEF Bytes, Part
<1> QED BY <1>4, <1>5, FS_CardinalityType DEF Total

\* A file is replaced: the sum changes by the difference of the sizes.
LEMMA TotalChanges ==
  ASSUME UTyped, UTyped', NEW f \in Files, NEW n \in {0} \cup Sizes,
         stored' = [stored EXCEPT ![f] = n]
  PROVE  Total' = Total - stored[f] + n
<1> DEFINE old == Part(f, stored[f])
           new == Part(f, n)
           rest == Bytes \ old
<1>1. stored[f] \in Nat /\ n \in Nat
  <2>1. \A x \in {0} \cup Sizes : x \in Nat
    BY UsageAssumption
  <2> QED BY <2>1, SizesAreNat
<1>2. /\ IsFiniteSet(old) /\ Cardinality(old) = stored[f]
      /\ IsFiniteSet(new) /\ Cardinality(new) = n
  BY <1>1, PartSize
<1>3. IsFiniteSet(Bytes) /\ Total \in Nat
  BY BytesAreFinite
<1>4. Bytes \cap old = old
  BY DEF Bytes, Part
<1>5. IsFiniteSet(rest) /\ Cardinality(rest) = Total - stored[f]
  <2>1. PICK B : B = Bytes
    OBVIOUS
  <2>2. PICK O : O = old
    OBVIOUS
  <2>3. IsFiniteSet(B) /\ IsFiniteSet(O) /\ B \cap O = O
    BY <1>2, <1>3, <1>4, <2>1, <2>2
  <2>4. IsFiniteSet(B \ O) /\ Cardinality(B \ O) = Cardinality(B) - Cardinality(B \cap O)
    BY ONLY <2>3, FS_Difference
  <2>5. Cardinality(B) = Total /\ Cardinality(B \cap O) = stored[f] /\ rest = B \ O
    BY <1>2, <2>1, <2>2, <2>3 DEF Total
  <2> QED BY <2>4, <2>5
<1>6. Bytes' = rest \cup new
  <2>1. \A b \in rest : b[1] \in Files /\ b[1] # f
    BY DEF Bytes, Part
  <2>2. \A b : b \in Bytes' <=> \E g \in Files : b \in {g} \X (1..stored'[g])
    BY DEF Bytes
  <2>3. \A g \in Files \ {f} : stored'[g] = stored[g]
    BY DEF UTyped
  <2>4. stored'[f] = n
    BY DEF UTyped
  <2>5. \A b : b \in rest <=> \E g \in Files \ {f} : b \in {g} \X (1..stored[g])
    BY DEF Bytes, Part
  <2>6. \A b : b \in Bytes' <=> b \in rest \/ b \in new
    BY <2>2, <2>3, <2>4, <2>5 DEF Part
  <2> QED BY <2>6
<1>7. rest \cap new = {}
  BY DEF Bytes, Part
<1>8. Cardinality(rest \cap new) = 0
  BY <1>7, FS_EmptySet
<1>9. Cardinality(rest \cup new) = Total - stored[f] + n
  <2>1. PICK R : R = rest
    OBVIOUS
  <2>2. PICK O : O = new
    OBVIOUS
  <2>3. IsFiniteSet(R) /\ IsFiniteSet(O)
    BY <1>2, <1>5, <2>1, <2>2
  <2>4. Cardinality(R \cup O) = Cardinality(R) + Cardinality(O) - Cardinality(R \cap O)
    BY ONLY <2>3, FS_Union
  <2>5. /\ Cardinality(R) = Total - stored[f] /\ Cardinality(O) = n
        /\ Cardinality(R \cap O) = 0 /\ rest \cup new = R \cup O
    BY <1>2, <1>5, <1>8, <2>1, <2>2
  <2>6. Cardinality(R \cup O) = Total - stored[f] + n
    BY ONLY <1>1, <1>3, <2>4, <2>5
  <2>7. rest \cup new = R \cup O
    BY <2>5
  <2> HIDE DEF rest, new
  <2> QED BY <2>6, <2>7
<1> QED BY <1>6, <1>9 DEF Total

Asking == {"get", "compute", "seed"}
Changes == {"upload", "create", "update", "delete"}

\* What a request will do, once it knows the usage.
Aim(q) == IF q.pc \in Asking THEN q.then ELSE q.pc

\* What a kind of request may be doing.
Shaped(q) ==
    /\ q.op = "none" <=> q.pc = "idle"
    /\ q.op = "read" => q.pc \in Asking \cup {"accepted"} /\ q.then = "accepted"
    /\ q.op \in Changes =>
          q.file \in Files /\ (q.pc \in Asking => q.then \in {"admit", "count", "limit"})
    /\ q.op \in Changes \ {"delete"} => q.size \in Sizes
    /\ Aim(q) = "admit" => q.op \in {"upload", "create"}
    /\ Aim(q) = "limit" => q.op = "upload"
    /\ Aim(q) = "write" => q.op \in {"upload", "create", "update"}
    /\ Aim(q) = "measure" => q.op \in {"update", "delete"}
    /\ Aim(q) = "erase" => q.op \in {"upload", "delete"}
    /\ Aim(q) \in {"count", "set"} => q.op \in Changes

\* What a request has changed and not counted yet.
Due(q) == IF q.pc \in {"count", "set"} \/ (q.pc = "get" /\ q.then = "count") THEN q.delta ELSE 0

Unfit(q, total) == total > Limit \/ q.size > MaxUpload

\* What is true of a request at work while the counter is exact: the counter
\* lacks what is due, and what was read and measured still holds.
Sure(q, st, total, cnt) ==
    /\ cnt \in {NoCount, total - Due(q)}
    /\ q.pc \in {"compute", "seed"} => q.then # "count"
    /\ q.pc \in {"seed", "admit", "limit", "set"} => q.used = total
    /\ q.pc = "count" => q.used = total - q.delta
    /\ q.op = "update" /\ q.pc = "write" => q.delta = q.size - st[q.file]
    /\ q.pc = "erase" => q.delta = -st[q.file]
    /\ q.op = "upload" =>
          /\ Aim(q) \in {"limit", "erase"} => st[q.file] = q.size
          /\ Aim(q) \in {"count", "set"} =>
                IF q.delta > 0 THEN st[q.file] = q.size ELSE Unfit(q, total + q.size)
          /\ q.pc = "erase" => Unfit(q, total)
          /\ q.pc = "accepted" => ~Unfit(q, total)
          /\ q.pc = "refused" => Unfit(q, total + q.size)

Working(r) == req[r].op # "none"

UsageInv ==
    /\ UTyped
    /\ \A r \in Requests : Shaped(req[r])
    /\ exact =>
          /\ \A r \in Requests : Working(r) => Sure(req[r], stored, Total, counter)
          /\ \A r, s \in Requests : r # s /\ Working(r) /\ Working(s) =>
                                       req[r].op = "read" /\ req[s].op = "read"
          /\ (\A r \in Requests : ~Working(r)) => counter \in {NoCount, Total}

LEMMA NumbersOf ==
  ASSUME UTyped
  PROVE  /\ Total \in Nat /\ Sizes \subseteq Nat /\ NoCount \in Int
         /\ Limit \in Nat /\ MaxUpload \in Nat
         /\ \A n \in Sizes : n \in Nat /\ n > 0
         /\ \A n \in {0} \cup Sizes : n \in Nat
         /\ \A f \in Files : stored[f] \in Nat
BY BytesAreFinite, SizesAreNat, UsageAssumption DEF NoCount

LEMMA TotalSame == ASSUME stored' = stored PROVE Total' = Total
BY DEF Total, Bytes

\* What a request reads does not disturb another one that only reads.
LEMMA ReadersAgree ==
  ASSUME NEW q \in ReqRecords, Shaped(q), q.op = "read", NEW st, NEW total \in Nat, NEW cnt,
         Sure(q, st, total, cnt), NEW cnt2 \in {cnt, total}
  PROVE  Sure(q, st, total, cnt2)
BY DEF Sure, Shaped, Due, ReqRecords, Asking, Aim

\* A step of one request.
LEMMA OneStep ==
  ASSUME UsageInv, NEW r \in Requests, NEW new \in ReqRecords, Set(r, new), Shaped(new),
         Working(r), new.op \in {req[r].op, "none"},
         stored' \in [Files -> {0} \cup Sizes], counter' \in Nat \cup {NoCount},
         exact' \in BOOLEAN, exact' => exact,
         exact' => new.op = "none" \/ Sure(new, stored', Total', counter'),
         exact' /\ new.op = "none" => counter' \in {NoCount, Total'},
         exact' /\ req[r].op = "read" => stored' = stored /\ counter' \in {counter, Total}
  PROVE  UsageInv'
<1>1. UTyped'
  BY DEF UsageInv, UTyped, Set
<1>2. req' \in [Requests -> ReqRecords] /\ req'[r] = new
  BY DEF UsageInv, UTyped, Set
<1>3. \A s \in Requests \ {r} : req'[s] = req[s]
  BY DEF UsageInv, UTyped, Set
<1>4. \A s \in Requests : Shaped(req'[s])
  <2> TAKE s \in Requests
  <2>1. CASE s = r BY <2>1, <1>2
  <2>2. CASE s # r BY <2>2, <1>3 DEF UsageInv
  <2> QED BY <2>1, <2>2
<1>5. ASSUME exact', NEW s \in Requests, req'[s].op # "none"
      PROVE  Sure(req'[s], stored', Total', counter')
  <2>1. CASE s = r BY <2>1, <1>2, <1>5
  <2>2. CASE s # r
    <3>1. req'[s] = req[s]
      BY <2>2, <1>3
    <3>2. req[r].op = "read" /\ req[s].op = "read"
      BY <2>2, <3>1, <1>5 DEF UsageInv, Working
    <3>3. stored' = stored /\ counter' \in {counter, Total} /\ Total' = Total
      BY <3>2, <1>5, TotalSame
    <3>4. Sure(req[s], stored, Total, counter) /\ Shaped(req[s]) /\ req[s] \in ReqRecords
      BY <3>1, <1>5 DEF UsageInv, Working, UTyped
    <3>5. Total \in Nat
      BY NumbersOf DEF UsageInv
    <3>6. Sure(req[s], stored, Total, counter')
      BY <3>2, <3>3, <3>4, <3>5, ReadersAgree
    <3> QED BY <3>1, <3>3, <3>6
  <2> QED BY <2>1, <2>2
<1>6. ASSUME exact', NEW s \in Requests, NEW t \in Requests, s # t,
             req'[s].op # "none", req'[t].op # "none"
      PROVE  req'[s].op = "read" /\ req'[t].op = "read"
  <2>1. \A x \in Requests : req'[x].op # "none" => req[x].op = req'[x].op
    BY <1>2, <1>3
  <2> QED BY <2>1, <1>6 DEF UsageInv, Working
<1>7. exact' /\ (\A s \in Requests : req'[s].op = "none") => counter' \in {NoCount, Total'}
  BY <1>2
<1>8. NoCount' = NoCount
  BY DEF NoCount
<1> QED BY <1>1, <1>4, <1>5, <1>6, <1>7, <1>8 DEF UsageInv, Working

\* What the invariant says of a request that is not idle.
LEMMA Known ==
  ASSUME UsageInv, NEW r \in Requests
  PROVE  /\ UTyped /\ req[r] \in ReqRecords /\ Shaped(req[r])
         /\ Working(r) <=> ~At(r, "idle")
         /\ exact /\ Working(r) => Sure(req[r], stored, Total, counter)
BY DEF UsageInv, UTyped, Shaped, Working, At

LEMMA IdleIsARequest == Idle \in ReqRecords /\ Shaped(Idle)
BY DEF Idle, ReqRecords, Shaped, Ops, Pcs, Aim, Asking, Changes

LEMMA InitInv == UsageInit => UsageInv
<1> SUFFICES ASSUME UsageInit PROVE UsageInv
  OBVIOUS
<1>1. UTyped
  BY IdleIsARequest DEF UsageInit, UTyped
<1>2. \A r \in Requests : req[r] = Idle
  BY DEF UsageInit
<1>3. \A r \in Requests : Shaped(req[r]) /\ ~Working(r)
  BY <1>2, IdleIsARequest DEF Working, Idle
<1>4. counter = NoCount
  BY DEF UsageInit
<1> QED BY <1>1, <1>3, <1>4 DEF UsageInv

\* A request begins.
LEMMA BeginInv ==
  ASSUME UsageInv, NEW r \in Requests,
         NEW op \in Ops, NEW f \in Files \cup {NoFile}, NEW n \in {0} \cup Sizes,
         NEW pc \in {"get", "measure", "write"}, NEW then \in {"accepted", "admit", "idle"},
         Begin(r, op, f, n, pc, then),
         Shaped([Idle EXCEPT !.op = op, !.file = f, !.size = n, !.pc = pc, !.then = then]),
         op = "update" => pc = "measure"
  PROVE  UsageInv'
<1> DEFINE new == [Idle EXCEPT !.op = op, !.file = f, !.size = n, !.pc = pc, !.then = then]
<1>1. new \in ReqRecords
  BY IdleIsARequest DEF ReqRecords, Pcs
<1>2. /\ new.op = op /\ new.pc = pc /\ new.then = then /\ new.delta = 0 /\ new.size = n
      /\ new.file = f
  BY DEF Idle
<1>3. req \in [Requests -> ReqRecords] /\ req' = [req EXCEPT ![r] = new]
  BY DEF UsageInv, UTyped, Begin, Set
<1>4. req' \in [Requests -> ReqRecords] /\ req'[r] = new /\ \A s \in Requests \ {r} : req'[s] = req[s]
  BY <1>1, <1>3
<1>5. stored' = stored /\ counter' = counter /\ Total' = Total /\ NoCount' = NoCount
  BY TotalSame DEF Begin, NoCount
<1>6. UTyped'
  BY <1>4, <1>5 DEF UsageInv, UTyped, Begin
<1>7. \A s \in Requests : Shaped(req'[s])
  BY <1>4 DEF UsageInv
<1>8. op # "none" /\ ~Working(r)
  BY Known DEF Ops, Begin
<1>9. ASSUME exact'
      PROVE  exact /\ \A s \in Requests \ {r} : Working(s) => op = "read" /\ req[s].op = "read"
  BY <1>9, Known DEF Begin
<1>10. ASSUME exact' PROVE counter \in {NoCount, Total}
  <2>1. CASE \E s \in Requests : Working(s)
    <3>1. PICK s \in Requests : Working(s)
      BY <2>1
    <3>2. req[s].op = "read" /\ Sure(req[s], stored, Total, counter) /\ Shaped(req[s])
      BY <3>1, <1>8, <1>9, <1>10 DEF UsageInv
    <3>3. Due(req[s]) = 0
      BY <3>2 DEF Due, Shaped, Asking
    <3> QED BY <3>2, <3>3, NumbersOf DEF Sure, UsageInv
  <2>2. CASE \A s \in Requests : ~Working(s)
    BY <2>2, <1>9, <1>10 DEF UsageInv
  <2> QED BY <2>1, <2>2
<1>11. ASSUME exact' PROVE Sure(new, stored, Total, counter)
  <2>1. Due(new) = 0 /\ Total \in Nat
    BY <1>2, NumbersOf DEF Due, UsageInv
  <2>2. counter \in {NoCount, Total - Due(new)}
    BY <2>1, <1>10, <1>11
  <2> HIDE DEF new
  <2>3. Aim(new) \in {"accepted", "admit", "idle", "measure", "write"}
    BY <1>2 DEF Aim, Asking
  <2> QED BY <1>2, <2>2, <2>3 DEF Sure
<1> HIDE DEF new
<1>12. ASSUME exact', NEW s \in Requests, req'[s].op # "none"
       PROVE  Sure(req'[s], stored', Total', counter')
  BY <1>4, <1>5, <1>9, <1>11, <1>12 DEF UsageInv, Working
<1>13. ASSUME exact', NEW s \in Requests, NEW t \in Requests, s # t,
              req'[s].op # "none", req'[t].op # "none"
       PROVE  req'[s].op = "read" /\ req'[t].op = "read"
  BY <1>2, <1>4, <1>9, <1>13 DEF UsageInv, Working
<1> QED BY <1>2, <1>4, <1>5, <1>6, <1>7, <1>8, <1>12, <1>13 DEF UsageInv, Working

\* The five kinds of requests that begin.
LEMMA BeginsInv ==
  ASSUME UsageInv, NEW r \in Requests,
         \/ BeginRead(r) \/ BeginUpload(r) \/ BeginCreate(r) \/ BeginUpdate(r) \/ BeginDelete(r)
  PROVE  UsageInv'
<1> DEFINE new(op, f, n, pc, then) ==
             [Idle EXCEPT !.op = op, !.file = f, !.size = n, !.pc = pc, !.then = then]
<1>1. ASSUME BeginRead(r) PROVE UsageInv'
  <2>1. Shaped(new("read", NoFile, 0, "get", "accepted"))
    BY DEF Shaped, Idle, Aim, Asking, Changes
  <2> QED BY <1>1, <2>1, BeginInv DEF BeginRead, Ops
<1>2. ASSUME NEW f \in Files, NEW n \in Sizes, NEW op \in {"upload", "create"},
             Begin(r, op, f, n, "get", "admit")
      PROVE  UsageInv'
  <2>1. Shaped(new(op, f, n, "get", "admit"))
    BY DEF Shaped, Idle, Aim, Asking, Changes
  <2> QED BY <1>2, <2>1, BeginInv DEF Ops
<1>3. ASSUME NEW f \in Files, NEW n \in Sizes, Begin(r, "upload", f, n, "write", "idle")
      PROVE  UsageInv'
  <2>1. Shaped(new("upload", f, n, "write", "idle"))
    BY DEF Shaped, Idle, Aim, Asking, Changes
  <2> QED BY <1>3, <2>1, BeginInv DEF Ops
<1>4. ASSUME NEW f \in Files, NEW n \in Sizes, Begin(r, "update", f, n, "measure", "idle")
      PROVE  UsageInv'
  <2>1. Shaped(new("update", f, n, "measure", "idle"))
    BY DEF Shaped, Idle, Aim, Asking, Changes
  <2> QED BY <1>4, <2>1, BeginInv DEF Ops
<1>5. ASSUME NEW f \in Files, Begin(r, "delete", f, 0, "measure", "idle")
      PROVE  UsageInv'
  <2>1. Shaped(new("delete", f, 0, "measure", "idle"))
    BY DEF Shaped, Idle, Aim, Asking, Changes
  <2> QED BY <1>5, <2>1, BeginInv DEF Ops
<1> QED BY <1>1, <1>2, <1>3, <1>4, <1>5 DEF BeginUpload, BeginCreate, BeginUpdate, BeginDelete

LEMMA AllPcs ==
    /\ "idle" \in Pcs /\ "get" \in Pcs /\ "compute" \in Pcs /\ "seed" \in Pcs
    /\ "admit" \in Pcs /\ "measure" \in Pcs /\ "write" \in Pcs /\ "count" \in Pcs
    /\ "set" \in Pcs /\ "limit" \in Pcs /\ "erase" \in Pcs /\ "accepted" \in Pcs
    /\ "refused" \in Pcs
BY DEF Pcs

LEMMA StepsInv ==
  ASSUME UsageInv, NEW r \in Requests
  PROVE  /\ GetUsage(r) => UsageInv'
         /\ ComputeUsageFromS3(r) => UsageInv'
         /\ Seed(r) => UsageInv'
         /\ Admit(r) => UsageInv'
<1> DEFINE q == req[r]
<1>0. /\ UTyped /\ q \in ReqRecords /\ Shaped(q) 
      /\ Working(r) <=> q.pc # "idle"
      /\ exact /\ Working(r) => Sure(q, stored, Total, counter)
  BY Known DEF At
<1>1. /\ Total \in Nat /\ NoCount = -1 /\ Limit \in Nat /\ MaxUpload \in Nat
      /\ q.delta \in Int /\ q.used \in Nat /\ q.size \in Nat /\ counter \in Nat \cup {-1}
      /\ stored \in [Files -> {0} \cup Sizes] /\ exact \in BOOLEAN
  <2>1. /\ q.delta \in Int /\ q.used \in Nat /\ q.size \in {0} \cup Sizes
        /\ counter \in Nat \cup {-1} /\ stored \in [Files -> {0} \cup Sizes] /\ exact \in BOOLEAN
    BY <1>0 DEF ReqRecords, UTyped, NoCount
  <2> QED BY <1>0, <2>1, NumbersOf DEF NoCount
<1>2. stored' = stored => Total' = Total
  BY TotalSame
<1> HIDE DEF q
<1>3. ASSUME GetUsage(r) PROVE UsageInv'
  <2> DEFINE new == IF counter = NoCount THEN [q EXCEPT !.pc = "compute"]
                    ELSE [q EXCEPT !.used = counter, !.pc = q.then]
  <2>1. new \in ReqRecords
    BY <1>0, <1>1, AllPcs DEF ReqRecords
  <2>2. Set(r, new) /\ q.pc = "get" /\ stored' = stored /\ counter' = counter
        /\ exact' = (exact /\ (counter = NoCount => q.then # "count"))
    BY <1>3, <1>1 DEF GetUsage, At, Goto, q
  <2>3. Working(r) /\ new.op = q.op
    BY <1>0, <2>2 DEF ReqRecords
  <2>4. Shaped(new)
    <3>1. new.op = q.op /\ new.file = q.file /\ new.size = q.size /\ new.then = q.then
      BY <1>0 DEF ReqRecords
    <3>2. IF q.pc = "admit" THEN new.pc = Aim(new) /\ Aim(new) \in {"refused", "write"}
                            ELSE Aim(new) = q.then
      BY <1>0, <2>2 DEF ReqRecords, Aim, Asking
    <3>3. new.pc \in {q.then, "compute", "seed"} \/ q.pc = "admit"
      BY <1>0, <2>2 DEF ReqRecords
    <3>4. q.op \in Changes \cup {"read"} /\ q.pc \in Asking \cup {"admit"}
      BY <1>0, <2>2, <2>3 DEF ReqRecords, Ops, Changes, Asking, Shaped
    <3>5. Aim(q) = IF q.pc = "admit" THEN "admit" ELSE q.then
      BY <3>4 DEF Aim, Asking
    <3>6. q.pc # "admit" => q.then \in {"accepted", "admit", "count", "limit"}
      BY <1>0, <3>4 DEF Shaped, Asking
    <3> HIDE DEF new
    <3> QED BY <1>0, <3>1, <3>2, <3>3, <3>4, <3>5, <3>6 DEF Shaped, Asking, Changes
  <2>5. ASSUME exact' PROVE Sure(new, stored, Total, counter)
    <3>1. exact /\ Sure(q, stored, Total, counter) /\ (counter = NoCount => q.then # "count")
      BY <1>0, <2>2, <2>3, <2>5
    <3>2. CASE counter = NoCount
      BY <3>1, <3>2, <2>2, <1>0, <1>1 DEF Sure, Shaped, ReqRecords, Aim, Asking, Changes, Due, Unfit
    <3>3. CASE counter # NoCount
      BY <3>1, <3>3, <2>2, <1>0, <1>1 DEF Sure, Shaped, ReqRecords, Aim, Asking, Changes, Due, Unfit
    <3> QED BY <3>2, <3>3
  <2> HIDE DEF new
  <2>6. q.op # "none" /\ exact' \in BOOLEAN
    BY <1>1, <2>2, <2>3 DEF Working, q
  <2> QED BY <1>0, <1>1, <1>2, <2>1, <2>2, <2>3, <2>4, <2>5, <2>6, OneStep DEF q, NoCount
<1>4. ASSUME ComputeUsageFromS3(r) PROVE UsageInv'
  <2> DEFINE new == [q EXCEPT !.used = Total, !.pc = "seed"]
  <2>1. new \in ReqRecords
    BY <1>0, <1>1, AllPcs DEF ReqRecords
  <2>2. Set(r, new) /\ q.pc = "compute" /\ stored' = stored /\ counter' = counter /\ exact' = exact
    BY <1>4 DEF ComputeUsageFromS3, At, q
  <2>3. Working(r) /\ new.op = q.op
    BY <1>0, <2>2 DEF ReqRecords
  <2>4. Shaped(new)
    <3>1. new.op = q.op /\ new.file = q.file /\ new.size = q.size /\ new.then = q.then
      BY <1>0 DEF ReqRecords
    <3>2. IF q.pc = "admit" THEN new.pc = Aim(new) /\ Aim(new) \in {"refused", "write"}
                            ELSE Aim(new) = q.then
      BY <1>0, <2>2 DEF ReqRecords, Aim, Asking
    <3>3. new.pc \in {q.then, "compute", "seed"} \/ q.pc = "admit"
      BY <1>0, <2>2 DEF ReqRecords
    <3>4. q.op \in Changes \cup {"read"} /\ q.pc \in Asking \cup {"admit"}
      BY <1>0, <2>2, <2>3 DEF ReqRecords, Ops, Changes, Asking, Shaped
    <3>5. Aim(q) = IF q.pc = "admit" THEN "admit" ELSE q.then
      BY <3>4 DEF Aim, Asking
    <3>6. q.pc # "admit" => q.then \in {"accepted", "admit", "count", "limit"}
      BY <1>0, <3>4 DEF Shaped, Asking
    <3> HIDE DEF new
    <3> QED BY <1>0, <3>1, <3>2, <3>3, <3>4, <3>5, <3>6 DEF Shaped, Asking, Changes
  <2>5. ASSUME exact PROVE Sure(new, stored, Total, counter)
    <3>1. Sure(q, stored, Total, counter)
      BY <1>0, <2>3, <2>5
    <3> QED BY <3>1, <2>2, <1>0, <1>1 DEF Sure, Shaped, ReqRecords, Aim, Asking, Changes, Due, Unfit
  <2> HIDE DEF new
  <2>6. q.op # "none"
    BY <2>3 DEF Working, q
  <2> QED BY <1>0, <1>1, <1>2, <2>1, <2>2, <2>3, <2>4, <2>5, <2>6, OneStep DEF q, NoCount
<1>5. ASSUME Seed(r) PROVE UsageInv'
  <2> DEFINE new == [q EXCEPT !.pc = q.then]
  <2>1. new \in ReqRecords
    BY <1>0, <1>1, AllPcs DEF ReqRecords
  <2>2. Set(r, new) /\ q.pc = "seed" /\ stored' = stored /\ counter' = q.used /\ exact' = exact
    BY <1>5 DEF Seed, Goto, At, q
  <2>3. Working(r) /\ new.op = q.op
    BY <1>0, <2>2 DEF ReqRecords
  <2>4. Shaped(new)
    <3>1. new.op = q.op /\ new.file = q.file /\ new.size = q.size /\ new.then = q.then
      BY <1>0 DEF ReqRecords
    <3>2. IF q.pc = "admit" THEN new.pc = Aim(new) /\ Aim(new) \in {"refused", "write"}
                            ELSE Aim(new) = q.then
      BY <1>0, <2>2 DEF ReqRecords, Aim, Asking
    <3>3. new.pc \in {q.then, "compute", "seed"} \/ q.pc = "admit"
      BY <1>0, <2>2 DEF ReqRecords
    <3>4. q.op \in Changes \cup {"read"} /\ q.pc \in Asking \cup {"admit"}
      BY <1>0, <2>2, <2>3 DEF ReqRecords, Ops, Changes, Asking, Shaped
    <3>5. Aim(q) = IF q.pc = "admit" THEN "admit" ELSE q.then
      BY <3>4 DEF Aim, Asking
    <3>6. q.pc # "admit" => q.then \in {"accepted", "admit", "count", "limit"}
      BY <1>0, <3>4 DEF Shaped, Asking
    <3> HIDE DEF new
    <3> QED BY <1>0, <3>1, <3>2, <3>3, <3>4, <3>5, <3>6 DEF Shaped, Asking, Changes
  <2>5. ASSUME exact PROVE Sure(new, stored, Total, q.used) /\ q.used = Total
    <3>1. Sure(q, stored, Total, counter)
      BY <1>0, <2>3, <2>5
    <3> QED BY <3>1, <2>2, <1>0, <1>1 DEF Sure, Shaped, ReqRecords, Aim, Asking, Changes, Due, Unfit
  <2> HIDE DEF new
  <2>6. q.op # "none"
    BY <2>3 DEF Working, q
  <2> QED BY <1>0, <1>1, <1>2, <2>1, <2>2, <2>3, <2>4, <2>5, <2>6, OneStep DEF q, NoCount
<1>6. ASSUME Admit(r) PROVE UsageInv'
  <2> DEFINE out == q.used + q.size > Limit \/ (q.op = "upload" /\ q.size > MaxUpload)
             new == [q EXCEPT !.pc = IF out THEN "refused" ELSE "write"]
  <2>1. new \in ReqRecords
    BY <1>0, <1>1, AllPcs DEF ReqRecords
  <2>2. Set(r, new) /\ q.pc = "admit" /\ stored' = stored /\ counter' = counter /\ exact' = exact
    BY <1>6 DEF Admit, Goto, At, q
  <2>3. Working(r) /\ new.op = q.op
    BY <1>0, <2>2 DEF ReqRecords
  <2>4. Shaped(new)
    <3>1. new.op = q.op /\ new.file = q.file /\ new.size = q.size /\ new.then = q.then
      BY <1>0 DEF ReqRecords
    <3>2. IF q.pc = "admit" THEN new.pc = Aim(new) /\ Aim(new) \in {"refused", "write"}
                            ELSE Aim(new) = q.then
      BY <1>0, <2>2 DEF ReqRecords, Aim, Asking
    <3>3. new.pc \in {q.then, "compute", "seed"} \/ q.pc = "admit"
      BY <1>0, <2>2 DEF ReqRecords
    <3>4. q.op \in Changes \cup {"read"} /\ q.pc \in Asking \cup {"admit"}
      BY <1>0, <2>2, <2>3 DEF ReqRecords, Ops, Changes, Asking, Shaped
    <3>5. Aim(q) = IF q.pc = "admit" THEN "admit" ELSE q.then
      BY <3>4 DEF Aim, Asking
    <3>6. q.pc # "admit" => q.then \in {"accepted", "admit", "count", "limit"}
      BY <1>0, <3>4 DEF Shaped, Asking
    <3> HIDE DEF new
    <3> QED BY <1>0, <3>1, <3>2, <3>3, <3>4, <3>5, <3>6 DEF Shaped, Asking, Changes
  <2>5. ASSUME exact PROVE Sure(new, stored, Total, counter)
    <3>1. Sure(q, stored, Total, counter)
      BY <1>0, <2>3, <2>5
    <3> QED BY <3>1, <2>2, <1>0, <1>1 DEF Sure, Shaped, ReqRecords, Aim, Asking, Changes, Due, Unfit
  <2> HIDE DEF new
  <2>6. q.op # "none"
    BY <2>3 DEF Working, q
  <2> QED BY <1>0, <1>1, <1>2, <2>1, <2>2, <2>3, <2>4, <2>5, <2>6, OneStep DEF q, NoCount
<1> QED BY <1>3, <1>4, <1>5, <1>6

\* What the steps below start from.
LEMMA Standing ==
  ASSUME UsageInv, NEW r \in Requests, NEW q, q = req[r]
  PROVE  /\ UTyped /\ q \in ReqRecords /\ Shaped(q)
         /\ Working(r) <=> q.pc # "idle"
         /\ q.pc # "idle" => q.op \in Changes \cup {"read"}
         /\ exact /\ Working(r) => Sure(q, stored, Total, counter)
         /\ Total \in Nat /\ NoCount = -1 /\ Limit \in Nat /\ MaxUpload \in Nat
         /\ q.delta \in Int /\ q.used \in Nat /\ q.size \in Nat /\ counter \in Nat \cup {-1}
         /\ q.op \in Changes => q.file \in Files /\ stored[q.file] \in Nat
         /\ q.op \in Changes \ {"delete"} => q.size > 0
         /\ stored \in [Files -> {0} \cup Sizes] /\ exact \in BOOLEAN
<1>1. /\ UTyped /\ q \in ReqRecords /\ Shaped(q)
      /\ Working(r) <=> q.pc # "idle"
      /\ exact /\ Working(r) => Sure(q, stored, Total, counter)
  BY Known DEF At
<1>2. /\ q.delta \in Int /\ q.used \in Nat /\ q.size \in {0} \cup Sizes /\ q.op \in Ops \cup {"none"}
      /\ counter \in Nat \cup {-1} /\ stored \in [Files -> {0} \cup Sizes] /\ exact \in BOOLEAN
  BY <1>1 DEF ReqRecords, UTyped, NoCount
<1>3. q.pc # "idle" => q.op \in Changes \cup {"read"}
  BY <1>1, <1>2 DEF Shaped, Ops, Changes
<1>4. /\ q.op \in Changes => q.file \in Files
      /\ q.op \in Changes \ {"delete"} => q.size \in Sizes
  BY <1>1 DEF Shaped
<1> QED BY <1>1, <1>2, <1>3, <1>4, NumbersOf DEF NoCount

LEMMA RenewedPc ==
  ASSUME NEW q \in ReqRecords, NEW pc \in Pcs
  PROVE  [q EXCEPT !.pc = pc] \in ReqRecords
BY DEF ReqRecords

LEMMA RenewedDelta ==
  ASSUME NEW q \in ReqRecords, NEW d \in Int, NEW pc \in Pcs
  PROVE  [q EXCEPT !.delta = d, !.pc = pc] \in ReqRecords
BY DEF ReqRecords

LEMMA RenewedUsed ==
  ASSUME NEW q \in ReqRecords, NEW u \in Nat, NEW pc \in Pcs
  PROVE  [q EXCEPT !.used = u, !.pc = pc] \in ReqRecords
BY DEF ReqRecords

LEMMA RenewedThen ==
  ASSUME NEW q \in ReqRecords
  PROVE  /\ [q EXCEPT !.then = "count", !.pc = "get"] \in ReqRecords
         /\ [q EXCEPT !.then = "limit", !.pc = "get"] \in ReqRecords
BY AllPcs DEF ReqRecords

\* A request ends while nothing is due.
LEMMA FinishInv ==
  ASSUME UsageInv, NEW r \in Requests, Working(r), Finish(r), stored' = stored, counter' = counter,
         exact' \in BOOLEAN, exact' => exact /\ Due(req[r]) = 0
  PROVE  UsageInv'
<1>1. PICK q : q = req[r]
  OBVIOUS
<1>2. Total' = Total /\ Total \in Nat /\ NoCount = -1 /\ counter \in Nat \cup {-1}
      /\ stored \in [Files -> {0} \cup Sizes]
  BY <1>1, Standing, TotalSame
<1>3. exact' => exact /\ counter \in {NoCount, Total}
  BY <1>1, <1>2, Standing DEF Sure
<1>4. Idle \in ReqRecords /\ Shaped(Idle) /\ Idle.op = "none"
  BY IdleIsARequest DEF Idle
<1> QED BY <1>2, <1>3, <1>4, OneStep DEF Finish, NoCount

LEMMA MeasureInv == ASSUME UsageInv, NEW r \in Requests, Measure(r) PROVE UsageInv'
<1>1. PICK q : q = req[r]
  OBVIOUS
<1>2. q.pc = "measure" /\ q.op \in {"update", "delete"} /\ Working(r) /\ Due(q) = 0
  BY <1>1, Standing DEF Measure, At, Shaped, Aim, Asking, Due
<1>3. stored' = stored /\ counter' = counter /\ exact' = exact /\ Total' = Total
  BY TotalSame DEF Measure
<1>4. CASE stored[q.file] = 0
  <2>1. Finish(r)
    BY <1>1, <1>4 DEF Measure
  <2>2. exact \in BOOLEAN
    BY <1>1, Standing
  <2> QED BY <1>1, <1>2, <1>3, <2>1, <2>2, FinishInv
<1>5. CASE stored[q.file] # 0
  <2> DEFINE new == IF q.op = "update"
                      THEN [q EXCEPT !.delta = q.size - stored[q.file], !.pc = "write"]
                      ELSE [q EXCEPT !.delta = -stored[q.file], !.pc = "erase"]
  <2>1. Set(r, new)
    BY <1>1, <1>2, <1>5 DEF Measure
  <2>2. new \in ReqRecords
    <3>1. q \in ReqRecords /\ q.size \in Nat /\ stored[q.file] \in Nat
      BY <1>1, <1>2, Standing DEF Changes
    <3>2. q.size - stored[q.file] \in Int /\ -stored[q.file] \in Int
      BY <3>1
    <3> QED BY <3>1, <3>2, RenewedPc, RenewedDelta, RenewedUsed, AllPcs
  <2>3. /\ new.op = q.op /\ new.file = q.file /\ new.size = q.size /\ new.then = q.then
        /\ new.pc = IF q.op = "update" THEN "write" ELSE "erase"
        /\ new.delta = IF q.op = "update" THEN q.size - stored[q.file] ELSE -stored[q.file]
    BY <1>1, Standing DEF ReqRecords
  <2> HIDE DEF new
  <2>4. Shaped(new)
    BY <1>1, <1>2, <2>3, Standing DEF Shaped, Aim, Asking, Changes
  <2>5. ASSUME exact PROVE Sure(new, stored, Total, counter)
    <3>1. Sure(q, stored, Total, counter) /\ Due(new) = 0
      BY <1>1, <1>2, <2>3, <2>5, Standing DEF Due
    <3> QED BY <1>2, <2>3, <3>1 DEF Sure
  <2> QED BY <1>1, <1>2, <1>3, <2>1, <2>2, <2>3, <2>4, <2>5, Standing, OneStep DEF NoCount
<1> QED BY <1>4, <1>5

LEMMA CountInv == ASSUME UsageInv, NEW r \in Requests, Count(r) PROVE UsageInv'
<1>1. PICK q : q = req[r]
  OBVIOUS
<1> DEFINE sum == IF q.used + q.delta < 0 THEN 0 ELSE q.used + q.delta
           new == [q EXCEPT !.used = sum, !.pc = "set"]
<1>2. q.pc = "count" /\ q.op \in Changes /\ Working(r)
  BY <1>1, Standing DEF Count, At, Shaped, Aim, Asking
<1>3. stored' = stored /\ counter' = counter /\ exact' = exact /\ Total' = Total /\ Set(r, new)
  BY <1>1, TotalSame DEF Count
<1>4. sum \in Nat
  BY <1>1, Standing
<1>5. new \in ReqRecords
  <2>1. q \in ReqRecords
    BY <1>1, Standing
  <2>2. PICK u : u = sum
    OBVIOUS
  <2>3. u \in Nat /\ new = [q EXCEPT !.used = u, !.pc = "set"]
    BY <1>4, <2>2
  <2> HIDE DEF new
  <2> QED BY <2>1, <2>3, RenewedPc, RenewedDelta, RenewedUsed, AllPcs
<1>6. /\ new.op = q.op /\ new.file = q.file /\ new.size = q.size /\ new.then = q.then
      /\ new.pc = "set" /\ new.delta = q.delta /\ new.used = sum
  BY <1>1, Standing DEF ReqRecords
<1> HIDE DEF new
<1>7. Shaped(new)
  BY <1>1, <1>2, <1>6, Standing DEF Shaped, Aim, Asking, Changes
<1>8. ASSUME exact PROVE Sure(new, stored, Total, counter)
  <2>1. Sure(q, stored, Total, counter) /\ Due(new) = q.delta /\ Due(q) = q.delta
    BY <1>1, <1>2, <1>6, <1>8, Standing DEF Due
  <2>2. q.used = Total - q.delta
    BY <1>2, <2>1 DEF Sure
  <2>3. sum = Total
    BY <1>1, <2>2, Standing
  <2> HIDE DEF sum
  <2>4. Aim(new) = "set" /\ Aim(q) = "count"
    BY <1>2, <1>6 DEF Aim, Asking
  <2> QED BY <1>2, <1>6, <2>1, <2>3, <2>4 DEF Sure, Unfit
<1> QED BY <1>1, <1>2, <1>3, <1>5, <1>6, <1>7, <1>8, Standing, OneStep DEF NoCount, Changes

LEMMA CheckLimitInv == ASSUME UsageInv, NEW r \in Requests, CheckLimit(r) PROVE UsageInv'
<1>1. PICK q : q = req[r]
  OBVIOUS
<1> DEFINE out == q.used > Limit \/ q.size > MaxUpload
           new == IF out THEN [q EXCEPT !.delta = -q.size, !.pc = "erase"]
                  ELSE [q EXCEPT !.pc = "accepted"]
<1>2. q.pc = "limit" /\ q.op = "upload" /\ Working(r)
  BY <1>1, Standing DEF CheckLimit, At, Shaped, Aim, Asking
<1>3. stored' = stored /\ counter' = counter /\ exact' = exact /\ Total' = Total /\ Set(r, new)
  BY <1>1, TotalSame DEF CheckLimit, Goto
<1>4. new \in ReqRecords
  <2>1. q \in ReqRecords /\ -q.size \in Int
    BY <1>1, Standing
  <2> QED BY <2>1, RenewedPc, RenewedDelta, RenewedUsed, RenewedThen, AllPcs
<1>5. /\ new.op = q.op /\ new.file = q.file /\ new.size = q.size /\ new.then = q.then
      /\ new.pc = (IF out THEN "erase" ELSE "accepted") /\ new.used = q.used
      /\ new.delta = IF out THEN -q.size ELSE q.delta
  BY <1>1, Standing DEF ReqRecords
<1> HIDE DEF new
<1>6. Shaped(new)
  BY <1>1, <1>2, <1>5, Standing DEF Shaped, Aim, Asking, Changes
<1>7. ASSUME exact PROVE Sure(new, stored, Total, counter)
  <2>1. Sure(q, stored, Total, counter) /\ Due(new) = 0 /\ Due(q) = 0
    BY <1>1, <1>2, <1>5, <1>7, Standing DEF Due
  <2>2. Aim(new) = new.pc /\ Aim(q) = "limit"
    BY <1>2, <1>5 DEF Aim, Asking
  <2>3. q.used = Total /\ stored[q.file] = q.size
    BY <1>2, <2>1, <2>2 DEF Sure
  <2> QED BY <1>1, <1>2, <1>5, <2>1, <2>2, <2>3, Standing DEF Sure, Unfit, Changes
<1> QED BY <1>1, <1>2, <1>3, <1>4, <1>5, <1>6, <1>7, Standing, OneStep DEF NoCount

LEMMA SetUsageInv == ASSUME UsageInv, NEW r \in Requests, SetUsage(r) PROVE UsageInv'
<1>1. PICK q : q = req[r]
  OBVIOUS
<1> DEFINE new == CASE q.op # "upload" -> [q EXCEPT !.pc = "accepted"]
                    [] q.op = "upload" /\ q.delta > 0 -> [q EXCEPT !.then = "limit", !.pc = "get"]
                    [] OTHER -> [q EXCEPT !.pc = "refused"]
<1>2. q.pc = "set" /\ q.op \in Changes /\ Working(r)
  BY <1>1, Standing DEF SetUsage, At, Shaped, Aim, Asking
<1>3. stored' = stored /\ counter' = q.used /\ exact' = exact /\ Total' = Total /\ Set(r, new)
  BY <1>1, TotalSame DEF SetUsage, Goto, GetThen
<1>4. new \in ReqRecords
  <2>1. q \in ReqRecords /\ -q.size \in Int
    BY <1>1, Standing
  <2> QED BY <2>1, RenewedPc, RenewedDelta, RenewedUsed, RenewedThen, AllPcs
<1>5. /\ new.op = q.op /\ new.file = q.file /\ new.size = q.size
      /\ new.pc = (IF q.op # "upload" THEN "accepted" ELSE IF q.delta > 0 THEN "get" ELSE "refused")
      /\ new.delta = q.delta
      /\ new.then = IF q.op = "upload" /\ q.delta > 0 THEN "limit" ELSE q.then
  BY <1>1, Standing DEF ReqRecords
<1> HIDE DEF new
<1>6. Shaped(new)
  BY <1>1, <1>2, <1>5, Standing DEF Shaped, Aim, Asking, Changes
<1>7. ASSUME exact PROVE Sure(new, stored, Total, q.used)
  <2>1. Sure(q, stored, Total, counter) /\ Due(new) = 0
    BY <1>1, <1>2, <1>5, <1>7, Standing DEF Due
  <2>2. Aim(new) = (IF new.pc = "get" THEN "limit" ELSE new.pc) /\ Aim(q) = "set"
    BY <1>2, <1>5 DEF Aim, Asking
  <2>3. q.used = Total
    BY <1>2, <2>1 DEF Sure
  <2>4. q.used \in {NoCount, Total - Due(new)}
    BY <2>1, <2>3, <1>1, Standing
  <2>5. q.op = "upload" => IF q.delta > 0 THEN stored[q.file] = q.size ELSE Unfit(q, Total + q.size)
    BY <2>1, <2>2 DEF Sure
  <2> QED BY <1>1, <1>2, <1>5, <2>2, <2>4, <2>5, Standing DEF Sure, Unfit
<1> QED BY <1>1, <1>2, <1>3, <1>4, <1>5, <1>6, <1>7, Standing, OneStep DEF NoCount, Changes

LEMMA WriteInv == ASSUME UsageInv, NEW r \in Requests, Write(r) PROVE UsageInv'
<1>1. PICK q : q = req[r]
  OBVIOUS
<1> DEFINE d == IF q.op = "update" THEN q.delta ELSE q.size
           same == q.op = "update" /\ q.delta = 0
           new == IF q.op = "update"
                    THEN IF q.delta = 0 THEN [q EXCEPT !.pc = "accepted"]
                         ELSE [q EXCEPT !.then = "count", !.pc = "get"]
                    ELSE [[q EXCEPT !.delta = q.size] EXCEPT !.then = "count", !.pc = "get"]
<1>2. q.pc = "write" /\ q.op \in Changes \ {"delete"} /\ Working(r)
  BY <1>1, Standing DEF Write, At, Shaped, Aim, Asking, Changes
<1>3. /\ stored' = [stored EXCEPT ![q.file] = q.size] /\ counter' = counter /\ Set(r, new)
      /\ exact' = (exact /\ (q.op # "update" => stored[q.file] = 0))
  <2>1. exact \in BOOLEAN
    BY <1>1, Standing
  <2> QED BY <1>1, <2>1 DEF Write, Goto, GetThen
<1>4. new \in ReqRecords
  <2>1. q \in ReqRecords /\ q.size \in Nat
    BY <1>1, Standing
  <2>2. [q EXCEPT !.delta = q.size] \in ReqRecords
    BY <2>1 DEF ReqRecords
  <2>3. PICK x : x = [q EXCEPT !.delta = q.size]
    OBVIOUS
  <2>4. [x EXCEPT !.then = "count", !.pc = "get"] \in ReqRecords
    BY <2>2, <2>3, RenewedThen
  <2>5. new \in {[q EXCEPT !.pc = "accepted"], [q EXCEPT !.then = "count", !.pc = "get"],
                [x EXCEPT !.then = "count", !.pc = "get"]}
    BY <2>3
  <2> HIDE DEF new
  <2>6. [q EXCEPT !.pc = "accepted"] \in ReqRecords
    BY <2>1, RenewedPc, AllPcs
  <2>7. [q EXCEPT !.then = "count", !.pc = "get"] \in ReqRecords
    BY <2>1, RenewedThen
  <2> QED BY <2>4, <2>5, <2>6, <2>7
<1>5. /\ new.op = q.op /\ new.file = q.file /\ new.size = q.size /\ new.delta = d
      /\ new.pc = (IF same THEN "accepted" ELSE "get")
      /\ new.then = IF same THEN q.then ELSE "count"
  BY <1>1, Standing DEF ReqRecords
<1>6. q.file \in Files /\ q.size \in Sizes /\ q.size > 0 /\ q.size \in Nat
  BY <1>1, <1>2, Standing DEF Shaped
<1>7. stored' \in [Files -> {0} \cup Sizes] /\ stored'[q.file] = q.size
  BY <1>1, <1>3, <1>6, Standing
<1>8. Set(r, new) /\ new \in ReqRecords /\ counter' \in Nat \cup {NoCount} /\ exact' \in BOOLEAN
  BY <1>1, <1>3, <1>4, Standing DEF NoCount
<1> HIDE DEF new
<1>9. Total' = Total - stored[q.file] + q.size
  <2>1. UTyped /\ UTyped'
    BY <1>1, <1>7, <1>8, Standing DEF UTyped, Set
  <2> QED BY <1>3, <1>6, <2>1, TotalChanges
<1>10. Shaped(new)
  BY <1>1, <1>2, <1>5, Standing DEF Shaped, Aim, Asking, Changes
<1>11. ASSUME exact' PROVE Sure(new, stored', Total', counter)
  <2>1. Sure(q, stored, Total, counter) /\ Due(q) = 0 /\ exact
    BY <1>1, <1>2, <1>3, <1>11, Standing DEF Due
  <2>2. d = q.size - stored[q.file]
    <3>1. q.op # "update" => stored[q.file] = 0
      BY <1>3, <1>11
    <3>2. q.op = "update" => q.delta = q.size - stored[q.file]
      BY <1>2, <2>1 DEF Sure
    <3> QED BY <1>6, <3>1, <3>2
  <2>3. Total \in Nat /\ stored[q.file] \in Nat /\ NoCount = -1 /\ counter \in Nat \cup {-1}
    BY <1>1, <1>2, Standing DEF Changes
  <2>4. Total' = Total + d
    BY <1>6, <1>9, <2>2, <2>3
  <2>5. Due(new) = d
    BY <1>5 DEF Due
  <2>6. counter \in {NoCount, Total}
    BY <2>1, <2>3 DEF Sure
  <2>7. counter \in {NoCount, Total' - Due(new)}
    BY <1>6, <2>2, <2>3, <2>4, <2>5, <2>6
  <2>8. Aim(new) = IF same THEN "accepted" ELSE "count"
    BY <1>5 DEF Aim, Asking
  <2>9. q.op = "upload" => ~same /\ d > 0 /\ stored'[q.file] = q.size
    BY <1>6, <1>7
  <2> HIDE DEF d, same
  <2> QED BY <1>2, <1>5, <2>7, <2>8, <2>9 DEF Sure
<1> QED BY <1>1, <1>2, <1>3, <1>5, <1>7, <1>8, <1>10, <1>11, OneStep DEF Changes

LEMMA EraseInv == ASSUME UsageInv, NEW r \in Requests, Erase(r) PROVE UsageInv'
<1>1. PICK q : q = req[r]
  OBVIOUS
<1> DEFINE new == [q EXCEPT !.then = "count", !.pc = "get"]
<1>2. q.pc = "erase" /\ q.op \in {"upload", "delete"} /\ Working(r)
  BY <1>1, Standing DEF Erase, At, Shaped, Aim, Asking
<1>3. /\ stored' = [stored EXCEPT ![q.file] = 0] /\ counter' = counter /\ Set(r, new)
      /\ exact' = exact
  BY <1>1 DEF Erase, GetThen
<1>4. new \in ReqRecords
  <2>1. q \in ReqRecords
    BY <1>1, Standing
  <2> QED BY <2>1, RenewedPc, RenewedThen, AllPcs
<1>5. /\ new.op = q.op /\ new.file = q.file /\ new.size = q.size /\ new.delta = q.delta
      /\ new.pc = "get" /\ new.then = "count"
  BY <1>1, Standing DEF ReqRecords
<1>6. q.file \in Files /\ q.size \in Nat /\ stored[q.file] \in Nat
  BY <1>1, <1>2, Standing DEF Changes
<1>7. stored' \in [Files -> {0} \cup Sizes] /\ stored'[q.file] = 0
  BY <1>1, <1>3, <1>6, Standing
<1>8. counter' \in Nat \cup {NoCount} /\ exact' \in BOOLEAN
  BY <1>1, <1>3, Standing DEF NoCount
<1> HIDE DEF new
<1>9. Total' = Total - stored[q.file]
  <2>1. UTyped /\ UTyped'
    BY <1>1, <1>3, <1>4, <1>7, <1>8, Standing DEF UTyped, Set
  <2>2. Total' = Total - stored[q.file] + 0
    BY <1>3, <1>6, <2>1, TotalChanges
  <2> QED BY <1>1, <1>6, <2>2, Standing
<1>10. Shaped(new)
  BY <1>1, <1>2, <1>5, Standing DEF Shaped, Aim, Asking, Changes
<1>11. ASSUME exact PROVE Sure(new, stored', Total', counter)
  <2>1. Sure(q, stored, Total, counter) /\ Due(q) = 0
    BY <1>1, <1>2, <1>11, Standing DEF Due
  <2>2. q.delta = -stored[q.file]
    BY <1>2, <2>1 DEF Sure
  <2>3. Total \in Nat /\ NoCount = -1 /\ counter \in Nat \cup {-1} /\ Limit \in Nat /\ MaxUpload \in Nat
    BY <1>1, Standing
  <2>4. counter \in {NoCount, Total}
    BY <2>1, <2>3 DEF Sure
  <2>5. Due(new) = q.delta
    BY <1>5 DEF Due
  <2>6. counter \in {NoCount, Total' - Due(new)}
    BY <1>6, <1>9, <2>2, <2>3, <2>4, <2>5
  <2>7. Aim(new) = "count" /\ Aim(q) = "erase"
    BY <1>2, <1>5 DEF Aim, Asking
  <2>8. q.op = "upload" => ~(q.delta > 0) /\ Unfit(new, Total' + q.size)
    <3>1. q.op = "upload" => stored[q.file] = q.size /\ Unfit(q, Total)
      BY <1>2, <2>1, <2>7 DEF Sure
    <3>2. q.op = "upload" => Total' + q.size = Total /\ ~(q.delta > 0)
      BY <1>6, <1>9, <2>2, <2>3, <3>1
    <3> QED BY <1>5, <3>1, <3>2 DEF Unfit
  <2> QED BY <1>2, <1>5, <2>6, <2>7, <2>8 DEF Sure
<1> QED BY <1>1, <1>2, <1>3, <1>4, <1>5, <1>7, <1>8, <1>10, <1>11, OneStep

LEMMA EndsInv ==
  ASSUME UsageInv, NEW r \in Requests, Answer(r) \/ Abort(r)
  PROVE  UsageInv'
<1>1. PICK q : q = req[r]
  OBVIOUS
<1>2. /\ Finish(r) /\ stored' = stored /\ counter' = counter /\ q.pc # "idle"
      /\ exact' \in BOOLEAN /\ (exact' => exact)
      /\ exact' => q.op = "read" \/ q.pc \in {"accepted", "refused"}
  <2>1. exact \in BOOLEAN
    BY <1>1, Standing
  <2>2. CASE Answer(r)
    BY <1>1, <2>1, <2>2 DEF Answer, At
  <2>3. CASE Abort(r)
    <3>1. q.pc # "idle" /\ Finish(r) /\ stored' = stored /\ counter' = counter
      BY <1>1, <2>3 DEF Abort
    <3>2. exact' = (exact /\ q.op = "read")
      BY <1>1, <2>3 DEF Abort
    <3> QED BY <2>1, <3>1, <3>2
  <2> QED BY <2>2, <2>3
<1>3. exact' => Due(q) = 0
  BY <1>1, <1>2, Standing DEF Due, Shaped, Asking
<1> QED BY <1>1, <1>2, <1>3, Standing, FinishInv

LEMMA ExpireInv == ASSUME UsageInv, Expire PROVE UsageInv'
<1>1. /\ counter' = NoCount /\ stored' = stored /\ req' = req /\ Total' = Total /\ NoCount' = NoCount
      /\ exact' = (exact \/ \A r \in Requests : At(r, "idle"))
  BY TotalSame DEF Expire, NoCount
<1>2. \A r \in Requests : Working(r)' <=> Working(r)
  BY <1>1 DEF Working
<1>3. UTyped'
  BY <1>1 DEF UsageInv, UTyped
<1>4. exact' => exact \/ \A r \in Requests : ~Working(r)
  BY <1>1, Known
<1>5. ASSUME exact', NEW r \in Requests, Working(r)
      PROVE  Sure(req[r], stored, Total, NoCount)
  BY <1>4, <1>5 DEF UsageInv, Sure
<1> QED BY <1>1, <1>2, <1>3, <1>4, <1>5 DEF UsageInv

LEMMA UsageUnchanged == UsageInv /\ UNCHANGED usageVars => UsageInv'
<1> SUFFICES ASSUME UsageInv, UNCHANGED usageVars PROVE UsageInv'
  OBVIOUS
<1>1. stored' = stored /\ counter' = counter /\ req' = req /\ exact' = exact /\ Total' = Total
  BY TotalSame DEF usageVars
<1> QED BY <1>1 DEF UsageInv, UTyped, Working, NoCount

LEMMA NextInv == UsageInv /\ [UsageNext]_usageVars => UsageInv'
<1> SUFFICES ASSUME UsageInv, [UsageNext]_usageVars PROVE UsageInv'
  OBVIOUS
<1>1. CASE \E r \in Requests :
             BeginRead(r) \/ BeginUpload(r) \/ BeginCreate(r) \/ BeginUpdate(r) \/ BeginDelete(r)
  BY <1>1, BeginsInv
<1>2. CASE \E r \in Requests : GetUsage(r) \/ ComputeUsageFromS3(r) \/ Seed(r) \/ Admit(r)
  BY <1>2, StepsInv
<1>3. CASE \E r \in Requests : Measure(r) \/ Write(r) \/ Erase(r)
  BY <1>3, MeasureInv, WriteInv, EraseInv
<1>4. CASE \E r \in Requests : Count(r) \/ SetUsage(r) \/ CheckLimit(r) \/ Answer(r) \/ Abort(r)
  BY <1>4, CountInv, SetUsageInv, CheckLimitInv, EndsInv
<1>5. CASE Expire BY <1>5, ExpireInv
<1>6. CASE UNCHANGED usageVars BY <1>6, UsageUnchanged
<1> QED BY <1>1, <1>2, <1>3, <1>4, <1>5, <1>6 DEF UsageNext

LEMMA InvGivesCounts == UsageInv => CountsStorage
<1> SUFFICES ASSUME UsageInv, exact, \A r \in Requests : At(r, "idle")
             PROVE  counter \in {NoCount, Total}
  BY DEF CountsStorage
<1> QED BY Known DEF UsageInv

LEMMA InvGivesFit == UsageInv => UploadsFitExactly
<1> SUFFICES ASSUME UsageInv, exact, NEW r \in Requests, req[r].op = "upload"
             PROVE  /\ At(r, "accepted") => Total <= Limit /\ req[r].size <= MaxUpload
                    /\ At(r, "refused") => Total + req[r].size > Limit \/ req[r].size > MaxUpload
  BY DEF UploadsFitExactly
<1>1. PICK q : q = req[r]
  OBVIOUS
<1>2. Sure(q, stored, Total, counter)
  BY <1>1, Known DEF Working
<1>3. Total \in Nat /\ Limit \in Nat /\ MaxUpload \in Nat /\ q.size \in Nat
  BY <1>1, Standing
<1> QED BY <1>1, <1>2, <1>3 DEF Sure, Unfit, At

\* Between requests the counter is the sum of the objects, for any files, sizes,
\* limits and number of requests, until something happens that it misses.
THEOREM CounterIsTrue == UsageSpec => []CountsStorage
<1>1. UsageSpec => []UsageInv
  BY InitInv, NextInv, PTL DEF UsageSpec
<1> QED BY <1>1, InvGivesCounts, PTL

\* While the counter is exact, an upload that is accepted leaves the owner within
\* the limit and one that is refused would not fit: whatever the limits are.
THEOREM UploadsFit == UsageSpec => []UploadsFitExactly
<1>1. UsageSpec => []UsageInv
  BY InitInv, NextInv, PTL DEF UsageSpec
<1> QED BY <1>1, InvGivesFit, PTL

-----------------------------------------------------------------------------
(* Duplicate scans                                                         *)

\* A job of the scan is in the queue or with the worker.
Alive(s) == s \in waiting \/ workPc[s] # "off"

\* Someone asked for the scan to be cancelled, and says so in the end.
Cancelling(s) == cancelPc[s] \in {"status", "clear", "unlock", "over"}

Ending == {"settle", "clear", "unlock", "unflag"}

ScanShape(s) ==
    /\ startPc[s] \in {"new", "check", "lock", "status"} => status[s] = "none"
    /\ startPc[s] = "enqueue" => status[s] # "none"
    /\ Alive(s) => startPc[s] = "over" /\ status[s] # "none"
    /\ s \in waiting => workPc[s] = "off"
    /\ status[s] = "none" => cancelPc[s] = "idle"
    /\ workPc[s] = "report" => workRead[s] # "none"
    /\ \/ s \in cancelFlag \/ ending[s] = "CANCELLED" \/ status[s] = "CANCELLED"
       \/ workRead[s] = "CANCELLED"
       => Cancelling(s) \/ s \in halfCancelled
    /\ cancelPc[s] = "over" => "CANCELLED" \in events[s]
    /\ IF workPc[s] \in Ending THEN ending[s] \in Terminal ELSE ending[s] = "none"
    /\ workPc[s] \in Ending \ {"settle"} => status[s] \in {ending[s], "CANCELLED"}
    /\ Enqueued(s) /\ (~Alive(s) \/ workPc[s] = "done") /\ s \notin abandoned
       => status[s] \in events[s] \cup {"CANCELLED"}

ScanInv == ScanTypeOK /\ \A s \in Scans : ScanShape(s)

LEMMA ScanInitInv == ScanInit => ScanInv
<1> SUFFICES ASSUME ScanInit PROVE ScanInv
  OBVIOUS
<1>1. ScanTypeOK
  BY ScanAssumption DEF ScanInit, ScanTypeOK
<1> QED BY <1>1 DEF ScanInit, ScanInv, ScanShape, Alive, Enqueued, Ending, Terminal

\* What a scan's shape speaks of.
Same(t) ==
    /\ startPc'[t] = startPc[t] /\ status'[t] = status[t] /\ cancelPc'[t] = cancelPc[t]
    /\ workPc'[t] = workPc[t] /\ workRead'[t] = workRead[t] /\ ending'[t] = ending[t]
    /\ events'[t] = events[t] /\ (t \in cancelFlag' <=> t \in cancelFlag)
    /\ (t \in waiting' <=> t \in waiting) /\ (t \in halfCancelled' <=> t \in halfCancelled)
    /\ (t \in abandoned' <=> t \in abandoned)

LEMMA SameShape ==
  ASSUME NEW t \in Scans, ScanShape(t), Same(t)
  PROVE  ScanShape(t)'
BY DEF Same, ScanShape, Alive, Enqueued, Cancelling, Ending, Terminal

LEMMA OneScan ==
  ASSUME ScanInv, NEW s \in Scans, ScanTypeOK', ScanShape(s)', \A t \in Scans \ {s} : Same(t)
  PROVE  ScanInv'
<1>1. \A t \in Scans \ {s} : ScanShape(t)'
  BY SameShape DEF ScanInv
<1> QED BY <1>1 DEF ScanInv

LEMMA StartInv ==
  ASSUME ScanInv, NEW s \in Scans, Start(s) \/ StartFails(s)
  PROVE  ScanInv'
<1>0. ScanTypeOK /\ ScanShape(s)
  BY DEF ScanInv
<1> USE DEF StartRest, jobVars, StartGoto, SetStatus, redisVars, workVars, startVars
<1>1. CASE StartRead(s)
  <2>1. ScanTypeOK'
    BY <1>0, <1>1 DEF StartRead, ScanTypeOK
  <2>2. \A t \in Scans \ {s} : Same(t)
    BY <1>0, <1>1 DEF StartRead, ScanTypeOK, Same
  <2>3. ScanShape(s)'
    BY <1>0, <1>1 DEF StartRead, ScanTypeOK, ScanShape, Alive, Enqueued, Cancelling
  <2> QED BY <2>1, <2>2, <2>3, OneScan
<1>2. CASE StartCheck(s)
  <2>1. ScanTypeOK'
    BY <1>0, <1>2 DEF StartCheck, ScanTypeOK
  <2>2. \A t \in Scans \ {s} : Same(t)
    BY <1>0, <1>2 DEF StartCheck, ScanTypeOK, Same
  <2>3. ScanShape(s)'
    BY <1>0, <1>2 DEF StartCheck, ScanTypeOK, ScanShape, Alive, Enqueued, Cancelling
  <2> QED BY <2>1, <2>2, <2>3, OneScan
<1>3. CASE StartLock(s)
  <2>1. ScanTypeOK'
    BY <1>0, <1>3 DEF StartLock, ScanTypeOK
  <2>2. \A t \in Scans \ {s} : Same(t)
    BY <1>0, <1>3 DEF StartLock, ScanTypeOK, Same
  <2>3. ScanShape(s)'
    BY <1>0, <1>3 DEF StartLock, ScanTypeOK, ScanShape, Alive, Enqueued, Cancelling
  <2> QED BY <2>1, <2>2, <2>3, OneScan
<1>4. CASE StartStatus(s)
  <2>1. ScanTypeOK'
    BY <1>0, <1>4 DEF StartStatus, ScanTypeOK
  <2>2. \A t \in Scans \ {s} : Same(t)
    BY <1>0, <1>4 DEF StartStatus, ScanTypeOK, Same
  <2>3. ScanShape(s)'
    BY <1>0, <1>4 DEF StartStatus, ScanTypeOK, ScanShape, Alive, Enqueued, Cancelling, Terminal, Ending
  <2> QED BY <2>1, <2>2, <2>3, OneScan
<1>5. CASE StartEnqueue(s)
  <2>1. ScanTypeOK'
    BY <1>0, <1>5 DEF StartEnqueue, ScanTypeOK
  <2>2. \A t \in Scans \ {s} : Same(t)
    BY <1>0, <1>5 DEF StartEnqueue, ScanTypeOK, Same
  <2>3. ScanShape(s)'
    BY <1>0, <1>5 DEF StartEnqueue, ScanTypeOK, ScanShape, Alive, Enqueued, Cancelling
  <2> QED BY <2>1, <2>2, <2>3, OneScan
<1>6. CASE StartFails(s)
  <2>1. ScanTypeOK'
    BY <1>0, <1>6, ScanAssumption DEF StartFails, ScanTypeOK, Fault
  <2>2. \A t \in Scans \ {s} : Same(t)
    BY <1>0, <1>6 DEF StartFails, ScanTypeOK, Same
  <2>3. ScanShape(s)'
    BY <1>0, <1>6 DEF StartFails, ScanTypeOK, ScanShape, Alive, Enqueued, Cancelling
  <2> QED BY <2>1, <2>2, <2>3, OneScan
<1> QED BY <1>1, <1>2, <1>3, <1>4, <1>5, <1>6 DEF Start

LEMMA CancelInv ==
  ASSUME ScanInv, NEW s \in Scans, CancelRead(s) \/ Cancel(s) \/ CancelFails(s)
  PROVE  ScanInv'
<1>0. ScanTypeOK /\ ScanShape(s)
  BY DEF ScanInv
<1> USE DEF CancelRest, jobVars, CancelGoto, SetStatus, redisVars, workVars, startVars, Terminal
<1>1. CASE CancelRead(s)
  <2>1. ScanTypeOK'
    BY <1>0, <1>1 DEF CancelRead, ScanTypeOK
  <2>2. \A t \in Scans \ {s} : Same(t)
    BY <1>0, <1>1 DEF CancelRead, ScanTypeOK, Same
  <2>3. ScanShape(s)'
    BY <1>0, <1>1 DEF CancelRead, ScanTypeOK, ScanShape, Alive, Enqueued, Cancelling
  <2> QED BY <2>1, <2>2, <2>3, OneScan
<1>2. CASE CancelFlag(s)
  <2>1. ScanTypeOK'
    BY <1>0, <1>2 DEF CancelFlag, ScanTypeOK
  <2>2. \A t \in Scans \ {s} : Same(t)
    BY <1>0, <1>2 DEF CancelFlag, ScanTypeOK, Same
  <2>3. ScanShape(s)'
    BY <1>0, <1>2 DEF CancelFlag, ScanTypeOK, ScanShape, Alive, Enqueued, Cancelling
  <2> QED BY <2>1, <2>2, <2>3, OneScan
<1>3. CASE CancelStatus(s)
  <2>1. ScanTypeOK'
    BY <1>0, <1>3 DEF CancelStatus, ScanTypeOK
  <2>2. \A t \in Scans \ {s} : Same(t)
    BY <1>0, <1>3 DEF CancelStatus, ScanTypeOK, Same
  <2>3. ScanShape(s)'
    BY <1>0, <1>3 DEF CancelStatus, ScanTypeOK, ScanShape, Alive, Enqueued, Cancelling
  <2> QED BY <2>1, <2>2, <2>3, OneScan
<1>4. CASE CancelClear(s)
  <2>1. ScanTypeOK'
    BY <1>0, <1>4 DEF CancelClear, ScanTypeOK
  <2>2. \A t \in Scans \ {s} : Same(t)
    BY <1>0, <1>4 DEF CancelClear, ScanTypeOK, Same
  <2>3. ScanShape(s)'
    BY <1>0, <1>4 DEF CancelClear, ScanTypeOK, ScanShape, Alive, Enqueued, Cancelling
  <2> QED BY <2>1, <2>2, <2>3, OneScan
<1>5. CASE CancelUnlock(s)
  <2>1. ScanTypeOK'
    BY <1>0, <1>5 DEF CancelUnlock, ScanTypeOK
  <2>2. \A t \in Scans \ {s} : Same(t)
    BY <1>0, <1>5 DEF CancelUnlock, ScanTypeOK, Same
  <2>3. ScanShape(s)'
    BY <1>0, <1>5 DEF CancelUnlock, ScanTypeOK, ScanShape, Alive, Enqueued, Cancelling
  <2> QED BY <2>1, <2>2, <2>3, OneScan
<1>6. CASE CancelFails(s)
  <2>1. ScanTypeOK'
    BY <1>0, <1>6, ScanAssumption DEF CancelFails, ScanTypeOK, Fault
  <2>2. \A t \in Scans \ {s} : Same(t)
    BY <1>0, <1>6 DEF CancelFails, ScanTypeOK, Same
  <2>3. ScanShape(s)'
    BY <1>0, <1>6 DEF CancelFails, Begun, ScanTypeOK, ScanShape, Alive, Enqueued, Cancelling
  <2> QED BY <2>1, <2>2, <2>3, OneScan
<1> QED BY <1>1, <1>2, <1>3, <1>4, <1>5, <1>6 DEF Cancel

LEMMA TakeInv == ASSUME ScanInv, NEW s \in Scans, Take(s) PROVE ScanInv'
<1>0. ScanTypeOK /\ ScanShape(s)
  BY DEF ScanInv
<1> USE DEF WorkRest, WorkGoto, redisVars, startVars, Terminal
<1>1. ScanTypeOK'
  BY <1>0 DEF Take, ScanTypeOK
<1>2. \A t \in Scans \ {s} : Same(t)
  BY <1>0 DEF Take, ScanTypeOK, Same
<1>3. /\ workPc'[s] = "first" /\ s \notin waiting' /\ ending'[s] = "none"
      /\ Alive(s) /\ Alive(s)' /\ workPc[s] = "off"
  BY <1>0 DEF Take, ScanTypeOK, ScanShape, Ending, Alive
<1>4. ScanShape(s)'
  BY <1>0, <1>3 DEF Take, ScanShape, Enqueued, Cancelling, Ending
<1> QED BY <1>1, <1>2, <1>4, OneScan

\* A crash touches every scan.
LEMMA CrashInv == ASSUME ScanInv, Crash PROVE ScanInv'
<1>0. ScanTypeOK
  BY DEF ScanInv
<1> USE DEF redisVars
<1>1. ScanTypeOK'
  BY <1>0, ScanAssumption DEF Crash, ScanTypeOK, Fault, Terminal
<1>2. ASSUME NEW s \in Scans PROVE ScanShape(s)'
  <2>0. ScanShape(s)
    BY DEF ScanInv
  <2>1. /\ workPc'[s] = "off" /\ workRead'[s] = "none" /\ ending'[s] = "none"
        /\ status' = status /\ events' = events /\ cancelFlag' = cancelFlag
    BY DEF Crash
  <2>2. /\ startPc'[s] \in {startPc[s], "failed"}
        /\ startPc[s] = "over" => startPc'[s] = "over"
        /\ startPc[s] = "new" => startPc'[s] = "new"
        /\ startPc[s] # "over" => startPc'[s] # "over"
        /\ startPc'[s] \in {"new", "over", "failed"}
    BY <1>0 DEF Crash, ScanTypeOK
  <2>3. /\ cancelPc'[s] = IF cancelPc[s] = "over" THEN "over" ELSE "idle"
        /\ s \in halfCancelled' <=> s \in halfCancelled \/ Begun(s)
    BY DEF Crash
  <2>4. Cancelling(s) \/ s \in halfCancelled => Cancelling(s)' \/ s \in halfCancelled'
    BY <2>3 DEF Cancelling, Begun
  <2>5. s \in waiting' => Alive(s)
    BY <1>0 DEF Crash, Alive
  <2>6. ASSUME s \notin waiting', s \notin abandoned'
        PROVE  (~Alive(s) \/ workPc[s] = "done") /\ s \notin abandoned
    BY <1>0, <2>6 DEF Crash, Alive
  <2> QED BY <2>0, <2>1, <2>2, <2>3, <2>4, <2>5, <2>6
          DEF ScanShape, Alive, Enqueued, Cancelling, Ending, Terminal
<1> QED BY <1>1, <1>2 DEF ScanInv

\* The steps of the worker that leave the queue alone.
LEMMA WorkInv ==
  ASSUME ScanInv, NEW s \in Scans,
         \/ FirstCheck(s) \/ BeginScanning(s) \/ ReportRead(s) \/ ReportWrite(s)
         \/ Checkpoint(s) \/ LastCheck(s) \/ WriteResult(s) \/ ScanFails(s)
         \/ Settle(s) \/ ClearActiveLock(s) \/ Unlock(s) \/ FinishScan(s)
         \/ HandlerThrows(s) \/ LeaveQueue(s)
  PROVE  ScanInv'
<1>0. ScanTypeOK /\ ScanShape(s)
  BY DEF ScanInv
<1> USE DEF WorkRest, WorkGoto, WorkEnds, jobVars, Proceed, End, SetStatus, redisVars, startVars, Terminal
<1>2. workPc[s] # "off" /\ Alive(s)
  <2>1. workPc[s] # "off"
    <3>1. CASE HandlerThrows(s)
      BY <1>0, <3>1 DEF HandlerThrows, ScanShape, Ending
    <3>2. CASE ~HandlerThrows(s)
      BY <3>2 DEF FirstCheck, BeginScanning, ReportRead, ReportWrite, Checkpoint,
           LastCheck, WriteResult, ScanFails, Settle, ClearActiveLock, Unlock,
           FinishScan, LeaveQueue
    <3> QED BY <3>1, <3>2
  <2> QED BY <2>1 DEF Alive
<1>3. CASE FirstCheck(s)
  <2>1. ScanTypeOK'
    BY <1>0, <1>3 DEF FirstCheck, ScanTypeOK
  <2>2. \A t \in Scans \ {s} : Same(t)
    BY <1>0, <1>3 DEF FirstCheck, ScanTypeOK, Same
  <2>3. ScanShape(s)'
    BY <1>0, <1>2, <1>3 DEF FirstCheck, ScanTypeOK, ScanShape, Alive, Cancelling, Ending
  <2> QED BY <2>1, <2>2, <2>3, OneScan
<1>4. CASE BeginScanning(s)
  <2>1. ScanTypeOK'
    BY <1>0, <1>4 DEF BeginScanning, ScanTypeOK
  <2>2. \A t \in Scans \ {s} : Same(t)
    BY <1>0, <1>4 DEF BeginScanning, ScanTypeOK, Same
  <2>3. ScanShape(s)'
    BY <1>0, <1>2, <1>4 DEF BeginScanning, ScanTypeOK, ScanShape, Alive, Cancelling, Ending
  <2> QED BY <2>1, <2>2, <2>3, OneScan
<1>5. CASE ReportRead(s)
  <2>1. ScanTypeOK'
    BY <1>0, <1>5 DEF ReportRead, ScanTypeOK
  <2>2. \A t \in Scans \ {s} : Same(t)
    BY <1>0, <1>5 DEF ReportRead, ScanTypeOK, Same
  <2>3. ScanShape(s)'
    BY <1>0, <1>2, <1>5 DEF ReportRead, ScanTypeOK, ScanShape, Alive, Cancelling, Ending
  <2> QED BY <2>1, <2>2, <2>3, OneScan
<1>6. CASE ReportWrite(s)
  <2>1. ScanTypeOK'
    BY <1>0, <1>6 DEF ReportWrite, ScanTypeOK
  <2>2. \A t \in Scans \ {s} : Same(t)
    BY <1>0, <1>6 DEF ReportWrite, ScanTypeOK, Same
  <2>3. ScanShape(s)'
    BY <1>0, <1>2, <1>6 DEF ReportWrite, ScanTypeOK, ScanShape, Alive, Cancelling, Ending
  <2> QED BY <2>1, <2>2, <2>3, OneScan
<1>7. CASE Checkpoint(s)
  <2>1. ScanTypeOK'
    BY <1>0, <1>7 DEF Checkpoint, ScanTypeOK
  <2>2. \A t \in Scans \ {s} : Same(t)
    BY <1>0, <1>7 DEF Checkpoint, ScanTypeOK, Same
  <2>3. ScanShape(s)'
    BY <1>0, <1>2, <1>7 DEF Checkpoint, ScanTypeOK, ScanShape, Alive, Cancelling, Ending
  <2> QED BY <2>1, <2>2, <2>3, OneScan
<1>8. CASE LastCheck(s) \/ WriteResult(s)
  <2>1. ScanTypeOK'
    <3>1. CASE LastCheck(s)
      BY <1>0, <3>1 DEF LastCheck, ScanTypeOK
    <3>2. CASE WriteResult(s)
      BY <1>0, <3>2 DEF WriteResult, ScanTypeOK
    <3> QED BY <1>8, <3>1, <3>2
  <2>2. \A t \in Scans \ {s} : Same(t)
    BY <1>0, <1>8 DEF LastCheck, WriteResult, ScanTypeOK, Same
  <2>3. ScanShape(s)'
    BY <1>0, <1>2, <1>8
    DEF LastCheck, WriteResult, ScanTypeOK, ScanShape, Alive, Cancelling, Ending
  <2> QED BY <2>1, <2>2, <2>3, OneScan
<1>9. CASE ScanFails(s)
  <2>1. ScanTypeOK'
    BY <1>0, <1>9, ScanAssumption DEF ScanFails, ScanTypeOK, Fault
  <2>2. \A t \in Scans \ {s} : Same(t)
    BY <1>0, <1>9 DEF ScanFails, ScanTypeOK, Same
  <2>3. ScanShape(s)'
    BY <1>0, <1>2, <1>9 DEF ScanFails, ScanTypeOK, ScanShape, Alive, Cancelling, Ending
  <2> QED BY <2>1, <2>2, <2>3, OneScan
<1>10. CASE Settle(s)
  <2>1. ScanTypeOK'
    BY <1>0, <1>10 DEF Settle, ScanTypeOK, ScanShape, Ending
  <2>2. \A t \in Scans \ {s} : Same(t)
    BY <1>0, <1>10 DEF Settle, ScanTypeOK, Same
  <2>3. ScanShape(s)'
    BY <1>0, <1>2, <1>10 DEF Settle, ScanTypeOK, ScanShape, Alive, Cancelling, Ending
  <2> QED BY <2>1, <2>2, <2>3, OneScan
<1>11. CASE ClearActiveLock(s) \/ Unlock(s)
  <2>1. ScanTypeOK'
    BY <1>0, <1>11 DEF ClearActiveLock, Unlock, ScanTypeOK
  <2>2. \A t \in Scans \ {s} : Same(t)
    BY <1>0, <1>11 DEF ClearActiveLock, Unlock, ScanTypeOK, Same
  <2>3. ScanShape(s)'
    BY <1>0, <1>2, <1>11
    DEF ClearActiveLock, Unlock, ScanTypeOK, ScanShape, Alive, Cancelling, Ending
  <2> QED BY <2>1, <2>2, <2>3, OneScan
<1>12. CASE FinishScan(s)
  <2>1. ScanTypeOK'
    <3>1. ending[s] \in Terminal
      BY <1>0, <1>12 DEF FinishScan, ScanShape, Ending
    <3> QED BY <1>0, <1>12, <3>1 DEF FinishScan, ScanTypeOK
  <2>2. \A t \in Scans \ {s} : Same(t)
    BY <1>0, <1>12 DEF FinishScan, ScanTypeOK, Same
  <2>3. ScanShape(s)'
    BY <1>0, <1>2, <1>12
    DEF FinishScan, ScanTypeOK, ScanShape, Alive, Cancelling, Ending, Enqueued
  <2> QED BY <2>1, <2>2, <2>3, OneScan
<1>13. CASE HandlerThrows(s)
  <2>1. ScanTypeOK'
    BY <1>0, <1>13, ScanAssumption DEF HandlerThrows, ScanTypeOK, Fault
  <2>2. \A t \in Scans \ {s} : Same(t)
    BY <1>0, <1>13 DEF HandlerThrows, ScanTypeOK, Same
  <2>3. ScanShape(s)'
    BY <1>0, <1>2, <1>13 DEF HandlerThrows, ScanTypeOK, ScanShape, Alive, Cancelling, Ending
  <2> QED BY <2>1, <2>2, <2>3, OneScan
<1>14. CASE LeaveQueue(s)
  <2>1. ScanTypeOK'
    BY <1>0, <1>14 DEF LeaveQueue, ScanTypeOK
  <2>2. \A t \in Scans \ {s} : Same(t)
    BY <1>0, <1>14 DEF LeaveQueue, ScanTypeOK, Same
  <2>3. ScanShape(s)'
    BY <1>0, <1>2, <1>14
    DEF LeaveQueue, ScanTypeOK, ScanShape, Alive, Cancelling, Ending, Enqueued
  <2> QED BY <2>1, <2>2, <2>3, OneScan
<1> QED BY <1>3, <1>4, <1>5, <1>6, <1>7, <1>8, <1>9, <1>10, <1>11, <1>12, <1>13, <1>14

LEMMA ScanNextInv == ScanInv /\ [ScanNext]_scanVars => ScanInv'
<1> SUFFICES ASSUME ScanInv, [ScanNext]_scanVars PROVE ScanInv'
  OBVIOUS
<1>1. CASE ScanNext
  BY <1>1, StartInv, CancelInv, TakeInv, CrashInv, WorkInv DEF ScanNext, Advance
<1>2. CASE UNCHANGED scanVars
  <2>1. \A t \in Scans : Same(t)
    BY <1>2 DEF Same, scanVars, redisVars, jobVars, startVars, workVars
  <2>2. ScanTypeOK'
    BY <1>2 DEF ScanInv, ScanTypeOK, scanVars, redisVars, jobVars, startVars, workVars, Terminal
  <2> QED BY <2>1, <2>2, SameShape DEF ScanInv
<1> QED BY <1>1, <1>2

LEMMA InvAnnounces == ScanInv => OutcomeAnnounced
<1> SUFFICES ASSUME ScanInv, NEW s \in Scans, Enqueued(s), Quiet(s), s \notin abandoned
             PROVE  \/ status[s] \in events[s]
                    \/ status[s] = "CANCELLED" /\ s \in halfCancelled
  BY DEF OutcomeAnnounced
<1>1. ScanShape(s) /\ ~Alive(s)
  BY DEF ScanInv, Quiet, Alive
<1>2. status[s] \in events[s] \cup {"CANCELLED"}
  BY <1>1 DEF ScanShape
<1>3. status[s] = "CANCELLED" => cancelPc[s] = "over" \/ s \in halfCancelled
  BY <1>1 DEF ScanShape, Cancelling, Quiet
<1> QED BY <1>1, <1>2, <1>3 DEF ScanShape

\* However many scans, cancels, failures and crashes there are: when nobody works on
\* a scan any more, its status has been announced, unless its job ended without its
\* handler, or a cancel request stopped half way and left it CANCELLED.
THEOREM ScansAnnounce == ScanSpec => []OutcomeAnnounced
<1>1. ScanSpec => []ScanInv
  BY ScanInitInv, ScanNextInv, PTL DEF ScanSpec
<1> QED BY <1>1, InvAnnounces, PTL


-----------------------------------------------------------------------------
(* Versions: typing                                                        *)

LEMMA VersionInitTyped == VersionInit => VersionTypeOK
  BY VersionAssumption DEF VersionInit, VersionTypeOK, TaskPcs, Ever

LEMMA MoveTyped ==
  ASSUME VersionTypeOK, UNCHANGED created, NEW t \in Tasks,
         NEW pc \in TaskPcs, NEW work \in SUBSET Ever, NEW v \in 0..created,
         Move(t, pc, work, v)
  PROVE  /\ taskPc' \in [Tasks -> TaskPcs]
         /\ todo' \in [Tasks -> SUBSET Ever']
         /\ target' \in [Tasks -> 0..created']
<1>1. Ever' = Ever
  BY DEF Ever
<1> QED
  BY <1>1 DEF VersionTypeOK, Move

LEMMA FinishTyped ==
  ASSUME VersionTypeOK, UNCHANGED created, NEW t \in Tasks, FinishTask(t)
  PROVE  /\ taskPc' \in [Tasks -> TaskPcs]
         /\ todo' \in [Tasks -> SUBSET Ever']
         /\ target' \in [Tasks -> 0..created']
<1>1. "idle" \in TaskPcs /\ {} \in SUBSET Ever /\ 0 \in 0..created
  BY VersionAssumption DEF TaskPcs, VersionTypeOK
<1> QED
  BY <1>1, MoveTyped DEF FinishTask

LEMMA AddTyped ==
  ASSUME VersionTypeOK, NEW t \in Tasks, AddVersion(t) PROVE VersionTypeOK'
<1>1. created \in Nat /\ created' = created + 1 /\ created' \in 0..MaxVersions
  BY VersionAssumption DEF AddVersion, VersionTypeOK
<1>2. Ever \subseteq Ever' /\ created' \in Ever'
  BY <1>1 DEF Ever
<1>3. taskPc' \in [Tasks -> TaskPcs]
  BY DEF AddVersion, Move, VersionTypeOK, TaskPcs
<1>4. todo' \in [Tasks -> SUBSET Ever']
  BY <1>2 DEF AddVersion, Move, VersionTypeOK
<1>5. target' \in [Tasks -> 0..created']
  BY <1>1 DEF AddVersion, Move, VersionTypeOK
<1> QED
  BY <1>1, <1>2, <1>3, <1>4, <1>5 DEF AddVersion, VersionTypeOK, history

\* A step of one operation adds at most one version, and rewrites only its
\* own program counter, work and target.
LEMMA VersionNextTyped ==
  VersionTypeOK /\ [VersionNext]_versionVars => VersionTypeOK'
<1> SUFFICES ASSUME VersionTypeOK, [VersionNext]_versionVars
             PROVE  VersionTypeOK'
  OBVIOUS
<1>0. /\ UNCHANGED created => Ever' = Ever
      /\ \A pc \in {"list", "sweep", "head", "copy", "drop",
                     "purgeList", "purge"} : pc \in TaskPcs
      /\ created \in 0..created
      /\ Ever \subseteq 0..created
  BY VersionAssumption DEF Ever, TaskPcs, VersionTypeOK
<1>1. CASE UNCHANGED versionVars
  BY <1>1 DEF versionVars, VersionTypeOK, Ever
<1>2. ASSUME NEW t \in Tasks, WriteVersion(t) PROVE VersionTypeOK'
  BY <1>2, AddTyped DEF WriteVersion
<1>3. ASSUME NEW t \in Tasks, SweepList(t) PROVE VersionTypeOK'
  <2>1. Excess \in SUBSET Ever /\ target[t] \in 0..created /\ UNCHANGED created
    BY <1>3 DEF Excess, Old, VersionTypeOK, SweepList
  <2>2. CASE EndSweep(t)
    BY <1>3, <2>1, <2>2, <1>0, FinishTyped DEF SweepList, EndSweep, VersionTypeOK
  <2>3. CASE Move(t, "sweep", Excess, target[t]) /\ UNCHANGED history
    BY <1>3, <2>1, <2>3, <1>0, MoveTyped DEF SweepList, history, VersionTypeOK
  <2> QED
    BY <1>3, <2>2, <2>3 DEF SweepList
<1>4. ASSUME NEW t \in Tasks, SweepDelete(t) PROVE VersionTypeOK'
  <2>1. PICK v \in todo[t] :
          /\ versions' = versions \ {v}
          /\ \/ EndSweep(t)
             \/ Move(t, "sweep", todo[t] \ {v}, target[t]) /\ UNCHANGED history
    BY <1>4 DEF SweepDelete
  <2>2. /\ UNCHANGED created /\ target[t] \in 0..created
        /\ todo[t] \ {v} \in SUBSET Ever
    BY <1>4 DEF SweepDelete, VersionTypeOK
  <2>3. CASE EndSweep(t)
    BY <2>1, <2>2, <2>3, <1>0, FinishTyped DEF EndSweep, VersionTypeOK
  <2>4. CASE Move(t, "sweep", todo[t] \ {v}, target[t]) /\ UNCHANGED history
    BY <2>1, <2>2, <2>4, <1>0, MoveTyped DEF history, VersionTypeOK
  <2> QED
    BY <2>1, <2>3, <2>4
<1>5. ASSUME NEW t \in Tasks, NEW v \in versions, RestoreCheck(t, v)
      PROVE  VersionTypeOK'
  BY <1>5, <1>0, MoveTyped DEF RestoreCheck, history, VersionTypeOK
<1>6. ASSUME NEW t \in Tasks, NEW v \in versions, DropCheck(t, v)
      PROVE  VersionTypeOK'
  BY <1>6, <1>0, MoveTyped DEF DropCheck, history, VersionTypeOK
<1>7. ASSUME NEW t \in Tasks, RestoreHead(t) PROVE VersionTypeOK'
  BY <1>7, <1>0, MoveTyped, FinishTyped DEF RestoreHead, history, VersionTypeOK
<1>8. ASSUME NEW t \in Tasks, RestoreCopy(t) PROVE VersionTypeOK'
  <2>1. CASE AddVersion(t)
    BY <2>1, AddTyped
  <2>2. CASE FinishTask(t) /\ UNCHANGED <<versions, created, history>>
    BY <2>2, <1>0, FinishTyped DEF history, VersionTypeOK
  <2> QED
    BY <1>8, <2>1, <2>2 DEF RestoreCopy
<1>9. ASSUME NEW t \in Tasks, Drop(t) PROVE VersionTypeOK'
  BY <1>9, <1>0, FinishTyped DEF Drop, VersionTypeOK
<1>10. ASSUME NEW t \in Tasks, BeginPurge(t) PROVE VersionTypeOK'
  <2>1. Page(created) \in SUBSET Ever
    BY DEF Page, VersionTypeOK
  <2>2. CASE Move(t, "purge", Page(created), created) /\ UNCHANGED purgedUpTo
    BY <1>10, <2>1, <2>2, <1>0, MoveTyped DEF BeginPurge, VersionTypeOK
  <2>3. CASE purgedUpTo' = created /\ UNCHANGED <<taskPc, todo, target>>
    BY <1>10, <2>3, <1>0 DEF BeginPurge, VersionTypeOK
  <2> QED
    BY <1>10, <2>2, <2>3 DEF BeginPurge
<1>11. ASSUME NEW t \in Tasks, PurgeList(t) PROVE VersionTypeOK'
  <2>1. /\ Page(target[t]) \in SUBSET Ever /\ target[t] \in 0..created
        /\ UNCHANGED <<versions, created>>
    BY <1>11 DEF Page, VersionTypeOK, PurgeList
  <2>2. CASE PurgeEnd(t)
    BY <2>1, <2>2, <1>0, FinishTyped DEF PurgeEnd, VersionTypeOK
  <2>3. CASE Move(t, "purge", Page(target[t]), target[t]) /\ UNCHANGED history
    BY <2>1, <2>3, <1>0, MoveTyped DEF history, VersionTypeOK
  <2> QED
    BY <1>11, <2>2, <2>3 DEF PurgeList
<1>12. ASSUME NEW t \in Tasks, PurgeDelete(t) PROVE VersionTypeOK'
  <2>1. PICK v \in todo[t] :
          /\ versions' = versions \ {v} /\ purged' = purged \cup {v}
          /\ \/ Move(t, "purge", todo[t] \ {v}, target[t])
             \/ Move(t, "purgeList", {}, target[t])
    BY <1>12 DEF PurgeDelete
  <2>2. /\ UNCHANGED <<created, dropped, swept, purgedUpTo>>
        /\ target[t] \in 0..created /\ v \in Ever
        /\ todo[t] \ {v} \in SUBSET Ever /\ {} \in SUBSET Ever
    BY <1>12 DEF PurgeDelete, VersionTypeOK
  <2> QED
    BY <2>1, <2>2, <1>0, MoveTyped DEF VersionTypeOK
<1>13. ASSUME NEW t \in Tasks, Stop(t) PROVE VersionTypeOK'
  BY <1>13, <1>0, FinishTyped DEF Stop, history, VersionTypeOK
<1> QED
  BY <1>1, <1>2, <1>3, <1>4, <1>5, <1>6, <1>7, <1>8, <1>9, <1>10, <1>11,
     <1>12, <1>13 DEF VersionNext

\* Every version an operation refers to has been created.
THEOREM VersionTypeCorrect == VersionSpec => []VersionTypeOK
<1>1. VersionInit => VersionTypeOK
  BY VersionInitTyped
<1>2. VersionTypeOK /\ [VersionNext]_versionVars => VersionTypeOK'
  BY VersionNextTyped
<1> QED
  BY <1>1, <1>2, PTL DEF VersionSpec

-----------------------------------------------------------------------------
(* The current version                                                     *)

\* The newest version ever created is still there, so that it is the current
\* one, unless a purge took it; and what cleanups and deletions are about to
\* remove is older than it, even when the listing they rest on is stale.
OnlyOlderGoes ==
    /\ created > 0 => created \in versions \cup purged
    /\ \A t \in Tasks : taskPc[t] \in {"sweep", "drop"} =>
          \A v \in todo[t] : v < created

LEMMA OldIsOlder ==
  ASSUME VersionTypeOK, NEW v \in Old
  PROVE  v \in versions /\ v < created
  BY DEF VersionTypeOK, Old, IsCurrent, Ever

LEMMA OnlyOlderGoesStep ==
  VersionTypeOK /\ OnlyOlderGoes /\ [VersionNext]_versionVars => OnlyOlderGoes'
<1> SUFFICES ASSUME VersionTypeOK, OnlyOlderGoes, [VersionNext]_versionVars
             PROVE  OnlyOlderGoes'
  OBVIOUS
<1>0. VersionTypeOK'
  BY VersionNextTyped
<1> USE <1>0 DEF VersionTypeOK, OnlyOlderGoes, TaskPcs, Ever
<1>1. CASE UNCHANGED versionVars
  BY <1>1 DEF versionVars
<1>2. ASSUME NEW t \in Tasks, WriteVersion(t) PROVE OnlyOlderGoes'
  BY <1>2 DEF WriteVersion, AddVersion, Move, history
<1>3. ASSUME NEW t \in Tasks, SweepList(t) PROVE OnlyOlderGoes'
  <2>1. \A v \in Excess : v < created
    BY OldIsOlder DEF Excess
  <2> QED
    BY <1>3, <2>1 DEF SweepList, EndSweep, FinishTask, Move, history
<1>4. ASSUME NEW t \in Tasks, SweepDelete(t) PROVE OnlyOlderGoes'
  BY <1>4 DEF SweepDelete, EndSweep, FinishTask, Move, history, Newest, TaskAt
<1>5. ASSUME NEW t \in Tasks, NEW v \in versions, RestoreCheck(t, v)
      PROVE  OnlyOlderGoes'
  BY <1>5 DEF RestoreCheck, Move, history
<1>6. ASSUME NEW t \in Tasks, NEW v \in versions, DropCheck(t, v)
      PROVE  OnlyOlderGoes'
  <2>1. v < created
    BY <1>6, OldIsOlder DEF DropCheck
  <2> QED
    BY <1>6, <2>1 DEF DropCheck, Move, history
<1>7. ASSUME NEW t \in Tasks, RestoreHead(t) PROVE OnlyOlderGoes'
  BY <1>7 DEF RestoreHead, FinishTask, Move, history
<1>8. ASSUME NEW t \in Tasks, RestoreCopy(t) PROVE OnlyOlderGoes'
  BY <1>8 DEF RestoreCopy, AddVersion, FinishTask, Move, history
<1>9. ASSUME NEW t \in Tasks, Drop(t) PROVE OnlyOlderGoes'
  BY <1>9 DEF Drop, FinishTask, Move, TaskAt
<1>10. ASSUME NEW t \in Tasks, BeginPurge(t) PROVE OnlyOlderGoes'
  BY <1>10 DEF BeginPurge, Move
<1>11. ASSUME NEW t \in Tasks, PurgeList(t) PROVE OnlyOlderGoes'
  BY <1>11 DEF PurgeList, PurgeEnd, FinishTask, Move, history
<1>12. ASSUME NEW t \in Tasks, PurgeDelete(t) PROVE OnlyOlderGoes'
  <2>1. created' = created /\ \A x \in versions \cup purged : x \in versions' \cup purged'
    BY <1>12 DEF PurgeDelete
  <2>2. \A u \in Tasks : taskPc'[u] \in {"sweep", "drop"} =>
           taskPc[u] \in {"sweep", "drop"} /\ todo'[u] = todo[u]
    BY <1>12 DEF PurgeDelete, Move
  <2> QED BY <2>1, <2>2
<1>13. ASSUME NEW t \in Tasks, Stop(t) PROVE OnlyOlderGoes'
  BY <1>13 DEF Stop, FinishTask, Move, history
<1> QED
  BY <1>1, <1>2, <1>3, <1>4, <1>5, <1>6, <1>7, <1>8, <1>9, <1>10, <1>11,
     <1>12, <1>13 DEF VersionNext

\* However many operations interleave, the current version falls to a cleanup, a
\* restore or a DeleteVersion only behind a purge that took a newer one.
THEOREM CurrentVersionSurvives == VersionSpec => CurrentSurvives
<1>1. VersionInit => VersionTypeOK /\ OnlyOlderGoes
  BY VersionInitTyped DEF VersionInit, OnlyOlderGoes
<1>2. VersionTypeOK /\ OnlyOlderGoes /\ [VersionNext]_versionVars
        => (VersionTypeOK /\ OnlyOlderGoes)'
  BY VersionNextTyped, OnlyOlderGoesStep
<1>3. VersionTypeOK /\ OnlyOlderGoes /\ [VersionNext]_versionVars
        => [\A v \in versions :
              IsCurrent(v) /\ v \notin versions' =>
                  \/ v \in purged'
                  \/ \E w \in purged : w > v]_versionVars
  <2> SUFFICES ASSUME VersionTypeOK, OnlyOlderGoes, [VersionNext]_versionVars,
                      NEW v \in versions, IsCurrent(v), v \notin versions',
                      v \notin purged', \A w \in purged : ~(w > v)
               PROVE  FALSE
    OBVIOUS
  <2> USE DEF VersionTypeOK, OnlyOlderGoes, Ever
  <2>0. \A t \in Tasks : taskPc[t] \in {"sweep", "drop"} => v \notin todo[t]
    <3> SUFFICES ASSUME NEW t \in Tasks, taskPc[t] \in {"sweep", "drop"},
                        v \in todo[t]
                 PROVE  FALSE
      OBVIOUS
    <3>1. v < created
      OBVIOUS
    <3>2. created \in versions
      BY <3>1
    <3> QED
      BY <3>1, <3>2 DEF IsCurrent
  <2>1. CASE UNCHANGED versionVars
    BY <2>1 DEF versionVars
  <2>2. ASSUME NEW t \in Tasks, WriteVersion(t) \/ RestoreCopy(t) PROVE FALSE
    BY <2>2 DEF WriteVersion, RestoreCopy, AddVersion
  <2>3. ASSUME NEW t \in Tasks,
               SweepList(t) \/ RestoreHead(t) \/ BeginPurge(t)
                 \/ PurgeList(t) \/ Stop(t)
                 \/ \E w \in versions : RestoreCheck(t, w) \/ DropCheck(t, w)
        PROVE  FALSE
    BY <2>3 DEF SweepList, RestoreHead, BeginPurge, PurgeList, Stop,
                RestoreCheck, DropCheck
  <2>4. ASSUME NEW t \in Tasks, SweepDelete(t) PROVE FALSE
    BY <2>0, <2>4 DEF SweepDelete, TaskAt
  <2>5. ASSUME NEW t \in Tasks, Drop(t) PROVE FALSE
    BY <2>0, <2>5 DEF Drop, TaskAt
  <2>6. ASSUME NEW t \in Tasks, PurgeDelete(t) PROVE FALSE
    BY <2>6 DEF PurgeDelete
  <2> QED
    BY <2>1, <2>2, <2>3, <2>4, <2>5, <2>6 DEF VersionNext
<1> QED
  BY <1>1, <1>2, <1>3, PTL DEF VersionSpec, CurrentSurvives

-----------------------------------------------------------------------------
(* Retention                                                               *)

LEMMA NewerVersions ==
  ASSUME VersionTypeOK, NEW v \in Ever
  PROVE  Cardinality(Newer(v, Ever)) = created - v
<1>1. Newer(v, Ever) = (v + 1)..created
  BY DEF Newer, Ever, VersionTypeOK
<1>2. created \in Nat /\ v \in 1..created
  BY VersionAssumption DEF Ever, VersionTypeOK
<1> QED
  BY <1>1, <1>2, FS_Interval

\* The versions a cleanup is to delete have the current version and
\* MaxOldVersions old ones above them.
LEMMA ExcessIsOld ==
  ASSUME VersionTypeOK, NEW v \in Excess
  PROVE  created - v > MaxOldVersions
<1>1. v \in versions /\ v < created
  BY OldIsOlder DEF Excess
<1>2. created \in Nat /\ v \in Nat
  BY <1>1, VersionAssumption DEF VersionTypeOK, Ever
<1>3. IsFiniteSet(Newer(v, Ever)) /\ Cardinality(Newer(v, Ever)) = created - v
  <2>1. Newer(v, Ever) = (v + 1)..created
    BY <1>1, <1>2 DEF Newer, Ever, VersionTypeOK
  <2> QED
    BY <2>1, <1>1, <1>2, FS_Interval
<1>4. created \notin Old
  BY OldIsOlder, <1>2
<1>5. created \in Newer(v, Ever) /\ Newer(v, Old) \subseteq Newer(v, Ever)
  <2>1. \A w \in Old : w \in Ever
    BY DEF Old, VersionTypeOK
  <2>2. created \in Ever
    BY <1>1, <1>2 DEF Ever
  <2> QED
    BY <1>1, <2>1, <2>2 DEF Newer
<1>6. IsFiniteSet(Newer(v, Old))
  BY <1>3, <1>5, FS_Subset
<1>7. Cardinality(Newer(v, Old) \cup {created}) = Cardinality(Newer(v, Old)) + 1
  <2>1. created \notin Newer(v, Old)
    BY <1>4 DEF Newer
  <2> QED
    BY <2>1, <1>6, FS_AddElement
<1>8. Cardinality(Newer(v, Old) \cup {created}) <= created - v
  BY <1>3, <1>5, FS_Subset
<1>9. Cardinality(Newer(v, Old)) >= MaxOldVersions
  BY DEF Excess
<1>10. Cardinality(Newer(v, Old)) \in Nat
  BY <1>6, FS_CardinalityType
<1> QED
  BY <1>2, <1>7, <1>8, <1>9, <1>10, VersionAssumption

\* HistoryKept in numbers, and the same for what cleanups are about to delete.
Retention ==
    /\ \A v \in Ever \ (versions \cup dropped \cup purged) :
          created - v > MaxOldVersions
    /\ \A t \in Tasks : taskPc[t] = "sweep" =>
          \A v \in todo[t] : created - v > MaxOldVersions

LEMMA RetentionStep ==
  VersionTypeOK /\ Retention /\ [VersionNext]_versionVars => Retention'
<1> SUFFICES ASSUME VersionTypeOK, Retention, [VersionNext]_versionVars
             PROVE  Retention'
  OBVIOUS
<1>0. VersionTypeOK'
  BY VersionNextTyped
<1> USE <1>0, VersionAssumption DEF VersionTypeOK, Retention, TaskPcs, Ever
<1>1. CASE UNCHANGED versionVars
  BY <1>1 DEF versionVars
<1>2. ASSUME NEW t \in Tasks, WriteVersion(t) PROVE Retention'
  BY <1>2 DEF WriteVersion, AddVersion, Move, history
<1>3. ASSUME NEW t \in Tasks, SweepList(t) PROVE Retention'
  <2>1. \A v \in Excess : created - v > MaxOldVersions
    BY ExcessIsOld
  <2> QED
    BY <1>3, <2>1 DEF SweepList, EndSweep, FinishTask, Move, history
<1>4. ASSUME NEW t \in Tasks, SweepDelete(t) PROVE Retention'
  BY <1>4 DEF SweepDelete, EndSweep, FinishTask, Move, history, Newest, TaskAt
<1>5. ASSUME NEW t \in Tasks, NEW v \in versions, RestoreCheck(t, v)
      PROVE  Retention'
  BY <1>5 DEF RestoreCheck, Move, history
<1>6. ASSUME NEW t \in Tasks, NEW v \in versions, DropCheck(t, v)
      PROVE  Retention'
  BY <1>6 DEF DropCheck, Move, history
<1>7. ASSUME NEW t \in Tasks, RestoreHead(t) PROVE Retention'
  BY <1>7 DEF RestoreHead, FinishTask, Move, history
<1>8. ASSUME NEW t \in Tasks, RestoreCopy(t) PROVE Retention'
  <2>1. CASE AddVersion(t)
    BY <2>1 DEF AddVersion, Move, history
  <2>2. CASE FinishTask(t) /\ UNCHANGED <<versions, created, history>>
    BY <2>2 DEF FinishTask, Move, history
  <2> QED
    BY <1>8, <2>1, <2>2 DEF RestoreCopy
<1>9. ASSUME NEW t \in Tasks, Drop(t) PROVE Retention'
  BY <1>9 DEF Drop, FinishTask, Move
<1>10. ASSUME NEW t \in Tasks, BeginPurge(t) PROVE Retention'
  BY <1>10 DEF BeginPurge, Move
<1>11. ASSUME NEW t \in Tasks, PurgeList(t) PROVE Retention'
  BY <1>11 DEF PurgeList, PurgeEnd, FinishTask, Move, history
<1>12. ASSUME NEW t \in Tasks, PurgeDelete(t) PROVE Retention'
  BY <1>12 DEF PurgeDelete, Move
<1>13. ASSUME NEW t \in Tasks, Stop(t) PROVE Retention'
  BY <1>13 DEF Stop, FinishTask, Move, history
<1> QED
  BY <1>1, <1>2, <1>3, <1>4, <1>5, <1>6, <1>7, <1>8, <1>9, <1>10, <1>11,
     <1>12, <1>13 DEF VersionNext

\* No interleaving of cleanups loses one of the newest MaxOldVersions + 1
\* versions: what is missing was deleted on request, or is older than those.
THEOREM HistoryIsKept == VersionSpec => []HistoryKept
<1>1. VersionInit => VersionTypeOK /\ Retention
  BY VersionInitTyped DEF VersionInit, Retention, Ever
<1>2. VersionTypeOK /\ Retention /\ [VersionNext]_versionVars
        => (VersionTypeOK /\ Retention)'
  BY VersionNextTyped, RetentionStep
<1>3. VersionTypeOK /\ Retention => HistoryKept
  BY NewerVersions DEF Retention, HistoryKept
<1> QED
  BY <1>1, <1>2, <1>3, PTL DEF VersionSpec

-----------------------------------------------------------------------------
(* Retention, the other way                                                *)

UpTo(g) == {v \in versions : v <= g}

\* What there is up to the version whose cleanup ran to its end, and what a
\* cleanup under way leaves up to the version it is for.
Bounded ==
    /\ Cardinality(UpTo(swept)) <= MaxOldVersions + 1
    /\ \A t \in Tasks : taskPc[t] = "sweep" =>
          Cardinality(UpTo(target[t]) \ todo[t]) <= MaxOldVersions + 1

LEMMA VersionsFinite ==
  ASSUME VersionTypeOK, NEW S \in SUBSET versions
  PROVE  IsFiniteSet(S) /\ Cardinality(S) \in Nat
<1>1. created \in Int /\ 1 \in Int
  BY VersionAssumption DEF VersionTypeOK
<1>2. IsFiniteSet(Ever)
  BY <1>1, FS_Interval DEF Ever
<1>3. S \in SUBSET Ever
  BY DEF VersionTypeOK
<1> QED
  BY <1>2, <1>3, FS_Subset, FS_CardinalityType

\* What is no larger than a few versions is no more than they are.
LEMMA FewerVersions ==
  ASSUME VersionTypeOK, NEW T \in SUBSET versions, NEW S \in SUBSET T, NEW n \in Nat,
         Cardinality(T) <= n
  PROVE  Cardinality(S) <= n
<1>1. IsFiniteSet(T) /\ Cardinality(T) \in Nat /\ Cardinality(S) \in Nat
  BY VersionsFinite
<1>2. Cardinality(S) <= Cardinality(T)
  BY <1>1, FS_Subset
<1> QED
  BY <1>1, <1>2

\* Of the old versions, a cleanup leaves as many as there may be.
LEMMA OldKept == VersionTypeOK => Cardinality(Old \ Excess) <= MaxOldVersions
<1> SUFFICES ASSUME VersionTypeOK PROVE Cardinality(Old \ Excess) <= MaxOldVersions
  OBVIOUS
<1> DEFINE K == Old \ Excess
           rank == [v \in K |-> Cardinality(Newer(v, Old))]
<1>1. \A v \in Old : Cardinality(Newer(v, Old)) \in Nat /\ v \in Nat
  <2>1. \A v \in Old : Newer(v, Old) \in SUBSET versions
    BY DEF Newer, Old
  <2> QED
    BY <2>1, VersionsFinite DEF Old, VersionTypeOK, Ever
<1>2. rank \in [K -> 0..MaxOldVersions - 1]
  BY <1>1, VersionAssumption DEF Excess
<1>3. ASSUME NEW v \in Old, NEW w \in Old, v < w
      PROVE  Cardinality(Newer(w, Old)) < Cardinality(Newer(v, Old))
  <2>0. Old \subseteq Nat
    BY <1>1
  <2> HIDE DEF rank, K
  <2>1. w \in Newer(v, Old) /\ w \notin Newer(w, Old)
    BY <1>3, <2>0 DEF Newer
  <2>2. Newer(w, Old) \subseteq Newer(v, Old) \ {w}
    <3>1. \A u \in Newer(w, Old) : u \in Old /\ u \in Nat /\ u > w
      BY <2>0 DEF Newer
    <3>2. v \in Nat /\ w \in Nat
      BY <2>0
    <3>3. \A u \in Newer(w, Old) : u > v /\ u # w
      BY <1>3, <3>1, <3>2
    <3> QED
      BY <3>1, <3>3 DEF Newer
  <2>3. IsFiniteSet(Newer(v, Old)) /\ IsFiniteSet(Newer(v, Old) \ {w})
    BY VersionsFinite DEF Newer, Old
  <2>4. Cardinality(Newer(v, Old) \ {w}) = Cardinality(Newer(v, Old)) - 1
    BY <2>1, <2>3, FS_RemoveElement
  <2>5. Cardinality(Newer(w, Old)) <= Cardinality(Newer(v, Old) \ {w})
    BY <2>2, <2>3, FS_Subset
  <2> QED
    BY <1>1, <2>4, <2>5
<1>4. \A v, w \in K : rank[v] = rank[w] => v = w
  BY <1>1, <1>3
<1>5. rank \in Injection(K, 0..MaxOldVersions - 1)
  BY <1>2, <1>4 DEF Injection, IsInjective
<1>6. /\ IsFiniteSet(0..MaxOldVersions - 1)
      /\ Cardinality(0..MaxOldVersions - 1) = MaxOldVersions
  BY VersionAssumption, FS_Interval
<1> HIDE DEF rank, K
<1>7. Cardinality(K) <= MaxOldVersions
  BY <1>5, <1>6, FS_Injection
<1> QED
  BY <1>7 DEF K

\* ... and the current version besides.
LEMMA VersionsKept ==
  VersionTypeOK => Cardinality(versions \ Excess) <= MaxOldVersions + 1
<1> SUFFICES ASSUME VersionTypeOK
             PROVE  Cardinality(versions \ Excess) <= MaxOldVersions + 1
  OBVIOUS
<1> DEFINE K == Old \ Excess
<1>1. IsFiniteSet(K) /\ Cardinality(K) \in Nat /\ Cardinality(K) <= MaxOldVersions
  BY VersionsFinite, OldKept DEF Old
<1>2. Cardinality(versions \ Excess) \in Nat
  BY VersionsFinite
<1>3. CASE \E c \in versions : IsCurrent(c)
  <2>1. PICK c \in versions : IsCurrent(c)
    BY <1>3
  <2>2. \A v \in versions : v \in Nat
    BY DEF VersionTypeOK, Ever
  <2>3. versions \ Old \subseteq {c}
    BY <2>1, <2>2 DEF Old, IsCurrent
  <2>4. /\ IsFiniteSet(K \cup {c})
        /\ Cardinality(K \cup {c}) <= Cardinality(K) + 1
    BY <1>1, FS_AddElement
  <2>5. versions \ Excess \subseteq K \cup {c}
    BY <2>3
  <2>6. Cardinality(versions \ Excess) <= Cardinality(K \cup {c})
    BY <2>4, <2>5, FS_Subset
  <2>7. Cardinality(K \cup {c}) \in Nat
    BY <2>4, FS_CardinalityType
  <2> QED
    BY <1>1, <1>2, <2>4, <2>6, <2>7, VersionAssumption
<1>4. CASE ~\E c \in versions : IsCurrent(c)
  <2>1. versions \ Excess = K
    BY <1>4 DEF Old
  <2> QED
    BY <1>1, <2>1, VersionAssumption
<1> QED
  BY <1>3, <1>4

LEMMA BoundedParts ==
  ASSUME VersionTypeOK, Bounded
  PROVE  /\ \A S \in SUBSET UpTo(swept) : Cardinality(S) <= MaxOldVersions + 1
         /\ \A t \in Tasks : taskPc[t] = "sweep" =>
               \A S \in SUBSET (UpTo(target[t]) \ todo[t]) :
                  Cardinality(S) <= MaxOldVersions + 1
<1>1. MaxOldVersions + 1 \in Nat
  BY VersionAssumption
<1>2. UpTo(swept) \subseteq versions
  BY DEF UpTo
<1>3. \A t \in Tasks : UpTo(target[t]) \ todo[t] \subseteq versions
  BY DEF UpTo
<1>4. ASSUME NEW T \in SUBSET versions, Cardinality(T) <= MaxOldVersions + 1
      PROVE  \A S \in SUBSET T : Cardinality(S) <= MaxOldVersions + 1
  BY <1>1, <1>4, FewerVersions
<1> QED
  BY <1>2, <1>3, <1>4 DEF Bounded

LEMMA BoundedStep ==
  VersionTypeOK /\ Bounded /\ [VersionNext]_versionVars => Bounded'
<1> SUFFICES ASSUME VersionTypeOK, Bounded, [VersionNext]_versionVars
             PROVE  Bounded'
  OBVIOUS
<1>0. VersionTypeOK'
  BY VersionNextTyped
<1>a. MaxOldVersions + 1 \in Nat /\ created \in Nat /\ swept \in 0..created
  BY VersionAssumption DEF VersionTypeOK
\* A task that does nothing to the versions and does not end a sweep.
<1>b. ASSUME UNCHANGED <<versions, swept>>, NEW t \in Tasks,
             NEW pc \in TaskPcs \ {"sweep"}, NEW work, NEW v, Move(t, pc, work, v)
      PROVE  Bounded'
  BY <1>b DEF Bounded, UpTo, Move, VersionTypeOK
\* Versions are deleted by a task that ends no sweep.
<1>c. ASSUME versions' \subseteq versions, UNCHANGED swept,
             \A t \in Tasks : taskPc'[t] = "sweep" =>
                taskPc[t] = "sweep" /\ target'[t] = target[t] /\ todo'[t] = todo[t]
      PROVE  Bounded'
  <2>1. Cardinality(UpTo(swept)') <= MaxOldVersions + 1
    <3>1. UpTo(swept)' \in SUBSET UpTo(swept)
      BY <1>c DEF UpTo
    <3> QED
      BY <3>1, BoundedParts
  <2>2. ASSUME NEW t \in Tasks, taskPc'[t] = "sweep"
        PROVE  Cardinality((UpTo(target[t]) \ todo[t])') <= MaxOldVersions + 1
    <3>1. (UpTo(target[t]) \ todo[t])' \in SUBSET (UpTo(target[t]) \ todo[t])
      BY <1>c, <2>2 DEF UpTo
    <3>2. taskPc[t] = "sweep"
      BY <1>c, <2>2
    <3> QED
      BY <3>1, <3>2, BoundedParts
  <2> QED
    BY <2>1, <2>2 DEF Bounded
\* A version is added: it is above all that was listed.
<1>d. ASSUME NEW t \in Tasks, AddVersion(t) PROVE Bounded'
  <2>1. \A g \in 0..created : UpTo(g)' = UpTo(g)
    BY <1>a, <1>d DEF AddVersion, UpTo, VersionTypeOK
  <2>2. \A s \in Tasks : taskPc'[s] = "sweep" =>
           /\ taskPc[s] = "sweep" /\ target'[s] = target[s] /\ todo'[s] = todo[s]
           /\ target[s] \in 0..created
    BY <1>d DEF AddVersion, Move, VersionTypeOK
  <2> HIDE DEF UpTo
  <2>3. swept' = swept
    BY <1>d DEF AddVersion, history
  <2> QED
    BY <1>a, <2>1, <2>2, <2>3 DEF Bounded, UpTo
<1>e. ASSUME NEW t \in Tasks, FinishTask(t), UNCHANGED <<versions, swept>> PROVE Bounded'
  BY <1>b, <1>e DEF FinishTask, TaskPcs
\* A sweep has left no more than it should, and ends.
<1>f. ASSUME NEW t \in Tasks, EndSweep(t), versions' \subseteq versions,
             Cardinality({v \in versions' : v <= target[t]}) <= MaxOldVersions + 1
      PROVE  Bounded'
  <2>1. swept' \in {swept, target[t]}
    BY <1>f DEF EndSweep
  <2>2. Cardinality({v \in versions' : v <= swept}) <= MaxOldVersions + 1
    <3>1. {v \in versions' : v <= swept} \in SUBSET UpTo(swept)
      BY <1>f DEF UpTo
    <3> QED
      BY <3>1, BoundedParts
  <2>3. UpTo(swept)' = {v \in versions' : v <= swept'}
    BY DEF UpTo
  <2>4. Cardinality(UpTo(swept)') <= MaxOldVersions + 1
    BY <1>f, <2>1, <2>2, <2>3
  <2>5. ASSUME NEW s \in Tasks, taskPc'[s] = "sweep"
        PROVE  Cardinality((UpTo(target[s]) \ todo[s])') <= MaxOldVersions + 1
    <3>1. taskPc[s] = "sweep" /\ target'[s] = target[s] /\ todo'[s] = todo[s]
      BY <1>f, <2>5 DEF EndSweep, FinishTask, Move, VersionTypeOK
    <3>2. (UpTo(target[s]) \ todo[s])' \in SUBSET (UpTo(target[s]) \ todo[s])
      BY <1>f, <3>1 DEF UpTo
    <3> QED
      BY <3>1, <3>2, BoundedParts
  <2> QED
    BY <2>4, <2>5 DEF Bounded
<1>1. CASE UNCHANGED versionVars
  BY <1>1 DEF versionVars, Bounded, UpTo
<1>2. ASSUME NEW t \in Tasks, WriteVersion(t) PROVE Bounded'
  BY <1>2, <1>d DEF WriteVersion
<1>3. ASSUME NEW t \in Tasks, SweepList(t) PROVE Bounded'
  <2>1. versions' = versions
    BY <1>3 DEF SweepList
  <2>2. UpTo(target[t]) \ Excess \subseteq versions \ Excess
    BY DEF UpTo
  <2>3. Cardinality(UpTo(target[t]) \ Excess) <= MaxOldVersions + 1
    BY <1>a, <2>2, VersionsKept, FewerVersions
  <2>4. CASE Excess = {} /\ EndSweep(t)
    <3>1. {v \in versions' : v <= target[t]} = UpTo(target[t]) \ Excess
      BY <2>1, <2>4 DEF UpTo
    <3> QED
      BY <2>1, <2>3, <2>4, <3>1, <1>f
  <2>5. CASE Move(t, "sweep", Excess, target[t]) /\ UNCHANGED history
    <3>1. taskPc'[t] = "sweep" /\ todo'[t] = Excess /\ target'[t] = target[t] /\ swept' = swept
      BY <2>5 DEF Move, VersionTypeOK, history
    <3>2. \A s \in Tasks \ {t} :
             taskPc'[s] = taskPc[s] /\ target'[s] = target[s] /\ todo'[s] = todo[s]
      BY <2>5 DEF Move, VersionTypeOK
    <3> QED
      BY <2>1, <2>3, <3>1, <3>2 DEF Bounded, UpTo
  <2> QED
    BY <1>3, <2>4, <2>5 DEF SweepList
<1>4. ASSUME NEW t \in Tasks, SweepDelete(t) PROVE Bounded'
  <2>1. PICK v \in todo[t] :
          /\ versions' = versions \ {v}
          /\ \/ todo[t] = {v} /\ EndSweep(t)
             \/ Move(t, "sweep", todo[t] \ {v}, target[t]) /\ UNCHANGED history
    BY <1>4 DEF SweepDelete
  <2>2. Cardinality(UpTo(target[t]) \ todo[t]) <= MaxOldVersions + 1
    BY <1>4 DEF SweepDelete, TaskAt, Bounded
  <2>3. CASE todo[t] = {v} /\ EndSweep(t)
    <3>1. {w \in versions' : w <= target[t]} = UpTo(target[t]) \ todo[t]
      BY <2>1, <2>3 DEF UpTo
    <3> QED
      BY <2>1, <2>2, <2>3, <3>1, <1>f
  <2>4. CASE Move(t, "sweep", todo[t] \ {v}, target[t]) /\ UNCHANGED history
    <3>1. /\ taskPc'[t] = "sweep" /\ todo'[t] = todo[t] \ {v} /\ target'[t] = target[t]
          /\ swept' = swept
      BY <2>4 DEF Move, VersionTypeOK, history
    <3>2. \A s \in Tasks \ {t} :
             taskPc'[s] = taskPc[s] /\ target'[s] = target[s] /\ todo'[s] = todo[s]
      BY <2>4 DEF Move, VersionTypeOK
    <3>3. (UpTo(target[t]) \ todo[t])' = UpTo(target[t]) \ todo[t]
      BY <2>1, <3>1 DEF UpTo
    <3>4. ASSUME NEW s \in Tasks \ {t}, taskPc'[s] = "sweep"
          PROVE  Cardinality((UpTo(target[s]) \ todo[s])') <= MaxOldVersions + 1
      <4>1. (UpTo(target[s]) \ todo[s])' \in SUBSET (UpTo(target[s]) \ todo[s])
        BY <2>1, <3>2 DEF UpTo
      <4> QED
        BY <3>2, <3>4, <4>1, BoundedParts
    <3>5. Cardinality(UpTo(swept)') <= MaxOldVersions + 1
      <4>1. UpTo(swept)' \in SUBSET UpTo(swept)
        BY <2>1, <3>1 DEF UpTo
      <4> QED
        BY <4>1, BoundedParts
    <3> QED
      BY <2>2, <3>3, <3>4, <3>5 DEF Bounded
  <2> QED
    BY <2>1, <2>3, <2>4
<1>5. ASSUME NEW t \in Tasks, NEW v \in versions, RestoreCheck(t, v) \/ DropCheck(t, v)
      PROVE  Bounded'
  BY <1>5, <1>b DEF RestoreCheck, DropCheck, history, TaskPcs
<1>6. ASSUME NEW t \in Tasks, RestoreHead(t) PROVE Bounded'
  BY <1>6, <1>b, <1>e DEF RestoreHead, history, TaskPcs
<1>7. ASSUME NEW t \in Tasks, RestoreCopy(t) PROVE Bounded'
  BY <1>7, <1>d, <1>e DEF RestoreCopy, history
<1>8. ASSUME NEW t \in Tasks, Drop(t) PROVE Bounded'
  BY <1>8, <1>c DEF Drop, FinishTask, Move, VersionTypeOK
<1>9. ASSUME NEW t \in Tasks, BeginPurge(t) PROVE Bounded'
  <2>1. CASE Move(t, "purge", Page(created), created)
    BY <1>9, <2>1, <1>b DEF BeginPurge, TaskPcs
  <2>2. CASE UNCHANGED <<taskPc, todo, target>>
    BY <1>9, <2>2 DEF BeginPurge, Bounded, UpTo
  <2> QED
    BY <1>9, <2>1, <2>2 DEF BeginPurge
<1>10. ASSUME NEW t \in Tasks, PurgeList(t) PROVE Bounded'
  BY <1>10, <1>b, <1>e DEF PurgeList, PurgeEnd, history, TaskPcs
<1>11. ASSUME NEW t \in Tasks, PurgeDelete(t) PROVE Bounded'
  BY <1>11, <1>c DEF PurgeDelete, Move, VersionTypeOK
<1>12. ASSUME NEW t \in Tasks, Stop(t) PROVE Bounded'
  BY <1>12, <1>e DEF Stop, history
<1> QED
  BY <1>1, <1>2, <1>3, <1>4, <1>5, <1>6, <1>7, <1>8, <1>9, <1>10, <1>11,
     <1>12 DEF VersionNext

\* However many cleanups overlap, fail or work from stale listings: once that of
\* the current version has run to its end, no more than MaxOldVersions old
\* versions are left.
THEOREM HistoryIsBounded == VersionSpec => []HistoryBounded
<1>1. VersionInit => VersionTypeOK /\ Bounded
  <2> SUFFICES ASSUME VersionInit PROVE Bounded
    BY VersionInitTyped
  <2>1. UpTo(swept) = {}
    BY DEF VersionInit, UpTo
  <2> QED
    BY <2>1, FS_EmptySet, VersionAssumption DEF VersionInit, Bounded
<1>2. VersionTypeOK /\ Bounded /\ [VersionNext]_versionVars
        => (VersionTypeOK /\ Bounded)'
  BY VersionNextTyped, BoundedStep
<1>3. VersionTypeOK /\ Bounded => HistoryBounded
  <2> SUFFICES ASSUME Bounded, IsCurrent(swept)
               PROVE  Cardinality(versions) <= MaxOldVersions + 1
    BY DEF HistoryBounded
  <2>1. versions = UpTo(swept)
    BY DEF IsCurrent, UpTo
  <2> QED
    BY <2>1 DEF Bounded
<1> QED
  BY <1>1, <1>2, <1>3, PTL DEF VersionSpec

-----------------------------------------------------------------------------
(* Purges                                                                  *)

LEMMA PurgeStep ==
  VersionTypeOK /\ PurgeIsComplete /\ [VersionNext]_versionVars
    => PurgeIsComplete'
<1> SUFFICES ASSUME VersionTypeOK, PurgeIsComplete, [VersionNext]_versionVars
             PROVE  PurgeIsComplete'
  OBVIOUS
<1>0. VersionTypeOK'
  BY VersionNextTyped
<1> USE <1>0, VersionAssumption DEF VersionTypeOK, PurgeIsComplete, Ever
<1>1. CASE UNCHANGED versionVars
  BY <1>1 DEF versionVars
<1>2. ASSUME NEW t \in Tasks, WriteVersion(t) \/ RestoreCopy(t) PROVE PurgeIsComplete'
  BY <1>2 DEF WriteVersion, RestoreCopy, AddVersion, history
<1>3. ASSUME NEW t \in Tasks,
             SweepList(t) \/ SweepDelete(t) \/ RestoreHead(t) \/ Drop(t)
               \/ PurgeDelete(t) \/ Stop(t)
               \/ \E w \in versions : RestoreCheck(t, w) \/ DropCheck(t, w)
      PROVE  PurgeIsComplete'
  BY <1>3 DEF SweepList, SweepDelete, EndSweep, RestoreHead, Drop, PurgeDelete,
              Stop, RestoreCheck, DropCheck, history
<1>4. ASSUME NEW t \in Tasks, BeginPurge(t) PROVE PurgeIsComplete'
  BY <1>4 DEF BeginPurge
<1>5. ASSUME NEW t \in Tasks, PurgeList(t) PROVE PurgeIsComplete'
  BY <1>5 DEF PurgeList, PurgeEnd, history
<1> QED
  BY <1>1, <1>2, <1>3, <1>4, <1>5 DEF VersionNext

\* A purge that ends without an error has removed every version that existed
\* when it began, for any page size.
THEOREM PurgesAreComplete == VersionSpec => []PurgeIsComplete
<1>1. VersionInit => VersionTypeOK /\ PurgeIsComplete
  BY VersionInitTyped DEF VersionInit, PurgeIsComplete
<1>2. VersionTypeOK /\ PurgeIsComplete /\ [VersionNext]_versionVars
        => (VersionTypeOK /\ PurgeIsComplete)'
  BY VersionNextTyped, PurgeStep
<1> QED
  BY <1>1, <1>2, PTL DEF VersionSpec

=============================================================================
