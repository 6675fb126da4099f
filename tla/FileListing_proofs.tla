------------------------- MODULE FileListing_proofs -------------------------
(***************************************************************************)
(* Proofs about FileListing, for any objects, sizes of a page, viewers and *)
(* changers, in any order: a listing is the slice it says                  *)
(* (AnswersAreSlices), kept listings are current (ListingsAreCurrent), and *)
(* kept pictures are those of the folder (PicturesAreDealt).               *)
(*                                                                         *)
(* ListInv says what a viewer has at each step (LookIs), in terms of the   *)
(* entries up to where it is in the storage (Listed), as long as nothing   *)
(* changed meanwhile; and that what is kept is current, late, or awaited   *)
(* by a changer (WillForget, WillSpoil). The heart of it is that pages add *)
(* up: to the first so many entries (NextPage), to the slice that is asked *)
(* for (ChosenIs), to the pictures that would be dealt from all images at  *)
(* once (AddLater, EnoughIsAll).                                           *)
(***************************************************************************)
EXTENDS FileListing, FiniteSetTheorems, WellFoundedInduction, TLAPS

-----------------------------------------------------------------------------
(* Sets of objects, and their first elements                               *)

\* A set of numbers has a least one.
LEMMA LeastOfNat ==
  ASSUME NEW S, S \subseteq Nat, S # {}
  PROVE  \E x \in S : \A y \in S : x <= y
<1> DEFINE R == OpToRel(<, Nat)
<1>1. PICK x \in S : \A y \in S : <<y, x>> \notin R
  <2> HIDE DEF R
  <2>1. IsWellFoundedOn(R, Nat)
    BY NatLessThanWellFounded DEF R
  <2> QED BY <2>1, WFMin
<1>2. \A y \in S : ~(y < x)
  <2> TAKE y \in S
  <2>1. <<y, x>> \in Nat \X Nat /\ <<y, x>>[1] = y /\ <<y, x>>[2] = x
    OBVIOUS
  <2>2. (<<y, x>>[1] < <<y, x>>[2]) => <<y, x>> \in R
    BY <2>1 DEF OpToRel
  <2> QED BY <1>1, <2>1, <2>2
<1> QED BY <1>2

LEMMA ObjectsAreFinite ==
  ASSUME NEW S, S \subseteq Objects
  PROVE  IsFiniteSet(S) /\ Cardinality(S) \in Nat /\ (S = {} <=> Cardinality(S) = 0)
BY ListingAssumption, FS_Subset, FS_CardinalityType, FS_EmptySet

LEMMA ObjectsAreNumbers == \A k \in Objects : k \in Nat /\ k > 0
BY ListingAssumption

\* A part of a set has fewer elements, or is all of it.
LEMMA Fewer ==
  ASSUME NEW S, S \subseteq Objects, NEW T, T \subseteq S
  PROVE  /\ Cardinality(T) <= Cardinality(S)
         /\ Cardinality(T) = Cardinality(S) => T = S
BY ObjectsAreFinite, FS_Subset

\* How many are in two sets that have nothing in common.
LEMMA Together ==
  ASSUME NEW S, S \subseteq Objects, NEW T, T \subseteq Objects, S \cap T = {}
  PROVE  Cardinality(S \cup T) = Cardinality(S) + Cardinality(T)
<1>1. IsFiniteSet(S) /\ IsFiniteSet(T) /\ Cardinality(S) \in Nat /\ Cardinality(T) \in Nat
  BY ObjectsAreFinite
<1>2. Cardinality(S \cup T) = Cardinality(S) + Cardinality(T) - Cardinality(S \cap T)
  BY <1>1, FS_Union
<1>3. Cardinality(S \cap T) = 0
  BY FS_EmptySet
<1> QED BY <1>1, <1>2, <1>3

LEMMA OneMore ==
  ASSUME NEW S, S \subseteq Objects, NEW e \in Objects \ S
  PROVE  Cardinality(S \cup {e}) = Cardinality(S) + 1
BY ObjectsAreFinite, FS_AddElement

\* Latest chooses the latest, as there is one.
LEMMA LatestIs ==
  ASSUME NEW S, S \subseteq Objects, S # {}
  PROVE  Latest(S) \in S /\ \A x \in S : x <= Latest(S)
<1> DEFINE Above(e) == {x \in S : x > e}
<1> DEFINE Counts == {Cardinality(Above(e)) : e \in S}
<1>1. \A e \in S : Cardinality(Above(e)) \in Nat
  BY ObjectsAreFinite
<1>2. PICK n \in Counts : \A m \in Counts : n <= m
  <2>1. Counts \subseteq Nat /\ Counts # {}
    BY <1>1
  <2> HIDE DEF Counts
  <2> QED BY <2>1, LeastOfNat
<1>3. PICK e \in S : n = Cardinality(Above(e))
  BY <1>2
<1>4. ASSUME NEW x \in S, x > e PROVE FALSE
  <2>1. Above(x) \subseteq Above(e) /\ x \in Above(e) /\ x \notin Above(x)
    BY <1>4, ObjectsAreNumbers
  <2>2. Above(e) \subseteq Objects
    OBVIOUS
  <2>3. Cardinality(Above(x)) <= Cardinality(Above(e)) /\ Cardinality(Above(x)) # Cardinality(Above(e))
    <3> HIDE DEF Above
    <3> QED BY <2>1, <2>2, Fewer
  <2>4. n <= Cardinality(Above(x))
    BY <1>2
  <2> QED BY <1>1, <1>3, <2>3, <2>4
<1>5. \A x \in S : x <= e
  BY <1>4, ObjectsAreNumbers
<1> QED BY <1>5 DEF Latest

LEMMA EarliestIs ==
  ASSUME NEW S, S \subseteq Objects, S # {}
  PROVE  \E e \in S : \A x \in S : e <= x
BY LeastOfNat, ObjectsAreNumbers

\* A set from which nothing smaller is missing.
Initial(D, S) == D \subseteq S /\ \A e \in D, x \in S : x <= e => x \in D

UpTo(S, e) == {x \in S : x <= e}

\* Nothing that comes before is missing from the first n.
LEMMA FirstIsInitial ==
  ASSUME NEW S, S \subseteq Objects, NEW n \in Nat
  PROVE  Initial(First(S, n), S)
<1> SUFFICES ASSUME NEW e \in First(S, n), NEW x \in S, x <= e PROVE x \in First(S, n)
  BY DEF Initial, First
<1>1. UpTo(S, x) \subseteq UpTo(S, e) /\ UpTo(S, e) \subseteq Objects
  BY ObjectsAreNumbers DEF UpTo, First
<1>2. Cardinality(UpTo(S, x)) <= Cardinality(UpTo(S, e))
  BY <1>1, Fewer
<1>3. Cardinality(UpTo(S, e)) <= n
  BY DEF First, UpTo
<1>4. UpTo(S, x) \subseteq Objects
  BY <1>1
<1>5. Cardinality(UpTo(S, x)) \in Nat /\ Cardinality(UpTo(S, e)) \in Nat
  BY <1>1, <1>4, ObjectsAreFinite
<1>6. Cardinality(UpTo(S, x)) <= n
  BY <1>2, <1>3, <1>5
<1> QED BY <1>6 DEF First, UpTo

\* Such a set is what there is up to its latest element.
LEMMA InitialUpTo ==
  ASSUME NEW S, S \subseteq Objects, NEW D, Initial(D, S), D # {}
  PROVE  D = UpTo(S, Latest(D))
<1>1. Latest(D) \in D /\ \A x \in D : x <= Latest(D)
  BY LatestIs DEF Initial
<1> QED BY <1>1 DEF Initial, UpTo

\* The first n are n, unless there are fewer.
LEMMA FirstCounts ==
  ASSUME NEW S, S \subseteq Objects, NEW n \in Nat
  PROVE  /\ Cardinality(First(S, n)) <= n
         /\ First(S, n) # S => Cardinality(First(S, n)) = n
<1> DEFINE F == First(S, n)
<1>1. Initial(F, S) /\ F \subseteq Objects
  BY FirstIsInitial DEF First
<1>2. Cardinality(F) \in Nat
  BY <1>1, ObjectsAreFinite
<1>3. Cardinality(F) <= n
  <2>1. CASE F = {}
    BY <2>1, FS_EmptySet
  <2>2. CASE F # {}
    <3>1. F = UpTo(S, Latest(F))
      BY <1>1, <2>2, InitialUpTo
    <3>2. Latest(F) \in F
      BY <1>1, <2>2, LatestIs
    <3>3. Cardinality(UpTo(S, Latest(F))) <= n
      BY <3>2 DEF First, UpTo
    <3> QED BY <3>1, <3>3
  <2> QED BY <2>1, <2>2
<1>4. ASSUME F # S PROVE Cardinality(F) = n
  <2>1. S \ F # {} /\ S \ F \subseteq Objects
    BY <1>1, <1>4 DEF Initial
  <2>2. PICK e \in S \ F : \A x \in S \ F : e <= x
    BY <2>1, EarliestIs
  <2>3. UpTo(S, e) = F \cup {e}
    BY <1>1, <2>2, ObjectsAreNumbers DEF Initial, UpTo
  <2>4. Cardinality(UpTo(S, e)) = Cardinality(F) + 1
    BY <1>1, <2>2, <2>3, OneMore
  <2>5. ~(Cardinality(UpTo(S, e)) <= n)
    BY <2>2 DEF First, UpTo
  <2> QED BY <1>2, <1>3, <2>4, <2>5
<1> QED BY <1>3, <1>4

\* The first n of such a set are those of all, as far as it goes.
LEMMA WithinInitial ==
  ASSUME NEW S, S \subseteq Objects, NEW D, Initial(D, S), NEW n \in Nat
  PROVE  /\ First(D, n) = First(S, n) \cap D
         /\ Cardinality(D) <= n => D \subseteq First(S, n)
         /\ n <= Cardinality(D) => First(S, n) \subseteq D
<1>1. \A e \in D : UpTo(S, e) = UpTo(D, e)
  BY DEF Initial, UpTo
<1>2. D \subseteq Objects
  BY DEF Initial
<1>3. First(D, n) = First(S, n) \cap D
  BY <1>1 DEF First, UpTo, Initial
<1>4. ASSUME Cardinality(D) <= n PROVE D \subseteq First(S, n)
  <2> SUFFICES ASSUME NEW e \in D PROVE e \in First(S, n)
    OBVIOUS
  <2>1. UpTo(D, e) \subseteq D /\ UpTo(D, e) \subseteq Objects
    BY <1>2 DEF UpTo
  <2>2. Cardinality(UpTo(D, e)) <= Cardinality(D)
    BY <1>2, <2>1, Fewer
  <2>3. Cardinality(UpTo(D, e)) \in Nat /\ Cardinality(D) \in Nat
    BY <1>2, <2>1, ObjectsAreFinite
  <2>4. Cardinality(UpTo(S, e)) <= n
    BY <1>1, <1>4, <2>2, <2>3
  <2> QED BY <2>4 DEF First, UpTo, Initial
<1>5. ASSUME n <= Cardinality(D), NEW e \in First(S, n), e \notin D PROVE FALSE
  <2>1. D \cup {e} \subseteq UpTo(S, e) /\ UpTo(S, e) \subseteq Objects
    BY <1>2, <1>5, ObjectsAreNumbers DEF Initial, UpTo, First
  <2>2. Cardinality(D \cup {e}) = Cardinality(D) + 1
    BY <1>2, <1>5, OneMore DEF First
  <2>3. Cardinality(D \cup {e}) <= Cardinality(UpTo(S, e))
    BY <2>1, Fewer
  <2>4. Cardinality(UpTo(S, e)) <= n
    BY DEF First, UpTo
  <2>5. Cardinality(UpTo(S, e)) \in Nat /\ Cardinality(D) \in Nat
    BY <1>2, <2>1, ObjectsAreFinite
  <2> QED BY <1>5, <2>2, <2>3, <2>4, <2>5
<1> QED BY <1>3, <1>4, <1>5

LEMMA FirstOfInitial ==
  ASSUME NEW S, S \subseteq Objects, NEW D, Initial(D, S), NEW n \in Nat, n <= Cardinality(D)
  PROVE  First(D, n) = First(S, n)
BY WithinInitial

\* So many elements from which nothing before is missing are the first n.
LEMMA FirstIs ==
  ASSUME NEW S, S \subseteq Objects, NEW D, Initial(D, S), Cardinality(D) \in Nat
  PROVE  First(S, Cardinality(D)) = D
<1>1. PICK n \in Nat : n = Cardinality(D)
  OBVIOUS
<1>2. D \subseteq First(S, n) /\ First(S, n) \subseteq D
  BY <1>1, WithinInitial
<1> QED BY <1>1, <1>2

LEMMA FirstIsAll ==
  ASSUME NEW S, S \subseteq Objects, NEW n \in Nat, Cardinality(S) <= n
  PROVE  First(S, n) = S
<1>1. Initial(S, S)
  BY DEF Initial
<1> QED BY <1>1, WithinInitial DEF First

\* Where there is any element, the first n are not none.
LEMMA FirstOfSome ==
  ASSUME NEW S, S \subseteq Objects, S # {}, NEW n \in Nat \ {0}
  PROVE  First(S, n) # {}
<1> SUFFICES ASSUME First(S, n) = {} PROVE FALSE
  OBVIOUS
<1>1. Cardinality(First(S, n)) = n
  BY FirstCounts
<1> QED BY <1>1, FS_EmptySet

-----------------------------------------------------------------------------
(* The pages of S3                                                         *)

\* S3 lists objects.
LEMMA EntriesAreObjects ==
  ASSUME NEW job
  PROVE  /\ Entries(job) \subseteq Objects
         /\ \A e \in Entries(job) : e \in In(FolderOf[e]) \/ contents[e] # Absent
BY DEF Entries, In, Heads

\* The page behind a place ends at its latest entry.
LEMMA UpToPage ==
  ASSUME NEW E, E \subseteq Objects, NEW at \in Nat, NEW P, Initial(P, {e \in E : e > at}),
         NEW h \in P, \A x \in P : x <= h
  PROVE  UpTo(E, h) = UpTo(E, at) \cup P
<1>1. h \in E /\ h \in Nat /\ h > at
  BY ObjectsAreNumbers DEF Initial
<1>2. ASSUME NEW e \in E PROVE e <= h <=> e <= at \/ e \in P
  <2>1. e \in Nat
    BY ObjectsAreNumbers
  <2>2. e \in P => e <= h
    OBVIOUS
  <2>3. e > at /\ e <= h => e \in P
    BY DEF Initial
  <2> QED BY <1>1, <2>1, <2>2, <2>3
<1>3. P \subseteq E
  BY DEF Initial
<1> QED BY <1>2, <1>3 DEF UpTo

\* Up to a place, and the page behind it.
LEMMA PageIs ==
  ASSUME NEW job, job.path \in Folders \cup {Here}, NEW at \in Nat, NEW n \in Nat \ {0},
         NEW E, E = Entries(job), NEW P, P = First({e \in E : e > at}, n),
         NEW b, b = Behind(job, P, at)
  PROVE  /\ b \in Nat /\ P \subseteq E /\ UpTo(E, at) \cap P = {}
         /\ UpTo(E, b) = UpTo(E, at) \cup P
         /\ (\E e \in E : e > b) => Cardinality(P) = n
         /\ Cardinality(P) <= n
         /\ Cardinality(UpTo(E, b)) = Cardinality(UpTo(E, at)) + Cardinality(P)
<1> DEFINE T == {e \in E : e > at}
<1>1. E \subseteq Objects /\ T \subseteq Objects /\ UpTo(E, at) \subseteq Objects
  BY EntriesAreObjects DEF UpTo
<1>2. P \subseteq T /\ Initial(P, T) /\ P \subseteq Objects
  BY <1>1, FirstIsInitial DEF First
<1>3. UpTo(E, at) \cap P = {}
  BY <1>1, <1>2, ObjectsAreNumbers DEF UpTo
<1>4. b \in Nat /\ UpTo(E, b) = UpTo(E, at) \cup P
  <2>1. CASE P = {}
    <3>1. T = {}
      BY <1>1, <2>1, FirstOfSome
    <3>2. b = at
      BY <2>1 DEF Behind
    <3> QED BY <2>1, <3>1, <3>2
  <2>2. CASE P # {} /\ ~IsHead(job, Latest(P))
    <3>1. b = Latest(P)
      BY <2>2 DEF Behind
    <3>2. b \in P /\ \A x \in P : x <= b
      BY <1>2, <2>2, <3>1, LatestIs
    <3>3. b \in Nat /\ b > at
      BY <1>1, <1>2, <3>2, ObjectsAreNumbers
    <3>4. UpTo(E, b) = UpTo(E, at) \cup P
      BY <1>1, <1>2, <3>2, UpToPage
    <3> QED BY <3>3, <3>4
  <2>3. CASE P # {} /\ IsHead(job, Latest(P))
    <3> DEFINE K == {k \in Objects : FolderOf[k] = FolderOf[Latest(P)]}
    <3>1. PICK h : h = Latest(P)
      OBVIOUS
    <3>2. h \in P /\ \A x \in P : x <= h
      BY <1>2, <2>3, <3>1, LatestIs
    <3>3. K \subseteq Objects /\ h \in K
      BY <1>2, <3>1, <3>2
    <3>4. b = Latest(K)
      BY <2>3 DEF Behind
    <3>5. b \in K /\ \A x \in K : x <= b
      <4> HIDE DEF K
      <4> QED BY <3>3, <3>4, LatestIs
    <3>6. b \in Nat /\ h \in Nat /\ h <= b /\ h > at /\ b \in Objects
      BY <1>1, <1>2, <3>2, <3>3, <3>5, ObjectsAreNumbers
    <3>7. job.path = Here /\ job.delimiter /\ FolderOf[h] # Here /\ FolderOf[b] = FolderOf[h]
      BY <2>3, <3>1, <3>5 DEF IsHead
    <3>8. E = In(Here) \cup Heads
      BY <3>7 DEF Entries
    <3>9. ASSUME NEW e \in E, e > h, e <= b PROVE FALSE
      <4>1. e \in Objects /\ h \in Objects
        BY <1>1, <1>2, <3>2
      <4>2. e < b \/ e = b
        BY <3>6, <3>9, <4>1, ObjectsAreNumbers
      <4>3. FolderOf[e] = FolderOf[h]
        BY <3>6, <3>7, <3>9, <4>1, <4>2, ListingAssumption, ObjectsAreNumbers
      <4>4. e \in Heads
        BY <3>7, <3>8, <4>3 DEF In
      <4>5. h \in In(FolderOf[h])
        BY <1>2, <3>2, <3>7, <3>8 DEF In, Heads
      <4>6. e <= h
        BY <4>3, <4>4, <4>5 DEF Heads
      <4> QED BY <3>9, <4>1, <4>6, ObjectsAreNumbers
    <3>10. \A e \in E : e <= b <=> e <= h
      BY <1>1, <3>6, <3>9, ObjectsAreNumbers
    <3>11. UpTo(E, b) = UpTo(E, h)
      BY <3>10 DEF UpTo
    <3>12. UpTo(E, h) = UpTo(E, at) \cup P
      BY ONLY <1>1, <1>2, <3>2, UpToPage, at \in Nat
    <3> QED BY <3>6, <3>11, <3>12
  <2> QED BY <2>1, <2>2, <2>3
<1>5. Cardinality(P) <= n /\ (P # T => Cardinality(P) = n)
  BY <1>1, FirstCounts
<1>6. ASSUME NEW e \in E, e > b PROVE Cardinality(P) = n
  <2>1. e \notin UpTo(E, at) \cup P
    BY <1>1, <1>4, <1>6, ObjectsAreNumbers DEF UpTo
  <2>2. e \in T
    BY <1>1, <2>1, ObjectsAreNumbers DEF UpTo
  <2> QED BY <1>5, <2>1, <2>2
<1>7. Cardinality(UpTo(E, b)) = Cardinality(UpTo(E, at)) + Cardinality(P)
  BY <1>1, <1>2, <1>3, <1>4, Together
<1>8. P \subseteq E
  BY <1>2
<1> QED BY <1>3, <1>4, <1>5, <1>6, <1>7, <1>8

-----------------------------------------------------------------------------
(* The pictures                                                            *)

\* Every image has a leader, the first of its group,
LEMMA LeaderIs ==
  ASSUME NEW S, S \subseteq Objects, NEW k \in S
  PROVE  /\ Leader(S, k) \in Leads(S) /\ Leader(S, k) <= k
         /\ GroupOf[Leader(S, k)] = GroupOf[k]
<1>1. GroupIn(S, k) \subseteq Objects /\ k \in GroupIn(S, k)
  BY DEF GroupIn
<1>2. PICK j \in GroupIn(S, k) : \A x \in GroupIn(S, k) : j <= x
  BY <1>1, EarliestIs
<1>3. j \in Leads(S) /\ GroupOf[j] = GroupOf[k]
  BY <1>2 DEF Leads, GroupIn
<1>4. Leader(S, k) \in Leads(S) /\ GroupOf[Leader(S, k)] = GroupOf[k]
  BY <1>3 DEF Leader
<1> QED BY <1>4 DEF Leads, GroupIn

\* ... and one only.
LEMMA LeaderAlone ==
  ASSUME NEW S, S \subseteq Objects, NEW k \in S, NEW j \in Leads(S), GroupOf[j] = GroupOf[k]
  PROVE  j = Leader(S, k) /\ j <= k
<1>1. Leader(S, k) \in Leads(S) /\ GroupOf[Leader(S, k)] = GroupOf[k]
  BY LeaderIs
<1>2. Leader(S, k) <= j /\ j <= Leader(S, k) /\ j <= k
  BY <1>1 DEF Leads, GroupIn
<1>3. j \in Nat /\ Leader(S, k) \in Nat
  BY <1>1, ObjectsAreNumbers DEF Leads
<1> QED BY <1>2, <1>3

\* The rank counts those of the group that come before.
LEMMA RankIs ==
  ASSUME NEW S, S \subseteq Objects, NEW k \in S
  PROVE  Rank(S, k) \in Nat /\ (Rank(S, k) = 0 <=> k \in Leads(S))
<1>1. {j \in GroupIn(S, k) : j < k} \subseteq Objects
  BY DEF GroupIn
<1>2. Rank(S, k) \in Nat /\ (Rank(S, k) = 0 <=> {j \in GroupIn(S, k) : j < k} = {})
  BY <1>1, ObjectsAreFinite DEF Rank
<1>3. k \in Leads(S) <=> {j \in GroupIn(S, k) : j < k} = {}
  BY ObjectsAreNumbers DEF Leads, GroupIn
<1> QED BY <1>2, <1>3

\* The first so many of a group stay, of the groups that are among the first.
LEMMA BucketsAre ==
  ASSUME NEW A, A \subseteq Objects
  PROVE  /\ Buckets(A) \subseteq A
         /\ Leads(Buckets(A)) = First(Leads(A), ThumbnailFolders)
         /\ \A k \in Buckets(A) : Leader(Buckets(A), k) = Leader(A, k)
<1>1. ThumbnailLimit > 0 /\ ThumbnailLimit \in Nat
  BY ListingAssumption
<1>2. Buckets(A) \subseteq A
  BY DEF Buckets
<1>3. ASSUME NEW k \in First(Leads(A), ThumbnailFolders) PROVE k \in Leads(Buckets(A))
  <2>1. k \in Leads(A) /\ k \in A
    BY DEF First, Leads
  <2>2. Leader(A, k) = k /\ Rank(A, k) = 0
    BY <2>1, LeaderAlone, RankIs
  <2>3. k \in Buckets(A)
    BY <1>1, <1>3, <2>1, <2>2 DEF Buckets
  <2> QED BY <1>2, <2>1, <2>3 DEF Leads, GroupIn
<1>4. ASSUME NEW k \in Leads(Buckets(A)) PROVE k \in First(Leads(A), ThumbnailFolders)
  <2>1. k \in Buckets(A) /\ k \in A
    BY <1>2 DEF Leads
  <2>2. PICK j : j = Leader(A, k)
    OBVIOUS
  <2>3. j \in First(Leads(A), ThumbnailFolders) /\ GroupOf[j] = GroupOf[k] /\ j <= k
    BY <2>1, <2>2, LeaderIs DEF Buckets
  <2>4. j \in Leads(Buckets(A)) /\ j \in Buckets(A)
    BY <1>3, <2>3 DEF Leads
  <2>5. k <= j
    BY <2>3, <2>4 DEF Leads, GroupIn
  <2>6. j \in Nat /\ k \in Nat
    BY <1>2, <2>1, <2>4, ObjectsAreNumbers
  <2> QED BY <2>3, <2>5, <2>6
<1>5. Leads(Buckets(A)) = First(Leads(A), ThumbnailFolders)
  BY <1>3, <1>4
<1>6. ASSUME NEW k \in Buckets(A) PROVE Leader(Buckets(A), k) = Leader(A, k)
  <2>1. PICK j : j = Leader(A, k)
    OBVIOUS
  <2>2. j \in First(Leads(A), ThumbnailFolders) /\ GroupOf[j] = GroupOf[k]
    BY <1>2, <2>1, LeaderIs DEF Buckets
  <2>3. j \in Leads(Buckets(A))
    BY <1>5, <2>2
  <2>4. Buckets(A) \subseteq Objects
    BY <1>2
  <2> QED BY <2>1, <2>2, <2>3, <2>4, LeaderAlone
<1> QED BY <1>2, <1>5, <1>6

\* Of a group that stays, the buckets keep the first so many.
LEMMA BucketsOfGroup ==
  ASSUME NEW A, A \subseteq Objects, NEW k \in A,
         Leader(A, k) \in First(Leads(A), ThumbnailFolders)
  PROVE  GroupIn(Buckets(A), k) = First(GroupIn(A, k), ThumbnailLimit)
<1>1. ThumbnailLimit \in Nat
  BY ListingAssumption
<1> DEFINE G == GroupIn(A, k)
<1>2. G \subseteq Objects /\ k \in G
  BY DEF GroupIn
<1>3. ASSUME NEW j \in G
      PROVE  j \in Buckets(A) <=> j \in First(G, ThumbnailLimit)
  <2>1. j \in A /\ GroupOf[j] = GroupOf[k] /\ GroupIn(A, j) = G
    BY DEF GroupIn
  <2>2. Leader(A, j) = Leader(A, k)
    BY <2>1, LeaderIs, LeaderAlone
  <2>3. Rank(A, j) = Cardinality({x \in G : x < j})
    BY <2>1 DEF Rank
  <2>4. {x \in G : x <= j} = {x \in G : x < j} \cup {j} /\ j \notin {x \in G : x < j}
    BY <1>2, <1>3, ObjectsAreNumbers
  <2>5. Cardinality({x \in G : x <= j}) = Rank(A, j) + 1
    <3>1. {x \in G : x < j} \subseteq Objects
      BY <1>2
    <3>2. j \in Objects \ {x \in G : x < j}
      BY <1>2, <2>4
    <3> HIDE DEF G
    <3> QED BY <2>3, <2>4, <3>1, <3>2, OneMore
  <2>6. Rank(A, j) \in Nat
    BY <2>1, RankIs
  <2>7. j \in Buckets(A) <=> Rank(A, j) < ThumbnailLimit
    BY <2>1, <2>2 DEF Buckets
  <2>8. j \in First(G, ThumbnailLimit) <=> Cardinality({x \in G : x <= j}) <= ThumbnailLimit
    BY <1>3 DEF First
  <2> QED BY <1>1, <2>5, <2>6, <2>7, <2>8
<1>4. GroupIn(Buckets(A), k) = {j \in G : j \in Buckets(A)}
  BY BucketsAre DEF GroupIn
<1> QED BY <1>3, <1>4 DEF First

\* The leads of more objects, all of them later ones.
LEMMA LeadsOfMore ==
  ASSUME NEW A, NEW B, A \cup B \subseteq Objects, \A a \in A, b \in B : a < b
  PROVE  /\ Initial(Leads(A), Leads(A \cup B))
         /\ \A k \in A : Leader(A \cup B, k) = Leader(A, k) /\ Rank(A \cup B, k) = Rank(A, k)
         /\ \A k \in Leads(A \cup B) : k \in A => k \in Leads(A)
<1>1. \A k \in A : {j \in GroupIn(A \cup B, k) : j < k} = {j \in GroupIn(A, k) : j < k}
  BY ObjectsAreNumbers DEF GroupIn
<1>2. \A k \in A : k \in Leads(A) => k \in Leads(A \cup B)
  BY ObjectsAreNumbers DEF Leads, GroupIn
<1>3. \A k \in A : k \in Leads(A \cup B) => k \in Leads(A)
  BY DEF Leads, GroupIn
<1>4. ASSUME NEW k \in A PROVE Leader(A \cup B, k) = Leader(A, k)
  <2>1. Leader(A, k) \in Leads(A) /\ GroupOf[Leader(A, k)] = GroupOf[k]
    BY LeaderIs
  <2>2. Leader(A, k) \in Leads(A \cup B)
    BY <1>2, <2>1 DEF Leads
  <2> QED BY <2>1, <2>2, LeaderAlone
<1>5. Initial(Leads(A), Leads(A \cup B))
  <2>1. Leads(A) \subseteq Leads(A \cup B)
    BY <1>2 DEF Leads
  <2>2. ASSUME NEW e \in Leads(A), NEW x \in Leads(A \cup B), x <= e PROVE x \in Leads(A)
    <3>1. x \in A
      BY <2>2, ObjectsAreNumbers DEF Leads
    <3> QED BY <1>3, <3>1
  <2> QED BY <2>1, <2>2 DEF Initial
<1> QED BY <1>1, <1>3, <1>4, <1>5 DEF Rank

\* Leads are finitely many.
LEMMA LeadsAre ==
  ASSUME NEW S, S \subseteq Objects
  PROVE  /\ Leads(S) \subseteq S /\ Leads(S) \subseteq Objects
         /\ Cardinality(Leads(S)) \in Nat
BY ObjectsAreFinite DEF Leads

\* The groups that stay are the same, whether or not the others were dropped before.
LEMMA SameLeads ==
  ASSUME NEW A, NEW B, A \cup B \subseteq Objects, \A a \in A, b \in B : a < b
  PROVE  First(Leads(Buckets(A) \cup B), ThumbnailFolders)
           = First(Leads(A \cup B), ThumbnailFolders)
<1> DEFINE C == Buckets(A)
           n == ThumbnailFolders
<1>1. n \in Nat
  BY ListingAssumption
<1>2. C \subseteq A /\ C \subseteq Objects /\ A \subseteq Objects
  BY BucketsAre
<1>3. C \cup B \subseteq Objects /\ \A a \in C, b \in B : a < b
  BY <1>2
<1>4. Leads(C) = First(Leads(A), n)
  BY <1>2, BucketsAre
<1>5. /\ Leads(A) \subseteq Objects /\ Leads(C) \subseteq Objects
      /\ Leads(A \cup B) \subseteq Objects /\ Leads(C \cup B) \subseteq Objects
  BY <1>2, LeadsAre
<1>6. Initial(Leads(A), Leads(A \cup B)) /\ Initial(Leads(C), Leads(C \cup B))
  <2>1. Initial(Leads(A), Leads(A \cup B))
    BY LeadsOfMore
  <2> HIDE DEF C
  <2>2. Initial(Leads(C), Leads(C \cup B))
    BY <1>3, LeadsOfMore
  <2> QED BY <2>1, <2>2
<1>7. CASE n <= Cardinality(Leads(A))
  <2>1. First(Leads(A \cup B), n) = First(Leads(A), n)
    BY <1>1, <1>5, <1>6, <1>7, FirstOfInitial
  <2>2. Cardinality(Leads(C)) = n
    <3>1. CASE Leads(C) = Leads(A)
      <4>1. Cardinality(First(Leads(A), n)) <= n
        BY <1>1, <1>5, FirstCounts
      <4>2. Cardinality(Leads(A)) \in Nat
        BY <1>2, LeadsAre
      <4> HIDE DEF n
      <4> QED BY <1>1, <1>4, <1>7, <3>1, <4>1, <4>2
    <3>2. CASE Leads(C) # Leads(A)
      BY <1>1, <1>4, <1>5, <3>2, FirstCounts
    <3> QED BY <3>1, <3>2
  <2>3. First(Leads(C \cup B), n) = Leads(C)
    BY <1>1, <1>5, <1>6, <2>2, FirstIs
  <2> QED BY <1>4, <2>1, <2>3
<1>8. CASE Cardinality(Leads(A)) <= n
  <2>1. Leads(C) = Leads(A)
    BY <1>1, <1>4, <1>5, <1>8, FirstIsAll
  <2>2. \A k \in A : \E j \in C : GroupOf[j] = GroupOf[k] /\ j <= k
    BY <1>2, <2>1, LeaderIs DEF Leads
  <2>3. Leads(C \cup B) = Leads(A \cup B)
    <3>1. ASSUME NEW k \in Leads(C \cup B) PROVE k \in Leads(A \cup B)
      <4>1. ASSUME NEW j \in GroupIn(A \cup B, k), j \in A PROVE k <= j
        <5>1. PICK i \in C : GroupOf[i] = GroupOf[j] /\ i <= j
          BY <2>2, <4>1
        <5>2. k <= i
          BY <3>1, <4>1, <5>1 DEF Leads, GroupIn
        <5>3. i \in Nat /\ j \in Nat /\ k \in Nat
          BY <1>2, <1>5, <3>1, <4>1, ObjectsAreNumbers
        <5> QED BY <5>1, <5>2, <5>3
      <4>2. \A j \in GroupIn(A \cup B, k) : j \in B => k <= j
        BY <3>1 DEF Leads, GroupIn
      <4>3. k \in A \cup B
        BY <1>2, <3>1 DEF Leads
      <4> QED BY <4>1, <4>2, <4>3 DEF Leads, GroupIn
    <3>2. ASSUME NEW k \in Leads(A \cup B) PROVE k \in Leads(C \cup B)
      <4>1. k \in A => k \in C
        BY <2>1, <3>2, LeadsOfMore DEF Leads
      <4>2. k \in C \cup B
        BY <3>2, <4>1 DEF Leads
      <4> QED BY <1>2, <3>2, <4>2 DEF Leads, GroupIn
    <3> QED BY <3>1, <3>2
  <2> QED BY <2>3
<1>9. Cardinality(Leads(A)) \in Nat
  BY <1>2, LeadsAre
<1> QED BY <1>1, <1>7, <1>8, <1>9

\* Adding later objects to the buckets is as good as adding them to all before.
LEMMA AddLater ==
  ASSUME NEW A, NEW B, A \cup B \subseteq Objects, \A a \in A, b \in B : a < b
  PROVE  Buckets(Buckets(A) \cup B) = Buckets(A \cup B)
<1> DEFINE C == Buckets(A)
           S == A \cup B
           T == C \cup B
           F == First(Leads(S), ThumbnailFolders)
<1>1. ThumbnailFolders \in Nat /\ ThumbnailLimit \in Nat
  BY ListingAssumption
<1>2. C \subseteq A /\ A \subseteq Objects /\ S \subseteq Objects /\ T \subseteq Objects /\ T \subseteq S
  BY BucketsAre
<1>3. First(Leads(T), ThumbnailFolders) = F
  BY SameLeads
<1>4. F \cap Leads(A) = First(Leads(A), ThumbnailFolders)
  <2>1. Initial(Leads(A), Leads(S)) /\ Leads(S) \subseteq Objects
    BY <1>2, LeadsOfMore, LeadsAre
  <2> QED BY <1>1, <2>1, WithinInitial
<1>5. F \subseteq Leads(S) /\ F \subseteq Leads(T)
  BY <1>3 DEF First
<1>6. ASSUME NEW k \in T PROVE Leader(T, k) \in F <=> Leader(S, k) \in F
  <2>1. k \in S
    BY <1>2
  <2>2. GroupOf[Leader(T, k)] = GroupOf[k] /\ GroupOf[Leader(S, k)] = GroupOf[k]
    BY ONLY <1>2, <2>1, LeaderIs, k \in T
  <2>3. Leader(T, k) \in F => Leader(T, k) = Leader(S, k)
    BY ONLY <1>2, <1>5, <2>1, <2>2, LeaderAlone
  <2>4. Leader(S, k) \in F => Leader(S, k) = Leader(T, k)
    BY ONLY <1>2, <1>5, <1>6, <2>2, LeaderAlone
  <2> QED BY <2>3, <2>4
<1>7. \A k \in A : Leader(S, k) = Leader(A, k) /\ Rank(S, k) = Rank(A, k)
  BY LeadsOfMore
<1>8. ASSUME NEW k \in A, Leader(S, k) \in F PROVE Leader(A, k) \in First(Leads(A), ThumbnailFolders)
  BY ONLY <1>2, <1>4, <1>7, <1>8, LeaderIs
<1>9. ASSUME NEW k \in A \ C PROVE k \notin Buckets(S)
  <2>1. SUFFICES ASSUME k \in Buckets(S) PROVE FALSE
    OBVIOUS
  <2>2. Leader(S, k) \in F /\ Rank(S, k) < ThumbnailLimit
    BY <2>1 DEF Buckets
  <2>3. Leader(A, k) \in First(Leads(A), ThumbnailFolders)
    BY <1>8, <1>9, <2>2
  <2> QED BY <1>7, <1>9, <2>2, <2>3 DEF Buckets
<1>10. ASSUME NEW k \in C PROVE Rank(T, k) = Rank(S, k)
  <2>1. k \in A /\ Leader(A, k) \in First(Leads(A), ThumbnailFolders)
    BY <1>2, <1>10 DEF Buckets
  <2>2. GroupIn(C, k) = First(GroupIn(A, k), ThumbnailLimit)
    BY <1>2, <2>1, BucketsOfGroup
  <2>3. Initial(GroupIn(C, k), GroupIn(A, k))
    <3>1. GroupIn(A, k) \subseteq Objects
      BY <1>2 DEF GroupIn
    <3> QED BY <1>1, <2>2, <3>1, FirstIsInitial
  <2>4. k \in GroupIn(C, k)
    BY <1>10 DEF GroupIn
  <2>5. {j \in GroupIn(T, k) : j < k} = {j \in GroupIn(S, k) : j < k}
    <3>1. \A j \in GroupIn(S, k) : j < k => j \in GroupIn(A, k)
      BY <1>2, <2>1, ObjectsAreNumbers DEF GroupIn
    <3>2. \A j \in GroupIn(A, k) : j < k => j \in GroupIn(C, k)
      BY ONLY <1>2, <2>3, <2>4, ObjectsAreNumbers DEF Initial, GroupIn
    <3>3. \A j \in GroupIn(C, k) : j \in GroupIn(T, k)
      BY DEF GroupIn
    <3>4. \A j \in GroupIn(T, k) : j \in GroupIn(S, k)
      BY <1>2 DEF GroupIn
    <3> HIDE DEF S, T
    <3> QED BY <3>1, <3>2, <3>3, <3>4
  <2> QED BY <2>5 DEF Rank
<1>11. ASSUME NEW k \in B, Leader(S, k) \in F
       PROVE  Rank(T, k) < ThumbnailLimit <=> Rank(S, k) < ThumbnailLimit
  <2> DEFINE AG == GroupIn(A, k)
             CG == GroupIn(C, k)
             BG == {j \in GroupIn(B, k) : j < k}
  <2>1. /\ {j \in GroupIn(S, k) : j < k} = AG \cup BG
        /\ {j \in GroupIn(T, k) : j < k} = CG \cup BG
    BY <1>2 DEF GroupIn
  <2>2. Rank(S, k) = Cardinality(AG \cup BG) /\ Rank(T, k) = Cardinality(CG \cup BG)
    BY <2>1 DEF Rank
  <2>3. CG \subseteq AG /\ AG \subseteq Objects /\ BG \subseteq Objects
    BY <1>2 DEF GroupIn
  <2>4. CASE AG = CG
    BY <2>2, <2>4
  <2>5. CASE AG # CG
    <3>1. PICK a \in AG : TRUE
      BY <2>3, <2>5
    <3>2. a \in A /\ GroupOf[a] = GroupOf[k] /\ GroupIn(A, a) = AG /\ GroupIn(C, a) = CG /\ a \in S
      BY <3>1 DEF GroupIn
    <3>3. Leader(S, a) = Leader(S, k)
      <4>1. k \in S /\ a \in S
        BY <3>2
      <4>2. Leader(S, k) \in Leads(S) /\ GroupOf[Leader(S, k)] = GroupOf[a]
        BY ONLY <1>2, <3>2, <4>1, LeaderIs
      <4> QED BY ONLY <1>2, <4>1, <4>2, LeaderAlone
    <3>4. Leader(A, a) \in First(Leads(A), ThumbnailFolders)
      BY <1>8, <1>11, <3>2, <3>3
    <3>5. CG = First(AG, ThumbnailLimit)
      BY <1>2, <3>2, <3>4, BucketsOfGroup
    <3>6. Cardinality(CG) = ThumbnailLimit
      BY <1>1, <2>3, <2>5, <3>5, FirstCounts
    <3>7. CG \subseteq AG \cup BG /\ CG \subseteq CG \cup BG /\ AG \cup BG \subseteq Objects /\ CG \cup BG \subseteq Objects
      BY <2>3
    <3> HIDE DEF AG, CG, BG
    <3>8. Cardinality(CG) <= Cardinality(AG \cup BG) /\ Cardinality(CG) <= Cardinality(CG \cup BG)
      BY <3>7, Fewer
    <3>9. Cardinality(AG \cup BG) \in Nat /\ Cardinality(CG \cup BG) \in Nat
      BY <3>7, ObjectsAreFinite
    <3> QED BY <1>1, <2>2, <3>6, <3>8, <3>9
  <2> QED BY <2>4, <2>5
<1>12. ASSUME NEW k \in S PROVE k \in Buckets(T) <=> k \in Buckets(S)
  <2>1. CASE k \in A \ C
    <3>1. k \notin T
      BY <2>1, ObjectsAreNumbers, <1>2
    <3> QED BY <1>9, <2>1, <3>1 DEF Buckets
  <2>2. CASE k \in C
    BY <1>3, <1>6, <1>10, <2>2 DEF Buckets
  <2>3. CASE k \in B
    BY <1>3, <1>6, <1>11, <2>3 DEF Buckets
  <2> QED BY <1>12, <2>1, <2>2, <2>3
<1>13. Buckets(T) \subseteq S /\ Buckets(S) \subseteq S
  BY <1>2 DEF Buckets
<1> HIDE DEF S, T
<1>14. Buckets(T) = Buckets(S)
  BY <1>12, <1>13
<1> QED BY <1>14 DEF S, T

LeadTurn(L, k) == Cardinality({j \in L : j < k})

\* With leads enough, these are all that is dealt.
LEMMA DealOfLeads ==
  ASSUME NEW S, S \subseteq Objects, ThumbnailLimit <= Cardinality(Leads(S))
  PROVE  Deal(S) = {<<k, LeadTurn(Leads(S), k)>> :
                      k \in {j \in Leads(S) : LeadTurn(Leads(S), j) < ThumbnailLimit}}
<1> DEFINE L == Leads(S)
<1>1. ThumbnailLimit \in Nat /\ L \subseteq S /\ L \subseteq Objects /\ Cardinality(L) \in Nat
  BY LeadsAre, ListingAssumption
<1>2. ASSUME NEW k \in L PROVE Turn(S, k) = LeadTurn(L, k)
  <2>1. Rank(S, k) = 0 /\ Leader(S, k) = k /\ k \in Nat
    BY <1>1, <1>2, RankIs, LeaderAlone, ObjectsAreNumbers
  <2>2. ASSUME NEW j \in S PROVE Before(S, j, k) <=> j \in L /\ j < k
    <3>1. Rank(S, j) \in Nat /\ (Rank(S, j) = 0 <=> j \in L) /\ j \in Nat
      BY RankIs, ObjectsAreNumbers
    <3>2. j \in L => Leader(S, j) = j
      BY <1>1, LeaderAlone
    <3> QED BY <2>1, <3>1, <3>2 DEF Before
  <2>3. {j \in S : Before(S, j, k)} = {j \in L : j < k}
    BY <1>1, <2>2
  <2> QED BY <2>3 DEF Turn, LeadTurn
<1>3. ASSUME NEW k \in S, k \notin L PROVE ~(Turn(S, k) < ThumbnailLimit)
  <2>1. \A j \in L : Before(S, j, k)
    <3> TAKE j \in L
    <3>1. Rank(S, j) = 0 /\ Rank(S, k) \in Nat /\ Rank(S, k) # 0
      BY <1>1, <1>3, RankIs
    <3> QED BY <3>1 DEF Before
  <2>2. L \subseteq {j \in S : Before(S, j, k)} /\ {j \in S : Before(S, j, k)} \subseteq Objects
    BY <1>1, <2>1
  <2>3. Cardinality(L) <= Turn(S, k) /\ Turn(S, k) \in Nat
    BY ONLY <2>2, Fewer, ObjectsAreFinite DEF Turn
  <2> QED BY <1>1, <2>3
<1>4. {j \in S : Turn(S, j) < ThumbnailLimit} = {j \in L : LeadTurn(L, j) < ThumbnailLimit}
  BY <1>1, <1>2, <1>3
<1>5. ASSUME NEW k \in L PROVE <<k, Turn(S, k)>> = <<k, LeadTurn(L, k)>>
  BY <1>2
<1> DEFINE D == {j \in L : LeadTurn(L, j) < ThumbnailLimit}
<1>6. D \subseteq L
  OBVIOUS
<1>7. Deal(S) = {<<k, Turn(S, k)>> : k \in D}
  BY <1>4 DEF Deal
<1> HIDE DEF D, L
<1>8. {<<k, Turn(S, k)>> : k \in D} = {<<k, LeadTurn(L, k)>> : k \in D}
  BY <1>5, <1>6
<1> QED BY <1>7, <1>8 DEF D, L

\* What is dealt is settled once the buckets are enough.
LEMMA EnoughIsAll ==
  ASSUME NEW A, NEW B, A \cup B \subseteq Objects, \A a \in A, b \in B : a < b, Enough(Buckets(A))
  PROVE  Deal(Buckets(A)) = Deal(Buckets(A \cup B))
<1> DEFINE n == ThumbnailFolders
<1>1. n \in Nat /\ ThumbnailLimit \in Nat /\ ThumbnailLimit <= n
  BY ListingAssumption
<1>2. A \subseteq Objects
  OBVIOUS
<1>3. /\ Leads(Buckets(A)) = First(Leads(A), n)
      /\ Leads(Buckets(A \cup B)) = First(Leads(A \cup B), n)
      /\ Buckets(A) \subseteq Objects /\ Buckets(A \cup B) \subseteq Objects
  BY BucketsAre
<1>4. Cardinality(First(Leads(A), n)) >= n
  BY <1>3 DEF Enough
<1>5. /\ Leads(A) \subseteq Objects /\ Leads(A \cup B) \subseteq Objects
      /\ Cardinality(Leads(A)) \in Nat
  BY <1>2, LeadsAre
<1>6. n <= Cardinality(Leads(A))
  <2>1. First(Leads(A), n) \subseteq Leads(A)
    BY DEF First
  <2>2. Cardinality(First(Leads(A), n)) <= Cardinality(Leads(A))
    BY <1>5, <2>1, Fewer
  <2>3. Cardinality(First(Leads(A), n)) \in Nat
    BY <1>5, <2>1, ObjectsAreFinite
  <2> QED BY <1>1, <1>4, <1>5, <2>2, <2>3
<1>7. First(Leads(A \cup B), n) = First(Leads(A), n)
  <2>1. Initial(Leads(A), Leads(A \cup B))
    BY LeadsOfMore
  <2> QED BY <1>1, <1>5, <1>6, <2>1, FirstOfInitial
<1>8. Leads(Buckets(A \cup B)) = Leads(Buckets(A))
  BY <1>3, <1>7
<1>9. ThumbnailLimit <= Cardinality(Leads(Buckets(A)))
  <2>1. Cardinality(Leads(Buckets(A))) \in Nat
    BY <1>3, LeadsAre
  <2> QED BY <1>1, <1>3, <1>4, <2>1
<1> QED BY <1>3, <1>8, <1>9, DealOfLeads

-----------------------------------------------------------------------------
(* What is wanted of the entries                                           *)

\* What is wanted is so of each entry alone.
LEMMA WantedIs ==
  ASSUME NEW job, NEW S
  PROVE  /\ Wanted(job, S) \subseteq S
         /\ \A T : Wanted(job, S \cup T) = Wanted(job, S) \cup Wanted(job, T)
         /\ \A T \in SUBSET S : Wanted(job, T) = T \cap Wanted(job, S)
<1>1. CASE job.op = "dirs"
  BY <1>1 DEF Wanted
<1>2. CASE job.op = "objects"
  BY <1>2 DEF Wanted
<1>3. CASE job.op \notin {"dirs", "objects"}
  BY <1>3 DEF Wanted
<1> QED BY <1>1, <1>2, <1>3

LEMMA WantedOfUpTo ==
  ASSUME NEW job, NEW S, NEW at
  PROVE  /\ Wanted(job, UpTo(S, at)) = UpTo(Wanted(job, S), at)
<1>1. UpTo(S, at) \in SUBSET S
  BY DEF UpTo
<1>2. Wanted(job, UpTo(S, at)) = UpTo(S, at) \cap Wanted(job, S)
  BY <1>1, WantedIs
<1>3. Wanted(job, S) \subseteq S
  BY WantedIs
<1> QED BY <1>2, <1>3 DEF UpTo

LEMMA UpToIsInitial ==
  ASSUME NEW S, S \subseteq Objects, NEW at \in Nat
  PROVE  Initial(UpTo(S, at), S) /\ UpTo(S, at) \subseteq Objects
BY ObjectsAreNumbers DEF Initial, UpTo

LEMMA UpToNothing ==
  ASSUME NEW S, S \subseteq Objects
  PROVE  UpTo(S, 0) = {} /\ {e \in S : e > 0} = S
BY ObjectsAreNumbers DEF UpTo

Pairs(S) == {<<k, contents[k]>> : k \in S}

\* There are as many pairs of an object and its version as objects.
LEMMA PairsAre ==
  ASSUME NEW S, S \subseteq Objects
  PROVE  Cardinality(Pairs(S)) = Cardinality(S) /\ SeenOf(Pairs(S)) = S
<1> DEFINE f == [k \in S |-> <<k, contents[k]>>]
           P == Pairs(S)
<1>1. /\ f \in [S -> P] /\ \A k \in S : f[k][1] = k
      /\ \A p \in P : \E k \in S : f[k] = p
  BY DEF Pairs
<1>2. IsFiniteSet(S)
  BY ObjectsAreFinite
<1>3. Cardinality(P) = Cardinality(S)
  <2> HIDE DEF f, P
  <2>1. f \in Injection(S, P)
    BY <1>1 DEF Injection, IsInjective
  <2>2. f \in Surjection(S, P)
    BY <1>1 DEF Surjection
  <2>3. f \in Bijection(S, P)
    BY <2>1, <2>2 DEF Bijection
  <2> QED BY <1>2, <2>3, FS_Bijection DEF ExistsBijection
<1>4. SeenOf(P) = S
  <2>1. \A k \in S : <<k, contents[k]>> \in P /\ <<k, contents[k]>>[1] = k
    BY DEF Pairs
  <2>2. \A p \in P : p[1] \in S
    BY DEF Pairs
  <2> HIDE DEF P
  <2> QED BY <2>1, <2>2 DEF SeenOf
<1> QED BY <1>3, <1>4

LEMMA PairsTogether ==
  ASSUME NEW S, NEW T
  PROVE  Pairs(S) \cup Pairs(T) = Pairs(S \cup T)
BY DEF Pairs

-----------------------------------------------------------------------------
(* The invariant                                                           *)

LookFields == {"job", "pc", "marks", "at", "more", "seen", "total", "scanned", "valid", "known",
               "left", "folder", "picAt", "taken", "pics", "answer", "outdated", "own"}

IsView(job) ==
    /\ job.op \in ViewOps /\ job.path \in Folders \cup {Here}
    /\ job.skip \in Nat /\ job.take \in Nat
    /\ job.op = "search" => ~job.delimiter /\ job.take > 0

IsChange(job) ==
    /\ job.op \in ChangeOps /\ job.key \in Objects /\ job.to \in Objects
    /\ job.folder \in Folders \cup {Here}
    /\ job.op = "mkdir" => \E p \in Placeholders \cap Objects : FolderOf[p] = job.folder

Shape ==
    /\ DOMAIN contents = Objects /\ DOMAIN marks = Folders
    /\ DOMAIN pictures = Folders
    /\ DOMAIN look = Viewers /\ DOMAIN change = Changers
    /\ \A v \in Viewers : DOMAIN look[v] = LookFields /\ IsView(look[v].job)
    /\ \A c \in Changers : DOMAIN change[c] = {"job", "pc", "keys"} /\ IsChange(change[c].job)

\* The entries S3 has listed, and those of them the viewer wants.
Listed(l) == UpTo(Entries(l.job), l.at)

WantedOf(l) == Wanted(l.job, Listed(l))

MoreIs(l) == l.more <=> \E e \in Entries(l.job) : e > l.at

\* What it wants has been fetched, so far as it is asked for.
HasPage(l) ==
    IF Paged(l.job)
      THEN MoreIs(l) /\ (l.more => Cardinality(WantedOf(l)) >= l.job.skip + Take(l.job))
      ELSE WantedOf(l) = Wanted(l.job, First(Entries(l.job), MaxListObjects))

InList(l) == l.job.op \in {"list", "objects", "dirs"}

\* The total before what is behind is counted.
TotalSoFar(l) ==
    IF l.job.op = "objects" /\ ~Paged(l.job)
      THEN Cardinality(Shown(ObjectsOf(l.job, Asked(l.job)))) ELSE Cardinality(WantedOf(l))

TotalIs(l) ==
    IF l.job.op = "objects" /\ ~Paged(l.job)
      THEN Cardinality(Shown(ObjectsOf(l.job, Asked(l.job))))
      ELSE Cardinality(Wanted(l.job, Entries(l.job)))

DirsNow(l) == DirsOf(l.job, Asked(l.job), marks, Opened(l.job))

OpenDirs(l) == ToPicture(l.job, DirsNow(l))

Built(l) ==
    /\ InList(l) /\ l.at \in Nat
    /\ l.answer.objects = Shown(ObjectsOf(l.job, Asked(l.job)))
    /\ l.answer.dirs = DirsNow(l)
    /\ l.left \subseteq OpenDirs(l)
    /\ l.pics = AllPictures(OpenDirs(l) \ l.left)

ImagesUpTo(f, at) == {k \in In(f) \cap Images : k <= at}

AtAsk(l) == l = [NewLook(l.job) EXCEPT !.pc = "ask", !.marks = marks] /\ InList(l)

AtPage(l) ==
    /\ InList(l) /\ l.at \in Nat /\ l.pics = NoPictures
    /\ l.seen = Pairs(WantedOf(l)) /\ l.total = Cardinality(WantedOf(l))
    /\ IF Paged(l.job) THEN Cardinality(WantedOf(l)) < l.job.skip + Take(l.job) ELSE l.at = 0

AtBuild(l) ==
    /\ InList(l) /\ l.at \in Nat /\ l.pics = NoPictures
    /\ l.seen = Pairs(WantedOf(l)) /\ l.total = Cardinality(WantedOf(l)) /\ HasPage(l)

AtPicture(l) ==
    /\ Built(l) /\ l.total = TotalSoFar(l)
    /\ Paged(l.job) => MoreIs(l)

AtPages(l) ==
    /\ AtPicture(l) /\ l.folder \in l.left /\ l.picAt \in Nat
    /\ l.taken = Buckets(ImagesUpTo(l.folder, l.picAt))

AtKeepPictures(l) == AtPicture(l) /\ l.folder \in l.left /\ Deal(l.taken) = Pictures(l.folder)

AtCount(l) ==
    Built(l) /\ l.left = {} /\ l.total = Cardinality(WantedOf(l)) /\ Paged(l.job)

AtKeep(l) == Built(l) /\ l.left = {} /\ (l.job.op # "list" => l.total = TotalIs(l))

\* What a search sees of the entries it has scanned.
Sight(l, S) == Visible(marks, Opened(l.job), S)

Searched(l) ==
    /\ l.job.op = "search" /\ l.at \in Nat /\ l.pics = NoPictures
    /\ l.known = {f \in FoundNames(Listed(l)) : marks[f] # "plain"}
    /\ l.valid = l.known \cap Opened(l.job)
    /\ l.seen = Pairs(Hits(Sight(l, Listed(l))))
    /\ l.total = Cardinality(Hits(Sight(l, Listed(l))))
    /\ l.left = FoundNames(Sight(l, Listed(l))) \cap l.job.names

AtSearch(l) ==
    /\ Searched(l) /\ l.scanned = Cardinality(Listed(l)) /\ l.scanned < MaxScan
    /\ \E n \in Nat : l.scanned = n * MaxListObjects

AtFound(l) == Searched(l) /\ Listed(l) = First(Entries(l.job), Scanned)

AtDone(l) == l.own => l.answer = Expected(l.job, Opened(l.job))

LookIs(l) ==
    /\ l.pc \in {"new", "refused", "ask", "page", "build", "picture", "pages", "keepPictures",
                 "count", "keep", "found", "done"}
    /\ l.pc = "new" => l = NewLook(l.job)
    /\ ~l.outdated /\ l.pc \notin {"new", "refused", "done"} => l.marks = marks
    /\ ~l.outdated =>
          /\ l.pc = "ask" => AtAsk(l)
          /\ l.pc = "page" => AtPage(l) \/ AtSearch(l)
          /\ l.pc = "build" => AtBuild(l)
          /\ l.pc = "picture" => AtPicture(l)
          /\ l.pc = "pages" => AtPages(l)
          /\ l.pc = "keepPictures" => AtKeepPictures(l)
          /\ l.pc = "count" => AtCount(l)
          /\ l.pc = "keep" => AtKeep(l)
          /\ l.pc = "found" => AtFound(l)
          /\ l.pc = "done" => AtDone(l)

ViewsAre == \A v \in Viewers : \A l \in {look[v]} : LookIs(l)

Current(k, answer) ==
    \E opened \in IF k.token THEN {{}, openWith} ELSE {{}} :
       answer = Expected([k EXCEPT !.token = "none"], opened)

\* A changer will delete the kept listing k.
WillForget(d, k) ==
    d.pc \in {"limits", "pictures", "keep", "find"} \/ (d.pc = "forget" /\ k \in d.keys)

ListingsAre ==
    \A k \in DOMAIN listing \ lateListings :
       \/ \A answer \in {listing[k]} : Current(k, answer)
       \/ \E c \in Changers : WillForget(change[c], k)

WillSpoil(d, f) == d.pc \in {"limits", "pictures"} /\ f \in Spoilt(d.job)

PicturesAre ==
    \A f \in Folders \ latePictures :
       \/ pictures[f] \in {NoAnswer, Pictures(f)}
       \/ \E c \in Changers : WillSpoil(change[c], f)

ListInv == Shape /\ ViewsAre /\ ListingsAre /\ PicturesAre

-----------------------------------------------------------------------------
(* What leaves the storage alone                                           *)

\* What is listed, pictured and expected depends on the storage alone.
LEMMA SameStorage ==
  ASSUME UNCHANGED storage
  PROVE  /\ \A job : Entries(job)' = Entries(job) /\ Opened(job)' = Opened(job)
         /\ \A job : Asked(job)' = Asked(job)
         /\ \A S : Pairs(S)' = Pairs(S) /\ Shown(S)' = Shown(S)
         /\ \A f : In(f)' = In(f) /\ Pictures(f)' = Pictures(f)
         /\ \A S : AllPictures(S)' = AllPictures(S)
         /\ \A job, opened : Expected(job, opened)' = Expected(job, opened)
<1>1. contents' = contents /\ marks' = marks /\ openWith' = openWith
  BY DEF storage
<1>2. \A f : In(f)' = In(f)
  BY <1>1 DEF In
<1>3. Heads' = Heads
  BY <1>1, <1>2 DEF Heads
<1>4. \A job : Entries(job)' = Entries(job)
  BY <1>1, <1>2, <1>3 DEF Entries
<1>5. \A f : Pictures(f)' = Pictures(f)
  BY <1>2 DEF Pictures
<1>6. \A S : Pairs(S)' = Pairs(S) /\ Shown(S)' = Shown(S)
  BY <1>1 DEF Pairs, Shown
<1>7. \A job : Asked(job)' = Asked(job) /\ Opened(job)' = Opened(job)
  BY <1>1, <1>4 DEF Asked, Opened
<1>8. \A S : AllPictures(S)' = AllPictures(S)
  BY <1>5 DEF AllPictures
<1>9. \A job, opened : ExpectedHits(job, opened)' = ExpectedHits(job, opened)
  BY <1>1, <1>4, <1>6 DEF ExpectedHits
<1>10. \A job : ExpectedTotal(job)' = ExpectedTotal(job)
  BY <1>4, <1>6, <1>7 DEF ExpectedTotal
<1>11. \A job, opened : ExpectedPage(job, opened)' = ExpectedPage(job, opened)
  BY <1>1, <1>6, <1>7, <1>8, <1>10 DEF ExpectedPage
<1>12. \A job, opened : Expected(job, opened)' = Expected(job, opened)
  BY <1>9, <1>11 DEF Expected
<1> QED BY <1>2, <1>4, <1>5, <1>6, <1>7, <1>8, <1>12

\* ... and so does what is known of a viewer.
LEMMA SameLook ==
  ASSUME UNCHANGED storage, NEW l
  PROVE  LookIs(l)' = LookIs(l)
<1>1. contents' = contents /\ marks' = marks /\ openWith' = openWith
  BY DEF storage
<1>2. Listed(l)' = Listed(l) /\ WantedOf(l)' = WantedOf(l) /\ (MoreIs(l)' <=> MoreIs(l))
  BY SameStorage DEF Listed, WantedOf, MoreIs
<1>3. DirsNow(l)' = DirsNow(l)
  BY <1>1, SameStorage DEF DirsNow
<1>4. OpenDirs(l)' = OpenDirs(l)
  BY <1>3 DEF OpenDirs
<1>5. Built(l)' = Built(l)
  BY <1>3, <1>4, SameStorage DEF Built
<1>6. AtPicture(l)' = AtPicture(l)
  BY <1>2, <1>5, SameStorage DEF AtPicture, TotalSoFar
<1>7. AtPages(l)' = AtPages(l)
  BY <1>6, SameStorage DEF AtPages, ImagesUpTo
<1>8. AtKeepPictures(l)' = AtKeepPictures(l)
  BY <1>6, SameStorage DEF AtKeepPictures
<1>9. AtCount(l)' = AtCount(l) /\ AtKeep(l)' = AtKeep(l)
  BY <1>2, <1>5, SameStorage DEF AtCount, AtKeep, TotalIs
<1>10. Sight(l, Listed(l))' = Sight(l, Listed(l))
  BY <1>1, <1>2, SameStorage DEF Sight
<1>11. Searched(l)' = Searched(l)
  BY <1>1, <1>2, <1>10, SameStorage DEF Searched
<1>12. AtSearch(l)' = AtSearch(l) /\ AtFound(l)' = AtFound(l)
  BY <1>2, <1>11, SameStorage DEF AtSearch, AtFound
<1>13. AtDone(l)' = AtDone(l)
  BY SameStorage DEF AtDone
<1>14. AtAsk(l)' = AtAsk(l)
  BY <1>1 DEF AtAsk
<1>15. HasPage(l)' = HasPage(l)
  BY <1>2, SameStorage DEF HasPage
<1>16. AtPage(l)' = AtPage(l) /\ AtBuild(l)' = AtBuild(l)
  BY <1>2, <1>15, SameStorage DEF AtPage, AtBuild
<1> QED BY <1>1, <1>6, <1>7, <1>8, <1>9, <1>12, <1>13, <1>14, <1>16 DEF LookIs

\* A viewer moves, and the others stay as they are.
LEMMA ViewMoves ==
  ASSUME Shape, ViewsAre, NEW v \in Viewers, NEW new, LookIs(new), DOMAIN new = LookFields,
         new.job = look[v].job, See(v, new), UNCHANGED <<storage, change>>,
         DOMAIN pictures' = Folders
  PROVE  Shape' /\ ViewsAre'
<1>1. look' = [look EXCEPT ![v] = new] /\ DOMAIN look = Viewers
  BY DEF See, Shape
<1>2. \A w \in Viewers : look'[w] = IF w = v THEN new ELSE look[w]
  BY <1>1
<1>3. ASSUME NEW w \in Viewers, NEW m \in {look'[w]} PROVE LookIs(m)'
  <2>1. LookIs(m)
    BY <1>2, <1>3 DEF ViewsAre
  <2> QED BY <2>1, SameLook
<1>4. ViewsAre'
  BY <1>3 DEF ViewsAre
<1>5. Shape'
  BY <1>1, <1>2 DEF Shape, storage
<1> QED BY <1>4, <1>5

-----------------------------------------------------------------------------
(* A viewer                                                                *)

Places == {"new", "refused", "ask", "page", "build", "picture", "pages", "keepPictures",
           "count", "keep", "found", "done"}

\* A viewer that a change overtook may see anything.
LEMMA OvertakenIs ==
  ASSUME NEW l, l.outdated, l.pc \in Places \ {"new"}
  PROVE  LookIs(l)
BY DEF LookIs, Places

\* A viewer starts with nothing.
LEMMA NewLookIs ==
  ASSUME NEW job
  PROVE  /\ DOMAIN NewLook(job) = LookFields /\ LookIs(NewLook(job))
         /\ NewLook(job).job = job /\ NewLook(job).pc = "new" /\ ~NewLook(job).outdated
         /\ ~NewLook(job).own
BY DEF NewLook, LookIs, LookFields

LEMMA EndedIs ==
  ASSUME NEW v, DOMAIN look[v] = LookFields, NEW answer, NEW n, n = Ended(v, answer)
  PROVE  /\ DOMAIN n = LookFields /\ n.job = look[v].job /\ n.pc = "done" /\ n.answer = answer
         /\ n.own = look[v].own /\ n.outdated = look[v].outdated
BY DEF Ended, NewLook, LookFields

\* A viewer may end with an answer that is kept or was overtaken, or as expected.
LEMMA DoneIs ==
  ASSUME NEW v, DOMAIN look[v] = LookFields, NEW answer, NEW n, n = Ended(v, answer),
         look[v].outdated \/ (look[v].own => answer = Expected(look[v].job, Opened(look[v].job)))
  PROVE  DOMAIN n = LookFields /\ n.job = look[v].job /\ LookIs(n)
BY EndedIs DEF LookIs, AtDone

\* Take is never 0.
LEMMA TakeIs ==
  ASSUME NEW job, IsView(job)
  PROVE  Take(job) \in Nat \ {0} /\ job.skip \in Nat
BY ListingAssumption DEF IsView, Take

\* What is listed up to a place, and what is wanted of it.
LEMMA ListedIs ==
  ASSUME NEW l, l.at \in Nat
  PROVE  /\ Listed(l) \subseteq Entries(l.job) /\ Listed(l) \subseteq Objects
         /\ Initial(Listed(l), Entries(l.job))
         /\ WantedOf(l) \subseteq Listed(l) /\ WantedOf(l) \subseteq Objects
         /\ Initial(WantedOf(l), Wanted(l.job, Entries(l.job)))
         /\ Wanted(l.job, Entries(l.job)) \subseteq Objects
         /\ l.at = 0 => Listed(l) = {} /\ WantedOf(l) = {}
         /\ ~(\E e \in Entries(l.job) : e > l.at) => Listed(l) = Entries(l.job)
<1> DEFINE E == Entries(l.job)
<1>1. E \subseteq Objects
  BY EntriesAreObjects
<1>2. Listed(l) = UpTo(E, l.at)
  BY DEF Listed
<1>3. Initial(Listed(l), E) /\ Listed(l) \subseteq E /\ Listed(l) \subseteq Objects
  BY <1>1, <1>2, UpToIsInitial DEF Initial
<1>4. WantedOf(l) \subseteq Listed(l) /\ WantedOf(l) = UpTo(Wanted(l.job, E), l.at)
      /\ Wanted(l.job, E) \subseteq E
  BY <1>2, WantedIs, WantedOfUpTo DEF WantedOf
<1>5. Wanted(l.job, E) \subseteq Objects
  BY <1>1, <1>4
<1>6. Initial(WantedOf(l), Wanted(l.job, E))
  BY <1>4, <1>5, UpToIsInitial
<1>7. l.at = 0 => Listed(l) = {}
  BY <1>1, <1>2, UpToNothing
<1>8. ~(\E e \in E : e > l.at) => Listed(l) = E
  BY <1>1, <1>2, ObjectsAreNumbers DEF UpTo
<1> QED BY <1>1, <1>3, <1>4, <1>5, <1>6, <1>7, <1>8

LEMMA NothingListed ==
  ASSUME NEW l, l.at = 0
  PROVE  Listed(l) = {} /\ WantedOf(l) = {} /\ Pairs(WantedOf(l)) = {} /\ Cardinality(WantedOf(l)) = 0
<1>1. Listed(l) = {} /\ WantedOf(l) = {}
  BY ListedIs
<1> QED BY <1>1, FS_EmptySet DEF Pairs

\* The steps of a viewer, one by one: each keeps what is known of it.
LEMMA EnterMoves ==
  ASSUME Shape, ViewsAre, NEW v \in Viewers, NEW op, NEW pc, Enter(v, op, pc),
         <<op, pc>> \in {<<"list", "ask">>, <<"dirs", "ask">>, <<"objects", "ask">>, <<"search", "page">>}
  PROVE  Shape' /\ ViewsAre'
<1>1. PICK l : l = look[v]
  OBVIOUS
<1>2. DOMAIN l = LookFields /\ IsView(l.job) /\ l = NewLook(l.job) /\ l.job.op = op
  BY <1>1 DEF Shape, ViewsAre, LookIs, Enter, LookAt
<1>3. l.outdated = FALSE /\ l.own = FALSE
  BY <1>2 DEF NewLook
<1>4. PICK n : See(v, n) /\ \/ n = [l EXCEPT !.pc = "refused"]
                            \/ n = Ended(v, Empty)
                            \/ n = [l EXCEPT !.pc = pc, !.marks = marks]
  <2>1. \/ See(v, [l EXCEPT !.pc = "refused"])
        \/ See(v, Ended(v, Empty))
        \/ See(v, [l EXCEPT !.pc = pc, !.marks = marks])
    BY <1>1 DEF Enter
  <2> QED BY <2>1
<1>5. DOMAIN n = LookFields /\ n.job = l.job /\ LookIs(n)
  <2>1. CASE n = [l EXCEPT !.pc = "refused"]
    BY <1>2, <1>3, <2>1 DEF LookIs, LookFields
  <2>2. CASE n = Ended(v, Empty)
    BY <1>1, <1>2, <1>3, <2>2, DoneIs
  <2>3. CASE n = [l EXCEPT !.pc = pc, !.marks = marks] /\ pc = "ask"
    <3>1. n = [NewLook(l.job) EXCEPT !.pc = "ask", !.marks = marks]
      BY <1>2, <2>3
    <3>2. DOMAIN n = LookFields /\ n.job = l.job /\ n.pc = "ask" /\ n.marks = marks
      BY <1>2, <2>3 DEF LookFields
    <3>3. AtAsk(n)
      BY <1>2, <2>3, <3>1, <3>2 DEF AtAsk, InList
    <3> QED BY <3>2, <3>3 DEF LookIs
  <2>4. CASE n = [l EXCEPT !.pc = pc, !.marks = marks] /\ pc = "page"
    <3>1. DOMAIN n = LookFields /\ n.job = l.job /\ n.pc = "page" /\ n.marks = marks
      BY <1>2, <2>4 DEF LookFields
    <3>2. /\ n.at = 0 /\ n.pics = NoPictures /\ n.known = {} /\ n.valid = {} /\ n.seen = {}
          /\ n.total = 0 /\ n.left = {} /\ n.scanned = 0 /\ n.job.op = "search"
      BY <1>2, <2>4 DEF NewLook
    <3>3. Listed(n) = {}
      BY <3>2, NothingListed
    <3>4. Sight(n, {}) = {} /\ FoundNames({}) = {} /\ Hits({}) = {} /\ Pairs({}) = {}
      BY DEF Sight, Visible, FoundNames, Hits, Pairs
    <3>5. Searched(n)
      BY <3>2, <3>3, <3>4, FS_EmptySet DEF Searched
    <3>6. AtSearch(n)
      <4>1. 0 < MaxScan /\ 0 = 0 * MaxListObjects
        BY ListingAssumption
      <4> QED BY <3>2, <3>3, <3>5, <4>1, FS_EmptySet DEF AtSearch
    <3> QED BY <3>1, <3>6 DEF LookIs
  <2> QED BY <1>4, <2>1, <2>2, <2>3, <2>4
<1> QED BY <1>1, <1>4, <1>5, ViewMoves DEF Enter, Unmoved, Shape, lists

LEMMA AskListingMoves ==
  ASSUME Shape, ViewsAre, NEW v \in Viewers, AskListing(v)
  PROVE  Shape' /\ ViewsAre'
<1>1. PICK l : l = look[v]
  OBVIOUS
<1>2. DOMAIN l = LookFields /\ IsView(l.job) /\ LookIs(l) /\ l.pc = "ask"
  BY <1>1 DEF Shape, ViewsAre, AskListing, LookAt
<1>3. PICK n : See(v, n) /\ \/ \E answer : n = Ended(v, answer)
                            \/ n = [l EXCEPT !.pc = "page", !.own = TRUE]
  BY <1>1 DEF AskListing, See
<1>4. ~l.outdated => AtAsk(l) /\ l.marks = marks
  BY <1>2 DEF LookIs
<1>5. DOMAIN n = LookFields /\ n.job = l.job /\ LookIs(n)
  <2>1. CASE \E answer : n = Ended(v, answer)
    <3>1. ~l.outdated => l.own = FALSE
      BY <1>4 DEF AtAsk, NewLook
    <3> QED BY <1>1, <1>2, <2>1, <3>1, DoneIs
  <2>2. CASE n = [l EXCEPT !.pc = "page", !.own = TRUE]
    <3>1. /\ DOMAIN n = LookFields /\ n.job = l.job /\ n.pc = "page" /\ n.marks = l.marks
          /\ n.outdated = l.outdated /\ n.at = l.at /\ n.pics = l.pics /\ n.seen = l.seen
          /\ n.total = l.total
      BY <1>2, <2>2 DEF LookFields
    <3>2. CASE l.outdated
      BY <3>1, <3>2, OvertakenIs DEF Places
    <3>3. CASE ~l.outdated
      <4>1. n.at = 0 /\ n.pics = NoPictures /\ n.seen = {} /\ n.total = 0 /\ InList(n)
        BY <1>4, <3>1, <3>3 DEF AtAsk, NewLook, InList
      <4>2. WantedOf(n) = {} /\ Pairs(WantedOf(n)) = {} /\ Cardinality(WantedOf(n)) = 0
        BY <4>1, NothingListed
      <4>3. 0 < n.job.skip + Take(n.job)
        BY <1>2, <3>1, TakeIs
      <4>4. AtPage(n)
        BY <4>1, <4>2, <4>3 DEF AtPage
      <4> QED BY <1>4, <3>1, <3>3, <4>4 DEF LookIs
    <3> QED BY <3>1, <3>2, <3>3
  <2> QED BY <1>3, <2>1, <2>2
<1> QED BY <1>1, <1>3, <1>5, ViewMoves DEF AskListing, Unmoved, Shape, lists

\* The page behind what is listed already.
LEMMA NextPage ==
  ASSUME NEW v, NEW l, l = look[v], IsView(l.job), l.at \in Nat, NEW n \in Nat \ {0},
         NEW P, P = Page(v, n), NEW m, m.job = l.job, m.at = Behind(l.job, P, l.at)
  PROVE  /\ m.at \in Nat /\ P \subseteq Objects
         /\ Listed(m) = Listed(l) \cup P
         /\ Cardinality(Listed(m)) = Cardinality(Listed(l)) + Cardinality(P)
         /\ WantedOf(m) = WantedOf(l) \cup Wanted(l.job, P)
         /\ Cardinality(WantedOf(m)) = Cardinality(WantedOf(l)) + Cardinality(Wanted(l.job, P))
         /\ Listed(l) \cap P = {}
         /\ Cardinality(P) <= n /\ (MoreBehind(v, P) => Cardinality(P) = n)
         /\ MoreBehind(v, P) <=> \E e \in Entries(m.job) : e > m.at
<1> DEFINE E == Entries(l.job)
<1>1. E \subseteq Objects /\ P = First({e \in E : e > l.at}, n)
  BY EntriesAreObjects DEF Page
<1>2. l.job.path \in Folders \cup {Here}
  BY DEF IsView
<1>3. /\ m.at \in Nat /\ P \subseteq E /\ UpTo(E, l.at) \cap P = {}
      /\ UpTo(E, m.at) = UpTo(E, l.at) \cup P
      /\ (\E e \in E : e > m.at) => Cardinality(P) = n
      /\ Cardinality(P) <= n
      /\ Cardinality(UpTo(E, m.at)) = Cardinality(UpTo(E, l.at)) + Cardinality(P)
  BY <1>1, <1>2, PageIs
<1>4. Listed(l) = UpTo(E, l.at) /\ Listed(m) = UpTo(E, m.at)
  BY DEF Listed
<1>5. WantedOf(m) = WantedOf(l) \cup Wanted(l.job, P)
  BY <1>3, <1>4, WantedIs DEF WantedOf
<1>6. WantedOf(l) \subseteq UpTo(E, l.at) /\ Wanted(l.job, P) \subseteq P
  BY <1>4, WantedIs DEF WantedOf
<1>7. WantedOf(l) \cap Wanted(l.job, P) = {}
  BY <1>3, <1>6
<1>8. WantedOf(l) \subseteq Objects /\ Wanted(l.job, P) \subseteq Objects
  BY <1>1, <1>3, <1>4, <1>6, ListedIs
<1>9. Cardinality(WantedOf(m)) = Cardinality(WantedOf(l)) + Cardinality(Wanted(l.job, P))
  BY <1>5, <1>7, <1>8, Together
<1>10. MoreBehind(v, P) <=> \E e \in E : e > m.at
  BY DEF MoreBehind
<1> QED BY <1>1, <1>3, <1>4, <1>5, <1>9, <1>10

LEMMA FetchMoves ==
  ASSUME Shape, ViewsAre, NEW v \in Viewers, NEW op, Fetch(v, op), op \in {"list", "objects", "dirs"}
  PROVE  Shape' /\ ViewsAre'
<1>1. PICK l : l = look[v]
  OBVIOUS
<1>2. DOMAIN l = LookFields /\ IsView(l.job) /\ LookIs(l) /\ l.pc = "page" /\ l.job.op = op
  BY <1>1 DEF Shape, ViewsAre, Fetch, LookAt
<1> DEFINE last == ~Paged(l.job)
           asked == l.job.skip + Take(l.job)
<1>3. PICK k : /\ See(v, Fetched(v, k, last))
               /\ k = IF Paged(l.job) THEN Least(MaxListObjects, asked - Cardinality(l.seen))
                      ELSE MaxListObjects
  <2>1. CASE Paged(l.job)
    <3>1. See(v, Fetched(v, Least(MaxListObjects, asked - Cardinality(l.seen)), FALSE))
      BY <1>1, <2>1 DEF Fetch, FetchMore
    <3>2. last = FALSE
      BY <2>1
    <3> QED BY <2>1, <3>1, <3>2
  <2>2. CASE ~Paged(l.job)
    <3>1. See(v, Fetched(v, MaxListObjects, TRUE))
      BY <1>1, <2>2 DEF Fetch, FetchOnce
    <3>2. last = TRUE
      BY <2>2
    <3> QED BY <2>2, <3>1, <3>2
  <2> QED BY <2>1, <2>2
<1>4. PICK P : P = Page(v, k)
  OBVIOUS
<1> DEFINE W == Wanted(l.job, P)
           enough == Cardinality(l.seen) + Cardinality(W) >= asked
<1>5. PICK n : n = [l EXCEPT !.seen = l.seen \cup Seeing(v, W), !.at = Behind(l.job, P, l.at),
                             !.total = l.total + Cardinality(W), !.more = MoreBehind(v, P),
                             !.pc = IF last \/ enough \/ ~MoreBehind(v, P) THEN "build" ELSE "page"]
  OBVIOUS
<1>6. See(v, n)
  BY <1>1, <1>3, <1>4, <1>5 DEF Fetched
<1>7. /\ DOMAIN n = LookFields /\ n.job = l.job /\ n.marks = l.marks /\ n.outdated = l.outdated
      /\ n.pics = l.pics /\ n.seen = l.seen \cup Seeing(v, W) /\ n.at = Behind(l.job, P, l.at)
      /\ n.total = l.total + Cardinality(W) /\ n.more = MoreBehind(v, P)
      /\ n.pc = IF last \/ enough \/ ~MoreBehind(v, P) THEN "build" ELSE "page"
  BY <1>2, <1>5 DEF LookFields
<1>8. LookIs(n)
  <2>1. CASE l.outdated
    <3>1. n.pc \in {"build", "page"}
      BY <1>7
    <3> QED BY <1>7, <2>1, <3>1, OvertakenIs DEF Places
  <2>2. CASE ~l.outdated
    <3>1. AtPage(l) /\ l.marks = marks
      BY <1>2, <2>2 DEF LookIs, AtSearch, Searched
    <3>2. Take(l.job) \in Nat \ {0} /\ l.job.skip \in Nat /\ asked \in Nat
      BY <1>2, TakeIs
    <3>3. l.at \in Nat /\ WantedOf(l) \subseteq Objects /\ Cardinality(WantedOf(l)) \in Nat
      BY <3>1, ListedIs, ObjectsAreFinite DEF AtPage
    <3>4. l.seen = Pairs(WantedOf(l)) /\ Cardinality(l.seen) = Cardinality(WantedOf(l))
      BY <3>1, <3>3, PairsAre DEF AtPage
    <3>5. k \in Nat \ {0}
      <4>1. MaxListObjects \in Nat \ {0}
        BY ListingAssumption
      <4>2. Paged(l.job) => Cardinality(WantedOf(l)) < asked
        BY <3>1 DEF AtPage
      <4> HIDE DEF asked
      <4> QED BY <1>3, <3>2, <3>3, <3>4, <4>1, <4>2 DEF Least
    <3>6. /\ n.at \in Nat /\ P \subseteq Objects
          /\ Listed(n) = Listed(l) \cup P
          /\ WantedOf(n) = WantedOf(l) \cup W
          /\ Cardinality(WantedOf(n)) = Cardinality(WantedOf(l)) + Cardinality(W)
          /\ (MoreBehind(v, P) <=> \E e \in Entries(n.job) : e > n.at)
      BY <1>1, <1>2, <1>4, <1>7, <3>3, <3>5, NextPage
    <3>7. n.seen = Pairs(WantedOf(n)) /\ n.total = Cardinality(WantedOf(n)) /\ MoreIs(n)
      <4>1. Seeing(v, W) = Pairs(W)
        BY DEF Seeing, Pairs
      <4>2. n.seen = Pairs(WantedOf(n))
        BY <1>7, <3>4, <3>6, <4>1, PairsTogether
      <4>3. n.total = Cardinality(WantedOf(n))
        BY <1>7, <3>1, <3>6 DEF AtPage
      <4>4. MoreIs(n)
        BY <1>7, <3>6 DEF MoreIs
      <4> QED BY <4>2, <4>3, <4>4
    <3>8. InList(n) /\ n.pics = NoPictures
      BY <1>7, <3>1 DEF AtPage, InList
    <3>9. enough <=> Cardinality(WantedOf(n)) >= asked
      BY <3>4, <3>6
    <3>10. Cardinality(WantedOf(n)) \in Nat
      BY <3>6, ListedIs, ObjectsAreFinite
    <3> HIDE DEF enough
    <3>11. CASE n.pc = "build"
      <4>1. CASE Paged(l.job)
        <5>1. n.more => Cardinality(WantedOf(n)) >= asked
          BY <1>7, <3>9, <3>11, <4>1
        <5> QED BY <1>7, <2>2, <3>1, <3>6, <3>7, <3>8, <3>11, <4>1, <5>1 DEF LookIs, AtBuild, HasPage
      <4>2. CASE ~Paged(l.job)
        <5>1. l.at = 0 /\ k = MaxListObjects
          BY <1>3, <3>1, <4>2 DEF AtPage
        <5>2. Entries(l.job) \subseteq Objects
          BY EntriesAreObjects
        <5>3. P = First(Entries(l.job), MaxListObjects)
          BY <1>1, <1>4, <5>1, <5>2, UpToNothing DEF Page
        <5>4. WantedOf(n) = W
          BY <3>6, <5>1, NothingListed
        <5>5. HasPage(n)
          BY <1>7, <4>2, <5>3, <5>4 DEF HasPage
        <5> QED BY <1>7, <2>2, <3>1, <3>6, <3>7, <3>8, <3>11, <5>5 DEF LookIs, AtBuild
      <4> QED BY <4>1, <4>2
    <3>12. CASE n.pc # "build"
      <4>1. Paged(l.job) /\ ~enough /\ n.pc = "page"
        BY <1>7, <3>12
      <4>2. Cardinality(WantedOf(n)) < asked
        BY <3>2, <3>9, <3>10, <4>1
      <4>3. AtPage(n)
        BY <1>7, <3>6, <3>7, <3>8, <4>1, <4>2 DEF AtPage
      <4> QED BY <1>7, <2>2, <3>1, <4>1, <4>3 DEF LookIs
    <3> QED BY <3>11, <3>12
  <2> QED BY <2>1, <2>2
<1> QED BY <1>1, <1>6, <1>7, <1>8, ViewMoves DEF Fetch, Unmoved, Shape, lists

LEMMA CountMoves ==
  ASSUME Shape, ViewsAre, NEW v \in Viewers, NEW op, CountRest(v, op)
  PROVE  Shape' /\ ViewsAre'
<1>1. PICK l : l = look[v]
  OBVIOUS
<1>2. DOMAIN l = LookFields /\ IsView(l.job) /\ LookIs(l) /\ l.pc = "count"
  BY <1>1 DEF Shape, ViewsAre, CountRest, LookAt
<1>3. PICK P : P = Page(v, MaxListObjects)
  OBVIOUS
<1> DEFINE W == Wanted(l.job, P)
<1>4. PICK n : n = [l EXCEPT !.total = l.total + Cardinality(W), !.at = Behind(l.job, P, l.at),
                             !.more = MoreBehind(v, P),
                             !.pc = IF MoreBehind(v, P) THEN "count" ELSE "keep"]
  OBVIOUS
<1>5. See(v, n)
  BY <1>1, <1>3, <1>4 DEF CountRest, CountBehind
<1>6. /\ DOMAIN n = LookFields /\ n.job = l.job /\ n.marks = l.marks /\ n.outdated = l.outdated
      /\ n.pics = l.pics /\ n.answer = l.answer /\ n.left = l.left
      /\ n.at = Behind(l.job, P, l.at) /\ n.total = l.total + Cardinality(W)
      /\ n.pc = IF MoreBehind(v, P) THEN "count" ELSE "keep"
  BY <1>2, <1>4 DEF LookFields
<1>7. LookIs(n)
  <2>1. CASE l.outdated
    <3>1. n.pc \in {"count", "keep"}
      BY <1>6
    <3> QED BY <1>6, <2>1, <3>1, OvertakenIs DEF Places
  <2>2. CASE ~l.outdated
    <3>1. AtCount(l) /\ l.marks = marks
      BY <1>2, <2>2 DEF LookIs
    <3>2. l.at \in Nat /\ MaxListObjects \in Nat \ {0}
      BY <3>1, ListingAssumption DEF AtCount, Built
    <3>3. /\ n.at \in Nat
          /\ Cardinality(WantedOf(n)) = Cardinality(WantedOf(l)) + Cardinality(W)
          /\ (MoreBehind(v, P) <=> \E e \in Entries(n.job) : e > n.at)
      BY <1>1, <1>2, <1>3, <1>6, <3>2, NextPage
    <3>4. n.total = Cardinality(WantedOf(n)) /\ Paged(n.job) /\ n.left = {}
      BY <1>6, <3>1, <3>3 DEF AtCount
    <3>5. Built(n)
      BY <1>6, <3>1, <3>3 DEF AtCount, Built, InList, OpenDirs, DirsNow
    <3>6. CASE MoreBehind(v, P)
      BY <1>6, <2>2, <3>1, <3>4, <3>5, <3>6 DEF LookIs, AtCount
    <3>7. CASE ~MoreBehind(v, P)
      <4>1. Listed(n) = Entries(n.job)
        BY <3>3, <3>7, ListedIs
      <4>2. n.total = TotalIs(n)
        BY <3>4, <4>1 DEF TotalIs, WantedOf
      <4> QED BY <1>6, <2>2, <3>1, <3>4, <3>5, <3>7, <4>2 DEF LookIs, AtKeep
    <3> QED BY <3>6, <3>7
  <2> QED BY <2>1, <2>2
<1> QED BY <1>1, <1>5, <1>6, <1>7, ViewMoves DEF CountRest, Unmoved, Shape, lists

\* What is chosen of what has been fetched is what is asked of all there is.
LEMMA ChosenIs ==
  ASSUME NEW l, IsView(l.job), l.at \in Nat, HasPage(l)
  PROVE  Chosen(l.job, WantedOf(l)) = Asked(l.job) /\ Asked(l.job) \subseteq WantedOf(l)
<1> DEFINE all == Wanted(l.job, Entries(l.job))
           skip == l.job.skip
           take == Take(l.job)
<1>1. take \in Nat \ {0} /\ skip \in Nat
  BY TakeIs
<1>2. Initial(WantedOf(l), all) /\ all \subseteq Objects /\ Cardinality(WantedOf(l)) \in Nat
  BY ListedIs, ObjectsAreFinite
<1>3. CASE ~Paged(l.job)
  BY <1>3 DEF HasPage, Chosen, Asked
<1>4. CASE Paged(l.job)
  <2>1. Chosen(l.job, WantedOf(l)) = First(WantedOf(l), skip + take) \ First(WantedOf(l), skip)
    BY <1>4 DEF Chosen, Slice
  <2>2. Asked(l.job) = First(all, skip + take) \ First(all, skip)
    BY <1>4 DEF Asked, Chosen, Slice
  <2>3. CASE ~l.more
    <3>1. Listed(l) = Entries(l.job)
      BY <1>4, <2>3, ListedIs DEF HasPage, MoreIs
    <3> QED BY <2>1, <2>2, <3>1 DEF WantedOf, First
  <2>4. CASE l.more
    <3>1. Cardinality(WantedOf(l)) >= skip + take
      BY <1>4, <2>4 DEF HasPage
    <3>2. PICK k \in Nat : k = skip + take /\ k <= Cardinality(WantedOf(l)) /\ skip <= Cardinality(WantedOf(l))
      BY <1>1, <1>2, <3>1
    <3>3. First(WantedOf(l), k) = First(all, k) /\ First(WantedOf(l), skip) = First(all, skip)
      BY ONLY <1>1, <1>2, <3>2, FirstOfInitial
    <3>4. First(WantedOf(l), k) \subseteq WantedOf(l)
      BY DEF First
    <3> QED BY <2>1, <2>2, <3>2, <3>3, <3>4
  <2> QED BY <2>3, <2>4
<1> QED BY <1>3, <1>4

LEMMA NoPicturesAre == AllPictures({}) = NoPictures
BY DEF AllPictures, NoPictures

LEMMA BuildMoves ==
  ASSUME Shape, ViewsAre, NEW v \in Viewers, Build(v)
  PROVE  Shape' /\ ViewsAre'
<1>1. PICK l : l = look[v]
  OBVIOUS
<1>2. DOMAIN l = LookFields /\ IsView(l.job) /\ LookIs(l) /\ l.pc = "build"
  BY <1>1 DEF Shape, ViewsAre, Build, LookAt
<1>3. PICK page : page = Chosen(l.job, SeenOf(l.seen))
  OBVIOUS
<1>4. PICK dirs : dirs = DirsOf(l.job, page, l.marks, Opened(l.job))
  OBVIOUS
<1>5. PICK shown : shown = {p \in l.seen : p[1] \in ObjectsOf(l.job, page) \ Placeholders}
  OBVIOUS
<1>6. PICK n : n = [l EXCEPT !.answer = Reply(shown, dirs, l.pics, 0),
                             !.total = IF l.job.op = "objects" /\ ~Paged(l.job)
                                         THEN Cardinality(shown) ELSE l.total,
                             !.left = ToPicture(l.job, dirs), !.pc = "picture"]
  OBVIOUS
<1>7. See(v, n)
  BY <1>1, <1>3, <1>4, <1>5, <1>6 DEF Build
<1>8. /\ DOMAIN n = LookFields /\ n.job = l.job /\ n.marks = l.marks /\ n.outdated = l.outdated
      /\ n.pics = l.pics /\ n.at = l.at /\ n.more = l.more
      /\ n.answer = Reply(shown, dirs, l.pics, 0) /\ n.left = ToPicture(l.job, dirs)
      /\ n.total = IF l.job.op = "objects" /\ ~Paged(l.job) THEN Cardinality(shown) ELSE l.total
      /\ n.pc = "picture"
  BY <1>2, <1>6 DEF LookFields
<1>9. LookIs(n)
  <2>1. CASE l.outdated
    BY <1>8, <2>1, OvertakenIs DEF Places
  <2>2. CASE ~l.outdated
    <3>1. AtBuild(l) /\ l.marks = marks
      BY <1>2, <2>2 DEF LookIs
    <3>2. l.at \in Nat /\ HasPage(l) /\ l.seen = Pairs(WantedOf(l))
          /\ l.total = Cardinality(WantedOf(l)) /\ l.pics = NoPictures /\ InList(l)
      BY <3>1 DEF AtBuild
    <3>3. page = Asked(l.job) /\ Asked(l.job) \subseteq WantedOf(l)
      <4>1. SeenOf(l.seen) = WantedOf(l)
        BY <3>2, ListedIs, PairsAre
      <4> QED BY <1>2, <1>3, <3>2, <4>1, ChosenIs
    <3>4. ObjectsOf(l.job, page) \subseteq WantedOf(l)
      BY <3>3 DEF ObjectsOf, First
    <3>5. shown = Shown(ObjectsOf(l.job, page))
      <4>1. PICK O : O = ObjectsOf(l.job, page) \ Placeholders
        OBVIOUS
      <4>2. O \subseteq WantedOf(l)
        BY <3>4, <4>1
      <4>3. shown = {p \in Pairs(WantedOf(l)) : p[1] \in O}
        BY <1>5, <3>2, <4>1
      <4>4. {p \in Pairs(WantedOf(l)) : p[1] \in O} = {<<k, contents[k]>> : k \in O}
        BY <4>2 DEF Pairs
      <4> QED BY <4>1, <4>3, <4>4 DEF Shown
    <3>6. dirs = DirsNow(l)
      BY <1>4, <3>1, <3>3 DEF DirsNow
    <3>7. n.left = OpenDirs(n) /\ DirsNow(n) = DirsNow(l)
      BY <1>8, <3>6 DEF OpenDirs, DirsNow
    <3>8. n.answer.objects = shown /\ n.answer.dirs = dirs
      BY <1>8 DEF Reply
    <3>9. n.pics = AllPictures(OpenDirs(n) \ n.left)
      <4>1. OpenDirs(n) \ n.left = {}
        BY <3>7
      <4> QED BY <1>8, <3>2, <4>1, NoPicturesAre
    <3>10. Built(n)
      BY <1>8, <3>2, <3>3, <3>5, <3>6, <3>7, <3>8, <3>9 DEF Built, InList
    <3>11. WantedOf(n) = WantedOf(l) /\ (MoreIs(n) <=> MoreIs(l))
      BY <1>8 DEF WantedOf, Listed, MoreIs
    <3>12. n.total = TotalSoFar(n)
      BY <1>8, <3>2, <3>3, <3>5, <3>11 DEF TotalSoFar
    <3>13. Paged(n.job) => MoreIs(n)
      BY <1>8, <3>2, <3>11 DEF HasPage
    <3> QED BY <1>8, <2>2, <3>1, <3>10, <3>12, <3>13 DEF LookIs, AtPicture
  <2> QED BY <2>1, <2>2
<1> QED BY <1>1, <1>7, <1>8, <1>9, ViewMoves DEF Build, Unmoved, Shape, lists

\* One more folder has its pictures.
LEMMA OnePictured ==
  ASSUME NEW l, AtPicture(l), NEW f \in l.left, NEW n, n.job = l.job, n.at = l.at,
         n.more = l.more, n.answer = l.answer, n.total = l.total, n.left = l.left \ {f},
         n.pics = Also(l.pics, f, Pictures(f))
  PROVE  AtPicture(n)
<1>1. Built(l)
  BY DEF AtPicture
<1>2. OpenDirs(n) = OpenDirs(l) /\ DirsNow(n) = DirsNow(l) /\ WantedOf(n) = WantedOf(l)
  BY DEF OpenDirs, DirsNow, WantedOf, Listed
<1>3. f \in OpenDirs(l) /\ l.pics = AllPictures(OpenDirs(l) \ l.left)
  BY <1>1 DEF Built
<1>4. OpenDirs(n) \ n.left = (OpenDirs(l) \ l.left) \cup {f}
  BY <1>2, <1>3
<1>5. n.pics = AllPictures(OpenDirs(n) \ n.left)
  <2> DEFINE D == OpenDirs(l) \ l.left
  <2>1. l.pics = [x \in D |-> Pictures(x)]
    BY <1>3 DEF AllPictures
  <2>2. n.pics = [x \in D \cup {f} |-> Pictures(x)]
    <3> HIDE DEF D
    <3> QED BY <2>1 DEF Also
  <2> QED BY <1>4, <2>2 DEF AllPictures
<1>6. Built(n)
  BY <1>1, <1>2, <1>5 DEF Built, InList
<1>7. TotalSoFar(n) = TotalSoFar(l) /\ (MoreIs(n) <=> MoreIs(l))
  BY <1>2 DEF TotalSoFar, MoreIs
<1> QED BY <1>6, <1>7 DEF AtPicture

LEMMA AskPicturesMoves ==
  ASSUME Shape, ViewsAre, NEW v \in Viewers, AskPictures(v)
  PROVE  Shape' /\ ViewsAre'
<1>1. PICK l : l = look[v]
  OBVIOUS
<1>2. DOMAIN l = LookFields /\ IsView(l.job) /\ LookIs(l) /\ l.pc = "picture"
  BY <1>1 DEF Shape, ViewsAre, AskPictures, LookAt
<1>3. PICK f \in l.left :
          \/ See(v, [l EXCEPT !.left = l.left \ {f}, !.pics = Also(l.pics, f, pictures[f]),
                              !.outdated = l.outdated \/ pictures[f] # Pictures(f)])
          \/ See(v, [l EXCEPT !.folder = f, !.picAt = 0, !.taken = {}, !.pc = "pages"])
  BY <1>1 DEF AskPictures
<1>4. PICK n :
        /\ See(v, n)
        /\ \/ n = [l EXCEPT !.left = l.left \ {f}, !.pics = Also(l.pics, f, pictures[f]),
                            !.outdated = l.outdated \/ pictures[f] # Pictures(f)]
           \/ n = [l EXCEPT !.folder = f, !.picAt = 0, !.taken = {}, !.pc = "pages"]
  BY <1>3
<1>5. DOMAIN n = LookFields /\ n.job = l.job /\ LookIs(n)
  <2>1. CASE n = [l EXCEPT !.left = l.left \ {f}, !.pics = Also(l.pics, f, pictures[f]),
                           !.outdated = l.outdated \/ pictures[f] # Pictures(f)]
    <3>1. /\ DOMAIN n = LookFields /\ n.job = l.job /\ n.marks = l.marks /\ n.at = l.at
          /\ n.more = l.more /\ n.answer = l.answer /\ n.total = l.total /\ n.pc = "picture"
          /\ n.left = l.left \ {f} /\ n.pics = Also(l.pics, f, pictures[f])
          /\ n.outdated <=> l.outdated \/ pictures[f] # Pictures(f)
      BY <1>2, <2>1 DEF LookFields
    <3>2. CASE n.outdated
      BY <3>1, <3>2, OvertakenIs DEF Places
    <3>3. CASE ~n.outdated
      <4>1. AtPicture(l) /\ l.marks = marks /\ pictures[f] = Pictures(f)
        BY <1>2, <3>1, <3>3 DEF LookIs
      <4>2. AtPicture(n)
        BY <3>1, <4>1, OnePictured
      <4> QED BY <3>1, <3>3, <4>1, <4>2 DEF LookIs
    <3> QED BY <3>1, <3>2, <3>3
  <2>2. CASE n = [l EXCEPT !.folder = f, !.picAt = 0, !.taken = {}, !.pc = "pages"]
    <3>1. /\ DOMAIN n = LookFields /\ n.job = l.job /\ n.marks = l.marks /\ n.at = l.at
          /\ n.more = l.more /\ n.answer = l.answer /\ n.total = l.total /\ n.pc = "pages"
          /\ n.left = l.left /\ n.pics = l.pics /\ n.outdated = l.outdated
          /\ n.folder = f /\ n.picAt = 0 /\ n.taken = {}
      BY <1>2, <2>2 DEF LookFields
    <3>2. CASE l.outdated
      BY <3>1, <3>2, OvertakenIs DEF Places
    <3>3. CASE ~l.outdated
      <4>1. AtPicture(l) /\ l.marks = marks
        BY <1>2, <3>3 DEF LookIs
      <4>2. AtPicture(n)
        <5>1. OpenDirs(n) = OpenDirs(l) /\ DirsNow(n) = DirsNow(l) /\ WantedOf(n) = WantedOf(l)
          BY <3>1 DEF OpenDirs, DirsNow, WantedOf, Listed
        <5>2. Built(n)
          BY <3>1, <4>1, <5>1 DEF AtPicture, Built, InList
        <5>3. TotalSoFar(n) = TotalSoFar(l) /\ (MoreIs(n) <=> MoreIs(l))
          BY <3>1, <5>1 DEF TotalSoFar, MoreIs
        <5> QED BY <3>1, <4>1, <5>2, <5>3 DEF AtPicture
      <4>3. n.taken = Buckets(ImagesUpTo(n.folder, n.picAt))
        <5>1. ImagesUpTo(n.folder, n.picAt) = {}
          BY <3>1, ObjectsAreNumbers DEF ImagesUpTo, In
        <5>2. Buckets({}) = {}
          BY DEF Buckets
        <5> QED BY <3>1, <5>1, <5>2
      <4>4. AtPages(n)
        BY <3>1, <4>2, <4>3 DEF AtPages
      <4> QED BY <3>1, <3>3, <4>1, <4>4 DEF LookIs
    <3> QED BY <3>1, <3>2, <3>3
  <2> QED BY <1>3, <1>4, <2>1, <2>2
<1> QED BY <1>1, <1>3, <1>4, <1>5, ViewMoves DEF AskPictures, Unmoved, Shape, lists

LEMMA FetchPicturesMoves ==
  ASSUME Shape, ViewsAre, NEW v \in Viewers, FetchPictures(v)
  PROVE  Shape' /\ ViewsAre'
<1>1. PICK l : l = look[v]
  OBVIOUS
<1>2. DOMAIN l = LookFields /\ IsView(l.job) /\ LookIs(l) /\ l.pc = "pages"
  BY <1>1 DEF Shape, ViewsAre, FetchPictures, LookAt
<1>3. PICK rest : rest = {k \in In(l.folder) : k > l.picAt}
  OBVIOUS
<1>4. PICK P : P = First(rest, MaxListObjects)
  OBVIOUS
<1>5. PICK taken : taken = AddPictures(l.taken, P \cap Images)
  OBVIOUS
<1>6. PICK at : at = IF P = {} THEN l.picAt ELSE Latest(P)
  OBVIOUS
<1>7. PICK n : n = [l EXCEPT !.taken = taken, !.picAt = at,
                             !.pc = IF Enough(taken) \/ P = rest THEN "keepPictures" ELSE "pages"]
  OBVIOUS
<1>8. See(v, n)
  BY <1>1, <1>3, <1>4, <1>5, <1>6, <1>7 DEF FetchPictures
<1>9. /\ DOMAIN n = LookFields /\ n.job = l.job /\ n.marks = l.marks /\ n.at = l.at
      /\ n.more = l.more /\ n.answer = l.answer /\ n.total = l.total
      /\ n.left = l.left /\ n.pics = l.pics /\ n.outdated = l.outdated
      /\ n.folder = l.folder /\ n.picAt = at /\ n.taken = taken
      /\ n.pc = IF Enough(taken) \/ P = rest THEN "keepPictures" ELSE "pages"
  BY <1>2, <1>7 DEF LookFields
<1>10. LookIs(n)
  <2>1. CASE l.outdated
    <3>1. n.pc \in {"keepPictures", "pages"}
      BY <1>9
    <3> QED BY <1>9, <2>1, <3>1, OvertakenIs DEF Places
  <2>2. CASE ~l.outdated
    <3> DEFINE all == In(l.folder) \cap Images
               A == ImagesUpTo(l.folder, l.picAt)
               B == P \cap Images
    <3>1. AtPages(l) /\ l.marks = marks
      BY <1>2, <2>2 DEF LookIs
    <3>2. l.picAt \in Nat /\ l.taken = Buckets(A) /\ l.folder \in l.left
      BY <3>1 DEF AtPages
    <3>3. In(l.folder) \subseteq Objects /\ rest \subseteq Objects /\ MaxListObjects \in Nat
      BY <1>3, ListingAssumption DEF In
    <3>4. Initial(P, rest) /\ P \subseteq rest
      BY <1>4, <3>3, FirstIsInitial DEF First
    <3>5. at \in Nat /\ UpTo(In(l.folder), at) = UpTo(In(l.folder), l.picAt) \cup P
      <4>1. CASE P = {}
        BY <1>6, <3>2, <4>1
      <4>2. CASE P # {}
        <5>1. at \in P /\ \A x \in P : x <= at
          BY <1>6, <3>3, <3>4, <4>2, LatestIs
        <5>2. at \in Nat
          BY <3>3, <3>4, <5>1, ObjectsAreNumbers
        <5>3. UpTo(In(l.folder), at) = UpTo(In(l.folder), l.picAt) \cup P
          BY ONLY <1>3, <3>2, <3>3, <3>4, <5>1, UpToPage
        <5> QED BY <5>2, <5>3
      <4> QED BY <4>1, <4>2
    <3>6. ImagesUpTo(l.folder, at) = A \cup B
      BY <3>5 DEF ImagesUpTo, UpTo
    <3>7. A \cup B \subseteq Objects /\ \A a \in A, b \in B : a < b
      BY <1>3, <3>2, <3>3, <3>4, ObjectsAreNumbers DEF ImagesUpTo
    <3>8. taken = Buckets(ImagesUpTo(l.folder, at))
      <4> HIDE DEF A, B
      <4>1. Buckets(Buckets(A) \cup B) = Buckets(A \cup B)
        BY <3>7, AddLater
      <4> QED BY <1>5, <3>2, <3>6, <4>1 DEF AddPictures, B
    <3>9. AtPicture(n)
      <4>1. AtPicture(l)
        BY <3>1 DEF AtPages
      <4>2. OpenDirs(n) = OpenDirs(l) /\ DirsNow(n) = DirsNow(l) /\ WantedOf(n) = WantedOf(l)
        BY <1>9 DEF OpenDirs, DirsNow, WantedOf, Listed
      <4>3. Built(n)
        BY <1>9, <4>1, <4>2 DEF AtPicture, Built, InList
      <4>4. TotalSoFar(n) = TotalSoFar(l) /\ (MoreIs(n) <=> MoreIs(l))
        BY <1>9, <4>2 DEF TotalSoFar, MoreIs
      <4> QED BY <1>9, <4>1, <4>3, <4>4 DEF AtPicture
    <3>10. CASE n.pc = "pages"
      <4>1. AtPages(n)
        BY <1>9, <3>2, <3>5, <3>8, <3>9 DEF AtPages
      <4> QED BY <1>9, <2>2, <3>1, <3>10, <4>1 DEF LookIs
    <3>11. CASE n.pc = "keepPictures"
      <4>1. Enough(taken) \/ P = rest
        BY <1>9, <3>11
      <4>2. Pictures(l.folder) = Deal(Buckets(all))
        BY DEF Pictures, AddPictures
      <4> DEFINE C == ImagesUpTo(l.folder, at)
                 R == {k \in all : k > at}
      <4>3. all = C \cup R /\ C \cup R \subseteq Objects /\ \A a \in C, b \in R : a < b
        BY <3>3, <3>5, ObjectsAreNumbers DEF ImagesUpTo
      <4>4. ASSUME Enough(taken) PROVE Deal(taken) = Pictures(l.folder)
        <5> HIDE DEF all, C, R
        <5>1. Enough(Buckets(C)) /\ taken = Buckets(C)
          BY <3>8, <4>4 DEF C
        <5>2. Deal(taken) = Deal(Buckets(all))
          BY <4>3, <5>1, EnoughIsAll
        <5> QED BY <4>2, <5>2
      <4>5. ASSUME P = rest PROVE Deal(taken) = Pictures(l.folder)
        <5>1. \A k \in all : k \in UpTo(In(l.folder), at)
          BY <1>3, <3>2, <3>3, <3>5, <4>5, ObjectsAreNumbers DEF UpTo
        <5>2. C = all
          BY <5>1 DEF ImagesUpTo, UpTo
        <5> QED BY <3>8, <4>2, <5>2
      <4>6. Deal(n.taken) = Pictures(n.folder)
        BY <1>9, <4>1, <4>4, <4>5
      <4>7. AtKeepPictures(n)
        BY <1>9, <3>2, <3>9, <4>6 DEF AtKeepPictures
      <4> QED BY <1>9, <2>2, <3>1, <3>11, <4>7 DEF LookIs
    <3> QED BY <1>9, <3>10, <3>11
  <2> QED BY <2>1, <2>2
<1> QED BY <1>1, <1>8, <1>9, <1>10, ViewMoves DEF FetchPictures, Unmoved, Shape, lists

\* A kept listing stays current while the storage stays.
LEMMA SameCurrent ==
  ASSUME UNCHANGED storage, NEW k, NEW answer
  PROVE  Current(k, answer)' = Current(k, answer)
BY SameStorage DEF Current, storage

LEMMA ListingsStay ==
  ASSUME ListingsAre, UNCHANGED <<storage, listing, change, lateListings>>
  PROVE  ListingsAre'
BY SameCurrent DEF ListingsAre

LEMMA PicturesStay ==
  ASSUME PicturesAre, UNCHANGED <<storage, pictures, change, latePictures>>
  PROVE  PicturesAre'
BY SameStorage DEF PicturesAre

\* Pictures that are kept are the ones of the folder, or are kept late.
LEMMA KeepPicturesKeeps ==
  ASSUME ListInv, NEW v \in Viewers, KeepPictures(v)
  PROVE  ListInv'
<1>0. Shape /\ ViewsAre /\ ListingsAre /\ PicturesAre
  BY DEF ListInv
<1>1. PICK l : l = look[v]
  OBVIOUS
<1>2. DOMAIN l = LookFields /\ IsView(l.job) /\ LookIs(l) /\ l.pc = "keepPictures"
  BY <1>0, <1>1 DEF Shape, ViewsAre, KeepPictures, LookAt
<1>3. PICK n : n = [l EXCEPT !.left = l.left \ {l.folder},
                             !.pics = Also(l.pics, l.folder, Deal(l.taken)), !.pc = "picture"]
  OBVIOUS
<1>4. See(v, n)
  BY <1>1, <1>3 DEF KeepPictures
<1>5. /\ DOMAIN n = LookFields /\ n.job = l.job /\ n.marks = l.marks /\ n.at = l.at
      /\ n.more = l.more /\ n.answer = l.answer /\ n.total = l.total /\ n.pc = "picture"
      /\ n.left = l.left \ {l.folder} /\ n.pics = Also(l.pics, l.folder, Deal(l.taken))
      /\ n.outdated = l.outdated
  BY <1>2, <1>3 DEF LookFields
<1>6. ~l.outdated => AtKeepPictures(l) /\ l.marks = marks
  BY <1>2 DEF LookIs
<1>7. LookIs(n)
  <2>1. CASE l.outdated
    BY <1>5, <2>1, OvertakenIs DEF Places
  <2>2. CASE ~l.outdated
    <3>1. AtPicture(l) /\ l.folder \in l.left /\ Deal(l.taken) = Pictures(l.folder)
      BY <1>6, <2>2 DEF AtKeepPictures
    <3>2. AtPicture(n)
      BY <1>5, <3>1, OnePictured
    <3> QED BY <1>5, <1>6, <2>2, <3>2 DEF LookIs
  <2> QED BY <2>1, <2>2
<1>8. UNCHANGED <<storage, listing, change, lateListings>>
  BY DEF KeepPictures
<1>9. /\ pictures' = [pictures EXCEPT ![l.folder] = Deal(l.taken)]
      /\ latePictures' = Spoil(v, l.folder, latePictures)
  BY <1>1 DEF KeepPictures
<1>10. Shape' /\ ViewsAre'
  BY <1>0, <1>1, <1>4, <1>5, <1>7, <1>8, <1>9, ViewMoves DEF Shape
<1>11. ASSUME NEW f \in Folders \ latePictures'
       PROVE  \/ pictures'[f] \in {NoAnswer, Pictures(f)'}
              \/ \E c \in Changers : WillSpoil(change[c], f)'
  <2>1. Pictures(f)' = Pictures(f)
    BY <1>8, SameStorage
  <2>2. CASE f = l.folder
    <3>1. ~l.outdated
      BY <1>1, <1>9, <1>11, <2>2 DEF Spoil
    <3>2. Deal(l.taken) = Pictures(l.folder)
      BY <1>6, <3>1 DEF AtKeepPictures
    <3>3. DOMAIN pictures = Folders
      BY <1>0 DEF Shape
    <3>4. pictures'[f] = Pictures(f)
      BY <1>9, <2>2, <3>2, <3>3
    <3> QED BY <2>1, <3>4
  <2>3. CASE f # l.folder
    <3>1. f \notin latePictures /\ pictures'[f] = pictures[f]
      BY <1>9, <1>11, <2>3 DEF Spoil
    <3> QED BY <1>0, <1>8, <1>11, <2>1, <3>1 DEF PicturesAre, WillSpoil
  <2> QED BY <2>2, <2>3
<1>12. ListingsAre'
  BY <1>0, <1>8, ListingsStay
<1>13. PicturesAre'
  BY <1>11 DEF PicturesAre
<1> QED BY <1>10, <1>12, <1>13 DEF ListInv

LEMMA PicturedMoves ==
  ASSUME Shape, ViewsAre, NEW v \in Viewers, Pictured(v)
  PROVE  Shape' /\ ViewsAre'
<1>1. PICK l : l = look[v]
  OBVIOUS
<1>2. DOMAIN l = LookFields /\ IsView(l.job) /\ LookIs(l) /\ l.pc = "picture" /\ l.left = {}
  BY <1>1 DEF Shape, ViewsAre, Pictured, LookAt
<1>3. PICK n : n = [l EXCEPT !.pc = IF l.more /\ Paged(l.job) THEN "count" ELSE "keep"]
  OBVIOUS
<1>4. See(v, n)
  BY <1>1, <1>3 DEF Pictured
<1>5. /\ DOMAIN n = LookFields /\ n.job = l.job /\ n.marks = l.marks /\ n.at = l.at
      /\ n.more = l.more /\ n.answer = l.answer /\ n.total = l.total
      /\ n.left = l.left /\ n.pics = l.pics /\ n.outdated = l.outdated
      /\ n.pc = IF l.more /\ Paged(l.job) THEN "count" ELSE "keep"
  BY <1>2, <1>3 DEF LookFields
<1>6. LookIs(n)
  <2>1. CASE l.outdated
    <3>1. n.pc \in {"count", "keep"}
      BY <1>5
    <3> QED BY <1>5, <2>1, <3>1, OvertakenIs DEF Places
  <2>2. CASE ~l.outdated
    <3>1. AtPicture(l) /\ l.marks = marks
      BY <1>2, <2>2 DEF LookIs
    <3>2. OpenDirs(n) = OpenDirs(l) /\ DirsNow(n) = DirsNow(l) /\ WantedOf(n) = WantedOf(l)
      BY <1>5 DEF OpenDirs, DirsNow, WantedOf, Listed
    <3>3. Built(n)
      BY <1>5, <3>1, <3>2 DEF AtPicture, Built, InList
    <3>4. n.total = TotalSoFar(l)
      BY <1>5, <3>1 DEF AtPicture
    <3>5. CASE n.pc = "count"
      <4>1. Paged(l.job)
        BY <1>5, <3>5
      <4>2. n.total = Cardinality(WantedOf(n))
        BY <3>2, <3>4, <4>1 DEF TotalSoFar
      <4> QED BY <1>2, <1>5, <2>2, <3>1, <3>3, <3>5, <4>1, <4>2 DEF LookIs, AtCount
    <3>6. CASE n.pc = "keep"
      <4>1. ASSUME l.job.op # "list" PROVE n.total = TotalIs(n)
        <5>1. CASE Paged(l.job)
          <6>1. ~(\E e \in Entries(l.job) : e > l.at) /\ l.at \in Nat
            BY <1>5, <3>1, <3>6, <5>1 DEF AtPicture, MoreIs, Built
          <6>2. Listed(l) = Entries(l.job)
            BY <6>1, ListedIs
          <6> QED BY <1>5, <3>4, <5>1, <6>2 DEF TotalSoFar, TotalIs, WantedOf
        <5>2. CASE ~Paged(l.job)
          <6>1. l.job.op = "objects"
            BY <3>1, <4>1, <5>2 DEF AtPicture, Built, InList, Paged
          <6> QED BY <1>5, <3>4, <5>2, <6>1 DEF TotalSoFar, TotalIs
        <5> QED BY <5>1, <5>2
      <4> QED BY <1>2, <1>5, <2>2, <3>1, <3>3, <3>6, <4>1 DEF LookIs, AtKeep
    <3> QED BY <1>5, <3>5, <3>6
  <2> QED BY <2>1, <2>2
<1> QED BY <1>1, <1>4, <1>5, <1>6, ViewMoves DEF Pictured, Unmoved, Shape, lists

\* What is answered for a job is answered for its key.
LEMMA KeyIsEnough ==
  ASSUME NEW job, IsView(job), job.op \in {"list", "objects", "dirs"}, NEW answer,
         answer = Expected(job, Opened(job))
  PROVE  Current(ListKey(job), answer)
<1> DEFINE k == [ListKey(job) EXCEPT !.token = "none"]
<1>1. /\ k.op = job.op /\ k.path = job.path /\ k.delimiter = job.delimiter /\ k.skip = job.skip
      /\ k.take = IF job.op = "objects" THEN Take(job) ELSE job.take
      /\ ListKey(job).token <=> job.op # "objects" /\ job.token # "none"
  BY DEF ListKey
<1>2. PICK j : j = k
  OBVIOUS
<1> HIDE DEF k
<1>3. Take(j) = Take(job)
  BY <1>1, <1>2, TakeIs DEF Take
<1>4. Paged(j) <=> Paged(job)
  BY <1>1, <1>2, <1>3 DEF Paged
<1>5. Entries(j) = Entries(job) /\ \A e : IsHead(j, e) <=> IsHead(job, e)
  BY <1>1, <1>2 DEF Entries, IsHead
<1>6. \A S : Wanted(j, S) = Wanted(job, S) /\ HeadsOf(j, S) = HeadsOf(job, S)
  BY <1>1, <1>2, <1>5 DEF Wanted, HeadsOf
<1>7. \A S : ObjectsOf(j, S) = ObjectsOf(job, S) /\ Chosen(j, S) = Chosen(job, S)
  BY <1>1, <1>2, <1>3, <1>4, <1>6 DEF ObjectsOf, Chosen
<1>8. Asked(j) = Asked(job)
  BY <1>4, <1>5, <1>6, <1>7 DEF Asked
<1>9. ExpectedTotal(j) = ExpectedTotal(job)
  BY <1>1, <1>2, <1>4, <1>5, <1>6, <1>7, <1>8 DEF ExpectedTotal
<1>10. \A S, m, valid : DirsOf(j, S, m, valid) = DirsOf(job, S, m, valid)
  BY <1>6 DEF DirsOf
<1>11. \A dirs : ToPicture(j, dirs) = ToPicture(job, dirs)
  BY <1>1, <1>2 DEF ToPicture
<1>12. \A opened : Expected(j, opened) = Expected(job, opened)
  BY <1>1, <1>2, <1>7, <1>8, <1>9, <1>10, <1>11 DEF Expected, ExpectedPage
<1>13. CASE job.op = "objects"
  <2>1. HeadsOf(job, Asked(job)) = {}
    <3>1. PICK S : Asked(job) = Chosen(job, Wanted(job, S))
      BY DEF Asked
    <3>2. Asked(job) \subseteq Wanted(job, S)
      BY <3>1 DEF Chosen, Slice, First
    <3>3. \A e \in Wanted(job, S) : ~IsHead(job, e)
      BY <1>13 DEF Wanted
    <3> QED BY <3>2, <3>3 DEF HeadsOf
  <2>2. \A m, valid : DirsOf(job, Asked(job), m, valid) = {}
    BY <2>1 DEF DirsOf, NamesOf, Directories
  <2>3. Expected(job, {}) = Expected(job, Opened(job))
    BY <1>13, <2>2 DEF Expected, ExpectedPage
  <2> QED BY <1>2, <1>12, <2>3 DEF Current, k
<1>14. CASE job.op # "objects"
  <2>1. Opened(job) \in IF ListKey(job).token THEN {{}, openWith} ELSE {{}}
    BY <1>1, <1>14 DEF Opened
  <2> QED BY <1>2, <1>12, <2>1 DEF Current, k
<1> QED BY <1>13, <1>14

\* A listing that is kept is the expected one, or is kept late.
LEMMA KeepListingKeeps ==
  ASSUME ListInv, NEW v \in Viewers, KeepListing(v)
  PROVE  ListInv'
<1>0. Shape /\ ViewsAre /\ ListingsAre /\ PicturesAre
  BY DEF ListInv
<1>1. PICK l : l = look[v]
  OBVIOUS
<1>2. DOMAIN l = LookFields /\ IsView(l.job) /\ LookIs(l) /\ l.pc = "keep"
  BY <1>0, <1>1 DEF Shape, ViewsAre, KeepListing, LookAt
<1>3. PICK answer : answer = Reply(l.answer.objects, l.answer.dirs, l.pics,
                                   IF l.job.op = "list" THEN 0 ELSE l.total)
  OBVIOUS
<1>4. PICK k : k = ListKey(l.job)
  OBVIOUS
<1>5. /\ See(v, Ended(v, answer)) /\ listing' = Also(listing, k, answer)
      /\ lateListings' = Spoil(v, k, lateListings)
      /\ UNCHANGED <<storage, pictures, kept, change, latePictures>>
  BY <1>1, <1>3, <1>4 DEF KeepListing
<1>6. ASSUME ~l.outdated PROVE answer = Expected(l.job, Opened(l.job)) /\ InList(l)
  <2>1. AtKeep(l)
    BY <1>2, <1>6 DEF LookIs
  <2>2. l.job.op \in {"list", "objects", "dirs"}
    BY <2>1 DEF AtKeep, Built, InList
  <2>3. l.answer.objects = Shown(ObjectsOf(l.job, Asked(l.job))) /\ l.answer.dirs = DirsNow(l)
    BY <2>1 DEF AtKeep, Built
  <2>4. l.pics = AllPictures(OpenDirs(l))
    <3>1. OpenDirs(l) \ l.left = OpenDirs(l)
      BY <2>1 DEF AtKeep
    <3> QED BY <2>1, <3>1 DEF AtKeep, Built
  <2>5. (IF l.job.op = "list" THEN 0 ELSE l.total) = ExpectedTotal(l.job)
    <3>1. CASE l.job.op = "list"
      BY <3>1 DEF ExpectedTotal, Paged
    <3>2. CASE l.job.op # "list"
      <4>1. l.total = TotalIs(l)
        BY <2>1, <3>2 DEF AtKeep
      <4>2. ~Paged(l.job) <=> l.job.op = "objects" /\ ~Paged(l.job)
        BY <2>2, <3>2 DEF Paged
      <4> QED BY <3>2, <4>1, <4>2 DEF TotalIs, ExpectedTotal
    <3> QED BY <3>1, <3>2
  <2> QED BY <1>3, <2>2, <2>3, <2>4, <2>5 DEF Expected, ExpectedPage, OpenDirs, DirsNow, InList
<1>7. PICK n : n = Ended(v, answer)
  OBVIOUS
<1>8. DOMAIN n = LookFields /\ n.job = l.job /\ LookIs(n)
  BY <1>1, <1>2, <1>6, <1>7, DoneIs
<1>9. Shape' /\ ViewsAre'
  BY <1>0, <1>1, <1>5, <1>7, <1>8, ViewMoves DEF Shape
<1>10. ASSUME NEW x \in DOMAIN listing' \ lateListings', NEW a \in {listing'[x]}
       PROVE  Current(x, a)' \/ \E c \in Changers : WillForget(change[c], x)'
  <2>1. Current(x, a)' <=> Current(x, a)
    BY <1>5, SameCurrent
  <2>2. CASE x = k
    <3>1. ~l.outdated /\ a = answer
      BY <1>1, <1>5, <1>10, <2>2 DEF Spoil, Also
    <3> QED BY <1>2, <1>4, <1>6, <2>1, <2>2, <3>1, KeyIsEnough DEF InList
  <2>3. CASE x # k
    <3>1. x \in DOMAIN listing \ lateListings /\ listing'[x] = listing[x]
      BY <1>5, <1>10, <2>3 DEF Spoil, Also
    <3> QED BY <1>0, <1>5, <1>10, <2>1, <3>1 DEF ListingsAre, WillForget
  <2> QED BY <2>2, <2>3
<1>11. ListingsAre'
  BY <1>10 DEF ListingsAre
<1>12. PicturesAre'
  BY <1>0, <1>5, PicturesStay
<1> QED BY <1>9, <1>11, <1>12 DEF ListInv

\* What is visible of a page is so for all a viewer may open, as far as the page goes.
LEMMA SightIs ==
  ASSUME NEW m, NEW opened, NEW S, NEW valid,
         \A k \in S : (FolderOf[k] # Here /\ m[FolderOf[k]] # "plain")
                         => (FolderOf[k] \in valid <=> FolderOf[k] \in opened)
  PROVE  Visible(m, valid, S) = Visible(m, opened, S)
BY DEF Visible

LEMMA SightTogether ==
  ASSUME NEW m, NEW opened, NEW S, NEW T
  PROVE  /\ Visible(m, opened, S \cup T) = Visible(m, opened, S) \cup Visible(m, opened, T)
         /\ Visible(m, opened, S) \subseteq S
BY DEF Visible

LEMMA HitsTogether ==
  ASSUME NEW S, NEW T
  PROVE  Hits(S \cup T) = Hits(S) \cup Hits(T) /\ Hits(S) \subseteq S
BY DEF Hits

LEMMA NamesTogether ==
  ASSUME NEW S, NEW T
  PROVE  FoundNames(S \cup T) = FoundNames(S) \cup FoundNames(T)
BY DEF FoundNames

\* Where a search stops, if not with the last entry.
LEMMA ScannedIs ==
  ASSUME NEW n \in Nat, n * MaxListObjects < MaxScan
  PROVE  /\ Scanned \in Nat
         /\ n * MaxListObjects + MaxListObjects <= Scanned
         /\ MaxScan <= n * MaxListObjects + MaxListObjects
              => Scanned = n * MaxListObjects + MaxListObjects
<1> DEFINE s == MaxListObjects
           Holds(i) == MaxScan <= i * s
           Ok(i) == Holds(i) /\ (i - 1) * s < MaxScan
<1>1. s \in Nat \ {0} /\ MaxScan \in Nat \ {0}
  BY ListingAssumption
<1>2. \A i, j \in Nat : i < j => i * s + s <= j * s
  <2> TAKE i, j \in Nat
  <2> HAVE i < j
  <2>1. PICK d \in Nat : j = i + 1 + d
    <3>1. j - i - 1 \in Nat /\ j = i + 1 + (j - i - 1)
      OBVIOUS
    <3> QED BY <3>1
  <2>2. j * s = i * s + s + d * s
    BY <1>1, <2>1
  <2>3. d * s \in Nat /\ i * s \in Nat /\ j * s \in Nat
    BY <1>1
  <2> QED BY <1>1, <2>2, <2>3
<1>3. \E i \in 1..MaxScan : Ok(i)
  <2> DEFINE M == {i \in Nat : Holds(i)}
  <2>1. MaxScan \in M
    <3>1. MaxScan * s >= MaxScan
      BY <1>1
    <3> QED BY <1>1, <3>1
  <2>2. PICK i \in M : \A j \in M : i <= j
    <3>1. M \subseteq Nat /\ M # {}
      BY <2>1
    <3> HIDE DEF M
    <3> QED BY <3>1, LeastOfNat
  <2>3. i # 0
    BY <1>1, <2>2
  <2>4. i - 1 \in Nat /\ i - 1 \notin M
    BY <2>2, <2>3
  <2>5. (i - 1) * s < MaxScan
    <3>1. (i - 1) * s \in Nat
      BY <1>1, <2>4
    <3> QED BY <1>1, <2>4, <3>1
  <2>6. i <= MaxScan
    BY <2>1, <2>2
  <2> QED BY <2>2, <2>3, <2>5, <2>6
<1>4. PICK i \in 1..MaxScan : Ok(i) /\ Scanned = s * i
  BY <1>3 DEF Scanned
<1>5. i \in Nat /\ i - 1 \in Nat /\ i * s \in Nat /\ n * s \in Nat /\ s * i = i * s
      /\ (i - 1) * s \in Nat /\ (i - 1) * s + s = i * s
  BY <1>1, <1>4
<1>6. n < i
  <2>1. SUFFICES ASSUME i <= n PROVE FALSE
    BY <1>5
  <2>2. i = n \/ i < n
    BY <1>5, <2>1
  <2>3. i * s <= n * s
    BY <1>1, <1>2, <1>5, <2>2
  <2> QED BY <1>1, <1>4, <1>5, <2>3
<1>7. n * s + s <= i * s
  BY <1>2, <1>5, <1>6
<1>8. ASSUME MaxScan <= n * s + s PROVE i * s = n * s + s
  <2>1. SUFFICES ASSUME n + 1 < i PROVE FALSE
    <3>1. ~(n + 1 < i) => i = n + 1
      BY <1>5, <1>6
    <3>2. i = n + 1 => i * s = n * s + s
      BY <1>1
    <3> QED BY <3>1, <3>2
  <2>2. n < i - 1
    BY <1>5, <2>1
  <2>3. n * s + s <= (i - 1) * s
    BY <1>2, <1>5, <2>2
  <2> QED BY <1>1, <1>4, <1>5, <1>8, <2>3
<1> QED BY <1>4, <1>5, <1>7, <1>8

\* A search sees of the entries so far what it would see of all at once.
LEMMA SearchPageMoves ==
  ASSUME Shape, ViewsAre, NEW v \in Viewers, SearchPage(v)
  PROVE  Shape' /\ ViewsAre'
<1>1. PICK l : l = look[v]
  OBVIOUS
<1>2. DOMAIN l = LookFields /\ IsView(l.job) /\ LookIs(l) /\ l.pc = "page" /\ l.job.op = "search"
  BY <1>1 DEF Shape, ViewsAre, SearchPage, LookAt
<1>3. PICK P : P = Page(v, MaxListObjects)
  OBVIOUS
<1>4. PICK met : met = Met(l, P)
  OBVIOUS
<1>5. PICK valid : valid = l.valid \cup (met \cap Opened(l.job))
  OBVIOUS
<1>6. PICK sight : sight = Visible(l.marks, valid, P)
  OBVIOUS
<1>7. PICK hits : hits = Seeing(v, Hits(sight))
  OBVIOUS
<1>8. PICK scanned : scanned = l.scanned + Cardinality(P)
  OBVIOUS
<1>9. PICK n : n = [l EXCEPT !.at = Behind(l.job, P, l.at), !.known = l.known \cup met,
                             !.valid = valid,
                             !.seen = l.seen \cup hits, !.total = l.total + Cardinality(hits),
                             !.left = l.left \cup (FoundNames(sight) \cap l.job.names), !.own = TRUE,
                             !.scanned = scanned,
                             !.pc = IF MoreBehind(v, P) /\ scanned < MaxScan THEN "page" ELSE "found"]
  OBVIOUS
<1>10. See(v, n)
  BY <1>1, <1>3, <1>4, <1>5, <1>6, <1>7, <1>8, <1>9 DEF SearchPage
<1>11. /\ DOMAIN n = LookFields /\ n.job = l.job /\ n.marks = l.marks /\ n.outdated = l.outdated
       /\ n.pics = l.pics /\ n.at = Behind(l.job, P, l.at) /\ n.known = l.known \cup met
       /\ n.valid = valid /\ n.seen = l.seen \cup hits /\ n.total = l.total + Cardinality(hits)
       /\ n.left = l.left \cup (FoundNames(sight) \cap l.job.names) /\ n.scanned = scanned
       /\ n.pc = IF MoreBehind(v, P) /\ scanned < MaxScan THEN "page" ELSE "found"
  BY <1>2, <1>9 DEF LookFields
<1>12. LookIs(n)
  <2>1. CASE l.outdated
    <3>1. n.pc \in {"page", "found"}
      BY <1>11
    <3> QED BY <1>11, <2>1, <3>1, OvertakenIs DEF Places
  <2>2. CASE ~l.outdated
    <3>1. AtSearch(l) /\ l.marks = marks
      BY <1>2, <2>2 DEF LookIs, AtPage, InList
    <3>2. Searched(l) /\ l.at \in Nat /\ MaxListObjects \in Nat \ {0} /\ MaxScan \in Nat
      BY <3>1, ListingAssumption DEF AtSearch, Searched
    <3>3. /\ n.at \in Nat /\ P \subseteq Objects
          /\ Listed(n) = Listed(l) \cup P
          /\ Cardinality(Listed(n)) = Cardinality(Listed(l)) + Cardinality(P)
          /\ Listed(l) \cap P = {}
          /\ Cardinality(P) <= MaxListObjects
          /\ (MoreBehind(v, P) => Cardinality(P) = MaxListObjects)
          /\ (MoreBehind(v, P) <=> \E e \in Entries(n.job) : e > n.at)
      BY <1>1, <1>2, <1>3, <1>11, <3>2, NextPage
    <3>4. FoundNames(Listed(n)) = FoundNames(Listed(l)) \cup FoundNames(P)
      BY <3>3, NamesTogether
    <3>5. PICK seesBefore : seesBefore = Visible(marks, Opened(l.job), Listed(l))
      OBVIOUS
    <3>6. Visible(marks, Opened(l.job), Listed(n)) = seesBefore \cup Visible(marks, Opened(l.job), P)
      BY <3>3, <3>5, SightTogether
    <3> DEFINE U == Listed(l)
               opened == Opened(l.job)
               HU == Hits(Visible(marks, opened, U))
               HP == Hits(sight)
    <3>7. n.known = {f \in FoundNames(Listed(n)) : marks[f] # "plain"}
      <4>1. l.known = {f \in FoundNames(U) : marks[f] # "plain"}
        BY <3>2 DEF Searched
      <4>2. FoundNames(Listed(n)) = FoundNames(U) \cup FoundNames(P)
        BY <3>4
      <4> HIDE DEF U
      <4> QED BY <1>4, <1>11, <3>1, <4>1, <4>2 DEF Met
    <3>8. n.valid = n.known \cap opened
      <4>1. l.valid = l.known \cap opened
        BY <3>2 DEF Searched
      <4> HIDE DEF opened
      <4>2. n.valid = l.valid \cup (met \cap opened)
        BY <1>5, <1>11 DEF opened
      <4> QED BY <1>11, <4>1, <4>2
    <3>9. sight = Visible(marks, opened, P)
      <4>1. ASSUME NEW k \in P, FolderOf[k] # Here, marks[FolderOf[k]] # "plain"
            PROVE  FolderOf[k] \in valid <=> FolderOf[k] \in opened
        <5>1. FolderOf[k] \in FoundNames(P)
          BY <4>1 DEF FoundNames
        <5>2. FolderOf[k] \in n.known
          BY <1>4, <1>11, <3>1, <4>1, <5>1 DEF Met
        <5> QED BY <1>11, <3>8, <5>2
      <4> HIDE DEF opened
      <4> QED BY <1>6, <3>1, <4>1, SightIs
    <3>10. Sight(l, U) = Visible(marks, opened, U) /\ Sight(n, Listed(n)) = Visible(marks, opened, U) \cup sight
      BY <1>11, <3>1, <3>9, <3>5, <3>6 DEF Sight
    <3>11. Hits(Sight(n, Listed(n))) = HU \cup HP
      <4> HIDE DEF opened, U
      <4> QED BY <3>10, HitsTogether
    <3>12. HU \subseteq U /\ HP \subseteq P /\ HU \cap HP = {}
      <4>1. HU \subseteq U /\ HP \subseteq P
        <5> HIDE DEF opened, U
        <5> QED BY <3>9, SightTogether, HitsTogether
      <4> QED BY <3>3, <4>1
    <3>13. HU \subseteq Objects /\ HP \subseteq Objects
      BY <3>2, <3>3, <3>12, ListedIs
    <3>14. Cardinality(HU \cup HP) = Cardinality(HU) + Cardinality(HP)
      <4> HIDE DEF HU, HP
      <4> QED BY <3>12, <3>13, Together
    <3>15. hits = Pairs(HP) /\ Cardinality(hits) = Cardinality(HP)
      <4>1. hits = Pairs(HP)
        BY <1>7 DEF Seeing, Pairs
      <4> HIDE DEF HP
      <4> QED BY <3>13, <4>1, PairsAre
    <3>16. l.seen = Pairs(HU) /\ l.total = Cardinality(HU)
      BY <3>2, <3>10 DEF Searched
    <3>17. n.seen = Pairs(HU \cup HP) /\ n.total = Cardinality(HU \cup HP)
      <4> HIDE DEF HU, HP
      <4> QED BY <1>11, <3>14, <3>15, <3>16, PairsTogether
    <3>18. n.left = FoundNames(Sight(n, Listed(n))) \cap n.job.names
      <4>1. l.left = FoundNames(Visible(marks, opened, U)) \cap l.job.names
        BY <3>2, <3>10 DEF Searched
      <4>2. FoundNames(Sight(n, Listed(n))) = FoundNames(Visible(marks, opened, U)) \cup FoundNames(sight)
        <5> HIDE DEF opened, U
        <5> QED BY <3>10, NamesTogether
      <4> QED BY <1>11, <4>1, <4>2
    <3>19. Searched(n)
      <4>1. n.job.op = "search" /\ n.pics = NoPictures /\ opened = Opened(n.job)
        BY <1>2, <1>11, <3>2 DEF Searched
      <4> HIDE DEF HU, HP, opened, U
      <4> QED BY <3>3, <3>7, <3>8, <3>11, <3>17, <3>18, <4>1 DEF Searched
    <3>20. scanned = Cardinality(Listed(n)) /\ Cardinality(P) \in Nat /\ Cardinality(Listed(n)) \in Nat
      BY <1>8, <3>1, <3>3, ListedIs, ObjectsAreFinite DEF AtSearch
    <3>21. PICK i \in Nat : Cardinality(U) = i * MaxListObjects /\ Cardinality(U) < MaxScan
      BY <3>1 DEF AtSearch
    <3>22. /\ Scanned \in Nat /\ i * MaxListObjects + MaxListObjects <= Scanned
           /\ MaxScan <= i * MaxListObjects + MaxListObjects
                => Scanned = i * MaxListObjects + MaxListObjects
      BY <3>21, ScannedIs
    <3>23. CASE n.pc = "page"
      <4>1. MoreBehind(v, P) /\ scanned < MaxScan
        BY <1>11, <3>23
      <4>2. scanned = (i + 1) * MaxListObjects
        <5>1. scanned = i * MaxListObjects + MaxListObjects
          BY <3>3, <3>20, <3>21, <4>1
        <5>2. (i + 1) * MaxListObjects = i * MaxListObjects + MaxListObjects
          BY <3>2
        <5> QED BY <5>1, <5>2
      <4>3. i + 1 \in Nat
        OBVIOUS
      <4>4. AtSearch(n)
        BY <1>11, <3>19, <3>20, <4>1, <4>2, <4>3 DEF AtSearch
      <4> QED BY <1>11, <2>2, <3>1, <3>23, <4>4 DEF LookIs
    <3>24. CASE n.pc = "found"
      <4>1. Entries(n.job) \subseteq Objects /\ Initial(Listed(n), Entries(n.job))
        BY <3>3, ListedIs, EntriesAreObjects
      <4>2. i * MaxListObjects \in Nat
        BY <3>2
      <4>3. CASE ~MoreBehind(v, P)
        <5>1. Listed(n) = Entries(n.job)
          BY <3>3, <4>3, ListedIs
        <5>2. Cardinality(Entries(n.job)) <= Scanned
          <6> HIDE DEF U
          <6>1. Cardinality(Listed(n)) = Cardinality(U) + Cardinality(P)
            BY <3>3 DEF U
          <6> QED BY <3>2, <3>3, <3>20, <3>21, <3>22, <4>2, <5>1, <6>1
        <5>3. First(Entries(n.job), Scanned) = Entries(n.job)
          BY <3>22, <4>1, <5>2, FirstIsAll
        <5> QED BY <1>11, <2>2, <3>1, <3>19, <3>24, <5>1, <5>3 DEF LookIs, AtFound
      <4>4. CASE MoreBehind(v, P)
        <5>1. ~(scanned < MaxScan) /\ Cardinality(P) = MaxListObjects
          BY <1>11, <3>3, <3>24, <4>4
        <5>2. Cardinality(Listed(n)) = Scanned
          <6> HIDE DEF U
          <6>1. Cardinality(Listed(n)) = Cardinality(U) + Cardinality(P)
            BY <3>3 DEF U
          <6> QED BY <3>2, <3>20, <3>21, <3>22, <4>2, <5>1, <6>1
        <5>3. First(Entries(n.job), Scanned) = Listed(n)
          BY <3>20, <4>1, <5>2, FirstIs
        <5> QED BY <1>11, <2>2, <3>1, <3>19, <3>24, <5>3 DEF LookIs, AtFound
      <4> QED BY <4>3, <4>4
    <3> QED BY <1>11, <3>23, <3>24
  <2> QED BY <2>1, <2>2
<1> QED BY <1>1, <1>10, <1>11, <1>12, ViewMoves DEF SearchPage, Unmoved, Shape, lists

LEMMA SearchDoneMoves ==
  ASSUME Shape, ViewsAre, NEW v \in Viewers, SearchDone(v)
  PROVE  Shape' /\ ViewsAre'
<1>1. PICK l : l = look[v]
  OBVIOUS
<1>2. DOMAIN l = LookFields /\ IsView(l.job) /\ LookIs(l) /\ l.pc = "found"
  BY <1>1 DEF Shape, ViewsAre, SearchDone, LookAt
<1>3. PICK page : page = HitsPage(l.job, SeenOf(l.seen))
  OBVIOUS
<1>4. PICK answer : answer = Reply({p \in l.seen : p[1] \in page}, l.left, l.pics, l.total)
  OBVIOUS
<1>5. PICK n : n = Ended(v, answer)
  OBVIOUS
<1>6. See(v, n)
  BY <1>1, <1>3, <1>4, <1>5 DEF SearchDone
<1>7. ASSUME ~l.outdated PROVE answer = Expected(l.job, Opened(l.job))
  <2>1. AtFound(l)
    BY <1>2, <1>7 DEF LookIs
  <2>2. Searched(l) /\ Listed(l) = First(Entries(l.job), Scanned)
    BY <2>1 DEF AtFound
  <2>3. PICK sight : sight = Visible(marks, Opened(l.job), First(Entries(l.job), Scanned))
    OBVIOUS
  <2>4. sight = Sight(l, Listed(l))
    BY <2>2, <2>3 DEF Sight
  <2>5. PICK hits : hits = Hits(sight)
    OBVIOUS
  <2>6. hits \subseteq Objects /\ hits \cap Placeholders = {}
    <3>1. sight \subseteq Listed(l) /\ Hits(sight) \subseteq sight /\ Listed(l) \subseteq Objects
      BY <2>2, <2>4, ListedIs, SightTogether, HitsTogether DEF Sight, Searched
    <3> QED BY <2>5, <3>1 DEF Hits
  <2>7. l.seen = Pairs(hits) /\ l.total = Cardinality(hits)
        /\ l.left = FoundNames(sight) \cap l.job.names /\ l.pics = NoPictures /\ l.job.op = "search"
    BY <2>2, <2>4, <2>5 DEF Searched
  <2>8. page = HitsPage(l.job, hits)
    BY <1>3, <2>6, <2>7, PairsAre
  <2>9. page \subseteq hits
    BY <2>8 DEF HitsPage, Slice, First
  <2>10. {p \in l.seen : p[1] \in page} = Shown(page)
    <3>1. page \ Placeholders = page
      BY <2>6, <2>9
    <3>2. {p \in Pairs(hits) : p[1] \in page} = {<<k, contents[k]>> : k \in page}
      BY <2>9 DEF Pairs
    <3> QED BY <2>7, <3>1, <3>2 DEF Shown
  <2> QED BY <1>4, <2>3, <2>5, <2>7, <2>8, <2>10 DEF Expected, ExpectedHits
<1>8. DOMAIN n = LookFields /\ n.job = l.job /\ LookIs(n)
  BY <1>1, <1>2, <1>5, <1>7, DoneIs
<1> QED BY <1>1, <1>6, <1>8, ViewMoves DEF SearchDone, Unmoved, Shape, lists

\* The invariant holds at first.
LEMMA ListStarts ==
  ASSUME ListInit
  PROVE  ListInv
<1>1. PICK w \in ListWorkloads :
         /\ contents = [k \in Objects |-> IF k \in w.contents THEN Old ELSE Absent]
         /\ marks = w.marks
         /\ listing = [k \in {} |-> NoAnswer] /\ pictures = [f \in Folders |-> NoAnswer]
         /\ look = [v \in Viewers |-> NewLook(w.views[v])]
         /\ change = [c \in Changers |-> [job |-> w.changes[c], pc |-> "new", keys |-> {}]]
  BY DEF ListInit
<1>2. /\ marks \in [Folders -> Marks]
      /\ \A v \in Viewers : IsView(w.views[v])
      /\ \A c \in Changers : IsChange(w.changes[c])
  BY <1>1, ListingAssumption DEF IsView, IsChange
<1>3. Shape
  BY <1>1, <1>2, NewLookIs DEF Shape
<1>4. ViewsAre
  BY <1>1, NewLookIs DEF ViewsAre
<1>5. DOMAIN listing = {}
  BY <1>1
<1>6. ListingsAre
  BY <1>5 DEF ListingsAre
<1>7. PicturesAre
  BY <1>1 DEF PicturesAre
<1> QED BY <1>3, <1>4, <1>6, <1>7 DEF ListInv

\* Every step of a viewer keeps it,
LEMMA ViewStepKeeps ==
  ASSUME ListInv, NEW v \in Viewers, ViewStep(v)
  PROVE  ListInv'
<1>0. Shape /\ ViewsAre /\ ListingsAre /\ PicturesAre
  BY DEF ListInv
<1>1. CASE KeepPictures(v)
  BY <1>1, KeepPicturesKeeps
<1>2. CASE KeepListing(v)
  BY <1>2, KeepListingKeeps
<1>3. ASSUME Unmoved, Shape', ViewsAre'
      PROVE  ListInv'
  <2>1. UNCHANGED <<storage, listing, pictures, change, lateListings, latePictures>>
    BY <1>3 DEF Unmoved, lists, late
  <2> QED BY <1>0, <1>3, <2>1, ListingsStay, PicturesStay DEF ListInv
<1>4. CASE BeginList(v)
  <2>1. Enter(v, "list", "ask")
    BY <1>4 DEF BeginList
  <2>2. Shape' /\ ViewsAre'
    BY <1>0, <2>1, EnterMoves
  <2> QED BY <1>3, <2>1, <2>2 DEF Enter
<1>5. CASE BeginDirectories(v)
  <2>1. Enter(v, "dirs", "ask")
    BY <1>5 DEF BeginDirectories
  <2>2. Shape' /\ ViewsAre'
    BY <1>0, <2>1, EnterMoves
  <2> QED BY <1>3, <2>1, <2>2 DEF Enter
<1>6. CASE BeginObjects(v)
  <2>1. Enter(v, "objects", "ask")
    BY <1>6 DEF BeginObjects
  <2>2. Shape' /\ ViewsAre'
    BY <1>0, <2>1, EnterMoves
  <2> QED BY <1>3, <2>1, <2>2 DEF Enter
<1>7. CASE BeginSearch(v)
  <2>1. Enter(v, "search", "page")
    BY <1>7 DEF BeginSearch
  <2>2. Shape' /\ ViewsAre'
    BY <1>0, <2>1, EnterMoves
  <2> QED BY <1>3, <2>1, <2>2 DEF Enter
<1>8. CASE AskListing(v)
  BY <1>0, <1>3, <1>8, AskListingMoves DEF AskListing
<1>9. CASE FetchList(v) \/ FetchObjects(v) \/ FetchDirectories(v)
  <2>1. PICK op \in {"list", "objects", "dirs"} : Fetch(v, op)
    BY <1>9 DEF FetchList, FetchObjects, FetchDirectories
  <2>2. Shape' /\ ViewsAre'
    BY <1>0, <2>1, FetchMoves
  <2> QED BY <1>3, <2>1, <2>2 DEF Fetch
<1>10. CASE CountObjects(v) \/ CountDirectories(v)
  <2>1. PICK op \in {"objects", "dirs"} : CountRest(v, op)
    BY <1>10 DEF CountObjects, CountDirectories
  <2>2. Shape' /\ ViewsAre'
    BY <1>0, <2>1, CountMoves
  <2> QED BY <1>3, <2>1, <2>2 DEF CountRest
<1>11. CASE Build(v)
  BY <1>0, <1>3, <1>11, BuildMoves DEF Build
<1>12. CASE AskPictures(v)
  <2>1. Unmoved
    BY <1>12 DEF AskPictures
  <2> QED BY <1>0, <1>3, <1>12, <2>1, AskPicturesMoves
<1>13. CASE FetchPictures(v)
  BY <1>0, <1>3, <1>13, FetchPicturesMoves DEF FetchPictures
<1>14. CASE Pictured(v)
  BY <1>0, <1>3, <1>14, PicturedMoves DEF Pictured
<1>15. CASE SearchPage(v)
  BY <1>0, <1>3, <1>15, SearchPageMoves DEF SearchPage
<1>16. CASE SearchDone(v)
  BY <1>0, <1>3, <1>16, SearchDoneMoves DEF SearchDone
<1> QED
  BY <1>1, <1>2, <1>4, <1>5, <1>6, <1>7, <1>8, <1>9, <1>10, <1>11, <1>12, <1>13, <1>14, <1>15, <1>16
  DEF ViewStep

-----------------------------------------------------------------------------
(* A changer                                                               *)

\* Steps that leave the viewers and the storage alone.
LEMMA ViewsStay ==
  ASSUME ViewsAre, UNCHANGED <<storage, look>>, DOMAIN look = Viewers
  PROVE  ViewsAre'
<1>1. ASSUME NEW v \in Viewers, NEW l \in {look'[v]} PROVE LookIs(l)'
  <2>1. LookIs(l)
    BY <1>1 DEF ViewsAre
  <2> QED BY <2>1, SameLook
<1> QED BY <1>1 DEF ViewsAre

\* Whatever the storage becomes, the viewers at work are overtaken.
LEMMA DisturbMoves ==
  ASSUME Shape, ViewsAre, Disturb
  PROVE  /\ ViewsAre' /\ DOMAIN look' = Viewers
         /\ \A v \in Viewers : DOMAIN look'[v] = LookFields /\ IsView(look'[v].job)
<1>1. ASSUME NEW v \in Viewers, NEW l \in {look'[v]}
      PROVE  LookIs(l)' /\ DOMAIN l = LookFields /\ IsView(l.job)
  <2>1. PICK m : m = look[v]
    OBVIOUS
  <2>2. LookIs(m) /\ DOMAIN m = LookFields /\ IsView(m.job)
    BY <2>1 DEF Shape, ViewsAre
  <2>3. l = IF m.pc \in {"new", "refused"} THEN m ELSE [m EXCEPT !.outdated = TRUE]
    BY <1>1, <2>1 DEF Disturb
  <2>4. CASE m.pc \in {"new", "refused"}
    <3>1. l = m
      BY <2>3, <2>4
    <3>2. LookIs(m)'
      BY <2>2, <2>4 DEF LookIs
    <3> QED BY <2>2, <3>1, <3>2
  <2>5. CASE m.pc \notin {"new", "refused"}
    <3>1. DOMAIN l = LookFields /\ l.job = m.job /\ l.pc = m.pc /\ l.outdated
      BY <2>2, <2>3, <2>5 DEF LookFields
    <3>2. l.pc \in Places \ {"new"}
      BY <2>2, <2>5, <3>1 DEF LookIs, Places
    <3>3. LookIs(l)'
      BY <3>1, <3>2 DEF LookIs, Places
    <3> QED BY <2>2, <3>1, <3>3
  <2> QED BY <2>4, <2>5
<1>2. DOMAIN look' = Viewers
  BY DEF Disturb
<1>3. ViewsAre'
  BY <1>1 DEF ViewsAre
<1> QED BY <1>1, <1>2, <1>3

\* Where a changer goes.
LEMMA StepIs ==
  ASSUME Shape, NEW c \in Changers, NEW pc, Step(c, pc)
  PROVE  /\ DOMAIN change' = Changers /\ change'[c].pc = pc
         /\ \A d \in Changers : /\ DOMAIN change'[d] = {"job", "pc", "keys"}
                                /\ change'[d].job = change[d].job /\ IsChange(change'[d].job)
                                /\ change'[d].keys = change[d].keys
                                /\ d # c => change'[d] = change[d]
<1>1. change' = [change EXCEPT ![c].pc = pc] /\ DOMAIN change = Changers
  BY DEF Step, Shape
<1>2. \A d \in Changers : DOMAIN change[d] = {"job", "pc", "keys"} /\ IsChange(change[d].job)
  BY DEF Shape
<1> QED BY <1>1, <1>2

\* What an operation writes, outside of the folders whose pictures it spoils.
LEMMA PutIs ==
  ASSUME Shape, NEW k, NEW version, Put(k, version)
  PROVE  /\ DOMAIN contents' = Objects /\ DOMAIN marks' = Folders
         /\ \A j \in Objects : j # k => contents'[j] = contents[j]
BY DEF Put, Shape

\* An operation changes no other folders.
LEMMA ChangeWrites ==
  ASSUME Shape, NEW c \in Changers, Change(c)
  PROVE  /\ DOMAIN contents' = Objects /\ DOMAIN marks' = Folders
         /\ \A f \in Folders \ Spoilt(change[c].job) : In(f)' = In(f)
<1>1. PICK job : job = change[c].job
  OBVIOUS
<1>2. IsChange(job) /\ DOMAIN contents = Objects /\ DOMAIN marks = Folders
  BY <1>1 DEF Shape
<1>3. Here \notin Folders
  BY ListingAssumption
<1>4. ASSUME \A k \in Objects : FolderOf[k] \notin Spoilt(job) \cup {Here} => contents'[k] = contents[k]
      PROVE  \A f \in Folders \ Spoilt(job) : In(f)' = In(f)
  BY <1>3, <1>4 DEF In
<1>5. ASSUME NEW k, NEW version, Put(k, version),
             k \in Objects => FolderOf[k] \in Spoilt(job) \cup {Here}
      PROVE  /\ DOMAIN contents' = Objects /\ DOMAIN marks' = Folders
             /\ \A f \in Folders \ Spoilt(job) : In(f)' = In(f)
  BY <1>4, <1>5, PutIs
<1>6. ASSUME UNCHANGED contents, DOMAIN marks' = Folders
      PROVE  /\ DOMAIN contents' = Objects /\ DOMAIN marks' = Folders
             /\ \A f \in Folders \ Spoilt(job) : In(f)' = In(f)
  BY <1>2, <1>4, <1>6
<1>7. CASE Upload(c, job) \/ Update(c, job) \/ Restore(c, job)
  <2>1. Put(job.key, c) /\ FolderOf[job.key] \in Spoilt(job) \cup {Here}
    BY <1>7 DEF Upload, Update, Restore, Spoilt, FolderOfJob
  <2> QED BY <1>1, <1>5, <2>1
<1>8. CASE DeleteFile(job)
  <2>1. Put(job.key, Absent) /\ FolderOf[job.key] \in Spoilt(job) \cup {Here}
    BY <1>8 DEF DeleteFile, Spoilt, FolderOfJob
  <2> QED BY <1>1, <1>5, <2>1
<1>9. CASE MoveFile(job)
  <2>1. /\ contents' = [contents EXCEPT ![job.to] = contents[job.key], ![job.key] = Absent]
        /\ UNCHANGED marks
        /\ {FolderOf[job.key], FolderOf[job.to]} \subseteq Spoilt(job) \cup {Here}
    BY <1>9 DEF MoveFile, Spoilt
  <2>2. \A k \in Objects : FolderOf[k] \notin Spoilt(job) \cup {Here} => contents'[k] = contents[k]
    BY <1>2, <2>1
  <2> QED BY <1>1, <1>2, <1>4, <2>1, <2>2
<1>10. CASE CreateFolder(c, job)
  <2>1. PICK p : p = CHOOSE x \in Placeholders : FolderOf[x] = job.folder
    OBVIOUS
  <2>2. job.op = "mkdir" /\ Put(p, c)
    BY <1>10, <2>1 DEF CreateFolder
  <2>3. FolderOf[p] = job.folder
    BY <1>2, <2>1, <2>2 DEF IsChange
  <2>4. FolderOf[p] \in Spoilt(job) \cup {Here}
    BY <2>2, <2>3 DEF Spoilt, FolderOfJob
  <2> QED BY <1>1, <1>5, <2>2, <2>4
<1>11. CASE DeleteFolder(job)
  <2>1. /\ job.op = "rmdir" /\ UNCHANGED marks
        /\ contents' = [j \in Objects |-> IF FolderOf[j] = job.folder THEN Absent ELSE contents[j]]
    BY <1>11 DEF DeleteFolder
  <2>2. job.folder \in Spoilt(job) \cup {Here}
    BY <2>1 DEF Spoilt, FolderOfJob
  <2>3. \A k \in Objects : FolderOf[k] \notin Spoilt(job) \cup {Here} => contents'[k] = contents[k]
    BY <2>1, <2>2
  <2> QED BY <1>1, <1>2, <1>4, <2>1, <2>3
<1>12. CASE UnlockFolder(job) \/ LockFolder(job) \/ RevealFolder(job) \/ ConcealFolder(job)
  <2>1. UNCHANGED contents /\ DOMAIN marks' = Folders
    BY <1>2, <1>12 DEF UnlockFolder, LockFolder, RevealFolder, ConcealFolder, OpenTo
  <2> QED BY <1>1, <1>6, <2>1
<1>13. CASE EncryptFolder(job) \/ DecryptFolder(job) \/ HideFolder(job) \/ UnhideFolder(job)
  <2>1. UNCHANGED contents /\ DOMAIN marks' = Folders
    BY <1>2, <1>13 DEF EncryptFolder, DecryptFolder, HideFolder, UnhideFolder, SetMark
  <2> QED BY <1>1, <1>6, <2>1
<1> QED BY <1>1, <1>7, <1>8, <1>9, <1>10, <1>11, <1>12, <1>13 DEF Change

\* What an operation makes stale it is going to delete.
LEMMA ChangeKeeps ==
  ASSUME ListInv, NEW c \in Changers, Change(c)
  PROVE  ListInv'
<1>0. Shape /\ ViewsAre /\ ListingsAre /\ PicturesAre
  BY DEF ListInv
<1>1. PICK pc \in {"limits", "pictures"} : Step(c, pc)
  <2>1. Step(c, "limits") \/ Step(c, "pictures")
    BY DEF Change
  <2> QED BY <2>1
<1>2. Disturb /\ UNCHANGED <<listing, pictures, lateListings, latePictures>>
  BY DEF Change, lists, late
<1>3. change[c].pc = "change"
  BY DEF Change, ChangeAt
<1>4. ViewsAre' /\ DOMAIN look' = Viewers
      /\ \A v \in Viewers : DOMAIN look'[v] = LookFields /\ IsView(look'[v].job)
  BY <1>0, <1>2, DisturbMoves
<1>5. /\ DOMAIN change' = Changers /\ change'[c].pc = pc
      /\ \A d \in Changers : /\ DOMAIN change'[d] = {"job", "pc", "keys"}
                             /\ change'[d].job = change[d].job /\ IsChange(change'[d].job)
                             /\ d # c => change'[d] = change[d]
  BY <1>0, <1>1, StepIs
<1>6. /\ DOMAIN contents' = Objects /\ DOMAIN marks' = Folders
      /\ \A f \in Folders \ Spoilt(change[c].job) : In(f)' = In(f)
  BY <1>0, ChangeWrites
<1>7. Shape'
  BY <1>0, <1>2, <1>4, <1>5, <1>6 DEF Shape
<1>8. ListingsAre'
  BY <1>1, <1>5 DEF ListingsAre, WillForget
<1>9. ASSUME NEW f \in Folders \ latePictures'
      PROVE  \/ pictures'[f] \in {NoAnswer, Pictures(f)'}
             \/ \E d \in Changers : WillSpoil(change[d], f)'
  <2>1. CASE f \in Spoilt(change[c].job)
    <3>1. WillSpoil(change[c], f)'
      BY <1>1, <1>5, <2>1 DEF WillSpoil
    <3> QED BY <3>1
  <2>2. CASE f \notin Spoilt(change[c].job)
    <3>1. Pictures(f)' = Pictures(f)
      BY <1>6, <2>2 DEF Pictures
    <3>2. CASE pictures[f] \in {NoAnswer, Pictures(f)}
      BY <1>2, <3>1, <3>2
    <3>3. ASSUME NEW d \in Changers, WillSpoil(change[d], f)
          PROVE  WillSpoil(change[d], f)'
      BY <1>3, <1>5, <3>3 DEF WillSpoil
    <3> QED BY <1>0, <1>2, <1>9, <3>2, <3>3 DEF PicturesAre
  <2> QED BY <2>1, <2>2
<1>10. PicturesAre'
  BY <1>9 DEF PicturesAre
<1> QED BY <1>4, <1>7, <1>8, <1>10 DEF ListInv

\* What a change nobody announces leaves behind is kept late.
LEMMA UnnoticedKeeps ==
  ASSUME Shape, Unnoticed, UNCHANGED lists, NEW c \in Changers, NEW pc, Step(c, pc)
  PROVE  /\ ListingsAre' /\ PicturesAre'
         /\ DOMAIN pictures' = Folders /\ DOMAIN change' = Changers
         /\ \A d \in Changers : DOMAIN change'[d] = {"job", "pc", "keys"} /\ IsChange(change'[d].job)
<1>1. listing' = listing /\ pictures' = pictures
  BY DEF lists
<1>2. DOMAIN listing' \ lateListings' = {}
  BY <1>1 DEF Unnoticed
<1>3. \A f \in Folders \ latePictures' : pictures'[f] = NoAnswer
  BY <1>1 DEF Unnoticed
<1>4. ListingsAre'
  BY <1>2 DEF ListingsAre
<1>5. PicturesAre'
  BY <1>3 DEF PicturesAre
<1>6. DOMAIN pictures' = Folders
  BY <1>1 DEF Shape
<1> QED BY <1>4, <1>5, <1>6, StepIs

\* The same for a change of the storage itself.
LEMMA SpoiltUnnoticedKeeps ==
  ASSUME ListInv, NEW c \in Changers, NEW k, NEW version, Put(k, version), Disturb, Unnoticed,
         NEW pc, Step(c, pc), UNCHANGED lists
  PROVE  ListInv'
<1>0. Shape /\ ViewsAre
  BY DEF ListInv
<1>1. ViewsAre' /\ DOMAIN look' = Viewers
      /\ \A v \in Viewers : DOMAIN look'[v] = LookFields /\ IsView(look'[v].job)
  BY <1>0, DisturbMoves
<1>2. DOMAIN contents' = Objects /\ DOMAIN marks' = Folders
  BY <1>0, PutIs
<1>3. /\ ListingsAre' /\ PicturesAre'
      /\ DOMAIN pictures' = Folders /\ DOMAIN change' = Changers
      /\ \A d \in Changers : DOMAIN change'[d] = {"job", "pc", "keys"} /\ IsChange(change'[d].job)
  BY <1>0, UnnoticedKeeps
<1>4. Shape'
  BY <1>1, <1>2, <1>3 DEF Shape
<1> QED BY <1>1, <1>3, <1>4 DEF ListInv

\* A changer that goes from one step to the next, with the same duties.
LEMMA ChangerMoves ==
  ASSUME ListInv, NEW c \in Changers, UNCHANGED <<storage, look>>, DOMAIN pictures' = Folders,
         DOMAIN change' = Changers,
         \A d \in Changers : /\ DOMAIN change'[d] = {"job", "pc", "keys"}
                             /\ change'[d].job = change[d].job
  PROVE  Shape' /\ ViewsAre'
<1>0. Shape /\ ViewsAre
  BY DEF ListInv
<1>1. ViewsAre'
  BY <1>0, ViewsStay DEF Shape
<1>2. contents' = contents /\ marks' = marks /\ look' = look
  BY DEF storage
<1>3. Shape'
  BY <1>0, <1>2 DEF Shape
<1> QED BY <1>1, <1>3

\* A changer goes on, and what it is to delete it still is.
LEMMA DutiesStay ==
  ASSUME ListInv, NEW c \in Changers, NEW pc, Step(c, pc), UNCHANGED <<storage, look, lists, late>>,
         \A k : WillForget(change[c], k) => WillForget(change[c], k)',
         \A f : WillSpoil(change[c], f) => WillSpoil(change[c], f)'
  PROVE  ListInv'
<1>0. Shape /\ ViewsAre /\ ListingsAre /\ PicturesAre
  BY DEF ListInv
<1>1. listing' = listing /\ pictures' = pictures /\ lateListings' = lateListings
      /\ latePictures' = latePictures
  BY DEF lists, late
<1>2. /\ DOMAIN change' = Changers
      /\ \A d \in Changers : /\ DOMAIN change'[d] = {"job", "pc", "keys"}
                             /\ change'[d].job = change[d].job
                             /\ d # c => change'[d] = change[d]
  BY <1>0, StepIs
<1>3. DOMAIN pictures' = Folders
  BY <1>0, <1>1 DEF Shape
<1>4. Shape' /\ ViewsAre'
  BY <1>2, <1>3, ChangerMoves
<1>5. \A d \in Changers : \A k : WillForget(change[d], k) => WillForget(change[d], k)'
  BY <1>2 DEF WillForget
<1>6. \A d \in Changers : \A f : WillSpoil(change[d], f) => WillSpoil(change[d], f)'
  BY <1>2 DEF WillSpoil
<1>7. ASSUME NEW k \in DOMAIN listing' \ lateListings', NEW a \in {listing'[k]}
      PROVE  Current(k, a)' \/ \E d \in Changers : WillForget(change[d], k)'
  BY <1>0, <1>1, <1>5, <1>7, SameCurrent DEF ListingsAre
<1>8. ListingsAre'
  BY <1>7 DEF ListingsAre
<1>9. PicturesAre'
  BY <1>0, <1>1, <1>6, SameStorage DEF PicturesAre
<1> QED BY <1>4, <1>8, <1>9 DEF ListInv

\* The pictures that a changer was to delete are gone.
LEMMA ForgetPicturesKeeps ==
  ASSUME ListInv, NEW c \in Changers, ForgetPictures(c)
  PROVE  ListInv'
<1>0. Shape /\ ViewsAre /\ ListingsAre /\ PicturesAre
  BY DEF ListInv
<1>1. PICK spoilt : spoilt = Spoilt(change[c].job)
  OBVIOUS
<1>2. /\ change[c].pc = "pictures"
      /\ pictures' = [f \in Folders |-> IF f \in spoilt THEN NoAnswer ELSE pictures[f]]
      /\ latePictures' = latePictures \ spoilt
      /\ UNCHANGED <<storage, listing, look, lateListings>>
  BY <1>1 DEF ForgetPictures, ChangeAt
<1>3. PICK pc \in {"find", "keep"} : Step(c, pc)
  <2>1. Step(c, "find") \/ Step(c, "keep")
    BY DEF ForgetPictures
  <2> QED BY <2>1
<1>4. /\ DOMAIN change' = Changers /\ change'[c].pc = pc
      /\ \A d \in Changers : /\ DOMAIN change'[d] = {"job", "pc", "keys"}
                             /\ change'[d].job = change[d].job
                             /\ d # c => change'[d] = change[d]
  BY <1>0, <1>3, StepIs
<1>5. Shape' /\ ViewsAre'
  BY <1>2, <1>4, ChangerMoves
<1>6. \A d \in Changers : \A k : WillForget(change[d], k) => WillForget(change[d], k)'
  BY <1>3, <1>4 DEF WillForget
<1>7. ASSUME NEW k \in DOMAIN listing' \ lateListings', NEW a \in {listing'[k]}
      PROVE  Current(k, a)' \/ \E d \in Changers : WillForget(change[d], k)'
  BY <1>0, <1>2, <1>6, <1>7, SameCurrent DEF ListingsAre
<1>8. ListingsAre'
  BY <1>7 DEF ListingsAre
<1>9. ASSUME NEW f \in Folders \ latePictures'
      PROVE  \/ pictures'[f] \in {NoAnswer, Pictures(f)'}
             \/ \E d \in Changers : WillSpoil(change[d], f)'
  <2>1. CASE f \in spoilt
    BY <1>2, <2>1
  <2>2. CASE f \notin spoilt
    <3>1. f \notin latePictures /\ pictures'[f] = pictures[f]
      BY <1>2, <1>9, <2>2
    <3>2. Pictures(f)' = Pictures(f)
      BY <1>2, SameStorage
    <3>3. \A d \in Changers : WillSpoil(change[d], f) => WillSpoil(change[d], f)'
      BY <1>1, <1>4, <2>2 DEF WillSpoil
    <3> QED BY <1>0, <3>1, <3>2, <3>3 DEF PicturesAre
  <2> QED BY <2>1, <2>2
<1>10. PicturesAre'
  BY <1>9 DEF PicturesAre
<1> QED BY <1>5, <1>8, <1>10 DEF ListInv

\* All listings that are kept now are going to be deleted.
LEMMA FindListingsKeeps ==
  ASSUME ListInv, NEW c \in Changers, FindListings(c)
  PROVE  ListInv'
<1>0. Shape /\ ViewsAre /\ ListingsAre /\ PicturesAre
  BY DEF ListInv
<1>1. /\ change[c].pc = "find"
      /\ change' = [change EXCEPT ![c].keys = DOMAIN listing, ![c].pc = "forget"]
      /\ UNCHANGED <<storage, lists, look, late>>
  BY DEF FindListings, ChangeAt
<1>2. listing' = listing /\ pictures' = pictures /\ lateListings' = lateListings
      /\ latePictures' = latePictures
  BY <1>1 DEF lists, late
<1>3. /\ DOMAIN change' = Changers /\ change'[c].pc = "forget" /\ change'[c].keys = DOMAIN listing
      /\ \A d \in Changers : /\ DOMAIN change'[d] = {"job", "pc", "keys"}
                             /\ change'[d].job = change[d].job
                             /\ d # c => change'[d] = change[d]
  BY <1>0, <1>1 DEF Shape
<1>4. DOMAIN pictures' = Folders
  BY <1>0, <1>2 DEF Shape
<1>5. Shape' /\ ViewsAre'
  BY <1>1, <1>3, <1>4, ChangerMoves
<1>6. \A k \in DOMAIN listing' : WillForget(change[c], k)'
  BY <1>2, <1>3 DEF WillForget
<1>7. ListingsAre'
  BY <1>6 DEF ListingsAre
<1>8. \A d \in Changers : \A f : WillSpoil(change[d], f) => WillSpoil(change[d], f)'
  BY <1>1, <1>3 DEF WillSpoil
<1>9. PicturesAre'
  BY <1>0, <1>1, <1>2, <1>8, SameStorage DEF PicturesAre
<1> QED BY <1>5, <1>7, <1>9 DEF ListInv

\* Listings that were found are gone; those kept since are current or late.
LEMMA ForgetListingsKeeps ==
  ASSUME ListInv, NEW c \in Changers, ForgetListings(c)
  PROVE  ListInv'
<1>0. Shape /\ ViewsAre /\ ListingsAre /\ PicturesAre
  BY DEF ListInv
<1>1. PICK gone : gone = change[c].keys
  OBVIOUS
<1>2. /\ change[c].pc = "forget"
      /\ listing' = [k \in DOMAIN listing \ gone |-> listing[k]]
      /\ lateListings' = lateListings \ gone
      /\ Step(c, "done")
      /\ UNCHANGED <<storage, pictures, look, latePictures>>
  BY <1>1 DEF ForgetListings, ChangeAt
<1>3. /\ DOMAIN change' = Changers
      /\ \A d \in Changers : /\ DOMAIN change'[d] = {"job", "pc", "keys"}
                             /\ change'[d].job = change[d].job
                             /\ d # c => change'[d] = change[d]
  BY <1>0, <1>2, StepIs
<1>4. DOMAIN pictures' = Folders
  BY <1>0, <1>2 DEF Shape
<1>5. Shape' /\ ViewsAre'
  BY <1>2, <1>3, <1>4, ChangerMoves
<1>6. ASSUME NEW k \in DOMAIN listing' \ lateListings', NEW a \in {listing'[k]}
      PROVE  Current(k, a)' \/ \E d \in Changers : WillForget(change[d], k)'
  <2>1. k \in DOMAIN listing \ lateListings /\ k \notin gone /\ listing'[k] = listing[k]
    BY <1>2, <1>6
  <2>2. \A d \in Changers : WillForget(change[d], k) => WillForget(change[d], k)'
    BY <1>1, <1>2, <1>3, <2>1 DEF WillForget
  <2> QED BY <1>0, <1>2, <1>6, <2>1, <2>2, SameCurrent DEF ListingsAre
<1>7. ListingsAre'
  BY <1>6 DEF ListingsAre
<1>8. \A d \in Changers : \A f : WillSpoil(change[d], f) => WillSpoil(change[d], f)'
  BY <1>2, <1>3 DEF WillSpoil
<1>9. PicturesAre'
  BY <1>0, <1>2, <1>8, SameStorage DEF PicturesAre
<1> QED BY <1>5, <1>7, <1>9 DEF ListInv

\* A session that ends makes the kept listings late, and spoils no pictures.
LEMMA SessionEndsKeeps ==
  ASSUME ListInv, NEW f \in Folders, SessionEnds(f)
  PROVE  ListInv'
<1>0. Shape /\ ViewsAre /\ ListingsAre /\ PicturesAre
  BY DEF ListInv
<1>1. /\ Disturb /\ lateListings' = lateListings \cup DOMAIN listing
      /\ UNCHANGED <<contents, marks, listing, pictures, change, latePictures>>
  BY DEF SessionEnds, lists
<1>2. ViewsAre' /\ DOMAIN look' = Viewers
      /\ \A v \in Viewers : DOMAIN look'[v] = LookFields /\ IsView(look'[v].job)
  BY <1>0, <1>1, DisturbMoves
<1>3. Shape'
  BY <1>0, <1>1, <1>2 DEF Shape
<1>4. ListingsAre'
  BY <1>1 DEF ListingsAre
<1>5. \A g : Pictures(g)' = Pictures(g)
  BY <1>1 DEF Pictures, In
<1>6. PicturesAre'
  BY <1>0, <1>1, <1>5 DEF PicturesAre
<1> QED BY <1>2, <1>3, <1>4, <1>6 DEF ListInv

\* ... every step of a changer,
LEMMA ChangeStepKeeps ==
  ASSUME ListInv, NEW c \in Changers, ChangeStep(c)
  PROVE  ListInv'
<1>1. CASE BeginChange(c)
  <2>1. change[c].pc = "new" /\ UNCHANGED <<storage, look, lists, late>>
    BY <1>1 DEF BeginChange, ChangeAt
  <2>2. PICK pc : Step(c, pc)
    BY <1>1 DEF BeginChange
  <2>3. (\A k : ~WillForget(change[c], k)) /\ (\A f : ~WillSpoil(change[c], f))
    BY <2>1 DEF WillForget, WillSpoil
  <2> QED BY <2>1, <2>2, <2>3, DutiesStay
<1>2. CASE RefuseChange(c)
  <2>1. /\ change[c].pc = "change" /\ Step(c, "refused")
        /\ UNCHANGED <<storage, look, lists, late>>
    BY <1>2 DEF RefuseChange, ChangeAt
  <2>2. (\A k : ~WillForget(change[c], k)) /\ (\A f : ~WillSpoil(change[c], f))
    BY <2>1 DEF WillForget, WillSpoil
  <2> QED BY <2>1, <2>2, DutiesStay
<1>3. CASE Change(c)
  BY <1>3, ChangeKeeps
<1>4. CASE DropVersion(c)
  BY <1>4, SpoiltUnnoticedKeeps DEF DropVersion, lists
<1>5. CASE CheckLimits(c)
  <2>1. change[c].pc = "limits" /\ UNCHANGED lists
    BY <1>5 DEF CheckLimits, ChangeAt, lists
  <2>2. CASE Step(c, "pictures") /\ UNCHANGED <<storage, look, late>>
    <3>1. Shape
      BY DEF ListInv
    <3>2. change'[c].pc = "pictures" /\ change'[c].job = change[c].job
      BY <2>2, <3>1, StepIs
    <3>3. \A k : WillForget(change[c], k) => WillForget(change[c], k)'
      BY <3>2 DEF WillForget
    <3>4. \A f : WillSpoil(change[c], f) => WillSpoil(change[c], f)'
      BY <3>2 DEF WillSpoil
    <3> QED BY <2>1, <2>2, <3>3, <3>4, DutiesStay
  <2>3. CASE Put(change[c].job.key, Absent) /\ Disturb /\ Unnoticed /\ Step(c, "failed")
    BY <2>1, <2>3, SpoiltUnnoticedKeeps
  <2> QED BY <1>5, <2>2, <2>3 DEF CheckLimits
<1>6. CASE ForgetPictures(c)
  BY <1>6, ForgetPicturesKeeps
<1>7. CASE KeepResult(c)
  <2>1. change[c].pc = "keep" /\ Step(c, "find") /\ UNCHANGED <<storage, look, lists, late>>
    BY <1>7 DEF KeepResult, ChangeAt
  <2>2. Shape
    BY DEF ListInv
  <2>3. change'[c].pc = "find"
    BY <2>1, <2>2, StepIs
  <2>4. \A k : WillForget(change[c], k)'
    BY <2>3 DEF WillForget
  <2>5. \A f : ~WillSpoil(change[c], f)
    BY <2>1 DEF WillSpoil
  <2> QED BY <2>1, <2>4, <2>5, DutiesStay
<1>8. CASE FindListings(c)
  BY <1>8, FindListingsKeeps
<1>9. CASE ForgetListings(c)
  BY <1>9, ForgetListingsKeeps
<1>10. CASE Cut(c)
  <2>1. Shape /\ ViewsAre
    BY DEF ListInv
  <2>2. Unnoticed /\ Step(c, "failed") /\ UNCHANGED <<storage, lists, look>>
    BY <1>10 DEF Cut
  <2>3. /\ ListingsAre' /\ PicturesAre' /\ DOMAIN pictures' = Folders /\ DOMAIN change' = Changers
        /\ \A d \in Changers : DOMAIN change'[d] = {"job", "pc", "keys"} /\ IsChange(change'[d].job)
    BY <2>1, <2>2, UnnoticedKeeps
  <2>4. \A d \in Changers : change'[d].job = change[d].job
    BY <2>1, <2>2, StepIs
  <2>5. Shape' /\ ViewsAre'
    BY <2>2, <2>3, <2>4, ChangerMoves
  <2> QED BY <2>3, <2>5 DEF ListInv
<1> QED
  BY <1>1, <1>2, <1>3, <1>4, <1>5, <1>6, <1>7, <1>8, <1>9, <1>10 DEF ChangeStep

\* ... and every step of the system.
LEMMA ListingKeeps ==
  ASSUME ListInv, [ListNext]_listVars
  PROVE  ListInv'
<1>1. CASE UNCHANGED listVars
  <2>1. UNCHANGED <<storage, listing, pictures, look, change, lateListings, latePictures>>
    BY <1>1 DEF listVars, storage, late
  <2>2. Shape'
    BY <2>1 DEF ListInv, Shape, storage
  <2>3. ViewsAre'
    BY <2>1, ViewsStay DEF ListInv, Shape
  <2> QED BY <2>1, <2>2, <2>3, ListingsStay, PicturesStay DEF ListInv
<1>2. CASE \E v \in Viewers : ViewStep(v)
  BY <1>2, ViewStepKeeps
<1>3. CASE \E c \in Changers : ChangeStep(c)
  BY <1>3, ChangeStepKeeps
<1>4. CASE \E f \in Folders : SessionEnds(f)
  BY <1>4, SessionEndsKeeps
<1> QED BY <1>1, <1>2, <1>3, <1>4 DEF ListNext

(* What a viewer at work has seen, counted and built agrees with the       *)
(* storage, as long as no change overtakes it; what is kept is the listing *)
(* of now, was kept late, or a changer is still to delete it.              *)
THEOREM ListingInvariant == ListSpec => []ListInv
<1>1. ListInit => ListInv
  BY ListStarts
<1>2. ListInv /\ [ListNext]_listVars => ListInv'
  BY ListingKeeps
<1> QED BY <1>1, <1>2, PTL DEF ListSpec

(* A listing put together from pages of S3, of any size, is the one of the *)
(* storage: the slice that skip and take name, its total, the folders it   *)
(* shows and their pictures, or what a search finds within its limit       *)
(* (cloud.list.service.ts:149-470, 472-648).                               *)
THEOREM AnswersAreExpected == ListSpec => []AnswersAreSlices
<1>1. ListInv => AnswersAreSlices
  <2> SUFFICES ASSUME ListInv, NEW v \in Viewers, look[v].pc = "done", look[v].own,
                      ~look[v].outdated
               PROVE  look[v].answer = Expected(look[v].job, Opened(look[v].job))
    BY DEF AnswersAreSlices, LookAt
  <2>1. PICK l : l = look[v]
    OBVIOUS
  <2>2. LookIs(l)
    BY <2>1 DEF ListInv, ViewsAre
  <2> QED BY <2>1, <2>2 DEF LookIs, AtDone
<1> QED BY <1>1, ListingInvariant, PTL

(* With all changes announced, a kept listing is the one of the storage    *)
(* for a viewer with its key, unless it was kept late, whatever the number *)
(* of viewers and changers and wherever their steps fall                   *)
(* (cloud.list.service.ts:98-146; cloud.service.ts:439-1260).              *)
THEOREM KeptListingsAreCurrent == ListSpec => []ListingsAreCurrent
<1>1. ListInv => ListingsAreCurrent
  <2> SUFFICES ASSUME ListInv, ~Changing, NEW k \in DOMAIN listing \ lateListings
               PROVE  \E opened \in IF k.token THEN {{}, openWith} ELSE {{}} :
                         listing[k] = Expected([k EXCEPT !.token = "none"], opened)
    BY DEF ListingsAreCurrent
  <2>1. \A c \in Changers : ~WillForget(change[c], k)
    BY DEF Changing, WillForget
  <2>2. PICK answer : answer = listing[k]
    OBVIOUS
  <2>3. Current(k, answer)
    BY <2>1, <2>2 DEF ListInv, ListingsAre
  <2> QED BY <2>2, <2>3 DEF Current
<1> QED BY <1>1, ListingInvariant, PTL

(* Kept pictures are those dealt from all images of the folder, although   *)
(* the pages behind enough images are never read                           *)
(* (cloud.list.service.ts:912-1043).                                       *)
THEOREM KeptPicturesAreDealt == ListSpec => []PicturesAreDealt
<1>1. ListInv => PicturesAreDealt
  BY DEF ListInv, PicturesAre, PicturesAreDealt, Changing, WillSpoil
<1> QED BY <1>1, ListingInvariant, PTL
=============================================================================
