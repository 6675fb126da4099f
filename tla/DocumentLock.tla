---------------------------- MODULE DocumentLock ----------------------------
(***************************************************************************)
(* The pessimistic edit lock of one document (DocumentLockService, reached *)
(* through DocumentService.AcquireLock / ReleaseLock / ExtendLock).        *)
(*                                                                         *)
(* The lock is one Redis key with a TTL.  RedisService has no compare-and- *)
(* set: every operation is a Get, a decision on what was read, and then a  *)
(* Set or a Delete.  Each of these is a step of its own here, so that the  *)
(* steps of concurrent HTTP requests interleave as the awaits let them.    *)
(*                                                                         *)
(* Nothing serialises the requests: two of them may read the key as absent *)
(* and both be granted the lock.                                           *)
(*                                                                         *)
(* Time is a countdown: the lock record and every grant carry the time     *)
(* they have left, and Tick lets one unit pass for all of them.            *)
(***************************************************************************)
EXTENDS Naturals

CONSTANTS Users,          \* users who may edit the document
          LockRequests,   \* lock requests the server handles at the same time
          NoUser,         \* no user: the Redis key is absent, the slot is idle
          LockTTL         \* DOCUMENT_LOCK_TTL

ASSUME LockAssumption == NoUser \notin Users /\ LockTTL \in Nat \ {0}

VARIABLES lockHolder,   \* LockData.UserId under DocumentKeys.Lock, or NoUser
          lockLeft,     \* time until Redis drops the key
          granted,      \* per user: time left of the last ExpiresAt answered
          lockPc,       \* per request: the await it is at
          lockUser,     \* per request: who sent it
          contested     \* history: users whose last write of the key found
                        \* requests that may still undo it

lockVars == <<lockHolder, lockLeft, granted, lockPc, lockUser, contested>>

LockPcs == {"idle", "acquireGet", "acquireSet", "extendGet", "extendSet",
            "releaseGet", "releaseDel"}

\* The record and the grants hold users and remaining times, and the key is
\* absent exactly when its time is over.
LockTypeOK ==
    /\ lockHolder \in Users \cup {NoUser}
    /\ lockLeft \in 0..LockTTL
    /\ granted \in [Users -> 0..LockTTL]
    /\ lockPc \in [LockRequests -> LockPcs]
    /\ lockUser \in [LockRequests -> Users \cup {NoUser}]
    /\ contested \subseteq Users
    /\ lockHolder = NoUser <=> lockLeft = 0
    /\ \A r \in LockRequests : lockPc[r] = "idle" <=> lockUser[r] = NoUser

LockInit ==
    /\ lockHolder = NoUser
    /\ lockLeft = 0
    /\ granted = [u \in Users |-> 0]
    /\ lockPc = [r \in LockRequests |-> "idle"]
    /\ lockUser = [r \in LockRequests |-> NoUser]
    /\ contested = {}

-----------------------------------------------------------------------------
(* Steps shared by the operations.                                         *)

LockGoto(r, label) ==
    /\ lockPc' = [lockPc EXCEPT ![r] = label]
    /\ UNCHANGED lockUser

\* The request is answered (or refused) and its slot is free again.
Respond(r) ==
    /\ lockPc' = [lockPc EXCEPT ![r] = "idle"]
    /\ lockUser' = [lockUser EXCEPT ![r] = NoUser]

\* A 423, 403 or 404 tells the client that it does not hold the lock.
Refuse(r) ==
    /\ Respond(r)
    /\ granted' = [granted EXCEPT ![lockUser[r]] = 0]
    /\ UNCHANGED <<lockHolder, lockLeft, contested>>

\* What request r is about to do to the key it has decided on an earlier read.
Writing(r) == lockPc[r] \in {"acquireSet", "extendSet", "releaseDel"}

\* History only: a request of somebody else is about to write or delete the key
\* that u writes, or a release of u's own is under way.
Contest(u) ==
    \E r \in LockRequests :
        \/ Writing(r) /\ lockUser[r] # u
        \/ lockPc[r] \in {"releaseGet", "releaseDel"} /\ lockUser[r] = u

\* RedisService.Set(lock, ..., DOCUMENT_LOCK_TTL): unconditional.
SetLock(u) ==
    /\ lockHolder' = u
    /\ lockLeft' = LockTTL
    /\ contested' = IF Contest(u) THEN contested \cup {u} ELSE contested \ {u}

\* The client is told that the lock is its own for LockTTL.
WriteLock(u) ==
    /\ SetLock(u)
    /\ granted' = [granted EXCEPT ![u] = LockTTL]

Receive(r, u, label) ==
    /\ lockPc[r] = "idle"
    /\ lockPc' = [lockPc EXCEPT ![r] = label]
    /\ lockUser' = [lockUser EXCEPT ![r] = u]
    /\ UNCHANGED <<lockHolder, lockLeft, contested>>

-----------------------------------------------------------------------------
(* AcquireLock                                                             *)

BeginAcquire(r, u) == Receive(r, u, "acquireGet") /\ UNCHANGED granted

\* Mutant: the holder is not compared with the requesting user.
AcquireGetUnchecked(r) ==
    /\ lockPc[r] = "acquireGet"
    /\ LockGoto(r, "acquireSet")
    /\ UNCHANGED <<lockHolder, lockLeft, granted, contested>>

AcquireGet(r) ==
    /\ lockPc[r] = "acquireGet"
    /\ \/ /\ lockHolder = NoUser
          /\ LockGoto(r, "acquireSet")
          /\ UNCHANGED <<lockHolder, lockLeft, granted, contested>>
       \/ /\ lockHolder = lockUser[r]           \* heartbeat
          /\ LockGoto(r, "extendGet")
          /\ UNCHANGED <<lockHolder, lockLeft, granted, contested>>
       \/ /\ lockHolder \notin {NoUser, lockUser[r]}
          /\ Refuse(r)                          \* 423 Locked

AcquireSet(r) ==
    /\ lockPc[r] = "acquireSet"
    /\ WriteLock(lockUser[r])
    /\ Respond(r)

(* ExtendLock                                                              *)

BeginExtend(r, u) == Receive(r, u, "extendGet") /\ UNCHANGED granted

\* Mutant: a heartbeat of somebody else is accepted.
ExtendGetUnchecked(r) ==
    /\ lockPc[r] = "extendGet"
    /\ \/ /\ lockHolder # NoUser
          /\ LockGoto(r, "extendSet")
          /\ UNCHANGED <<lockHolder, lockLeft, granted, contested>>
       \/ /\ lockHolder = NoUser
          /\ Refuse(r)

ExtendGet(r) ==
    /\ lockPc[r] = "extendGet"
    /\ \/ /\ lockHolder = lockUser[r]
          /\ LockGoto(r, "extendSet")
          /\ UNCHANGED <<lockHolder, lockLeft, granted, contested>>
       \/ /\ lockHolder # lockUser[r]
          /\ Refuse(r)                          \* 404 or 403

ExtendSet(r) ==
    /\ lockPc[r] = "extendSet"
    /\ WriteLock(lockUser[r])
    /\ Respond(r)

(* ReleaseLock: the client stops editing when it sends the request.        *)

BeginRelease(r, u) ==
    /\ Receive(r, u, "releaseGet")
    /\ granted' = [granted EXCEPT ![u] = 0]

ReleaseGet(r) ==
    /\ lockPc[r] = "releaseGet"
    /\ \/ /\ lockHolder = lockUser[r]
          /\ LockGoto(r, "releaseDel")
          /\ UNCHANGED <<lockHolder, lockLeft, granted, contested>>
       \/ /\ lockHolder # lockUser[r]           \* nothing to do, or 403
          /\ Refuse(r)

ReleaseDel(r) ==
    /\ lockPc[r] = "releaseDel"
    /\ lockHolder' = NoUser                     \* whoever holds it by now
    /\ lockLeft' = 0
    /\ Respond(r)
    /\ UNCHANGED <<granted, contested>>

-----------------------------------------------------------------------------
\* The process handling the request dies, or its Redis call fails: the
\* request ends between two of its steps.
LockAbort(r) ==
    /\ lockPc[r] # "idle"
    /\ Respond(r)
    /\ UNCHANGED <<lockHolder, lockLeft, granted, contested>>

\* The Set went through, but its answer never reaches the client: the same,
\* seen from the editor, as a request that was dropped.
LoseAnswer(r) ==
    /\ lockPc[r] \in {"acquireSet", "extendSet"}
    /\ SetLock(lockUser[r])
    /\ Respond(r)
    /\ UNCHANGED granted

\* Mutant: the key is written without a TTL.
TickWithoutExpiry ==
    /\ \E u \in Users : granted[u] > 0
    /\ granted' = [u \in Users |-> IF granted[u] = 0 THEN 0 ELSE granted[u] - 1]
    /\ UNCHANGED <<lockHolder, lockLeft, lockPc, lockUser, contested>>

\* One unit of time: Redis drops the key when its TTL is over.
Tick ==
    /\ lockLeft > 0 \/ \E u \in Users : granted[u] > 0
    /\ lockLeft' = IF lockLeft = 0 THEN 0 ELSE lockLeft - 1
    /\ lockHolder' = IF lockLeft <= 1 THEN NoUser ELSE lockHolder
    /\ granted' = [u \in Users |-> IF granted[u] = 0 THEN 0 ELSE granted[u] - 1]
    /\ UNCHANGED <<lockPc, lockUser, contested>>

LockStep(r) ==
    \/ AcquireGet(r) \/ AcquireSet(r)
    \/ ExtendGet(r) \/ ExtendSet(r)
    \/ ReleaseGet(r) \/ ReleaseDel(r)

LockNext ==
    \/ \E r \in LockRequests, u \in Users :
          BeginAcquire(r, u) \/ BeginExtend(r, u) \/ BeginRelease(r, u)
    \/ \E r \in LockRequests : LockStep(r) \/ LoseAnswer(r) \/ LockAbort(r)
    \/ Tick

LockSpec == LockInit /\ [][LockNext]_lockVars

\* Redis expires keys whatever the requests do.
FairLockSpec == LockSpec /\ WF_lockVars(Tick)

-----------------------------------------------------------------------------
(* Properties                                                              *)

\* "If locked by another user, returns 423": at most one user at a time has been
\* told that the lock is theirs.  It does not hold: two requests that both read
\* the key before either writes it are both granted.
MutualExclusion ==
    \A u, v \in Users : granted[u] > 0 /\ granted[v] > 0 => u = v

\* However requests overlap, nobody who was told to hold the lock loses the key
\* before the ExpiresAt they were given, unless their grant was contested when
\* it was written: somebody else's request had read the key before and was still
\* to write or delete it, or a release of their own was under way.
GrantsAreBacked ==
    \A u \in Users : granted[u] > 0 /\ u \notin contested =>
        lockHolder = u /\ granted[u] <= lockLeft

\* "Only the lock owner can release": a ReleaseLock deletes the lock of somebody
\* else only if that lock was contested when it was written (ReleaseLock read
\* the owner before).
OnlyOwnerReleases ==
    [][\A r \in LockRequests :
          /\ lockPc[r] = "releaseDel" /\ lockPc'[r] = "idle"
          /\ lockHolder # lockHolder'
          => lockHolder \in {lockUser[r]} \cup contested]_lockVars

\* An editor that has gone away does not keep a document locked: once no
\* request of a user is in flight any more, the key stops naming that user for
\* good, whatever the other users do.
AbandonedLockLapses ==
    \A u \in Users :
        <>[](\A r \in LockRequests : lockUser[r] # u) => <>[](lockHolder # u)

\* However the requests interleave, they implement a lock that changes hands
\* before its time only through a request that read it before the tenure.
LateUsers ==
    {lockUser[r] : r \in {q \in LockRequests :
        Writing(q) /\ lockHolder \notin {NoUser, lockUser[q]}}}

Abstract == INSTANCE ContestedLock
            WITH holder <- lockHolder, left <- lockLeft, late <- LateUsers
ImplementsContestedLock == Abstract!Spec

=============================================================================
