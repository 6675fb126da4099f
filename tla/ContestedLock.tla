--------------------------- MODULE ContestedLock ---------------------------
(***************************************************************************)
(* The edit lock of one document as the code implements it.  It has at     *)
(* most one holder and lapses by itself LockTTL time units after the last  *)
(* grant or heartbeat.  While somebody holds it, it is granted to and      *)
(* freed by nobody else, except late users: those whose request decided on *)
(* what it read before the holder's tenure began.  Nobody becomes late     *)
(* during a tenure, so that once the late requests are over, the lock is   *)
(* the exclusive one of the documentation.                                 *)
(***************************************************************************)
EXTENDS Naturals

CONSTANTS Users, NoUser, LockTTL

VARIABLES holder,     \* the user who holds the lock, or NoUser
          left,       \* time until the lock lapses
          late        \* users who may still act on what the lock was before

absVars == <<holder, left, late>>

Init == holder = NoUser /\ left = 0 /\ late = {}

\* A first acquisition, the holder's heartbeat, or a late user's grant.  When
\* the lock changes hands, anybody else's request may be on its way.
Grant(u) ==
    /\ holder \in {NoUser, u} \/ u \in late
    /\ holder' = u
    /\ left' = LockTTL
    /\ late' \in SUBSET (IF holder = u THEN late ELSE Users \ {u})

\* The holder gives the lock up, or a late user deletes it.
Free(u) ==
    /\ holder # NoUser
    /\ u \in {holder} \cup late
    /\ holder' = NoUser /\ left' = 0 /\ late' = {}

\* A late request ends without having touched the lock.
Withdraw ==
    /\ late' \in SUBSET late
    /\ UNCHANGED <<holder, left>>

\* Time passes; the lock lapses when its time is over.
Elapse ==
    /\ left > 0
    /\ left' = left - 1
    /\ holder' = IF left = 1 THEN NoUser ELSE holder
    /\ late' = IF left = 1 THEN {} ELSE late

Next == Withdraw \/ Elapse \/ \E u \in Users : Grant(u) \/ Free(u)

Spec == Init /\ [][Next]_absVars

=============================================================================
