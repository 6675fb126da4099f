------------------------------ MODULE Sessions ------------------------------
(***************************************************************************)
(* The sessions of one user in Redis: a record per session and, for "all   *)
(* sessions of the user", an index key per session.  No operation on the   *)
(* two is atomic, every Redis call is a step of its own, and the requests  *)
(* that create, use, list and revoke sessions run side by side.            *)
(***************************************************************************)
EXTENDS Naturals, FiniteSets

CONSTANTS Requests,      \* the requests of a behaviour
          OldSessions,   \* ids of the sessions that are there at first
          NoSession

ASSUME SessionsAssumption == Requests \cap OldSessions = {}

\* A session created by a request bears the request's name.
SessionIds == Requests \cup OldSessions

VARIABLES session,       \* Redis: the record of a session, if there is one
          index,         \* Redis: the sessions that have an index key
          ends,          \* how far off a session's ExpiresAt is: "far", "near", "past"
          req,           \* per request: what it is, where it is, what it read
          answered,      \* history: per request, the sessions known at its start
          writtenBack    \* history: sessions written after they were deleted

sessionVars == <<session, index, ends, req, answered, writtenBack>>

store == <<session, index, ends, answered, writtenBack>>

Records == [pending : BOOLEAN, recent : BOOLEAN]

At(r, pc) == req[r].pc = pc

Goto(r, pc) == req' = [req EXCEPT ![r].pc = pc]

Past(s) == ends[s] = "past"

NewRequest(job) == [op |-> job.op, own |-> job.own, typed |-> job.typed, sid |-> job.own,
                    pc |-> "new", then |-> "done", saw |-> NoSession, left |-> {},
                    pending |-> FALSE, hasPasskey |-> FALSE, tries |-> 0, row |-> NoSession]

\* Where the handler of an authenticated request starts, once the guard let it in.
Handler(r) ==
    CASE req[r].op = "Serve"         -> "done"
      [] req[r].op = "Logout"        -> "revokeNow"
      [] req[r].op = "RevokeSession" -> "find"
      [] req[r].op \in {"LogoutAll", "LogoutOthers", "Sessions"} -> "findKeys"
      [] OTHER                       -> req[r].op

SessionsInit(jobs, ending) ==
    /\ session = [s \in SessionIds |-> IF s \in OldSessions
                                         THEN [pending |-> FALSE, recent |-> FALSE]
                                         ELSE NoSession]
    /\ index = OldSessions
    /\ ends = [s \in SessionIds |-> IF s \in ending THEN "near" ELSE "far"]
    /\ req = [r \in Requests |-> NewRequest(jobs[r])]
    /\ answered = [r \in Requests |-> {}] /\ writtenBack = {}

\* A request comes in.  The session it names is one whose id the user was given.
Begin(r, pc) ==
    /\ At(r, "new")
    /\ req[r].own \in Requests => At(req[r].own, "done")
    /\ Goto(r, pc)
    /\ answered' = [answered EXCEPT ![r] =
           {s \in SessionIds : s \in OldSessions \/ (s \in Requests /\ At(s, "done"))}]
    /\ UNCHANGED <<session, index, ends, writtenBack>>

\* createSession: the record, then the index key.
SetSession(r) ==
    /\ At(r, "create")
    /\ session' = [session EXCEPT ![r] = [pending |-> req[r].pending, recent |-> TRUE]]
    /\ Goto(r, "index")
    /\ UNCHANGED <<index, ends, answered, writtenBack>>

SetIndex(r) ==
    /\ At(r, "index")
    /\ index' = index \cup {r} /\ Goto(r, "done")
    /\ UNCHANGED <<session, ends, answered, writtenBack>>

\* getSession: a session past its end is revoked first, and there is none then.
GetSession(r, s, pc, found, none) ==
    /\ At(r, pc)
    /\ req' = [req EXCEPT
           ![r].sid = s, ![r].saw = session[s], ![r].then = none,
           ![r].pc  = CASE session[s] = NoSession -> none
                        [] Past(s)                -> "revoke"
                        [] OTHER                  -> found]
    /\ UNCHANGED store

\* A request writes back the record it has read, with one field changed.
PutBack(r, record, pc) ==
    /\ session' = [session EXCEPT ![req[r].sid] = record]
    /\ writtenBack' = IF session[req[r].sid] = NoSession
                        THEN writtenBack \cup {req[r].sid} ELSE writtenBack
    /\ Goto(r, pc)
    /\ UNCHANGED <<index, ends, answered>>

\* Mutant of CheckSession: the activity is noted before the pending check.
CheckSessionLate(r) == GetSession(r, req[r].own, "guard", "touch", "refused")

Awaits(r) == session[req[r].own] # NoSession /\ session[req[r].own].pending

\* The guards: the request must name a session that awaits no second factor.
CheckSession(r) ==
    GetSession(r, req[r].own, "guard", IF Awaits(r) THEN "refused" ELSE "touch", "refused")

\* updateSessionActivity: at most once a minute.
ReadActivity(r) ==
    LET s == req[r].own IN
    GetSession(r, s, "touch", IF session[s] # NoSession /\ session[s].recent
                                THEN Handler(r) ELSE "write", Handler(r))

WriteActivity(r) ==
    At(r, "write") /\ PutBack(r, [req[r].saw EXCEPT !.recent = TRUE], Handler(r))

\* completeTwoFactorVerification
ReadPending(r) == GetSession(r, req[r].own, "complete", "writeVerified", "done")

WriteVerified(r) ==
    At(r, "writeVerified") /\ PutBack(r, [req[r].saw EXCEPT !.pending = FALSE], "done")

\* revokeSession: the index key, then the record.
ReadToRevoke(r) ==
    /\ req[r].pc \in {"revoke", "revokeNow"}
    /\ req' = [req EXCEPT
           ![r].then = IF At(r, "revokeNow") THEN "done" ELSE @,
           ![r].pc   = IF session[req[r].sid] = NoSession THEN "erase" ELSE "unindex"]
    /\ UNCHANGED store

Unindex(r) ==
    /\ At(r, "unindex")
    /\ index' = index \ {req[r].sid} /\ Goto(r, "erase")
    /\ UNCHANGED <<session, ends, answered, writtenBack>>

Erase(r) ==
    /\ At(r, "erase")
    /\ session' = [session EXCEPT ![req[r].sid] = NoSession]
    /\ Goto(r, req[r].then)
    /\ UNCHANGED <<index, ends, answered, writtenBack>>

\* RevokeSession finds the session its own (of the one user of the model).
FindToRevoke(r) == GetSession(r, req[r].typed.target, "find", "revokeNow", "refused")

\* revokeAllUserSessions, revokeOtherSessions and getUserSessions: KEYS of the
\* index, then the sessions one after the other.
FindKeys(r) ==
    /\ At(r, "findKeys")
    /\ req' = [req EXCEPT ![r].left = index, ![r].pc = "each"]
    /\ UNCHANGED store

Spared(r) == IF req[r].op = "LogoutOthers" THEN {req[r].own} ELSE {}

\* The value of the index key: it may be gone, and the current session may be spared.
EachKey(r) ==
    \E s \in req[r].left :
       /\ At(r, "each")
       /\ req' = [req EXCEPT
              ![r].left = @ \ {s}, ![r].sid = s,
              ![r].pc = CASE s \notin index \/ s \in Spared(r) -> "each"
                          [] req[r].op = "Sessions"            -> "show"
                          [] OTHER                             -> "kill"]
       /\ UNCHANGED store

Show(r) == GetSession(r, req[r].sid, "show", "each", "each")

Kill(r) ==
    /\ At(r, "kill")
    /\ session' = [session EXCEPT ![req[r].sid] = NoSession]
    /\ Goto(r, "killKey")
    /\ UNCHANGED <<index, ends, answered, writtenBack>>

KillKey(r) ==
    /\ At(r, "killKey")
    /\ index' = index \ {req[r].sid} /\ Goto(r, "each")
    /\ UNCHANGED <<session, ends, answered, writtenBack>>

AllSeen(r) == At(r, "each") /\ req[r].left = {} /\ Goto(r, "done") /\ UNCHANGED store

\* Time: a minute without activity, ExpiresAt (set once), and after it the
\* lifetimes of the two keys.
Quiet(s) ==
    /\ session[s] # NoSession /\ session[s].recent
    /\ session' = [session EXCEPT ![s].recent = FALSE]
    /\ UNCHANGED <<index, ends, req, answered, writtenBack>>

Expire(s) ==
    /\ session[s] # NoSession /\ ends[s] = "near" /\ ends' = [ends EXCEPT ![s] = "past"]
    /\ UNCHANGED <<session, index, req, answered, writtenBack>>

\* Mutant of IndexLapses: the key lives shorter than the session.
IndexLapsesEarly(s) ==
    /\ s \in index /\ index' = index \ {s}
    /\ UNCHANGED <<session, ends, req, answered, writtenBack>>

IndexLapses(s) ==
    /\ s \in index /\ Past(s) /\ index' = index \ {s}
    /\ UNCHANGED <<session, ends, req, answered, writtenBack>>

SessionLapses(s) ==
    /\ Past(s) /\ session[s] # NoSession
    /\ session' = [session EXCEPT ![s] = NoSession]
    /\ UNCHANGED <<index, ends, req, answered, writtenBack>>

SessionStep(r) ==
    \/ SetSession(r) \/ SetIndex(r) \/ CheckSession(r)
    \/ ReadActivity(r) \/ WriteActivity(r) \/ ReadPending(r) \/ WriteVerified(r)
    \/ FindToRevoke(r) \/ ReadToRevoke(r) \/ Unindex(r) \/ Erase(r)
    \/ FindKeys(r) \/ EachKey(r) \/ Show(r) \/ Kill(r) \/ KillKey(r) \/ AllSeen(r)

TimePasses ==
    \E s \in SessionIds : Quiet(s) \/ Expire(s) \/ IndexLapses(s) \/ SessionLapses(s)

-----------------------------------------------------------------------------

(* A session that has passed its second factor never awaits it again: no    *)
(* request writes an older copy of the record over a newer one in a way     *)
(* that undoes completeTwoFactorVerification (session.service.ts:117-151).  *)
VerifiedStaysVerified ==
    [][\A s \in SessionIds :
          session[s] # NoSession /\ ~session[s].pending /\ session'[s] # NoSession
            => ~session'[s].pending]_sessionVars

Revoking(s) == \E r \in Requests : req[r].sid = s /\ req[r].pc \in {"unindex", "erase"}

EndsAll(r) == req[r].op \in {"LogoutAll", "ResetPassword"} /\ At(r, "done")

(* When "log out everywhere" or a password reset is answered, every session *)
(* the user had been given before the request came in is gone, but for one  *)
(* whose own revocation is under way, one that is past its end, and one     *)
(* that a request in flight wrote back from the copy it had read            *)
(* (session.service.ts:130, 144 against 167-182).                           *)
LogoutAllLeavesNone ==
    \A r \in Requests : EndsAll(r) =>
       \A s \in answered[r] :
          session[s] = NoSession \/ Past(s) \/ s \in writtenBack \/ Revoking(s)
=============================================================================
