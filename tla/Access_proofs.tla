--------------------------- MODULE Access_proofs ----------------------------
(***************************************************************************)
(* Proofs about who may do what, for any users and any number of requests. *)
(*                                                                         *)
(* Sessions: a request knows whether the session it is about to write back *)
(* has passed its second factor; a session the user has been given has its *)
(* index key as long as nobody is ending it; so whoever ends all sessions  *)
(* finds each of them. A cached answer on factor or passkey is that of the *)
(* row, unless who changed the row is still about to delete it.            *)
(*                                                                         *)
(* Teams: what a request knows of the rows it is about to save keeps a     *)
(* team at one owner as long as the rows are still those it has read; and  *)
(* who changes a role is still about to delete the cached one.             *)
(*                                                                         *)
(* The public API, for any number of calls and operations on the key, any  *)
(* limits and batches: what a call has read of a counter was not ahead     *)
(* (CountInv); once a revocation is answered the key is revoked and not    *)
(* cached (KeyInv); a kept answer stays kept for who knows of it           *)
(* (ReplayInv); what was pushed is somewhere (EntryInv). Its webhooks, for *)
(* any number of deliveries and attempts: posts and faults account for     *)
(* what the rows of the deliveries tell (TriesInv), and attempts that do   *)
(* not overlap run one at a time (OneAtATime).                             *)
(***************************************************************************)
EXTENDS Account, Team, ApiGate, Webhooks, SequenceTheorems, TLAPS

AFields == {"op", "own", "typed", "sid", "pc", "then", "saw", "left", "pending", "hasPasskey",
            "tries", "row"}

RecordFields == {"pending", "recent"}

\* Where a request goes on once it has revoked an expired session.
Continuations == {"refused", "done", "each", "findKeys", "find", "revokeNow"} \cup Operations

EndOps == {"LogoutAll", "ResetPassword"}

EndPcs(op) == {"new", "refused", "findKeys", "each", "kill", "killKey", "done"} \cup
              (IF op = "LogoutAll" THEN {"guard", "touch", "write", "revoke", "unindex", "erase"}
               ELSE {"ResetPassword", "setPassword"})

\* A session the user has been given.
Given(s) == s \in OldSessions \/ (s \in Requests /\ At(s, "done"))

Erased(s) == session[s] = NoSession \/ s \in writtenBack

Verified(s) == session[s] = NoSession \/ ~session[s].pending

Gone(s) == session[s] = NoSession \/ Past(s) \/ s \in writtenBack \/ Revoking(s)

\* Who logs out everywhere has each session he had been given ended or still before him.
Ending(r) ==
    req[r].op \in EndOps =>
       /\ req[r].pc \in EndPcs(req[r].op)
       /\ req[r].pc \in {"revoke", "unindex", "erase"} => req[r].then \in {"refused", "findKeys"}
       /\ req[r].pc \in {"each", "kill", "killKey", "done"} =>
             \A s \in answered[r] : \/ Gone(s)
                                    \/ req[r].pc # "done" /\ s \in req[r].left
                                    \/ req[r].pc = "kill" /\ s = req[r].sid

\* What a request knows of the sessions it is at.
Knows(r) ==
    LET q == req[r] IN
    /\ q.pc # "new" /\ q.own \in Requests => At(q.own, "done")
    /\ q.pc = "touch" /\ q.own \in SessionIds => Verified(q.own)
    /\ q.pc \in {"write", "writeVerified"} => q.sid = q.own
    /\ q.pc \in {"write", "writeVerified"} /\ q.own \in SessionIds
         => DOMAIN q.saw = RecordFields
    /\ q.pc = "write" /\ q.own \in SessionIds => ~q.saw.pending
    /\ q.pc \in {"kill", "killKey"} => Given(q.sid)
    /\ q.pc = "killKey" => Erased(q.sid)
    /\ \A s \in answered[r] : s \in SessionIds /\ Given(s)

AShape ==
    /\ DOMAIN req = Requests /\ DOMAIN answered = Requests /\ DOMAIN session = SessionIds
    /\ \A r \in Requests : /\ DOMAIN req[r] = AFields /\ req[r].op \in Operations
                           /\ req[r].then \in Continuations

SessionsInv ==
    /\ AShape
    /\ \A s \in SessionIds : session[s] = NoSession \/ DOMAIN session[s] = RecordFields
    /\ \A s \in Requests : session[s] # NoSession => req[s].pc \in {"index", "done"}
    /\ \A s \in index : Given(s)
    /\ \A s \in SessionIds : Gone(s) \/ s \in index \/ (s \in Requests /\ At(s, "index"))
    /\ \A r \in Requests : Knows(r) /\ Ending(r)

\* The operations one by one, as the provers need them.
Ops == {"Login", "LoginCheck", "Register", "ResetPassword", "Verify2FA",
        "PasskeyBegin", "PasskeyFinish", "CreateUser", "EditUser", "DeleteUser",
        "Serve", "Logout", "RevokeSession", "LogoutAll", "LogoutOthers", "Sessions",
        "ChangePassword", "SetupTotp", "EnableTotp", "DisableTotp", "Regenerate",
        "RegisterBegin", "RegisterFinish", "DeletePasskey"}

LEMMA OperationsAre == Operations = Ops
BY DEF Operations, Public, Admin, Ops

LEMMA SessionsInitInv == ASSUME AccountInit PROVE SessionsInv
<1> PICK w \in AccountWorkloads : SessionsInit(w.jobs, w.ending)
  BY DEF AccountInit
<1>1. ASSUME NEW r \in Requests
      PROVE  /\ DOMAIN req[r] = AFields /\ req[r].op \in Operations
             /\ req[r].pc = "new" /\ req[r].then = "done" /\ answered[r] = {}
  BY AccountAssumption DEF SessionsInit, NewRequest, AFields
<1>2. AShape
  BY <1>1 DEF AShape, SessionsInit, Continuations
<1>3. \A r \in Requests : Knows(r) /\ Ending(r)
  BY <1>1 DEF Knows, Ending, EndPcs
<1>4. \A s \in Requests : session[s] = NoSession
  BY SessionsAssumption DEF SessionsInit, SessionIds
<1>5. \A s \in SessionIds : session[s] = NoSession \/ DOMAIN session[s] = RecordFields
  BY DEF SessionsInit, RecordFields
<1>6. \A s \in index : Given(s)
  BY DEF SessionsInit, Given
<1>7. \A s \in SessionIds : Gone(s) \/ s \in index
  BY DEF SessionsInit, Gone, SessionIds
<1> QED BY <1>2, <1>3, <1>4, <1>5, <1>6, <1>7 DEF SessionsInv

\* One request moves on; the others stay where they are.
OneMoves(r) ==
    /\ DOMAIN req' = Requests /\ DOMAIN req'[r] = AFields
    /\ \A q \in Requests \ {r} : req'[q] = req[q]
    /\ req'[r].op = req[r].op /\ req'[r].own = req[r].own

\* What no step takes back, of the sessions the user has been given.
Forward ==
    /\ writtenBack \subseteq writtenBack'
    /\ \A s \in SessionIds : /\ Given(s) => Given(s)'
                             /\ Given(s) /\ Erased(s) => Erased(s)'
                             /\ Given(s) /\ Verified(s) => Verified(s)'
                             /\ Given(s) /\ Gone(s) => Gone(s)'

LEMMA OthersKnow ==
  ASSUME SessionsInv, Forward, NEW q \in Requests, req'[q] = req[q], answered'[q] = answered[q]
  PROVE  Knows(q)' /\ Ending(q)'
<1> USE DEF SessionsInv
<1>1. \A s \in answered[q] : s \in SessionIds /\ Given(s)
  BY DEF Knows
<1>2. Ending(q)'
  BY <1>1 DEF Ending, Forward, EndPcs
<1>3. Knows(q)'
  <2>1. \A s : Given(s) => s \in SessionIds /\ Given(s)'
    BY DEF Forward, Given, SessionIds
  <2>2. \A s : Given(s) => (Erased(s) => Erased(s)') /\ (Verified(s) => Verified(s)')
    BY DEF Forward, Given, SessionIds
  <2>3. \A s \in answered'[q] : s \in SessionIds /\ Given(s)'
    BY <1>1, <2>1
  <2> PICK x : x = req[q]
    OBVIOUS
  <2>4. req'[q] = x /\ Knows(q)
    OBVIOUS
  <2>5. x.pc \in {"kill", "killKey"} => Given(x.sid)'
    BY <2>1, <2>4 DEF Knows, Given, At
  <2>6. x.pc = "killKey" => Erased(x.sid)'
    BY <2>1, <2>2, <2>4 DEF Knows, Given, At, Erased
  <2>7. x.pc # "new" /\ x.own \in Requests => Given(x.own) /\ Given(x.own)'
    BY <2>1, <2>4 DEF Knows, Given, At
  <2>8. x.pc = "touch" /\ x.own \in SessionIds => Verified(x.own)'
    BY <2>2, <2>4, <2>7 DEF Knows, Given, At, Verified, SessionIds
  <2>9. ASSUME x.pc # "new", x.own \in Requests PROVE At(x.own, "done")'
    BY <2>7, <2>9, SessionsAssumption DEF Given, At
  <2> QED BY <2>3, <2>4, <2>5, <2>6, <2>8, <2>9 DEF Knows, Given, Erased, Verified, At
<1> QED BY <1>2, <1>3

\* The sessions are left alone.
LEMMA StoreStays ==
  ASSUME SessionsInv, NEW r \in Requests, OneMoves(r), UNCHANGED store,
         req[r].pc \notin {"unindex", "erase", "index", "done"}
  PROVE  /\ Forward
         /\ \A s \in SessionIds : session'[s] = NoSession \/ DOMAIN session'[s] = RecordFields
         /\ \A s \in Requests : session'[s] # NoSession => req'[s].pc \in {"index", "done"}
         /\ \A s \in index' : Given(s)'
         /\ \A s \in SessionIds : Gone(s)' \/ s \in index' \/ (s \in Requests /\ At(s, "index")')
         /\ \A q \in Requests \ {r} : Knows(q)' /\ Ending(q)'
<1> USE DEF SessionsInv
<1>1. \A s \in SessionIds : Given(s) => Given(s)'
  BY DEF Given, OneMoves, At
<1>2. \A s \in SessionIds : Revoking(s) => Revoking(s)'
  BY DEF Revoking, OneMoves
<1>3. \A s \in SessionIds : Gone(s) => Gone(s)'
  BY <1>2 DEF Gone, Past, store
<1>4. Forward
  BY <1>1, <1>3 DEF Forward, store, Erased, Verified
<1>5. \A q \in Requests \ {r} : Knows(q)' /\ Ending(q)'
  BY <1>4, OthersKnow DEF OneMoves, store
<1>6. \A s \in SessionIds : session'[s] = NoSession \/ DOMAIN session'[s] = RecordFields
  BY DEF store
<1>7. \A s \in Requests : session'[s] # NoSession => req'[s].pc \in {"index", "done"}
  BY DEF store, OneMoves
<1>8. \A s \in index' : Given(s)'
  BY <1>1 DEF store, Given, SessionIds
<1>9. \A s \in SessionIds : Gone(s)' \/ s \in index' \/ (s \in Requests /\ At(s, "index")')
  BY <1>3 DEF store, OneMoves, At
<1> QED BY <1>4, <1>5, <1>6, <1>7, <1>8, <1>9

\* The parts of the invariant after a step of one request.
LEMMA Assembled ==
  ASSUME SessionsInv, NEW r \in Requests, OneMoves(r), Forward, DOMAIN answered' = Requests,
         DOMAIN session' = SessionIds, req'[r].then \in Continuations,
         \A q \in Requests \ {r} : answered'[q] = answered[q],
         \A s \in SessionIds : session'[s] = NoSession \/ DOMAIN session'[s] = RecordFields,
         \A s \in Requests : session'[s] # NoSession => req'[s].pc \in {"index", "done"},
         \A s \in index' : Given(s)',
         \A s \in SessionIds : Gone(s)' \/ s \in index' \/ (s \in Requests /\ At(s, "index")'),
         Knows(r)', Ending(r)'
  PROVE  SessionsInv'
<1>1. AShape'
  BY DEF SessionsInv, AShape, OneMoves
<1>2. \A q \in Requests \ {r} : Knows(q)' /\ Ending(q)'
  BY OthersKnow DEF OneMoves
<1> QED BY <1>1, <1>2 DEF SessionsInv

LEMMA QuietStep ==
  ASSUME SessionsInv, NEW r \in Requests, OneMoves(r), UNCHANGED store,
         req[r].pc \notin {"unindex", "erase", "index", "done"},
         req'[r].then \in Continuations, Knows(r)', Ending(r)'
  PROVE  SessionsInv'
<1>1. DOMAIN answered' = Requests /\ DOMAIN session' = SessionIds
  BY DEF SessionsInv, AShape, store
<1>2. \A q \in Requests \ {r} : answered'[q] = answered[q]
  BY DEF store
<1> QED BY <1>1, <1>2, StoreStays, Assembled

\* Where a request comes to know something of a session.
Loaded == {"new", "touch", "write", "writeVerified", "kill", "killKey"}

LEMMA KnowsStill ==
  ASSUME SessionsInv, NEW r \in Requests, OneMoves(r), UNCHANGED store, req[r].pc # "new",
         req[r].pc \notin {"unindex", "erase", "index", "done"},
         req'[r].pc \notin Loaded
  PROVE  Knows(r)'
<1>1. Forward
  BY StoreStays
<1>2. \A s : Given(s) => s \in SessionIds /\ Given(s)'
  BY <1>1 DEF Forward, Given, SessionIds
<1> PICK x : x = req'[r]
  OBVIOUS
<1>3. \A s \in answered'[r] : s \in SessionIds /\ Given(s)'
  BY <1>2 DEF SessionsInv, Knows, store
<1>4. ASSUME x.own \in Requests PROVE At(x.own, "done")'
  <2>1. x.own = req[r].own /\ At(x.own, "done")
    BY <1>4 DEF SessionsInv, Knows, OneMoves
  <2> QED BY <1>2, <1>4, <2>1, SessionsAssumption DEF Given
<1> QED BY <1>3, <1>4 DEF Knows, Loaded

\* Where only those are who do not end all sessions.
Elsewhere == {"new", "refused", "findKeys", "each", "kill", "killKey", "done", "guard", "touch",
              "write", "revoke", "unindex", "erase", "ResetPassword", "setPassword"}

LEMMA CalmStep ==
  ASSUME SessionsInv, NEW r \in Requests, OneMoves(r), UNCHANGED store,
         req[r].op \notin EndOps, req[r].pc # "new",
         req[r].pc \notin {"unindex", "erase", "index", "done"},
         req'[r].pc \notin Loaded, req'[r].then \in Continuations
  PROVE  SessionsInv'
<1>1. Knows(r)'
  BY KnowsStill
<1>2. Ending(r)'
  BY DEF Ending, OneMoves
<1> QED BY <1>1, <1>2, QuietStep

LEMMA EndsNothing ==
  ASSUME SessionsInv, NEW r \in Requests, req[r].pc \notin Elsewhere
  PROVE  req[r].op \notin EndOps
BY DEF SessionsInv, Ending, Elsewhere, EndPcs

LEMMA GotoMoves ==
  ASSUME SessionsInv, NEW r \in Requests, NEW pc, Goto(r, pc)
  PROVE  /\ OneMoves(r) /\ req'[r].pc = pc
         /\ req'[r].then = req[r].then /\ req[r].then \in Continuations
         /\ req'[r].sid = req[r].sid /\ req'[r].left = req[r].left
         /\ req'[r].saw = req[r].saw
BY DEF OneMoves, SessionsInv, AShape, AFields, Goto

LEMMA GetSessionMoves ==
  ASSUME SessionsInv, NEW r \in Requests, NEW s, NEW pc, NEW found, NEW none,
         GetSession(r, s, pc, found, none)
  PROVE  /\ OneMoves(r) /\ UNCHANGED store
         /\ req[r].pc = pc /\ req'[r].pc \in {none, "revoke", found}
         /\ session[s] = NoSession => req'[r].pc \in {none, "revoke"}
         /\ req'[r].then = none /\ req'[r].sid = s /\ req'[r].saw = session[s]
         /\ req'[r].left = req[r].left
<1> DEFINE y == CASE session[s] = NoSession -> none
                  [] Past(s)                -> "revoke"
                  [] OTHER                  -> found
<1>1. req' = [req EXCEPT ![r].sid = s, ![r].saw = session[s], ![r].then = none, ![r].pc = y]
  BY DEF GetSession
<1>2. /\ y \in {none, "revoke", found}
      /\ session[s] = NoSession => y \in {none, "revoke"}
  OBVIOUS
<1> HIDE DEF y
<1> PICK x : x = y
  OBVIOUS
<1> QED BY <1>1, <1>2 DEF OneMoves, SessionsInv, AShape, AFields, GetSession, At

\* The sessions a handler is about to read, find or list.
LEMMA HandlerIs ==
  ASSUME SessionsInv, NEW r \in Requests
  PROVE  /\ Handler(r) \in {"done", "revokeNow", "find", "findKeys"} \cup Ops
         /\ req[r].op = "LogoutAll" => Handler(r) = "findKeys"
BY OperationsAre DEF Handler, SessionsInv, AShape, Ops

-----------------------------------------------------------------------------
(* The steps on sessions.                                                  *)

LEMMA CheckSessionInv ==
  ASSUME SessionsInv, NEW r \in Requests, CheckSession(r)
  PROVE  SessionsInv'
<1> PICK found : /\ found = IF Awaits(r) THEN "refused" ELSE "touch"
                 /\ GetSession(r, req[r].own, "guard", found, "refused")
  BY DEF CheckSession
<1>1. /\ OneMoves(r) /\ UNCHANGED store /\ req[r].pc = "guard"
      /\ req'[r].pc \in {"refused", "revoke", found} /\ req'[r].then = "refused"
      /\ session[req[r].own] = NoSession => req'[r].pc \in {"refused", "revoke"}
  BY GetSessionMoves
<1>2. Ending(r)'
  BY <1>1 DEF Ending, OneMoves, EndPcs, SessionsInv, EndOps
<1>3. Knows(r)'
  <2>1. CASE req'[r].pc # "touch"
    BY <1>1, <2>1, KnowsStill DEF Loaded
  <2>2. CASE req'[r].pc = "touch"
    <3>1. Forward
      BY <1>1, StoreStays
    <3>2. ~req[r].own \in SessionIds \/ Verified(req[r].own)
      BY <1>1, <2>2 DEF Verified, Awaits
    <3> PICK x : x = req'[r] /\ x.own = req[r].own
      BY <1>1 DEF OneMoves
    <3>3. \A s \in answered'[r] : s \in SessionIds /\ Given(s)'
      BY <1>1, <3>1 DEF SessionsInv, Knows, store, Forward
    <3>4. x.own \in SessionIds => Verified(x.own)'
      BY <1>1, <3>2 DEF Verified, store
    <3>5. ASSUME x.own \in Requests PROVE At(x.own, "done")'
      BY <1>1, <3>5, <3>1, SessionsAssumption
      DEF SessionsInv, Knows, Forward, Given, SessionIds, At
    <3> QED BY <2>2, <3>3, <3>4, <3>5 DEF Knows
  <2> QED BY <2>1, <2>2
<1> QED BY <1>1, <1>2, <1>3, QuietStep DEF Continuations

LEMMA ReadActivityInv ==
  ASSUME SessionsInv, NEW r \in Requests, ReadActivity(r)
  PROVE  SessionsInv'
<1> PICK own, h, found :
        /\ own = req[r].own /\ h = Handler(r)
        /\ found = IF session[own] # NoSession /\ session[own].recent THEN h ELSE "write"
        /\ GetSession(r, own, "touch", found, h)
  BY DEF ReadActivity
<1>1. /\ OneMoves(r) /\ UNCHANGED store /\ req[r].pc = "touch"
      /\ req'[r].pc \in {h, "revoke", found} /\ req'[r].then = h
      /\ req'[r].sid = own /\ req'[r].saw = session[own]
      /\ session[own] = NoSession => req'[r].pc \in {h, "revoke"}
  BY GetSessionMoves
<1>2. /\ h \in {"done", "revokeNow", "find", "findKeys"} \cup Ops
      /\ req[r].op = "LogoutAll" => h = "findKeys"
  BY HandlerIs
<1>3. Ending(r)'
  BY <1>1, <1>2 DEF Ending, OneMoves, EndPcs, SessionsInv, EndOps
<1>4. Knows(r)'
  <2>1. CASE req'[r].pc # "write"
    BY <1>1, <1>2, <2>1, KnowsStill DEF Loaded, Ops
  <2>2. CASE req'[r].pc = "write"
    <3>1. Forward
      BY <1>1, StoreStays
    <3>2. session[own] # NoSession
      BY <1>1, <1>2, <2>2 DEF Ops
    <3>3. own \in SessionIds => DOMAIN session[own] = RecordFields /\ ~session[own].pending
      BY <1>1, <3>2 DEF SessionsInv, Knows, Verified
    <3> PICK x : x = req'[r] /\ x.own = own
      BY <1>1 DEF OneMoves
    <3>4. \A s \in answered'[r] : s \in SessionIds /\ Given(s)'
      BY <1>1, <3>1 DEF SessionsInv, Knows, store, Forward
    <3>5. ASSUME x.own \in Requests PROVE At(x.own, "done")'
      BY <1>1, <3>5, <3>1, SessionsAssumption
      DEF SessionsInv, Knows, Forward, Given, SessionIds, At
    <3> QED BY <1>1, <2>2, <3>3, <3>4, <3>5 DEF Knows
  <2> QED BY <2>1, <2>2
<1>5. h \in Continuations
  BY <1>2, OperationsAre DEF Continuations
<1> QED BY <1>1, <1>3, <1>4, <1>5, QuietStep

\* The request's own session, once it has come in.
LEMMA OwnIsDone ==
  ASSUME SessionsInv, NEW r \in Requests, req[r].pc # "new"
  PROVE  req[r].own \in SessionIds => Given(req[r].own)
BY DEF SessionsInv, Knows, Given, At, SessionIds

LEMMA CreatedIsNotGiven ==
  ASSUME SessionsInv, NEW r \in Requests, req[r].pc # "done"
  PROVE  ~Given(r)
BY SessionsAssumption DEF Given, At

\* Who has moved on from a state that says nothing of sessions, to another one.
LEMMA KnowsLittle ==
  ASSUME SessionsInv, NEW r \in Requests, OneMoves(r), Forward, answered'[r] = answered[r],
         req[r].pc # "new", req'[r].pc \notin Loaded
  PROVE  Knows(r)'
<1>1. \A s : Given(s) => s \in SessionIds /\ Given(s)'
  BY DEF Forward, Given, SessionIds
<1> PICK x : x = req'[r] /\ x.own = req[r].own
  BY DEF OneMoves
<1>2. \A s \in answered'[r] : s \in SessionIds /\ Given(s)'
  BY <1>1 DEF SessionsInv, Knows
<1>3. ASSUME x.own \in Requests PROVE At(x.own, "done")'
  BY <1>1, <1>3, OwnIsDone, SessionsAssumption DEF Given, SessionIds
<1> QED BY <1>2, <1>3 DEF Knows, Loaded

LEMMA StartInv ==
  ASSUME SessionsInv, NEW r \in Requests,
         Begin(r, IF req[r].op \in Public \cup Admin THEN req[r].op ELSE "guard")
  PROVE  SessionsInv'
<1> PICK pc : pc = IF req[r].op \in Public \cup Admin THEN req[r].op ELSE "guard"
  OBVIOUS
<1>1. OneMoves(r) /\ req'[r].pc = pc /\ req'[r].then \in Continuations /\ req[r].pc = "new"
  BY GotoMoves DEF Begin, At
<1>2. \A s \in SessionIds : Given(s) => Given(s)'
  BY <1>1 DEF Given, OneMoves, At
<1>3. \A s \in SessionIds : (Revoking(s) => Revoking(s)') /\ (Gone(s) => Gone(s)')
  BY <1>1 DEF Revoking, Gone, Past, OneMoves, Begin
<1>4. Forward
  BY <1>2, <1>3 DEF Forward, Erased, Verified, Begin
<1>5. pc \in Ops \cup {"guard"} /\ (req[r].op = "LogoutAll" => pc = "guard")
      /\ (req[r].op = "ResetPassword" => pc = "ResetPassword")
  BY OperationsAre DEF SessionsInv, AShape, Public, Admin, Ops
<1>6. Ending(r)'
  BY <1>1, <1>5 DEF Ending, OneMoves, EndPcs, EndOps, Ops
<1>7. Knows(r)'
  <2>1. \A s \in answered'[r] : s \in SessionIds /\ Given(s)
    <3>1. answered'[r] = {s \in SessionIds : Given(s)}
      BY DEF Begin, Given, SessionsInv, AShape
    <3> QED BY <3>1
  <2> PICK x : x = req'[r] /\ x.own = req[r].own
    BY <1>1 DEF OneMoves
  <2>2. \A s \in answered'[r] : s \in SessionIds /\ Given(s)'
    BY <2>1, <1>2
  <2>3. ASSUME x.own \in Requests PROVE At(x.own, "done")'
    BY <1>1, <2>3 DEF Begin, At, OneMoves
  <2>4. x.pc \notin Loaded
    BY <1>1, <1>5 DEF Loaded, Ops
  <2> QED BY <2>2, <2>3, <2>4 DEF Knows, Loaded
<1>8. \A s \in index' : Given(s)'
  BY <1>2 DEF SessionsInv, Begin, Given, SessionIds
<1>9. \A s \in SessionIds : Gone(s)' \/ s \in index' \/ (s \in Requests /\ At(s, "index")')
  BY <1>1, <1>3 DEF SessionsInv, Begin, At, OneMoves
<1>10. /\ DOMAIN answered' = Requests /\ DOMAIN session' = SessionIds
       /\ \A q \in Requests \ {r} : answered'[q] = answered[q]
       /\ \A s \in SessionIds : session'[s] = NoSession \/ DOMAIN session'[s] = RecordFields
  BY DEF SessionsInv, AShape, Begin
<1>11. \A s \in Requests : session'[s] # NoSession => req'[s].pc \in {"index", "done"}
  BY <1>1 DEF SessionsInv, Begin, OneMoves
<1> QED BY <1>1, <1>4, <1>6, <1>7, <1>8, <1>9, <1>10, <1>11, Assembled

LEMMA SetSessionInv ==
  ASSUME SessionsInv, NEW r \in Requests, SetSession(r)
  PROVE  SessionsInv'
<1>1. /\ OneMoves(r) /\ req'[r].pc = "index" /\ req'[r].then \in Continuations
      /\ req[r].pc = "create"
  BY GotoMoves DEF SetSession, At
<1>2. \A s \in SessionIds : (Given(s) => Given(s)') /\ (Revoking(s) => Revoking(s)')
  BY <1>1 DEF Given, OneMoves, At, Revoking
<1>3. \A s \in SessionIds \ {r} : session'[s] = session[s]
  BY DEF SetSession, SessionsInv, AShape
<1>4. DOMAIN session' = SessionIds /\ DOMAIN session'[r] = RecordFields
  BY DEF SetSession, SessionsInv, AShape, RecordFields, SessionIds
<1>5. \A s \in SessionIds \ {r} : Gone(s) => Gone(s)'
  BY <1>2, <1>3 DEF Gone, Past, SetSession
<1>6. Forward
  BY <1>1, <1>2, <1>3, <1>5, CreatedIsNotGiven DEF Forward, Erased, Verified, SetSession
<1>7. Ending(r)'
  BY <1>1, EndsNothing DEF Ending, OneMoves, Elsewhere
<1>8. Knows(r)'
  BY <1>1, <1>6, KnowsLittle DEF Loaded, SetSession
<1>9. \A s \in index' : Given(s)'
  BY <1>2 DEF SessionsInv, SetSession, Given, SessionIds
<1>10. \A s \in SessionIds : Gone(s)' \/ s \in index' \/ (s \in Requests /\ At(s, "index")')
  BY <1>1, <1>5 DEF SessionsInv, SetSession, At, OneMoves
<1>11. /\ DOMAIN answered' = Requests
       /\ \A q \in Requests \ {r} : answered'[q] = answered[q]
       /\ \A s \in SessionIds : session'[s] = NoSession \/ DOMAIN session'[s] = RecordFields
  BY <1>3, <1>4 DEF SessionsInv, AShape, SetSession
<1>12. \A s \in Requests : session'[s] # NoSession => req'[s].pc \in {"index", "done"}
  BY <1>1, <1>3 DEF SessionsInv, OneMoves, SessionIds
<1> QED BY <1>1, <1>4, <1>6, <1>7, <1>8, <1>9, <1>10, <1>11, <1>12, Assembled

LEMMA SetIndexInv ==
  ASSUME SessionsInv, NEW r \in Requests, SetIndex(r)
  PROVE  SessionsInv'
<1>1. /\ OneMoves(r) /\ req'[r].pc = "done" /\ req'[r].then \in Continuations
      /\ req[r].pc = "index"
  BY GotoMoves DEF SetIndex, At
<1>2. \A s \in SessionIds : (Given(s) => Given(s)') /\ (Revoking(s) => Revoking(s)')
  BY <1>1 DEF Given, OneMoves, At, Revoking
<1>3. \A s \in SessionIds : Gone(s) => Gone(s)'
  BY <1>2 DEF Gone, Past, SetIndex
<1>4. Forward
  BY <1>2, <1>3 DEF Forward, Erased, Verified, SetIndex
<1>5. Ending(r)'
  BY <1>1, EndsNothing DEF Ending, OneMoves, Elsewhere
<1>6. Knows(r)'
  BY <1>1, <1>4, KnowsLittle DEF Loaded, SetIndex
<1>7. Given(r)'
  BY <1>1 DEF Given, At
<1>8. \A s \in index' : Given(s)'
  BY <1>2, <1>7 DEF SessionsInv, SetIndex, Given, SessionIds
<1>9. \A s \in SessionIds : Gone(s)' \/ s \in index' \/ (s \in Requests /\ At(s, "index")')
  BY <1>1, <1>3 DEF SessionsInv, SetIndex, At, OneMoves
<1>10. /\ DOMAIN answered' = Requests /\ DOMAIN session' = SessionIds
       /\ \A q \in Requests \ {r} : answered'[q] = answered[q]
       /\ \A s \in SessionIds : session'[s] = NoSession \/ DOMAIN session'[s] = RecordFields
  BY DEF SessionsInv, AShape, SetIndex
<1>11. \A s \in Requests : session'[s] # NoSession => req'[s].pc \in {"index", "done"}
  BY <1>1 DEF SessionsInv, OneMoves, SetIndex
<1> QED BY <1>1, <1>4, <1>5, <1>6, <1>8, <1>9, <1>10, <1>11, Assembled

\* A record is written back, with the second factor passed.
LEMMA PutBackKept ==
  ASSUME SessionsInv, NEW r \in Requests, NEW record, NEW pc, PutBack(r, record, pc),
         req[r].pc \notin {"new", "unindex", "erase", "index", "done"}, req[r].sid = req[r].own,
         req[r].own \in SessionIds => DOMAIN record = RecordFields /\ ~record.pending,
         pc \notin Loaded, Ending(r)'
  PROVE  SessionsInv'
<1> PICK own : own = req[r].own
  OBVIOUS
<1>1. /\ OneMoves(r) /\ req'[r].pc = pc /\ req'[r].then \in Continuations
      /\ req[r].sid = own
  BY GotoMoves DEF PutBack
<1>2. /\ session' = [session EXCEPT ![own] = record]
      /\ writtenBack' = IF session[own] = NoSession THEN writtenBack \cup {own} ELSE writtenBack
      /\ UNCHANGED <<index, ends, answered>>
  BY <1>1 DEF PutBack
<1>3. \A s \in SessionIds : (Given(s) => Given(s)') /\ (Revoking(s) => Revoking(s)')
  BY <1>1 DEF Given, OneMoves, At, Revoking
<1>4. \A s \in SessionIds : session'[s] = IF s = own THEN record ELSE session[s]
  BY <1>2 DEF SessionsInv, AShape
<1>5. \A s \in SessionIds : (Gone(s) => Gone(s)') /\ (Erased(s) => Erased(s)')
  BY <1>2, <1>3, <1>4 DEF Gone, Past, Erased
<1>6. \A s \in SessionIds : Verified(s) => Verified(s)'
  BY <1>4 DEF Verified
<1>7. Forward
  BY <1>2, <1>3, <1>5, <1>6 DEF Forward
<1>8. Knows(r)'
  BY <1>1, <1>2, <1>7, KnowsLittle
<1>9. \A s \in index' : Given(s)'
  BY <1>2, <1>3 DEF SessionsInv, Given, SessionIds
<1>10. \A s \in SessionIds : Gone(s)' \/ s \in index' \/ (s \in Requests /\ At(s, "index")')
  BY <1>1, <1>2, <1>5 DEF SessionsInv, At, OneMoves
<1>11. /\ DOMAIN answered' = Requests /\ DOMAIN session' = SessionIds
       /\ \A q \in Requests \ {r} : answered'[q] = answered[q]
       /\ \A s \in SessionIds : session'[s] = NoSession \/ DOMAIN session'[s] = RecordFields
  BY <1>2, <1>4 DEF SessionsInv, AShape
<1>12. ASSUME NEW s \in Requests, session'[s] # NoSession
       PROVE  req'[s].pc \in {"index", "done"}
  <2>1. CASE s = own
    <3>1. Given(s)'
      BY <1>3, <2>1, OwnIsDone DEF SessionIds
    <3> QED BY <3>1, SessionsAssumption DEF Given, At
  <2>2. CASE s # own
    BY <1>1, <1>4, <1>12, <2>2 DEF SessionsInv, OneMoves, SessionIds
  <2> QED BY <2>1, <2>2
<1> QED BY <1>1, <1>7, <1>8, <1>9, <1>10, <1>11, <1>12, Assembled

LEMMA WriteActivityInv ==
  ASSUME SessionsInv, NEW r \in Requests, WriteActivity(r)
  PROVE  SessionsInv'
<1> PICK h, record :
       h = Handler(r) /\ record = [req[r].saw EXCEPT !.recent = TRUE] /\ PutBack(r, record, h)
  BY DEF WriteActivity
<1>1. /\ req[r].pc = "write" /\ req[r].sid = req[r].own
      /\ req[r].own \in SessionIds => DOMAIN req[r].saw = RecordFields /\ ~req[r].saw.pending
  BY DEF WriteActivity, At, SessionsInv, Knows
<1>2. req[r].own \in SessionIds => DOMAIN record = RecordFields /\ ~record.pending
  BY <1>1 DEF RecordFields
<1>3. /\ h \in {"done", "revokeNow", "find", "findKeys"} \cup Ops
      /\ req[r].op = "LogoutAll" => h = "findKeys"
  BY HandlerIs
<1>4. OneMoves(r) /\ req'[r].pc = h
  BY GotoMoves DEF PutBack
<1>5. Ending(r)'
  BY <1>1, <1>3, <1>4 DEF Ending, OneMoves, EndPcs, EndOps, SessionsInv
<1>6. h \notin Loaded
  BY <1>3 DEF Loaded, Ops
<1> QED BY <1>1, <1>2, <1>5, <1>6, PutBackKept

LEMMA WriteVerifiedInv ==
  ASSUME SessionsInv, NEW r \in Requests, WriteVerified(r)
  PROVE  SessionsInv'
<1> PICK record : record = [req[r].saw EXCEPT !.pending = FALSE] /\ PutBack(r, record, "done")
  BY DEF WriteVerified
<1>1. /\ req[r].pc = "writeVerified" /\ req[r].sid = req[r].own
      /\ req[r].own \in SessionIds => DOMAIN req[r].saw = RecordFields
  BY DEF WriteVerified, At, SessionsInv, Knows
<1>2. req[r].own \in SessionIds => DOMAIN record = RecordFields /\ ~record.pending
  BY <1>1 DEF RecordFields
<1>3. OneMoves(r)
  BY GotoMoves DEF PutBack
<1>4. Ending(r)'
  BY <1>1, <1>3, EndsNothing DEF Ending, OneMoves, Elsewhere
<1> QED BY <1>1, <1>2, <1>4, PutBackKept DEF Loaded

LEMMA ReadPendingInv ==
  ASSUME SessionsInv, NEW r \in Requests, ReadPending(r)
  PROVE  SessionsInv'
<1> PICK own : own = req[r].own
  OBVIOUS
<1>1. /\ OneMoves(r) /\ UNCHANGED store /\ req[r].pc = "complete"
      /\ req'[r].pc \in {"done", "revoke", "writeVerified"} /\ req'[r].then = "done"
      /\ req'[r].sid = own /\ req'[r].saw = session[own]
      /\ session[own] = NoSession => req'[r].pc \in {"done", "revoke"}
  BY GetSessionMoves DEF ReadPending
<1>2. Ending(r)'
  BY <1>1, EndsNothing DEF Ending, OneMoves, Elsewhere
<1>3. Knows(r)'
  <2>1. CASE req'[r].pc # "writeVerified"
    BY <1>1, <2>1, KnowsStill DEF Loaded
  <2>2. CASE req'[r].pc = "writeVerified"
    <3>1. Forward
      BY <1>1, StoreStays
    <3>2. own \in SessionIds => DOMAIN session[own] = RecordFields
      BY <1>1, <2>2 DEF SessionsInv
    <3> PICK x : x = req'[r] /\ x.own = own
      BY <1>1 DEF OneMoves
    <3>3. \A s \in answered'[r] : s \in SessionIds /\ Given(s)'
      BY <1>1, <3>1 DEF SessionsInv, Knows, store, Forward
    <3>4. ASSUME x.own \in Requests PROVE At(x.own, "done")'
      BY <1>1, <3>4, <3>1, OwnIsDone, SessionsAssumption DEF Forward, Given, SessionIds
    <3> QED BY <1>1, <2>2, <3>2, <3>3, <3>4 DEF Knows
  <2> QED BY <2>1, <2>2
<1> QED BY <1>1, <1>2, <1>3, QuietStep DEF Continuations

LEMMA Verify2FASessions ==
  ASSUME SessionsInv, NEW r \in Requests, NEW found, found \in {"attempts", "refused"},
         GetSession(r, req[r].own, "Verify2FA", found, "refused")
  PROVE  SessionsInv'
<1>1. /\ OneMoves(r) /\ UNCHANGED store /\ req[r].pc = "Verify2FA"
      /\ req'[r].pc \in {"refused", "revoke", found} /\ req'[r].then = "refused"
  BY GetSessionMoves
<1> QED BY <1>1, EndsNothing, CalmStep DEF Elsewhere, Loaded, Continuations

LEMMA FindToRevokeInv ==
  ASSUME SessionsInv, NEW r \in Requests, FindToRevoke(r)
  PROVE  SessionsInv'
<1>1. /\ OneMoves(r) /\ UNCHANGED store /\ req[r].pc = "find"
      /\ req'[r].pc \in {"refused", "revoke", "revokeNow"} /\ req'[r].then = "refused"
  BY GetSessionMoves DEF FindToRevoke
<1> QED BY <1>1, EndsNothing, CalmStep DEF Elsewhere, Loaded, Continuations

LEMMA ShowInv ==
  ASSUME SessionsInv, NEW r \in Requests, Show(r)
  PROVE  SessionsInv'
<1>1. /\ OneMoves(r) /\ UNCHANGED store /\ req[r].pc = "show"
      /\ req'[r].pc \in {"each", "revoke"} /\ req'[r].then = "each"
  BY GetSessionMoves DEF Show
<1> QED BY <1>1, EndsNothing, CalmStep DEF Elsewhere, Loaded, Continuations

LEMMA ReadToRevokeMoves ==
  ASSUME SessionsInv, NEW r \in Requests, ReadToRevoke(r)
  PROVE  /\ OneMoves(r) /\ UNCHANGED store /\ req[r].pc \in {"revoke", "revokeNow"}
         /\ req'[r].pc \in {"erase", "unindex"}
         /\ req'[r].then = IF At(r, "revokeNow") THEN "done" ELSE req[r].then
<1>1. PICK then, pc :
        /\ then = IF At(r, "revokeNow") THEN "done" ELSE req[r].then
        /\ pc \in {"erase", "unindex"}
        /\ req' = [req EXCEPT ![r].then = then, ![r].pc = pc]
  BY DEF ReadToRevoke
<1> QED BY <1>1 DEF OneMoves, SessionsInv, AShape, AFields, ReadToRevoke

LEMMA ReadToRevokeInv ==
  ASSUME SessionsInv, NEW r \in Requests, ReadToRevoke(r)
  PROVE  SessionsInv'
<1> PICK then, pc : then = req'[r].then /\ pc = req'[r].pc
  OBVIOUS
<1>1. then = IF At(r, "revokeNow") THEN "done" ELSE req[r].then
  BY ReadToRevokeMoves
<1>2. /\ OneMoves(r) /\ req'[r].pc = pc /\ req'[r].then = then
      /\ UNCHANGED store /\ req[r].pc \in {"revoke", "revokeNow"} /\ pc \in {"erase", "unindex"}
  BY ReadToRevokeMoves
<1>3. then \in Continuations
  BY <1>1 DEF SessionsInv, AShape, Continuations
<1>4. Ending(r)'
  BY <1>1, <1>2 DEF Ending, OneMoves, EndPcs, EndOps, SessionsInv, At
<1>5. Knows(r)'
  BY <1>1, <1>2, KnowsStill DEF Loaded
<1> QED BY <1>2, <1>3, <1>4, <1>5, QuietStep

\* A session is deleted: from its record, or with nothing but its index key.
LEMMA Deleted ==
  ASSUME SessionsInv, NEW r \in Requests, NEW pc, Goto(r, pc), NEW sid, sid = req[r].sid,
         req[r].pc \notin {"new", "index", "done"}, pc \notin Loaded \ {"killKey"},
         pc = "killKey" => Given(sid) /\ session'[sid] = NoSession,
         \A s \in SessionIds : session'[s] = IF s = sid THEN session'[sid] ELSE session[s],
         session'[sid] \in {session[sid], NoSession}, DOMAIN session' = SessionIds,
         UNCHANGED <<ends, answered, writtenBack>>, index' \subseteq index,
         \A s \in index \ index' : s \in SessionIds => Gone(s)',
         \A s \in SessionIds : Revoking(s) => Gone(s)',
         Ending(r)'
  PROVE  SessionsInv'
<1>1. OneMoves(r) /\ req'[r].pc = pc /\ req'[r].then \in Continuations /\ req'[r].sid = sid
  BY GotoMoves
<1>2. \A s \in SessionIds : Given(s) => Given(s)'
  BY <1>1 DEF Given, OneMoves, At
<1>3. \A s \in SessionIds : session'[s] \in {session[s], NoSession}
  OBVIOUS
<1>4. \A s \in SessionIds : (Gone(s) => Gone(s)') /\ (Erased(s) => Erased(s)')
                            /\ (Verified(s) => Verified(s)')
  BY <1>3 DEF Gone, Past, Erased, Verified
<1>5. Forward
  BY <1>2, <1>4 DEF Forward
<1>6. Knows(r)'
  <2>1. CASE pc # "killKey"
    BY <1>1, <1>5, <2>1, KnowsLittle
  <2>2. CASE pc = "killKey"
    <3> PICK x : x = req'[r] /\ x.own = req[r].own /\ x.pc = "killKey" /\ x.sid = sid
      BY <1>1, <2>2 DEF OneMoves
    <3>1. \A s \in answered'[r] : s \in SessionIds /\ Given(s)'
      BY <1>5 DEF SessionsInv, Knows, Forward
    <3>2. ASSUME x.own \in Requests PROVE At(x.own, "done")'
      BY <3>2, <1>5, OwnIsDone, SessionsAssumption DEF Forward, Given, SessionIds
    <3>3. Given(x.sid)' /\ Erased(x.sid)'
      BY <2>2, <1>2 DEF Given, Erased, SessionIds
    <3> QED BY <3>1, <3>2, <3>3 DEF Knows
  <2> QED BY <2>1, <2>2
<1>7. \A s \in index' : Given(s)'
  BY <1>2 DEF SessionsInv, Given, SessionIds
<1>8. \A s \in SessionIds : Gone(s)' \/ s \in index' \/ (s \in Requests /\ At(s, "index")')
  BY <1>1, <1>4 DEF SessionsInv, At, OneMoves
<1>9. /\ DOMAIN answered' = Requests
      /\ \A q \in Requests \ {r} : answered'[q] = answered[q]
      /\ \A s \in SessionIds : session'[s] = NoSession \/ DOMAIN session'[s] = RecordFields
  BY <1>3 DEF SessionsInv, AShape
<1>10. \A s \in Requests : session'[s] # NoSession => req'[s].pc \in {"index", "done"}
  BY <1>1, <1>3 DEF SessionsInv, OneMoves, SessionIds
<1> QED BY <1>1, <1>5, <1>6, <1>7, <1>8, <1>9, <1>10, Assembled

LEMMA UnindexInv ==
  ASSUME SessionsInv, NEW r \in Requests, Unindex(r)
  PROVE  SessionsInv'
<1> PICK sid : sid = req[r].sid
  OBVIOUS
<1>1. /\ Goto(r, "erase") /\ req[r].pc = "unindex" /\ index' = index \ {sid}
      /\ UNCHANGED <<session, ends, answered, writtenBack>>
  BY DEF Unindex, At
<1>2. OneMoves(r) /\ req'[r].pc = "erase" /\ req'[r].then = req[r].then /\ req'[r].sid = sid
  BY <1>1, GotoMoves
<1>3. \A s \in SessionIds : Revoking(s) => Revoking(s)'
  BY <1>1, <1>2 DEF Revoking, OneMoves
<1>4. Revoking(sid)'
  BY <1>2 DEF Revoking
<1>5. Ending(r)'
  BY <1>1, <1>2 DEF Ending, OneMoves, EndPcs, EndOps, SessionsInv
<1>6. DOMAIN session' = SessionIds
  BY <1>1 DEF SessionsInv, AShape
<1>7. (\A s \in SessionIds : Revoking(s) => Gone(s)') /\ Gone(sid)'
  BY <1>3, <1>4 DEF Gone
<1> QED BY <1>1, <1>5, <1>6, <1>7, Deleted DEF Loaded

LEMMA EraseInv ==
  ASSUME SessionsInv, NEW r \in Requests, Erase(r)
  PROVE  SessionsInv'
<1> PICK sid, then : sid = req[r].sid /\ then = req[r].then
  OBVIOUS
<1>1. /\ Goto(r, then) /\ req[r].pc = "erase"
      /\ session' = [session EXCEPT ![sid] = NoSession]
      /\ UNCHANGED <<index, ends, answered, writtenBack>>
  BY DEF Erase, At
<1>2. OneMoves(r) /\ req'[r].pc = then /\ req'[r].then = then /\ then \in Continuations
  BY <1>1, GotoMoves
<1>3. /\ DOMAIN session' = SessionIds
      /\ \A s \in SessionIds : session'[s] = IF s = sid THEN NoSession ELSE session[s]
      /\ session'[sid] \in {session[sid], NoSession}
  BY <1>1 DEF SessionsInv, AShape
<1>4. \A s \in SessionIds \ {sid} : Revoking(s) => Revoking(s)'
  BY <1>2 DEF Revoking, OneMoves
<1>5. \A s \in SessionIds : Revoking(s) => Gone(s)'
  BY <1>3, <1>4 DEF Gone
<1>6. Ending(r)'
  BY <1>1, <1>2 DEF Ending, OneMoves, EndPcs, EndOps, SessionsInv
<1>7. then \notin Loaded
  BY <1>2, OperationsAre DEF Loaded, Continuations, Ops
<1> QED BY <1>1, <1>3, <1>5, <1>6, <1>7, Deleted DEF Loaded

LEMMA KillInv ==
  ASSUME SessionsInv, NEW r \in Requests, Kill(r)
  PROVE  SessionsInv'
<1> PICK sid : sid = req[r].sid
  OBVIOUS
<1>1. /\ Goto(r, "killKey") /\ req[r].pc = "kill"
      /\ session' = [session EXCEPT ![sid] = NoSession]
      /\ UNCHANGED <<index, ends, answered, writtenBack>>
  BY DEF Kill, At
<1>2. OneMoves(r) /\ req'[r].pc = "killKey" /\ req'[r].left = req[r].left
  BY <1>1, GotoMoves
<1>3. Given(sid)
  BY <1>1 DEF SessionsInv, Knows, Given, At
<1>4. /\ DOMAIN session' = SessionIds /\ session'[sid] = NoSession
      /\ \A s \in SessionIds : session'[s] = IF s = sid THEN NoSession ELSE session[s]
  BY <1>1, <1>3 DEF SessionsInv, AShape, Given, SessionIds
<1>5. \A s \in SessionIds : Revoking(s) => Revoking(s)'
  BY <1>1, <1>2 DEF Revoking, OneMoves
<1>6. \A s \in SessionIds : Revoking(s) => Gone(s)'
  BY <1>5 DEF Gone
<1>7. \A s \in SessionIds : Gone(s) => Gone(s)'
  BY <1>1, <1>4, <1>5 DEF Gone, Past
<1>8. Gone(sid)'
  BY <1>4 DEF Gone
<1>9. Ending(r)'
  <2>1. \A s \in answered'[r] : s \in SessionIds
    BY <1>1 DEF SessionsInv, Knows
  <2> QED BY <1>1, <1>2, <1>7, <1>8, <2>1 DEF Ending, OneMoves, EndPcs, EndOps, SessionsInv
<1> QED BY <1>1, <1>3, <1>4, <1>6, <1>9, Deleted DEF Loaded

LEMMA KillKeyInv ==
  ASSUME SessionsInv, NEW r \in Requests, KillKey(r)
  PROVE  SessionsInv'
<1> PICK sid : sid = req[r].sid
  OBVIOUS
<1>1. /\ Goto(r, "each") /\ req[r].pc = "killKey" /\ index' = index \ {sid}
      /\ UNCHANGED <<session, ends, answered, writtenBack>>
  BY DEF KillKey, At
<1>2. OneMoves(r) /\ req'[r].pc = "each" /\ req'[r].left = req[r].left
  BY <1>1, GotoMoves
<1>3. Erased(sid)
  BY <1>1 DEF SessionsInv, Knows, Erased
<1>4. \A s \in SessionIds : Revoking(s) => Revoking(s)'
  BY <1>1, <1>2 DEF Revoking, OneMoves
<1>5. /\ \A s \in SessionIds : (Revoking(s) => Gone(s)') /\ (Gone(s) => Gone(s)')
      /\ Gone(sid)'
  BY <1>1, <1>3, <1>4 DEF Gone, Past, Erased
<1>6. DOMAIN session' = SessionIds
  BY <1>1 DEF SessionsInv, AShape
<1>7. Ending(r)'
  <2>1. \A s \in answered'[r] : s \in SessionIds
    BY <1>1 DEF SessionsInv, Knows
  <2> QED BY <1>1, <1>2, <1>5, <2>1 DEF Ending, OneMoves, EndPcs, EndOps, SessionsInv
<1> QED BY <1>1, <1>5, <1>6, <1>7, Deleted DEF Loaded

LEMMA GivenIsIndexed ==
  ASSUME SessionsInv, NEW s, Given(s)
  PROVE  s \in SessionIds /\ (Gone(s) \/ s \in index)
BY SessionsAssumption DEF SessionsInv, Given, At, SessionIds

LEMMA FindKeysInv ==
  ASSUME SessionsInv, NEW r \in Requests, FindKeys(r)
  PROVE  SessionsInv'
<1>1. /\ OneMoves(r) /\ UNCHANGED store /\ req[r].pc = "findKeys" /\ req'[r].pc = "each"
      /\ req'[r].left = index /\ req'[r].then = req[r].then /\ req[r].then \in Continuations
  BY DEF FindKeys, OneMoves, SessionsInv, AShape, AFields, At
<1>2. Knows(r)'
  BY <1>1, KnowsStill DEF Loaded
<1>3. \A s \in answered'[r] : Gone(s)' \/ s \in req'[r].left
  <2>1. \A s \in answered[r] : s \in SessionIds /\ Given(s)
    BY DEF SessionsInv, Knows
  <2>2. Forward
    BY <1>1, StoreStays
  <2> QED BY <1>1, <2>1, <2>2, GivenIsIndexed DEF Forward, store
<1>4. Ending(r)'
  BY <1>1, <1>3 DEF Ending, OneMoves, EndPcs, EndOps
<1> QED BY <1>1, <1>2, <1>4, QuietStep

LEMMA EachKeyMoves ==
  ASSUME SessionsInv, NEW r \in Requests, EachKey(r)
  PROVE  /\ OneMoves(r) /\ UNCHANGED store /\ req[r].pc = "each"
         /\ req'[r].then = req[r].then /\ req[r].then \in Continuations
         /\ req'[r].sid \in req[r].left /\ req'[r].left = req[r].left \ {req'[r].sid}
         /\ req'[r].pc \in {"each", "show", "kill"}
         /\ req'[r].pc = "kill" => req'[r].sid \in index
         /\ req[r].op \in EndOps =>
               (req'[r].pc = "each" /\ req'[r].sid \notin index) \/ req'[r].pc = "kill"
<1> PICK s \in req[r].left :
       /\ At(r, "each")
       /\ req' = [req EXCEPT
              ![r].left = @ \ {s}, ![r].sid = s,
              ![r].pc = CASE s \notin index \/ s \in Spared(r) -> "each"
                          [] req[r].op = "Sessions"            -> "show"
                          [] OTHER                             -> "kill"]
       /\ UNCHANGED store
  BY DEF EachKey
<1> DEFINE y == CASE s \notin index \/ s \in Spared(r) -> "each"
                  [] req[r].op = "Sessions"            -> "show"
                  [] OTHER                             -> "kill"
<1>1. req' = [req EXCEPT ![r].left = req[r].left \ {s}, ![r].sid = s, ![r].pc = y]
  BY DEF SessionsInv, AShape
<1>2. /\ y \in {"each", "show", "kill"} /\ (y = "kill" => s \in index)
      /\ req[r].op \in EndOps => (y = "each" /\ s \notin index) \/ y = "kill"
  BY DEF Spared, EndOps
<1> HIDE DEF y
<1> PICK pc : pc = y
  OBVIOUS
<1>3. /\ OneMoves(r) /\ UNCHANGED store /\ req[r].pc = "each" /\ req'[r].pc = pc
      /\ req'[r].left = req[r].left \ {s} /\ req'[r].sid = s
      /\ req'[r].then = req[r].then /\ req[r].then \in Continuations
  BY <1>1 DEF OneMoves, SessionsInv, AShape, AFields, At
<1> QED BY <1>2, <1>3

LEMMA EachKeyInv ==
  ASSUME SessionsInv, NEW r \in Requests, EachKey(r)
  PROVE  SessionsInv'
<1> PICK s, pc : s = req'[r].sid /\ pc = req'[r].pc
  OBVIOUS
<1>2. /\ pc \in {"each", "show", "kill"} /\ (pc = "kill" => s \in index)
      /\ req[r].op \in EndOps => (pc = "each" /\ s \notin index) \/ pc = "kill"
  BY EachKeyMoves
<1>3. /\ OneMoves(r) /\ UNCHANGED store /\ req[r].pc = "each" /\ req'[r].pc = pc
      /\ req'[r].left = req[r].left \ {s} /\ req'[r].sid = s
      /\ req'[r].then = req[r].then /\ req[r].then \in Continuations
  BY EachKeyMoves
<1>4. Forward
  BY <1>3, StoreStays
<1>5. \A x \in answered[r] : x \in SessionIds /\ Given(x) /\ (Gone(x) => Gone(x)')
                             /\ (Gone(x) \/ x \in index)
  BY <1>4, GivenIsIndexed DEF SessionsInv, Knows, Forward
<1>6. Ending(r)'
  BY <1>2, <1>3, <1>5 DEF Ending, OneMoves, EndPcs, EndOps, SessionsInv, store
<1>7. Knows(r)'
  <2>1. CASE pc # "kill"
    BY <1>2, <1>3, <2>1, KnowsStill DEF Loaded
  <2>2. CASE pc = "kill"
    <3> PICK x : x = req'[r] /\ x.own = req[r].own /\ x.pc = "kill" /\ x.sid = s
      BY <1>3, <2>2 DEF OneMoves
    <3>1. \A q \in answered'[r] : q \in SessionIds /\ Given(q)'
      BY <1>4, <1>5, <1>3 DEF Forward, store
    <3>2. ASSUME x.own \in Requests PROVE At(x.own, "done")'
      BY <3>2, <1>3, <1>4, OwnIsDone, SessionsAssumption DEF Forward, Given, SessionIds
    <3>3. Given(x.sid)'
      BY <1>2, <1>4, <2>2 DEF SessionsInv, Forward, Given, SessionIds
    <3> QED BY <3>1, <3>2, <3>3 DEF Knows
  <2> QED BY <2>1, <2>2
<1> QED BY <1>3, <1>6, <1>7, QuietStep

LEMMA AllSeenInv ==
  ASSUME SessionsInv, NEW r \in Requests, AllSeen(r)
  PROVE  SessionsInv'
<1>1. /\ OneMoves(r) /\ UNCHANGED store /\ req[r].pc = "each" /\ req'[r].pc = "done"
      /\ req[r].left = {} /\ req'[r].then = req[r].then /\ req[r].then \in Continuations
  BY GotoMoves DEF AllSeen, At
<1>2. Forward
  BY <1>1, StoreStays
<1>3. Knows(r)'
  BY <1>1, KnowsStill DEF Loaded
<1>4. Ending(r)'
  <2>1. \A s \in answered[r] : s \in SessionIds /\ Given(s)
    BY DEF SessionsInv, Knows
  <2> QED BY <1>1, <1>2, <2>1
      DEF Ending, OneMoves, EndPcs, EndOps, SessionsInv, Forward, store
<1> QED BY <1>1, <1>3, <1>4, QuietStep

LEMMA TimePassesInv ==
  ASSUME SessionsInv, TimePasses
  PROVE  SessionsInv'
<1> PICK s \in SessionIds : Quiet(s) \/ Expire(s) \/ IndexLapses(s) \/ SessionLapses(s)
  BY DEF TimePasses
<1>1. UNCHANGED <<req, answered, writtenBack>>
  BY DEF Quiet, Expire, IndexLapses, SessionLapses
<1>2. \A x \in SessionIds :
         /\ Past(x) => Past(x)'
         /\ session[x] = NoSession => session'[x] = NoSession
         /\ session'[x] = NoSession \/ /\ DOMAIN session'[x] = DOMAIN session[x]
                                       /\ session'[x].pending = session[x].pending
         /\ x \in index \ index' => Past(x)
  <2>1. CASE Quiet(s)
    <3>1. DOMAIN session[s] = RecordFields
      BY <2>1 DEF Quiet, SessionsInv
    <3> QED BY <2>1, <3>1 DEF Quiet, SessionsInv, AShape, RecordFields, Past
  <2>2. CASE Expire(s)
    BY <2>2 DEF Expire, Past
  <2>3. CASE IndexLapses(s)
    BY <2>3 DEF IndexLapses, Past
  <2>4. CASE SessionLapses(s)
    BY <2>4 DEF SessionLapses, Past, SessionsInv, AShape
  <2> QED BY <2>1, <2>2, <2>3, <2>4
<1>3. index' \subseteq index /\ DOMAIN session' = SessionIds
  BY DEF Quiet, Expire, IndexLapses, SessionLapses, SessionsInv, AShape
<1>4. \A x : Given(x) <=> Given(x)'
  BY <1>1 DEF Given, At
<1>5. \A x \in SessionIds : /\ Gone(x) => Gone(x)'
                            /\ Erased(x) => Erased(x)' 
                            /\ Verified(x) => Verified(x)'
  BY <1>1, <1>2 DEF Gone, Erased, Verified, Revoking
<1>6. Forward
  BY <1>1, <1>4, <1>5 DEF Forward
<1>7. \A r \in Requests : Knows(r)' /\ Ending(r)'
  BY <1>1, <1>6, OthersKnow
<1>8. AShape'
  BY <1>1, <1>3 DEF SessionsInv, AShape
<1>9. \A x \in index' : Given(x)'
  BY <1>3, <1>4 DEF SessionsInv
<1>10. \A x \in SessionIds : session'[x] = NoSession \/ DOMAIN session'[x] = RecordFields
  BY <1>2 DEF SessionsInv
<1>11. \A x \in Requests : session'[x] # NoSession => req'[x].pc \in {"index", "done"}
  BY <1>1, <1>2 DEF SessionsInv, SessionIds
<1>12. \A x \in SessionIds : Gone(x)' \/ x \in index' \/ (x \in Requests /\ At(x, "index")')
  BY <1>1, <1>2, <1>5 DEF SessionsInv, Gone, At
<1> QED BY <1>7, <1>8, <1>9, <1>10, <1>11, <1>12 DEF SessionsInv

LEMMA SessionStepInv ==
  ASSUME SessionsInv, NEW r \in Requests, SessionStep(r)
  PROVE  SessionsInv'
BY SetSessionInv, SetIndexInv, CheckSessionInv, ReadActivityInv, WriteActivityInv,
   ReadPendingInv, WriteVerifiedInv, FindToRevokeInv, ReadToRevokeInv, UnindexInv, EraseInv,
   FindKeysInv, EachKeyInv, ShowInv, KillInv, KillKeyInv, AllSeenInv
DEF SessionStep

-----------------------------------------------------------------------------
(* The steps on the account.                                               *)

\* Handlers that say nothing of sessions move on between states that do not either.
LEMMA GotoCalm ==
  ASSUME SessionsInv, NEW r \in Requests, UNCHANGED store,
         req[r].pc \notin Elsewhere \cup {"index"}, NEW pc, pc \notin Loaded, Goto(r, pc)
  PROVE  SessionsInv'
<1>1. /\ OneMoves(r) /\ req'[r].pc = pc
      /\ req'[r].then = req[r].then /\ req[r].then \in Continuations
  BY GotoMoves
<1> QED BY <1>1, EndsNothing, CalmStep DEF Elsewhere

LEMMA RowCalm ==
  ASSUME SessionsInv, NEW r \in Requests, UNCHANGED store,
         req[r].pc \notin Elsewhere \cup {"index"}, NEW pc, pc \notin Loaded, NEW row,
         req' = [req EXCEPT ![r].pc = pc, ![r].row = row]
  PROVE  SessionsInv'
<1>1. /\ OneMoves(r) /\ req'[r].pc = pc
      /\ req'[r].then = req[r].then /\ req[r].then \in Continuations
  BY DEF OneMoves, SessionsInv, AShape, AFields
<1> QED BY <1>1, EndsNothing, CalmStep DEF Elsewhere

LEMMA GotCalm ==
  ASSUME SessionsInv, NEW r \in Requests, UNCHANGED store, NEW kind, NEW answer,
         req[r].pc \notin Elsewhere \cup {"index"}, req' = Got(r, kind, answer)
  PROVE  SessionsInv'
<1>1. AfterAnswer(r, kind, answer) \in {"create", "askFactor", "PasskeyBegin", "done"}
  BY DEF AfterAnswer
<1> PICK pc, hasPasskey, pending :
       /\ pc = AfterAnswer(r, kind, answer)
       /\ req' = [req EXCEPT ![r].hasPasskey = hasPasskey, ![r].pending = pending, ![r].pc = pc]
  BY DEF Got
<1>2. /\ OneMoves(r) /\ req'[r].pc = pc
      /\ req'[r].then = req[r].then /\ req[r].then \in Continuations
  BY DEF OneMoves, SessionsInv, AShape, AFields
<1> QED BY <1>1, <1>2, EndsNothing, CalmStep DEF Elsewhere, Loaded

LEMMA CachedAnswersCalm ==
  ASSUME SessionsInv, NEW r \in Requests,
         (\E kind \in {"factor", "passkey"} : Ask(r, kind)) \/ Look(r) \/ Fill(r) \/ DropCached(r)
  PROVE  SessionsInv'
<1>1. ASSUME NEW kind \in {"factor", "passkey"}, Ask(r, kind) PROVE SessionsInv'
  <2>1. req[r].pc \notin Elsewhere \cup {"index"} /\ UNCHANGED store
    BY <1>1 DEF Ask, AskPc, At, Stays, Elsewhere
  <2>2. CASE req' = Got(r, kind, cached[kind])
    BY <2>1, <2>2, GotCalm
  <2>3. CASE req' = [req EXCEPT ![r].pc = "look", ![r].row = kind]
    BY <2>1, <2>3, RowCalm DEF Loaded
  <2> QED BY <1>1, <2>2, <2>3 DEF Ask
<1>2. ASSUME Look(r) PROVE SessionsInv'
  <2> PICK row : req' = [req EXCEPT ![r].pc = "fill", ![r].row = row]
    BY <1>2 DEF Look
  <2> QED BY <1>2, RowCalm DEF Look, At, Stays, Elsewhere, Loaded
<1>3. ASSUME Fill(r) PROVE SessionsInv'
  <2> PICK kind, answer : req' = Got(r, kind, answer)
    BY <1>3 DEF Fill
  <2> QED BY <1>3, GotCalm DEF Fill, At, Elsewhere
<1>4. ASSUME DropCached(r) PROVE SessionsInv'
  BY <1>4, GotoCalm DEF DropCached, At, Elsewhere, Loaded
<1> QED BY <1>1, <1>2, <1>3, <1>4

LEMMA PasswordsCalm ==
  ASSUME SessionsInv, NEW r \in Requests,
         \/ LoginFind(r) \/ LoginStamp(r) \/ LoginCheck(r) \/ Register(r) \/ CreateUser(r)
         \/ ChangePassword(r) \/ EditUser(r) \/ DeleteUser(r)
  PROVE  SessionsInv'
<1> USE DEF At, Stays, Elsewhere, Loaded
<1>1. ASSUME LoginFind(r) PROVE SessionsInv'
  <2>1. CASE Goto(r, "refused")
    BY <1>1, <2>1, GotoCalm DEF LoginFind
  <2>2. CASE req' = [req EXCEPT ![r].pc = "stamp", ![r].row = user.status]
    BY <1>1, <2>2, RowCalm DEF LoginFind
  <2> QED BY <1>1, <2>1, <2>2 DEF LoginFind
<1>2. ASSUME LoginStamp(r) PROVE SessionsInv'
  BY <1>2, GotoCalm DEF LoginStamp
<1>3. ASSUME LoginCheck(r) PROVE SessionsInv'
  <2> PICK pc \in {"askPasskey", "done", "refused"} : Goto(r, pc)
    BY <1>3 DEF LoginCheck, Answer
  <2> QED BY <1>3, GotoCalm DEF LoginCheck, Answer
<1>4. ASSUME Register(r) PROVE SessionsInv'
  <2> PICK pc \in {"create", "refused"} : Goto(r, pc)
    BY <1>4 DEF Register, AddUser
  <2> QED BY <1>4, GotoCalm DEF Register, AddUser
<1>5. ASSUME CreateUser(r) PROVE SessionsInv'
  <2> PICK pc \in {"done", "refused"} : Goto(r, pc)
    BY <1>5 DEF CreateUser, AddUser
  <2> QED BY <1>5, GotoCalm DEF CreateUser, AddUser
<1>6. ASSUME ChangePassword(r) PROVE SessionsInv'
  <2> PICK pc \in {"setPassword", "refused"} : Goto(r, pc)
    BY <1>6 DEF ChangePassword, Answer
  <2> QED BY <1>6, GotoCalm DEF ChangePassword, Answer
<1>7. ASSUME EditUser(r) \/ DeleteUser(r) PROVE SessionsInv'
  <2> PICK pc \in {"done", "refused"} : Goto(r, pc)
    BY <1>7 DEF EditUser, DeleteUser
  <2> QED BY <1>7, GotoCalm DEF EditUser, DeleteUser
<1> QED BY <1>1, <1>2, <1>3, <1>4, <1>5, <1>6, <1>7

\* A password reset goes on to end all sessions.
LEMMA ResetPasswordInv ==
  ASSUME SessionsInv, NEW r \in Requests, ResetPassword(r)
  PROVE  SessionsInv'
<1> PICK pc \in {"setPassword", "refused"} : Goto(r, pc)
  BY DEF ResetPassword, Answer
<1>1. /\ OneMoves(r) /\ req'[r].pc = pc /\ req[r].pc = "ResetPassword" /\ UNCHANGED store
      /\ req'[r].then = req[r].then /\ req[r].then \in Continuations
  BY GotoMoves DEF ResetPassword, Answer, At, Stays
<1>2. Knows(r)'
  BY <1>1, KnowsStill DEF Loaded
<1>3. Ending(r)'
  BY <1>1 DEF Ending, OneMoves, EndPcs, EndOps, SessionsInv
<1> QED BY <1>1, <1>2, <1>3, QuietStep

LEMMA SetPasswordInv ==
  ASSUME SessionsInv, NEW r \in Requests, SetPassword(r)
  PROVE  SessionsInv'
<1> PICK pc : pc = (IF req[r].op = "ResetPassword" THEN "findKeys" ELSE "done") /\ Goto(r, pc)
  BY DEF SetPassword
<1>1. /\ OneMoves(r) /\ req'[r].pc = pc /\ req[r].pc = "setPassword" /\ UNCHANGED store
      /\ req'[r].then = req[r].then /\ req[r].then \in Continuations
  BY GotoMoves DEF SetPassword, At
<1>2. Knows(r)'
  BY <1>1, KnowsStill DEF Loaded
<1>3. Ending(r)'
  BY <1>1 DEF Ending, OneMoves, EndPcs, EndOps, SessionsInv
<1> QED BY <1>1, <1>2, <1>3, QuietStep

LEMMA FactorCalm ==
  ASSUME SessionsInv, NEW r \in Requests,
         \/ SetupTotp(r) \/ FindFactor(r) \/ SaveSecret(r) \/ EnableTotp(r) \/ SaveEnabled(r)
         \/ VerifyCode(r) \/ SpendCode(r) \/ DeleteFactor(r) \/ NewCodes(r) \/ SaveCodes(r)
  PROVE  SessionsInv'
<1> USE DEF At, Stays, Elsewhere, Loaded
<1>1. ASSUME SetupTotp(r) PROVE SessionsInv'
  <2> PICK pc \in {"findFactor", "refused"} : Goto(r, pc)
    BY <1>1 DEF SetupTotp, Answer
  <2> QED BY <1>1, GotoCalm DEF SetupTotp, Answer
<1>2. ASSUME FindFactor(r) PROVE SessionsInv'
  <2> PICK row : req' = [req EXCEPT ![r].pc = "saveSecret", ![r].row = row]
    BY <1>2 DEF FindFactor
  <2>1. req[r].pc = "findFactor" /\ UNCHANGED store
    BY <1>2 DEF FindFactor
  <2> QED BY <2>1, RowCalm
<1>3. ASSUME SaveSecret(r) \/ SaveEnabled(r) \/ SaveCodes(r) PROVE SessionsInv'
  <2> PICK pc, row :
         /\ pc \in {"done", "drop"}
         /\ req' = [req EXCEPT ![r].pc = pc, ![r].row = row]
    BY <1>3 DEF SaveSecret, SaveEnabled, SaveCodes, SaveRow
  <2> QED BY <1>3, RowCalm DEF SaveSecret, SaveEnabled, SaveCodes, SaveRow
<1>4. ASSUME EnableTotp(r) PROVE SessionsInv'
  <2>1. CASE Goto(r, "refused")
    BY <1>4, <2>1, GotoCalm DEF EnableTotp
  <2>2. CASE \E row : req' = [req EXCEPT ![r].pc = "enable", ![r].row = row]
    BY <1>4, <2>2, RowCalm DEF EnableTotp
  <2> QED BY <1>4, <2>1, <2>2 DEF EnableTotp
<1>5. ASSUME VerifyCode(r) PROVE SessionsInv'
  <2> DEFINE y == CASE factor # None /\ Accepts(r, factor) -> "spend"
                    [] req[r].op = "Verify2FA"             -> "count"
                    [] OTHER                               -> "refused"
  <2>1. y \in {"spend", "count", "refused"}
    OBVIOUS
  <2>2. req' = [req EXCEPT ![r].row = factor, ![r].pc = y]
    BY <1>5 DEF VerifyCode
  <2> HIDE DEF y
  <2> PICK pc : pc = y
    OBVIOUS
  <2>3. req' = [req EXCEPT ![r].pc = pc, ![r].row = factor]
    BY <2>2 DEF SessionsInv, AShape, AFields
  <2>4. req[r].pc \in {"code", "DisableTotp", "Regenerate"} /\ UNCHANGED store
    BY <1>5 DEF VerifyCode
  <2> QED BY <2>1, <2>3, <2>4, RowCalm
<1>6. ASSUME SpendCode(r) PROVE SessionsInv'
  <2> PICK pc : pc = AfterGood(r) /\ Goto(r, pc)
    BY <1>6 DEF SpendCode
  <2>1. pc \in {"clear", "deleteFactor", "newCodes"}
    BY DEF AfterGood
  <2> QED BY <1>6, <2>1, GotoCalm DEF SpendCode
<1>7. ASSUME DeleteFactor(r) PROVE SessionsInv'
  BY <1>7, RowCalm DEF DeleteFactor
<1>8. ASSUME NewCodes(r) PROVE SessionsInv'
  <2>1. CASE Goto(r, "refused")
    BY <1>8, <2>1, GotoCalm DEF NewCodes
  <2>2. CASE \E row : req' = [req EXCEPT ![r].pc = "saveCodes", ![r].row = row]
    BY <1>8, <2>2, RowCalm DEF NewCodes
  <2> QED BY <1>8, <2>1, <2>2 DEF NewCodes
<1> QED BY <1>1, <1>2, <1>3, <1>4, <1>5, <1>6, <1>7, <1>8

LEMMA AttemptsCalm ==
  ASSUME SessionsInv, NEW r \in Requests,
         Verify2FA(r) \/ CheckAttempts(r) \/ CountAttempt(r) \/ ClearAttempts(r)
  PROVE  SessionsInv'
<1>1. ASSUME Verify2FA(r) PROVE SessionsInv'
  <2> PICK found : found = (IF Awaits(r) THEN "attempts" ELSE "refused")
    OBVIOUS
  <2> QED BY <1>1, Verify2FASessions DEF Verify2FA
<1>2. ASSUME CheckAttempts(r) PROVE SessionsInv'
  <2> PICK pc, tries :
         /\ pc = (IF attempts[req[r].own] >= MaxAttempts THEN "revoke" ELSE "code")
         /\ tries = attempts[req[r].own]
         /\ req' = [req EXCEPT ![r].tries = tries, ![r].then = "refused", ![r].pc = pc]
    BY <1>2 DEF CheckAttempts
  <2>1. OneMoves(r) /\ req'[r].pc = pc /\ req'[r].then = "refused"
    BY DEF OneMoves, SessionsInv, AShape, AFields
  <2> QED BY <1>2, <2>1, EndsNothing, CalmStep
          DEF CheckAttempts, At, Stays, Elsewhere, Loaded, Continuations
<1>3. ASSUME CountAttempt(r) \/ ClearAttempts(r) PROVE SessionsInv'
  BY <1>3, GotoCalm DEF CountAttempt, ClearAttempts, SetAttempts, At, Elsewhere, Loaded
<1> QED BY <1>1, <1>2, <1>3

LEMMA PasskeysCalm ==
  ASSUME SessionsInv, NEW r \in Requests,
         \/ BeginRegistration(r) \/ FinishRegistration(r) \/ SavePasskey(r)
         \/ ClearRegistration(r) \/ PasskeyBegin(r) \/ SetLoginChallenge(r) \/ PasskeyFinish(r)
         \/ FindPasskey(r) \/ SetCounter(r) \/ ClearLogin(r) \/ DeletePasskey(r)
  PROVE  SessionsInv'
<1> USE DEF At, Stays, Elsewhere, Loaded
<1>1. ASSUME BeginRegistration(r) \/ SetLoginChallenge(r) \/ ClearRegistration(r)
             \/ ClearLogin(r)
      PROVE  SessionsInv'
  <2> PICK pc \in {"done", "drop", "create"} :
         req' = [req EXCEPT ![r].pc = pc, ![r].row = "passkey"]
    BY <1>1
    DEF BeginRegistration, SetLoginChallenge, ClearRegistration, ClearLogin, SetChallenge
  <2>1. /\ req[r].pc \in {"RegisterBegin", "setLogin", "clearRegistration", "clearLogin"}
        /\ UNCHANGED store
    BY <1>1
    DEF BeginRegistration, SetLoginChallenge, ClearRegistration, ClearLogin, SetChallenge
  <2> QED BY <2>1, RowCalm
<1>2. ASSUME FinishRegistration(r) PROVE SessionsInv'
  <2> PICK pc \in {"savePasskey", "refused"} : Goto(r, pc)
    BY <1>2 DEF FinishRegistration, Answer
  <2> QED BY <1>2, GotoCalm DEF FinishRegistration, Answer
<1>3. ASSUME SavePasskey(r) \/ DeletePasskey(r) PROVE SessionsInv'
  BY <1>3, RowCalm DEF SavePasskey, DeletePasskey
<1>4. ASSUME PasskeyBegin(r) PROVE SessionsInv'
  <2> PICK pc \in {"setLogin", "done", "refused"} : Goto(r, pc)
    BY <1>4 DEF PasskeyBegin
  <2> QED BY <1>4, GotoCalm DEF PasskeyBegin
<1>5. ASSUME PasskeyFinish(r) PROVE SessionsInv'
  <2>1. CASE Goto(r, "refused")
    BY <1>5, <2>1, GotoCalm DEF PasskeyFinish
  <2>2. CASE \E row : req' = [req EXCEPT ![r].pc = "findPasskey", ![r].row = row]
    BY <1>5, <2>2, RowCalm DEF PasskeyFinish
  <2> QED BY <1>5, <2>1, <2>2 DEF PasskeyFinish
<1>6. ASSUME FindPasskey(r) PROVE SessionsInv'
  <2> PICK pc \in {"setCounter", "refused"} : Goto(r, pc)
    BY <1>6 DEF FindPasskey, Answer
  <2> QED BY <1>6, GotoCalm DEF FindPasskey, Answer
<1>7. ASSUME SetCounter(r) PROVE SessionsInv'
  BY <1>7, GotoCalm DEF SetCounter
<1> QED BY <1>1, <1>2, <1>3, <1>4, <1>5, <1>6, <1>7

LEMMA SessionsKept ==
  ASSUME SessionsInv, [AccountNext]_accountVars
  PROVE  SessionsInv'
<1>1. ASSUME NEW r \in Requests, AccountStep(r) PROVE SessionsInv'
  BY <1>1, StartInv, SessionStepInv, CachedAnswersCalm, PasswordsCalm, ResetPasswordInv,
     SetPasswordInv, FactorCalm, AttemptsCalm, PasskeysCalm
  DEF AccountStep, Start
<1>2. ASSUME UNCHANGED sessionVars PROVE SessionsInv'
  BY <1>2 DEF sessionVars, SessionsInv, AShape, Knows, Ending, Given, Gone, Erased, Verified,
     Revoking, Past, At
<1>3. ASSUME Lapses PROVE SessionsInv'
  <2>1. CASE TimePasses
    BY <2>1, TimePassesInv
  <2>2. CASE UNCHANGED sessionVars
    BY <2>2, <1>2
  <2> QED BY <1>3, <2>1, <2>2
          DEF Lapses, CacheLapses, ChallengeLapses, AttemptsLapse, sessionVars, store
<1> QED BY <1>1, <1>2, <1>3 DEF AccountNext, accountVars

LEMMA SessionsAlways == AccountSpec => []SessionsInv
<1>1. AccountInit => SessionsInv
  BY SessionsInitInv
<1>2. SessionsInv /\ [AccountNext]_accountVars => SessionsInv'
  BY SessionsKept
<1> QED BY <1>1, <1>2, PTL DEF AccountSpec

(* When "log out everywhere" or a password reset is answered, every session *)
(* given before it came in is gone, revoked by somebody else right now, or  *)
(* was written back from a copy (session.service.ts:130, 144, 167-182).     *)
THEOREM LogoutEverywhereLeavesNone == AccountSpec => []LogoutAllLeavesNone
<1>1. SessionsInv => LogoutAllLeavesNone
  BY DEF SessionsInv, Ending, LogoutAllLeavesNone, EndsAll, EndOps, Gone, At
<1> QED BY <1>1, SessionsAlways, PTL

\* What VerifiedStaysVerified says of a step.
Verification ==
    \A s \in SessionIds :
       session[s] # NoSession /\ ~session[s].pending /\ session'[s] # NoSession
         => ~session'[s].pending

LEMMA SessionStepVerification ==
  ASSUME SessionsInv, NEW r \in Requests, SessionStep(r)
  PROVE  Verification
<1>1. CASE UNCHANGED session
  BY <1>1 DEF Verification
<1>2. ASSUME SetSession(r) PROVE Verification
  <2>1. session[r] = NoSession
    BY <1>2 DEF SetSession, SessionsInv, At
  <2> QED BY <1>2, <2>1 DEF Verification, SetSession, SessionsInv, AShape
<1>3. ASSUME Erase(r) \/ Kill(r) PROVE Verification
  BY <1>3 DEF Verification, Erase, Kill, SessionsInv, AShape
<1>4. ASSUME WriteActivity(r) PROVE Verification
  <2> PICK own : own = req[r].own
    OBVIOUS
  <2>1. /\ own \in SessionIds => DOMAIN req[r].saw = RecordFields /\ ~req[r].saw.pending
        /\ session' = [session EXCEPT ![own] = [req[r].saw EXCEPT !.recent = TRUE]]
    BY <1>4 DEF WriteActivity, PutBack, At, SessionsInv, Knows
  <2> QED BY <2>1 DEF Verification, SessionsInv, AShape, RecordFields
<1>5. ASSUME WriteVerified(r) PROVE Verification
  <2> PICK own : own = req[r].own
    OBVIOUS
  <2>1. /\ own \in SessionIds => DOMAIN req[r].saw = RecordFields
        /\ session' = [session EXCEPT ![own] = [req[r].saw EXCEPT !.pending = FALSE]]
    BY <1>5 DEF WriteVerified, PutBack, At, SessionsInv, Knows
  <2> QED BY <2>1 DEF Verification, SessionsInv, AShape, RecordFields
<1>6. \/ UNCHANGED session \/ SetSession(r) \/ WriteActivity(r) \/ WriteVerified(r)
      \/ Erase(r) \/ Kill(r)
  BY DEF SessionStep, SetIndex, CheckSession, ReadActivity, ReadPending, FindToRevoke,
     ReadToRevoke, Unindex, FindKeys, EachKey, Show, KillKey, AllSeen, GetSession, store
<1> QED BY <1>1, <1>2, <1>3, <1>4, <1>5, <1>6

LEMMA SessionsUntouched ==
  ASSUME NEW r \in Requests, AccountStep(r)
  PROVE  SessionStep(r) \/ UNCHANGED session
<1> USE DEF Stays, store
<1>1. CASE (\E kind \in {"factor", "passkey"} : Ask(r, kind)) \/ Look(r) \/ Fill(r)
           \/ DropCached(r) \/ Start(r)
  BY <1>1 DEF Ask, Look, Fill, DropCached, Start, Begin
<1>2. CASE \/ LoginFind(r) \/ LoginStamp(r) \/ LoginCheck(r) \/ Register(r) \/ CreateUser(r)
           \/ ResetPassword(r) \/ ChangePassword(r) \/ SetPassword(r) \/ EditUser(r)
           \/ DeleteUser(r)
  BY <1>2 DEF LoginFind, LoginStamp, LoginCheck, Register, CreateUser, AddUser, ResetPassword,
     ChangePassword, SetPassword, EditUser, DeleteUser, Answer
<1>3. CASE \/ SetupTotp(r) \/ FindFactor(r) \/ SaveSecret(r) \/ EnableTotp(r)
           \/ SaveEnabled(r) \/ VerifyCode(r) \/ SpendCode(r) \/ DeleteFactor(r)
           \/ NewCodes(r) \/ SaveCodes(r)
  BY <1>3 DEF SetupTotp, FindFactor, SaveSecret, EnableTotp, SaveEnabled, VerifyCode,
     SpendCode, DeleteFactor, NewCodes, SaveCodes, SaveRow, Answer
<1>4. CASE Verify2FA(r) \/ CheckAttempts(r) \/ CountAttempt(r) \/ ClearAttempts(r)
  BY <1>4 DEF Verify2FA, GetSession, CheckAttempts, CountAttempt, ClearAttempts, SetAttempts
<1>5. CASE \/ BeginRegistration(r) \/ FinishRegistration(r) \/ SavePasskey(r)
           \/ ClearRegistration(r) \/ PasskeyBegin(r) \/ SetLoginChallenge(r)
           \/ PasskeyFinish(r) \/ FindPasskey(r) \/ SetCounter(r) \/ ClearLogin(r)
           \/ DeletePasskey(r)
  BY <1>5 DEF BeginRegistration, FinishRegistration, SavePasskey, ClearRegistration,
     PasskeyBegin, SetLoginChallenge, PasskeyFinish, FindPasskey, SetCounter, ClearLogin,
     DeletePasskey, SetChallenge, Answer
<1> QED BY <1>1, <1>2, <1>3, <1>4, <1>5 DEF AccountStep

(* No request takes the second factor back from a session that has passed   *)
(* it, although both writers put back the whole record they have read       *)
(* (session.service.ts:117-151).                                            *)
THEOREM VerificationIsKept == AccountSpec => VerifiedStaysVerified
<1>1. SessionsInv /\ [AccountNext]_accountVars => [Verification]_sessionVars
  <2> SUFFICES ASSUME SessionsInv, [AccountNext]_accountVars PROVE [Verification]_sessionVars
    OBVIOUS
  <2>1. ASSUME NEW r \in Requests, AccountStep(r) PROVE Verification
    <3>1. CASE UNCHANGED session
      BY <3>1 DEF Verification
    <3> QED BY <2>1, <3>1, SessionStepVerification, SessionsUntouched
  <2>2. ASSUME Lapses PROVE Verification
    <3>1. CASE UNCHANGED session
      BY <3>1 DEF Verification
    <3>2. CASE TimePasses
      <4> PICK s \in SessionIds :
             Quiet(s) \/ Expire(s) \/ IndexLapses(s) \/ SessionLapses(s)
        BY <3>2 DEF TimePasses
      <4>1. CASE Quiet(s)
        <5>1. DOMAIN session[s] = RecordFields
          BY <4>1 DEF Quiet, SessionsInv
        <5> QED BY <4>1, <5>1 DEF Quiet, Verification, RecordFields, SessionsInv, AShape
      <4>2. CASE SessionLapses(s)
        BY <4>2 DEF SessionLapses, Verification, SessionsInv, AShape
      <4> QED BY <3>1, <4>1, <4>2 DEF Expire, IndexLapses
    <3> QED BY <2>2, <3>1, <3>2 DEF Lapses, CacheLapses, ChallengeLapses, AttemptsLapse, store
  <2>3. CASE UNCHANGED accountVars
    BY <2>3 DEF accountVars
  <2> QED BY <2>1, <2>2, <2>3 DEF AccountNext
<1>2. SessionsInv /\ [AccountNext]_accountVars
        => [\A s \in SessionIds :
               session[s] # NoSession /\ ~session[s].pending /\ session'[s] # NoSession
                 => ~session'[s].pending]_sessionVars
  BY <1>1 DEF Verification
<1> QED BY <1>2, SessionsAlways, PTL DEF AccountSpec, VerifiedStaysVerified

-----------------------------------------------------------------------------
(* The cached answers.                                                     *)

CachedKinds == {"factor", "passkey"}

\* What a request holds that it is about to save, to cache or to drop.
Holds(q) ==
    /\ q.pc = "look" => q.row \in CachedKinds
    /\ q.pc = "fill" => q.row.kind \in CachedKinds
    /\ q.pc = "clearRegistration" => q.row = "passkey"
    /\ q.pc \in {"saveSecret", "enable", "saveCodes", "spend"} => q.row \in FactorRows

Holding == {"look", "fill", "clearRegistration", "saveSecret", "enable", "saveCodes", "spend"}

Invalidating == {"drop", "clearRegistration"}

Flags == <<factor, passkeys, cached, raced>>

FlagsInv ==
    /\ factor \in FactorRows \cup {None}
    /\ DOMAIN cached = CachedKinds
    /\ \A r \in Requests : Holds(req[r])
    /\ FlagStaleOnlyIfRaced

LEMMA FlagsInitInv == ASSUME AccountInit PROVE FlagsInv
<1> PICK w \in AccountWorkloads :
       /\ SessionsInit(w.jobs, w.ending) /\ factor = w.factor
       /\ cached = [factor |-> None, passkey |-> None]
  BY DEF AccountInit
<1>1. \A r \in Requests : req[r].pc = "new"
  BY DEF SessionsInit, NewRequest
<1> QED BY <1>1, AccountAssumption DEF FlagsInv, Holds, FlagStaleOnlyIfRaced, CachedKinds

\* Neither an answer nor what it is about changes.
LEMMA FlagsSettled ==
  ASSUME SessionsInv, FlagsInv, NEW r \in Requests, OneMoves(r), UNCHANGED Flags,
         req[r].pc \notin Invalidating, Holds(req'[r])
  PROVE  FlagsInv'
<1>1. \A q \in Requests : Holds(req'[q])
  BY DEF FlagsInv, OneMoves
<1>2. \A kind \in CachedKinds : Truth(kind)' = Truth(kind)
  BY DEF Truth, Flags
<1>3. FlagStaleOnlyIfRaced'
  <2>1. ASSUME NEW kind \in CachedKinds
        PROVE  \/ cached'[kind] \in {None, Truth(kind)'} \/ kind \in raced'
               \/ \E q \in Requests : req'[q].pc \in Invalidating /\ req'[q].row = kind
    <3>1. \A q \in Requests : req[q].pc \in Invalidating => req'[q] = req[q]
      BY DEF OneMoves
    <3> QED BY <1>2, <3>1 DEF FlagsInv, FlagStaleOnlyIfRaced, Flags, CachedKinds, Invalidating
  <2> QED BY <2>1 DEF FlagStaleOnlyIfRaced, CachedKinds, Invalidating
<1>4. \A q \in Requests : Holds(req[q])'
  BY <1>1 DEF Holds
<1> QED BY <1>3, <1>4 DEF FlagsInv, Flags

LEMMA GotoSettled ==
  ASSUME SessionsInv, FlagsInv, NEW r \in Requests, UNCHANGED Flags, req[r].pc \notin Invalidating,
         NEW pc, pc \notin Holding, Goto(r, pc)
  PROVE  FlagsInv'
<1>1. OneMoves(r) /\ req'[r].pc = pc
  BY GotoMoves
<1> QED BY <1>1, FlagsSettled DEF Holds, Holding

LEMMA RowSettled ==
  ASSUME SessionsInv, FlagsInv, NEW r \in Requests, UNCHANGED Flags, req[r].pc \notin Invalidating,
         NEW pc, NEW row, req' = [req EXCEPT ![r].pc = pc, ![r].row = row],
         pc = "look" => row \in CachedKinds,
         pc = "fill" => row.kind \in CachedKinds,
         pc = "clearRegistration" => row = "passkey",
         pc \in {"saveSecret", "enable", "saveCodes", "spend"} => row \in FactorRows
  PROVE  FlagsInv'
<1>1. OneMoves(r) /\ req'[r].pc = pc /\ req'[r].row = row
  BY DEF OneMoves, SessionsInv, AShape, AFields
<1> QED BY <1>1, FlagsSettled DEF Holds

LEMMA GetSessionSettled ==
  ASSUME SessionsInv, FlagsInv, NEW r \in Requests, UNCHANGED Flags,
         NEW s, NEW pc, NEW found, NEW none, GetSession(r, s, pc, found, none),
         pc \notin Invalidating, found \notin Holding, none \notin Holding
  PROVE  FlagsInv'
<1>1. OneMoves(r) /\ req[r].pc = pc /\ req'[r].pc \in {none, "revoke", found}
  BY GetSessionMoves
<1> QED BY <1>1, FlagsSettled DEF Holds, Holding

LEMMA SessionStepFlags ==
  ASSUME SessionsInv, FlagsInv, NEW r \in Requests, UNCHANGED Flags, SessionStep(r)
  PROVE  FlagsInv'
<1> USE DEF At, Invalidating, Holding
<1> PICK h : h = Handler(r)
  OBVIOUS
<1>1. h \notin Holding
  BY HandlerIs DEF Ops
<1>2. req[r].then \notin Holding
  BY OperationsAre DEF SessionsInv, AShape, Continuations, Ops
<1>3. CASE SetSession(r) \/ SetIndex(r) \/ WriteVerified(r) \/ Unindex(r)
           \/ Kill(r) \/ KillKey(r) \/ AllSeen(r)
  BY <1>3, GotoSettled DEF SetSession, SetIndex, WriteVerified, PutBack, Unindex, Kill, KillKey,
     AllSeen
<1>4. CASE WriteActivity(r)
  BY <1>1, <1>4, GotoSettled DEF WriteActivity, PutBack
<1>5. CASE Erase(r)
  BY <1>2, <1>5, GotoSettled DEF Erase
<1>6. CASE CheckSession(r)
  <2> PICK found \in {"refused", "touch"} :
        GetSession(r, req[r].own, "guard", found, "refused")
    BY <1>6 DEF CheckSession
  <2> QED BY GetSessionSettled
<1>7. CASE ReadActivity(r)
  <2> PICK found \in {h, "write"} : GetSession(r, req[r].own, "touch", found, h)
    BY <1>7 DEF ReadActivity
  <2> QED BY <1>1, GetSessionSettled
<1>8. CASE ReadPending(r) \/ FindToRevoke(r) \/ Show(r)
  BY <1>8, GetSessionSettled DEF ReadPending, FindToRevoke, Show
<1>9. CASE ReadToRevoke(r)
  BY <1>9, ReadToRevokeMoves, FlagsSettled DEF Holds
<1>10. CASE FindKeys(r)
  <2>1. OneMoves(r) /\ req'[r].pc = "each"
    BY <1>10 DEF FindKeys, OneMoves, SessionsInv, AShape, AFields
  <2> QED BY <1>10, <2>1, FlagsSettled DEF FindKeys, Holds
<1>11. CASE EachKey(r)
  BY <1>11, EachKeyMoves, FlagsSettled DEF Holds
<1> QED BY <1>3, <1>4, <1>5, <1>6, <1>7, <1>8, <1>9, <1>10, <1>11 DEF SessionStep

\* A cached answer is put, or deleted: the answers of the other kind stay.
LEMMA CachedAnswerFlags ==
  ASSUME SessionsInv, FlagsInv, NEW r \in Requests, Look(r) \/ Fill(r) \/ DropCached(r)
  PROVE  FlagsInv'
<1> USE DEF At, Invalidating, Holding
<1>1. CASE Look(r)
  <2> PICK row : /\ row = [kind |-> req[r].row, answer |-> Truth(req[r].row)]
                 /\ req' = [req EXCEPT ![r].pc = "fill", ![r].row = row]
    BY <1>1 DEF Look
  <2>1. req[r].pc = "look" /\ row.kind \in CachedKinds /\ UNCHANGED Flags
    BY <1>1 DEF Look, FlagsInv, Holds, Stays, Flags, Redis
  <2> QED BY <2>1, RowSettled
<1>2. CASE Fill(r)
  <2> PICK kind, answer, pc, hasPasskey, pending :
         /\ kind = req[r].row.kind /\ answer = req[r].row.answer
         /\ pc = AfterAnswer(r, kind, answer)
         /\ req' = [req EXCEPT ![r].hasPasskey = hasPasskey, ![r].pending = pending,
                               ![r].pc = pc]
    BY <1>2 DEF Fill, Got
  <2>1. pc \in {"create", "askFactor", "PasskeyBegin", "done"}
    BY DEF AfterAnswer
  <2>8. req[r].pc = "fill" /\ kind \in CachedKinds
    BY <1>2 DEF Fill, FlagsInv, Holds
  <2>9. OneMoves(r) /\ req'[r].pc = pc
    BY DEF OneMoves, SessionsInv, AShape, AFields
  <2>2. OneMoves(r) /\ req'[r].pc = pc /\ req[r].pc = "fill" /\ kind \in CachedKinds
    BY <2>8, <2>9
  <2>3. /\ cached' = [cached EXCEPT ![kind] = answer] /\ UNCHANGED <<factor, passkeys>>
        /\ raced' = IF answer = Truth(kind) THEN raced \ {kind} ELSE raced \cup {kind}
    BY <1>2 DEF Fill
  <2>4. \A x \in CachedKinds : Truth(x)' = Truth(x)
    BY <2>3 DEF Truth
  <2>5. ASSUME NEW x \in CachedKinds
        PROVE  \/ cached'[x] \in {None, Truth(x)'} \/ x \in raced'
               \/ \E q \in Requests : req'[q].pc \in Invalidating /\ req'[q].row = x
    <3>1. \A q \in Requests : req[q].pc \in Invalidating => req'[q] = req[q]
      BY <2>2 DEF OneMoves
    <3> QED BY <2>3, <2>4, <3>1 DEF FlagsInv, FlagStaleOnlyIfRaced, CachedKinds
  <2>6. \A q \in Requests : Holds(req[q])'
    BY <2>1, <2>2 DEF FlagsInv, Holds, OneMoves
  <2>7. FlagStaleOnlyIfRaced'
    BY <2>5 DEF FlagStaleOnlyIfRaced, CachedKinds
  <2> QED BY <2>3, <2>6, <2>7 DEF FlagsInv
<1>3. CASE DropCached(r)
  <2> PICK kind : kind = req[r].row
    OBVIOUS
  <2>1. /\ cached' = [cached EXCEPT ![kind] = None] /\ raced' = raced \ {kind}
        /\ UNCHANGED <<factor, passkeys>> /\ Goto(r, "done")
    BY <1>3 DEF DropCached
  <2>2. OneMoves(r) /\ req'[r].pc = "done" /\ req[r].pc = "drop"
    BY <1>3, <2>1, GotoMoves DEF DropCached
  <2>3. \A x \in CachedKinds : Truth(x)' = Truth(x)
    BY <2>1 DEF Truth
  <2>4. ASSUME NEW x \in CachedKinds
        PROVE  \/ cached'[x] \in {None, Truth(x)'} \/ x \in raced'
               \/ \E q \in Requests : req'[q].pc \in Invalidating /\ req'[q].row = x
    <3>1. \A q \in Requests : req[q].pc \in Invalidating /\ req[q].row # kind => req'[q] = req[q]
      BY <2>2 DEF OneMoves
    <3> QED BY <2>1, <2>3, <3>1 DEF FlagsInv, FlagStaleOnlyIfRaced, CachedKinds
  <2>5. \A q \in Requests : Holds(req[q])'
    BY <2>2 DEF FlagsInv, Holds, OneMoves
  <2>6. FlagStaleOnlyIfRaced'
    BY <2>4 DEF FlagStaleOnlyIfRaced, CachedKinds
  <2> QED BY <2>1, <2>5, <2>6 DEF FlagsInv
<1> QED BY <1>1, <1>2, <1>3

LEMMA AskFlags ==
  ASSUME SessionsInv, FlagsInv, NEW r \in Requests, NEW kind \in CachedKinds, Ask(r, kind)
  PROVE  FlagsInv'
<1>1. req[r].pc \in {"askFactor", "askPasskey"} /\ UNCHANGED Flags
  BY DEF Ask, AskPc, At, Stays, Flags, Redis
<1>2. CASE req' = Got(r, kind, cached[kind])
  <2> PICK pc, hasPasskey, pending :
         /\ pc = AfterAnswer(r, kind, cached[kind])
         /\ req' = [req EXCEPT ![r].hasPasskey = hasPasskey, ![r].pending = pending,
                               ![r].pc = pc]
    BY <1>2 DEF Got
  <2>1. pc \in {"create", "askFactor", "PasskeyBegin", "done"}
    BY DEF AfterAnswer
  <2>2. OneMoves(r) /\ req'[r].pc = pc
    BY DEF OneMoves, SessionsInv, AShape, AFields
  <2> QED BY <1>1, <2>1, <2>2, FlagsSettled DEF Holds, Invalidating
<1>3. CASE req' = [req EXCEPT ![r].pc = "look", ![r].row = kind]
  BY <1>1, <1>3, RowSettled DEF Invalidating
<1> QED BY <1>2, <1>3 DEF Ask

LEMMA PasswordsFlags ==
  ASSUME SessionsInv, FlagsInv, NEW r \in Requests,
         \/ LoginFind(r) \/ LoginStamp(r) \/ LoginCheck(r) \/ Register(r) \/ CreateUser(r)
         \/ ResetPassword(r) \/ ChangePassword(r) \/ SetPassword(r) \/ EditUser(r)
         \/ DeleteUser(r)
  PROVE  FlagsInv'
<1> USE DEF At, Stays, Invalidating, Holding, Flags, Redis
<1>1. CASE LoginFind(r)
  <2>1. CASE Goto(r, "refused")
    BY <1>1, <2>1, GotoSettled DEF LoginFind
  <2>2. CASE req' = [req EXCEPT ![r].pc = "stamp", ![r].row = user.status]
    <3>1. UNCHANGED Flags /\ req[r].pc \notin Invalidating
      BY <1>1 DEF LoginFind
    <3>2. OneMoves(r) /\ req'[r].pc = "stamp"
      BY <2>2 DEF OneMoves, SessionsInv, AShape, AFields
    <3> QED BY <3>1, <3>2, FlagsSettled DEF Holds
  <2> QED BY <1>1, <2>1, <2>2 DEF LoginFind
<1>2. CASE LoginStamp(r)
  BY <1>2, GotoSettled DEF LoginStamp
<1>3. CASE LoginCheck(r) \/ ResetPassword(r) \/ ChangePassword(r)
  <2> PICK pc \in {"askPasskey", "setPassword", "done", "refused"} : Goto(r, pc)
    BY <1>3 DEF LoginCheck, ResetPassword, ChangePassword, Answer
  <2> QED BY <1>3, GotoSettled DEF LoginCheck, ResetPassword, ChangePassword, Answer
<1>4. CASE Register(r) \/ CreateUser(r)
  <2> PICK pc \in {"create", "done", "refused"} : Goto(r, pc)
    BY <1>4 DEF Register, CreateUser, AddUser
  <2> QED BY <1>4, GotoSettled DEF Register, CreateUser, AddUser
<1>5. CASE SetPassword(r)
  <2> PICK pc \in {"findKeys", "done"} : Goto(r, pc)
    BY <1>5 DEF SetPassword
  <2> QED BY <1>5, GotoSettled DEF SetPassword
<1>6. CASE EditUser(r) \/ DeleteUser(r)
  <2> PICK pc \in {"done", "refused"} : Goto(r, pc)
    BY <1>6 DEF EditUser, DeleteUser
  <2> QED BY <1>6, GotoSettled DEF EditUser, DeleteUser
<1> QED BY <1>1, <1>2, <1>3, <1>4, <1>5, <1>6

LEMMA AttemptsFlags ==
  ASSUME SessionsInv, FlagsInv, NEW r \in Requests,
         Verify2FA(r) \/ CheckAttempts(r) \/ CountAttempt(r) \/ ClearAttempts(r)
  PROVE  FlagsInv'
<1> USE DEF At, Stays, Invalidating, Holding, Flags, Redis
<1>1. CASE Verify2FA(r)
  <2> PICK found \in {"attempts", "refused"} :
         GetSession(r, req[r].own, "Verify2FA", found, "refused")
    BY <1>1 DEF Verify2FA
  <2>1. UNCHANGED Flags
    BY <1>1 DEF Verify2FA
  <2> QED BY <2>1, GetSessionSettled
<1>2. CASE CheckAttempts(r)
  <2> PICK pc, tries :
         /\ pc = (IF attempts[req[r].own] >= MaxAttempts THEN "revoke" ELSE "code")
         /\ tries = attempts[req[r].own]
         /\ req' = [req EXCEPT ![r].tries = tries, ![r].then = "refused", ![r].pc = pc]
    BY <1>2 DEF CheckAttempts
  <2>1. OneMoves(r) /\ req'[r].pc = pc
    BY DEF OneMoves, SessionsInv, AShape, AFields
  <2> QED BY <1>2, <2>1, FlagsSettled DEF CheckAttempts, Holds
<1>3. CASE CountAttempt(r) \/ ClearAttempts(r)
  BY <1>3, GotoSettled DEF CountAttempt, ClearAttempts, SetAttempts
<1> QED BY <1>1, <1>2, <1>3

\* A row is saved: what it says changes behind the cache, or is about to be dropped from it.
LEMMA Saved ==
  ASSUME SessionsInv, FlagsInv, NEW r \in Requests, NEW row \in FactorRows, NEW pc, NEW kind,
         pc \notin Holding, req[r].pc \notin Invalidating, SaveRow(r, row, pc, kind),
         kind = None \/ (kind = "factor" /\ pc = "drop")
  PROVE  FlagsInv'
<1>1. /\ OneMoves(r) /\ req'[r].pc = pc /\ req'[r].row = kind
  BY DEF SaveRow, OneMoves, SessionsInv, AShape, AFields
<1>2. row # None /\ row.enabled \in BOOLEAN
  BY AccountAssumption DEF FactorRows
<1>3. Truth("factor")' = row.enabled /\ Truth("passkey")' = Truth("passkey")
  BY <1>2 DEF Truth, SaveRow
<1>4. /\ raced \subseteq raced' /\ raced' \subseteq raced \cup {"factor"}
      /\ kind = None => row.enabled = Truth("factor") \/ "factor" \in raced'
      /\ UNCHANGED cached
  BY DEF SaveRow
<1>5. \A q \in Requests : req[q].pc \in Invalidating => req'[q] = req[q]
  BY <1>1 DEF OneMoves
<1>6. ASSUME NEW x \in CachedKinds
      PROVE  \/ cached'[x] \in {None, Truth(x)'} \/ x \in raced'
             \/ \E q \in Requests : req'[q].pc \in Invalidating /\ req'[q].row = x
  <2>1. CASE x = "factor" /\ kind = "factor" /\ pc = "drop"
    BY <1>1, <2>1 DEF Invalidating
  <2>2. CASE x = "factor" /\ kind = None
    BY <1>3, <1>4, <1>5, <2>2 DEF FlagsInv, FlagStaleOnlyIfRaced, Invalidating
  <2>3. CASE x = "passkey"
    BY <1>3, <1>4, <1>5, <2>3 DEF FlagsInv, FlagStaleOnlyIfRaced, Invalidating
  <2> QED BY <2>1, <2>2, <2>3 DEF CachedKinds
<1>7. \A q \in Requests : Holds(req[q])'
  BY <1>1 DEF FlagsInv, Holds, OneMoves, Holding
<1>8. FlagStaleOnlyIfRaced'
  BY <1>6 DEF FlagStaleOnlyIfRaced, CachedKinds, Invalidating
<1> QED BY <1>4, <1>7, <1>8 DEF FlagsInv, SaveRow

\* What an answer is about is deleted or made; the answer is about to be dropped.
LEMMA Dropped ==
  ASSUME SessionsInv, FlagsInv, NEW r \in Requests, NEW kind \in CachedKinds, NEW pc \in Invalidating,
         req' = [req EXCEPT ![r].pc = pc, ![r].row = kind],
         req[r].pc \in Invalidating => req[r].row = kind,
         pc = "clearRegistration" => kind = "passkey",
         UNCHANGED <<cached, raced>>, factor' \in FactorRows \cup {None},
         \A x \in CachedKinds \ {kind} : Truth(x)' = Truth(x)
  PROVE  FlagsInv'
<1>1. /\ OneMoves(r) /\ req'[r].pc = pc /\ req'[r].row = kind
  BY DEF OneMoves, SessionsInv, AShape, AFields
<1>2. \A q \in Requests : req[q].pc \in Invalidating /\ req[q].row # kind => req'[q] = req[q]
  BY <1>1 DEF OneMoves
<1>3. ASSUME NEW x \in CachedKinds
      PROVE  \/ cached'[x] \in {None, Truth(x)'} \/ x \in raced'
             \/ \E q \in Requests : req'[q].pc \in Invalidating /\ req'[q].row = x
  <2>1. CASE x = kind
    BY <1>1, <2>1
  <2>2. CASE x # kind
    <3>1. Truth(x)' = Truth(x)
      BY <2>2
    <3> QED BY <1>2, <2>2, <3>1 DEF FlagsInv, FlagStaleOnlyIfRaced, Invalidating, CachedKinds
  <2> QED BY <2>1, <2>2
<1>4. \A q \in Requests : Holds(req[q])'
  BY <1>1 DEF FlagsInv, Holds, OneMoves, Invalidating
<1>5. FlagStaleOnlyIfRaced'
  BY <1>3 DEF FlagStaleOnlyIfRaced, CachedKinds, Invalidating
<1> QED BY <1>4, <1>5 DEF FlagsInv

LEMMA BackupCodesAre == ASSUME NEW r \in Requests PROVE BackupCodes(r) \in SUBSET Codes
BY DEF BackupCodes, Codes, SessionIds

LEMMA FactorFlags ==
  ASSUME SessionsInv, FlagsInv, NEW r \in Requests,
         \/ SetupTotp(r) \/ FindFactor(r) \/ SaveSecret(r) \/ EnableTotp(r) \/ SaveEnabled(r)
         \/ VerifyCode(r) \/ SpendCode(r) \/ DeleteFactor(r) \/ NewCodes(r) \/ SaveCodes(r)
  PROVE  FlagsInv'
<1> USE DEF At, Stays, Flags, Redis
<1>1. CASE SetupTotp(r)
  <2> PICK pc \in {"findFactor", "refused"} : Goto(r, pc)
    BY <1>1 DEF SetupTotp, Answer
  <2> QED BY <1>1, GotoSettled DEF SetupTotp, Answer, Invalidating, Holding
<1>2. CASE FindFactor(r)
  <2>1. PICK row : /\ row = IF factor = None
                               THEN [enabled |-> FALSE, codes |-> {}, secret |-> r]
                               ELSE [factor EXCEPT !.secret = r]
                   /\ req' = [req EXCEPT ![r].pc = "saveSecret", ![r].row = row]
    BY <1>2 DEF FindFactor
  <2>2. row \in FactorRows
    BY <2>1 DEF FlagsInv, FactorRows, SessionIds
  <2>3. req[r].pc = "findFactor" /\ UNCHANGED Flags
    BY <1>2 DEF FindFactor
  <2>4. req' = [req EXCEPT ![r].pc = "saveSecret", ![r].row = row]
    BY <2>1
  <2> QED BY <2>2, <2>3, <2>4, RowSettled DEF Invalidating
<1>3. CASE SaveSecret(r) \/ SaveCodes(r)
  <2> PICK row : row = req[r].row
    OBVIOUS
  <2>1. /\ req[r].pc \in {"saveSecret", "saveCodes"} /\ row \in FactorRows
        /\ SaveRow(r, row, "done", None)
    BY <1>3 DEF SaveSecret, SaveCodes, FlagsInv, Holds
  <2> QED BY <2>1, Saved DEF Invalidating, Holding
<1>4. CASE EnableTotp(r)
  <2>1. req[r].pc = "EnableTotp" /\ UNCHANGED Flags
    BY <1>4 DEF EnableTotp
  <2>2. CASE Goto(r, "refused")
    BY <2>1, <2>2, GotoSettled DEF Invalidating, Holding
  <2>3. CASE factor # None /\ ~Goto(r, "refused")
    <3> PICK row : /\ row = [factor EXCEPT !.enabled = TRUE, !.codes = BackupCodes(r)]
                   /\ req' = [req EXCEPT ![r].pc = "enable", ![r].row = row]
      BY <1>4, <2>3 DEF EnableTotp
    <3>1. row \in FactorRows
      BY <2>3, BackupCodesAre DEF FlagsInv, FactorRows
    <3> QED BY <2>1, <3>1, RowSettled DEF Invalidating
  <2> QED BY <1>4, <2>2, <2>3 DEF EnableTotp
<1>5. CASE SaveEnabled(r)
  <2> PICK row : row = req[r].row
    OBVIOUS
  <2>1. req[r].pc = "enable" /\ row \in FactorRows /\ SaveRow(r, row, "drop", "factor")
    BY <1>5 DEF SaveEnabled, FlagsInv, Holds
  <2> QED BY <2>1, Saved DEF Invalidating, Holding
<1>6. CASE VerifyCode(r)
  <2> DEFINE y == CASE factor # None /\ Accepts(r, factor) -> "spend"
                    [] req[r].op = "Verify2FA"             -> "count"
                    [] OTHER                               -> "refused"
  <2>1. y \in {"spend", "count", "refused"} /\ (y = "spend" => factor # None)
    OBVIOUS
  <2>2. req' = [req EXCEPT ![r].row = factor, ![r].pc = y]
    BY <1>6 DEF VerifyCode
  <2> HIDE DEF y
  <2> PICK pc : pc = y
    OBVIOUS
  <2>3. req' = [req EXCEPT ![r].pc = pc, ![r].row = factor]
    BY <2>2 DEF SessionsInv, AShape, AFields
  <2>4. req[r].pc \in {"code", "DisableTotp", "Regenerate"} /\ UNCHANGED Flags
    BY <1>6 DEF VerifyCode
  <2>5. pc \in {"spend", "count", "refused"} /\ (pc = "spend" => factor \in FactorRows)
    BY <2>1 DEF FlagsInv
  <2> QED BY <2>3, <2>4, <2>5, RowSettled DEF Invalidating
<1>7. CASE SpendCode(r)
  <2>1. CASE UNCHANGED factor
    <3> PICK pc : pc = AfterGood(r) /\ Goto(r, pc)
      BY <1>7 DEF SpendCode
    <3>1. pc \in {"clear", "deleteFactor", "newCodes"}
      BY DEF AfterGood
    <3> QED BY <1>7, <2>1, <3>1, GotoSettled DEF SpendCode, Invalidating, Holding
  <2>2. CASE ~UNCHANGED factor
    <3> PICK pc, codes : /\ pc = AfterGood(r) /\ Goto(r, pc)
                         /\ codes = req[r].row.codes \ Matching(r, req[r].row)
      BY <1>7 DEF SpendCode
    <3>1. pc \in {"clear", "deleteFactor", "newCodes"}
      BY DEF AfterGood
    <3>2. req[r].pc = "spend" /\ req[r].row \in FactorRows
      BY <1>7 DEF SpendCode, FlagsInv, Holds
    <3>3. codes \in SUBSET Codes
      BY <3>2 DEF FactorRows
    <3>4. /\ factor # None /\ factor' = [factor EXCEPT !.codes = codes]
          /\ UNCHANGED <<passkeys, cached, raced>>
      BY <1>7, <2>2 DEF SpendCode
    <3>5. factor' \in FactorRows /\ factor'.enabled = factor.enabled
      BY <3>3, <3>4 DEF FlagsInv, FactorRows
    <3>6. factor' # None
      BY <3>5, AccountAssumption
    <3>7. \A x \in CachedKinds : Truth(x)' = Truth(x)
      BY <3>4, <3>5, <3>6 DEF Truth
    <3>8. OneMoves(r) /\ req'[r].pc = pc
      BY GotoMoves
    <3>9. \A q \in Requests : req[q].pc \in Invalidating => req'[q] = req[q]
      BY <3>2, <3>8 DEF OneMoves, Invalidating
    <3>10. FlagStaleOnlyIfRaced'
      BY <3>4, <3>7, <3>9 DEF FlagsInv, FlagStaleOnlyIfRaced, Invalidating, CachedKinds
    <3>11. \A q \in Requests : Holds(req[q])'
      BY <3>1, <3>8 DEF FlagsInv, Holds, OneMoves
    <3> QED BY <3>4, <3>5, <3>10, <3>11 DEF FlagsInv
  <2> QED BY <2>1, <2>2
<1>8. CASE DeleteFactor(r)
  <2>1. /\ req[r].pc = "deleteFactor" /\ factor' = None /\ UNCHANGED <<cached, raced, passkeys>>
        /\ req' = [req EXCEPT ![r].pc = "drop", ![r].row = "factor"]
    BY <1>8 DEF DeleteFactor
  <2>2. \A x \in CachedKinds \ {"factor"} : Truth(x)' = Truth(x)
    BY <2>1 DEF Truth, CachedKinds
  <2> QED BY <2>1, <2>2, Dropped DEF Invalidating, CachedKinds
<1>9. CASE NewCodes(r)
  <2>1. req[r].pc = "newCodes" /\ UNCHANGED Flags
    BY <1>9 DEF NewCodes
  <2>2. CASE Goto(r, "refused")
    BY <2>1, <2>2, GotoSettled DEF Invalidating, Holding
  <2>3. CASE Truth("factor") /\ ~Goto(r, "refused")
    <3> PICK row : /\ row = [factor EXCEPT !.codes = BackupCodes(r)]
                   /\ req' = [req EXCEPT ![r].pc = "saveCodes", ![r].row = row]
      BY <1>9, <2>3 DEF NewCodes
    <3>1. row \in FactorRows
      BY <2>3, BackupCodesAre DEF FlagsInv, FactorRows, Truth
    <3> QED BY <2>1, <3>1, RowSettled DEF Invalidating
  <2> QED BY <1>9, <2>2, <2>3 DEF NewCodes
<1> QED BY <1>1, <1>2, <1>3, <1>4, <1>5, <1>6, <1>7, <1>8, <1>9

LEMMA PasskeysFlags ==
  ASSUME SessionsInv, FlagsInv, NEW r \in Requests,
         \/ BeginRegistration(r) \/ FinishRegistration(r) \/ SavePasskey(r)
         \/ ClearRegistration(r) \/ PasskeyBegin(r) \/ SetLoginChallenge(r) \/ PasskeyFinish(r)
         \/ FindPasskey(r) \/ SetCounter(r) \/ ClearLogin(r) \/ DeletePasskey(r)
  PROVE  FlagsInv'
<1> USE DEF At, Stays
<1>1. CASE BeginRegistration(r) \/ SetLoginChallenge(r) \/ ClearLogin(r)
  <2>1. PICK pc \in {"done", "create"} : req' = [req EXCEPT ![r].pc = pc, ![r].row = "passkey"]
    BY <1>1 DEF BeginRegistration, SetLoginChallenge, ClearLogin, SetChallenge
  <2>2. req[r].pc \in {"RegisterBegin", "setLogin", "clearLogin"} /\ UNCHANGED Flags
    BY <1>1 DEF BeginRegistration, SetLoginChallenge, ClearLogin, SetChallenge, Flags
  <2> QED BY <2>1, <2>2, RowSettled DEF Invalidating
<1>2. CASE SavePasskey(r) \/ ClearRegistration(r) \/ DeletePasskey(r)
  <2>1. PICK pc \in Invalidating : req' = [req EXCEPT ![r].pc = pc, ![r].row = "passkey"]
    BY <1>2 DEF SavePasskey, ClearRegistration, SetChallenge, DeletePasskey, Invalidating
  <2>2. UNCHANGED <<factor, cached, raced>>
    BY <1>2 DEF SavePasskey, ClearRegistration, SetChallenge, DeletePasskey, Redis
  <2>3. req[r].pc \in Invalidating => req[r].row = "passkey"
    BY <1>2
    DEF SavePasskey, ClearRegistration, SetChallenge, DeletePasskey, FlagsInv, Holds, Invalidating
  <2>4. \A x \in CachedKinds \ {"passkey"} : Truth(x)' = Truth(x)
    BY <2>2 DEF Truth, CachedKinds
  <2>5. factor' \in FactorRows \cup {None}
    BY <2>2 DEF FlagsInv
  <2> QED BY <2>1, <2>2, <2>3, <2>4, <2>5, Dropped DEF CachedKinds
<1>3. CASE FinishRegistration(r) \/ PasskeyBegin(r) \/ FindPasskey(r)
  <2>1. PICK pc \in {"savePasskey", "setLogin", "setCounter", "done", "refused"} : Goto(r, pc)
    BY <1>3 DEF FinishRegistration, PasskeyBegin, FindPasskey, Answer
  <2>2. req[r].pc \in {"RegisterFinish", "PasskeyBegin", "findPasskey"} /\ UNCHANGED Flags
    BY <1>3 DEF FinishRegistration, PasskeyBegin, FindPasskey, Answer, Flags, Redis
  <2> QED BY <2>1, <2>2, GotoSettled DEF Invalidating, Holding
<1>4. CASE PasskeyFinish(r)
  <2>1. req[r].pc = "PasskeyFinish" /\ UNCHANGED Flags
    BY <1>4 DEF PasskeyFinish, Flags, Redis
  <2>2. CASE Goto(r, "refused")
    BY <2>1, <2>2, GotoSettled DEF Invalidating, Holding
  <2>3. CASE req' = [req EXCEPT ![r].pc = "findPasskey", ![r].row = challenge.login]
    <3> PICK pc, row : pc = "findPasskey" /\ row = challenge.login
      OBVIOUS
    <3>1. req' = [req EXCEPT ![r].pc = pc, ![r].row = row]
      BY <2>3
    <3>2. pc \notin Holding /\ req[r].pc \notin Invalidating
      BY <2>1 DEF Holding, Invalidating
    <3> QED BY <2>1, <3>1, <3>2, RowSettled DEF Holding
  <2> QED BY <1>4, <2>2, <2>3 DEF PasskeyFinish
<1>5. CASE SetCounter(r)
  <2>1. /\ DOMAIN passkeys' = DOMAIN passkeys /\ UNCHANGED <<factor, cached, raced>>
        /\ Goto(r, "clearLogin") /\ req[r].pc = "setCounter"
    BY <1>5 DEF SetCounter, Redis
  <2>2. \A x \in CachedKinds : Truth(x)' = Truth(x)
    BY <2>1 DEF Truth
  <2>3. OneMoves(r) /\ req'[r].pc = "clearLogin"
    BY <2>1, GotoMoves
  <2>4. \A q \in Requests : req[q].pc \in Invalidating => req'[q] = req[q]
    BY <2>1, <2>3 DEF OneMoves, Invalidating
  <2>5. FlagStaleOnlyIfRaced'
    BY <2>1, <2>2, <2>4 DEF FlagsInv, FlagStaleOnlyIfRaced, Invalidating, CachedKinds
  <2>6. \A q \in Requests : Holds(req[q])'
    BY <2>3 DEF FlagsInv, Holds, OneMoves
  <2> QED BY <2>1, <2>5, <2>6 DEF FlagsInv
<1> QED BY <1>1, <1>2, <1>3, <1>4, <1>5

LEMMA LapsesFlags ==
  ASSUME SessionsInv, FlagsInv, Lapses
  PROVE  FlagsInv'
<1>1. CASE UNCHANGED <<req, Flags>>
  BY <1>1 DEF Flags, FlagsInv, Holds, FlagStaleOnlyIfRaced, Truth
<1>2. CASE \E kind \in {"factor", "passkey"} : CacheLapses(kind)
  <2> PICK kind \in CachedKinds : CacheLapses(kind)
    BY <1>2 DEF CachedKinds
  <2>1. /\ cached' = [cached EXCEPT ![kind] = None] /\ raced' = raced \ {kind}
        /\ UNCHANGED <<factor, passkeys, req>>
    BY DEF CacheLapses
  <2> QED BY <2>1 DEF FlagsInv, Holds, FlagStaleOnlyIfRaced, Truth, CachedKinds
<1>3. CASE TimePasses /\ UNCHANGED <<user, factor, passkeys, Redis>>
  <2>1. UNCHANGED <<req, Flags>>
    BY <1>3 DEF TimePasses, Quiet, Expire, IndexLapses, SessionLapses, Redis, Flags
  <2> QED BY <2>1, <1>1
<1>4. CASE \/ \E kind \in {"registration", "login"} : ChallengeLapses(kind)
           \/ \E s \in SessionIds : AttemptsLapse(s)
  BY <1>1, <1>4 DEF ChallengeLapses, AttemptsLapse, Flags
<1> QED BY <1>2, <1>3, <1>4 DEF Lapses

LEMMA FlagsKept ==
  ASSUME SessionsInv, FlagsInv, [AccountNext]_accountVars
  PROVE  FlagsInv'
<1>1. ASSUME NEW r \in Requests, AccountStep(r) PROVE FlagsInv'
  <2>1. CASE Start(r)
    <3> PICK pc : /\ pc = (IF req[r].op \in Public \cup Admin THEN req[r].op ELSE "guard")
                  /\ Goto(r, pc)
      BY <2>1 DEF Start, Begin
    <3>1. pc \notin Holding
      BY DEF Public, Admin, Holding
    <3>2. req[r].pc = "new" /\ UNCHANGED Flags
      BY <2>1 DEF Start, Begin, At, Flags, Redis
    <3> QED BY <3>1, <3>2, GotoSettled DEF Invalidating
  <2>2. CASE SessionStep(r) /\ UNCHANGED <<user, factor, passkeys, Redis>>
    BY <2>2, SessionStepFlags DEF Flags, Redis
  <2> QED BY <1>1, <2>1, <2>2, AskFlags, CachedAnswerFlags, PasswordsFlags, FactorFlags,
             AttemptsFlags, PasskeysFlags
          DEF AccountStep, CachedKinds
<1>2. CASE UNCHANGED accountVars
  BY <1>2 DEF accountVars, sessionVars, FlagsInv, Holds, FlagStaleOnlyIfRaced, Truth
<1> QED BY <1>1, <1>2, LapsesFlags DEF AccountNext

(* The cached answer on the second factor and on passkeys is that of the    *)
(* rows, unless a change raced with a read or is just about to drop it      *)
(* (two-factor.service.ts:131-134, 206-208, 266-270, passkey.service.ts).   *)
THEOREM CachedAnswersAreTrue == AccountSpec => []FlagStaleOnlyIfRaced
<1>1. AccountInit => FlagsInv
  BY FlagsInitInv
<1>2. SessionsInv /\ FlagsInv /\ [AccountNext]_accountVars => FlagsInv'
  BY FlagsKept
<1>3. FlagsInv => FlagStaleOnlyIfRaced
  BY DEF FlagsInv
<1> QED BY <1>1, <1>2, <1>3, SessionsAlways, PTL DEF AccountSpec

-----------------------------------------------------------------------------
(* Teams.                                                                  *)

TFields == {"op", "by", "target", "role", "inv", "pc", "row", "other", "drops", "then"}

\* What a request has found out before it changes anything.
Informed(r) ==
    LET q == treq[r] IN
    /\ q.pc = "saveRole" => /\ q.row \in Memberships /\ q.row.role # "OWNER"
                            /\ q.role # "OWNER"
    /\ q.pc \in {"remove", "leave"} => q.row \in Memberships /\ q.row.role # "OWNER"
    /\ q.pc = "findNewOwner" => q.row \in Memberships /\ q.row.role = "OWNER"
    /\ q.pc = "saveOwners" => /\ q.row \in Memberships /\ q.other \in Memberships
                              /\ q.other.role = "OWNER" /\ q.by # q.target
    /\ q.pc = "invite" => q.role # "OWNER"
    /\ q.pc \in {"join", "insert"} => q.row \in Invitations
    /\ q.pc \in {"join", "insert", "known", "ACCEPTED", "EXPIRED", "DECLINED", "CANCELLED"}
         => invitation[q.inv] # Absent
    /\ q.then \in {"done", "warm"}

\* Where a request is about to change the members, or knows that there are some.
AmongMembers == {"saveRole", "remove", "leave", "findNewOwner", "saveOwners", "join", "insert"}

TShape ==
    /\ DOMAIN treq = TeamRequests
    /\ \A r \in TeamRequests :
          /\ DOMAIN treq[r] = TFields
          /\ treq[r].op \in TeamOps /\ treq[r].by \in TeamUsers /\ treq[r].target \in TeamUsers
          /\ treq[r].role \in Roles /\ treq[r].inv \in Ids

Ownership ==
    IF team = "none"
      THEN /\ \A u \in TeamUsers : member[u] = Absent
           /\ \A r \in TeamRequests : treq[r].pc \notin AmongMembers
      ELSE overwritten \/ OneOwner(member)

TeamInv ==
    /\ member \in [TeamUsers -> Memberships \cup {Absent}]
    /\ invitation \in [Ids -> Invitations \cup {Absent}]
    /\ TShape
    /\ \A r \in TeamRequests : Informed(r)
    /\ Ownership

LEMMA TeamInitInv == ASSUME TeamInit PROVE TeamInv
<1> PICK w \in TeamWorkloads :
       /\ member = w.member /\ invitation = w.invitation /\ team = w.team
       /\ treq = [r \in TeamRequests |-> NewTeamRequest(w.jobs[r])]
  BY DEF TeamInit
<1>1. ASSUME NEW r \in TeamRequests
      PROVE  /\ DOMAIN treq[r] = TFields /\ treq[r].pc = "new" /\ treq[r].then = "done"
             /\ treq[r].op \in TeamOps /\ treq[r].by \in TeamUsers
             /\ treq[r].target \in TeamUsers /\ treq[r].role \in Roles /\ treq[r].inv \in Ids
  <2>1. treq[r] = NewTeamRequest(w.jobs[r]) /\ w.jobs[r] \in Jobs
    BY TeamAssumption
  <2> QED BY <2>1 DEF NewTeamRequest, Jobs, TFields
<1>2. TShape /\ \A r \in TeamRequests : Informed(r)
  BY <1>1 DEF TShape, Informed
<1>3. Ownership
  BY <1>1, TeamAssumption DEF Ownership, AmongMembers
<1> QED BY <1>2, <1>3, TeamAssumption DEF TeamInv

\* A step of one request that changes neither members nor team.
Moves(r) ==
    /\ DOMAIN treq' = TeamRequests /\ DOMAIN treq'[r] = TFields
    /\ \A s \in TeamRequests \ {r} : treq'[s] = treq[s]
    /\ treq'[r].op = treq[r].op /\ treq'[r].by = treq[r].by
    /\ treq'[r].target = treq[r].target /\ treq'[r].role = treq[r].role
    /\ treq'[r].inv = treq[r].inv

\* Invitations are created and saved, never deleted.
InvitationsStay ==
    /\ invitation' \in [Ids -> Invitations \cup {Absent}]
    /\ \A i \in Ids : invitation[i] # Absent => invitation'[i] # Absent

LEMMA OthersInformed ==
  ASSUME TeamInv, NEW r \in TeamRequests, Moves(r), InvitationsStay, Informed(r)'
  PROVE  TShape' /\ \A s \in TeamRequests : Informed(s)'
<1>1. TShape'
  BY DEF TeamInv, TShape, Moves
<1>2. ASSUME NEW s \in TeamRequests \ {r} PROVE Informed(s)'
  <2>1. treq'[s] = treq[s] /\ Informed(s) /\ treq[s].inv \in Ids
    BY DEF Moves, TeamInv, TShape
  <2> QED BY <2>1 DEF Informed, InvitationsStay
<1> QED BY <1>1, <1>2

LEMMA MoveKept ==
  ASSUME TeamInv, NEW r \in TeamRequests, Moves(r), InvitationsStay, Informed(r)',
         UNCHANGED <<member, team, overwritten>>,
         team = "none" => treq'[r].pc \notin AmongMembers
  PROVE  TeamInv'
<1>1. Ownership'
  BY DEF TeamInv, Ownership, Moves
<1> QED BY <1>1, OthersInformed DEF TeamInv, InvitationsStay

LEMMA Stay == TeamInv /\ UNCHANGED invitation => InvitationsStay
  BY DEF TeamInv, InvitationsStay

\* Going on to a point that needs no knowledge.
Harmless == {"guard", "look", "lookList", "show", "shown", "fill", "done", "refused", "drop",
          "findTarget", "softDelete", "findMembers", "warm"} \cup TeamOps

LEMMA GotoKept ==
  ASSUME TeamInv, NEW r \in TeamRequests, NEW pc \in Harmless, NEW row,
         treq' = [treq EXCEPT ![r].pc = pc] \/ treq' = [treq EXCEPT ![r].pc = pc, ![r].row = row],
         UNCHANGED <<member, team, overwritten>>, InvitationsStay
  PROVE  TeamInv'
<1>1. Moves(r) /\ treq'[r].pc = pc /\ treq'[r].then = treq[r].then
  BY DEF TeamInv, TShape, TFields, Moves
<1>2. Informed(r)' /\ pc \notin AmongMembers
  BY <1>1 DEF Informed, TeamInv, Harmless, TeamOps, AmongMembers
<1> QED BY <1>1, <1>2, MoveKept

LEMMA FinishMoves ==
  ASSUME TeamInv, NEW r \in TeamRequests, NEW drops, Finish(r, drops, "done")
  PROVE  Moves(r) /\ treq'[r].pc = "drop" /\ treq'[r].then = "done"
  BY DEF Finish, TeamInv, TShape, TFields, Moves

LEMMA DropInforms ==
  ASSUME NEW r, treq'[r].pc \in {"drop", "refused"}, treq'[r].then \in {"done", "warm"}
  PROVE  Informed(r)' /\ treq'[r].pc \notin AmongMembers
  BY DEF Informed, AmongMembers

LEMMA FinishKept ==
  ASSUME TeamInv, NEW r \in TeamRequests, NEW drops, Finish(r, drops, "done"),
         UNCHANGED <<member, team, overwritten, invitation>>
  PROVE  TeamInv'
  BY FinishMoves, DropInforms, MoveKept, Stay

-----------------------------------------------------------------------------
(* The views and the cache.                                                *)

LEMMA AnswerIsHarmless ==
  ASSUME TeamInv, NEW r \in TeamRequests, NEW role
  PROVE  TAnswered(r, role) \in Harmless
  BY DEF TAnswered, Harmless, TeamInv, TShape

LEMMA ViewStep ==
  ASSUME TeamInv, NEW r \in TeamRequests,
         \/ TeamStart(r) \/ TAsk(r) \/ TLook(r) \/ ListTeams(r) \/ FindTeam(r) \/ TFill(r)
         \/ DropKey(r) \/ AllDropped(r) \/ UseTeam(r) \/ Warm(r) \/ Invite(r)
  PROVE  TeamInv'
<1> USE DEF Rows, History
<1>1. CASE TeamStart(r)
  <2>1. (IF treq[r].op \in Personal THEN treq[r].op ELSE "guard") \in Harmless
    BY DEF Harmless, TeamInv, TShape
  <2> QED BY <1>1, <2>1, GotoKept, Stay DEF TeamStart, TGoto
<1>2. CASE TAsk(r)
  <2>1. PICK pc \in Harmless : treq' = [treq EXCEPT ![r].pc = pc]
    <3>1. TAnswered(r, tcache[TKey(r)]) \in Harmless
      BY AnswerIsHarmless
    <3> QED BY <1>2, <3>1 DEF TAsk, TGoto, Harmless
  <2> QED BY <1>2, <2>1, GotoKept, Stay DEF TAsk
<1>3. CASE TLook(r) \/ ListTeams(r) \/ FindTeam(r)
  <2>1. PICK pc \in Harmless, row \in {IF There(treq[r].by) THEN Role(treq[r].by) ELSE "none"} :
           treq' = [treq EXCEPT ![r].pc = pc, ![r].row = row]
    BY <1>3 DEF TLook, ListTeams, FindTeam, Found, Harmless
  <2> QED BY <1>3, <2>1, GotoKept, Stay DEF TLook, ListTeams, FindTeam
<1>4. CASE TFill(r)
  <2>1. TAnswered(r, treq[r].row) \in Harmless
    BY AnswerIsHarmless
  <2> QED BY <1>4, <2>1, GotoKept, Stay DEF TFill, TGoto
<1>5. CASE DropKey(r)
  <2>1. Moves(r) /\ treq'[r].pc = "drop" /\ treq'[r].then = treq[r].then
    BY <1>5 DEF DropKey, TAt, TeamInv, TShape, TFields, Moves
  <2>2. treq[r].then \in {"done", "warm"}
    BY DEF TeamInv, Informed
  <2> QED BY <1>5, <2>1, <2>2, DropInforms, MoveKept, Stay DEF DropKey
<1>6. CASE AllDropped(r)
  <2>1. treq[r].then \in Harmless
    BY DEF TeamInv, Informed, Harmless
  <2> QED BY <1>6, <2>1, GotoKept, Stay DEF AllDropped, TGoto
<1>7. CASE UseTeam(r) \/ Warm(r)
  BY <1>7, GotoKept, Stay DEF UseTeam, Warm, TGoto, Harmless
<1>8. CASE Invite(r)
  <2>1. /\ Moves(r) /\ treq'[r].pc \in {"invite", "refused"}
        /\ treq'[r].pc = "invite" => treq[r].role # "OWNER"
        /\ treq'[r].then = treq[r].then
    BY <1>8 DEF Invite, TGoto, TeamInv, TShape, TFields, Moves
  <2>2. Informed(r)' /\ treq'[r].pc \notin AmongMembers
    BY <2>1 DEF Informed, AmongMembers, TeamInv, Moves
  <2> QED BY <1>8, <2>1, <2>2, MoveKept, Stay DEF Invite
<1> QED BY <1>1, <1>2, <1>3, <1>4, <1>5, <1>6, <1>7, <1>8

-----------------------------------------------------------------------------
(* The rows.                                                               *)

LEMMA ReadKept ==
  ASSUME TeamInv, NEW r \in TeamRequests, NEW u \in TeamUsers, NEW pc, NEW ok \in BOOLEAN,
         NEW then, Read(r, u, pc, ok, then),
         \/ then \in {"findTarget", "softDelete"}
         \/ then \in {"remove", "leave"} /\ (ok => NotOwner(u))
         \/ then = "saveRole" /\ (ok => NotOwner(u) /\ treq[r].role # "OWNER")
         \/ then = "findNewOwner" /\ (ok => Role(u) = "OWNER")
         \/ /\ then = "saveOwners" /\ (ok => treq[r].by # treq[r].target)
            /\ treq[r].pc = "findNewOwner"
  PROVE  TeamInv'
<1>1. /\ UNCHANGED <<member, team, overwritten, invitation>> /\ Moves(r)
      /\ treq'[r].then = treq[r].then
      /\ \/ treq'[r].pc = "refused"
         \/ /\ member[u] # Absent /\ ok /\ treq'[r].pc = then
            /\ treq'[r].row = member[u] /\ treq'[r].other = treq[r].row
  BY DEF Read, Refuse, TGoto, Rows, History, TeamInv, TShape, TFields, Moves
<1>2. member[u] # Absent => member[u] \in Memberships /\ Role(u) = member[u].role
  BY DEF TeamInv, Role
<1>3. Informed(r)'
  <2>1. Informed(r) /\ treq'[r].by = treq[r].by /\ treq'[r].target = treq[r].target
        /\ treq'[r].role = treq[r].role
    BY <1>1 DEF TeamInv, Moves
  <2> QED BY <1>1, <1>2, <2>1 DEF Informed, NotOwner
<1>4. team = "none" => treq'[r].pc \notin AmongMembers
  BY <1>1 DEF TeamInv, Ownership, AmongMembers
<1> QED BY <1>1, <1>3, <1>4, MoveKept, Stay

LEMMA LookupStep ==
  ASSUME TeamInv, NEW r \in TeamRequests,
         \/ UpdateRole(r) \/ FindTarget(r) \/ RemoveMember(r) \/ Leave(r)
         \/ Transfer(r) \/ FindNewOwner(r) \/ DeleteTeam(r)
  PROVE  TeamInv'
<1>1. treq[r].by \in TeamUsers /\ treq[r].target \in TeamUsers
  BY DEF TeamInv, TShape
<1>2. CASE UpdateRole(r)
  BY <1>1, <1>2, ReadKept DEF UpdateRole
<1>3. CASE FindTarget(r)
  <2> DEFINE ok == NotOwner(treq[r].target) /\ Other(r) /\ treq[r].role # "OWNER"
  <2>1. ok \in BOOLEAN /\ Read(r, treq[r].target, "findTarget", ok, "saveRole")
    BY <1>3 DEF FindTarget
  <2>2. ok => NotOwner(treq[r].target) /\ treq[r].role # "OWNER"
    OBVIOUS
  <2> HIDE DEF ok
  <2> QED BY <1>1, <2>1, <2>2, ReadKept
<1>4. CASE RemoveMember(r)
  <2> DEFINE ok == NotOwner(treq[r].target) /\ Other(r)
  <2>1. ok \in BOOLEAN /\ Read(r, treq[r].target, "RemoveMember", ok, "remove")
    BY <1>4 DEF RemoveMember
  <2>2. ok => NotOwner(treq[r].target)
    OBVIOUS
  <2> HIDE DEF ok
  <2> QED BY <1>1, <2>1, <2>2, ReadKept
<1>5. CASE Leave(r)
  <2> DEFINE ok == NotOwner(treq[r].by)
  <2>1. ok \in BOOLEAN /\ Read(r, treq[r].by, "Leave", ok, "leave")
    BY <1>5 DEF Leave, NotOwner
  <2>2. ok => NotOwner(treq[r].by)
    OBVIOUS
  <2> HIDE DEF ok
  <2> QED BY <1>1, <2>1, <2>2, ReadKept
<1>6. CASE Transfer(r)
  <2> DEFINE ok == Role(treq[r].by) = "OWNER"
  <2>1. ok \in BOOLEAN /\ Read(r, treq[r].by, "Transfer", ok, "findNewOwner")
    BY <1>6 DEF Transfer
  <2>2. ok => Role(treq[r].by) = "OWNER"
    OBVIOUS
  <2> HIDE DEF ok
  <2> QED BY <1>1, <2>1, <2>2, ReadKept
<1>7. CASE FindNewOwner(r)
  <2> DEFINE ok == Other(r)
  <2>1. ok \in BOOLEAN /\ Read(r, treq[r].target, "findNewOwner", ok, "saveOwners")
    BY <1>7 DEF FindNewOwner, Other
  <2>2. (ok => treq[r].by # treq[r].target) /\ treq[r].pc = "findNewOwner"
    BY <1>7 DEF Other, FindNewOwner, Read, TAt
  <2> HIDE DEF ok
  <2> QED BY <1>1, <2>1, <2>2, ReadKept
<1>8. CASE DeleteTeam(r)
  <2> DEFINE ok == Role(treq[r].by) = "OWNER"
  <2>1. ok \in BOOLEAN /\ Read(r, treq[r].by, "DeleteTeam", ok, "softDelete")
    BY <1>8 DEF DeleteTeam
  <2> HIDE DEF ok
  <2> QED BY <1>1, <2>1, ReadKept
<1> QED BY <1>2, <1>3, <1>4, <1>5, <1>6, <1>7, <1>8

\* A change of the rows that leaves one owner, or is recorded as an overwrite.
LEMMA RowsKept ==
  ASSUME TeamInv, NEW r \in TeamRequests, Moves(r), UNCHANGED <<invitation, team>>,
         Informed(r)', treq[r].pc \in AmongMembers,
         member' \in [TeamUsers -> Memberships \cup {Absent}],
         overwritten \/ OneOwner(member) => overwritten' \/ OneOwner(member)'
  PROVE  TeamInv'
<1>1. team # "none" /\ (overwritten \/ OneOwner(member))
  BY DEF TeamInv, Ownership
<1> QED BY <1>1, OthersInformed, Stay DEF TeamInv, Ownership

LEMMA RemoveStep ==
  ASSUME TeamInv, NEW r \in TeamRequests, RemoveRow(r)
  PROVE  TeamInv'
<1> DEFINE u == IF TAt(r, "leave") THEN treq[r].by ELSE treq[r].target
           row == treq[r].row
<1>1. u \in TeamUsers /\ treq[r].pc \in AmongMembers
  BY DEF TeamInv, TShape, RemoveRow, AmongMembers
<1>2. row \in Memberships /\ row.role # "OWNER"
  BY DEF TeamInv, Informed, RemoveRow
<1>3. /\ member' = [member EXCEPT ![u] = IF Fails(u, row) THEN member[u] ELSE Absent]
      /\ overwritten' = (overwritten \/ ~(Fails(u, row) \/ member[u] \in {row, Absent}))
      /\ UNCHANGED <<invitation, team>>
      /\ Moves(r) /\ treq'[r].pc = "drop" /\ treq'[r].then = "done"
  BY FinishMoves DEF RemoveRow, Without
<1> HIDE DEF u, row
<1>4. member' \in [TeamUsers -> Memberships \cup {Absent}]
  BY <1>1, <1>3 DEF TeamInv
<1>5. ASSUME OneOwner(member), ~overwritten' PROVE OneOwner(member)'
  <2>1. PICK v \in TeamUsers :
           /\ member[v] # Absent /\ member[v].role = "OWNER"
           /\ \A x \in TeamUsers \ {v} : member[x] # Absent => member[x].role # "OWNER"
    BY <1>5 DEF OneOwner
  <2>2. CASE Fails(u, row) \/ member[u] = Absent
    BY <1>1, <1>3, <1>5, <2>1, <2>2 DEF OneOwner, TeamInv
  <2>3. CASE ~Fails(u, row) /\ member[u] = row
    <3>1. v # u
      BY <1>2, <2>1, <2>3
    <3> QED BY <1>1, <1>3, <2>1, <3>1 DEF OneOwner, TeamInv
  <2> QED BY <1>3, <1>5, <2>2, <2>3
<1>6. Informed(r)'
  BY <1>3, DropInforms
<1> QED BY <1>1, <1>3, <1>4, <1>5, <1>6, RowsKept

\* Saving rows: none is saved, or all, and those that were read are still there.
LEMMA SaveMoves ==
  ASSUME TeamInv, NEW r \in TeamRequests, NEW read, NEW rows, NEW drops,
         Save(r, read, rows, drops), DOMAIN rows \subseteq TeamUsers,
         \A u \in DOMAIN rows : rows[u] \in Memberships
  PROVE  /\ Moves(r) /\ Informed(r)' /\ UNCHANGED <<invitation, team>>
         /\ member' \in [TeamUsers -> Memberships \cup {Absent}]
         /\ \/ member' = member /\ (overwritten' <=> overwritten)
            \/ /\ member' = [u \in TeamUsers |-> IF u \in DOMAIN rows THEN rows[u] ELSE member[u]]
               /\ overwritten' \/ \A u \in DOMAIN rows : member[u] = read[u]
<1> DEFINE fails == \E u \in DOMAIN rows : Fails(u, rows[u])
<1>1. /\ member' = IF fails THEN member
                   ELSE [u \in TeamUsers |-> IF u \in DOMAIN rows THEN rows[u] ELSE member[u]]
      /\ overwritten' = (overwritten \/ (~fails /\ \E u \in DOMAIN rows : member[u] # read[u]))
      /\ IF fails THEN Refuse(r) ELSE Finish(r, drops, "done")
      /\ UNCHANGED <<invitation, team>>
  BY DEF Save
<1> HIDE DEF fails
<1>2. Moves(r) /\ treq'[r].pc \in {"drop", "refused"} /\ treq'[r].then \in {"done", "warm"}
  <2>1. CASE fails
    <3>1. treq[r].then \in {"done", "warm"}
      BY DEF TeamInv, Informed
    <3> QED BY <1>1, <2>1, <3>1 DEF Refuse, TGoto, TeamInv, TShape, TFields, Moves
  <2>2. CASE ~fails
    BY <1>1, <2>2, FinishMoves
  <2> QED BY <2>1, <2>2
<1>3. Informed(r)'
  BY <1>2, DropInforms
<1>4. member' \in [TeamUsers -> Memberships \cup {Absent}]
  BY <1>1 DEF TeamInv
<1>5. \/ member' = member /\ (overwritten' <=> overwritten)
      \/ /\ member' = [u \in TeamUsers |-> IF u \in DOMAIN rows THEN rows[u] ELSE member[u]]
         /\ overwritten' \/ \A u \in DOMAIN rows : member[u] = read[u]
  <2>1. CASE fails
    <3>1. overwritten' <=> overwritten
      BY <1>1, <2>1
    <3> QED BY <1>1, <2>1, <3>1
  <2>2. CASE ~fails
    BY <1>1, <2>2
  <2> QED BY <2>1, <2>2
<1> QED BY <1>1, <1>2, <1>3, <1>4, <1>5

LEMMA SaveRoleStep ==
  ASSUME TeamInv, NEW r \in TeamRequests, SaveRole(r)
  PROVE  TeamInv'
<1> DEFINE u == treq[r].target
           row == treq[r].row
           new == [row EXCEPT !.role = treq[r].role]
           rows == [x \in {u} |-> new]
           read == [x \in {u} |-> row]
<1>1. /\ u \in TeamUsers /\ treq[r].pc \in AmongMembers
      /\ row \in Memberships /\ row.role # "OWNER"
      /\ treq[r].role \in Roles /\ treq[r].role # "OWNER"
  BY DEF TeamInv, TShape, Informed, SaveRole, SaveTarget, TAt, AmongMembers
<1>2. new \in Memberships /\ new.role # "OWNER"
  BY <1>1 DEF Memberships
<1>3. PICK drops : Save(r, read, rows, drops)
  BY DEF SaveRole, SaveTarget
<1> HIDE DEF u, row, new
<1>4. DOMAIN rows = {u} /\ rows[u] = new /\ read[u] = row
  OBVIOUS
<1> HIDE DEF rows, read
<1>5. /\ Moves(r) /\ Informed(r)' /\ UNCHANGED <<invitation, team>>
      /\ member' \in [TeamUsers -> Memberships \cup {Absent}]
      /\ \/ member' = member /\ (overwritten' <=> overwritten)
         \/ /\ member' = [x \in TeamUsers |-> IF x \in DOMAIN rows THEN rows[x] ELSE member[x]]
            /\ overwritten' \/ \A x \in DOMAIN rows : member[x] = read[x]
  BY <1>1, <1>2, <1>3, <1>4, SaveMoves
<1>6. overwritten \/ OneOwner(member) => overwritten' \/ OneOwner(member)'
  <2>1. CASE member' = member /\ (overwritten' <=> overwritten)
    BY <2>1 DEF OneOwner
  <2>2. CASE overwritten'
    BY <2>2
  <2>3. ASSUME ~overwritten', member[u] = row,
               \A x \in TeamUsers : member'[x] = IF x = u THEN new ELSE member[x],
               OneOwner(member)
        PROVE  OneOwner(member)'
    <3>1. PICK v \in TeamUsers :
             /\ member[v] # Absent /\ member[v].role = "OWNER"
             /\ \A x \in TeamUsers \ {v} : member[x] # Absent => member[x].role # "OWNER"
      BY <2>3 DEF OneOwner
    <3>2. v # u
      BY <1>1, <2>3, <3>1
    <3> QED BY <1>2, <2>3, <3>1, <3>2 DEF OneOwner
  <2>4. overwritten => overwritten'
    BY DEF SaveRole, SaveTarget, Save
  <2> QED BY <1>4, <1>5, <2>1, <2>2, <2>3, <2>4
<1> QED BY <1>1, <1>5, <1>6, RowsKept

LEMMA SaveOwnersStep ==
  ASSUME TeamInv, NEW r \in TeamRequests, SaveOwners(r)
  PROVE  TeamInv'
<1> DEFINE by == treq[r].by
           to == treq[r].target
           old == treq[r].other
           new == treq[r].row
           admin == [old EXCEPT !.role = "ADMIN"]
           owner == [new EXCEPT !.role = "OWNER"]
           rows == [u \in {by, to} |-> IF u = by THEN admin ELSE owner]
           read == [u \in {by, to} |-> IF u = by THEN old ELSE new]
<1>1. /\ by \in TeamUsers /\ to \in TeamUsers /\ by # to /\ treq[r].pc \in AmongMembers
      /\ old \in Memberships /\ new \in Memberships /\ old.role = "OWNER"
  BY DEF TeamInv, TShape, Informed, SaveOwners, TAt, AmongMembers
<1>2. /\ admin \in Memberships /\ admin.role = "ADMIN"
      /\ owner \in Memberships /\ owner.role = "OWNER" /\ owner # Absent
  BY <1>1, TeamAssumption DEF Memberships, Roles
<1>3. PICK drops : Save(r, read, rows, drops)
  BY DEF SaveOwners
<1> HIDE DEF by, to, old, new, admin, owner
<1>4. /\ DOMAIN rows = {by, to} /\ rows[by] = admin /\ rows[to] = owner
      /\ read[by] = old /\ read[to] = new
  BY <1>1
<1> HIDE DEF rows, read
<1>5. /\ Moves(r) /\ Informed(r)' /\ UNCHANGED <<invitation, team>>
      /\ member' \in [TeamUsers -> Memberships \cup {Absent}]
      /\ \/ member' = member /\ (overwritten' <=> overwritten)
         \/ /\ member' = [x \in TeamUsers |-> IF x \in DOMAIN rows THEN rows[x] ELSE member[x]]
            /\ overwritten' \/ \A x \in DOMAIN rows : member[x] = read[x]
  BY <1>1, <1>2, <1>3, <1>4, SaveMoves
<1>6. overwritten \/ OneOwner(member) => overwritten' \/ OneOwner(member)'
  <2>1. CASE member' = member /\ (overwritten' <=> overwritten)
    BY <2>1 DEF OneOwner
  <2>2. CASE overwritten'
    BY <2>2
  <2>3. ASSUME member[by] = old,
               \A x \in TeamUsers : member'[x] = IF x = by THEN admin
                                                 ELSE IF x = to THEN owner ELSE member[x],
               OneOwner(member)
        PROVE  OneOwner(member)'
    <3>1. PICK v \in TeamUsers :
             /\ member[v] # Absent /\ member[v].role = "OWNER"
             /\ \A x \in TeamUsers \ {v} : member[x] # Absent => member[x].role # "OWNER"
      BY <2>3 DEF OneOwner
    <3>2. old # Absent
      BY <1>1, TeamAssumption
    <3>3. v = by
      BY <1>1, <2>3, <3>1, <3>2
    <3>4. member'[to] = owner /\ member'[by] = admin
      BY <1>1, <2>3
    <3>5. ASSUME NEW x \in TeamUsers \ {to}, member'[x] # Absent PROVE member'[x].role # "OWNER"
      <4>1. CASE x = by
        BY <1>2, <3>4, <4>1
      <4>2. CASE x # by
        BY <2>3, <3>1, <3>3, <3>5, <4>2
      <4> QED BY <4>1, <4>2
    <3> QED BY <1>1, <1>2, <3>4, <3>5 DEF OneOwner
  <2>4. overwritten => overwritten'
    BY DEF SaveOwners, Save
  <2> QED BY <1>4, <1>5, <2>1, <2>2, <2>3, <2>4
<1> QED BY <1>1, <1>5, <1>6, RowsKept

LEMMA TeamRowStep ==
  ASSUME TeamInv, NEW r \in TeamRequests,
         CreateTeam(r) \/ UpdateTeam(r) \/ SoftDelete(r) \/ FindMembers(r)
  PROVE  TeamInv'
<1>1. CASE CreateTeam(r) /\ team = "none"
  <2> DEFINE u == treq[r].by
             new == [id |-> r, role |-> "OWNER"]
  <2>1. /\ member' = [member EXCEPT ![u] = new] /\ team' = "active"
        /\ UNCHANGED <<invitation, overwritten>>
        /\ Moves(r) /\ treq'[r].pc = "drop" /\ treq'[r].then = "warm"
    BY <1>1 DEF CreateTeam, TeamInv, TShape, TFields, Moves, History
  <2>2. new \in Memberships /\ new # Absent /\ new.role = "OWNER" /\ u \in TeamUsers
    BY TeamAssumption DEF Memberships, Ids, Roles, TeamInv, TShape
  <2>3. \A x \in TeamUsers : member[x] = Absent
    BY <1>1 DEF TeamInv, Ownership
  <2> HIDE DEF u, new
  <2>4. Ownership' /\ member' \in [TeamUsers -> Memberships \cup {Absent}]
    BY <2>1, <2>2, <2>3 DEF TeamInv, Ownership, OneOwner
  <2> QED BY <2>1, <2>4, DropInforms, OthersInformed, Stay DEF TeamInv
<1>2. CASE CreateTeam(r) /\ team # "none"
  BY <1>2, GotoKept, Stay DEF CreateTeam, Refuse, TGoto, History, Harmless
<1>3. CASE UpdateTeam(r)
  <2>1. UNCHANGED <<member, team, overwritten, invitation>>
    BY <1>3 DEF UpdateTeam, Rows, History
  <2>2. CASE team = "active"
    BY <1>3, <2>1, <2>2, FinishKept DEF UpdateTeam
  <2>3. CASE team # "active"
    BY <1>3, <2>1, <2>3, GotoKept, Stay DEF UpdateTeam, Refuse, TGoto, Harmless
  <2> QED BY <2>2, <2>3
<1>4. CASE SoftDelete(r)
  <2>1. /\ UNCHANGED <<member, overwritten, invitation>>
        /\ team' = IF team = "active" THEN "deleted" ELSE team
        /\ Moves(r) /\ treq'[r].pc \in {"findMembers", "refused"}
        /\ treq'[r].then = treq[r].then
    BY <1>4 DEF SoftDelete, Refuse, TGoto, History, TeamInv, TShape, TFields, Moves
  <2>2. Informed(r)'
    BY <2>1 DEF Informed, TeamInv
  <2>3. Ownership'
    BY <2>1 DEF TeamInv, Ownership, AmongMembers, Moves, OneOwner
  <2> QED BY <2>1, <2>2, <2>3, OthersInformed, Stay DEF TeamInv
<1>5. CASE FindMembers(r)
  BY <1>5, FinishKept DEF FindMembers, Rows, History
<1> QED BY <1>1, <1>2, <1>3, <1>4, <1>5

-----------------------------------------------------------------------------
(* The invitations.                                                        *)

LEMMA InvitationStep ==
  ASSUME TeamInv, NEW r \in TeamRequests,
         SaveNewInvitation(r) \/ FindInvitation(r) \/ SaveInvitation(r) \/ FindMembership(r)
  PROVE  TeamInv'
<1>1. CASE SaveNewInvitation(r)
  <2> DEFINE new == [to |-> treq[r].target, role |-> treq[r].role,
                     status |-> "PENDING", late |-> FALSE]
  <2>1. new \in Invitations /\ new # Absent /\ r \in Ids
    <3>1. treq[r].target \in TeamUsers /\ treq[r].role \in Roles \ {"OWNER"}
      BY <1>1 DEF SaveNewInvitation, TAt, TeamInv, TShape, Informed
    <3>2. new \in Invitations
      BY <3>1 DEF Invitations
    <3> QED BY <3>2, TeamAssumption DEF Ids
  <2>2. /\ UNCHANGED <<member, team, overwritten>>
        /\ invitation' \in {invitation, [invitation EXCEPT ![r] = new]}
    BY <1>1 DEF SaveNewInvitation, History
  <2>3. PICK pc \in Harmless : treq' = [treq EXCEPT ![r].pc = pc]
    BY <1>1 DEF SaveNewInvitation, TGoto, Harmless
  <2> HIDE DEF new
  <2>4. InvitationsStay
    BY <2>1, <2>2 DEF TeamInv, InvitationsStay
  <2> QED BY <2>2, <2>3, <2>4, GotoKept
<1>2. CASE FindInvitation(r)
  <2>1. /\ UNCHANGED <<member, team, overwritten, invitation>> /\ Moves(r)
        /\ treq'[r].then = treq[r].then
        /\ \/ treq'[r].pc = "refused"
           \/ /\ invitation[treq[r].inv] # Absent /\ treq'[r].row = invitation[treq[r].inv]
              /\ \/ treq'[r].pc \in {"CANCELLED", "DECLINED", "EXPIRED"}
                 \/ treq'[r].pc = "join" /\ team = "active"
    BY <1>2 DEF FindInvitation, Refuse, TGoto, Pending, Rows, History, TeamInv, TShape, TFields,
                Moves
  <2>2. invitation[treq[r].inv] \in Invitations \cup {Absent}
    BY DEF TeamInv, TShape
  <2>3. Informed(r)' /\ (team = "none" => treq'[r].pc \notin AmongMembers)
    BY <2>1, <2>2 DEF Informed, AmongMembers, TeamInv, Moves
  <2> QED BY <2>1, <2>3, MoveKept, Stay
<1>3. CASE SaveInvitation(r)
  <2> DEFINE i == treq[r].inv
             status == IF TAt(r, "known") THEN "ACCEPTED" ELSE treq[r].pc
  <2>1. i \in Ids /\ invitation[i] \in Invitations
    BY <1>3 DEF SaveInvitation, TeamInv, TShape, Informed
  <2>2. /\ UNCHANGED <<member, team, overwritten>>
        /\ invitation' = [invitation EXCEPT ![i] = [invitation[i] EXCEPT !.status = status]]
        /\ Moves(r) /\ treq'[r].pc \in {"drop", "refused", "done"}
        /\ treq'[r].then \in {treq[r].then, "warm"}
    BY <1>3 DEF SaveInvitation, Refuse, TGoto, TAt, History, TeamInv, TShape, TFields, Moves
  <2>3. status \in {"ACCEPTED", "DECLINED", "EXPIRED", "CANCELLED"}
    BY <1>3 DEF SaveInvitation, TAt
  <2> HIDE DEF i, status
  <2>4. [invitation[i] EXCEPT !.status = status] \in Invitations
    BY <2>1, <2>3 DEF Invitations
  <2>5. InvitationsStay
    BY <2>1, <2>2, <2>4, TeamAssumption DEF TeamInv, InvitationsStay
  <2>6. Informed(r)' /\ treq'[r].pc \notin AmongMembers
    BY <2>2 DEF Informed, AmongMembers, TeamInv
  <2> QED BY <2>2, <2>5, <2>6, MoveKept
<1>4. CASE FindMembership(r)
  <2>1. /\ UNCHANGED <<member, team, overwritten, invitation>> /\ Moves(r)
        /\ treq[r].pc = "join" /\ treq'[r].pc \in {"known", "insert"}
        /\ treq'[r].row = treq[r].row /\ treq'[r].then = treq[r].then
    BY <1>4 DEF FindMembership, TGoto, TAt, Rows, History, TeamInv, TShape, TFields, Moves
  <2>2. Informed(r)' /\ (team = "none" => treq'[r].pc \notin AmongMembers)
    BY <2>1 DEF Informed, AmongMembers, TeamInv, Moves, Ownership
  <2> QED BY <2>1, <2>2, MoveKept, Stay
<1> QED BY <1>1, <1>2, <1>3, <1>4

LEMMA JoinStep ==
  ASSUME TeamInv, NEW r \in TeamRequests, Join(r)
  PROVE  TeamInv'
<1> DEFINE u == treq[r].by
           new == [id |-> r, role |-> treq[r].row.role]
<1>1. u \in TeamUsers /\ new \in Memberships /\ new.role # "OWNER" /\ treq[r].pc = "insert"
  BY DEF Join, TAt, TeamInv, TShape, Informed, Memberships, Invitations, Ids
<1>2. CASE member[u] = Absent
  <2>1. /\ member' = [member EXCEPT ![u] = new] /\ UNCHANGED <<invitation, team, overwritten>>
        /\ Moves(r) /\ treq'[r].pc = "ACCEPTED" /\ treq'[r].then = treq[r].then
    BY <1>2 DEF Join, TGoto, History, TeamInv, TShape, TFields, Moves
  <2>2. Informed(r)'
    BY <1>1, <2>1 DEF Informed, TeamInv, Moves
  <2> HIDE DEF u, new
  <2>3. member' \in [TeamUsers -> Memberships \cup {Absent}]
    BY <1>1, <2>1 DEF TeamInv
  <2>4. ASSUME OneOwner(member) PROVE OneOwner(member)'
    <3>1. PICK v \in TeamUsers :
             /\ member[v] # Absent /\ member[v].role = "OWNER"
             /\ \A x \in TeamUsers \ {v} : member[x] # Absent => member[x].role # "OWNER"
      BY <2>4 DEF OneOwner
    <3>2. \A x \in TeamUsers : member'[x] = IF x = u THEN new ELSE member[x]
      BY <1>1, <2>1 DEF TeamInv
    <3> QED BY <1>1, <1>2, <3>1, <3>2 DEF OneOwner
  <2> QED BY <1>1, <2>1, <2>2, <2>3, <2>4, RowsKept DEF AmongMembers
<1>3. CASE member[u] # Absent
  BY <1>3, GotoKept, Stay DEF Join, Refuse, TGoto, History, Harmless
<1> QED BY <1>2, <1>3

LEMMA TeamKept == ASSUME TeamInv, [TeamNext]_teamVars PROVE TeamInv'
<1>1. CASE UNCHANGED teamVars
  BY <1>1 DEF teamVars, TeamInv, TShape, Informed, Ownership, OneOwner
<1>2. ASSUME NEW r \in TeamRequests, TeamStep(r) PROVE TeamInv'
  BY <1>2, ViewStep, LookupStep, RemoveStep, SaveRoleStep, SaveOwnersStep, TeamRowStep,
     InvitationStep, JoinStep DEF TeamStep
<1>3. ASSUME NEW k \in Keys, KeyLapses(k) PROVE TeamInv'
  BY <1>3 DEF KeyLapses, Rows, TeamInv, TShape, Informed, Ownership, OneOwner
<1>4. ASSUME NEW i \in DOMAIN invitation, InvitationExpires(i) PROVE TeamInv'
  <2>1. /\ UNCHANGED <<member, team, treq, overwritten>> /\ i \in Ids
        /\ invitation' = [invitation EXCEPT ![i] = [invitation[i] EXCEPT !.late = TRUE]]
        /\ invitation[i] \in Invitations
    BY <1>4 DEF InvitationExpires, Pending, History, TeamInv
  <2>2. [invitation[i] EXCEPT !.late = TRUE] \in Invitations
    BY <2>1 DEF Invitations
  <2>3. InvitationsStay
    BY <2>1, <2>2, TeamAssumption DEF TeamInv, InvitationsStay
  <2>4. TShape' /\ Ownership' /\ \A r \in TeamRequests : Informed(r)'
    BY <2>1, <2>3 DEF TeamInv, TShape, Informed, Ownership, OneOwner, InvitationsStay
  <2> QED BY <2>1, <2>3, <2>4 DEF TeamInv, InvitationsStay
<1> QED BY <1>1, <1>2, <1>3, <1>4 DEF TeamNext

(* A team has exactly one owner, unless a request saves or removes a row     *)
(* that has changed since it read it (OneOwnerUnlessOverwritten), for any    *)
(* users, requests and invitations.                                          *)
THEOREM TeamsHaveOneOwner == TeamSpec => []OneOwnerUnlessOverwritten
<1>1. TeamInit => TeamInv
  BY TeamInitInv
<1>2. TeamInv /\ [TeamNext]_teamVars => TeamInv'
  BY TeamKept
<1>3. TeamInv => OneOwnerUnlessOverwritten
  BY DEF TeamInv, Ownership, OneOwnerUnlessOverwritten
<1> QED BY <1>1, <1>2, <1>3, PTL DEF TeamSpec

-----------------------------------------------------------------------------
(* The cached roles.                                                       *)

CacheInv ==
    /\ DOMAIN tcache = Keys
    /\ \A r \in TeamRequests : TAt(r, "drop") => treq[r].drops \in Seq(SUBSET Keys)
    /\ CachedRoleIsCurrent

LEMMA KeysDiffer ==
  ASSUME NEW u \in TeamUsers
  PROVE  /\ Member(u) \in Keys /\ Member(u)[1] = "member"
         /\ \A v \in TeamUsers : /\ Member(u) = Member(v) => u = v
                                 /\ Member(u) # List(v) /\ List(v) \in Keys
         /\ Member(u) # Detail /\ Detail \in Keys
  BY DEF Keys, Member, List, Detail

LEMMA CacheInit == ASSUME TeamInit PROVE CacheInv
<1>1. tcache = [k \in Keys |-> Absent]
  BY DEF TeamInit
<1>2. \A r \in TeamRequests : treq[r].pc = "new"
  <2> PICK w \in TeamWorkloads : treq = [r \in TeamRequests |-> NewTeamRequest(w.jobs[r])]
    BY DEF TeamInit
  <2>1. ASSUME NEW r \in TeamRequests PROVE treq[r].pc = "new"
    <3>1. treq[r] = NewTeamRequest(w.jobs[r])
      OBVIOUS
    <3> QED BY <3>1 DEF NewTeamRequest
  <2> QED BY <2>1
<1> QED BY <1>1, <1>2, KeysDiffer DEF CacheInv, CachedRoleIsCurrent, TAt

OthersStay(r) == \A s \in TeamRequests \ {r} : treq'[s] = treq[s]

\* Who is not about to delete keys changes a role only if nothing of it is cached, or
\* he is about to delete the key from now on.
LEMMA RoleChange ==
  ASSUME CacheInv, NEW r \in TeamRequests, OthersStay(r),
         treq[r].pc \notin {"drop", "findMembers"},
         treq'[r].pc = "drop" => treq'[r].drops \in Seq(SUBSET Keys),
         UNCHANGED <<tcache, traced>>,
         \A u \in TeamUsers : Current(u)' = Current(u) \/ Current(u) = Absent \/ Dropping(u)'
  PROVE  CacheInv'
<1>1. ASSUME NEW u \in TeamUsers, Dropping(u) PROVE Dropping(u)'
  BY <1>1 DEF Dropping, OthersStay, TAt
<1>2. CachedRoleIsCurrent'
  BY <1>1 DEF CacheInv, CachedRoleIsCurrent
<1> QED BY <1>2 DEF CacheInv, OthersStay, TAt

LEMMA SameRoles ==
  ASSUME UNCHANGED <<member, team>>, NEW u \in TeamUsers
  PROVE  Current(u)' = Current(u)
  BY DEF Current, Role

LEMMA QuietCacheStep ==
  ASSUME TeamInv, CacheInv, NEW r \in TeamRequests,
         \/ TeamStart(r) \/ TAsk(r) \/ TLook(r) \/ ListTeams(r) \/ FindTeam(r) \/ UseTeam(r)
         \/ UpdateRole(r) \/ FindTarget(r) \/ RemoveMember(r) \/ Leave(r)
         \/ Transfer(r) \/ FindNewOwner(r) \/ DeleteTeam(r)
         \/ Invite(r) \/ SaveNewInvitation(r) \/ FindInvitation(r) \/ FindMembership(r)
  PROVE  CacheInv'
<1>1. UNCHANGED <<member, team, tcache, traced>>
  BY DEF TeamStart, TAsk, TLook, ListTeams, FindTeam, UseTeam, UpdateRole, FindTarget,
         RemoveMember, Leave, Transfer, FindNewOwner, DeleteTeam, Read, Invite,
         SaveNewInvitation, FindInvitation, FindMembership, Rows, History
<1>2. /\ OthersStay(r) /\ treq[r].pc \notin {"drop", "findMembers"} /\ treq'[r].pc # "drop"
  <2>1. CASE TeamStart(r) \/ TLook(r) \/ ListTeams(r) \/ FindTeam(r) \/ UseTeam(r)
    BY <2>1 DEF TeamStart, TLook, ListTeams, FindTeam, UseTeam, TAt, TGoto, Found, OthersStay,
                TeamInv, TShape, TFields, TeamOps
  <2>2. CASE TAsk(r)
    <3>1. TAnswered(r, tcache[TKey(r)]) # "drop"
      BY DEF TAnswered, TeamInv, TShape, TeamOps
    <3> QED BY <2>2, <3>1 DEF TAsk, TAt, TGoto, OthersStay, TeamInv, TShape, TFields
  <2>3. CASE UpdateRole(r) \/ FindTarget(r) \/ RemoveMember(r) \/ Leave(r)
             \/ Transfer(r) \/ FindNewOwner(r) \/ DeleteTeam(r)
    <3>1. CASE UpdateRole(r) \/ FindTarget(r) \/ RemoveMember(r)
      BY <3>1 DEF UpdateRole, FindTarget, RemoveMember,
                  Read, Refuse, TAt, TGoto, OthersStay, TeamInv, TShape, TFields
    <3>2. CASE Leave(r) \/ Transfer(r) \/ FindNewOwner(r) \/ DeleteTeam(r)
      BY <3>2 DEF Leave, Transfer, FindNewOwner, DeleteTeam,
                  Read, Refuse, TAt, TGoto, OthersStay, TeamInv, TShape, TFields
    <3> QED BY <2>3, <3>1, <3>2
  <2>4. CASE Invite(r) \/ SaveNewInvitation(r) \/ FindInvitation(r) \/ FindMembership(r)
    <3>1. CASE Invite(r) \/ SaveNewInvitation(r)
      BY <3>1 DEF Invite, SaveNewInvitation, Refuse, TAt, TGoto, OthersStay, TeamInv, TShape, TFields
    <3>2. CASE FindInvitation(r) \/ FindMembership(r)
      BY <3>2 DEF FindInvitation, FindMembership, Refuse, TAt, TGoto,
                  OthersStay, TeamInv, TShape, TFields
    <3> QED BY <2>4, <3>1, <3>2
  <2> QED BY <2>1, <2>2, <2>3, <2>4
<1> QED BY <1>1, <1>2, RoleChange, SameRoles

LEMMA FinishDrops ==
  ASSUME TeamInv, NEW r \in TeamRequests, NEW drops \in Seq(SUBSET Keys), NEW then,
         Finish(r, drops, then)
  PROVE  /\ OthersStay(r) /\ treq'[r].pc = "drop" /\ treq'[r].drops = drops
         /\ \A u \in TeamUsers : (\E i \in DOMAIN drops : Member(u) \in drops[i]) => Dropping(u)'
<1>1. OthersStay(r) /\ treq'[r].pc = "drop" /\ treq'[r].drops = drops
  BY DEF Finish, OthersStay, TeamInv, TShape, TFields
<1> QED BY <1>1 DEF Dropping, TAt

LEMMA OneSet ==
  ASSUME NEW a \in SUBSET Keys
  PROVE  <<a>> \in Seq(SUBSET Keys) /\ 1 \in DOMAIN <<a>> /\ <<a>>[1] = a
  OBVIOUS

LEMMA TwoSets ==
  ASSUME NEW a \in SUBSET Keys, NEW b \in SUBSET Keys
  PROVE  /\ <<a, b>> \in Seq(SUBSET Keys)
         /\ 1 \in DOMAIN <<a, b>> /\ <<a, b>>[1] = a
         /\ 2 \in DOMAIN <<a, b>> /\ <<a, b>>[2] = b
  OBVIOUS

\* A save that fails ends in a refusal and changes nothing.
LEMMA SaveRoles ==
  ASSUME TeamInv, CacheInv, NEW r \in TeamRequests, NEW read, NEW rows,
         NEW drops \in Seq(SUBSET Keys), Save(r, read, rows, drops),
         treq[r].pc \notin {"drop", "findMembers"},
         \A u \in TeamUsers \cap DOMAIN rows : \E i \in DOMAIN drops : Member(u) \in drops[i]
  PROVE  CacheInv'
<1> DEFINE fails == \E u \in DOMAIN rows : Fails(u, rows[u])
<1>1. /\ member' = IF fails THEN member
                   ELSE [u \in TeamUsers |-> IF u \in DOMAIN rows THEN rows[u] ELSE member[u]]
      /\ IF fails THEN Refuse(r) ELSE Finish(r, drops, "done")
      /\ UNCHANGED <<team, tcache, traced>>
  BY DEF Save
<1> HIDE DEF fails
<1>2. CASE fails
  <2>1. OthersStay(r) /\ treq'[r].pc = "refused"
    BY <1>1, <1>2 DEF Refuse, TGoto, OthersStay, TeamInv, TShape, TFields
  <2> QED BY <1>1, <1>2, <2>1, RoleChange, SameRoles
<1>3. CASE ~fails
  <2>1. /\ OthersStay(r) /\ treq'[r].pc = "drop" /\ treq'[r].drops = drops
        /\ \A u \in TeamUsers \cap DOMAIN rows : Dropping(u)'
    BY <1>1, <1>3, FinishDrops
  <2>2. \A u \in TeamUsers \ DOMAIN rows : Current(u)' = Current(u)
    BY <1>1, <1>3 DEF Current, Role
  <2> QED BY <1>1, <2>1, <2>2, RoleChange
<1> QED BY <1>2, <1>3

LEMMA SaveCacheStep ==
  ASSUME TeamInv, CacheInv, NEW r \in TeamRequests, SaveRole(r) \/ SaveOwners(r)
  PROVE  CacheInv'
<1> DEFINE to == treq[r].target
           by == treq[r].by
<1>1. /\ to \in TeamUsers /\ by \in TeamUsers
      /\ {Member(to)} \in SUBSET Keys /\ {Member(by)} \in SUBSET Keys
  BY KeysDiffer DEF TeamInv, TShape
<1>2. CASE SaveRole(r)
  <2>1. PICK read, rows : Save(r, read, rows, <<{Member(to)}>>) /\ DOMAIN rows = {to}
    BY <1>2 DEF SaveRole, SaveTarget
  <2>2. treq[r].pc \notin {"drop", "findMembers"}
    BY <1>2 DEF SaveRole, SaveTarget, TAt
  <2> HIDE DEF to
  <2> QED BY <1>1, <2>1, <2>2, OneSet, SaveRoles
<1>3. CASE SaveOwners(r)
  <2>1. PICK read, rows : Save(r, read, rows, <<{Member(by)}, {Member(to)}>>)
                            /\ DOMAIN rows = {by, to}
    BY <1>3 DEF SaveOwners
  <2>2. treq[r].pc \notin {"drop", "findMembers"}
    BY <1>3 DEF SaveOwners, TAt
  <2> HIDE DEF by, to
  <2> DEFINE drops == <<{Member(by)}, {Member(to)}>>
  <2>3. drops \in Seq(SUBSET Keys) /\ \A u \in {by, to} : \E i \in DOMAIN drops : Member(u) \in drops[i]
    BY <1>1, TwoSets
  <2>4. Save(r, read, rows, drops)
    BY <2>1
  <2> HIDE DEF drops
  <2> QED BY <2>1, <2>2, <2>3, <2>4, SaveRoles
<1> QED BY <1>2, <1>3

LEMMA RemoveCacheStep ==
  ASSUME TeamInv, CacheInv, NEW r \in TeamRequests, RemoveRow(r)
  PROVE  CacheInv'
<1>1. PICK u \in TeamUsers : u = IF TAt(r, "leave") THEN treq[r].by ELSE treq[r].target
  BY DEF TeamInv, TShape
<1> DEFINE drops == <<{Member(u)}, {List(u)}>>
<1>2. /\ \A v \in TeamUsers \ {u} : member'[v] = member[v]
      /\ Finish(r, drops, "done") /\ UNCHANGED <<team, tcache, traced>>
      /\ treq[r].pc \notin {"drop", "findMembers"}
  BY <1>1 DEF RemoveRow, TeamInv, TAt
<1>3. /\ {Member(u)} \in SUBSET Keys /\ {List(u)} \in SUBSET Keys
  BY KeysDiffer
<1>4. drops \in Seq(SUBSET Keys) /\ \E i \in DOMAIN drops : Member(u) \in drops[i]
  BY <1>3, TwoSets
<1> HIDE DEF drops
<1>5. OthersStay(r) /\ treq'[r].drops \in Seq(SUBSET Keys) /\ Dropping(u)'
  BY <1>2, <1>4, FinishDrops
<1>6. \A v \in TeamUsers \ {u} : Current(v)' = Current(v)
  BY <1>2 DEF Current, Role
<1> QED BY <1>2, <1>5, <1>6, RoleChange

\* MembershipPattern covers the keys of all the memberships.
LEMMA EveryoneIsKeys == Everyone \in SUBSET Keys /\ \A u \in TeamUsers : Member(u) \in Everyone
  BY DEF Everyone, Keys

LEMMA TeamRowCacheStep ==
  ASSUME TeamInv, CacheInv, NEW r \in TeamRequests,
         CreateTeam(r) \/ UpdateTeam(r) \/ SoftDelete(r) \/ FindMembers(r)
  PROVE  CacheInv'
<1>1. CASE CreateTeam(r)
  <2> DEFINE drops == <<{List(treq[r].by)}>>
  <2>1. drops \in Seq(SUBSET Keys)
    BY KeysDiffer, OneSet DEF TeamInv, TShape
  <2> HIDE DEF drops
  <2>2. /\ OthersStay(r) /\ treq[r].pc \notin {"drop", "findMembers"}
        /\ treq'[r].pc = "drop" => treq'[r].drops = drops
        /\ UNCHANGED <<tcache, traced>>
    BY <1>1 DEF CreateTeam, Refuse, TAt, TGoto, History, OthersStay, TeamInv, TShape, TFields, drops
  <2>3. \A u \in TeamUsers : Current(u)' = Current(u) \/ Current(u) = Absent
    BY <1>1 DEF CreateTeam, Current, Role
  <2> QED BY <2>1, <2>2, <2>3, RoleChange
<1>2. CASE UpdateTeam(r)
  <2>1. UNCHANGED <<member, team, tcache, traced>> /\ treq[r].pc \notin {"drop", "findMembers"}
    BY <1>2 DEF UpdateTeam, Rows, History, TAt
  <2>2. CASE team = "active"
    <3> DEFINE drops == <<{Detail}, Everyone>>
    <3>1. drops \in Seq(SUBSET Keys) /\ Finish(r, drops, "done")
      BY <1>2, <2>2, EveryoneIsKeys, TwoSets DEF UpdateTeam, Keys
    <3> HIDE DEF drops
    <3> QED BY <2>1, <3>1, FinishDrops, RoleChange, SameRoles
  <2>3. CASE team # "active"
    <3>1. OthersStay(r) /\ treq'[r].pc = "refused"
      BY <1>2, <2>3 DEF UpdateTeam, Refuse, TGoto, OthersStay, TeamInv, TShape, TFields
    <3> QED BY <2>1, <3>1, RoleChange, SameRoles
  <2> QED BY <2>2, <2>3
<1>3. CASE SoftDelete(r)
  <2>1. /\ OthersStay(r) /\ treq[r].pc \notin {"drop", "findMembers"} /\ treq'[r].pc # "drop"
        /\ UNCHANGED <<member, tcache, traced>>
        /\ team' = team \/ treq'[r].pc = "findMembers"
    BY <1>3 DEF SoftDelete, Refuse, TAt, TGoto, History, OthersStay, TeamInv, TShape, TFields
  <2>2. \A u \in TeamUsers : Current(u)' = Current(u) \/ Dropping(u)'
    BY <2>1, SameRoles DEF Dropping, TAt
  <2> QED BY <2>1, <2>2, RoleChange
<1>4. CASE FindMembers(r)
  <2> DEFINE lists == {List(u) : u \in {v \in TeamUsers : member[v] # Absent}}
             drops == <<lists, {Detail}, Everyone>>
  <2>1. /\ Finish(r, drops, "done") /\ UNCHANGED <<member, team, tcache, traced>>
    BY <1>4 DEF FindMembers, Rows, History
  <2>2. lists \in SUBSET Keys /\ {Detail} \in SUBSET Keys
    BY DEF Keys
  <2> HIDE DEF lists
  <2>3. /\ drops \in Seq(SUBSET Keys) /\ 3 \in DOMAIN drops
        /\ \A u \in TeamUsers : Member(u) \in drops[3]
    BY <2>2, EveryoneIsKeys
  <2> HIDE DEF drops
  <2>4. /\ OthersStay(r) /\ treq'[r].drops \in Seq(SUBSET Keys)
        /\ \A u \in TeamUsers : Dropping(u)'
    BY <2>1, <2>3, FinishDrops
  <2>5. CachedRoleIsCurrent'
    BY <2>4 DEF CachedRoleIsCurrent
  <2> QED BY <2>1, <2>4, <2>5 DEF CacheInv, OthersStay, TAt
<1> QED BY <1>1, <1>2, <1>3, <1>4

LEMMA JoinCacheStep ==
  ASSUME TeamInv, CacheInv, NEW r \in TeamRequests, Join(r) \/ SaveInvitation(r)
  PROVE  CacheInv'
<1>1. CASE Join(r)
  <2>1. /\ OthersStay(r) /\ treq[r].pc \notin {"drop", "findMembers"} /\ treq'[r].pc # "drop"
        /\ UNCHANGED <<tcache, traced>>
    BY <1>1 DEF Join, Refuse, TAt, TGoto, History, OthersStay, TeamInv, TShape, TFields
  <2>2. \A u \in TeamUsers : Current(u)' = Current(u) \/ Current(u) = Absent
    BY <1>1 DEF Join, History, Current, Role, TeamInv
  <2> QED BY <2>1, <2>2, RoleChange
<1>2. CASE SaveInvitation(r)
  <2> DEFINE drops == <<{List(treq[r].by)}, {Detail}>>
  <2>1. drops \in Seq(SUBSET Keys)
    BY KeysDiffer, TwoSets DEF TeamInv, TShape
  <2> HIDE DEF drops
  <2>2. /\ OthersStay(r) /\ treq[r].pc \notin {"drop", "findMembers"}
        /\ treq'[r].pc = "drop" => treq'[r].drops = drops
        /\ UNCHANGED <<member, team, tcache, traced>>
    BY <1>2 DEF SaveInvitation, Refuse, TAt, TGoto, History, OthersStay, TeamInv, TShape,
                TFields, drops
  <2> QED BY <2>1, <2>2, RoleChange, SameRoles
<1> QED BY <1>1, <1>2

\* A role is put into the cache: it is the current one, or it is traced.
LEMMA PutCacheStep ==
  ASSUME TeamInv, CacheInv, NEW r \in TeamRequests, TFill(r) \/ Warm(r)
  PROVE  CacheInv'
<1>1. /\ UNCHANGED <<member, team>> /\ OthersStay(r)
      /\ treq[r].pc \notin {"drop", "findMembers"} /\ treq'[r].pc # "drop"
  <2>1. TAnswered(r, treq[r].row) # "drop"
    BY DEF TAnswered, TeamInv, TShape, TeamOps
  <2> QED BY <2>1 DEF TFill, Warm, TAt, TGoto, Rows, OthersStay, TeamInv, TShape, TFields
<1>2. \A u \in TeamUsers : Current(u)' = Current(u) /\ (Dropping(u) => Dropping(u)')
  BY <1>1, SameRoles DEF Dropping, OthersStay, TAt
<1>3. CASE PutMembership(treq[r].by, treq[r].row)
  <2> DEFINE u == treq[r].by
             role == treq[r].row
  <2>1. /\ u \in TeamUsers /\ Member(u) \in Keys
        /\ tcache' = [tcache EXCEPT ![Member(u)] = role]
        /\ traced' = IF role = Current(u) THEN traced \ {u} ELSE traced \cup {u}
    BY <1>3, KeysDiffer DEF PutMembership, TeamInv, TShape
  <2> HIDE DEF u, role
  <2>2. ASSUME NEW v \in TeamUsers
        PROVE  tcache'[Member(v)] \in {Absent, Current(v)} \/ v \in traced' \/ Dropping(v)
    <3>1. CASE v = u
      BY <2>1, <3>1 DEF CacheInv
    <3>2. CASE v # u
      <4>1. Member(v) # Member(u) /\ Member(v) \in Keys
        BY <2>1, <3>2, KeysDiffer
      <4> QED BY <2>1, <3>2, <4>1 DEF CacheInv, CachedRoleIsCurrent
    <3> QED BY <3>1, <3>2
  <2>3. CachedRoleIsCurrent'
    BY <1>2, <2>2 DEF CachedRoleIsCurrent
  <2> QED BY <1>1, <2>1, <2>3 DEF CacheInv, OthersStay, TAt
<1>4. CASE /\ TKey(r)[1] # "member" /\ UNCHANGED traced
           /\ tcache' = [tcache EXCEPT ![TKey(r)] = treq[r].row]
  <2>1. \A v \in TeamUsers : Member(v) # TKey(r) /\ Member(v) \in Keys
    BY <1>4, KeysDiffer
  <2>2. \A v \in TeamUsers : tcache'[Member(v)] = tcache[Member(v)]
    BY <1>4, <2>1 DEF CacheInv
  <2>3. CachedRoleIsCurrent'
    BY <1>2, <1>4, <2>2 DEF CacheInv, CachedRoleIsCurrent
  <2> QED BY <1>1, <1>4, <2>3 DEF CacheInv, OthersStay, TAt
<1> QED BY <1>3, <1>4 DEF TFill, Warm

LEMMA DropCacheStep ==
  ASSUME TeamInv, CacheInv, NEW r \in TeamRequests, DropKey(r) \/ AllDropped(r)
  PROVE  CacheInv'
<1> DEFINE drops == treq[r].drops
<1>1. drops \in Seq(SUBSET Keys) /\ treq[r].pc = "drop"
  BY DEF DropKey, AllDropped, CacheInv, TAt
<1>2. UNCHANGED <<member, team>> /\ OthersStay(r)
  BY DEF DropKey, AllDropped, TGoto, Rows, OthersStay, TeamInv, TShape, TFields
<1>3. \A u \in TeamUsers : Current(u)' = Current(u)
  BY <1>2, SameRoles
<1>4. CASE DropKey(r)
  <2>1. /\ drops # <<>> /\ treq'[r].drops = Tail(drops) /\ treq'[r].pc = "drop"
        /\ tcache' = [k \in Keys |-> IF k \in Head(drops) THEN Absent ELSE tcache[k]]
        /\ traced' = {u \in traced : Member(u) \notin Head(drops)}
    BY <1>1, <1>4 DEF DropKey, TeamInv, TShape, TFields
  <2> HIDE DEF drops
  <2>2. /\ Tail(drops) \in Seq(SUBSET Keys) /\ Head(drops) = drops[1]
        /\ \A i \in DOMAIN drops \ {1} :
              i - 1 \in DOMAIN Tail(drops) /\ Tail(drops)[i - 1] = drops[i]
    BY <1>1, <2>1
  <2>3. ASSUME NEW u \in TeamUsers
        PROVE  (tcache'[Member(u)] \in {Absent, Current(u)} \/ u \in traced' \/ Dropping(u)')
    <3>1. CASE Member(u) \in Head(drops)
      BY <2>1, <3>1, KeysDiffer
    <3>2. CASE Member(u) \notin Head(drops)
      <4>1. Dropping(u) => Dropping(u)'
        <5> SUFFICES ASSUME NEW q \in TeamRequests,
                            \/ TAt(q, "findMembers")
                            \/ /\ TAt(q, "drop")
                               /\ \E i \in DOMAIN treq[q].drops : Member(u) \in treq[q].drops[i]
                     PROVE  Dropping(u)'
          BY DEF Dropping
        <5>1. CASE q # r
          BY <1>2, <5>1 DEF Dropping, OthersStay, TAt
        <5>2. CASE q = r
          <6>1. PICK i \in DOMAIN drops : Member(u) \in drops[i]
            BY <1>1, <5>2 DEF TAt, drops
          <6>2. i - 1 \in DOMAIN Tail(drops) /\ Member(u) \in Tail(drops)[i - 1]
            BY <2>2, <3>2, <6>1
          <6> QED BY <2>1, <6>2 DEF Dropping, TAt
        <5> QED BY <5>1, <5>2
      <4>2. tcache'[Member(u)] = tcache[Member(u)] /\ (u \in traced => u \in traced')
        BY <2>1, <3>2, KeysDiffer
      <4> QED BY <4>1, <4>2 DEF CacheInv, CachedRoleIsCurrent
    <3> QED BY <3>1, <3>2
  <2>4. CachedRoleIsCurrent'
    BY <1>3, <2>3 DEF CachedRoleIsCurrent
  <2> QED BY <1>2, <2>1, <2>2, <2>4 DEF CacheInv, OthersStay, TAt
<1>5. CASE AllDropped(r)
  <2>1. drops = <<>> /\ UNCHANGED <<tcache, traced>> /\ treq'[r].pc \in {"done", "warm"}
    BY <1>5 DEF AllDropped, TGoto, TAt, History, TeamInv, TShape, TFields, Informed
  <2>2. \A u \in TeamUsers : Dropping(u) => Dropping(u)'
    BY <1>1, <1>2, <2>1 DEF Dropping, OthersStay, TAt
  <2>3. CachedRoleIsCurrent'
    BY <1>3, <2>1, <2>2 DEF CacheInv, CachedRoleIsCurrent
  <2> QED BY <1>2, <2>1, <2>3 DEF CacheInv, OthersStay, TAt
<1> QED BY <1>4, <1>5

LEMMA CacheStep == ASSUME TeamInv, CacheInv, [TeamNext]_teamVars PROVE CacheInv'
<1>1. CASE UNCHANGED teamVars
  BY <1>1 DEF teamVars, CacheInv, CachedRoleIsCurrent, Current, Role, Dropping, TAt
<1>2. ASSUME NEW r \in TeamRequests, TeamStep(r) PROVE CacheInv'
  BY <1>2, QuietCacheStep, SaveCacheStep, RemoveCacheStep, TeamRowCacheStep, JoinCacheStep,
     PutCacheStep, DropCacheStep DEF TeamStep
<1>3. ASSUME NEW k \in Keys, KeyLapses(k) PROVE CacheInv'
  <2>1. /\ UNCHANGED <<member, team, treq>> /\ tcache' = [tcache EXCEPT ![k] = Absent]
        /\ traced' = {u \in traced : Member(u) # k}
    BY <1>3 DEF KeyLapses, Rows
  <2>2. ASSUME NEW u \in TeamUsers
        PROVE  /\ Current(u)' = Current(u) /\ (Dropping(u) => Dropping(u)')
               /\ \/ tcache'[Member(u)] = Absent
                  \/ tcache'[Member(u)] = tcache[Member(u)] /\ (u \in traced => u \in traced')
    BY <2>1, SameRoles, KeysDiffer DEF Dropping, TAt, CacheInv
  <2>3. CachedRoleIsCurrent'
    BY <2>2 DEF CacheInv, CachedRoleIsCurrent
  <2> QED BY <2>1, <2>3 DEF CacheInv, TAt
<1>4. ASSUME NEW i \in DOMAIN invitation, InvitationExpires(i) PROVE CacheInv'
  BY <1>4 DEF InvitationExpires, History, CacheInv, CachedRoleIsCurrent, Current, Role,
              Dropping, TAt
<1> QED BY <1>1, <1>2, <1>3, <1>4 DEF TeamNext

(* The role the guard finds in the cache is the member's, unless it was read *)
(* before a change and cached after it, or whoever changed it is about to    *)
(* delete the key (CachedRoleIsCurrent), for any number of requests.         *)
THEOREM CachedRolesAreCurrent == TeamSpec => []CachedRoleIsCurrent
<1>1. TeamInit => TeamInv /\ CacheInv
  BY TeamInitInv, CacheInit
<1>2. TeamInv /\ CacheInv /\ [TeamNext]_teamVars => (TeamInv /\ CacheInv)'
  BY TeamKept, CacheStep
<1>3. TeamInv /\ CacheInv => CachedRoleIsCurrent
  BY DEF CacheInv
<1> QED BY <1>1, <1>2, <1>3, PTL DEF TeamSpec

-----------------------------------------------------------------------------
(* The public API                                                           *)

Fields == {"op", "secret", "idem", "nonce", "signed", "pc", "row", "fresh", "saw", "era",
           "ran", "recorder", "rsaw", "rera", "store", "afterRevoke", "known"}

Shape == DOMAIN areq = ApiRequests /\ \A r \in ApiRequests : DOMAIN areq[r] = Fields

LEMMA ShapeInit == ApiInit => Shape
  BY DEF ApiInit, NewCall, Shape, Fields

LEMMA CallsAtFirst ==
  ASSUME ApiInit, NEW r \in ApiRequests
  PROVE  /\ areq[r].pc = "new" /\ areq[r].recorder = "idle"
         /\ ~areq[r].ran /\ ~areq[r].known /\ ~areq[r].afterRevoke
<1> PICK w \in ApiWorkloads : areq = [s \in ApiRequests |-> NewCall(w.jobs[s])]
  BY DEF ApiInit
<1>1. areq[r] = NewCall(w.jobs[r])
  OBVIOUS
<1> QED BY <1>1 DEF NewCall

\* Every step of a request changes its own record, or none.
LEMMA ShapeKept == ASSUME Shape, [ApiNext]_apiVars PROVE Shape'
<1>1. CASE UNCHANGED apiVars
  BY <1>1 DEF Shape, apiVars
<1>2. ASSUME NEW r \in ApiRequests, ApiStep(r) PROVE Shape'
  <2>1. CASE BeginApi(r) \/ AskKey(r) \/ FindKey(r) \/ CacheKey(r) \/ Verify(r)
    BY <2>1 DEF BeginApi, AskKey, FindKey, CacheKey, Verify, AGoto, TakeRow, Shape, Fields
  <2>2. CASE ReadRow(r) \/ SaveKey(r) \/ Revoke(r) \/ DropCopy(r)
    BY <2>2 DEF ReadRow, SaveKey, Revoke, DropCopy, MarkRevoked, ForgetCopy, AGoto, TakeRow,
                Shape, Fields
  <2>3. CASE \E c \in Counters \ {"month"} : Compare(r, c) \/ Put(r, c)
    BY <2>3 DEF Compare, Put, AGoto, Shape, Fields
  <2>4. CASE Sign(r) \/ UseNonce(r) \/ CheckQuota(r) \/ Replay(r)
    BY <2>4 DEF Sign, UseNonce, CheckQuota, Replay, AGoto, Shape, Fields
  <2>5. CASE Run(r) \/ StoreResult(r) \/ RecordAsk(r) \/ RecordPut(r) \/ RecordPush(r)
    BY <2>5 DEF Run, StoreResult, RecordAsk, RecordPut, RecordPush, Shape, Fields
  <2> QED BY <1>2, <2>1, <2>2, <2>3, <2>4, <2>5 DEF ApiStep
<1>3. ASSUME NEW c \in Counters, Turn(c) PROVE Shape'
  BY <1>3 DEF Turn, Shape
<1>4. ASSUME NEW k, ResultLapses(k) PROVE Shape'
  BY <1>4 DEF ResultLapses, Shape, Fields
<1>5. CASE KeyCopyLapses \/ KeyExpires \/ Flush \/ FlushBatch \/ FlushFails
  BY <1>5 DEF KeyCopyLapses, KeyExpires, Flush, FlushBatch, FlushFails, Shape
<1> QED BY <1>1, <1>2, <1>3, <1>4, <1>5 DEF ApiNext

\* What happens besides the requests and the counters leaves these alone.
LEMMA Besides ==
  ASSUME Shape, [ApiNext]_apiVars, ~\E r \in ApiRequests : ApiStep(r), ~\E c \in Counters : Turn(c)
  PROVE  /\ UNCHANGED <<key, reinstated, recached, counterVars>>
         /\ keyCopy' \in {keyCopy, Nobody}
         /\ \A r \in ApiRequests : \A f \in Fields \ {"known"} : areq'[r][f] = areq[r][f]
<1>1. CASE UNCHANGED apiVars
  BY <1>1 DEF apiVars, keyVars, counterVars
<1>2. ASSUME NEW k, ResultLapses(k) PROVE
         /\ UNCHANGED <<key, reinstated, recached, counterVars, keyCopy>>
         /\ \A r \in ApiRequests : \A f \in Fields \ {"known"} : areq'[r][f] = areq[r][f]
  BY <1>2 DEF ResultLapses, Shape, Fields, keyVars
<1>3. CASE KeyCopyLapses \/ KeyExpires \/ Flush \/ FlushBatch \/ FlushFails
  BY <1>3 DEF KeyCopyLapses, KeyExpires, Flush, FlushBatch, FlushFails, keyVars
<1> QED BY <1>1, <1>2, <1>3 DEF ApiNext

-----------------------------------------------------------------------------
(* The counters.                                                           *)

Remembered(saw, era, c) ==
    /\ saw \in Nat /\ era \in Nat /\ era <= epoch[c]
    /\ era = epoch[c] => saw <= passed[c] \/ c \in skewed

\* The request is about to set a counter from what it has read of it.
Setting(r, c) ==
    IF c = "month" THEN areq[r].recorder = "put" ELSE AAt(r, Putting[c])

Saw(r, c) == IF c = "month" THEN areq[r].rsaw ELSE areq[r].saw
Era(r, c) == IF c = "month" THEN areq[r].rera ELSE areq[r].era

CountInv ==
    /\ count \in [Counters -> Nat] /\ epoch \in [Counters -> Nat]
    /\ passed \in [Counters -> Nat]
    /\ CountersNeverLead
    /\ \A r \in ApiRequests, c \in Counters : Setting(r, c) => Remembered(Saw(r, c), Era(r, c), c)

LEMMA CountInit == ApiInit => CountInv
  BY DEF ApiInit, NewCall, CountInv, CountersNeverLead, Setting, AAt, Putting, Counters

\* Steps that set no counter and read none.
LEMMA CountKept ==
  ASSUME CountInv, UNCHANGED counterVars,
         \A r \in ApiRequests : /\ areq'[r].saw = areq[r].saw /\ areq'[r].era = areq[r].era
                                /\ areq'[r].rsaw = areq[r].rsaw /\ areq'[r].rera = areq[r].rera
                                /\ \/ areq'[r].pc = areq[r].pc
                                   \/ areq'[r].pc \notin {"putKey", "putBurst", "putMinute"}
                                /\ areq'[r].recorder = "put" => areq[r].recorder = "put"
  PROVE  CountInv'
<1>1. ASSUME NEW r \in ApiRequests, NEW c \in Counters, Setting(r, c)'
      PROVE  Setting(r, c) /\ Saw(r, c)' = Saw(r, c) /\ Era(r, c)' = Era(r, c)
  BY <1>1 DEF Setting, Saw, Era, AAt, Putting, Counters
<1> QED
  BY <1>1 DEF CountInv, CountersNeverLead, Remembered, counterVars

\* A counter is set from what was read, by a request or its recorder.
LEMMA PutKept ==
  ASSUME CountInv, NEW c \in Counters, NEW saw, NEW era, Remembered(saw, era, c),
         PutCount(c, saw, era)
  PROVE  /\ count' \in [Counters -> Nat] /\ epoch' = epoch /\ passed' \in [Counters -> Nat]
         /\ CountersNeverLead'
         /\ \A s, e : \A d \in Counters : Remembered(s, e, d) => Remembered(s, e, d)'
<1>1. /\ epoch' = epoch
      /\ skewed \subseteq skewed'
      /\ \A d \in Counters : passed'[d] >= passed[d] /\ passed'[d] \in Nat
      /\ passed' \in [Counters -> Nat] /\ count' \in [Counters -> Nat]
  BY DEF CountInv, PutCount, Remembered
<1>2. CountersNeverLead'
  BY DEF CountInv, CountersNeverLead, PutCount, Remembered
<1>3. ASSUME NEW d \in Counters, NEW s, NEW e, Remembered(s, e, d) PROVE Remembered(s, e, d)'
  BY <1>1, <1>3 DEF Remembered, CountInv
<1> QED BY <1>1, <1>2, <1>3

LEMMA CountStep ==
  ASSUME CountInv, Shape, NEW r \in ApiRequests, ApiStep(r)
  PROVE  CountInv'
<1>1. CASE BeginApi(r) \/ AskKey(r) \/ FindKey(r) \/ CacheKey(r) \/ Verify(r)
  <2> UNCHANGED counterVars
    BY <1>1 DEF BeginApi, AskKey, FindKey, CacheKey, Verify
  <2> QED BY <1>1, CountKept DEF BeginApi, AskKey, FindKey, CacheKey, Verify, AGoto, TakeRow,
                  Shape, Fields
<1>2. CASE ReadRow(r) \/ SaveKey(r) \/ Revoke(r) \/ DropCopy(r)
  <2> UNCHANGED counterVars
    BY <1>2 DEF ReadRow, SaveKey, Revoke, DropCopy, MarkRevoked, ForgetCopy
  <2> QED BY <1>2, CountKept DEF ReadRow, SaveKey, Revoke, DropCopy, MarkRevoked, ForgetCopy,
                  AGoto, TakeRow, Shape, Fields
<1>3. ASSUME NEW c \in Counters \ {"month"}, Compare(r, c) PROVE CountInv'
  <2>1. /\ UNCHANGED counterVars
        /\ \A s \in ApiRequests \ {r} : areq'[s] = areq[s]
        /\ areq'[r].saw = count[c] /\ areq'[r].era = epoch[c]
        /\ areq'[r].rsaw = areq[r].rsaw /\ areq'[r].rera = areq[r].rera
        /\ areq'[r].recorder = areq[r].recorder
        /\ areq'[r].pc \in {"limited", Putting[c]}
    BY <1>3 DEF Compare, Shape, Fields
  <2>2. Remembered(count[c], epoch[c], c)
    BY DEF CountInv, CountersNeverLead, Remembered
  <2>3. ASSUME NEW s \in ApiRequests, NEW d \in Counters, Setting(s, d)'
        PROVE  Remembered(Saw(s, d)', Era(s, d)', d)
    <3>1. CASE s # r \/ d = "month"
      BY <2>1, <2>3, <3>1 DEF Setting, Saw, Era, AAt, CountInv
    <3>2. CASE s = r /\ d # "month"
      <4>1. d = c
        BY <2>1, <2>3, <3>2 DEF Setting, AAt, Putting, Counters
      <4> QED BY <2>1, <2>2, <3>2, <4>1 DEF Saw, Era
    <3> QED BY <3>1, <3>2
  <2> QED BY <2>1, <2>3 DEF CountInv, CountersNeverLead, Remembered, counterVars
<1>4. ASSUME NEW c \in Counters \ {"month"}, Put(r, c) PROVE CountInv'
  <2>1. Remembered(areq[r].saw, areq[r].era, c)
    BY <1>4 DEF CountInv, Put, Setting, Saw, Era
  <2>2. /\ count' \in [Counters -> Nat] /\ epoch' = epoch /\ passed' \in [Counters -> Nat]
        /\ CountersNeverLead'
        /\ \A s, e : \A d \in Counters : Remembered(s, e, d) => Remembered(s, e, d)'
    BY <1>4, <2>1, PutKept DEF Put
  <2>3. ASSUME NEW s \in ApiRequests, NEW d \in Counters, Setting(s, d)'
        PROVE  Setting(s, d) /\ Saw(s, d)' = Saw(s, d) /\ Era(s, d)' = Era(s, d)
    BY <1>4, <2>3 DEF Put, AGoto, Shape, Fields, Setting, Saw, Era, AAt, Putting, Then, Counters
  <2> QED BY <2>2, <2>3 DEF CountInv
<1>5. CASE Sign(r) \/ UseNonce(r) \/ CheckQuota(r) \/ Replay(r)
  <2> UNCHANGED counterVars
    BY <1>5 DEF Sign, UseNonce, CheckQuota, Replay
  <2> QED BY <1>5, CountKept DEF Sign, UseNonce, CheckQuota, Replay, AGoto, Shape, Fields
<1>6. CASE Run(r) \/ StoreResult(r) \/ RecordPush(r)
  <2> UNCHANGED counterVars
    BY <1>6 DEF Run, StoreResult, RecordPush
  <2>1. CASE Run(r)
    <3> PICK ok \in BOOLEAN : areq' = [areq EXCEPT
              ![r].pc = IF ok THEN "done" ELSE "failed", ![r].ran = ok,
              ![r].recorder = "ask",
              ![r].store = IF ok /\ areq[r].idem # Nobody THEN "set" ELSE "idle"]
      BY <2>1 DEF Run
    <3>1. /\ \A s \in ApiRequests \ {r} : areq'[s] = areq[s]
          /\ areq'[r].pc \in {"done", "failed"} /\ areq'[r].recorder = "ask"
          /\ areq'[r].saw = areq[r].saw /\ areq'[r].era = areq[r].era
          /\ areq'[r].rsaw = areq[r].rsaw /\ areq'[r].rera = areq[r].rera
      BY DEF Shape, Fields
    <3> QED BY <3>1, CountKept
  <2> QED BY <1>6, <2>1, CountKept DEF StoreResult, RecordPush, Shape, Fields
<1>7. CASE RecordAsk(r)
  <2>1. /\ UNCHANGED counterVars
        /\ \A s \in ApiRequests \ {r} : areq'[s] = areq[s]
        /\ areq'[r].saw = areq[r].saw /\ areq'[r].era = areq[r].era
        /\ areq'[r].rsaw = count["month"] /\ areq'[r].rera = epoch["month"]
        /\ areq'[r].pc = areq[r].pc
    BY <1>7 DEF RecordAsk, Shape, Fields
  <2>2. Remembered(count["month"], epoch["month"], "month")
    BY DEF CountInv, CountersNeverLead, Remembered, Counters
  <2>3. ASSUME NEW s \in ApiRequests, NEW d \in Counters, Setting(s, d)'
        PROVE  Remembered(Saw(s, d)', Era(s, d)', d)
    BY <2>1, <2>2, <2>3 DEF Setting, Saw, Era, AAt, CountInv
  <2> QED BY <2>1, <2>3 DEF CountInv, CountersNeverLead, Remembered, counterVars
<1>8. CASE RecordPut(r)
  <2>1. Remembered(areq[r].rsaw, areq[r].rera, "month")
    BY <1>8 DEF CountInv, RecordPut, Setting, Saw, Era, Counters
  <2>2. /\ count' \in [Counters -> Nat] /\ epoch' = epoch /\ passed' \in [Counters -> Nat]
        /\ CountersNeverLead'
        /\ \A s, e : \A d \in Counters : Remembered(s, e, d) => Remembered(s, e, d)'
    BY <1>8, <2>1, PutKept DEF RecordPut, Counters
  <2>3. ASSUME NEW s \in ApiRequests, NEW d \in Counters, Setting(s, d)'
        PROVE  Setting(s, d) /\ Saw(s, d)' = Saw(s, d) /\ Era(s, d)' = Era(s, d)
    BY <1>8, <2>3 DEF RecordPut, Shape, Fields, Setting, Saw, Era, AAt
  <2> QED BY <2>2, <2>3 DEF CountInv
<1> QED BY <1>1, <1>2, <1>3, <1>4, <1>5, <1>6, <1>7, <1>8 DEF ApiStep

\* A counter that starts anew leaves nobody a value of its present era.
LEMMA TurnStep ==
  ASSUME CountInv, NEW c \in Counters, Turn(c)
  PROVE  CountInv'
<1>1. /\ epoch' \in [Counters -> Nat] /\ epoch'[c] = epoch[c] + 1
      /\ count' \in [Counters -> Nat] /\ count'[c] = 0 /\ passed' \in [Counters -> Nat]
      /\ \A d \in Counters \ {c} : /\ epoch'[d] = epoch[d] /\ count'[d] = count[d]
                                   /\ passed'[d] = passed[d]
      /\ skewed' = skewed \ {c} /\ areq' = areq
  BY DEF CountInv, Turn
<1>2. ASSUME NEW d \in Counters, NEW s, NEW e, Remembered(s, e, d) PROVE Remembered(s, e, d)'
  BY <1>1, <1>2 DEF Remembered, CountInv
<1>3. CountersNeverLead'
  BY <1>1 DEF CountInv, CountersNeverLead
<1> QED BY <1>1, <1>2, <1>3 DEF CountInv, Setting, Saw, Era, AAt

(* No call is refused before its limit is reached (CountersNeverLead), for   *)
(* any number of calls and recorders that read and set the counters.         *)
THEOREM CountersDoNotLead == ApiSpec => []CountersNeverLead
<1>1. ApiInit => Shape /\ CountInv
  BY ShapeInit, CountInit
<1>2. Shape /\ CountInv /\ [ApiNext]_apiVars => (Shape /\ CountInv)'
  <2> SUFFICES ASSUME Shape, CountInv, [ApiNext]_apiVars PROVE Shape' /\ CountInv'
    OBVIOUS
  <2>1. CASE ~(\E r \in ApiRequests : ApiStep(r)) /\ ~(\E c \in Counters : Turn(c))
    <3>1. /\ UNCHANGED counterVars
          /\ \A r \in ApiRequests : \A f \in Fields \ {"known"} : areq'[r][f] = areq[r][f]
      BY <2>1, Besides
    <3>2. \A r \in ApiRequests : /\ areq'[r].saw = areq[r].saw /\ areq'[r].era = areq[r].era
                                 /\ areq'[r].rsaw = areq[r].rsaw /\ areq'[r].rera = areq[r].rera
                                 /\ areq'[r].pc = areq[r].pc
                                 /\ areq'[r].recorder = areq[r].recorder
      BY <3>1 DEF Fields
    <3> QED BY <3>1, <3>2, CountKept, ShapeKept
  <2> QED BY <2>1, CountStep, TurnStep, ShapeKept
<1>3. Shape /\ CountInv => CountersNeverLead
  BY DEF CountInv
<1> QED BY <1>1, <1>2, <1>3, PTL DEF ApiSpec

-----------------------------------------------------------------------------
(* The key.                                                                *)

KeyFields == {"secret", "revoked", "scoped"}

\* Where an operation on the key reads and changes it.
AtTheKey == {"readRow", "saveRow", "revoke", "dropCopy"}

BeforeTheKey == {"new", "askKey", "findKey", "refused"}

\* Where a request is before it has been let in, or when it is over.
Outside == {"new", "readRow", "revoke", "dropCopy", "done", "askKey", "findKey", "refused"}

KeyInv ==
    /\ DOMAIN key = KeyFields
    /\ \A r \in ApiRequests :
          /\ areq[r].op = "revoke" => areq[r].pc \in {"new", "readRow", "revoke", "dropCopy", "done"}
          /\ areq[r].op = "revoke" /\ areq[r].pc \in {"dropCopy", "done"} => key.revoked \/ reinstated
          /\ AAt(r, "saveRow") => DOMAIN areq[r].row = KeyFields
          /\ AAt(r, "cacheKey") => ~areq[r].row.revoked
          /\ areq[r].afterRevoke => Revoked
          /\ areq[r].op = "call" => areq[r].pc \notin AtTheKey
          /\ areq[r].afterRevoke /\ areq[r].op = "call" /\ areq[r].pc \notin BeforeTheKey
               => reinstated \/ recached
    /\ Revoked => keyCopy = Nobody \/ reinstated \/ recached

LEMMA KeyInit == ASSUME ApiInit PROVE KeyInv
<1>1. \A r \in ApiRequests : areq[r].pc = "new" /\ ~areq[r].afterRevoke
  BY CallsAtFirst
<1>2. DOMAIN key = KeyFields
  BY DEF ApiInit, KeyFields
<1> QED BY <1>1, <1>2 DEF KeyInv, AAt, Revoked, AtTheKey, BeforeTheKey

\* Steps that leave the key alone, of requests that are past it.
LEMMA KeyKept ==
  ASSUME KeyInv, UNCHANGED <<key, reinstated, recached>>, keyCopy' \in {keyCopy, Nobody},
         \A r \in ApiRequests : /\ areq'[r].op = areq[r].op /\ areq'[r].row = areq[r].row
                                /\ areq'[r].afterRevoke = areq[r].afterRevoke
                                /\ \/ areq'[r].pc = areq[r].pc
                                   \/ /\ areq[r].pc \notin Outside
                                      /\ areq'[r].pc \notin AtTheKey \cup {"cacheKey"}
  PROVE  KeyInv'
<1>1. Revoked' <=> Revoked
  BY DEF Revoked, KeyInv, AAt, Outside
<1> QED
  BY <1>1 DEF KeyInv, AAt, Outside, AtTheKey, BeforeTheKey

LEMMA KeyStep ==
  ASSUME KeyInv, Shape, NEW r \in ApiRequests, ApiStep(r)
  PROVE  KeyInv'
<1>1. CASE BeginApi(r)
  <2>1. /\ UNCHANGED <<key, keyCopy, reinstated, recached>>
        /\ \A s \in ApiRequests \ {r} : areq'[s] = areq[s]
        /\ areq'[r].op = areq[r].op /\ areq[r].pc = "new"
        /\ areq'[r].pc = IF areq[r].op = "call" THEN "askKey" ELSE "readRow"
        /\ areq'[r].afterRevoke = Revoked
    BY <1>1 DEF BeginApi, AAt, keyVars, Shape, Fields
  <2>2. Revoked' <=> Revoked
    BY <2>1 DEF Revoked, AAt
  <2> QED BY <2>1, <2>2 DEF KeyInv, AAt, AtTheKey, BeforeTheKey
<1>2. CASE AskKey(r) \/ FindKey(r)
  <2>1. /\ UNCHANGED <<key, keyCopy, reinstated, recached>>
        /\ \A s \in ApiRequests \ {r} : areq'[s] = areq[s]
        /\ areq'[r].op = areq[r].op /\ areq'[r].afterRevoke = areq[r].afterRevoke
        /\ areq[r].pc \in {"askKey", "findKey"}
        /\ \/ areq'[r].pc = "verify" /\ keyCopy # Nobody
           \/ areq'[r].pc \in {"findKey", "refused"}
           \/ areq'[r].pc = "cacheKey" /\ ~key.revoked /\ areq'[r].row = key
    BY <1>2 DEF AskKey, FindKey, TakeRow, AAt, keyVars, Shape, Fields
  <2>2. Revoked' <=> Revoked
    BY <2>1 DEF Revoked, AAt
  <2>3. Revoked /\ ~key.revoked => reinstated
    BY DEF KeyInv, Revoked, AAt
  <2> QED BY <2>1, <2>2, <2>3 DEF KeyInv, AAt, AtTheKey, BeforeTheKey
<1>3. CASE CacheKey(r)
  <2>1. /\ UNCHANGED <<key, reinstated>> /\ keyCopy' = areq[r].row
        /\ recached' = (recached \/ areq[r].row # key)
        /\ \A s \in ApiRequests \ {r} : areq'[s] = areq[s]
        /\ areq'[r].op = areq[r].op /\ areq'[r].afterRevoke = areq[r].afterRevoke
        /\ areq[r].pc = "cacheKey" /\ areq'[r].pc = "verify" /\ areq'[r].row = areq[r].row
    BY <1>3 DEF CacheKey, AGoto, AAt, keyVars, Shape, Fields
  <2>2. Revoked' <=> Revoked
    BY <2>1 DEF Revoked, AAt
  <2>3. Revoked /\ areq[r].row = key => reinstated
    BY <2>1 DEF KeyInv, Revoked, AAt
  <2>4. (Revoked' => reinstated' \/ recached') /\ (recached => recached')
    BY <2>1, <2>2, <2>3
  <2> QED BY <2>1, <2>2, <2>4 DEF KeyInv, AAt, AtTheKey, BeforeTheKey
<1>4. CASE ReadRow(r)
  <2>1. /\ UNCHANGED <<key, keyCopy, reinstated, recached>>
        /\ \A s \in ApiRequests \ {r} : areq'[s] = areq[s]
        /\ areq'[r].op = areq[r].op /\ areq'[r].afterRevoke = areq[r].afterRevoke
        /\ areq[r].pc = "readRow" /\ areq'[r].row = key
        /\ areq'[r].pc \in {"revoke", "refused", "saveRow"}
        /\ areq[r].op = "revoke" => areq'[r].pc = "revoke"
    BY <1>4 DEF ReadRow, TakeRow, AAt, keyVars, Shape, Fields
  <2>2. Revoked' <=> Revoked
    BY <2>1 DEF Revoked, AAt
  <2> QED BY <2>1, <2>2 DEF KeyInv, AAt, AtTheKey, BeforeTheKey
<1>5. CASE SaveKey(r)
  <2>1. /\ UNCHANGED <<keyCopy, recached>> /\ reinstated' = (reinstated \/ key.revoked)
        /\ \A s \in ApiRequests \ {r} : areq'[s] = areq[s]
        /\ areq'[r].op = areq[r].op /\ areq'[r].afterRevoke = areq[r].afterRevoke
        /\ areq[r].pc = "saveRow" /\ areq'[r].pc = "dropCopy"
    BY <1>5 DEF SaveKey, AGoto, AAt, Shape, Fields
  <2>2. DOMAIN key' = KeyFields
    BY <1>5 DEF SaveKey, KeyInv
  <2>3. Revoked' <=> Revoked
    BY <2>1 DEF Revoked, AAt
  <2> QED BY <2>1, <2>2, <2>3 DEF KeyInv, AAt, AtTheKey, BeforeTheKey
<1>6. CASE Revoke(r)
  <2>1. /\ UNCHANGED <<keyCopy, recached, reinstated>> /\ key' = [key EXCEPT !.revoked = TRUE]
        /\ \A s \in ApiRequests \ {r} : areq'[s] = areq[s]
        /\ areq'[r].op = areq[r].op /\ areq'[r].afterRevoke = areq[r].afterRevoke
        /\ areq[r].pc = "revoke" /\ areq'[r].pc = "dropCopy"
    BY <1>6 DEF Revoke, MarkRevoked, AGoto, AAt, Shape, Fields
  <2>2. DOMAIN key' = KeyFields /\ key'.revoked
    BY <2>1 DEF KeyInv, KeyFields
  <2>3. Revoked' <=> Revoked
    BY <2>1 DEF Revoked, AAt
  <2> QED BY <2>1, <2>2, <2>3 DEF KeyInv, AAt, AtTheKey, BeforeTheKey
<1>7. CASE DropCopy(r)
  <2>1. /\ UNCHANGED <<key, recached, reinstated>> /\ keyCopy' = Nobody
        /\ \A s \in ApiRequests \ {r} : areq'[s] = areq[s]
        /\ areq'[r].op = areq[r].op /\ areq'[r].afterRevoke = areq[r].afterRevoke
        /\ areq[r].pc = "dropCopy" /\ areq'[r].pc = "done"
    BY <1>7 DEF DropCopy, ForgetCopy, AGoto, AAt, Shape, Fields
  <2>2. Revoked => Revoked'
    BY <2>1 DEF Revoked, AAt
  <2> QED BY <2>1, <2>2 DEF KeyInv, AAt, AtTheKey, BeforeTheKey
<1>8. CASE Verify(r) \/ Sign(r) \/ UseNonce(r) \/ CheckQuota(r) \/ Replay(r)
  <2>1. UNCHANGED <<key, keyCopy, reinstated, recached>>
    BY <1>8 DEF Verify, Sign, UseNonce, CheckQuota, Replay, keyVars
  <2>2. /\ \A s \in ApiRequests \ {r} : areq'[s] = areq[s]
        /\ areq'[r].op = areq[r].op /\ areq'[r].row = areq[r].row
        /\ areq'[r].afterRevoke = areq[r].afterRevoke
        /\ areq[r].pc \in {"verify", "sign", "useNonce", "quota", "replay"}
        /\ areq'[r].pc \notin AtTheKey \cup {"cacheKey"}
    BY <1>8 DEF Verify, Sign, UseNonce, CheckQuota, Replay, AGoto, AAt, Shape, Fields, AtTheKey
  <2> QED BY <2>1, <2>2, KeyKept DEF Outside
<1>9. CASE \E c \in Counters \ {"month"} : Compare(r, c) \/ Put(r, c)
  <2>1. UNCHANGED <<key, keyCopy, reinstated, recached>>
    BY <1>9 DEF Compare, Put, keyVars
  <2>2. /\ \A s \in ApiRequests \ {r} : areq'[s] = areq[s]
        /\ areq'[r].op = areq[r].op /\ areq'[r].row = areq[r].row
        /\ areq'[r].afterRevoke = areq[r].afterRevoke
        /\ areq[r].pc \notin Outside
        /\ areq'[r].pc \notin AtTheKey \cup {"cacheKey"}
    BY <1>9 DEF Compare, Put, AGoto, AAt, Shape, Fields, Outside, AtTheKey, Putting, Then, Counters
  <2> QED BY <2>1, <2>2, KeyKept
<1>10. CASE Run(r)
  <2>1. UNCHANGED <<key, keyCopy, reinstated, recached>>
    BY <1>10 DEF Run, keyVars
  <2>2. /\ \A s \in ApiRequests \ {r} : areq'[s] = areq[s]
        /\ areq'[r].op = areq[r].op /\ areq'[r].row = areq[r].row
        /\ areq'[r].afterRevoke = areq[r].afterRevoke
        /\ areq[r].pc = "run" /\ areq'[r].pc \in {"done", "failed"}
    <3> PICK ok \in BOOLEAN :
           /\ AAt(r, "run")
           /\ areq' = [areq EXCEPT
                ![r].pc = IF ok THEN "done" ELSE "failed", ![r].ran = ok,
                ![r].recorder = "ask",
                ![r].store = IF ok /\ areq[r].idem # Nobody THEN "set" ELSE "idle"]
      BY <1>10 DEF Run
    <3> QED BY DEF AAt, Shape, Fields
  <2> QED BY <2>1, <2>2, KeyKept DEF Outside, AtTheKey
<1>11. CASE StoreResult(r) \/ RecordAsk(r) \/ RecordPut(r) \/ RecordPush(r)
  <2>1. UNCHANGED <<key, keyCopy, reinstated, recached>>
    BY <1>11 DEF StoreResult, RecordAsk, RecordPut, RecordPush, keyVars
  <2>2. \A s \in ApiRequests : /\ areq'[s].op = areq[s].op /\ areq'[s].row = areq[s].row
                               /\ areq'[s].afterRevoke = areq[s].afterRevoke
                               /\ areq'[s].pc = areq[s].pc
    BY <1>11 DEF StoreResult, RecordAsk, RecordPut, RecordPush, Shape, Fields
  <2> QED BY <2>1, <2>2, KeyKept
<1> QED BY <1>1, <1>2, <1>3, <1>4, <1>5, <1>6, <1>7, <1>8, <1>9, <1>10, <1>11 DEF ApiStep

(* A call that comes in after a revocation was answered is refused, unless a *)
(* row read before was cached or saved after it (RevokedKeyIsRefused), for   *)
(* any number of calls, updates, rotations and revocations.                  *)
THEOREM RevokedKeysAreRefused == ApiSpec => []RevokedKeyIsRefused
<1>1. ApiInit => Shape /\ KeyInv
  BY ShapeInit, KeyInit
<1>2. Shape /\ KeyInv /\ [ApiNext]_apiVars => (Shape /\ KeyInv)'
  <2> SUFFICES ASSUME Shape, KeyInv, [ApiNext]_apiVars PROVE Shape' /\ KeyInv'
    OBVIOUS
  <2>1. CASE ~(\E r \in ApiRequests : ApiStep(r)) /\ ~(\E c \in Counters : Turn(c))
    <3>1. /\ UNCHANGED <<key, reinstated, recached>> /\ keyCopy' \in {keyCopy, Nobody}
          /\ \A r \in ApiRequests : \A f \in Fields \ {"known"} : areq'[r][f] = areq[r][f]
      BY <2>1, Besides
    <3>2. \A r \in ApiRequests : /\ areq'[r].op = areq[r].op /\ areq'[r].row = areq[r].row
                                 /\ areq'[r].afterRevoke = areq[r].afterRevoke
                                 /\ areq'[r].pc = areq[r].pc
      BY <3>1 DEF Fields
    <3> QED BY <3>1, <3>2, KeyKept, ShapeKept
  <2>2. ASSUME NEW c \in Counters, Turn(c) PROVE KeyInv'
    BY <2>2, KeyKept DEF Turn, keyVars
  <2> QED BY <2>1, <2>2, KeyStep, ShapeKept
<1>3. Shape /\ KeyInv => RevokedKeyIsRefused
  BY DEF KeyInv, RevokedKeyIsRefused, PastTheKey, BeforeTheKey
<1> QED BY <1>1, <1>2, <1>3, PTL DEF ApiSpec

-----------------------------------------------------------------------------
(* The kept answers.                                                       *)

ReplayInv ==
    \A r \in ApiRequests :
       /\ areq[r].known => areq[r].idem \in results
       /\ AAt(r, "run") \/ areq[r].ran => ~areq[r].known
       /\ AAt(r, "new") => ~areq[r].ran

LEMMA ReplayInit == ASSUME ApiInit PROVE ReplayInv
<1>1. \A r \in ApiRequests : areq[r].pc = "new" /\ ~areq[r].ran /\ ~areq[r].known
  BY CallsAtFirst
<1> QED BY <1>1 DEF ReplayInv, AAt

\* Steps that neither begin, look for an answer nor run.
LEMMA ReplayKept ==
  ASSUME ReplayInv, results \subseteq results',
         \A r \in ApiRequests : /\ areq'[r].idem = areq[r].idem /\ areq'[r].ran = areq[r].ran
                                /\ areq'[r].known = areq[r].known
                                /\ areq'[r].pc \in {"new", "run"} => areq'[r].pc = areq[r].pc
  PROVE  ReplayInv'
  BY DEF ReplayInv, AAt

LEMMA ReplayStep ==
  ASSUME ReplayInv, Shape, NEW r \in ApiRequests, ApiStep(r)
  PROVE  ReplayInv'
<1>1. CASE BeginApi(r)
  BY <1>1 DEF BeginApi, ReplayInv, AAt, replayVars, Shape, Fields
<1>2. CASE Replay(r)
  BY <1>2 DEF Replay, AGoto, ReplayInv, AAt, replayVars, Shape, Fields
<1>3. CASE Run(r)
  <2> PICK ok \in BOOLEAN :
         /\ AAt(r, "run") /\ UNCHANGED results
         /\ areq' = [areq EXCEPT
              ![r].pc = IF ok THEN "done" ELSE "failed", ![r].ran = ok,
              ![r].recorder = "ask",
              ![r].store = IF ok /\ areq[r].idem # Nobody THEN "set" ELSE "idle"]
    BY <1>3 DEF Run, replayVars
  <2>1. /\ \A s \in ApiRequests \ {r} : areq'[s] = areq[s]
        /\ areq'[r].idem = areq[r].idem /\ areq'[r].known = areq[r].known
        /\ areq'[r].pc \in {"done", "failed"}
    BY DEF Shape, Fields
  <2>2. ~areq[r].known /\ areq[r].pc = "run"
    BY DEF ReplayInv, AAt
  <2>3. \A s \in ApiRequests : areq'[s].known = areq[s].known /\ areq'[s].idem = areq[s].idem
    BY <2>1
  <2>4. ~areq'[r].known /\ results' = results
    BY <2>2, <2>3
  <2>5. ASSUME NEW s \in ApiRequests \ {r} PROVE
           /\ areq'[s].known => areq'[s].idem \in results'
           /\ areq'[s].pc = "run" \/ areq'[s].ran => ~areq'[s].known
           /\ areq'[s].pc = "new" => ~areq'[s].ran
    BY <2>1, <2>4 DEF ReplayInv, AAt
  <2> QED BY <2>1, <2>4, <2>5 DEF ReplayInv, AAt
<1>4. CASE AskKey(r) \/ FindKey(r) \/ CacheKey(r) \/ Verify(r)
  BY <1>4, ReplayKept DEF AskKey, FindKey, CacheKey, Verify, AGoto, TakeRow, replayVars,
                          Shape, Fields
<1>5. CASE ReadRow(r) \/ SaveKey(r) \/ Revoke(r) \/ DropCopy(r)
  BY <1>5, ReplayKept DEF ReadRow, SaveKey, Revoke, DropCopy, MarkRevoked, ForgetCopy, AGoto,
                          TakeRow, replayVars, Shape, Fields
<1>6. CASE \E c \in Counters \ {"month"} : Compare(r, c) \/ Put(r, c)
  BY <1>6, ReplayKept DEF Compare, Put, AGoto, Putting, Then, Counters, replayVars, Shape, Fields
<1>7. CASE Sign(r) \/ UseNonce(r) \/ CheckQuota(r)
  BY <1>7, ReplayKept DEF Sign, UseNonce, CheckQuota, AGoto, replayVars, Shape, Fields
<1>8. CASE StoreResult(r) \/ RecordAsk(r) \/ RecordPut(r) \/ RecordPush(r)
  BY <1>8, ReplayKept DEF StoreResult, RecordAsk, RecordPut, RecordPush, replayVars,
                          Shape, Fields
<1> QED BY <1>1, <1>2, <1>3, <1>4, <1>5, <1>6, <1>7, <1>8 DEF ApiStep

(* A call whose answer was kept when it came in does not run again           *)
(* (KeptAnswersAreReplayed), for any number of calls.                        *)
THEOREM AnswersAreReplayed == ApiSpec => []KeptAnswersAreReplayed
<1>1. ApiInit => Shape /\ ReplayInv
  BY ShapeInit, ReplayInit
<1>2. Shape /\ ReplayInv /\ [ApiNext]_apiVars => (Shape /\ ReplayInv)'
  <2> SUFFICES ASSUME Shape, ReplayInv, [ApiNext]_apiVars PROVE Shape' /\ ReplayInv'
    OBVIOUS
  <2>1. CASE UNCHANGED apiVars
    BY <2>1, ReplayKept, ShapeKept DEF apiVars, replayVars
  <2>2. ASSUME NEW k, ResultLapses(k) PROVE ReplayInv'
    BY <2>2 DEF ResultLapses, ReplayInv, AAt, Shape, Fields
  <2>3. ASSUME NEW c \in Counters, Turn(c) PROVE ReplayInv'
    BY <2>3, ReplayKept DEF Turn, replayVars
  <2>4. CASE KeyCopyLapses \/ KeyExpires \/ Flush \/ FlushBatch \/ FlushFails
    <3>1. UNCHANGED results /\ UNCHANGED areq
      BY <2>4 DEF KeyCopyLapses, KeyExpires, Flush, FlushBatch, FlushFails, replayVars
    <3> QED BY <3>1, ReplayKept, ShapeKept
  <2> QED BY <2>1, <2>2, <2>3, <2>4, ReplayStep, ShapeKept DEF ApiNext
<1>3. Shape /\ ReplayInv => KeptAnswersAreReplayed
  BY DEF ReplayInv, KeptAnswersAreReplayed
<1> QED BY <1>1, <1>2, <1>3, PTL DEF ApiSpec

-----------------------------------------------------------------------------
(* The usage entries.                                                      *)

EntryInv ==
    /\ buffer \in Seq(ApiRequests) /\ flushing \in Seq(ApiRequests)
    /\ EntriesKeptUnlessABatchFails

LEMMA BatchParts ==
  ASSUME NEW s \in Seq(ApiRequests)
  PROVE  /\ Batch(s) \in Seq(ApiRequests) /\ Behind(s) \in Seq(ApiRequests)
         /\ Elements(s) \subseteq Elements(Batch(s)) \cup Elements(Behind(s))
<1> DEFINE n == Least(BatchSize, Len(s))
<1>1. n \in Nat /\ n <= Len(s) /\ Len(s) \in Nat
  BY LimitsAssumption DEF Least
<1>2. /\ Batch(s) \in Seq(ApiRequests) /\ Len(Batch(s)) = n
      /\ \A i \in 1..n : Batch(s)[i] = s[i]
  BY <1>1 DEF Batch
<1>3. /\ Behind(s) \in Seq(ApiRequests) /\ Len(Behind(s)) = Len(s) - n
      /\ \A i \in 1..(Len(s) - n) : Behind(s)[i] = s[n + i]
  BY <1>1 DEF Behind
<1>4. ASSUME NEW i \in 1..Len(s) PROVE s[i] \in Elements(Batch(s)) \cup Elements(Behind(s))
  <2>1. CASE i <= n
    BY <1>1, <1>2, <2>1 DEF Elements
  <2>2. CASE i > n
    <3>1. i - n \in 1..(Len(s) - n) /\ Behind(s)[i - n] = s[i]
      BY <1>1, <1>3, <2>2
    <3> QED BY <1>3, <3>1 DEF Elements
  <2> QED BY <1>1, <2>1, <2>2
<1> QED BY <1>2, <1>3, <1>4 DEF Elements

LEMMA JoinedElements ==
  ASSUME NEW s \in Seq(ApiRequests), NEW t \in Seq(ApiRequests)
  PROVE  Elements(s) \cup Elements(t) \subseteq Elements(s \o t)
<1>1. ASSUME NEW i \in 1..Len(s) PROVE s[i] \in Elements(s \o t)
  BY <1>1 DEF Elements
<1>2. ASSUME NEW i \in 1..Len(t) PROVE t[i] \in Elements(s \o t)
  <2>1. Len(s) + i \in 1..Len(s \o t) /\ (s \o t)[Len(s) + i] = t[i]
    OBVIOUS
  <2> QED BY <2>1 DEF Elements
<1> QED BY <1>1, <1>2 DEF Elements

LEMMA PushedElements ==
  ASSUME NEW s \in Seq(ApiRequests), NEW r \in ApiRequests
  PROVE  r \in Elements(Append(s, r)) /\ Elements(s) \subseteq Elements(Append(s, r))
<1>1. Len(s) + 1 \in 1..Len(Append(s, r)) /\ Append(s, r)[Len(s) + 1] = r
  OBVIOUS
<1>2. \A i \in 1..Len(s) : i \in 1..Len(Append(s, r)) /\ Append(s, r)[i] = s[i]
  OBVIOUS
<1> QED BY <1>1, <1>2 DEF Elements

\* Steps that push nothing and flush nothing.
LEMMA EntryKept ==
  ASSUME EntryInv, UNCHANGED usageVars,
         \A r \in ApiRequests : areq'[r].recorder = "pushed" => areq[r].recorder = "pushed"
  PROVE  EntryInv'
  BY DEF EntryInv, EntriesKeptUnlessABatchFails, usageVars

LEMMA EntryStep ==
  ASSUME EntryInv, Shape, NEW r \in ApiRequests, ApiStep(r)
  PROVE  EntryInv'
<1>1. CASE RecordPush(r)
  <2>1. /\ buffer' = Append(buffer, r) /\ UNCHANGED <<flushing, log, batchFailed>>
        /\ \A s \in ApiRequests \ {r} : areq'[s] = areq[s]
    BY <1>1 DEF RecordPush, Shape
  <2>2. buffer' \in Seq(ApiRequests) /\ r \in Elements(buffer')
        /\ Elements(buffer) \subseteq Elements(buffer')
    BY <2>1, PushedElements DEF EntryInv
  <2> QED BY <2>1, <2>2 DEF EntryInv, EntriesKeptUnlessABatchFails
<1>2. CASE Run(r)
  <2> PICK ok \in BOOLEAN :
         areq' = [areq EXCEPT
              ![r].pc = IF ok THEN "done" ELSE "failed", ![r].ran = ok,
              ![r].recorder = "ask",
              ![r].store = IF ok /\ areq[r].idem # Nobody THEN "set" ELSE "idle"]
    BY <1>2 DEF Run
  <2>1. \A s \in ApiRequests : areq'[s].recorder \in {areq[s].recorder, "ask"}
    BY DEF Shape, Fields
  <2> QED BY <1>2, <2>1, EntryKept DEF Run
<1>3. CASE BeginApi(r) \/ AskKey(r) \/ FindKey(r) \/ CacheKey(r) \/ Verify(r)
  BY <1>3, EntryKept DEF BeginApi, AskKey, FindKey, CacheKey, Verify, AGoto, TakeRow,
                         Shape, Fields
<1>4. CASE ReadRow(r) \/ SaveKey(r) \/ Revoke(r) \/ DropCopy(r)
  BY <1>4, EntryKept DEF ReadRow, SaveKey, Revoke, DropCopy, MarkRevoked, ForgetCopy, AGoto,
                         TakeRow, Shape, Fields
<1>5. CASE \E c \in Counters \ {"month"} : Compare(r, c) \/ Put(r, c)
  BY <1>5, EntryKept DEF Compare, Put, AGoto, Shape, Fields
<1>6. CASE Sign(r) \/ UseNonce(r) \/ CheckQuota(r) \/ Replay(r)
  BY <1>6, EntryKept DEF Sign, UseNonce, CheckQuota, Replay, AGoto, Shape, Fields
<1>7. CASE StoreResult(r) \/ RecordAsk(r) \/ RecordPut(r)
  BY <1>7, EntryKept DEF StoreResult, RecordAsk, RecordPut, Shape, Fields
<1> QED BY <1>1, <1>2, <1>3, <1>4, <1>5, <1>6, <1>7 DEF ApiStep

LEMMA FlushStep ==
  ASSUME EntryInv, Flush \/ FlushBatch \/ FlushFails
  PROVE  EntryInv'
<1>1. CASE Flush
  <2>1. <<>> \in Seq(ApiRequests) /\ flushing = <<>> /\ Elements(<<>>) = {}
    BY <1>1 DEF Flush, Elements
  <2> QED BY <1>1, <2>1 DEF Flush, EntryInv, EntriesKeptUnlessABatchFails
<1>2. CASE FlushBatch
  BY <1>2, BatchParts DEF FlushBatch, EntryInv, EntriesKeptUnlessABatchFails
<1>3. CASE FlushFails
  <2> DEFINE batch == Batch(flushing)
  <2>1. /\ batch \in Seq(ApiRequests) /\ Behind(flushing) \in Seq(ApiRequests)
        /\ Elements(flushing) \subseteq Elements(batch) \cup Elements(Behind(flushing))
    BY BatchParts DEF EntryInv
  <2>2. /\ log \subseteq log' /\ buffer' = batch \o buffer /\ flushing' = <<>>
        /\ batchFailed' = (batchFailed \/ Behind(flushing) # <<>>) /\ areq' = areq
    BY <1>3 DEF FlushFails
  <2>3. Elements(batch) \cup Elements(buffer) \subseteq Elements(buffer')
    BY <2>1, <2>2, JoinedElements DEF EntryInv
  <2>4. buffer' \in Seq(ApiRequests) /\ flushing' \in Seq(ApiRequests)
    BY <2>1, <2>2 DEF EntryInv
  <2>5. Behind(flushing) = <<>> => Elements(Behind(flushing)) = {}
    BY DEF Elements
  <2> QED BY <2>1, <2>2, <2>3, <2>4, <2>5 DEF EntryInv, EntriesKeptUnlessABatchFails
<1> QED BY <1>1, <1>2, <1>3

(* No usage entry is lost but behind a batch that fails                      *)
(* (EntriesKeptUnlessABatchFails), for any size of batches and any order of  *)
(* pushes and flushes.                                                       *)
THEOREM EntriesAreKept == ApiSpec => []EntriesKeptUnlessABatchFails
<1>1. ApiInit => Shape /\ EntryInv
  <2> SUFFICES ASSUME ApiInit PROVE EntryInv
    BY ShapeInit
  <2>1. \A r \in ApiRequests : areq[r].recorder = "idle"
    BY CallsAtFirst
  <2>2. buffer = <<>> /\ flushing = <<>>
    BY DEF ApiInit
  <2> QED BY <2>1, <2>2 DEF EntryInv, EntriesKeptUnlessABatchFails
<1>2. Shape /\ EntryInv /\ [ApiNext]_apiVars => (Shape /\ EntryInv)'
  <2> SUFFICES ASSUME Shape, EntryInv, [ApiNext]_apiVars PROVE Shape' /\ EntryInv'
    OBVIOUS
  <2>1. CASE UNCHANGED apiVars
    BY <2>1, EntryKept, ShapeKept DEF apiVars
  <2>2. ASSUME NEW k, ResultLapses(k) PROVE EntryInv'
    BY <2>2, EntryKept DEF ResultLapses, Shape, Fields
  <2>3. ASSUME NEW c \in Counters, Turn(c) PROVE EntryInv'
    BY <2>3, EntryKept DEF Turn
  <2>4. CASE KeyCopyLapses \/ KeyExpires
    <3>1. UNCHANGED usageVars /\ UNCHANGED areq
      BY <2>4 DEF KeyCopyLapses, KeyExpires
    <3> QED BY <3>1, EntryKept, ShapeKept
  <2> QED BY <2>1, <2>2, <2>3, <2>4, EntryStep, FlushStep, ShapeKept DEF ApiNext
<1>3. Shape /\ EntryInv => EntriesKeptUnlessABatchFails
  BY DEF EntryInv
<1> QED BY <1>1, <1>2, <1>3, PTL DEF ApiSpec
-----------------------------------------------------------------------------
(* Webhooks                                                                *)

DeliveryRows == [status : {"PENDING", "RETRYING", "SUCCESS", "FAILED"}, tries : Nat]

AttemptFields == {"pc", "of", "row", "hook", "good"}

\* A row of a delivery, saved or not, tells of no more than was tried.
Accounted(row, n) ==
    /\ row \in DeliveryRows /\ row.tries <= n
    /\ row.status = "FAILED" => row.tries >= MaxRetries

Busy(a) == attempt[a].pc # "idle"

TriesInv ==
    /\ DOMAIN attempt = Attempts /\ \A a \in Attempts : DOMAIN attempt[a] = AttemptFields
    /\ DOMAIN delivery = Deliveries /\ posts \in [Deliveries -> Nat] /\ faults \in Nat
    /\ \A a \in Attempts : Busy(a) =>
          /\ attempt[a].of \in Deliveries
          /\ Accounted(attempt[a].row, posts[attempt[a].of] + faults)
    /\ \A d \in Deliveries :
          delivery[d] = NoRow \/ Accounted(delivery[d], posts[d] + faults)

LEMMA AccountedGrows ==
  ASSUME NEW row, NEW m \in Nat, NEW n \in Nat, m <= n, Accounted(row, m)
  PROVE  Accounted(row, n)
  BY DEF Accounted, DeliveryRows

\* One more failed try, of which the posts or the faults tell.
LEMMA FailedAccounted ==
  ASSUME NEW at, DOMAIN at = AttemptFields, NEW n \in Nat, Accounted(at.row, n)
  PROVE  /\ Accounted(Failed(at).row, n + 1)
         /\ DOMAIN Failed(at) = AttemptFields
         /\ Failed(at).of = at.of /\ Failed(at).pc = "saveDelivery"
<1>1. /\ Failed(at).of = at.of /\ Failed(at).pc = "saveDelivery"
      /\ DOMAIN Failed(at) = AttemptFields
      /\ Failed(at).row = [status |-> IF GivenUp(at.row.tries + 1) THEN "FAILED" ELSE "RETRYING",
                           tries |-> at.row.tries + 1]
  BY DEF Failed, AttemptFields
<1> QED
  BY <1>1, HookAssumption DEF Accounted, DeliveryRows, GivenUp

LEMMA SucceededAccounted ==
  ASSUME NEW at, DOMAIN at = AttemptFields, NEW n \in Nat, Accounted(at.row, n)
  PROVE  /\ Accounted(Succeeded(at).row, n)
         /\ DOMAIN Succeeded(at) = AttemptFields
         /\ Succeeded(at).of = at.of /\ Succeeded(at).pc = "saveDelivery"
<1>1. /\ Succeeded(at).of = at.of /\ Succeeded(at).pc = "saveDelivery"
      /\ DOMAIN Succeeded(at) = AttemptFields
      /\ Succeeded(at).row = [at.row EXCEPT !.status = "SUCCESS"]
  BY DEF Succeeded, AttemptFields
<1> QED
  BY <1>1 DEF Accounted, DeliveryRows

\* A step of one attempt, or of none, and of the row of one delivery, or of none.
LEMMA TriesMove ==
  ASSUME TriesInv, posts' \in [Deliveries -> Nat], faults' \in Nat,
         \A d \in Deliveries : posts[d] + faults <= posts'[d] + faults',
         DOMAIN attempt' = Attempts, DOMAIN delivery' = Deliveries,
         \A a \in Attempts :
            \/ attempt'[a] = attempt[a]
            \/ /\ DOMAIN attempt'[a] = AttemptFields
               /\ attempt'[a].pc # "idle" =>
                     /\ attempt'[a].of \in Deliveries
                     /\ Accounted(attempt'[a].row, posts'[attempt'[a].of] + faults'),
         \A d \in Deliveries :
            \/ delivery'[d] = delivery[d]
            \/ Accounted(delivery'[d], posts'[d] + faults')
  PROVE  TriesInv'
<1>1. \A d \in Deliveries :
         /\ posts[d] + faults \in Nat /\ posts'[d] + faults' \in Nat
         /\ \A row : Accounted(row, posts[d] + faults) => Accounted(row, posts'[d] + faults')
  BY AccountedGrows DEF TriesInv
<1>2. ASSUME NEW a \in Attempts
      PROVE  /\ DOMAIN attempt'[a] = AttemptFields
             /\ attempt'[a].pc # "idle" =>
                  /\ attempt'[a].of \in Deliveries
                  /\ Accounted(attempt'[a].row, posts'[attempt'[a].of] + faults')
  BY <1>1 DEF TriesInv, Busy
<1>3. ASSUME NEW d \in Deliveries
      PROVE  delivery'[d] = NoRow \/ Accounted(delivery'[d], posts'[d] + faults')
  BY <1>1 DEF TriesInv
<1> QED
  BY <1>2, <1>3 DEF TriesInv, Busy, Accounted

LEMMA NoAttemptIdle == DOMAIN NoAttempt = AttemptFields /\ NoAttempt.pc = "idle"
  BY DEF NoAttempt, AttemptFields

LEMMA DeliverMoves ==
  ASSUME TriesInv, NEW a \in Attempts, NEW d \in Deliveries, NEW row, NEW read,
         Deliver(a, d, row, read), Accounted(row, posts[d] + faults),
         UNCHANGED <<posts, faults>>, DOMAIN delivery' = Deliveries,
         \A e \in Deliveries :
            delivery'[e] = delivery[e] \/ Accounted(delivery'[e], posts[e] + faults)
  PROVE  TriesInv'
<1> DEFINE new == [pc |-> "post", of |-> d, row |-> row, hook |-> read, good |-> FALSE]
<1>1. DOMAIN new = AttemptFields /\ new.of = d /\ new.row = row
  BY DEF AttemptFields
<1>2. attempt' = [attempt EXCEPT ![a] = new]
  BY DEF Deliver
<1> HIDE DEF new
<1>3. /\ DOMAIN attempt' = Attempts /\ attempt'[a] = new
      /\ \A b \in Attempts \ {a} : attempt'[b] = attempt[b]
  BY <1>2 DEF TriesInv
<1>4. \A e \in Deliveries : posts[e] + faults <= posts'[e] + faults'
  BY DEF TriesInv
<1>5. posts' \in [Deliveries -> Nat] /\ faults' \in Nat
  BY DEF TriesInv
<1> QED
  BY <1>1, <1>3, <1>4, <1>5, TriesMove

LEMMA TriesKept == ASSUME TriesInv, [HookNext]_hookVars PROVE TriesInv'
<1>0. /\ posts \in [Deliveries -> Nat] /\ faults \in Nat
      /\ DOMAIN attempt = Attempts /\ DOMAIN delivery = Deliveries
      /\ \A d \in Deliveries : posts[d] + faults \in Nat
  BY DEF TriesInv
<1>1. CASE UNCHANGED <<attempt, delivery, posts, faults>>
  BY <1>1 DEF TriesInv, Busy, Accounted
<1>2. ASSUME NEW u \in HookUsers, TestSave(u) PROVE TriesInv'
  <2> DEFINE row == [status |-> "PENDING", tries |-> 0]
  <2>1. PICK a \in Attempts, d \in Deliveries :
               /\ delivery' = [delivery EXCEPT ![d] = row]
               /\ Deliver(a, d, row, hreq[u].row)
    BY <1>2 DEF TestSave
  <2>2. \A e \in Deliveries : Accounted(row, posts[e] + faults)
    BY <1>0 DEF Accounted, DeliveryRows
  <2> HIDE DEF row
  <2>3. UNCHANGED <<posts, faults>>
    BY <1>2 DEF TestSave
  <2> QED BY <1>0, <2>1, <2>2, <2>3, DeliverMoves
<1>3. ASSUME NEW d \in Deliveries, ProcessRetry(d) PROVE TriesInv'
  <2>1. PICK a \in Attempts : Due(d) /\ Deliver(a, d, delivery[d], hook)
    BY <1>3 DEF ProcessRetry
  <2>2. UNCHANGED <<delivery, posts, faults>>
    BY <1>3 DEF ProcessRetry
  <2>3. Accounted(delivery[d], posts[d] + faults)
    BY <2>1 DEF TriesInv, Due
  <2> QED BY <1>0, <2>1, <2>2, <2>3, DeliverMoves
<1>4. ASSUME NEW a \in Attempts, Post(a) PROVE TriesInv'
  <2> DEFINE at == attempt[a]
             d == at.of
  <2>1. PICK ok \in BOOLEAN :
               attempt' = [attempt EXCEPT ![a] = IF ok THEN Succeeded(at) ELSE Failed(at)]
    BY <1>4 DEF Post
  <2>2. DOMAIN at = AttemptFields /\ d \in Deliveries /\ Accounted(at.row, posts[d] + faults)
    BY <1>4 DEF TriesInv, Post, Busy
  <2>3. posts' = [posts EXCEPT ![d] = posts[d] + 1] /\ UNCHANGED <<delivery, faults>>
    BY <1>4 DEF Post
  <2>4. /\ posts' \in [Deliveries -> Nat] /\ posts'[d] + faults' = posts[d] + faults + 1
        /\ \A e \in Deliveries : posts[e] + faults <= posts'[e] + faults'
    BY <1>0, <2>2, <2>3
  <2>5. /\ attempt'[a] \in {Succeeded(at), Failed(at)} /\ DOMAIN attempt' = Attempts
        /\ \A b \in Attempts \ {a} : attempt'[b] = attempt[b]
    BY <1>0, <2>1
  <2> HIDE DEF at
  <2>6. /\ DOMAIN attempt'[a] = AttemptFields /\ attempt'[a].of = d
        /\ Accounted(attempt'[a].row, posts'[d] + faults')
    <3>1. posts[d] + faults \in Nat /\ posts[d] + faults <= posts[d] + faults + 1
      BY <1>0, <2>2
    <3> QED BY <2>2, <2>4, <2>5, <3>1, FailedAccounted, SucceededAccounted, AccountedGrows
  <2> QED BY <1>0, <2>2, <2>3, <2>4, <2>5, <2>6, TriesMove
<1>5. ASSUME NEW a \in Attempts, SaveDelivery(a) PROVE TriesInv'
  <2> DEFINE at == attempt[a]
  <2>1. DOMAIN at = AttemptFields /\ at.of \in Deliveries
        /\ Accounted(at.row, posts[at.of] + faults)
    BY <1>5 DEF TriesInv, SaveDelivery, Busy
  <2>2. /\ delivery' = [delivery EXCEPT ![at.of] = at.row]
        /\ attempt' = [attempt EXCEPT ![a] = [at EXCEPT !.pc = "saveHook"]]
        /\ UNCHANGED <<posts, faults>>
    BY <1>5 DEF SaveDelivery
  <2>3. /\ attempt'[a].of = at.of /\ attempt'[a].row = at.row
        /\ DOMAIN attempt'[a] = AttemptFields /\ DOMAIN attempt' = Attempts
        /\ \A b \in Attempts \ {a} : attempt'[b] = attempt[b]
    BY <1>0, <2>1, <2>2 DEF AttemptFields
  <2>4. /\ DOMAIN delivery' = Deliveries
        /\ \A e \in Deliveries : delivery'[e] = delivery[e] \/ (e = at.of /\ delivery'[e] = at.row)
    BY <1>0, <2>2
  <2>5. \A e \in Deliveries : posts[e] + faults <= posts'[e] + faults'
    BY <1>0, <2>2
  <2> HIDE DEF at
  <2> QED BY <1>0, <2>1, <2>2, <2>3, <2>4, <2>5, TriesMove
<1>6. ASSUME NEW a \in Attempts, SaveHook(a) PROVE TriesInv'
  <2>1. /\ \A b \in Attempts : attempt'[b] = attempt[b] \/ attempt'[b] = NoAttempt
        /\ DOMAIN attempt' = Attempts /\ UNCHANGED <<delivery, posts, faults>>
    BY <1>0, <1>6 DEF SaveHook
  <2>2. \A e \in Deliveries : posts[e] + faults <= posts'[e] + faults'
    BY <1>0, <2>1
  <2> QED BY <1>0, <2>1, <2>2, NoAttemptIdle, TriesMove
<1>7. ASSUME NEW a \in Attempts, SaveFails(a) PROVE TriesInv'
  <2> DEFINE at == attempt[a]
  <2>1. DOMAIN at = AttemptFields /\ at.of \in Deliveries
        /\ Accounted(at.row, posts[at.of] + faults)
    BY <1>7 DEF TriesInv, SaveFails, Busy
  <2>2. /\ attempt' = [attempt EXCEPT ![a] = IF at.good THEN Failed(at) ELSE NoAttempt]
        /\ faults' = faults + 1 /\ UNCHANGED <<delivery, posts>>
    BY <1>7 DEF SaveFails
  <2>3. /\ attempt'[a] \in {Failed(at), NoAttempt} /\ DOMAIN attempt' = Attempts
        /\ \A b \in Attempts \ {a} : attempt'[b] = attempt[b]
    BY <1>0, <2>2
  <2>4. /\ faults' \in Nat /\ posts'[at.of] + faults' = posts[at.of] + faults + 1
        /\ \A e \in Deliveries : posts[e] + faults <= posts'[e] + faults'
    BY <1>0, <2>1, <2>2
  <2> HIDE DEF at
  <2>5. /\ DOMAIN attempt'[a] = AttemptFields
        /\ attempt'[a].pc # "idle" =>
              attempt'[a].of = at.of /\ Accounted(attempt'[a].row, posts'[at.of] + faults')
    BY <1>0, <2>1, <2>3, <2>4, FailedAccounted, NoAttemptIdle
  <2> QED BY <1>0, <2>1, <2>2, <2>3, <2>4, <2>5, TriesMove
<1>8. ASSUME Restart PROVE TriesInv'
  <2>1. /\ \A b \in Attempts : attempt'[b] = NoAttempt
        /\ DOMAIN attempt' = Attempts /\ UNCHANGED <<delivery, posts>> /\ faults' = faults + 1
    BY <1>0, <1>8 DEF Restart
  <2>2. faults' \in Nat /\ \A e \in Deliveries : posts[e] + faults <= posts'[e] + faults'
    BY <1>0, <2>1
  <2> QED BY <1>0, <2>1, <2>2, NoAttemptIdle, TriesMove
<1>9. ASSUME NEW u \in HookUsers,
             \/ UpdateFind(u) \/ UpdateSave(u) \/ DeleteHook(u) \/ ForgetList(u) \/ ListFind(u)
             \/ ListFill(u) \/ TestFind(u)
      PROVE  TriesInv'
  BY <1>1, <1>9 DEF UpdateFind, UpdateSave, DeleteHook, ForgetList, ListFind, ListFill, TestFind
<1> QED
  BY <1>1, <1>2, <1>3, <1>4, <1>5, <1>6, <1>7, <1>8, <1>9 DEF HookNext, UserStep, hookVars

LEMMA TriesAtFirst == HookInit => TriesInv
  BY NoAttemptIdle DEF HookInit, TriesInv, Busy

\* However many attempts of a delivery overlap, fail half way or are forgotten by
\* a restart: it is given up only after as many posts and faults as retries.
THEOREM DeliveriesAreRetried == HookSpec => []GivesUpOnlyAfterRetries
<1>1. TriesInv => GivesUpOnlyAfterRetries
  <2> SUFFICES ASSUME TriesInv, NEW d \in Deliveries, delivery[d] # NoRow
               PROVE  /\ delivery[d].tries <= posts[d] + faults
                      /\ delivery[d].status = "FAILED" => posts[d] + faults >= MaxRetries
    BY DEF GivesUpOnlyAfterRetries
  <2>1. posts[d] + faults \in Nat /\ Accounted(delivery[d], posts[d] + faults)
    BY DEF TriesInv
  <2> QED BY <2>1, HookAssumption DEF Accounted, DeliveryRows
<1> QED
  BY <1>1, TriesAtFirst, TriesKept, PTL DEF HookSpec

\* Of a delivery whose attempts never overlapped, and while nothing failed, one
\* attempt runs at most, and until it has saved the delivery that is not settled.
OneAtATime ==
    \A a \in Attempts :
       Busy(a) /\ attempt[a].of \notin overlapped /\ faults = 0 =>
          /\ attempt[a].of \in Deliveries
          /\ attempt[a].pc # "saveHook" => ~Settled(delivery[attempt[a].of])
          /\ \A b \in Attempts \ {a} : Busy(b) => attempt[b].of # attempt[a].of

LEMMA OneAtATimeKept ==
  ASSUME TriesInv, OneAtATime, [HookNext]_hookVars PROVE OneAtATime'
<1>0. /\ DOMAIN attempt = Attempts /\ DOMAIN delivery = Deliveries /\ faults \in Nat
      /\ \A a \in Attempts : DOMAIN attempt[a] = AttemptFields
  BY DEF TriesInv
<1>1. CASE UNCHANGED <<attempt, delivery, faults, overlapped>>
  BY <1>1 DEF OneAtATime, Busy, Settled
\* A new attempt, of a delivery that is not settled.
<1>2. ASSUME NEW a \in Attempts, NEW d \in Deliveries, NEW row, NEW read,
             Deliver(a, d, row, read), ~Settled(delivery'[d]), UNCHANGED faults,
             \A e \in Deliveries \ {d} : delivery'[e] = delivery[e],
             ~Settled(delivery[d])
      PROVE  OneAtATime'
  <2>1. /\ attempt'[a].of = d /\ attempt'[a].pc = "post"
        /\ \A b \in Attempts \ {a} : attempt'[b] = attempt[b]
        /\ overlapped \subseteq overlapped'
        /\ d \notin overlapped' => \A b \in Attempts : attempt[b].of # d
    BY <1>0, <1>2 DEF Deliver, Running
  <2> QED BY <1>2, <2>1 DEF OneAtATime, Busy
<1>3. ASSUME NEW u \in HookUsers, TestSave(u) PROVE OneAtATime'
  <2>1. PICK a \in Attempts, d \in Deliveries :
               /\ delivery[d] = NoRow
               /\ delivery' = [delivery EXCEPT ![d] = [status |-> "PENDING", tries |-> 0]]
               /\ Deliver(a, d, [status |-> "PENDING", tries |-> 0], hreq[u].row)
    BY <1>3 DEF TestSave
  <2>2. ~Settled(delivery[d]) /\ ~Settled(delivery'[d])
    BY <1>0, <2>1 DEF Settled
  <2>3. UNCHANGED faults /\ \A e \in Deliveries \ {d} : delivery'[e] = delivery[e]
    BY <1>0, <1>3, <2>1 DEF TestSave
  <2> QED BY <1>2, <2>1, <2>2, <2>3
<1>4. ASSUME NEW d \in Deliveries, ProcessRetry(d) PROVE OneAtATime'
  <2>1. PICK a \in Attempts : Deliver(a, d, delivery[d], hook)
    BY <1>4 DEF ProcessRetry
  <2>2. ~Settled(delivery[d]) /\ UNCHANGED <<delivery, faults>>
    BY <1>4 DEF ProcessRetry, Due, Settled
  <2> QED BY <1>2, <2>1, <2>2
<1>5. ASSUME NEW a \in Attempts, Post(a) PROVE OneAtATime'
  <2>1. /\ attempt'[a].of = attempt[a].of /\ attempt'[a].pc = "saveDelivery" /\ attempt[a].pc = "post"
        /\ \A b \in Attempts \ {a} : attempt'[b] = attempt[b]
        /\ UNCHANGED <<delivery, faults, overlapped>>
    BY <1>0, <1>5 DEF Post, Failed, Succeeded, AttemptFields
  <2> QED BY <2>1 DEF OneAtATime, Busy
<1>6. ASSUME NEW a \in Attempts, SaveDelivery(a) PROVE OneAtATime'
  <2>1. /\ attempt'[a].of = attempt[a].of /\ attempt'[a].pc = "saveHook"
        /\ attempt[a].pc = "saveDelivery"
        /\ \A b \in Attempts \ {a} : attempt'[b] = attempt[b]
        /\ \A e \in Deliveries : e # attempt[a].of => delivery'[e] = delivery[e]
        /\ UNCHANGED <<faults, overlapped>>
    BY <1>0, <1>6 DEF SaveDelivery, AttemptFields
  <2> QED BY <2>1 DEF OneAtATime, Busy
<1>7. ASSUME NEW a \in Attempts, SaveHook(a) PROVE OneAtATime'
  <2>1. /\ \A b \in Attempts : attempt'[b] = attempt[b] \/ attempt'[b] = NoAttempt
        /\ UNCHANGED <<delivery, faults, overlapped>>
    BY <1>0, <1>7 DEF SaveHook
  <2> QED BY <2>1, NoAttemptIdle DEF OneAtATime, Busy
<1>8. CASE Restart \/ \E a \in Attempts : SaveFails(a)
  BY <1>0, <1>8 DEF Restart, SaveFails, OneAtATime
<1>9. ASSUME NEW u \in HookUsers,
             \/ UpdateFind(u) \/ UpdateSave(u) \/ DeleteHook(u) \/ ForgetList(u) \/ ListFind(u)
             \/ ListFill(u) \/ TestFind(u)
      PROVE  OneAtATime'
  BY <1>1, <1>9 DEF UpdateFind, UpdateSave, DeleteHook, ForgetList, ListFind, ListFill, TestFind
<1> QED
  BY <1>1, <1>3, <1>4, <1>5, <1>6, <1>7, <1>8, <1>9 DEF HookNext, UserStep, hookVars

\* A delivery that succeeded or was given up stays as it is, unless two attempts
\* of it ran at once or a save failed, however many deliveries and attempts.
THEOREM SettledDeliveriesStay == HookSpec => SettledStaysSettled
<1>1. HookInit => OneAtATime
  BY NoAttemptIdle DEF HookInit, OneAtATime, Busy
<1>2. TriesInv /\ OneAtATime /\ [HookNext]_hookVars =>
         [\A d \in Deliveries :
             Settled(delivery[d]) => \/ delivery'[d] = delivery[d]
                                     \/ d \in overlapped
                                     \/ faults > 0]_hookVars
  <2> SUFFICES ASSUME TriesInv, OneAtATime, HookNext, NEW d \in Deliveries,
                      Settled(delivery[d]), d \notin overlapped, faults = 0
               PROVE  delivery'[d] = delivery[d]
    BY DEF TriesInv
  <2>1. ASSUME NEW u \in HookUsers, TestSave(u) PROVE delivery'[d] = delivery[d]
    BY <2>1 DEF TestSave, Settled, TriesInv
  <2>2. ASSUME NEW a \in Attempts, SaveDelivery(a) PROVE delivery'[d] = delivery[d]
    <3>1. attempt[a].of # d
      BY <2>2 DEF SaveDelivery, OneAtATime, Busy
    <3> QED BY <2>2, <3>1 DEF SaveDelivery, TriesInv
  <2> QED
    BY <2>1, <2>2 DEF HookNext, UserStep, UpdateFind, UpdateSave, DeleteHook, ForgetList,
                      ListFind, ListFill, TestFind, ProcessRetry, Post, SaveHook, SaveFails,
                      Restart
<1>3. TriesInv /\ OneAtATime /\ [HookNext]_hookVars => OneAtATime'
  BY OneAtATimeKept
<1> QED
  BY <1>1, <1>2, <1>3, TriesAtFirst, TriesKept, PTL DEF HookSpec, SettledStaysSettled
=============================================================================
