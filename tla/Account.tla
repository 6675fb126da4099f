------------------------------- MODULE Account -------------------------------
(***************************************************************************)
(* How a user gets a session: password login, registration, the second     *)
(* factor and passkeys, with what changes them meanwhile: password changes *)
(* and resets, setting the second factor up and disabling it, the          *)
(* administrator.  "Is the factor enabled" and "is there a passkey" are    *)
(* read through cached answers.                                            *)
(***************************************************************************)
EXTENDS Sessions

CONSTANTS None,
          MaxAttempts,       \* TWO_FACTOR_MAX_ATTEMPTS
          AccountWorkloads   \* what there is at first, and the requests that come

ASSUME AttemptsAssumption == MaxAttempts \in Nat

VARIABLES user,        \* the row of the user, or None
          factor,      \* the row of the second factor, or None
          passkeys,    \* the rows: credential |-> counter
          cached,      \* Redis: the cached answers on factor and passkey
          challenge,   \* Redis: the challenge of a registration and of a login
          attempts,    \* Redis: wrong codes per session
          raced        \* history: answers whose row changed behind the cache

accountVars == <<sessionVars, user, factor, passkeys, cached, challenge, attempts, raced>>

Redis == <<cached, challenge, attempts, raced>>

\* argon2: a password, and how often it was hashed.
Plain(name) == [name |-> name, hashes |-> 0]

Hash(p) == [p EXCEPT !.hashes = @ + 1]

Opens(typed, stored) == Hash(Plain(typed)) = stored

\* UserSubscriber hashes a password in the values of an insert or an update.
Subscribed(row) == [row EXCEPT !.password = Hash(@)]

\* A backup code is shown, and hashed, with a dash; a typed one loses its dashes.
BackupCodes(r) == {[of |-> r, dashed |-> TRUE]}

NoDashes(code) == [code EXCEPT !.dashed = FALSE]

Public == {"Login", "LoginCheck", "Register", "ResetPassword", "Verify2FA",
           "PasskeyBegin", "PasskeyFinish"}

Admin == {"CreateUser", "EditUser", "DeleteUser"}

Operations == Public \cup Admin \cup
    {"Serve", "Logout", "RevokeSession", "LogoutAll", "LogoutOthers", "Sessions",
     "ChangePassword", "SetupTotp", "EnableTotp", "DisableTotp", "Regenerate",
     "RegisterBegin", "RegisterFinish", "DeletePasskey"}

\* The rows of a second factor: who set it up names its secret and its codes.
Codes == [of : SessionIds, dashed : BOOLEAN]

FactorRows == [enabled : BOOLEAN, codes : SUBSET Codes, secret : SessionIds]

ASSUME AccountAssumption ==
    /\ None \notin FactorRows
    /\ \A w \in AccountWorkloads :
          /\ w.factor \in FactorRows \cup {None}
          /\ \A r \in Requests : w.jobs[r].op \in Operations

AccountInit ==
    \E w \in AccountWorkloads :
       /\ SessionsInit(w.jobs, w.ending)
       /\ user = w.user /\ factor = w.factor /\ passkeys = w.passkeys
       /\ cached = [factor |-> None, passkey |-> None]
       /\ challenge = [registration |-> None, login |-> None]
       /\ attempts = [s \in SessionIds |-> 0]
       /\ raced = {}

Start(r) ==
    /\ Begin(r, IF req[r].op \in Public \cup Admin THEN req[r].op ELSE "guard")
    /\ UNCHANGED <<user, factor, passkeys, Redis>>

Stays == UNCHANGED <<store, user, factor, passkeys, Redis>>

Answer(r, pc, yes, then) == At(r, pc) /\ Goto(r, IF yes THEN then ELSE "refused") /\ Stays

Known == user # None /\ ~user.deleted

-----------------------------------------------------------------------------
(* The cached answers: isTwoFactorEnabled, hasPasskey.                     *)

Truth(kind) == IF kind = "factor" THEN factor # None /\ factor.enabled
               ELSE DOMAIN passkeys # {}

\* Where the callers go on: Login to the session, LoginCheck to the other
\* answer and, if there is a passkey, to the options of a passkey login.
AfterAnswer(r, kind, answer) ==
    CASE req[r].op = "Login"                           -> "create"
      [] req[r].op = "LoginCheck" /\ kind = "passkey"  -> "askFactor"
      [] req[r].op = "LoginCheck" /\ req[r].hasPasskey -> "PasskeyBegin"
      [] OTHER                                         -> "done"

Got(r, kind, answer) ==
    [req EXCEPT ![r].hasPasskey = IF kind = "passkey" THEN answer ELSE @,
                ![r].pending    = kind = "factor" /\ req[r].op = "Login" /\ answer,
                ![r].pc         = AfterAnswer(r, kind, answer)]

AskPc(kind) == IF kind = "factor" THEN "askFactor" ELSE "askPasskey"

Ask(r, kind) ==
    /\ At(r, AskPc(kind))
    /\ req' = IF cached[kind] # None THEN Got(r, kind, cached[kind])
              ELSE [req EXCEPT ![r].pc = "look", ![r].row = kind]
    /\ Stays

Look(r) ==
    /\ At(r, "look")
    /\ req' = [req EXCEPT ![r].pc = "fill", ![r].row = [kind   |-> req[r].row,
                                                        answer |-> Truth(req[r].row)]]
    /\ Stays

Fill(r) ==
    /\ At(r, "fill")
    /\ LET kind == req[r].row.kind  answer == req[r].row.answer IN
       /\ cached' = [cached EXCEPT ![kind] = answer]
       /\ raced' = IF answer = Truth(kind) THEN raced \ {kind} ELSE raced \cup {kind}
       /\ req' = Got(r, kind, answer)
    /\ UNCHANGED <<store, user, factor, passkeys, challenge, attempts>>

\* The writers delete the cached answer after they have saved.
DropCached(r) ==
    /\ At(r, "drop")
    /\ cached' = [cached EXCEPT ![req[r].row] = None] /\ raced' = raced \ {req[r].row}
    /\ Goto(r, "done")
    /\ UNCHANGED <<store, user, factor, passkeys, challenge, attempts>>

CacheLapses(kind) ==
    /\ cached[kind] # None
    /\ cached' = [cached EXCEPT ![kind] = None] /\ raced' = raced \ {kind}
    /\ UNCHANGED <<req, store, user, factor, passkeys, challenge, attempts>>

-----------------------------------------------------------------------------
(* Passwords.                                                              *)

LoginFind(r) ==
    /\ At(r, "Login")
    /\ IF Known /\ Opens(req[r].typed.password, user.password) /\ user.status # "SUSPENDED"
         THEN req' = [req EXCEPT ![r].pc = "stamp", ![r].row = user.status]
         ELSE Goto(r, "refused")
    /\ Stays

\* LastLoginAt, with the status that was read: a user logs in for the first time.
LoginStamp(r) ==
    /\ At(r, "stamp")
    /\ user' = [user EXCEPT !.status = IF req[r].row = "PENDING" THEN "ACTIVE" ELSE req[r].row]
    /\ Goto(r, "askFactor")
    /\ UNCHANGED <<store, factor, passkeys, Redis>>

LoginCheck(r) ==
    Answer(r, "LoginCheck", Known => user.status # "SUSPENDED",
           IF Known THEN "askPasskey" ELSE "done")

NewUser(name) ==
    Subscribed([status |-> "ACTIVE", deleted |-> FALSE, password |-> Plain(name)])

\* The e-mail address is unique among the rows, deleted ones included.
AddUser(r, then) ==
    /\ At(r, req[r].op)
    /\ user' = IF user = None THEN NewUser(req[r].typed.new) ELSE user
    /\ Goto(r, IF user = None THEN then ELSE "refused")
    /\ UNCHANGED <<store, factor, passkeys, Redis>>

Register(r) == req[r].op = "Register" /\ AddUser(r, "create")

CreateUser(r) == req[r].op = "CreateUser" /\ AddUser(r, "done")

ResetPassword(r) == Answer(r, "ResetPassword", Known, "setPassword")

ChangePassword(r) ==
    Answer(r, "ChangePassword", Known /\ Opens(req[r].typed.password, user.password),
           "setPassword")

\* Both hash the new password and give it to Repository.update.
SetPassword(r) ==
    /\ At(r, "setPassword")
    /\ user' = Subscribed([user EXCEPT !.password = Hash(Plain(req[r].typed.new))])
    /\ Goto(r, IF req[r].op = "ResetPassword" THEN "findKeys" ELSE "done")
    /\ UNCHANGED <<store, factor, passkeys, Redis>>

EditUser(r) ==
    /\ At(r, "EditUser")
    /\ user' = IF Known THEN [user EXCEPT !.status = req[r].typed.status] ELSE user
    /\ Goto(r, IF Known THEN "done" ELSE "refused")
    /\ UNCHANGED <<store, factor, passkeys, Redis>>

DeleteUser(r) ==
    /\ At(r, "DeleteUser")
    /\ user' = IF Known THEN [user EXCEPT !.deleted = TRUE] ELSE user
    /\ Goto(r, IF Known THEN "done" ELSE "refused")
    /\ UNCHANGED <<store, factor, passkeys, Redis>>

-----------------------------------------------------------------------------
(* The second factor.                                                      *)

SetupTotp(r) == Answer(r, "SetupTotp", ~Truth("factor"), "findFactor")

FindFactor(r) ==
    /\ At(r, "findFactor")
    /\ req' = [req EXCEPT ![r].pc = "saveSecret",
           ![r].row = IF factor = None THEN [enabled |-> FALSE, codes |-> {}, secret |-> r]
                      ELSE [factor EXCEPT !.secret = r]]
    /\ Stays

\* save() writes the entity as it was read; an answer may change behind the cache.
SaveRow(r, row, then, kind) ==
    /\ factor' = row
    /\ raced' = IF kind # None \/ row.enabled = Truth("factor") THEN raced
                ELSE raced \cup {"factor"}
    /\ req' = [req EXCEPT ![r].pc = then, ![r].row = kind]
    /\ UNCHANGED <<store, user, passkeys, cached, challenge, attempts>>

SaveSecret(r) == At(r, "saveSecret") /\ SaveRow(r, req[r].row, "done", None)

EnableTotp(r) ==
    /\ At(r, "EnableTotp")
    /\ IF factor # None /\ req[r].typed.totp = factor.secret
         THEN req' = [req EXCEPT ![r].pc = "enable", ![r].row =
                  [factor EXCEPT !.enabled = TRUE, !.codes = BackupCodes(r)]]
         ELSE Goto(r, "refused")
    /\ Stays

\* Mutant of SaveEnabled: the cached answer is left to lapse.
SaveEnabledOnly(r) == At(r, "enable") /\ SaveRow(r, req[r].row, "done", "factor")

SaveEnabled(r) == At(r, "enable") /\ SaveRow(r, req[r].row, "drop", "factor")

\* verifyCode, on the row it has read.
Matching(r, row) == {c \in row.codes : c = NoDashes(req[r].typed.backup)}

Accepts(r, row) == row.enabled /\ (req[r].typed.totp = row.secret \/ Matching(r, row) # {})

AfterGood(r) == CASE req[r].op = "Verify2FA"   -> "clear"
                  [] req[r].op = "DisableTotp" -> "deleteFactor"
                  [] OTHER                     -> "newCodes"

VerifyCode(r) ==
    /\ req[r].pc \in {"code", "DisableTotp", "Regenerate"}
    /\ req' = [req EXCEPT ![r].row = factor,
           ![r].pc = CASE factor # None /\ Accepts(r, factor) -> "spend"
                       [] req[r].op = "Verify2FA"             -> "count"
                       [] OTHER                               -> "refused"]
    /\ Stays

SpendCode(r) ==
    /\ At(r, "spend")
    /\ factor' = IF factor = None \/ req[r].typed.totp = req[r].row.secret THEN factor
                 ELSE [factor EXCEPT !.codes = req[r].row.codes \ Matching(r, req[r].row)]
    /\ Goto(r, AfterGood(r))
    /\ UNCHANGED <<store, user, passkeys, Redis>>

DeleteFactor(r) ==
    /\ At(r, "deleteFactor")
    /\ factor' = None /\ req' = [req EXCEPT ![r].pc = "drop", ![r].row = "factor"]
    /\ UNCHANGED <<store, user, passkeys, Redis>>

NewCodes(r) ==
    /\ At(r, "newCodes")
    /\ IF Truth("factor")
         THEN req' = [req EXCEPT ![r].pc = "saveCodes",
                                 ![r].row = [factor EXCEPT !.codes = BackupCodes(r)]]
         ELSE Goto(r, "refused")
    /\ Stays

SaveCodes(r) == At(r, "saveCodes") /\ SaveRow(r, req[r].row, "done", None)

Verify2FA(r) ==
    /\ GetSession(r, req[r].own, "Verify2FA", IF Awaits(r) THEN "attempts" ELSE "refused",
                  "refused")
    /\ UNCHANGED <<user, factor, passkeys, Redis>>

CheckAttempts(r) ==
    /\ At(r, "attempts")
    /\ req' = [req EXCEPT ![r].tries = attempts[req[r].own], ![r].then = "refused",
           ![r].pc = IF attempts[req[r].own] >= MaxAttempts THEN "revoke" ELSE "code"]
    /\ Stays

SetAttempts(r, pc, n, then) ==
    /\ At(r, pc)
    /\ attempts' = [attempts EXCEPT ![req[r].own] = n] /\ Goto(r, then)
    /\ UNCHANGED <<store, user, factor, passkeys, cached, challenge, raced>>

CountAttempt(r) == SetAttempts(r, "count", req[r].tries + 1, "refused")

ClearAttempts(r) == SetAttempts(r, "clear", 0, "complete")

AttemptsLapse(s) ==
    /\ attempts[s] # 0 /\ attempts' = [attempts EXCEPT ![s] = 0]
    /\ UNCHANGED <<req, store, user, factor, passkeys, cached, challenge, raced>>

-----------------------------------------------------------------------------
(* Passkeys.                                                               *)

SetChallenge(r, pc, kind, value, then) ==
    /\ At(r, pc)
    /\ challenge' = [challenge EXCEPT ![kind] = value]
    /\ req' = [req EXCEPT ![r].pc = then, ![r].row = "passkey"]
    /\ UNCHANGED <<store, user, factor, passkeys, cached, attempts, raced>>

BeginRegistration(r) == SetChallenge(r, "RegisterBegin", "registration", r, "done")

FinishRegistration(r) ==
    Answer(r, "RegisterFinish", challenge.registration = req[r].typed.challenge, "savePasskey")

SavePasskey(r) ==
    /\ At(r, "savePasskey")
    /\ passkeys' = [c \in DOMAIN passkeys \cup {r} |-> IF c = r THEN 0 ELSE passkeys[c]]
    /\ req' = [req EXCEPT ![r].pc = "clearRegistration", ![r].row = "passkey"]
    /\ UNCHANGED <<store, user, factor, Redis>>

ClearRegistration(r) == SetChallenge(r, "clearRegistration", "registration", None, "drop")

PasskeyBegin(r) ==
    /\ At(r, "PasskeyBegin")
    /\ Goto(r, IF Known /\ Truth("passkey") THEN "setLogin"
               ELSE IF req[r].op = "LoginCheck" THEN "done" ELSE "refused")
    /\ Stays

SetLoginChallenge(r) == SetChallenge(r, "setLogin", "login", r, "done")

PasskeyFinish(r) ==
    /\ At(r, "PasskeyFinish")
    /\ IF Known /\ challenge.login # None
         THEN req' = [req EXCEPT ![r].pc = "findPasskey", ![r].row = challenge.login]
         ELSE Goto(r, "refused")
    /\ Stays

\* The library wants the challenge that was read, and a counter above the stored
\* one unless neither counts.
FindPasskey(r) ==
    LET typed == req[r].typed IN
    Answer(r, "findPasskey",
           /\ typed.credential \in DOMAIN passkeys /\ req[r].row = typed.challenge
           /\ passkeys[typed.credential] < typed.counter
                \/ (passkeys[typed.credential] = 0 /\ typed.counter = 0),
           "setCounter")

SetCounter(r) ==
    /\ At(r, "setCounter")
    /\ passkeys' = [c \in DOMAIN passkeys |->
           IF c = req[r].typed.credential THEN req[r].typed.counter ELSE passkeys[c]]
    /\ Goto(r, "clearLogin")
    /\ UNCHANGED <<store, user, factor, Redis>>

ClearLogin(r) == SetChallenge(r, "clearLogin", "login", None, "create")

DeletePasskey(r) ==
    /\ At(r, "DeletePasskey")
    /\ passkeys' = [c \in DOMAIN passkeys \ {req[r].typed.credential} |-> passkeys[c]]
    /\ req' = [req EXCEPT ![r].pc = "drop", ![r].row = "passkey"]
    /\ UNCHANGED <<store, user, factor, Redis>>

ChallengeLapses(kind) ==
    /\ challenge[kind] # None /\ challenge' = [challenge EXCEPT ![kind] = None]
    /\ UNCHANGED <<req, store, user, factor, passkeys, cached, attempts, raced>>

-----------------------------------------------------------------------------

AccountStep(r) ==
    \/ Start(r)
    \/ SessionStep(r) /\ UNCHANGED <<user, factor, passkeys, Redis>>
    \/ \E kind \in {"factor", "passkey"} : Ask(r, kind)
    \/ Look(r) \/ Fill(r) \/ DropCached(r)
    \/ LoginFind(r) \/ LoginStamp(r) \/ LoginCheck(r) \/ Register(r) \/ CreateUser(r)
    \/ ResetPassword(r) \/ ChangePassword(r) \/ SetPassword(r) \/ EditUser(r) \/ DeleteUser(r)
    \/ SetupTotp(r) \/ FindFactor(r) \/ SaveSecret(r) \/ EnableTotp(r) \/ SaveEnabled(r)
    \/ VerifyCode(r) \/ SpendCode(r) \/ DeleteFactor(r) \/ NewCodes(r) \/ SaveCodes(r)
    \/ Verify2FA(r) \/ CheckAttempts(r) \/ CountAttempt(r) \/ ClearAttempts(r)
    \/ BeginRegistration(r) \/ FinishRegistration(r) \/ SavePasskey(r) \/ ClearRegistration(r)
    \/ PasskeyBegin(r) \/ SetLoginChallenge(r) \/ PasskeyFinish(r) \/ FindPasskey(r)
    \/ SetCounter(r) \/ ClearLogin(r) \/ DeletePasskey(r)

Lapses ==
    \/ TimePasses /\ UNCHANGED <<user, factor, passkeys, Redis>>
    \/ \E kind \in {"factor", "passkey"} : CacheLapses(kind)
    \/ \E kind \in {"registration", "login"} : ChallengeLapses(kind)
    \/ \E s \in SessionIds : AttemptsLapse(s)

AccountNext == (\E r \in Requests : AccountStep(r)) \/ Lapses

AccountSpec == AccountInit /\ [][AccountNext]_accountVars

-----------------------------------------------------------------------------

(* A cached answer is wrong only while a request is between its save and    *)
(* its Delete, or because it was read before a save and cached after the    *)
(* Delete, or because save() of an entity read earlier undid a change       *)
(* (two-factor.service.ts:131-134, 206-208, 266-270, passkey.service.ts).   *)
FlagStaleOnlyIfRaced ==
    \A kind \in {"factor", "passkey"} :
       cached[kind] \in {None, Truth(kind)} \/ kind \in raced
         \/ \E r \in Requests : /\ req[r].pc \in {"drop", "clearRegistration"}
                                /\ req[r].row = kind

(* A backup code the user was shown is accepted as long as it is on the row *)
(* ("a TOTP code or backup code", authentication.controller.ts:124).        *)
BackupCodeOpens ==
    \A r \in Requests : At(r, "count") /\ req[r].row # None =>
       req[r].typed.backup \notin req[r].row.codes
=============================================================================
