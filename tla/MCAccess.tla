------------------------------- MODULE MCAccess -------------------------------
(***************************************************************************)
(* The instances: a few requests on an account, on a team, on the public   *)
(* API, on a webhook, with the workloads in which they meet.  The parts    *)
(* share no state: a behaviour is one of a single part.                    *)
(***************************************************************************)
EXTENDS Account, Team, ApiGate, Webhooks

VARIABLE part   \* what this behaviour is about

CONSTANTS r1, r2, r3, earlier, phone

NoCode == [of |-> None, dashed |-> FALSE]

Typed == [password |-> "p", new |-> "n", totp |-> None, target |-> earlier, backup |-> NoCode,
          challenge |-> None, credential |-> phone, counter |-> 1, status |-> "SUSPENDED"]

Job(op, own) == [op |-> op, own |-> own, typed |-> Typed]

Login == Job("Login", NoSession)
Anyone(op) == Job(op, NoSession)
By(op) == Job(op, earlier)
Totp(job, code) == [job EXCEPT !.typed.totp = code]
Backup(job) == [job EXCEPT !.typed.backup = [of |-> earlier, dashed |-> TRUE]]
Challenge(job, by) == [job EXCEPT !.typed.challenge = by]
Target(job, s) == [job EXCEPT !.typed.target = s]

Three(a, b, c) == [r \in Requests |-> CASE r = r1 -> a [] r = r2 -> b [] OTHER -> c]

Active   == [status |-> "ACTIVE", deleted |-> FALSE, password |-> Hash(Plain("p"))]
NewUserRow == [Active EXCEPT !.status = "PENDING"]
Enabled  == [enabled |-> TRUE, codes |-> {[of |-> earlier, dashed |-> TRUE]}, secret |-> earlier]
NoKeys   == [c \in {} |-> 0]
OneKey   == [c \in {phone} |-> 0]

World(u, f, p, a, b, c) ==
    [user |-> u, factor |-> f, passkeys |-> p, jobs |-> Three(a, b, c), ending |-> {}]

Ending(world, sessions) == [world EXCEPT !.ending = sessions]

MCAccountWorkloads ==
    {Ending(World(Active, None, NoKeys, By("Serve"), By("LogoutAll"), By("Logout")), {earlier}),
     Ending(World(NewUserRow, None, NoKeys, Login, Anyone("ResetPassword"), By("Serve")), {earlier}),
     Ending(World(Active, Enabled, NoKeys,
                  Login, Totp(Job("Verify2FA", r1), earlier), Job("Serve", r1)), {r1}),
     World(Active, Enabled, NoKeys,
           Login, Backup(Job("Verify2FA", r1)), Job("Verify2FA", r1)),
     World(Active, None, NoKeys, By("SetupTotp"), Totp(By("EnableTotp"), r1), Login),
     World(Active, Enabled, NoKeys,
           Totp(By("DisableTotp"), earlier), Totp(By("Regenerate"), earlier), Login),
     World(Active, None, NoKeys,
           By("RegisterBegin"), Challenge(By("RegisterFinish"), r1), Anyone("LoginCheck")),
     World(Active, None, OneKey, Anyone("PasskeyBegin"),
           Challenge(Anyone("PasskeyFinish"), r1), By("DeletePasskey")),
     World(Active, None, OneKey, Anyone("LoginCheck"),
           Challenge(Anyone("PasskeyFinish"), r1), Challenge(Anyone("PasskeyFinish"), r1)),
     World(None, None, NoKeys, Anyone("Register"), Anyone("CreateUser"), Anyone("EditUser")),
     World(Active, None, NoKeys, By("ChangePassword"), Anyone("DeleteUser"), Login),
     Ending(World(Active, None, NoKeys, Login, By("LogoutOthers"), Job("Serve", r1)), {r1}),
     World(Active, None, NoKeys, Login, By("LogoutOthers"), By("Sessions")),
     Ending(World(Active, None, NoKeys, By("Sessions"), By("Logout"), Anyone("EditUser")), {earlier}),
     Ending(World(Active, None, NoKeys,
                  Login, Target(By("RevokeSession"), r1), Job("Serve", r1)), {r1})}

-----------------------------------------------------------------------------

CONSTANTS t1, t2, t3, ann, bob, cy

TJob(op, by, target) ==
    [op |-> op, by |-> by, target |-> target, role |-> "VIEWER", inv |-> OldRow]

ById(job, i) == [job EXCEPT !.inv = i]

TeamOf(owner, admin, plain) ==
    [u \in TeamUsers |->
       LET role == CASE u \in owner -> "OWNER" [] u \in admin -> "ADMIN"
                     [] u \in plain -> "MEMBER" [] OTHER -> Absent
       IN IF role = Absent THEN Absent ELSE [id |-> OldRow, role |-> role]]

All  == TeamOf({ann}, {bob}, {cy})
Two  == TeamOf({ann}, {bob}, {})
NoOne == TeamOf({}, {}, {})

NoInvitation == [i \in TeamRequests \cup {OldRow} |-> Absent]
ToCy == [NoInvitation EXCEPT ![OldRow] =
           [to |-> cy, role |-> "MEMBER", status |-> "PENDING", late |-> FALSE]]

TWorld(m, i, t, a, b, c) ==
    [member |-> m, invitation |-> i, team |-> t,
     jobs |-> [r \in TeamRequests |-> CASE r = t1 -> a [] r = t2 -> b [] OTHER -> c]]

MCTeamWorkloads ==
    {TWorld(All, NoInvitation, "active",
            TJob("Transfer", ann, bob), TJob("Transfer", ann, cy), TJob("UpdateRole", bob, cy)),
     TWorld(All, NoInvitation, "active",
            TJob("RemoveMember", bob, cy), TJob("Leave", cy, cy), TJob("Use", cy, cy)),
     TWorld(All, NoInvitation, "active",
            TJob("RemoveMember", bob, ann), TJob("Transfer", ann, bob), TJob("Leave", ann, ann)),
     TWorld(All, NoInvitation, "active",
            TJob("UpdateRole", ann, bob), TJob("Use", bob, bob), TJob("UpdateTeam", ann, ann)),
     TWorld(Two, ToCy, "active",
            TJob("RemoveMember", bob, cy), TJob("Accept", cy, cy), TJob("Invite", bob, cy)),
     TWorld(Two, ToCy, "active",
            TJob("CancelInvitation", bob, cy), TJob("Accept", cy, cy), TJob("Decline", cy, cy)),
     TWorld(Two, ToCy, "active",
            TJob("DeleteTeam", ann, ann), TJob("Accept", cy, cy), TJob("FindTeam", bob, bob)),
     TWorld(All, ToCy, "active",
            TJob("Accept", cy, cy), TJob("Leave", cy, cy), TJob("ListTeams", cy, cy)),
     TWorld(NoOne, NoInvitation, "none",
            TJob("CreateTeam", ann, ann), TJob("CreateTeam", bob, bob), TJob("Invite", ann, cy)),
     TWorld(Two, NoInvitation, "active",
            TJob("Invite", bob, cy), ById(TJob("Accept", cy, cy), t1), TJob("Transfer", ann, cy))}

-----------------------------------------------------------------------------

CONSTANTS c1, c2, c3, once

MCLimits == [key |-> 2, burst |-> 2, minute |-> 1, month |-> 2]

Call == [op |-> "call", secret |-> Nobody, idem |-> Nobody, nonce |-> Nobody, signed |-> "no"]

KeyJob(op) == [Call EXCEPT !.op = op]
Once(job) == [job EXCEPT !.idem = once]
Signed(job, how) == [job EXCEPT !.signed = how, !.nonce = once]
With(job, secret) == [job EXCEPT !.secret = secret]

Calls(a, b, c, o) ==
    [jobs |-> [r \in ApiRequests |-> CASE r = c1 -> a [] r = c2 -> b [] OTHER -> c],
     occurs |-> o]

MCApiWorkloads ==
    {Calls(Call, KeyJob("revoke"), Call, {}),
     Calls(Call, KeyJob("revoke"), KeyJob("update"), {"copy", "minute"}),
     Calls(Call, KeyJob("rotate"), With(Call, c2), {"expiry"}),
     Calls(Once(Call), Once(Call), KeyJob("none"), {"result", "minute"}),
     Calls(Call, Call, KeyJob("none"), {"flush", "month"}),
     Calls(Signed(Call, "well"), Signed(Call, "badly"), Signed(Call, "missing"), {"key", "burst"})}

CONSTANTS u1, u2, u3, d1, d2, a1, a2

Hooks(a, b, c) == [u \in HookUsers |-> CASE u = u1 -> a [] u = u2 -> b [] OTHER -> c]

MCHookWorkloads ==
    {Hooks("test", "test", "none"), Hooks("test", "rename", "list"),
     Hooks("test", "disable", "enable"), Hooks("test", "list", "delete")}

-----------------------------------------------------------------------------

\* The state of the parts a behaviour is not about.
AccountIdle ==
    /\ SessionsInit([r \in Requests |-> By("Serve")], {})
    /\ user = None /\ factor = None /\ passkeys = NoKeys
    /\ cached = [factor |-> None, passkey |-> None]
    /\ challenge = None /\ attempts = None /\ raced = {}

TeamIdle ==
    /\ member = NoOne /\ invitation = NoInvitation /\ team = "none"
    /\ tcache = [k \in Keys |-> Absent]
    /\ treq = [r \in TeamRequests |-> NewTeamRequest(TJob("Use", ann, ann))]
    /\ overwritten = FALSE /\ traced = {}

ApiIdle ==
    /\ key = Nobody /\ keyCopy = Nobody /\ keyLate = FALSE
    /\ reinstated = FALSE /\ recached = FALSE
    /\ count = [c \in Counters |-> 0] /\ epoch = [c \in Counters |-> 0]
    /\ passed = [c \in Counters |-> 0] /\ skewed = {} /\ nonces = {} /\ results = {}
    /\ areq = [r \in ApiRequests |-> NewCall(Call)] /\ occurs = {}
    /\ buffer = <<>> /\ flushing = <<>> /\ log = {} /\ batchFailed = FALSE

HooksIdle ==
    /\ hook = NoRow /\ listed = NoRow /\ delivery = [d \in Deliveries |-> NoRow]
    /\ attempt = NoRow /\ hreq = NoRow /\ faults = 0
    /\ posts = [d \in Deliveries |-> 0] /\ overlapped = {}

AccessInit ==
    /\ part \in {"account", "team", "api", "hooks"}
    /\ IF part = "account" THEN AccountInit ELSE AccountIdle
    /\ IF part = "team" THEN TeamInit ELSE TeamIdle
    /\ IF part = "api" THEN ApiInit ELSE ApiIdle
    /\ IF part = "hooks" THEN HookInit ELSE HooksIdle

AccessNext ==
    /\ UNCHANGED part
    /\ \/ part = "account" /\ AccountNext /\ UNCHANGED <<teamVars, apiVars, hookVars>>
       \/ part = "team" /\ TeamNext /\ UNCHANGED <<accountVars, apiVars, hookVars>>
       \/ part = "api" /\ ApiNext /\ UNCHANGED <<accountVars, teamVars, hookVars>>
       \/ part = "hooks" /\ HookNext /\ UNCHANGED <<accountVars, teamVars, apiVars>>

accessVars == <<accountVars, teamVars, apiVars, hookVars, part>>

AccessSpec == AccessInit /\ [][AccessNext]_accessVars
=============================================================================
