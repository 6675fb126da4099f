------------------------------ MODULE Webhooks -------------------------------
(***************************************************************************)
(* A webhook and its deliveries.  A delivery is saved and then attempted   *)
(* by a task nobody awaits; a cron job attempts again what is due.  An     *)
(* attempt posts, then saves the delivery and the whole webhook as it had  *)
(* read them, with what it has changed.                                    *)
(***************************************************************************)
EXTENDS Naturals, FiniteSets

CONSTANTS HookUsers,     \* the requests of the user
          Deliveries,    \* the deliveries there may be
          Attempts,      \* bound: how many attempts run at once
          NoRow,
          MaxRetries, MaxFailures,  \* of the webhook, WEBHOOK_MAX_CONSECUTIVE_FAILURES
          MaxFaults,     \* bound: saves that fail, restarts
          HookWorkloads

ASSUME HookAssumption == MaxRetries \in Nat

VARIABLES hook,       \* the row of the webhook
          listed,     \* Redis: the cached list of active webhooks, or NoRow
          delivery,   \* the rows of the deliveries
          attempt,    \* the attempts that are running, with the rows they have read
          hreq,       \* the user's requests
          faults,     \* how many faults there were
          posts,      \* history: how often a delivery was posted
          overlapped  \* history: deliveries of which two attempts ran at once

hookVars == <<hook, listed, delivery, attempt, hreq, faults, posts, overlapped>>

NoAttempt == [pc |-> "idle", of |-> NoRow, row |-> NoRow, hook |-> NoRow, good |-> FALSE]

HookInit ==
    \E w \in HookWorkloads :
       /\ hook = [active |-> TRUE, failures |-> 0, deleted |-> FALSE, name |-> NoRow]
       /\ listed = NoRow /\ delivery = [d \in Deliveries |-> NoRow]
       /\ attempt = [a \in Attempts |-> NoAttempt]
       /\ hreq = [u \in HookUsers |-> [op |-> w[u], pc |-> "new", row |-> NoRow]]
       /\ faults = 0 /\ posts = [d \in Deliveries |-> 0] /\ overlapped = {}

HAt(u, pc) == hreq[u].pc = pc

HGoto(u, pc) == hreq' = [hreq EXCEPT ![u].pc = pc]

-----------------------------------------------------------------------------
(* The user's requests.                                                    *)

\* findOne does not find a deleted webhook; the name stands for all that is edited.
UpdateFind(u) ==
    /\ HAt(u, "new") /\ hreq[u].op \in {"rename", "enable", "disable"}
    /\ hreq' = [hreq EXCEPT ![u].pc = IF hook.deleted THEN "refused" ELSE "save",
                            ![u].row = hook]
    /\ UNCHANGED <<hook, listed, delivery, attempt, faults, posts, overlapped>>

UpdateSave(u) ==
    /\ HAt(u, "save")
    /\ hook' = IF hreq[u].op = "rename" THEN [hreq[u].row EXCEPT !.name = u]
               ELSE [hreq[u].row EXCEPT !.active = hreq[u].op = "enable"]
    /\ HGoto(u, "forget")
    /\ UNCHANGED <<listed, delivery, attempt, faults, posts, overlapped>>

DeleteHook(u) ==
    /\ HAt(u, "new") /\ hreq[u].op = "delete"
    /\ hook' = [hook EXCEPT !.deleted = TRUE] /\ HGoto(u, "forget")
    /\ UNCHANGED <<listed, delivery, attempt, faults, posts, overlapped>>

ForgetList(u) ==
    /\ HAt(u, "forget") /\ listed' = NoRow /\ HGoto(u, "done")
    /\ UNCHANGED <<hook, delivery, attempt, faults, posts, overlapped>>

ListFind(u) ==
    /\ HAt(u, "new") /\ hreq[u].op = "list"
    /\ hreq' = [hreq EXCEPT ![u].pc = IF listed # NoRow THEN "done" ELSE "fill",
                            ![u].row = hook.active /\ ~hook.deleted]
    /\ UNCHANGED <<hook, listed, delivery, attempt, faults, posts, overlapped>>

ListFill(u) ==
    /\ HAt(u, "fill") /\ listed' = hreq[u].row /\ HGoto(u, "done")
    /\ UNCHANGED <<hook, delivery, attempt, faults, posts, overlapped>>

\* TestWebhook, deleted webhooks included: the row of the delivery, and its attempt.
\* It is the only caller there is.
TestFind(u) ==
    /\ HAt(u, "new") /\ hreq[u].op = "test"
    /\ hreq' = [hreq EXCEPT ![u].pc = "deliver", ![u].row = hook]
    /\ UNCHANGED <<hook, listed, delivery, attempt, faults, posts, overlapped>>

Running(d) == \E a \in Attempts : attempt[a].of = d

Deliver(a, d, row, read) ==
    /\ attempt[a] = NoAttempt
    /\ attempt' = [attempt EXCEPT ![a] = [pc |-> "post", of |-> d, row |-> row, hook |-> read,
                                          good |-> FALSE]]
    /\ overlapped' = IF Running(d) THEN overlapped \cup {d} ELSE overlapped

TestSave(u) ==
    \E a \in Attempts, d \in Deliveries :
       /\ HAt(u, "deliver") /\ delivery[d] = NoRow
       /\ delivery' = [delivery EXCEPT ![d] = [status |-> "PENDING", tries |-> 0]]
       /\ Deliver(a, d, [status |-> "PENDING", tries |-> 0], hreq[u].row)
       /\ HGoto(u, "done")
       /\ UNCHANGED <<hook, listed, faults, posts>>

-----------------------------------------------------------------------------
(* An attempt.                                                             *)

Due(d) == delivery[d] # NoRow /\ delivery[d].status = "RETRYING"

\* Mutant of ProcessRetry: what was tried for the first time is picked up as well.
ProcessUnsettled(d) ==
    \E a \in Attempts :
       /\ delivery[d] # NoRow /\ ~hook.deleted
       /\ Deliver(a, d, delivery[d], hook)
       /\ UNCHANGED <<hook, listed, delivery, hreq, faults, posts>>

\* The cron job finds what is due and attempts it, unless the webhook is deleted;
\* nothing says that it is being attempted already.
ProcessRetry(d) ==
    \E a \in Attempts :
       /\ Due(d) /\ ~hook.deleted
       /\ Deliver(a, d, delivery[d], hook)
       /\ UNCHANGED <<hook, listed, delivery, hreq, faults, posts>>

\* Mutant of GivenUp: one retry short.
GivenUpEarly(tries) == tries >= MaxRetries - 1

GivenUp(tries) == tries >= MaxRetries

\* A failed post, or a save of a success that failed: the row and the webhook as
\* they are saved next.
Failed(at) ==
    LET tries == at.row.tries + 1  over == GivenUp(tries)  n == at.hook.failures + 1 IN
    [at EXCEPT
       !.pc = "saveDelivery", !.good = FALSE,
       !.row = [status |-> IF over THEN "FAILED" ELSE "RETRYING", tries |-> tries],
       !.hook = IF ~over THEN @ ELSE [@ EXCEPT !.failures = n, !.active = @ /\ n < MaxFailures]]

Succeeded(at) ==
    [at EXCEPT !.pc = "saveDelivery", !.good = TRUE, !.row = [@ EXCEPT !.status = "SUCCESS"],
               !.hook = [@ EXCEPT !.failures = 0]]

Post(a) ==
    \E ok \in BOOLEAN :
       /\ attempt[a].pc = "post"
       /\ attempt' = [attempt EXCEPT ![a] = IF ok THEN Succeeded(@) ELSE Failed(@)]
       /\ posts' = [posts EXCEPT ![attempt[a].of] = @ + 1]
       /\ UNCHANGED <<hook, listed, delivery, hreq, faults, overlapped>>

SaveDelivery(a) ==
    /\ attempt[a].pc = "saveDelivery"
    /\ delivery' = [delivery EXCEPT ![attempt[a].of] = attempt[a].row]
    /\ attempt' = [attempt EXCEPT ![a].pc = "saveHook"]
    /\ UNCHANGED <<hook, listed, hreq, faults, posts, overlapped>>

SaveHook(a) ==
    /\ attempt[a].pc = "saveHook"
    /\ hook' = attempt[a].hook /\ attempt' = [attempt EXCEPT ![a] = NoAttempt]
    /\ UNCHANGED <<listed, delivery, hreq, faults, posts, overlapped>>

\* A save that fails after a success is taken for a failed attempt; after a failure
\* it ends the attempt.
SaveFails(a) ==
    /\ attempt[a].pc \in {"saveDelivery", "saveHook"} /\ faults < MaxFaults
    /\ attempt' = [attempt EXCEPT ![a] = IF @.good THEN Failed(@) ELSE NoAttempt]
    /\ faults' = faults + 1
    /\ UNCHANGED <<hook, listed, delivery, hreq, posts, overlapped>>

\* A restart forgets the attempts: a delivery that was tried for the first time
\* stays PENDING for good.
Restart ==
    /\ faults < MaxFaults /\ faults' = faults + 1
    /\ attempt' = [a \in Attempts |-> NoAttempt]
    /\ UNCHANGED <<hook, listed, delivery, hreq, posts, overlapped>>

-----------------------------------------------------------------------------

UserStep(u) ==
    UpdateFind(u) \/ UpdateSave(u) \/ DeleteHook(u) \/ ForgetList(u) \/ ListFind(u)
      \/ ListFill(u) \/ TestFind(u) \/ TestSave(u)

HookNext ==
    \/ \E u \in HookUsers : UserStep(u)
    \/ \E d \in Deliveries : ProcessRetry(d)
    \/ \E a \in Attempts : Post(a) \/ SaveDelivery(a) \/ SaveHook(a) \/ SaveFails(a)
    \/ Restart

HookSpec == HookInit /\ [][HookNext]_hookVars

-----------------------------------------------------------------------------

Settled(row) == row # NoRow /\ row.status \in {"SUCCESS", "FAILED"}

(* A delivery that succeeded or was given up is not attempted again, unless *)
(* two attempts of it ran at once or the webhook could not be saved after   *)
(* the success (api-webhook-dispatcher.service.ts:84-112, 145-176).         *)
SettledStaysSettled ==
    [][\A d \in Deliveries :
          Settled(delivery[d]) => \/ delivery'[d] = delivery[d]
                                  \/ d \in overlapped
                                  \/ faults > 0]_hookVars

(* A delivery is given up only after it was posted MaxRetries times, less   *)
(* the successes that could not be saved, whatever attempts of it overlap   *)
(* (api-webhook-dispatcher.service.ts:92-125).                              *)
GivesUpOnlyAfterRetries ==
    /\ \A d \in Deliveries :
          delivery[d] # NoRow => delivery[d].tries <= posts[d] + faults
    /\ \A d \in Deliveries :
          delivery[d] # NoRow /\ delivery[d].status = "FAILED"
            => posts[d] + faults >= MaxRetries
=============================================================================
