------------------------------- MODULE ApiGate -------------------------------
(***************************************************************************)
(* The public API for the holder of one key: the guards every call passes  *)
(* (key, signature, quota, rates), the replay of answered calls, and what  *)
(* a call leaves behind (counters, usage entries), side by side with the   *)
(* user's updates, rotations and revocation of the key.  All counters are  *)
(* read from Redis and written back in a second step.                      *)
(***************************************************************************)
EXTENDS Integers, Sequences

CONSTANTS ApiRequests, Nobody,
          Limits,          \* what the key and the tier allow, per counter
          BatchSize,       \* USAGE_FLUSH_BATCH_SIZE
          MaxTurns,        \* bound: how often a counter starts anew
          ApiWorkloads     \* the requests, and what happens by itself meanwhile

Counters == {"key", "burst", "minute", "month"}

\* Counters whose Redis key names the minute or the month.
Windowed == {"minute", "month"}

ASSUME LimitsAssumption == Limits \in [Counters -> Nat] /\ BatchSize \in Nat \ {0}

VARIABLES key,         \* the row of the key
          keyCopy,     \* Redis: the cached row, or Nobody
          keyLate,     \* ExpiresAt has passed
          count,       \* Redis: the counters
          epoch,       \* how often a counter has started anew
          passed,      \* history: how often it was counted since then
          skewed,      \* history: counters set from a value read before that
          nonces,      \* Redis: used nonces
          results,     \* Redis: answers kept by idempotency key
          areq,        \* per request: what it is, where it is, what it read
          buffer, flushing, log,   \* usage entries: in memory, being written, written
          batchFailed, \* history: a batch failed with others behind it
          occurs,      \* what lapses, starts anew or runs by itself (a bound)
          reinstated,  \* history: a save undid a revocation
          recached     \* history: a row was cached that was no longer current

keyVars == <<key, keyCopy, keyLate, reinstated, recached>>
counterVars == <<count, epoch, passed, skewed>>
replayVars == <<nonces, results>>
usageVars == <<buffer, flushing, log, batchFailed>>
apiVars == <<keyVars, counterVars, replayVars, usageVars, areq, occurs>>

AAt(r, pc) == areq[r].pc = pc

AGoto(r, pc) == areq' = [areq EXCEPT ![r].pc = pc]

NewCall(job) == [op |-> job.op, secret |-> job.secret, idem |-> job.idem, nonce |-> job.nonce,
                 signed |-> job.signed, pc |-> "new", row |-> Nobody, fresh |-> FALSE,
                 saw |-> 0, era |-> 0, ran |-> FALSE, recorder |-> "idle", rsaw |-> 0,
                 rera |-> 0, store |-> "idle", afterRevoke |-> FALSE, known |-> FALSE]

ApiInit ==
    \E w \in ApiWorkloads :
       /\ key = [secret |-> Nobody, revoked |-> FALSE, scoped |-> TRUE] /\ keyCopy = Nobody
       /\ keyLate = FALSE /\ reinstated = FALSE /\ recached = FALSE
       /\ count = [c \in Counters |-> 0] /\ epoch = [c \in Counters |-> 0]
       /\ passed = [c \in Counters |-> 0] /\ skewed = {}
       /\ nonces = {} /\ results = {}
       /\ areq = [r \in ApiRequests |-> NewCall(w.jobs[r])] /\ occurs = w.occurs
       /\ buffer = <<>> /\ flushing = <<>> /\ log = {} /\ batchFailed = FALSE

Revoked == \E q \in ApiRequests : areq[q].op = "revoke" /\ AAt(q, "done")

BeginApi(r) ==
    /\ AAt(r, "new") /\ areq[r].op # "none"
    /\ areq' = [areq EXCEPT ![r].pc = IF areq[r].op = "call" THEN "askKey" ELSE "readRow",
                            ![r].afterRevoke = Revoked, ![r].known = areq[r].idem \in results]
    /\ UNCHANGED <<keyVars, counterVars, replayVars, usageVars>>

-----------------------------------------------------------------------------
(* The key: GetApiKeyByPublicKey and validateSimpleApiKey.                 *)

TakeRow(r, row, fresh, pc) ==
    areq' = [areq EXCEPT ![r].row = row, ![r].fresh = fresh, ![r].pc = pc]

AskKey(r) ==
    /\ AAt(r, "askKey")
    /\ TakeRow(r, keyCopy, FALSE, IF keyCopy # Nobody THEN "verify" ELSE "findKey")
    /\ UNCHANGED <<keyVars, counterVars, replayVars, usageVars>>

FindKey(r) ==
    /\ AAt(r, "findKey")
    /\ TakeRow(r, key, TRUE, IF key.revoked THEN "refused" ELSE "cacheKey")
    /\ UNCHANGED <<keyVars, counterVars, replayVars, usageVars>>

CacheKey(r) ==
    /\ AAt(r, "cacheKey")
    /\ keyCopy' = areq[r].row /\ recached' = (recached \/ areq[r].row # key)
    /\ AGoto(r, "verify")
    /\ UNCHANGED <<key, keyLate, reinstated, counterVars, replayVars, usageVars>>

\* The ExpiresAt of a cached row is a string: it is never in the past.
Verify(r) ==
    /\ AAt(r, "verify")
    /\ AGoto(r, IF areq[r].row.secret = areq[r].secret /\ ~(areq[r].fresh /\ keyLate)
                THEN "key" ELSE "refused")
    /\ UNCHANGED <<keyVars, counterVars, replayVars, usageVars>>

KeyCopyLapses ==
    /\ keyCopy # Nobody /\ keyCopy' = Nobody
    /\ UNCHANGED <<key, keyLate, reinstated, recached, counterVars, replayVars, usageVars, areq>>

KeyExpires ==
    /\ ~keyLate /\ keyLate' = TRUE
    /\ UNCHANGED <<key, keyCopy, reinstated, recached, counterVars, replayVars, usageVars, areq>>

\* updateApiKey, rotateApiKey and revokeApiKey find the row; the first two want it
\* not revoked, and save it as they have found it but for what they change.
ReadRow(r) ==
    /\ AAt(r, "readRow")
    /\ TakeRow(r, key, TRUE, CASE areq[r].op = "revoke" -> "revoke"
                               [] key.revoked           -> "refused"
                               [] OTHER                 -> "saveRow")
    /\ UNCHANGED <<keyVars, counterVars, replayVars, usageVars>>

SaveKey(r) ==
    /\ AAt(r, "saveRow")
    /\ key' = IF areq[r].op = "rotate" THEN [areq[r].row EXCEPT !.secret = r]
              ELSE [areq[r].row EXCEPT !.scoped = FALSE]
    /\ reinstated' = (reinstated \/ key.revoked)
    /\ AGoto(r, "dropCopy")
    /\ UNCHANGED <<keyCopy, keyLate, recached, counterVars, replayVars, usageVars>>

MarkRevoked(r, pc, then) ==
    /\ AAt(r, pc)
    /\ key' = [key EXCEPT !.revoked = TRUE] /\ AGoto(r, then)
    /\ UNCHANGED <<keyCopy, keyLate, reinstated, recached, counterVars, replayVars, usageVars>>

ForgetCopy(r, pc, then) ==
    /\ AAt(r, pc)
    /\ keyCopy' = Nobody /\ AGoto(r, then)
    /\ UNCHANGED <<key, keyLate, reinstated, recached, counterVars, replayVars, usageVars>>

\* Mutant of Revoke: the copy is deleted before the row is marked.
RevokeLast(r) == ForgetCopy(r, "revoke", "mark") \/ MarkRevoked(r, "mark", "done")

Revoke(r) == MarkRevoked(r, "revoke", "dropCopy")

DropCopy(r) == ForgetCopy(r, "dropCopy", "done")

-----------------------------------------------------------------------------
(* The counters.                                                           *)

Then == [key |-> "sign", burst |-> "minute", minute |-> "replay"]

Putting == [key |-> "putKey", burst |-> "putBurst", minute |-> "putMinute"]

\* checkRateLimit, CheckBurstLimit, CheckRateLimit: read and compare ...
Compare(r, c) ==
    /\ AAt(r, c)
    /\ areq' = [areq EXCEPT ![r].saw = count[c], ![r].era = epoch[c],
                            ![r].pc = IF count[c] >= Limits[c] THEN "limited" ELSE Putting[c]]
    /\ UNCHANGED <<keyVars, counterVars, replayVars, usageVars>>

\* Mutant of PutCount: the window is named anew for the write.
PutCountNow(c, saw, era) ==
    /\ count'  = [count EXCEPT ![c] = saw + 1]
    /\ passed' = [passed EXCEPT ![c] = @ + 1]
    /\ skewed' = IF era = epoch[c] \/ c \in Windowed THEN skewed ELSE skewed \cup {c}
    /\ UNCHANGED epoch

\* ... and set to what was read and one.  The key of a window that is over is
\* nobody's any more; the other counters have no window, only a lifetime.
PutCount(c, saw, era) ==
    LET same == era = epoch[c] IN
    /\ count'  = IF same \/ c \notin Windowed THEN [count EXCEPT ![c] = saw + 1] ELSE count
    /\ passed' = IF same \/ c \notin Windowed THEN [passed EXCEPT ![c] = @ + 1] ELSE passed
    /\ skewed' = IF same \/ c \in Windowed THEN skewed ELSE skewed \cup {c}
    /\ UNCHANGED epoch

Put(r, c) ==
    /\ AAt(r, Putting[c])
    /\ PutCount(c, areq[r].saw, areq[r].era)
    /\ AGoto(r, Then[c])
    /\ UNCHANGED <<keyVars, replayVars, usageVars>>

Turn(c) ==
    /\ count[c] # 0 /\ epoch[c] < MaxTurns
    /\ epoch'  = [epoch EXCEPT ![c] = @ + 1]
    /\ count'  = [count EXCEPT ![c] = 0]
    /\ passed' = [passed EXCEPT ![c] = 0]
    /\ skewed' = skewed \ {c}
    /\ UNCHANGED <<keyVars, replayVars, usageVars, areq>>

\* VerifySignature: the nonce, if there is a signature, then the signature; a tier may
\* want one that is missing.
Sign(r) ==
    /\ AAt(r, "sign")
    /\ AGoto(r, CASE areq[r].signed = "no"       -> "quota"
                  [] areq[r].signed = "missing"  -> "refused"
                  [] areq[r].nonce \in nonces    -> "refused"
                  [] OTHER                       -> "useNonce")
    /\ UNCHANGED <<keyVars, counterVars, replayVars, usageVars>>

UseNonce(r) ==
    /\ AAt(r, "useNonce")
    /\ nonces' = nonces \cup {areq[r].nonce}
    /\ AGoto(r, IF areq[r].signed = "well" THEN "quota" ELSE "refused")
    /\ UNCHANGED <<keyVars, counterVars, results, usageVars>>

\* The scope guard, and the quota guard, which only reads; a quota of 0 is none.
CheckQuota(r) ==
    /\ AAt(r, "quota")
    /\ AGoto(r, CASE ~areq[r].row.scoped -> "refused"
                  [] Limits["month"] # 0 /\ count["month"] >= Limits["month"] -> "limited"
                  [] OTHER -> "burst")
    /\ UNCHANGED <<keyVars, counterVars, replayVars, usageVars>>

-----------------------------------------------------------------------------
(* The handler, between the interceptors.                                  *)

\* Mutant of Replay: a kept answer is not looked for.
ReplayNever(r) ==
    /\ AAt(r, "replay") /\ AGoto(r, "run")
    /\ UNCHANGED <<keyVars, counterVars, replayVars, usageVars>>

\* A call answered from the kept results is not recorded either.
Replay(r) ==
    /\ AAt(r, "replay")
    /\ AGoto(r, IF areq[r].idem \in results THEN "done" ELSE "run")
    /\ UNCHANGED <<keyVars, counterVars, replayVars, usageVars>>

\* The handler answers or fails; nobody awaits what the interceptors start then.
Run(r) ==
    \E ok \in BOOLEAN :
       /\ AAt(r, "run")
       /\ areq' = [areq EXCEPT
              ![r].pc = IF ok THEN "done" ELSE "failed", ![r].ran = ok,
              ![r].recorder = "ask",
              ![r].store = IF ok /\ areq[r].idem # Nobody THEN "set" ELSE "idle"]
       /\ UNCHANGED <<keyVars, counterVars, replayVars, usageVars>>

StoreResult(r) ==
    /\ areq[r].store = "set"
    /\ results' = results \cup {areq[r].idem}
    /\ areq' = [areq EXCEPT ![r].store = "idle"]
    /\ UNCHANGED <<keyVars, counterVars, nonces, usageVars>>

\* The kept answer lapses, for the calls that are still to look for it too.
ResultLapses(k) ==
    /\ k \in results /\ results' = results \ {k}
    /\ areq' = [r \in ApiRequests |-> IF areq[r].idem = k THEN [areq[r] EXCEPT !.known = FALSE]
                                      ELSE areq[r]]
    /\ UNCHANGED <<keyVars, counterVars, nonces, usageVars>>

\* RecordRequest; the counters per day and per endpoint, which only reports read,
\* are left out.
RecordAsk(r) ==
    /\ areq[r].recorder = "ask"
    /\ areq' = [areq EXCEPT ![r].recorder = "put", ![r].rsaw = count["month"],
                            ![r].rera = epoch["month"]]
    /\ UNCHANGED <<keyVars, counterVars, replayVars, usageVars>>

RecordPut(r) ==
    /\ areq[r].recorder = "put"
    /\ PutCount("month", areq[r].rsaw, areq[r].rera)
    /\ areq' = [areq EXCEPT ![r].recorder = "push"]
    /\ UNCHANGED <<keyVars, replayVars, usageVars>>

RecordPush(r) ==
    /\ areq[r].recorder = "push"
    /\ buffer' = Append(buffer, r)
    /\ areq' = [areq EXCEPT ![r].recorder = "pushed"]
    /\ UNCHANGED <<keyVars, counterVars, replayVars, flushing, log, batchFailed>>

-----------------------------------------------------------------------------
(* FlushBufferToDatabase, one batch after the other.                       *)

Least(a, b) == IF a < b THEN a ELSE b

Batch(entries) == SubSeq(entries, 1, Least(BatchSize, Len(entries)))

Behind(entries) == SubSeq(entries, Least(BatchSize, Len(entries)) + 1, Len(entries))

Elements(s) == {s[i] : i \in 1..Len(s)}

Flush ==
    /\ flushing = <<>> /\ buffer # <<>>
    /\ flushing' = buffer /\ buffer' = <<>>
    /\ UNCHANGED <<keyVars, counterVars, replayVars, log, batchFailed, areq>>

\* Mutant of FlushBatch: the entries that came meanwhile go with the batch.
FlushBatchAndBuffer ==
    /\ flushing # <<>>
    /\ log' = log \cup Elements(Batch(flushing)) /\ flushing' = Behind(flushing)
    /\ buffer' = <<>>
    /\ UNCHANGED <<keyVars, counterVars, replayVars, batchFailed, areq>>

FlushBatch ==
    /\ flushing # <<>>
    /\ log' = log \cup Elements(Batch(flushing)) /\ flushing' = Behind(flushing)
    /\ UNCHANGED <<keyVars, counterVars, replayVars, buffer, batchFailed, areq>>

\* insertMany fails, perhaps after it has inserted some: the batch is put back, and
\* those behind it are dropped.
FlushFails ==
    \E some \in SUBSET Elements(Batch(flushing)) :
       /\ flushing # <<>>
       /\ log' = log \cup some
       /\ buffer' = Batch(flushing) \o buffer /\ flushing' = <<>>
       /\ batchFailed' = (batchFailed \/ Behind(flushing) # <<>>)
       /\ UNCHANGED <<keyVars, counterVars, replayVars, areq>>

-----------------------------------------------------------------------------

ApiStep(r) ==
    \/ BeginApi(r) \/ AskKey(r) \/ FindKey(r) \/ CacheKey(r) \/ Verify(r)
    \/ ReadRow(r) \/ SaveKey(r) \/ Revoke(r) \/ DropCopy(r)
    \/ \E c \in Counters \ {"month"} : Compare(r, c) \/ Put(r, c)
    \/ Sign(r) \/ UseNonce(r) \/ CheckQuota(r) \/ Replay(r) \/ Run(r)
    \/ StoreResult(r) \/ RecordAsk(r) \/ RecordPut(r) \/ RecordPush(r)

ApiNext ==
    /\ UNCHANGED occurs
    /\ \/ \E r \in ApiRequests : ApiStep(r)
       \/ \E c \in Counters \cap occurs : Turn(c)
       \/ "result" \in occurs /\ \E k \in results : ResultLapses(k)
       \/ "copy" \in occurs /\ KeyCopyLapses
       \/ "expiry" \in occurs /\ KeyExpires
       \/ "flush" \in occurs /\ (Flush \/ FlushBatch \/ FlushFails)

ApiSpec == ApiInit /\ [][ApiNext]_apiVars

-----------------------------------------------------------------------------

PastTheKey(r) ==
    areq[r].op = "call"
      /\ areq[r].pc \notin {"new", "askKey", "findKey", "cacheKey", "verify", "refused"}

(* A call that comes in after a revocation was answered is refused, but if  *)
(* a row read before the revocation was cached after it, or an update or    *)
(* rotation saved the row it had read before (api-key.service.ts:291, 322,  *)
(* 352, 386).                                                               *)
RevokedKeyIsRefused ==
    \A r \in ApiRequests :
       areq[r].afterRevoke /\ PastTheKey(r) => reinstated \/ recached

(* No counter is ahead of what was counted since it started anew, so that   *)
(* no call is refused before its limit is reached; but for a counter set    *)
(* from a value read before its lifetime ended (api-rate-limit.service.ts:  *)
(* 20-75, api-usage.service.ts:64-71, api-key.service.ts:224-237).          *)
CountersNeverLead == \A c \in Counters : count[c] <= passed[c] \/ c \in skewed

(* A call whose idempotency key had its answer kept when it came in does    *)
(* not run the handler again (api-idempotency.interceptor.ts:62-74).        *)
KeptAnswersAreReplayed == \A r \in ApiRequests : areq[r].ran => ~areq[r].known

(* A usage entry that was pushed is in the buffer, being flushed, or in the *)
(* log, whatever the order of pushes and flushes; entries go missing only   *)
(* behind a batch that failed (api-usage.service.ts:103-148).               *)
EntriesKeptUnlessABatchFails ==
    \A r \in ApiRequests : areq[r].recorder = "pushed" =>
       r \in Elements(buffer) \cup Elements(flushing) \cup log \/ batchFailed
=============================================================================
