---------------------------- MODULE DocumentDraft ----------------------------
(***************************************************************************)
(* The draft of one document (DocumentDraftService): a Redis key that each *)
(* auto-save replaces and that lapses, and a backup in S3 that every N-th  *)
(* save writes and that does not.  A save is six awaits, a clear (discard, *)
(* or the end of UpdateContent) three deletions that run at the same time. *)
(*                                                                         *)
(* The texts of the drafts are numbered in the order in which their saves  *)
(* are accepted; 0 stands for no draft.                                    *)
(***************************************************************************)
EXTENDS Naturals

CONSTANTS Requests,     \* requests handled at the same time
          Interval,     \* DOCUMENT_DRAFT_S3_PERSIST_INTERVAL
          MaxSaves,     \* bound: accepted saves
          MaxClears     \* bound: clears

ASSUME DraftAssumption ==
    Interval \in Nat \ {0} /\ MaxSaves \in Nat /\ MaxClears \in Nat

VARIABLES draft,        \* the Redis key of the draft
          backup,       \* the S3 object under .drafts/
          counter,      \* the DraftCounter key; 0: it is not there
          throttled,    \* the AutoSaveThrottle key is there
          req,          \* per request: what it does and knows
          saves, clears,
          cleared,      \* history: saves that ended before a clear that is over began
          calm          \* history: requests ran alone, and no call failed

draftVars == <<draft, backup, counter, throttled, req, saves, clears, cleared, calm>>

Texts == 1..MaxSaves
NoText == 0
Stores == {"draft", "counter", "backup"}
Pcs == {"idle", "throttle", "mark", "set", "count", "counted", "persist", "clear"}
Idle == [pc |-> "idle", text |-> NoText, count |-> 0, pending |-> {}, doomed |-> {}]

DraftTypeOK ==
    /\ draft \in Texts \cup {NoText} /\ backup \in Texts \cup {NoText}
    /\ counter \in 0..MaxSaves /\ throttled \in BOOLEAN
    /\ req \in [Requests -> [pc : Pcs, text : Texts \cup {NoText}, count : 0..MaxSaves,
                             pending : SUBSET Stores, doomed : SUBSET Texts]]
    /\ saves \in 0..MaxSaves /\ clears \in 0..MaxClears
    /\ cleared \in SUBSET Texts /\ calm \in BOOLEAN

DraftInit ==
    /\ draft = NoText /\ backup = NoText /\ counter = 0 /\ throttled = FALSE
    /\ req = [r \in Requests |-> Idle]
    /\ saves = 0 /\ clears = 0 /\ cleared = {} /\ calm = TRUE

-----------------------------------------------------------------------------
At(r, pc) == req[r].pc = pc
Set(r, new) == req' = [req EXCEPT ![r] = new]
Goto(r, pc) == Set(r, [req[r] EXCEPT !.pc = pc])
Finish(r) == Set(r, Idle)
AllIdle == \A r \in Requests : At(r, "idle")

Alone(r) == \A s \in Requests \ {r} : At(s, "idle")

\* Saves that are over, however they ended.
Ended == {n \in 1..saves : \A r \in Requests : req[r].text # n}

-----------------------------------------------------------------------------
(* SaveDraft.  Requests that the size or the edit lock turns away change   *)
(* nothing.                                                                *)

BeginSave(r) ==
    /\ At(r, "idle") /\ saves < MaxSaves
    /\ Goto(r, "throttle")
    /\ calm' = (calm /\ Alone(r))
    /\ UNCHANGED <<draft, backup, counter, throttled, saves, clears, cleared>>

CheckThrottle(r) ==
    /\ At(r, "throttle")
    /\ \/ throttled /\ Finish(r)                                         \* 429
       \/ ~throttled /\ Goto(r, "mark")
    /\ UNCHANGED <<draft, backup, counter, throttled, saves, clears, cleared, calm>>

MarkThrottle(r) ==
    /\ At(r, "mark") /\ saves < MaxSaves
    /\ throttled' = TRUE
    /\ saves' = saves + 1
    /\ Set(r, [req[r] EXCEPT !.pc = "set", !.text = saves + 1])
    /\ UNCHANGED <<draft, backup, counter, clears, cleared, calm>>

SetDraft(r) ==
    /\ At(r, "set")
    /\ draft' = req[r].text
    /\ Goto(r, "count")
    /\ UNCHANGED <<backup, counter, throttled, saves, clears, cleared, calm>>

GetCounter(r) ==
    /\ At(r, "count")
    /\ Set(r, [req[r] EXCEPT !.pc = "counted", !.count = counter])
    /\ UNCHANGED <<draft, backup, counter, throttled, saves, clears, cleared, calm>>

\* Mutant of SetCounter: the saves before this one are counted.
SetCounterLate(r) ==
    /\ At(r, "counted")
    /\ counter' = req[r].count + 1
    /\ IF req[r].count % Interval = 0 THEN Goto(r, "persist") ELSE Finish(r)
    /\ UNCHANGED <<draft, backup, throttled, saves, clears, cleared, calm>>

SetCounter(r) ==
    /\ At(r, "counted")
    /\ counter' = req[r].count + 1
    /\ IF counter' % Interval = 0 THEN Goto(r, "persist") ELSE Finish(r)
    /\ UNCHANGED <<draft, backup, throttled, saves, clears, cleared, calm>>

\* A failure is logged, and the save answered as if there were none.
PersistDraftToS3(r) ==
    /\ At(r, "persist")
    /\ \/ backup' = req[r].text /\ calm' = calm
       \/ backup' = backup /\ calm' = FALSE
    /\ Finish(r)
    /\ UNCHANGED <<draft, counter, throttled, saves, clears, cleared>>

-----------------------------------------------------------------------------
(* DeleteDraft, of DiscardDraft and UpdateContent                          *)

BeginClear(r) ==
    /\ At(r, "idle") /\ clears < MaxClears
    /\ clears' = clears + 1
    /\ Set(r, [Idle EXCEPT !.pc = "clear", !.pending = Stores, !.doomed = Ended])
    /\ calm' = (calm /\ Alone(r))
    /\ UNCHANGED <<draft, backup, counter, throttled, saves, cleared>>

\* The clear is over when its three deletions are.
Cleared(r, store, doomed) ==
    IF req[r].pending = {store}
      THEN Finish(r) /\ cleared' = cleared \cup doomed
      ELSE /\ Set(r, [req[r] EXCEPT !.pending = @ \ {store}, !.doomed = doomed])
           /\ UNCHANGED cleared

DeleteKey(r) ==
    /\ At(r, "clear")
    /\ \/ /\ "draft" \in req[r].pending
          /\ draft' = NoText
          /\ Cleared(r, "draft", req[r].doomed)
          /\ UNCHANGED counter
       \/ /\ "counter" \in req[r].pending
          /\ counter' = 0
          /\ Cleared(r, "counter", req[r].doomed)
          /\ UNCHANGED draft
    /\ UNCHANGED <<backup, throttled, saves, clears, calm>>

\* Mutant of DeleteS3Draft: the backup stays.
DeleteS3DraftNot(r) ==
    /\ At(r, "clear") /\ "backup" \in req[r].pending
    /\ Cleared(r, "backup", req[r].doomed)
    /\ UNCHANGED <<draft, backup, counter, throttled, saves, clears, calm>>

\* A failure is logged only: the backup stays although the clear is answered.
DeleteS3Draft(r) ==
    /\ At(r, "clear") /\ "backup" \in req[r].pending
    /\ \/ /\ backup' = NoText /\ calm' = calm
          /\ Cleared(r, "backup", req[r].doomed)
       \/ /\ backup' = backup /\ calm' = FALSE
          /\ Cleared(r, "backup", req[r].doomed \ {backup})
    /\ UNCHANGED <<draft, counter, throttled, saves, clears>>

-----------------------------------------------------------------------------
\* A Redis call fails, or the process dies.
Abort(r) ==
    /\ ~At(r, "idle")
    /\ Finish(r)
    /\ calm' = FALSE
    /\ UNCHANGED <<draft, backup, counter, throttled, saves, clears, cleared>>

\* The TTL of a Redis key is over.
Lapse ==
    /\ \/ draft' = NoText /\ UNCHANGED <<counter, throttled>>
       \/ counter' = 0 /\ UNCHANGED <<draft, throttled>>
       \/ throttled' = FALSE /\ UNCHANGED <<draft, counter>>
    /\ UNCHANGED <<backup, req, saves, clears, cleared, calm>>

DraftNext ==
    \/ \E r \in Requests :
          \/ BeginSave(r) \/ CheckThrottle(r) \/ MarkThrottle(r) \/ SetDraft(r)
          \/ GetCounter(r) \/ SetCounter(r) \/ PersistDraftToS3(r)
          \/ BeginClear(r) \/ DeleteKey(r) \/ DeleteS3Draft(r)
          \/ Abort(r)
    \/ Lapse

DraftSpec == DraftInit /\ [][DraftNext]_draftVars

-----------------------------------------------------------------------------
(* Properties                                                              *)

\* However saves and clears interleave and fail: once a clear is answered, no
\* draft whose save was over when the clear came is found in Redis or in S3 (but
\* for a backup that S3 failed to delete, which the clear does not report).
ClearedDraftsGo == draft \notin cleared /\ backup \notin cleared

\* "Every 5th save is also persisted to S3": when saves ran one after the other
\* and nothing failed, the backup is Interval - 1 saves old at most, and what a
\* read falls back to is the draft of the last N-th save.
FallbackLags ==
    calm /\ AllIdle /\ counter >= Interval => backup = saves - (counter % Interval)

=============================================================================
