--------------------------- MODULE Documents_proofs ---------------------------
(***************************************************************************)
(* Proofs about the drafts of a document and about its edit lock.          *)
(*                                                                         *)
(* Drafts, for any number of requests and any interval.  A cleared draft   *)
(* stays away (ClearedDraftsGo): a store is written with the text of a     *)
(* save in flight only, and such a save is not over; what a clear is to    *)
(* remove are saves that are; so what its deletions have removed cannot    *)
(* come back (Removed).  The backup lags by less than an interval          *)
(* (FallbackLags): in a calm run one request at most is at work, and what  *)
(* it has read and written says how far behind the backup is at each of    *)
(* its steps (Lagging).                                                    *)
(*                                                                         *)
(* The lock, for any number of users and requests and any TTL.  While a    *)
(* lock that was not contested when it was written stands, only its        *)
(* holder's requests are about to touch the key (Settled); so it stays for *)
(* the time granted.  The refinement needs the types alone: who is late is *)
(* read off the requests in flight.                                        *)
(***************************************************************************)
EXTENDS DocumentDraft, DocumentLock, Integers, TLAPS

-----------------------------------------------------------------------------
(* Drafts                                                                  *)

ReqRecords == [pc : Pcs, text : Texts \cup {NoText}, count : Nat,
               pending : SUBSET Stores, doomed : SUBSET Texts]

DraftTypes ==
    /\ draft \in Texts \cup {NoText} /\ backup \in Texts \cup {NoText}
    /\ counter \in Nat
    /\ req \in [Requests -> ReqRecords]
    /\ saves \in 0..MaxSaves
    /\ cleared \in SUBSET Texts

\* What the request is to remove are saves that are over, and as far as it has
\* deleted them they are gone.
Removed(q) ==
    /\ q.doomed \subseteq Ended
    /\ "draft" \notin q.pending => draft \notin q.doomed
    /\ "backup" \notin q.pending => backup \notin q.doomed

DraftIInv ==
    /\ DraftTypes
    /\ cleared \subseteq Ended
    /\ ClearedDraftsGo
    /\ \A r \in Requests : Removed(req[r])

-----------------------------------------------------------------------------
LEMMA IdleTyped == Idle \in ReqRecords
  BY DEF Idle, ReqRecords, Pcs

LEMMA TextsInFlight ==
  ASSUME DraftTypes, NEW r \in Requests
  PROVE  req[r].text \notin Ended /\ req[r].text \in Texts \cup {NoText}
  BY DEF DraftTypes, ReqRecords, Ended

LEMMA EndedAreTexts == DraftTypes => Ended \subseteq Texts /\ NoText \notin Ended
  BY DraftAssumption DEF DraftTypes, Ended, Texts, NoText

\* What is over stays over: a request keeps its text, drops it, or takes a new one.
LEMMA EndedGrows ==
  ASSUME DraftTypes, saves' \in Nat, saves <= saves',
         \A r \in Requests : req'[r].text \in {req[r].text, NoText} \cup {n \in Nat : n > saves}
  PROVE  Ended \subseteq Ended'
  BY DraftAssumption DEF DraftTypes, Ended, NoText

LEMMA SetRequest ==
  ASSUME DraftTypes, NEW r \in Requests, NEW new \in ReqRecords, Set(r, new)
  PROVE  /\ req' \in [Requests -> ReqRecords]
         /\ req'[r] = new
         /\ \A s \in Requests \ {r} : req'[s] = req[s]
  BY DEF DraftTypes, Set

\* Steps that write nothing that is over, to stores that others have cleared.
LEMMA RestKept ==
  ASSUME DraftIInv, NEW r \in Requests, NEW new \in ReqRecords, Set(r, new),
         saves' \in 0..MaxSaves, saves <= saves',
         new.text \in {req[r].text, NoText} \cup {n \in Nat : n > saves},
         draft' \in {draft, NoText, req[r].text},
         backup' \in {backup, NoText, req[r].text},
         counter' \in Nat,
         \/ cleared' = cleared
         \/ cleared' \subseteq Ended /\ draft' \notin cleared' /\ backup' \notin cleared',
         new.doomed \subseteq Ended,
         "draft" \notin new.pending => draft' \notin new.doomed,
         "backup" \notin new.pending => backup' \notin new.doomed
  PROVE  DraftIInv'
<1>1. /\ req'[r] = new
      /\ req' \in [Requests -> ReqRecords]
      /\ \A s \in Requests \ {r} : req'[s] = req[s]
  BY SetRequest DEF DraftIInv
<1>2. Ended \subseteq Ended'
  BY <1>1, EndedGrows DEF DraftIInv, DraftTypes
<1>3. /\ req[r].text \notin Ended /\ req[r].text \in Texts \cup {NoText}
      /\ NoText \notin Ended /\ Ended \subseteq Texts
  BY TextsInFlight, EndedAreTexts DEF DraftIInv
<1>4. cleared' \subseteq Ended
  BY DEF DraftIInv
<1>5. DraftTypes'
  BY <1>1, <1>3, <1>4 DEF DraftIInv, DraftTypes
<1>6. ClearedDraftsGo'
  BY <1>3, <1>4 DEF DraftIInv, ClearedDraftsGo
<1>7. ASSUME NEW s \in Requests \ {r} PROVE Removed(req[s])'
  <2>1. Removed(req[s]) /\ req'[s] = req[s]
    BY <1>1 DEF DraftIInv
  <2> QED BY <1>2, <1>3, <2>1 DEF Removed
<1>8. Removed(req[r])'
  BY <1>1, <1>2 DEF Removed
<1> QED
  BY <1>2, <1>4, <1>5, <1>6, <1>7, <1>8 DEF DraftIInv


LEMMA FinishKept ==
  ASSUME DraftIInv, NEW r \in Requests, Finish(r), UNCHANGED saves,
         draft' \in {draft, NoText}, backup' \in {backup, NoText}, counter' \in Nat,
         cleared' \subseteq Ended /\ draft' \notin cleared' /\ backup' \notin cleared'
  PROVE  DraftIInv'
<1>1. /\ Idle.text = NoText /\ Idle.doomed = {} /\ Set(r, Idle)
      /\ saves \in 0..MaxSaves /\ saves <= saves
  BY DraftAssumption DEF Idle, Finish, DraftIInv, DraftTypes
<1> QED
  BY <1>1, IdleTyped, RestKept

LEMMA StepKept ==
  ASSUME DraftIInv, NEW r \in Requests,
         \/ BeginSave(r) \/ CheckThrottle(r) \/ MarkThrottle(r) \/ SetDraft(r)
         \/ GetCounter(r) \/ SetCounter(r) \/ PersistDraftToS3(r)
         \/ BeginClear(r) \/ DeleteKey(r) \/ DeleteS3Draft(r) \/ Abort(r)
  PROVE  DraftIInv'
<1> DEFINE q == req[r]
<1>1. /\ q \in ReqRecords /\ Removed(q)
      /\ saves \in Nat /\ saves <= MaxSaves /\ MaxSaves \in Nat
      /\ counter \in Nat
  BY DraftAssumption DEF DraftIInv, DraftTypes
<1>2. Ended \subseteq Texts /\ NoText \notin Ended /\ q.text \notin Ended
  BY EndedAreTexts, TextsInFlight DEF DraftIInv
\* Steps that only move the request on, or end it.
<1>3. ASSUME NEW new \in ReqRecords, Set(r, new), new.text \in {q.text, NoText},
             new.doomed = {} \/ (new.doomed = q.doomed /\ new.pending = q.pending),
             draft' \in {draft, q.text}, backup' \in {backup, q.text}, counter' \in Nat,
             UNCHANGED <<saves, cleared>>
      PROVE  DraftIInv'
  <2>1. /\ new.doomed \subseteq Ended
        /\ "draft" \notin new.pending => draft' \notin new.doomed
        /\ "backup" \notin new.pending => backup' \notin new.doomed
    BY <1>1, <1>2, <1>3 DEF Removed
  <2> QED BY <1>1, <1>3, <2>1, RestKept
<1>4. ASSUME Finish(r), draft' \in {draft, q.text}, backup' \in {backup, q.text},
             counter' \in Nat, UNCHANGED <<saves, cleared>>
      PROVE  DraftIInv'
  BY <1>3, <1>4, IdleTyped DEF Finish, Idle
<1>5. ASSUME NEW pc \in Pcs, Goto(r, pc), draft' \in {draft, q.text},
             backup' \in {backup, q.text}, counter' \in Nat, UNCHANGED <<saves, cleared>>
      PROVE  DraftIInv'
  <2> DEFINE new == [q EXCEPT !.pc = pc]
  <2>1. /\ new \in ReqRecords /\ new.text = q.text
        /\ new.doomed = q.doomed /\ new.pending = q.pending
    BY <1>1 DEF ReqRecords
  <2>2. Set(r, new)
    BY <1>5 DEF Goto
  <2> HIDE DEF new
  <2> QED BY <1>3, <1>5, <2>1, <2>2
<1>6. CASE BeginSave(r)
  BY <1>1, <1>5, <1>6 DEF BeginSave, Pcs
<1>7. CASE CheckThrottle(r)
  BY <1>1, <1>4, <1>5, <1>7 DEF CheckThrottle, Pcs
<1>8. CASE MarkThrottle(r)
  <2> DEFINE new == [q EXCEPT !.pc = "set", !.text = saves + 1]
  <2>1. saves + 1 \in Texts
    BY <1>1, <1>8 DEF MarkThrottle, Texts
  <2>2. /\ new \in ReqRecords /\ new.text = saves + 1
        /\ new.doomed = q.doomed /\ new.pending = q.pending
    BY <1>1, <2>1 DEF ReqRecords, Pcs
  <2>3. Set(r, new)
    BY <1>8 DEF MarkThrottle
  <2> HIDE DEF new
  <2>4. /\ new.doomed \subseteq Ended
        /\ "draft" \notin new.pending => draft \notin new.doomed
        /\ "backup" \notin new.pending => backup \notin new.doomed
    BY <1>1, <2>2 DEF Removed
  <2>5. /\ saves' = saves + 1 /\ saves < MaxSaves
        /\ UNCHANGED <<draft, backup, counter, cleared>>
    BY <1>8 DEF MarkThrottle
  <2>6. /\ saves' \in 0..MaxSaves /\ saves <= saves'
        /\ new.text \in {n \in Nat : n > saves}
    BY <1>1, <2>2, <2>5
  <2> QED BY <1>1, <2>2, <2>3, <2>4, <2>5, <2>6, RestKept
<1>9. CASE SetDraft(r)
  BY <1>1, <1>5, <1>9 DEF SetDraft, Pcs
<1>10. CASE GetCounter(r)
  <2> DEFINE new == [q EXCEPT !.pc = "counted", !.count = counter]
  <2>1. /\ new \in ReqRecords /\ new.text = q.text
        /\ new.doomed = q.doomed /\ new.pending = q.pending
    BY <1>1 DEF ReqRecords, Pcs
  <2>2. Set(r, new) /\ UNCHANGED <<draft, backup, counter, saves, cleared>>
    BY <1>10 DEF GetCounter
  <2> HIDE DEF new
  <2> QED BY <1>1, <1>3, <2>1, <2>2
<1>11. CASE SetCounter(r)
  <2>1. counter' \in Nat
    BY <1>1, <1>11 DEF SetCounter, ReqRecords
  <2> QED BY <1>4, <1>5, <1>11, <2>1 DEF SetCounter, Pcs
<1>12. CASE PersistDraftToS3(r)
  BY <1>1, <1>4, <1>12 DEF PersistDraftToS3
<1>13. CASE BeginClear(r)
  <2> DEFINE new == [Idle EXCEPT !.pc = "clear", !.pending = Stores, !.doomed = Ended]
  <2>1. new \in ReqRecords /\ new.text = NoText /\ new.doomed = Ended /\ new.pending = Stores
    BY <1>2 DEF ReqRecords, Pcs, Idle
  <2>2. Set(r, new) /\ UNCHANGED <<draft, backup, counter, saves, cleared>>
    BY <1>13 DEF BeginClear
  <2> HIDE DEF new
  <2>3. "draft" \in new.pending /\ "backup" \in new.pending
    BY <2>1 DEF Stores
  <2> QED BY <1>1, <2>1, <2>2, <2>3, RestKept
\* One of the deletions of a clear, which is the last one or not.
<1>14. ASSUME NEW store \in Stores, NEW doomed, Cleared(r, store, doomed),
              doomed \subseteq q.doomed,
              draft' \in {draft, NoText}, backup' \in {backup, NoText}, counter' \in Nat,
              UNCHANGED saves,
              store = "draft" => draft' \notin doomed,
              store = "backup" => backup' \notin doomed
       PROVE  DraftIInv'
  <2>1. /\ doomed \subseteq Ended /\ doomed \in SUBSET Texts
        /\ store = "draft" \/ "draft" \notin q.pending => draft' \notin doomed
        /\ store = "backup" \/ "backup" \notin q.pending => backup' \notin doomed
    BY <1>1, <1>2, <1>14 DEF Removed
  <2>2. CASE q.pending = {store}
    <3>1. Finish(r) /\ cleared' = cleared \cup doomed
      BY <1>14, <2>2 DEF Cleared
    <3>2. draft' \notin doomed /\ backup' \notin doomed
      BY <2>1, <2>2
    <3>3. cleared' \subseteq Ended /\ draft' \notin cleared' /\ backup' \notin cleared'
      BY <1>2, <1>14, <2>1, <3>1, <3>2 DEF DraftIInv, ClearedDraftsGo
    <3> QED BY <1>1, <1>14, <3>1, <3>3, FinishKept
  <2>3. CASE q.pending # {store}
    <3> DEFINE new == [q EXCEPT !.pending = q.pending \ {store}, !.doomed = doomed]
    <3>1. /\ new \in ReqRecords /\ new.text = q.text
          /\ new.doomed = doomed /\ new.pending = q.pending \ {store}
      BY <1>1, <2>1 DEF ReqRecords
    <3>2. Set(r, new) /\ UNCHANGED cleared
      BY <1>14, <2>3 DEF Cleared
    <3> HIDE DEF new
    <3>3. /\ "draft" \notin new.pending => draft' \notin new.doomed
          /\ "backup" \notin new.pending => backup' \notin new.doomed
      BY <2>1, <3>1
    <3> QED BY <1>1, <1>14, <2>1, <3>1, <3>2, <3>3, RestKept
  <2> QED BY <2>2, <2>3
<1>15. CASE DeleteKey(r)
  BY <1>1, <1>2, <1>14, <1>15 DEF DeleteKey, Stores, Removed
<1>16. CASE DeleteS3Draft(r)
  BY <1>1, <1>2, <1>14, <1>16 DEF DeleteS3Draft, Stores, Removed
<1>17. CASE Abort(r)
  BY <1>1, <1>4, <1>17 DEF Abort
<1> QED
  BY <1>6, <1>7, <1>8, <1>9, <1>10, <1>11, <1>12, <1>13, <1>15, <1>16, <1>17

LEMMA LapseKept == DraftIInv /\ Lapse => DraftIInv'
<1> SUFFICES ASSUME DraftIInv, Lapse PROVE DraftIInv'
  OBVIOUS
<1>1. /\ draft' \in {draft, NoText} /\ counter' \in Nat
      /\ UNCHANGED <<backup, req, saves, cleared>>
  BY DEF Lapse, DraftIInv, DraftTypes
<1>2. Ended' = Ended /\ NoText \notin Ended
  BY <1>1, EndedAreTexts DEF DraftIInv, Ended
<1>3. DraftTypes'
  BY <1>1 DEF DraftIInv, DraftTypes
<1>4. ClearedDraftsGo' /\ cleared' \subseteq Ended'
  BY <1>1, <1>2 DEF DraftIInv, ClearedDraftsGo
<1>5. ASSUME NEW r \in Requests PROVE Removed(req[r])'
  <2>1. Removed(req[r])
    BY DEF DraftIInv
  <2> QED BY <1>1, <1>2, <2>1 DEF Removed
<1> QED
  BY <1>3, <1>4, <1>5 DEF DraftIInv

LEMMA DraftIsInductive == DraftSpec => []DraftIInv
<1>1. DraftInit => DraftIInv
  <2> SUFFICES ASSUME DraftInit PROVE DraftIInv
    OBVIOUS
  <2>1. DraftTypes
    BY IdleTyped, DraftAssumption DEF DraftInit, DraftTypes
  <2> QED BY <2>1 DEF DraftInit, DraftIInv, ClearedDraftsGo, Removed, Idle
<1>2. DraftIInv /\ [DraftNext]_draftVars => DraftIInv'
  <2> SUFFICES ASSUME DraftIInv, [DraftNext]_draftVars PROVE DraftIInv'
    OBVIOUS
  <2>1. CASE DraftNext
    BY <2>1, StepKept, LapseKept DEF DraftNext
  <2>2. CASE UNCHANGED draftVars
    BY <2>2 DEF draftVars, DraftIInv, DraftTypes, ClearedDraftsGo, Removed, Ended
  <2> QED BY <2>1, <2>2
<1> QED
  BY <1>1, <1>2, PTL DEF DraftSpec

\* However many saves and clears interleave and fail, and whatever lapses: once
\* a clear is answered, the drafts that were saved before it came never return.
THEOREM ClearedDraftsStayAway == DraftSpec => []ClearedDraftsGo
<1>1. DraftIInv => ClearedDraftsGo
  BY DEF DraftIInv
<1> QED
  BY <1>1, DraftIsInductive, PTL

-----------------------------------------------------------------------------
(* The interval                                                            *)

LEMMA Quotient ==
  ASSUME NEW n \in Nat, NEW d \in Nat \ {0}
  PROVE  n = ((n \div d) * d) + (n % d) /\ n \div d \in Nat /\ n % d \in 0..(d - 1)
  OBVIOUS

LEMMA Remainder ==
  ASSUME NEW n \in Nat, NEW d \in Nat \ {0}, NEW q \in Nat, NEW r \in 0..(d - 1),
         n = q * d + r
  PROVE  n % d = r
  OBVIOUS

LEMMA NextRemainder ==
  ASSUME NEW n \in Nat, NEW d \in Nat \ {0}, (n + 1) % d # 0
  PROVE  (n + 1) % d = (n % d) + 1
<1> DEFINE q == n \div d
           r == n % d
<1>1. n = q * d + r /\ q \in Nat /\ r \in 0..(d - 1)
  BY Quotient
<1> HIDE DEF q, r
<1>2. q * d \in Nat /\ (q + 1) * d = q * d + d
  BY <1>1
<1>3. CASE r = d - 1
  <2>1. n + 1 = (q + 1) * d + 0
    BY <1>1, <1>2, <1>3
  <2>2. q + 1 \in Nat /\ 0 \in 0..(d - 1) /\ n + 1 \in Nat
    BY <1>1
  <2> QED BY <2>1, <2>2, Remainder
<1>4. CASE r # d - 1
  <2>1. r + 1 \in 0..(d - 1) /\ n + 1 = q * d + (r + 1) /\ n + 1 \in Nat
    BY <1>1, <1>2, <1>4
  <2>2. (n + 1) % d = r + 1
    BY <1>1, <2>1, Remainder
  <2> QED BY <2>2 DEF r
<1> QED BY <1>3, <1>4

-----------------------------------------------------------------------------
(* The lag of the backup                                                   *)

\* After `s` saves of which the last c are counted, the backup is the draft of
\* the last one that ended an interval.
Lag(c, s, b) == c >= Interval => b = s - (c % Interval)

\* How far the backup is behind, by what the only request at work has done.
Lagging(q, c, s, b) ==
    CASE q.pc \in {"idle", "throttle", "mark"} -> Lag(c, s, b)
      [] q.pc \in {"set", "count"} -> q.text = s /\ Lag(c, s - 1, b)
      [] q.pc = "counted" -> q.text = s /\ Lag(q.count, s - 1, b)
      [] q.pc = "persist" -> q.text = s /\ c % Interval = 0
      [] q.pc = "clear" -> "counter" \notin q.pending => c = 0

LagIInv ==
    calm => /\ \A r, s \in Requests : ~At(r, "idle") /\ ~At(s, "idle") => r = s
            /\ AllIdle => Lag(counter, saves, backup)
            /\ \A r \in Requests : ~At(r, "idle") => Lagging(req[r], counter, saves, backup)

LEMMA NoLag == \A s \in Int : \A b : Lag(0, s, b) /\ 0 % Interval = 0
<1>1. 0 < Interval /\ Interval \in Nat \ {0}
  BY DraftAssumption
<1>2. 0 % Interval = 0
  BY <1>1, Remainder
<1> QED BY <1>1, <1>2 DEF Lag

\* Counting one more save.
LEMMA CountedSave ==
  ASSUME NEW c \in Nat, NEW s \in Nat, NEW b, Lag(c, s - 1, b), (c + 1) % Interval # 0
  PROVE  Lag(c + 1, s, b)
<1>1. Interval \in Nat \ {0}
  BY DraftAssumption
<1>2. (c + 1) % Interval = (c % Interval) + 1
  BY <1>1, NextRemainder
<1>a. c % Interval \in 0..(Interval - 1)
  BY <1>1, Quotient
<1>3. c + 1 # Interval
  <2>1. Interval = 1 * Interval + 0 /\ 0 \in 0..(Interval - 1)
    BY <1>1
  <2>2. Interval % Interval = 0
    BY <1>1, <2>1, Remainder
  <2> QED BY <2>2
<1> QED
  BY <1>1, <1>2, <1>a, <1>3 DEF Lag

\* A step of the only request at work, to somewhere else or to its end.
LEMMA LagMoves ==
  ASSUME DraftIInv, LagIInv, NEW r \in Requests, NEW new \in ReqRecords, Set(r, new),
         calm => \A s \in Requests \ {r} : At(s, "idle"),
         calm' => calm,
         calm => IF new.pc = "idle" THEN Lag(counter', saves', backup') ELSE Lagging(new, counter', saves', backup')
  PROVE  LagIInv'
<1>1. /\ req'[r] = new
      /\ \A s \in Requests \ {r} : req'[s] = req[s]
  BY SetRequest DEF DraftIInv
<1> SUFFICES ASSUME calm' PROVE LagIInv'
  BY DEF LagIInv
<1>2. \A s \in Requests \ {r} : req'[s].pc = "idle"
  BY <1>1 DEF At
<1>3. IF new.pc = "idle" THEN Lag(counter', saves', backup')
                         ELSE Lagging(new, counter', saves', backup')
  OBVIOUS
<1>4. \A s \in Requests : req'[s].pc # "idle" => s = r /\ new.pc # "idle"
  BY <1>1, <1>2
<1>5. (\A s \in Requests : req'[s].pc = "idle") => new.pc = "idle"
  BY <1>1
<1>6. \A s, u \in Requests : ~At(s, "idle")' /\ ~At(u, "idle")' => s = u
  BY <1>4 DEF At
<1>7. AllIdle' => Lag(counter, saves, backup)'
  BY <1>3, <1>5 DEF At, AllIdle, Lag
<1>8. \A s \in Requests : ~At(s, "idle")' => Lagging(req'[s], counter', saves', backup')
  BY <1>1, <1>3, <1>4 DEF At
<1> QED
  BY <1>6, <1>7, <1>8 DEF LagIInv, Lagging, Lag

LEMMA LagStep ==
  ASSUME DraftIInv, LagIInv, NEW r \in Requests,
         \/ BeginSave(r) \/ CheckThrottle(r) \/ MarkThrottle(r) \/ SetDraft(r)
         \/ GetCounter(r) \/ SetCounter(r) \/ PersistDraftToS3(r)
         \/ BeginClear(r) \/ DeleteKey(r) \/ DeleteS3Draft(r) \/ Abort(r)
  PROVE  LagIInv'
<1> DEFINE q == req[r]
<1>1. /\ q \in ReqRecords /\ q.pc \in Pcs /\ q.count \in Nat /\ q.pending \in SUBSET Stores
      /\ saves \in Nat /\ counter \in Nat /\ Interval \in Nat \ {0}
      /\ saves - 1 \in Int
  BY DraftAssumption DEF DraftIInv, DraftTypes, ReqRecords
<1>2. Idle \in ReqRecords /\ Idle.pc = "idle"
  BY IdleTyped DEF Idle
<1>3. SUFFICES ASSUME calm, calm' PROVE LagIInv'
  <2>1. calm' => calm
    BY DEF BeginSave, CheckThrottle, MarkThrottle, SetDraft, GetCounter, SetCounter,
           PersistDraftToS3, BeginClear, DeleteKey, DeleteS3Draft, Abort
  <2> QED BY <2>1 DEF LagIInv
<1>4. CASE BeginSave(r)
  <2> DEFINE new == [q EXCEPT !.pc = "throttle"]
  <2>1. Set(r, new) /\ Alone(r) /\ UNCHANGED <<counter, saves, backup>>
    BY <1>3, <1>4 DEF BeginSave, Goto
  <2>2. new \in ReqRecords /\ new.pc = "throttle"
    BY <1>1 DEF ReqRecords, Pcs
  <2>3. Lag(counter, saves, backup)
    BY <1>3, <1>4, <2>1 DEF LagIInv, AllIdle, BeginSave, Alone, At
  <2>4. Lagging(new, counter', saves', backup')
    BY <2>1, <2>2, <2>3 DEF Lagging, Lag
  <2> HIDE DEF new
  <2> QED BY <1>3, <2>1, <2>2, <2>4, LagMoves DEF Alone
<1>5. CASE BeginClear(r)
  <2> DEFINE new == [Idle EXCEPT !.pc = "clear", !.pending = Stores, !.doomed = Ended]
  <2>1. Set(r, new) /\ Alone(r) /\ UNCHANGED <<counter, saves, backup>>
    BY <1>3, <1>5 DEF BeginClear
  <2>2. new \in ReqRecords /\ new.pc = "clear" /\ new.pending = Stores
    BY EndedAreTexts DEF DraftIInv, ReqRecords, Pcs, Idle
  <2>3. Lagging(new, counter', saves', backup')
    BY <2>1, <2>2 DEF Lagging, Stores
  <2> HIDE DEF new
  <2> QED BY <1>3, <2>1, <2>2, <2>3, LagMoves DEF Alone
<1>6. ASSUME ~At(r, "idle")
      PROVE  /\ \A s \in Requests \ {r} : At(s, "idle")
             /\ Lagging(q, counter, saves, backup)
  BY <1>3, <1>6 DEF LagIInv
\* The request moves on, or ends.
<1>7. ASSUME ~At(r, "idle"), NEW new \in ReqRecords, Set(r, new),
             IF new.pc = "idle" THEN Lag(counter', saves', backup') ELSE Lagging(new, counter', saves', backup')
      PROVE  LagIInv'
  BY <1>3, <1>6, <1>7, LagMoves
<1>8. ASSUME NEW pc \in Pcs
      PROVE  /\ [q EXCEPT !.pc = pc] \in ReqRecords
             /\ [q EXCEPT !.pc = pc].pc = pc
             /\ [q EXCEPT !.pc = pc].text = q.text
             /\ [q EXCEPT !.pc = pc].count = q.count
  BY <1>1 DEF ReqRecords
<1>9. CASE CheckThrottle(r)
  <2>1. ~At(r, "idle") /\ Lag(counter, saves, backup) /\ UNCHANGED <<counter, saves, backup>>
    BY <1>6, <1>9 DEF CheckThrottle, At, Lagging
  <2>2. CASE Finish(r)
    BY <1>2, <1>7, <2>1, <2>2 DEF Finish, Lag
  <2>3. CASE Goto(r, "mark")
    <3> DEFINE new == [q EXCEPT !.pc = "mark"]
    <3>1. new \in ReqRecords /\ new.pc = "mark" /\ Set(r, new)
      BY <1>8, <2>3 DEF Goto, Pcs
    <3> HIDE DEF new
    <3>2. Lagging(new, counter', saves', backup')
      BY <2>1, <3>1 DEF Lagging, Lag
    <3> QED BY <1>7, <2>1, <3>1, <3>2
  <2> QED BY <1>9, <2>2, <2>3 DEF CheckThrottle
<1>10. CASE MarkThrottle(r)
  <2> DEFINE new == [q EXCEPT !.pc = "set", !.text = saves + 1]
  <2>1. ~At(r, "idle") /\ Lag(counter, saves, backup) /\ UNCHANGED <<counter, backup>>
    BY <1>6, <1>10 DEF MarkThrottle, At, Lagging
  <2>2. Set(r, new) /\ saves' = saves + 1 /\ saves + 1 \in Texts
    BY <1>1, <1>10, DraftAssumption DEF MarkThrottle, Texts
  <2>3. new \in ReqRecords /\ new.pc = "set" /\ new.text = saves + 1
    BY <1>1, <2>2 DEF ReqRecords, Pcs
  <2> HIDE DEF new
  <2>4. saves' - 1 = saves
    BY <1>1, <2>2
  <2>5. Lagging(new, counter', saves', backup')
    BY <2>1, <2>2, <2>3, <2>4 DEF Lagging, Lag
  <2> QED BY <1>7, <2>1, <2>2, <2>3, <2>5
<1>11. CASE SetDraft(r)
  <2> DEFINE new == [q EXCEPT !.pc = "count"]
  <2>1. /\ ~At(r, "idle") /\ q.text = saves /\ Lag(counter, saves - 1, backup)
        /\ UNCHANGED <<counter, saves, backup>> /\ Set(r, new)
    BY <1>6, <1>11 DEF SetDraft, At, Lagging, Goto
  <2>2. new \in ReqRecords /\ new.pc = "count" /\ new.text = q.text
    BY <1>8 DEF Pcs
  <2> HIDE DEF new
  <2>3. Lagging(new, counter', saves', backup')
    BY <2>1, <2>2 DEF Lagging, Lag
  <2> QED BY <1>7, <2>1, <2>2, <2>3
<1>12. CASE GetCounter(r)
  <2> DEFINE new == [q EXCEPT !.pc = "counted", !.count = counter]
  <2>1. /\ ~At(r, "idle") /\ q.text = saves /\ Lag(counter, saves - 1, backup)
        /\ UNCHANGED <<counter, saves, backup>> /\ Set(r, new)
    BY <1>6, <1>12 DEF GetCounter, At, Lagging
  <2>2. /\ new \in ReqRecords /\ new.pc = "counted" /\ new.text = q.text
        /\ new.count = counter
    BY <1>1 DEF ReqRecords, Pcs
  <2> HIDE DEF new
  <2>3. Lagging(new, counter', saves', backup')
    BY <2>1, <2>2 DEF Lagging, Lag
  <2> QED BY <1>7, <2>1, <2>2, <2>3
<1>13. CASE SetCounter(r)
  <2>1. /\ ~At(r, "idle") /\ q.text = saves /\ Lag(q.count, saves - 1, backup)
        /\ UNCHANGED <<saves, backup>> /\ counter' = q.count + 1
    BY <1>6, <1>13 DEF SetCounter, At, Lagging
  <2>2. CASE counter' % Interval = 0
    <3> DEFINE new == [q EXCEPT !.pc = "persist"]
    <3>1. new \in ReqRecords /\ new.pc = "persist" /\ new.text = q.text /\ Set(r, new)
      BY <1>8, <1>13, <2>2 DEF SetCounter, Goto, Pcs
    <3> HIDE DEF new
    <3>2. Lagging(new, counter', saves', backup')
      BY <2>1, <2>2, <3>1 DEF Lagging
    <3> QED BY <1>7, <2>1, <3>1, <3>2
  <2>3. CASE counter' % Interval # 0
    <3>1. Lag(q.count + 1, saves, backup)
      BY <1>1, <2>1, <2>3, CountedSave
    <3>2. Lag(counter', saves', backup')
      BY <2>1, <3>1 DEF Lag
    <3>3. Set(r, Idle)
      BY <1>13, <2>3 DEF SetCounter, Finish
    <3> QED BY <1>2, <1>7, <2>1, <3>2, <3>3
  <2> QED BY <2>2, <2>3
<1>14. CASE PersistDraftToS3(r)
  <2>1. /\ ~At(r, "idle") /\ q.text = saves /\ counter % Interval = 0
        /\ UNCHANGED <<saves, counter>> /\ backup' = q.text /\ Set(r, Idle)
    BY <1>3, <1>6, <1>14 DEF PersistDraftToS3, At, Lagging, Finish
  <2>2. Lag(counter', saves', backup')
    BY <1>1, <2>1 DEF Lag
  <2> QED BY <1>2, <1>7, <2>1, <2>2
\* One of the deletions of a clear.
<1>15. ASSUME ~At(r, "idle"), q.pc = "clear", NEW store \in Stores, NEW doomed \in SUBSET Texts,
              Cleared(r, store, doomed), UNCHANGED saves,
              "counter" \notin q.pending => counter = 0,
              counter' = IF store = "counter" THEN 0 ELSE counter
       PROVE  LagIInv'
  <2>1. "counter" \notin q.pending \ {store} => counter' = 0
    BY <1>15
  <2>2. CASE q.pending = {store}
    <3>1. Set(r, Idle) /\ counter' = 0
      BY <1>15, <2>1, <2>2 DEF Cleared, Finish
    <3>2. Lag(counter', saves', backup')
      BY <1>1, <1>15, <3>1, DraftAssumption DEF Lag
    <3> QED BY <1>2, <1>7, <1>15, <3>1, <3>2
  <2>3. CASE q.pending # {store}
    <3> DEFINE new == [q EXCEPT !.pending = q.pending \ {store}, !.doomed = doomed]
    <3>1. /\ new \in ReqRecords /\ new.pc = "clear" /\ new.pending = q.pending \ {store}
      BY <1>1, <1>15 DEF ReqRecords
    <3>2. Set(r, new)
      BY <1>15, <2>3 DEF Cleared
    <3> HIDE DEF new
    <3>3. Lagging(new, counter', saves', backup')
      BY <2>1, <3>1 DEF Lagging
    <3> QED BY <1>7, <1>15, <3>1, <3>2, <3>3
  <2> QED BY <2>2, <2>3
<1>16. CASE DeleteKey(r)
  <2>1. /\ ~At(r, "idle") /\ q.pc = "clear" /\ UNCHANGED saves /\ q.doomed \in SUBSET Texts
        /\ "counter" \notin q.pending => counter = 0
    BY <1>1, <1>6, <1>16 DEF DeleteKey, At, Lagging, ReqRecords
  <2>2. CASE Cleared(r, "draft", q.doomed) /\ UNCHANGED counter
    BY <1>15, <2>1, <2>2 DEF Stores
  <2>3. CASE Cleared(r, "counter", q.doomed) /\ counter' = 0
    BY <1>15, <2>1, <2>3 DEF Stores
  <2> QED BY <1>16, <2>2, <2>3 DEF DeleteKey
<1>17. CASE DeleteS3Draft(r)
  <2>1. /\ ~At(r, "idle") /\ q.pc = "clear" /\ UNCHANGED <<saves, counter>>
        /\ q.doomed \in SUBSET Texts /\ q.doomed \ {backup} \in SUBSET Texts
        /\ "counter" \notin q.pending => counter = 0
    BY <1>1, <1>6, <1>17 DEF DeleteS3Draft, At, Lagging, ReqRecords
  <2> QED BY <1>15, <1>17, <2>1 DEF DeleteS3Draft, Stores
<1>18. CASE Abort(r)
  BY <1>3, <1>18 DEF Abort
<1> QED
  BY <1>4, <1>5, <1>9, <1>10, <1>11, <1>12, <1>13, <1>14, <1>16, <1>17, <1>18

LEMMA LagLapse == ASSUME DraftIInv, LagIInv, Lapse PROVE LagIInv'
<1>1. /\ counter' \in {counter, 0} /\ saves \in Nat /\ saves - 1 \in Int
      /\ UNCHANGED <<backup, req, saves, calm>>
  BY DraftAssumption DEF Lapse, DraftIInv, DraftTypes
<1>2. \A s \in Int : Lag(counter, s, backup) => Lag(counter', s, backup)
  BY <1>1, NoLag, DraftAssumption DEF Lag
<1>3. ASSUME NEW r \in Requests, ~At(r, "idle"), Lagging(req[r], counter, saves, backup)
      PROVE  Lagging(req[r], counter, saves, backup)'
  <2>1. req[r].pc \in Pcs
    BY DEF DraftIInv, DraftTypes, ReqRecords
  <2>2. Lag(counter', saves, backup) \/ ~Lag(counter, saves, backup)
    BY <1>1, <1>2
  <2>3. Lag(counter', saves - 1, backup) \/ ~Lag(counter, saves - 1, backup)
    BY <1>1, <1>2
  <2>4. counter' % Interval = 0 \/ counter % Interval # 0
    BY <1>1, NoLag
  <2> QED
    BY <1>1, <1>3, <2>1, <2>2, <2>3, <2>4 DEF Lagging, At, Pcs
<1> QED
  BY <1>1, <1>2, <1>3 DEF LagIInv, At, AllIdle

\* "Every 5th save is also persisted to S3": for any interval, when saves ran one
\* after the other and nothing failed, the backup is the draft of the last save
\* that ended an interval, whatever keys have lapsed and drafts been discarded
\* in between.
THEOREM BackupLagsAnInterval == DraftSpec => []FallbackLags
<1>1. DraftInit => LagIInv
  BY NoLag, DraftAssumption DEF DraftInit, LagIInv, At, AllIdle, Idle
<1>2. DraftIInv /\ LagIInv /\ [DraftNext]_draftVars => LagIInv'
  <2> SUFFICES ASSUME DraftIInv, LagIInv, [DraftNext]_draftVars PROVE LagIInv'
    OBVIOUS
  <2>1. CASE DraftNext
    BY <2>1, LagStep, LagLapse DEF DraftNext
  <2>2. CASE UNCHANGED draftVars
    BY <2>2 DEF draftVars, LagIInv, Lagging, Lag, At, AllIdle
  <2> QED BY <2>1, <2>2
<1>3. LagIInv => FallbackLags
  BY DEF LagIInv, FallbackLags, Lag
<1> QED
  BY <1>1, <1>2, <1>3, DraftIsInductive, PTL DEF DraftSpec

-----------------------------------------------------------------------------
(* The edit lock                                                           *)

-----------------------------------------------------------------------------
(* Typing                                                                  *)

LEMMA LockInitTyped == LockInit => LockTypeOK
  BY LockAssumption DEF LockInit, LockTypeOK, LockPcs

LEMMA LockNextTyped == LockTypeOK /\ [LockNext]_lockVars => LockTypeOK'
<1> SUFFICES ASSUME LockTypeOK, [LockNext]_lockVars PROVE LockTypeOK'
  OBVIOUS
<1> USE LockAssumption DEF LockTypeOK, LockPcs
<1>1. ASSUME NEW r \in LockRequests, NEW u \in Users, BeginAcquire(r, u)
      PROVE  LockTypeOK'
  BY <1>1 DEF BeginAcquire, Receive
<1>2. ASSUME NEW r \in LockRequests, NEW u \in Users, BeginExtend(r, u)
      PROVE  LockTypeOK'
  BY <1>2 DEF BeginExtend, Receive
<1>3. ASSUME NEW r \in LockRequests, NEW u \in Users, BeginRelease(r, u)
      PROVE  LockTypeOK'
  BY <1>3 DEF BeginRelease, Receive
<1>4. ASSUME NEW r \in LockRequests, AcquireGet(r) PROVE LockTypeOK'
  BY <1>4 DEF AcquireGet, LockGoto, Refuse, Respond
<1>5. ASSUME NEW r \in LockRequests, AcquireSet(r) PROVE LockTypeOK'
  BY <1>5 DEF AcquireSet, WriteLock, SetLock, Respond
<1>6. ASSUME NEW r \in LockRequests, ExtendGet(r) PROVE LockTypeOK'
  BY <1>6 DEF ExtendGet, LockGoto, Refuse, Respond
<1>7. ASSUME NEW r \in LockRequests, ExtendSet(r) PROVE LockTypeOK'
  BY <1>7 DEF ExtendSet, WriteLock, SetLock, Respond
<1>8. ASSUME NEW r \in LockRequests, ReleaseGet(r) PROVE LockTypeOK'
  BY <1>8 DEF ReleaseGet, LockGoto, Refuse, Respond
<1>9. ASSUME NEW r \in LockRequests, ReleaseDel(r) PROVE LockTypeOK'
  BY <1>9 DEF ReleaseDel, Respond
<1>10. ASSUME NEW r \in LockRequests, LoseAnswer(r) PROVE LockTypeOK'
  BY <1>10 DEF LoseAnswer, SetLock, Respond
<1>11. ASSUME NEW r \in LockRequests, LockAbort(r) PROVE LockTypeOK'
  BY <1>11 DEF LockAbort, Respond
<1>12. CASE Tick
  BY <1>12 DEF Tick
<1>13. CASE UNCHANGED lockVars
  BY <1>13 DEF lockVars
<1> QED
  BY <1>1, <1>2, <1>3, <1>4, <1>5, <1>6, <1>7, <1>8, <1>9, <1>10, <1>11,
     <1>12, <1>13 DEF LockNext, LockStep

\* The record, the grants and the requests keep their types, and the key is
\* absent exactly when its TTL is over, for any number of concurrent requests.
THEOREM LockTypeCorrect == LockSpec => []LockTypeOK
<1>1. LockInit => LockTypeOK
  BY LockInitTyped
<1>2. LockTypeOK /\ [LockNext]_lockVars => LockTypeOK'
  BY LockNextTyped
<1> QED
  BY <1>1, <1>2, PTL DEF LockSpec

-----------------------------------------------------------------------------
(* Grants                                                                  *)

\* While a lock stands that was not contested when it was written, every
\* request that is about to write or delete the key is its holder's: whoever
\* else reads the key is refused.
Settled ==
    lockHolder \in Users \ contested =>
        \A r \in LockRequests : Writing(r) => lockUser[r] = lockHolder

\* Who counts on the lock has no release under way, unless it was under way
\* when the lock was written.
ReleasersHoldNothing ==
    \A r \in LockRequests :
        lockPc[r] \in {"releaseGet", "releaseDel"} =>
            granted[lockUser[r]] = 0 \/ lockUser[r] \in contested

LockInv == LockTypeOK /\ GrantsAreBacked /\ Settled /\ ReleasersHoldNothing

LEMMA LockInitInv == LockInit => LockInv
  BY LockInitTyped, LockAssumption
  DEF LockInit, LockInv, GrantsAreBacked, Settled, ReleasersHoldNothing

\* What a Set of the key by u leaves, whether or not the answer arrives.
LEMMA SetInv ==
  ASSUME LockInv, LockTypeOK', NEW r \in LockRequests,
         lockPc[r] \in {"acquireSet", "extendSet"}, SetLock(lockUser[r]), Respond(r),
         \/ UNCHANGED granted
         \/ granted' = [granted EXCEPT ![lockUser[r]] = LockTTL]
  PROVE  LockInv'
<1> DEFINE u == lockUser[r]
<1> USE LockAssumption DEF LockInv, LockTypeOK, LockPcs
<1>1. u \in Users /\ lockHolder' = u /\ lockLeft' = LockTTL
  BY DEF SetLock
<1>2. \A q \in LockRequests : q # r =>
          lockPc'[q] = lockPc[q] /\ lockUser'[q] = lockUser[q]
  BY DEF Respond
<1>3. lockPc'[r] = "idle"
  BY DEF Respond
<1>4. \A v \in Users : v # u => granted'[v] = granted[v]
  OBVIOUS
<1>5. \A v \in Users : v # u => (v \in contested' <=> v \in contested)
  BY DEF SetLock
<1>6. u \notin contested' => ~Contest(u)
  BY DEF SetLock
<1>7. Settled'
  BY <1>1, <1>2, <1>3, <1>6 DEF Settled, Contest, Writing
<1>8. ReleasersHoldNothing'
  <2> SUFFICES ASSUME NEW q \in LockRequests,
                      lockPc'[q] \in {"releaseGet", "releaseDel"}
               PROVE  granted'[lockUser'[q]] = 0 \/ lockUser'[q] \in contested'
    BY DEF ReleasersHoldNothing
  <2>1. q # r /\ lockPc'[q] = lockPc[q] /\ lockUser'[q] = lockUser[q]
        /\ lockUser[q] \in Users
    BY <1>2, <1>3
  <2>2. CASE lockUser[q] = u
    BY <1>6, <2>1, <2>2 DEF Contest
  <2>3. CASE lockUser[q] # u
    BY <1>4, <1>5, <2>1, <2>3 DEF ReleasersHoldNothing
  <2> QED BY <2>2, <2>3
<1>9. GrantsAreBacked'
  <2> SUFFICES ASSUME NEW v \in Users, granted'[v] > 0, v \notin contested'
               PROVE  lockHolder' = v /\ granted'[v] <= lockLeft'
    BY DEF GrantsAreBacked
  <2>1. CASE v = u
    BY <1>1, <2>1
  <2>2. CASE v # u
    <3>1. lockHolder = v /\ v \notin contested
      BY <1>4, <1>5, <2>2 DEF GrantsAreBacked
    <3> QED BY <3>1, <2>2 DEF Settled, Writing
  <2> QED BY <2>1, <2>2
<1> QED
  BY <1>7, <1>8, <1>9

LEMMA LockNextInv == LockInv /\ [LockNext]_lockVars => LockInv'
<1> SUFFICES ASSUME LockInv, [LockNext]_lockVars PROVE LockInv'
  OBVIOUS
<1>0. LockTypeOK /\ LockTypeOK'
  BY LockNextTyped DEF LockInv
<1> USE <1>0, LockAssumption
    DEF LockInv, GrantsAreBacked, Settled, ReleasersHoldNothing, Writing,
        LockTypeOK, LockPcs
<1>1. ASSUME NEW r \in LockRequests, NEW u \in Users, BeginAcquire(r, u)
      PROVE  LockInv'
  BY <1>1 DEF BeginAcquire, Receive
<1>2. ASSUME NEW r \in LockRequests, NEW u \in Users, BeginExtend(r, u)
      PROVE  LockInv'
  BY <1>2 DEF BeginExtend, Receive
<1>3. ASSUME NEW r \in LockRequests, NEW u \in Users, BeginRelease(r, u)
      PROVE  LockInv'
  BY <1>3 DEF BeginRelease, Receive
<1>4. ASSUME NEW r \in LockRequests, AcquireGet(r) PROVE LockInv'
  BY <1>4 DEF AcquireGet, LockGoto, Refuse, Respond
<1>5. ASSUME NEW r \in LockRequests, AcquireSet(r) PROVE LockInv'
  BY <1>5, SetInv DEF AcquireSet, WriteLock
<1>6. ASSUME NEW r \in LockRequests, ExtendGet(r) PROVE LockInv'
  BY <1>6 DEF ExtendGet, LockGoto, Refuse, Respond
<1>7. ASSUME NEW r \in LockRequests, ExtendSet(r) PROVE LockInv'
  BY <1>7, SetInv DEF ExtendSet, WriteLock
<1>8. ASSUME NEW r \in LockRequests, ReleaseGet(r) PROVE LockInv'
  BY <1>8 DEF ReleaseGet, LockGoto, Refuse, Respond
<1>9. ASSUME NEW r \in LockRequests, ReleaseDel(r) PROVE LockInv'
  BY <1>9 DEF ReleaseDel, Respond
<1>10. ASSUME NEW r \in LockRequests, LoseAnswer(r) PROVE LockInv'
  BY <1>10, SetInv DEF LoseAnswer
<1>11. ASSUME NEW r \in LockRequests, LockAbort(r) PROVE LockInv'
  BY <1>11 DEF LockAbort, Respond
<1>12. CASE Tick
  BY <1>12 DEF Tick
<1>13. CASE UNCHANGED lockVars
  BY <1>13 DEF lockVars
<1> QED
  BY <1>1, <1>2, <1>3, <1>4, <1>5, <1>6, <1>7, <1>8, <1>9, <1>10, <1>11,
     <1>12, <1>13 DEF LockNext, LockStep

LEMMA LockInvariant == LockSpec => []LockInv
<1>1. LockInit => LockInv
  BY LockInitInv
<1>2. LockInv /\ [LockNext]_lockVars => LockInv'
  BY LockNextInv
<1> QED
  BY <1>1, <1>2, PTL DEF LockSpec

\* Nobody whose grant was not contested when it was written loses the key
\* before the time they were told, for any number of users and overlapping
\* requests and any TTL.
THEOREM GrantsStayBacked == LockSpec => []GrantsAreBacked
<1>1. LockInv => GrantsAreBacked
  BY DEF LockInv
<1> QED
  BY <1>1, LockInvariant, PTL

\* A release deletes the lock of somebody else only if that lock was contested
\* when it was written.
THEOREM ReleasesSpareSettledLocks == LockSpec => OnlyOwnerReleases
<1>1. LockInv /\ [LockNext]_lockVars =>
        [\A r \in LockRequests :
            /\ lockPc[r] = "releaseDel" /\ lockPc'[r] = "idle"
            /\ lockHolder # lockHolder'
            => lockHolder \in {lockUser[r]} \cup contested]_lockVars
  <2> SUFFICES ASSUME LockInv, LockNext, NEW r \in LockRequests,
                      lockPc[r] = "releaseDel", lockPc'[r] = "idle",
                      lockHolder # lockHolder'
               PROVE  lockHolder \in {lockUser[r]} \cup contested
    OBVIOUS
  <2>1. CASE lockHolder \in Users
    BY <2>1 DEF LockInv, Settled, Writing
  <2>2. CASE lockHolder \notin Users
    <3>1. lockHolder = NoUser /\ lockHolder' # NoUser
      BY <2>2 DEF LockInv, LockTypeOK
    <3>2. PICK q \in LockRequests : AcquireSet(q) \/ ExtendSet(q) \/ LoseAnswer(q)
      BY <3>1, LockAssumption
      DEF LockInv, LockTypeOK, LockNext, LockStep, BeginAcquire, BeginExtend,
          BeginRelease, Receive, AcquireGet, ExtendGet, ReleaseGet, ReleaseDel,
          LockAbort, Tick, Refuse
    <3>3. q # r /\ lockPc' = [lockPc EXCEPT ![q] = "idle"]
      BY <3>2 DEF AcquireSet, ExtendSet, LoseAnswer, Respond
    <3>4. lockPc'[r] = "releaseDel"
      BY <3>3 DEF LockInv, LockTypeOK
    <3> QED BY <3>4
  <2> QED
    BY <2>1, <2>2
<1> QED
  BY <1>1, LockInvariant, PTL DEF LockSpec, OnlyOwnerReleases

-----------------------------------------------------------------------------
(* Refinement                                                              *)

LEMMA LateAre ==
  ASSUME LockTypeOK
  PROVE  /\ LateUsers \subseteq Users \ {lockHolder}
         /\ lockHolder = NoUser => LateUsers = {}
         /\ \A r \in LockRequests :
               Writing(r) /\ lockHolder \notin {NoUser, lockUser[r]} =>
                   lockUser[r] \in LateUsers
  BY LockAssumption DEF LateUsers, Writing, LockTypeOK, LockPcs

\* As long as the holder stays, nobody becomes late: the request that moves
\* writes the key no longer, or is the holder's.
LEMMA LateShrink ==
  ASSUME LockTypeOK, UNCHANGED lockHolder, NEW r \in LockRequests,
         \A q \in LockRequests : q # r =>
             lockPc'[q] = lockPc[q] /\ lockUser'[q] = lockUser[q],
         Writing(r)' => lockUser'[r] = lockHolder \/ lockHolder = NoUser
  PROVE  LateUsers' \subseteq LateUsers
  BY DEF LateUsers, Writing, LockTypeOK

LEMMA StepRefines ==
  LockTypeOK /\ LockTypeOK' /\ [LockNext]_lockVars
      => [Abstract!Next]_Abstract!absVars
<1> SUFFICES ASSUME LockTypeOK, LockTypeOK', [LockNext]_lockVars
             PROVE  [Abstract!Next]_Abstract!absVars
  OBVIOUS
<1>0. /\ LateUsers' \subseteq Users \ {lockHolder'}
      /\ lockHolder' = NoUser => LateUsers' = {}
  BY LockAssumption DEF LateUsers, Writing, LockTypeOK, LockPcs
<1>1. ASSUME NEW r \in LockRequests, NEW u \in Users,
             BeginAcquire(r, u) \/ BeginExtend(r, u) \/ BeginRelease(r, u)
      PROVE  Abstract!Withdraw
  <2>1. LateUsers' \subseteq LateUsers
    BY <1>1, LateShrink
    DEF BeginAcquire, BeginExtend, BeginRelease, Receive, LockTypeOK, Writing
  <2> QED
    BY <1>1, <2>1
    DEF BeginAcquire, BeginExtend, BeginRelease, Receive, Abstract!Withdraw
<1>2. ASSUME NEW r \in LockRequests,
             AcquireGet(r) \/ ExtendGet(r) \/ ReleaseGet(r) \/ LockAbort(r)
      PROVE  Abstract!Withdraw
  <2>1. LateUsers' \subseteq LateUsers
    BY <1>2, LateShrink
    DEF AcquireGet, ExtendGet, ReleaseGet, LockAbort, LockGoto, Refuse, Respond,
        LockTypeOK, Writing
  <2> QED
    BY <1>2, <2>1
    DEF AcquireGet, ExtendGet, ReleaseGet, LockAbort, Refuse, Abstract!Withdraw
<1>3. ASSUME NEW r \in LockRequests, AcquireSet(r) \/ ExtendSet(r) \/ LoseAnswer(r)
      PROVE  Abstract!Grant(lockUser[r]) /\ lockUser[r] \in Users
  <2>1. /\ lockUser[r] \in Users /\ Writing(r)
        /\ lockHolder' = lockUser[r] /\ lockLeft' = LockTTL /\ Respond(r)
    BY <1>3 DEF AcquireSet, ExtendSet, LoseAnswer, WriteLock, SetLock, Writing,
                LockTypeOK
  <2>2. lockHolder \in {NoUser, lockUser[r]} \/ lockUser[r] \in LateUsers
    BY <2>1, LateAre
  <2>3. LateUsers' \subseteq Users \ {lockUser[r]}
    BY <1>0, <2>1
  <2>4. lockHolder = lockUser[r] => LateUsers' \subseteq LateUsers
    BY <2>1, LateShrink DEF Respond, LockTypeOK, Writing
  <2> QED
    BY <2>1, <2>2, <2>3, <2>4 DEF Abstract!Grant
<1>4. ASSUME NEW r \in LockRequests, ReleaseDel(r)
      PROVE  Abstract!Next \/ UNCHANGED Abstract!absVars
  <2>1. /\ lockUser[r] \in Users /\ Writing(r)
        /\ lockHolder' = NoUser /\ lockLeft' = 0 /\ LateUsers' = {}
    BY <1>0, <1>4 DEF ReleaseDel, Writing, LockTypeOK
  <2>2. CASE lockHolder = NoUser
    BY <2>1, <2>2, LateAre DEF LockTypeOK, Abstract!absVars
  <2>3. CASE lockHolder # NoUser
    BY <2>1, <2>3, LateAre DEF Abstract!Next, Abstract!Free
  <2> QED
    BY <2>2, <2>3
<1>5. ASSUME Tick PROVE Abstract!Elapse \/ UNCHANGED Abstract!absVars
  <2>1. CASE lockLeft \in {0, 1}
    <3>1. lockHolder' = NoUser /\ LateUsers' = {}
      BY <1>0, <1>5, <2>1, LockAssumption DEF Tick, LockTypeOK
    <3>2. lockLeft = 0 => LateUsers = {} /\ lockHolder = NoUser
      BY LateAre DEF LockTypeOK
    <3> QED
      BY <1>5, <2>1, <3>1, <3>2
      DEF Tick, Abstract!Elapse, Abstract!absVars
  <2>2. CASE lockLeft \notin {0, 1}
    <3>1. lockLeft > 1 /\ lockHolder' = lockHolder /\ lockLeft' = lockLeft - 1
      BY <1>5, <2>2, LockAssumption DEF Tick, LockTypeOK
    <3>2. LateUsers' = LateUsers
      BY <1>5, <3>1 DEF Tick, LateUsers, Writing
    <3> QED
      BY <3>1, <3>2, LockAssumption DEF Abstract!Elapse, LockTypeOK
  <2> QED
    BY <2>1, <2>2
<1>6. CASE UNCHANGED lockVars
  BY <1>6 DEF lockVars, LateUsers, Writing, Abstract!absVars
<1> QED
  BY <1>1, <1>2, <1>3, <1>4, <1>5, <1>6 DEF LockNext, LockStep, Abstract!Next

\* However many requests interleave, the code implements a lock that changes
\* hands before its time only through a request that read it before the tenure.
THEOREM LockRefines == LockSpec => ImplementsContestedLock
<1>1. LockInit => Abstract!Init
  BY DEF LockInit, Abstract!Init, LateUsers, Writing
<1>2. LockTypeOK /\ LockTypeOK' /\ [LockNext]_lockVars
        => [Abstract!Next]_Abstract!absVars
  BY StepRefines
<1> QED
  BY <1>1, <1>2, LockTypeCorrect, PTL
  DEF LockSpec, ImplementsContestedLock, Abstract!Spec

=============================================================================
