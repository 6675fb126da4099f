----------------------- MODULE DocumentEditing_proofs -----------------------
(***************************************************************************)
(* Proofs about DocumentEditing: what the checks of a save guarantee       *)
(* however many requests interleave with it.                               *)
(***************************************************************************)
EXTENDS DocumentEditing, TLAPS

\* A save beyond its lock check saw the lock open to it, and one about to
\* write saw its base as the content of the document, or no hash.
ChecksWereSeen ==
    \A r \in Requests :
        /\ editPc[r] \in {"throttle", "meta", "write"} => "lock" \in seen[r]
        /\ editPc[r] = "write" => "base" \in seen[r] \/ "unhashed" \in seen[r]

Typed == /\ editPc \in [Requests -> SavePcs \cup RestorePcs \cup {"idle"}]
         /\ DOMAIN editor = Requests /\ DOMAIN base = Requests

SeenInv == Typed /\ ChecksWereSeen

LEMMA SeenInit == EditInit => SeenInv
  BY DEF EditInit, SeenInv, Typed, ChecksWereSeen

LEMMA TypedStep == Typed /\ [EditNext]_editVars => Typed'
<1> SUFFICES ASSUME Typed, [EditNext]_editVars PROVE Typed'
  OBVIOUS
<1> USE DEF Typed, SavePcs, RestorePcs
<1>1. CASE UNCHANGED docVars
  BY <1>1 DEF docVars
<1>2. CASE ThrottleExpires
  BY <1>2 DEF ThrottleExpires
<1>3. ASSUME NEW r \in Requests, NEW u \in Users, NEW x \in Texts,
             (\E b \in Texts \cup {NoHash} : BeginSave(r, u, b, x))
               \/ BeginRestore(r, u, x)
      PROVE  Typed'
  BY <1>3 DEF BeginSave, BeginRestore, Begin
<1>4. ASSUME NEW r \in Requests,
             CheckLock(r) \/ CheckThrottle(r) \/ ReadMeta(r) \/ Abort(r)
      PROVE  Typed'
  BY <1>4 DEF CheckLock, CheckThrottle, ReadMeta, Abort, Pass, Goto, Reject,
              Answer
<1>5. ASSUME NEW r \in Requests,
             WriteContent(r) \/ SetThrottle(r) \/ RestoreCopy(r)
               \/ RestoreReread(r) \/ RestoreRewrite(r)
      PROVE  Typed'
  BY <1>5 DEF WriteContent, SetThrottle, RestoreCopy, RestoreReread,
              RestoreRewrite, Goto, Answer
<1>6. ASSUME NEW r \in Requests, NEW x \in Texts, Upload(r, x) PROVE Typed'
  BY <1>6 DEF Upload
<1> QED
  BY <1>1, <1>2, <1>3, <1>4, <1>5, <1>6 DEF EditNext, EditStep, editVars

\* What a request has seen stays seen until it writes or ends, and what holds
\* after a step of it is seen.
LEMMA Observed ==
  ASSUME Observe, NEW r \in Requests, editPc'[r] \notin {"idle", "mark"}
  PROVE  seen[r] \subseteq seen'[r] /\ Holding(r)' \subseteq seen'[r]
  BY DEF Observe

\* A request that is beyond a check either passed it in this step, in a state
\* that satisfied it, or was beyond it before.
LEMMA PassedChecks ==
  ASSUME Typed, EditNext, NEW r \in Requests
  PROVE  /\ editPc'[r] \in {"throttle", "meta", "write"} =>
              \/ editPc[r] \in {"throttle", "meta", "write"}
              \/ "lock" \in Holding(r)'
         /\ editPc'[r] = "write" =>
              \/ editPc[r] = "write"
              \/ "base" \in Holding(r)' \/ "unhashed" \in Holding(r)'
<1> USE DEF Typed
<1>1. CASE UNCHANGED docVars
  BY <1>1 DEF docVars
<1>2. CASE ThrottleExpires
  BY <1>2 DEF ThrottleExpires
<1>3. ASSUME NEW s \in Requests, NEW u \in Users, NEW x \in Texts,
             (\E b \in Texts \cup {NoHash} : BeginSave(s, u, b, x))
               \/ BeginRestore(s, u, x)
      PROVE  editPc'[r] \in {editPc[r], "lock", "copy"}
  BY <1>3 DEF BeginSave, BeginRestore, Begin
<1>4. ASSUME NEW s \in Requests, CheckLock(s), UNCHANGED absVars
      PROVE  editPc'[r] \in {editPc[r], "idle"}
               \/ (editPc'[r] = "throttle" /\ "lock" \in Holding(r)')
  <2>1. CASE s = r
    BY <1>4, <2>1 DEF CheckLock, Pass, Goto, Reject, Answer, Holding, At, absVars
  <2>2. CASE s # r
    BY <1>4, <2>2 DEF CheckLock, Pass, Goto, Reject, Answer
  <2> QED
    BY <2>1, <2>2
<1>5. ASSUME NEW s \in Requests, CheckThrottle(s)
      PROVE  editPc'[r] \in {editPc[r], "idle"}
               \/ (editPc[r] = "throttle" /\ editPc'[r] = "meta")
  BY <1>5 DEF CheckThrottle, Pass, Goto, Reject, Answer, At
<1>6. ASSUME NEW s \in Requests, ReadMeta(s)
      PROVE  editPc'[r] \in {editPc[r], "idle"}
               \/ /\ editPc[r] = "meta" /\ editPc'[r] = "write"
                  /\ "base" \in Holding(r)' \/ "unhashed" \in Holding(r)'
  BY <1>6 DEF ReadMeta, Matches, Pass, Goto, Reject, Answer, Holding, At
<1>7. ASSUME NEW s \in Requests,
             WriteContent(s) \/ SetThrottle(s) \/ RestoreCopy(s)
               \/ RestoreReread(s) \/ RestoreRewrite(s) \/ Abort(s)
      PROVE  editPc'[r] \in {editPc[r], "idle", "mark", "reread", "rewrite"}
  BY <1>7 DEF WriteContent, SetThrottle, RestoreCopy, RestoreReread,
              RestoreRewrite, Abort, Goto, Reject, Answer
<1>8. ASSUME NEW s \in Requests, NEW x \in Texts, Upload(s, x)
      PROVE  editPc'[r] = editPc[r]
  BY <1>8 DEF Upload
<1> QED
  BY <1>1, <1>2, <1>3, <1>4, <1>5, <1>6, <1>7, <1>8 DEF EditNext, EditStep

LEMMA SeenStep == SeenInv /\ [EditNext]_editVars => SeenInv'
<1> SUFFICES ASSUME SeenInv, [EditNext]_editVars PROVE SeenInv'
  OBVIOUS
<1>0. Typed'
  BY TypedStep DEF SeenInv
<1>1. CASE UNCHANGED editVars
  BY <1>0, <1>1 DEF editVars, docVars, SeenInv, ChecksWereSeen
<1>2. CASE EditNext
  <2>1. ASSUME NEW r \in Requests,
               editPc'[r] \in {"throttle", "meta", "write"}
        PROVE  "lock" \in seen'[r]
    BY <1>2, <2>1, PassedChecks, Observed DEF EditNext, SeenInv, ChecksWereSeen
  <2>2. ASSUME NEW r \in Requests, editPc'[r] = "write"
        PROVE  "base" \in seen'[r] \/ "unhashed" \in seen'[r]
    BY <1>2, <2>2, PassedChecks, Observed DEF EditNext, SeenInv, ChecksWereSeen
  <2> QED
    BY <1>0, <2>1, <2>2 DEF SeenInv, ChecksWereSeen
<1> QED
  BY <1>1, <1>2

LEMMA SeenInvariant == EditSpec => []SeenInv
<1>1. EditInit => SeenInv
  BY SeenInit
<1>2. SeenInv /\ [EditNext]_editVars => SeenInv'
  BY SeenStep
<1> QED
  BY <1>1, <1>2, PTL DEF EditSpec

\* However many requests interleave, a save whose base was at no moment of the
\* request the content of the document is written only if at some moment of the
\* request the document carried no hash.
THEOREM StaleBasesNeverWrite == EditSpec => StaleBaseNeverWrites
<1>1. SeenInv => [\A r \in Requests :
         Saving(r) => "base" \in seen[r] \/ "unhashed" \in seen[r]]_editVars
  BY DEF SeenInv, ChecksWereSeen, Saving, At
<1> QED
  BY <1>1, SeenInvariant, PTL DEF StaleBaseNeverWrites

\* A save is never written if another user held the edit lock for the whole
\* of the request.
THEOREM LockedOutUsersNeverWrite == EditSpec => LockedOutNeverWrites
<1>1. SeenInv => [\A r \in Requests : Saving(r) => "lock" \in seen[r]]_editVars
  BY DEF SeenInv, ChecksWereSeen, Saving, At
<1> QED
  BY <1>1, SeenInvariant, PTL DEF LockedOutNeverWrites


-----------------------------------------------------------------------------
(* Restores                                                                *)

\* As long as nobody else writes in between, the document has the text of the
\* version when a restore looks at it again, and so has what it writes.
RestoresOnTheirWay ==
    \A r \in Requests : "disturbed" \notin seen[r] =>
        /\ editPc[r] = "reread" => doc.text = base[r]
        /\ editPc[r] = "rewrite" => draft[r] = base[r]

RestoreInv == Typed /\ DOMAIN draft = Requests /\ RestoresOnTheirWay

LEMMA DraftsStep ==
  ASSUME DOMAIN draft = Requests, [EditNext]_editVars
  PROVE  DOMAIN draft' = Requests
<1>1. draft' = draft \/ \E r, x : draft' = [draft EXCEPT ![r] = x]
  BY DEF EditNext, EditStep, editVars, docVars, BeginSave, BeginRestore, Begin,
         CheckLock, CheckThrottle, ReadMeta, WriteContent, SetThrottle,
         RestoreCopy, RestoreReread, RestoreRewrite, Upload, Abort, Pass,
         Reject, Answer, ThrottleExpires
<1> QED
  BY <1>1

\* Where a request that restores can have come from.
LEMMA CameFrom ==
  ASSUME Typed, DOMAIN draft = Requests, EditNext, NEW r \in Requests
  PROVE  /\ editPc'[r] = "reread" =>
              \/ editPc[r] = "reread" /\ base'[r] = base[r]
              \/ doc'.text = base'[r]
         /\ editPc'[r] = "rewrite" =>
              \/ editPc[r] = "rewrite" /\ base'[r] = base[r] /\ draft'[r] = draft[r]
              \/ editPc[r] = "reread" /\ base'[r] = base[r] /\ draft'[r] = doc.text
<1> USE DEF Typed
<1>1. CASE UNCHANGED docVars
  BY <1>1 DEF docVars
<1>2. CASE ThrottleExpires
  BY <1>2 DEF ThrottleExpires
<1>3. ASSUME NEW s \in Requests, NEW u \in Users, NEW x \in Texts,
             (\E b \in Texts \cup {NoHash} : BeginSave(s, u, b, x))
               \/ BeginRestore(s, u, x)
      PROVE  \/ editPc'[r] \in {"lock", "copy"}
             \/ editPc'[r] = editPc[r] /\ base'[r] = base[r] /\ draft'[r] = draft[r]
  BY <1>3 DEF BeginSave, BeginRestore, Begin
<1>4. ASSUME NEW s \in Requests,
             CheckLock(s) \/ CheckThrottle(s) \/ ReadMeta(s) \/ WriteContent(s)
               \/ SetThrottle(s) \/ RestoreRewrite(s) \/ Abort(s)
      PROVE  \/ editPc'[r] \notin {"reread", "rewrite"}
             \/ editPc'[r] = editPc[r] /\ base'[r] = base[r] /\ draft'[r] = draft[r]
  BY <1>4 DEF CheckLock, CheckThrottle, ReadMeta, WriteContent, SetThrottle,
              RestoreRewrite, Abort, Pass, Goto, Reject, Answer
<1>5. ASSUME NEW s \in Requests, RestoreCopy(s)
      PROVE  \/ editPc'[r] = "reread" /\ doc'.text = base'[r]
             \/ editPc'[r] = editPc[r] /\ base'[r] = base[r] /\ draft'[r] = draft[r]
  BY <1>5 DEF RestoreCopy, Goto
<1>6. ASSUME NEW s \in Requests, RestoreReread(s)
      PROVE  \/ /\ editPc[r] = "reread" /\ editPc'[r] = "rewrite"
                /\ base'[r] = base[r] /\ draft'[r] = doc.text
             \/ editPc'[r] = editPc[r] /\ base'[r] = base[r] /\ draft'[r] = draft[r]
  BY <1>6 DEF RestoreReread, Goto, At
<1>7. ASSUME NEW s \in Requests, NEW x \in Texts, Upload(s, x)
      PROVE  editPc'[r] = editPc[r] /\ base'[r] = base[r] /\ draft'[r] = draft[r]
  BY <1>7 DEF Upload
<1> QED
  BY <1>1, <1>2, <1>3, <1>4, <1>5, <1>6, <1>7 DEF EditNext, EditStep

\* A request that ends with its second write has written what it read.
LEMMA RewriteStep ==
  ASSUME Typed, EditNext, NEW r \in Requests,
         At(r, "rewrite"), editPc'[r] = "idle", doc' # doc
  PROVE  doc'.text = draft[r]
<1> USE DEF Typed
<1>1. editPc[r] = "rewrite"
  BY DEF At
<1>2. ~UNCHANGED docVars /\ ~ThrottleExpires
  BY DEF docVars, ThrottleExpires
<1>3. ASSUME NEW s \in Requests, NEW u \in Users, NEW x \in Texts,
             (\E b \in Texts \cup {NoHash} : BeginSave(s, u, b, x))
               \/ BeginRestore(s, u, x)
      PROVE  FALSE
  BY <1>1, <1>3 DEF BeginSave, BeginRestore, Begin, At
<1>4. ASSUME NEW s \in Requests,
             CheckLock(s) \/ CheckThrottle(s) \/ ReadMeta(s) \/ WriteContent(s)
               \/ SetThrottle(s) \/ RestoreCopy(s) \/ RestoreReread(s) \/ Abort(s)
      PROVE  FALSE
  BY <1>1, <1>4 DEF CheckLock, CheckThrottle, ReadMeta, WriteContent, SetThrottle,
                    RestoreCopy, RestoreReread, Abort, Pass, Goto, Reject, Answer, At
<1>5. ASSUME NEW s \in Requests, RestoreRewrite(s)
      PROVE  doc'.text = draft[r]
  BY <1>1, <1>5 DEF RestoreRewrite, Answer, At
<1>6. ASSUME NEW s \in Requests, NEW x \in Texts, Upload(s, x)
      PROVE  FALSE
  BY <1>1, <1>6 DEF Upload
<1> QED
  BY <1>2, <1>3, <1>4, <1>5, <1>6 DEF EditNext, EditStep

LEMMA RestoreStep == RestoreInv /\ [EditNext]_editVars => RestoreInv'
<1> SUFFICES ASSUME RestoreInv, [EditNext]_editVars PROVE RestoreInv'
  OBVIOUS
<1>0. Typed' /\ DOMAIN draft' = Requests
  BY TypedStep, DraftsStep DEF RestoreInv
<1>1. CASE UNCHANGED editVars
  BY <1>0, <1>1 DEF editVars, docVars, RestoreInv, RestoresOnTheirWay
<1>2. CASE EditNext
  <2> SUFFICES ASSUME NEW r \in Requests, "disturbed" \notin seen'[r]
               PROVE  /\ editPc'[r] = "reread" => doc'.text = base'[r]
                      /\ editPc'[r] = "rewrite" => draft'[r] = base'[r]
    BY <1>0 DEF RestoreInv, RestoresOnTheirWay
  <2>1. Observe
    BY <1>2 DEF EditNext
  <2>2. editPc'[r] \in {"reread", "rewrite"} => "disturbed" \notin seen[r] /\ ~Disturbs(r)
    BY <2>1 DEF Observe
  <2>3. editPc[r] = "reread" /\ editPc'[r] = "reread" => doc' = doc \/ Disturbs(r)
    BY DEF Disturbs, At
  <2> QED
    BY <1>2, <2>2, <2>3, CameFrom DEF RestoreInv, RestoresOnTheirWay
<1> QED
  BY <1>1, <1>2

\* However many requests interleave, a restore leaves the text of the version
\* asked for, or what another request wrote between its two steps.
THEOREM RestoresYieldVersions == EditSpec => RestoreYieldsVersion
<1>1. EditInit => RestoreInv
  BY SeenInit DEF EditInit, SeenInv, RestoreInv, RestoresOnTheirWay
<1>2. RestoreInv /\ [EditNext]_editVars => RestoreInv'
  BY RestoreStep
<1>3. RestoreInv /\ [EditNext]_editVars =>
         [\A r \in Requests :
            At(r, "rewrite") /\ editPc'[r] = "idle" /\ doc' # doc =>
                doc'.text = base[r] \/ "disturbed" \in seen[r]]_editVars
  <2> SUFFICES ASSUME RestoreInv, EditNext, NEW r \in Requests,
                      At(r, "rewrite"), editPc'[r] = "idle", doc' # doc
               PROVE  doc'.text = base[r] \/ "disturbed" \in seen[r]
    OBVIOUS
  <2>1. doc'.text = draft[r]
    BY RewriteStep DEF RestoreInv
  <2> QED BY <2>1 DEF RestoreInv, RestoresOnTheirWay, At
<1> QED
  BY <1>1, <1>2, <1>3, PTL DEF EditSpec, RestoreYieldsVersion

=============================================================================
