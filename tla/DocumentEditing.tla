-------------------------- MODULE DocumentEditing --------------------------
(***************************************************************************)
(* Writing one document: UpdateContent and RestoreVersion of               *)
(* DocumentService, and uploads of the same key through the file API.      *)
(*                                                                         *)
(* A save looks at the edit lock, at the save throttle and at the metadata *)
(* of the S3 object, and then writes; every look and the write is an await *)
(* of its own.  The edit lock is the contested one that DocumentLock is    *)
(* shown to implement.  Contents stand for their SHA-256 hashes.           *)
(***************************************************************************)
EXTENDS ContestedLock

CONSTANTS Requests,    \* save and restore requests in flight at a time
          Texts,       \* contents a document can have
          NoHash       \* the client sends no ExpectedContentHash

ASSUME EditingAssumption ==
    NoUser \notin Users /\ LockTTL \in Nat \ {0} /\ NoHash \notin Texts

VARIABLES doc,         \* the S3 object: its text, and whether its metadata
                       \* carries the contenthash of that text
          throttled,   \* the SaveThrottle key is set and its 30 s are not over
          editPc,      \* per request: the await it is at
          editor,      \* per request: who sent it
          base,        \* per request: ExpectedContentHash, or the text of the
                       \* version to restore
          draft,       \* per request: the text it is going to write
          seen         \* history: what held at some moment of the request

docVars == <<doc, throttled, editPc, editor, base, draft>>
editVars == <<absVars, docVars, seen>>

SavePcs == {"lock", "throttle", "meta", "write", "mark"}
RestorePcs == {"copy", "reread", "rewrite"}

Objects == [text : Texts, hashed : BOOLEAN]

EditTypeOK ==
    /\ holder \in Users \cup {NoUser} /\ left \in 0..LockTTL
    /\ late \subseteq Users \ {holder}
    /\ holder = NoUser <=> left = 0
    /\ doc \in Objects /\ throttled \in BOOLEAN
    /\ editPc \in [Requests -> SavePcs \cup RestorePcs \cup {"idle"}]
    /\ editor \in [Requests -> Users \cup {NoUser}]
    /\ base \in [Requests -> Texts \cup {NoHash}]
    /\ draft \in [Requests -> Texts \cup {NoHash}]
    /\ seen \in [Requests -> SUBSET {"base", "unhashed", "lock", "disturbed"}]
    /\ \A r \in Requests :
          editPc[r] \in SavePcs \cup {"rewrite"} => draft[r] \in Texts

EditInit ==
    /\ Init
    /\ doc \in Objects
    /\ throttled = FALSE
    /\ editPc = [r \in Requests |-> "idle"]
    /\ editor = [r \in Requests |-> NoUser]
    /\ base = [r \in Requests |-> NoHash]
    /\ draft = [r \in Requests |-> NoHash]
    /\ seen = [r \in Requests |-> {}]

-----------------------------------------------------------------------------
At(r, pc) == editPc[r] = pc

Goto(r, pc) ==
    /\ editPc' = [editPc EXCEPT ![r] = pc]
    /\ UNCHANGED <<editor, base>>

Begin(r, pc, u, b, x) ==
    /\ At(r, "idle")
    /\ editPc' = [editPc EXCEPT ![r] = pc]
    /\ editor' = [editor EXCEPT ![r] = u]
    /\ base' = [base EXCEPT ![r] = b]
    /\ draft' = [draft EXCEPT ![r] = x]
    /\ UNCHANGED <<doc, throttled>>

Answer(r) ==
    /\ editPc' = [editPc EXCEPT ![r] = "idle"]
    /\ editor' = [editor EXCEPT ![r] = NoUser]
    /\ base' = [base EXCEPT ![r] = NoHash]
    /\ draft' = [draft EXCEPT ![r] = NoHash]

Reject(r) == Answer(r) /\ UNCHANGED <<doc, throttled>>

Pass(r, pc) == Goto(r, pc) /\ UNCHANGED <<doc, throttled, draft>>

-----------------------------------------------------------------------------
(* UpdateContent                                                           *)

BeginSave(r, u, b, x) == Begin(r, "lock", u, b, x)

\* Mutant: the lock is not looked at.
CheckLockNever(r) == At(r, "lock") /\ Pass(r, "throttle")

CheckLock(r) ==
    /\ At(r, "lock")
    /\ \/ holder \in {NoUser, editor[r]} /\ Pass(r, "throttle")
       \/ holder \notin {NoUser, editor[r]} /\ Reject(r)        \* 423

CheckThrottle(r) ==
    /\ At(r, "throttle")
    /\ \/ ~throttled /\ Pass(r, "meta")
       \/ throttled /\ Reject(r)                               \* 429

\* Mutant: ExpectedContentHash is ignored.
ReadMetaUnchecked(r) == At(r, "meta") /\ Pass(r, "write")

\* The expected hash is compared only where there are two to compare.
Matches(r) == base[r] \in {NoHash, doc.text} \/ ~doc.hashed

ReadMeta(r) ==
    /\ At(r, "meta")
    /\ \/ Matches(r) /\ Pass(r, "write")
       \/ ~Matches(r) /\ Reject(r)                             \* 409

\* PutObject.  Old versions and the draft are cleaned up, and the usage
\* counted, before the throttle is set.
WriteContent(r) ==
    /\ At(r, "write")
    /\ doc' = [text |-> draft[r], hashed |-> TRUE]
    /\ Goto(r, "mark")
    /\ UNCHANGED <<throttled, draft>>

SetThrottle(r) ==
    /\ At(r, "mark")
    /\ throttled' = TRUE
    /\ Answer(r)
    /\ UNCHANGED doc

-----------------------------------------------------------------------------
(* RestoreVersion: a server-side copy, and then a write of what the object *)
(* contains, to renew its metadata.  Neither lock nor throttle is asked.   *)

BeginRestore(r, u, x) == Begin(r, "copy", u, x, NoHash)

\* Mutant: the copy is not waited for.
RestoreCopyLater(r) == At(r, "copy") /\ Pass(r, "reread")

\* The copy carries the metadata of the version restored.
RestoreCopy(r) ==
    /\ At(r, "copy")
    /\ \E hashed \in BOOLEAN : doc' = [text |-> base[r], hashed |-> hashed]
    /\ Goto(r, "reread")
    /\ UNCHANGED <<throttled, draft>>

RestoreReread(r) ==
    /\ At(r, "reread")
    /\ draft' = [draft EXCEPT ![r] = doc.text]
    /\ Goto(r, "rewrite")
    /\ UNCHANGED <<doc, throttled>>

RestoreRewrite(r) ==
    /\ At(r, "rewrite")
    /\ doc' = [text |-> draft[r], hashed |-> TRUE]
    /\ Answer(r)
    /\ UNCHANGED throttled

-----------------------------------------------------------------------------
\* The file is uploaded anew through the file API: no contenthash.
Upload(r, x) ==
    /\ At(r, "idle")
    /\ doc' = [text |-> x, hashed |-> FALSE]
    /\ UNCHANGED <<throttled, editPc, editor, base, draft>>

\* A call fails, or the process dies, between two steps.
Abort(r) == ~At(r, "idle") /\ Reject(r)

ThrottleExpires ==
    /\ throttled
    /\ throttled' = FALSE
    /\ UNCHANGED <<doc, editPc, editor, base, draft>>

EditStep ==
    \/ \E r \in Requests :
          \/ \E u \in Users, x \in Texts :
                \/ \E b \in Texts \cup {NoHash} : BeginSave(r, u, b, x)
                \/ BeginRestore(r, u, x)
          \/ CheckLock(r) \/ CheckThrottle(r) \/ ReadMeta(r)
          \/ WriteContent(r) \/ SetThrottle(r)
          \/ RestoreCopy(r) \/ RestoreReread(r) \/ RestoreRewrite(r)
          \/ \E x \in Texts : Upload(r, x)
          \/ Abort(r)
    \/ ThrottleExpires

\* What a request might have seen: the text it is based on (any, if it names
\* none), a document without a hash, an open lock.
Holding(r) ==
    {c \in {"base", "unhashed", "lock"} :
        \/ c = "base" /\ base[r] \in {NoHash, doc.text}
        \/ c = "unhashed" /\ ~doc.hashed
        \/ c = "lock" /\ holder \in {NoUser, editor[r]}}

\* Somebody else writes between the copy of a restore and its second look.
Disturbs(r) == At(r, "reread") /\ editPc'[r] = "reread" /\ doc' # doc

Observe ==
    seen' = [r \in Requests |->
               CASE editPc'[r] = "idle" -> {}
                 [] editPc'[r] = "mark" -> seen[r]
                 [] Disturbs(r) -> seen[r] \cup Holding(r)' \cup {"disturbed"}
                 [] OTHER -> seen[r] \cup Holding(r)']

EditNext ==
    /\ \/ EditStep /\ UNCHANGED absVars
       \/ Next /\ UNCHANGED docVars
    /\ Observe

EditSpec == EditInit /\ [][EditNext]_editVars

-----------------------------------------------------------------------------
(* Properties                                                              *)

Saving(r) == At(r, "write") /\ editPc'[r] = "mark"

\* "the server will reject updates where the current content has changed since
\* the client last fetched it (returns 409)": a save replaces only the content
\* its client last read, if the document carries a hash.  It does not hold: the
\* hash is compared one await before the write.
NoBlindOverwrite ==
    [][\A r \in Requests :
          Saving(r) => Matches(r)]_editVars

\* However requests interleave, a save whose base was at no moment of the
\* request the content of the document is not written, unless at some moment of
\* the request the document carried no hash to compare with (as a file uploaded
\* through the file API does not: then any base is let through).
StaleBaseNeverWrites ==
    [][\A r \in Requests :
          Saving(r) => "base" \in seen[r] \/ "unhashed" \in seen[r]]_editVars

\* However requests interleave, a save is not written if somebody else held
\* the edit lock from its beginning to its end.
LockedOutNeverWrites ==
    [][\A r \in Requests : Saving(r) => "lock" \in seen[r]]_editVars

\* However requests interleave, what a restore leaves is the text of the version
\* asked for, unless somebody else wrote between its copy and its second look
\* (then it is what they wrote).
RestoreYieldsVersion ==
    [][\A r \in Requests :
          At(r, "rewrite") /\ editPc'[r] = "idle" /\ doc' # doc =>
              doc'.text = base[r] \/ "disturbed" \in seen[r]]_editVars

=============================================================================
