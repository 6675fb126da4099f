---------------------------- MODULE MCDocuments ----------------------------
(***************************************************************************)
(* The instances: the drafts of a document; its edit lock; the versions of *)
(* its object.  The three parts share no state: a behaviour is one of a    *)
(* single part.                                                            *)
(***************************************************************************)
EXTENDS DocumentDraft, DocumentLock, CloudVersion

VARIABLE part   \* what this behaviour is about

DocumentsInit ==
    /\ part \in {"drafts", "lock", "versions"}
    /\ DraftInit /\ LockInit /\ VersionInit

DocumentsNext ==
    /\ UNCHANGED part
    /\ \/ part = "drafts" /\ DraftNext /\ UNCHANGED <<lockVars, versionVars>>
       \/ part = "lock" /\ LockNext /\ UNCHANGED <<draftVars, versionVars>>
       \/ part = "versions" /\ VersionNext /\ UNCHANGED <<draftVars, lockVars>>

documentsVars == <<part, draftVars, lockVars, versionVars>>

\* Redis expires the key of the lock whatever the requests do.
DocumentsSpec ==
    /\ DocumentsInit /\ [][DocumentsNext]_documentsVars
    /\ WF_documentsVars(/\ part = "lock" /\ Tick
                        /\ UNCHANGED <<part, draftVars, versionVars>>)

=============================================================================
