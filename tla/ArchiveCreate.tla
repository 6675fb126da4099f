---------------------------- MODULE ArchiveCreate ----------------------------
(***************************************************************************)
(* CloudArchiveService's create jobs: which of the selected files go into  *)
(* the archive, and how the archive is packed and cancelled.  A path is a  *)
(* sequence of names.  The encrypted and the hidden folders are treated    *)
(* alike and make one set.                                                 *)
(***************************************************************************)
EXTENDS JobQueue, SequencesExt

CONSTANTS Tree,            \* the paths of the files
          Folders,         \* folders the user may encrypt or hide
          CreateMaxFiles   \* ARCHIVE_CREATE_MAX_FILES

\* The root is no folder to encrypt or hide.
ASSUME CreateAssumption ==
    /\ Tree \subseteq Seq(STRING)
    /\ Folders \subseteq Seq(STRING) \ {<<>>}

VARIABLES secured,   \* encrypted or hidden folders
          arc        \* per job: the request and the state of its archive

createVars == <<queueVars, secured, arc>>

\* GetCommonParentDirectory
CommonParent(keys) == LongestCommonPrefix({Front(k) : k \in keys})

NewArchive(keys, format) ==
    [keys |-> keys, format |-> format, marks |-> {}, toExpand |-> keys,
     entries |-> {}, packed |-> {}, stored |-> "none"]

CreateInit ==
    /\ secured = {}
    /\ arc = [j \in Jobs |-> NewArchive({}, "none")]

\* Another request encrypts, hides, decrypts or reveals a folder.
MarkFolder(f) ==
    /\ Outside
    /\ secured' = IF f \in secured THEN secured \ {f} ELSE secured \cup {f}
    /\ UNCHANGED <<job, cancelPc, cancelFlag, files, arc>>

CreateCancel(j) ==
    /\ job[j].kind = "create"
    /\ CancelLook(j) \/ CancelRemove(j) \/ CancelFlag(j)

CreatePc(j, pc) ==
    Goto(j, pc) /\ UNCHANGED <<cancelPc, cancelFlag, files, outside, secured>>

CreateFails(j) ==
    Throw(j) /\ UNCHANGED <<cancelPc, cancelFlag, files, outside, secured>>

\* ArchiveCreateStart
CreateStart(j, keys, format) ==
    /\ Enqueue(j, "create")
    /\ arc' = [arc EXCEPT ![j] = NewArchive(keys, format)]
    /\ UNCHANGED <<cancelPc, cancelFlag, files, outside, secured>>

\* GetEncryptedFolderSet and GetHiddenFolderSet
ReadMarks(j) ==
    /\ At(j, "create", "begin")
    /\ arc' = [arc EXCEPT ![j] = [NewArchive(@.keys, @.format) EXCEPT !.marks = secured]]
    /\ CreatePc(j, "expand")

\* Mutant of SecureFoldersToExclude: every folder that holds a selected key is let off.
SecureFoldersBesides(folders, keys) ==
    {f \in folders : ~\E k \in keys : IsPrefix(f, k)}

\* SecureFoldersToExcludeForScan: all but the folder one works in and those above.
SecureFoldersToExclude(folders, keys) ==
    {f \in folders : ~IsPrefix(f, CommonParent(keys))}

IsInsideFolder(path, folders) == \E f \in folders : IsPrefix(f, path)

\* The manifests, and what is in a folder to exclude.
IsSecurePath(path, excluded) ==
    ".secure" \in Range(path) \/ IsInsideFolder(path, excluded)

\* ResolveCreateEntries: a file by itself, a folder by its listing.
Expand(j) ==
    /\ At(j, "create", "expand") /\ arc[j].toExpand # {}
    /\ LET key == CHOOSE k \in arc[j].toExpand : TRUE
           excluded == SecureFoldersToExclude(arc[j].marks, arc[j].keys)
           found == {p \in Tree : IsPrefix(key, p) /\ ~IsSecurePath(p, excluded)}
       IN  arc' = [arc EXCEPT ![j].toExpand = @ \ {key}, ![j].entries = @ \cup found]
    /\ CreatePc(j, "expand")

EntriesResolved(j) ==
    /\ At(j, "create", "expand") /\ arc[j].toExpand = {}
    /\ IF Cardinality(arc[j].entries) \in 1..CreateMaxFiles
         THEN CreatePc(j, "pack") ELSE CreateFails(j)
    /\ UNCHANGED arc

Unpacked(j) == arc[j].packed # arc[j].entries

\* The handlers' Create, one entry.
PackEntry(j) ==
    /\ At(j, "create", "pack") /\ j \notin cancelFlag /\ Unpacked(j)
    /\ LET path == CHOOSE p \in arc[j].entries \ arc[j].packed : TRUE
       IN  arc' = [arc EXCEPT ![j].packed = @ \cup {path}]
    /\ CreatePc(j, "pack")

\* Aborting a ZIP ends the stream that is uploaded: what there is may be stored.
CancelZip(j) ==
    /\ At(j, "create", "pack") /\ arc[j].format = "zip"
    /\ j \in cancelFlag /\ Unpacked(j)
    /\ \E stored \in {"none", "part"} : arc' = [arc EXCEPT ![j].stored = stored]
    /\ CreateFails(j)

\* Destroying a TAR leaves the upload waiting.
CancelTar(j) ==
    /\ At(j, "create", "pack") /\ arc[j].format = "tar"
    /\ j \in cancelFlag /\ Unpacked(j)
    /\ CreateFails(j) /\ UNCHANGED arc

StoreArchive(j) ==
    /\ At(j, "create", "pack") /\ ~Unpacked(j)
    /\ arc' = [arc EXCEPT ![j].stored = "whole"]
    /\ CreatePc(j, "tell")

TellCreated(j) ==
    /\ At(j, "create", "tell")
    /\ Tell(j) /\ UNCHANGED <<cancelPc, cancelFlag, files, outside, secured, arc>>

\* A call of the job fails.  That of the upload, though, which the job does not
\* await before it has packed all, is an unhandled rejection: see Crash.
CreateBreaks(j) ==
    /\ job[j].kind = "create" /\ job[j].pc \in {"begin", "expand", "pack", "tell"}
    /\ Outside
    /\ Throw(j) /\ UNCHANGED <<cancelPc, cancelFlag, files, secured, arc>>

CreateSteps(j) ==
    \/ ReadMarks(j) \/ Expand(j) \/ EntriesResolved(j) \/ PackEntry(j)
    \/ CancelZip(j) \/ CancelTar(j) \/ StoreArchive(j) \/ TellCreated(j)

-----------------------------------------------------------------------------
(* Properties                                                              *)

\* A file of a secured folder gets into an archive only if one was in that folder:
\* everything that was selected lies inside it (the marks are those the job read).
LeakOnlyByNavigation ==
    \A j \in Jobs :
        job[j].kind = "create" =>
           \A p \in arc[j].packed, f \in arc[j].marks :
               IsPrefix(f, p) =>
                  \A k \in arc[j].keys : IsPrefix(f, k) /\ f # k

=============================================================================
