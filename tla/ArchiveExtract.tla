---------------------------- MODULE ArchiveExtract ---------------------------
(***************************************************************************)
(* CloudArchiveService's extract jobs, and the three handlers that read an *)
(* archive.  A job resolves where it writes, then takes the archive's      *)
(* entries one by one and uploads up to EntryConcurrency of them at once:  *)
(* it awaits one of its uploads only when that many are in flight, and all *)
(* that are left at the end.                                               *)
(*                                                                         *)
(* A name is a sequence, <<"a">>, and its copy number 2 <<"a", 2>>; a key  *)
(* is <<folder, name>>.  Folder 0 holds the archives; folder 1 has the     *)
(* name of the archive and folder n + 1 is its copy number n.              *)
(***************************************************************************)
EXTENDS JobQueue, Sequences

CONSTANTS FolderEntries,     \* names of archive entries that are directories
          EntryConcurrency,  \* ARCHIVE_EXTRACT_ENTRY_CONCURRENCY
          MaxEntries,        \* ARCHIVE_EXTRACT_MAX_ENTRIES
          MaxCopies          \* MaxExtractKeepBothIterations

ASSUME ExtractAssumption ==
    /\ EntryConcurrency \in Nat \ {0}
    /\ MaxEntries \in Nat \ {0} /\ MaxCopies \in Nat \ {0}

VARIABLE ext   \* per job: the request and the state of its extraction

extractVars == <<queueVars, ext>>

NewRun(req) ==
    [archive |-> req.archive, format |-> req.format, strategy |-> req.strategy,
     newFolder |-> req.newFolder, dir |-> IF req.newFolder THEN 1 ELSE 0,
     mode |-> "none", seen |-> {}, claimed |-> {}, next |-> 1, handled |-> 0,
     flying |-> {}, done |-> {}, stalled |-> FALSE]

ExtractInit ==
    ext = [j \in Jobs |-> NewRun([archive |-> <<>>, format |-> "none",
                                  strategy |-> "none", newFolder |-> FALSE])]

Archive(j) == ext[j].archive

KeysIn(dir) == {k \in DOMAIN files : k[1] = dir}

\* ArchiveExtractStart
ExtractStart(j, req) ==
    /\ Enqueue(j, "extract")
    /\ ext' = [ext EXCEPT ![j] = NewRun(req)]
    /\ UNCHANGED <<cancelPc, cancelFlag, files, outside>>

ExtractCancel(j) ==
    /\ job[j].kind = "extract"
    /\ CancelLook(j) \/ CancelRemove(j) \/ CancelFlag(j)

OnlyPc(j, pc) == Goto(j, pc) /\ UNCHANGED <<cancelPc, cancelFlag, files, outside>>

Fails(j) == Throw(j) /\ UNCHANGED <<cancelPc, cancelFlag, files, outside>>

-----------------------------------------------------------------------------
(* ResolveExtractTarget                                                    *)

\* A run, the first or one after a crash, starts afresh.
BeginExtract(j) ==
    /\ At(j, "extract", "begin")
    /\ ext' = [ext EXCEPT ![j] = NewRun(ext[j])]
    /\ OnlyPc(j, IF ext[j].newFolder THEN "probe"
                 ELSE IF ext[j].strategy = "replace" THEN "entries" ELSE "list")

Overwrites(j) ==
    /\ ext' = [ext EXCEPT ![j].mode = "overwrite", ![j].seen = KeysIn(ext[j].dir)]
    /\ OnlyPc(j, "entries")

\* NextAvailableExtractPrefix: the next copy of the folder is tried, up to a limit.
TryNextPrefix(j) ==
    IF ext[j].dir > MaxCopies THEN Fails(j) /\ UNCHANGED ext
    ELSE ext' = [ext EXCEPT ![j].dir = @ + 1] /\ OnlyPc(j, "probe")

\* The folder to extract into has objects: the strategy decides.
ProbeTaken(j) ==
    /\ At(j, "extract", "probe") /\ KeysIn(ext[j].dir) # {}
    /\ CASE ext[j].strategy = "fail" -> Fails(j) /\ UNCHANGED ext
         [] ext[j].strategy = "skip" -> OnlyPc(j, "list") /\ UNCHANGED ext
         [] ext[j].strategy = "replace" -> Overwrites(j)
         [] ext[j].strategy = "keepBoth" -> TryNextPrefix(j)

ProbeFree(j) ==
    /\ At(j, "extract", "probe") /\ KeysIn(ext[j].dir) = {}
    /\ Overwrites(j)

\* ListExistingKeys
ListExisting(j) ==
    /\ At(j, "extract", "list")
    /\ ext' = [ext EXCEPT ![j].mode = ext[j].strategy, ![j].seen = KeysIn(ext[j].dir)]
    /\ OnlyPc(j, "entries")

-----------------------------------------------------------------------------
(* UploadExtractedEntry: what becomes of the entry that is next            *)

Entry(j) == Archive(j)[ext[j].next]

Key(j) == <<ext[j].dir, Entry(j)>>

Copy(key, n) == <<key[1], Append(key[2], n)>>

FirstCopy(key, taken) ==
    {Copy(key, n) : n \in {m \in 1..MaxCopies :
        /\ Copy(key, m) \notin taken
        /\ \A i \in 1..m - 1 : Copy(key, i) \in taken}}

\* Mutant of NextAvailableEntryKey: only the folder as it was is looked at.
NextUnseenEntryKey(key, seen, claimed) ==
    FirstCopy(key, seen)

\* The first copy's key that is free; {} if there are too many copies.
NextAvailableEntryKey(key, seen, claimed) ==
    FirstCopy(key, seen \cup claimed)

\* Where the entry is written; {} if the upload throws.  Folders get no copies.
Target(j) ==
    CASE ext[j].mode = "fail" -> {Key(j)} \ ext[j].seen
      [] /\ ext[j].mode = "keepBoth" /\ Entry(j) \notin FolderEntries
         /\ Key(j) \in ext[j].seen \cup ext[j].claimed ->
           NextAvailableEntryKey(Key(j), ext[j].seen, ext[j].claimed)
      [] OTHER -> {Key(j)}

\* A file that is to be skipped, and a folder there is already, stay.
Stays(j) ==
    /\ ext[j].mode # "overwrite" /\ Key(j) \in ext[j].seen
    /\ ext[j].mode = "skip" \/ Entry(j) \in FolderEntries

LeaveEntry(j) ==
    /\ ext' = [ext EXCEPT ![j].next = @ + 1, ![j].handled = @ + 1,
                          ![j].done = @ \cup {ext[j].next}]
    /\ UNCHANGED queueVars

\* The promise of the upload is rejected at once.  It fails the job only if
\* the handler now awaits an upload; nothing reads the entry's stream then.
RefuseEntry(j) ==
    IF Cardinality(ext[j].flying) + 1 >= EntryConcurrency
      THEN Fails(j) /\ UNCHANGED ext
      ELSE /\ ext' = [ext EXCEPT ![j].next = @ + 1, ![j].handled = @ + 1,
                                 ![j].stalled = TRUE]
           /\ UNCHANGED queueVars

\* The upload sets out: "whole" unless the stream was drained before.
UploadEntry(j, whole) ==
    \E key \in Target(j) :
        LET up == [entry |-> ext[j].next, key |-> key, whole |-> whole] IN
        /\ ext' = [ext EXCEPT
              ![j].next = @ + 1, ![j].handled = @ + 1, ![j].flying = @ \cup {up},
              ![j].claimed = IF ext[j].mode = "keepBoth" /\ Entry(j) \notin FolderEntries
                               THEN @ \cup {key} ELSE @]
        /\ OnlyPc(j, IF Cardinality(ext[j].flying) + 1 >= EntryConcurrency
                       THEN "race" ELSE "entries")

\* The part of the loop that is the same in the three handlers.  An entry whose
\* name comes to nothing is passed over.
HandleEntry(j, whole) ==
    \/ /\ Entry(j) = <<>>
       /\ ext' = [ext EXCEPT ![j].next = @ + 1]
       /\ UNCHANGED queueVars
    \/ /\ Entry(j) # <<>> /\ ext[j].handled >= MaxEntries
       /\ Fails(j) /\ UNCHANGED ext
    \/ /\ Entry(j) # <<>> /\ ext[j].handled < MaxEntries
       /\ \/ Stays(j) /\ LeaveEntry(j)
          \/ ~Stays(j) /\ Target(j) = {} /\ RefuseEntry(j)
          \/ ~Stays(j) /\ UploadEntry(j, whole)

-----------------------------------------------------------------------------
(* The handlers                                                            *)

Reading(j, format) ==
    /\ At(j, "extract", "entries")
    /\ ext[j].format = format /\ ext[j].next <= Len(Archive(j))

\* A cancelled job drains the entry, and uploads what is left of it.
ZipEntry(j) ==
    /\ Reading(j, "zip")
    /\ HandleEntry(j, j \notin cancelFlag)

\* A cancelled job returns without asking for the next entry: none ever comes.
TarEntry(j) ==
    /\ Reading(j, "tar")
    /\ \/ j \notin cancelFlag /\ HandleEntry(j, TRUE)
       \/ j \in cancelFlag /\ OnlyPc(j, "hung") /\ UNCHANGED ext

\* The answer to ShouldCancel is not looked at.
RarEntry(j) ==
    /\ Reading(j, "rar")
    /\ HandleEntry(j, TRUE)

\* The next entry of a stream does not come before the last one is read, which
\* an upload that threw did not do (a RAR archive is in memory).
Starve(j) ==
    /\ At(j, "extract", "entries")
    /\ ext[j].format # "rar" /\ ext[j].stalled
    /\ OnlyPc(j, "hung") /\ UNCHANGED ext

\* Mutant of EndOfArchive: the last uploads are not awaited.
EndWithoutWaiting(j) ==
    /\ At(j, "extract", "entries") /\ ext[j].next > Len(Archive(j))
    /\ OnlyPc(j, "tell") /\ UNCHANGED ext

EndOfArchive(j) ==
    /\ At(j, "extract", "entries") /\ ext[j].next > Len(Archive(j))
    /\ OnlyPc(j, "all") /\ UNCHANGED ext

-----------------------------------------------------------------------------
(* The uploads in flight                                                   *)

\* An upload is put and gets its metadata.
UploadLands(j, up) ==
    /\ up \in ext[j].flying
    /\ PutObject(up.key, j, up.entry)
    /\ ext' = [ext EXCEPT ![j].flying = @ \ {up},
                          ![j].done = IF up.whole THEN @ \cup {up.entry} ELSE @]
    /\ IF At(j, "extract", "race") THEN Goto(j, "entries") ELSE UNCHANGED job
    /\ UNCHANGED <<cancelPc, cancelFlag, outside>>

\* An upload fails before or after it was put: the job fails if it awaits it,
\* and otherwise the promise is dropped from those in flight.
UploadFails(j, up) ==
    /\ up \in ext[j].flying
    /\ IF up.whole THEN Outside ELSE UNCHANGED outside
    /\ \/ UNCHANGED files
       \/ PutObject(up.key, j, up.entry)
    /\ ext' = [ext EXCEPT ![j].flying = @ \ {up}, ![j].stalled = TRUE]
    /\ IF job[j].pc \in {"race", "all"} THEN Throw(j) ELSE UNCHANGED job
    /\ UNCHANGED <<cancelPc, cancelFlag>>

\* Promise.all, then the progress and the usage.
AllLanded(j) ==
    /\ At(j, "extract", "all") /\ ext[j].flying = {}
    /\ OnlyPc(j, "tell") /\ UNCHANGED ext

TellExtracted(j) ==
    /\ At(j, "extract", "tell")
    /\ Tell(j) /\ UNCHANGED <<cancelPc, cancelFlag, files, outside, ext>>

\* An S3 or Redis call of the job itself fails.
ExtractBreaks(j) ==
    /\ job[j].kind = "extract"
    /\ job[j].pc \in {"probe", "list", "entries", "all", "tell"}
    /\ Outside
    /\ Throw(j) /\ UNCHANGED <<cancelPc, cancelFlag, files, ext>>

ExtractSteps(j) ==
    \/ BeginExtract(j) \/ ProbeTaken(j) \/ ProbeFree(j) \/ ListExisting(j)
    \/ ZipEntry(j) \/ TarEntry(j) \/ RarEntry(j) \/ EndOfArchive(j)
    \/ (\E up \in ext[j].flying : UploadLands(j, up))
    \/ AllLanded(j) \/ TellExtracted(j)

=============================================================================
