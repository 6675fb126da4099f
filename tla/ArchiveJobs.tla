----------------------------- MODULE ArchiveJobs -----------------------------
(***************************************************************************)
(* The background jobs of the cloud module together: extractions, archives *)
(* that are created, and directories (CloudDirectoryJobService), with the  *)
(* requests that cancel them and the crashes of the process they run in.   *)
(***************************************************************************)
EXTENDS ArchiveExtract, ArchiveCreate

CONSTANT Workloads   \* sequences of requests that clients make

ASSUME WorkloadAssumption ==
    \A w \in Workloads : Len(w) <= MaxJobs /\ \A i \in DOMAIN w :
        /\ w[i].kind \in {"extract", "create", "mkdir"}
        /\ w[i].kind = "extract" =>
              w[i].strategy \in {"fail", "skip", "replace", "keepBoth"}
        /\ w[i].kind = "create" => w[i].keys \subseteq Seq(STRING)

VARIABLES workload,   \* the one of this behaviour
          target      \* per directory job: the folder it creates

jobsVars == <<queueVars, ext, secured, arc, target, workload>>

Placeholder == <<".emptyFolderPlaceholder">>

JobsInit ==
    /\ QueueInit /\ ExtractInit /\ CreateInit
    /\ workload \in Workloads
    /\ target = [j \in Jobs |-> 0]

-----------------------------------------------------------------------------
(* CloudDirectoryJobService                                                *)

\* ResolvePlainDirectoryTarget: the folders a job may be queued for.
ResolvedDirectory(dir, strategy) ==
    IF KeysIn(dir) = {} \/ strategy = "replace" THEN {dir}
    ELSE IF strategy = "keepBoth"
           THEN {d \in dir + 1..dir + MaxCopies :
                   KeysIn(d) = {} /\ \A e \in dir + 1..d - 1 : KeysIn(e) # {}}
           ELSE {}

DirectoryStart(j, dir, strategy) ==
    \E d \in ResolvedDirectory(dir, strategy) :
        /\ Enqueue(j, "mkdir")
        /\ target' = [target EXCEPT ![j] = d]
        /\ UNCHANGED <<cancelPc, cancelFlag, files, outside, ext, secured, arc, workload>>

CreateDirectory(j) ==
    /\ At(j, "mkdir", "begin")
    /\ PutObject(<<target[j], Placeholder>>, j, 0)
    /\ Goto(j, "tell")
    /\ UNCHANGED <<cancelPc, cancelFlag, outside, ext, secured, arc, target,
                   workload>>

TellDirectory(j) ==
    /\ At(j, "mkdir", "tell")
    /\ Tell(j)
    /\ UNCHANGED <<cancelPc, cancelFlag, files, outside, ext, secured, arc, target,
                   workload>>

DirectoryBreaks(j) ==
    /\ job[j].kind = "mkdir" /\ job[j].pc \in {"begin", "tell"}
    /\ Outside
    /\ Throw(j)
    /\ UNCHANGED <<cancelPc, cancelFlag, files, ext, secured, arc, target, workload>>

-----------------------------------------------------------------------------
\* Uploads that are in flight die with the process.
ProcessDies ==
    /\ Crash
    /\ ext' = [j \in Jobs |-> [ext[j] EXCEPT !.flying = {}]]
    /\ UNCHANGED <<secured, arc, target, workload>>

ExtractOnly(A) == A /\ UNCHANGED <<secured, arc, target, workload>>
CreateOnly(A) == A /\ UNCHANGED <<ext, target, workload>>
QueueOnly(A) == A /\ UNCHANGED <<ext, secured, arc, target, workload>>

Request(j) ==
    /\ j \in DOMAIN workload
    /\ LET r == workload[j] IN
       \/ r.kind = "extract" /\ ExtractOnly(ExtractStart(j, r))
       \/ r.kind = "create" /\ CreateOnly(CreateStart(j, r.keys, r.format))
       \/ r.kind = "mkdir" /\ DirectoryStart(j, r.dir, r.strategy)

Work(j) ==
    \/ ExtractOnly(ExtractSteps(j)) \/ CreateOnly(CreateSteps(j))
    \/ CreateDirectory(j) \/ TellDirectory(j)
    \/ QueueOnly(Clean(j)) \/ QueueOnly(Settle(j))

Cancel(j) == QueueOnly(ExtractCancel(j) \/ CreateCancel(j))

Failure(j) ==
    \/ ExtractOnly(ExtractBreaks(j)) \/ CreateOnly(CreateBreaks(j)) \/ DirectoryBreaks(j)
    \/ \E up \in ext[j].flying : ExtractOnly(UploadFails(j, up))

\* Only such jobs look at what the user changes besides.
Asks(kind) == \E i \in DOMAIN workload : workload[i].kind = kind

JobsNext ==
    \/ \E j \in Jobs :
          \/ Request(j) \/ QueueOnly(Take(j)) \/ Work(j)
          \/ ExtractOnly(Starve(j)) \/ Failure(j)
          \/ Cancel(j)
    \/ Asks("extract") /\ \E k \in UserKeys : QueueOnly(UserPut(k))
    \/ Asks("create") /\ \E f \in Folders : CreateOnly(MarkFolder(f))
    \/ ProcessDies

JobsSpec == JobsInit /\ [][JobsNext]_jobsVars

\* The worker goes on with the jobs it took and takes them first come, first
\* served, so that a slot that keeps getting free reaches every job.
FairJobsSpec ==
    /\ JobsSpec
    /\ \A j \in Jobs : /\ WF_jobsVars(Work(j))
                       /\ SF_jobsVars(QueueOnly(Take(j)))

-----------------------------------------------------------------------------
(* Properties                                                              *)

JobsTypeOK ==
    /\ \A j \in Jobs :
          /\ job[j].kind \in {"none", "extract", "create", "mkdir"}
          /\ job[j].state \in Over \cup {"none", "waiting", "active"}
          /\ job[j].outcome \in {"none", "completed", "failed"}
          /\ job[j].told \subseteq {"complete", "failed"}
          /\ job[j].stalls \in 0..MaxStalls + 1
          /\ job[j].kind = "extract" =>
                /\ ext[j].next \in 1..Len(Archive(j)) + 1
                /\ Cardinality(ext[j].flying) <= EntryConcurrency
                /\ ext[j].dir \in 0..MaxCopies + 1
    /\ cancelFlag \subseteq Jobs

\* Unless it was told to replace, an extraction never changes an object that was
\* in its target when it looked, and one that keeps both never replaces what it
\* wrote itself, but for the empty placeholder of a folder that comes twice: not
\* with copies of copies, entries of one name, several uploads at once, a run after
\* a crash, nor uploads that land after the job has failed.
NothingKnownIsReplaced ==
    [][\A k \in DOMAIN files, j \in Jobs :
          /\ files'[k] # files[k] /\ files'[k][1] = j
          /\ job[j].kind = "extract" /\ ext[j].strategy # "replace"
          => /\ k \notin ext[j].seen
             /\ ext[j].mode = "keepBoth" /\ k[2] \notin FolderEntries
                  => files[k][1] # j]_jobsVars

\* When the client hears that an extraction is complete nothing of it is still
\* being uploaded: nothing can change or fail behind the message.
CompleteIsQuiet ==
    \A j \in Jobs :
        job[j].kind = "extract" /\ job[j].outcome = "completed" => ext[j].flying = {}

Hung == \E j \in Jobs : job[j].pc = "hung"

\* The job is over and the user heard of it, but for one that stalled too often.
Answered(j) ==
    \/ job[j].state = "removed"
    \/ job[j].state = "completed" /\ "complete" \in job[j].told
    \/ /\ job[j].state = "failed"
       /\ job[j].told # {} \/ job[j].stalls > MaxStalls

\* Every job that is queued comes to an end the user hears of, whatever fails, is
\* cancelled or crashes - unless an extraction hangs, which blocks its queue.
EveryJobIsAnswered ==
    \A j \in Jobs : job[j].state = "waiting" ~> Answered(j) \/ Hung

\* "has been extracted successfully": every entry was.
CompleteMeansExtracted ==
    \A j \in Jobs :
        job[j].kind = "extract" /\ "complete" \in job[j].told =>
           \A i \in 1..Len(Archive(j)) : Archive(j)[i] # <<>> => i \in ext[j].done

=============================================================================
