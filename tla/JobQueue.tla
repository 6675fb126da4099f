------------------------------- MODULE JobQueue ------------------------------
(***************************************************************************)
(* What the background jobs of the cloud module share: the BullMQ queues   *)
(* they wait in, the worker that runs them, how they end, the requests     *)
(* that cancel them, and the objects of the storage owner they write.      *)
(* There is one queue per kind of job.                                     *)
(***************************************************************************)
EXTENDS Naturals, FiniteSets

CONSTANTS MaxJobs,      \* bound: jobs that are started
          Slots,        \* per kind of job: the concurrency of its worker
          MaxStalls,    \* BullMQ: how often a stalled job is run again
          UserKeys,     \* the keys that exist at first, and the user may write
          MaxOutside    \* bound: failing calls, crashes, acts of the user

ASSUME QueueAssumption ==
    /\ MaxJobs \in Nat
    /\ \A kind \in DOMAIN Slots : Slots[kind] \in Nat \ {0}
    /\ MaxStalls \in Nat /\ MaxOutside \in Nat

\* BullMQ counts the jobs up; a write by nobody's job is the user's.
Jobs == 1..MaxJobs

User == 0

VARIABLES job,         \* per job: its kind, state in BullMQ, place in the code...
          cancelPc,    \* per job: the request that cancels it
          cancelFlag,  \* jobs with a cancel flag in Redis
          files,       \* the objects: key |-> <<writer, what it wrote>>
          outside      \* how much of MaxOutside happened

queueVars == <<job, cancelPc, cancelFlag, files, outside>>

Over == {"completed", "failed", "removed"}

NewJob == [kind |-> "none", state |-> "none", pc |-> "off", outcome |-> "none",
           told |-> {}, stalls |-> 0]

QueueInit ==
    /\ job = [j \in Jobs |-> NewJob]
    /\ cancelPc = [j \in Jobs |-> "idle"]
    /\ cancelFlag = {}
    /\ files = [k \in UserKeys |-> <<User, 0>>]
    /\ outside = 0

Outside == outside < MaxOutside /\ outside' = outside + 1

\* An object is put; "what" tells what a writer wrote.
PutObject(key, writer, what) ==
    files' = [k \in DOMAIN files \cup {key} |->
                 IF k = key THEN <<writer, what>> ELSE files[k]]

At(j, kind, pc) == job[j].kind = kind /\ job[j].pc = pc

Goto(j, pc) == job' = [job EXCEPT ![j].pc = pc]

Enqueue(j, kind) ==
    /\ job[j].state = "none" /\ \A i \in 1..j - 1 : job[i].state # "none"
    /\ job' = [job EXCEPT ![j].kind = kind, ![j].state = "waiting"]

\* The worker takes a job, as long as it has a free slot.
Take(j) ==
    /\ job[j].state = "waiting"
    /\ Cardinality({i \in Jobs : job[i].kind = job[j].kind /\ job[i].state = "active"})
         < Slots[job[j].kind]
    /\ job' = [job EXCEPT ![j].state = "active", ![j].pc = "begin"]
    /\ UNCHANGED <<cancelPc, cancelFlag, files, outside>>

\* The processor notifies the user of the outcome; then come its "finally",
\* which a directory job has none of, and BullMQ's own record.
Outcome(j, event, outcome) ==
    job' = [job EXCEPT ![j].told = @ \cup {event}, ![j].outcome = outcome,
                       ![j].pc = IF job[j].kind = "mkdir" THEN "settle" ELSE "clean"]

Tell(j) == Outcome(j, "complete", "completed")

\* Mutant of Throw: the error goes to BullMQ alone.
ThrowSilently(j) ==
    job' = [job EXCEPT ![j].outcome = "failed",
                       ![j].pc = IF job[j].kind = "mkdir" THEN "settle" ELSE "clean"]

Throw(j) == Outcome(j, "failed", "failed")

\* "finally": the cancel flag is deleted and the listings are invalidated.
Clean(j) ==
    /\ job[j].pc = "clean"
    /\ \/ Goto(j, "settle") /\ cancelFlag' = cancelFlag \ {j} /\ UNCHANGED outside
       \/ /\ Outside /\ UNCHANGED cancelFlag
          /\ job' = [job EXCEPT ![j].pc = "settle", ![j].outcome = "failed"]
    /\ UNCHANGED <<cancelPc, files>>

Settle(j) ==
    /\ job[j].pc = "settle"
    /\ job' = [job EXCEPT ![j].state = job[j].outcome, ![j].pc = "off"]
    /\ UNCHANGED <<cancelPc, cancelFlag, files, outside>>

\* The process dies.  BullMQ finds its jobs stalled and queues them again, but
\* fails one that stalls too often; nobody is told of that.
Crash ==
    /\ Outside
    /\ \E j \in Jobs : job[j].state = "active"
    /\ job' = [j \in Jobs |->
                 IF job[j].state # "active" THEN job[j]
                 ELSE [job[j] EXCEPT !.stalls = @ + 1, !.pc = "off", !.outcome = "none",
                         !.state = IF job[j].stalls < MaxStalls THEN "waiting" ELSE "failed"]]
    /\ cancelPc' = [j \in Jobs |-> IF cancelPc[j] = "idle" THEN "idle" ELSE "over"]
    /\ UNCHANGED <<cancelFlag, files>>

-----------------------------------------------------------------------------
(* A cancel request looks at the state of the job, and then acts           *)

CancelLook(j) ==
    /\ cancelPc[j] = "idle"
    /\ job[j].state # "none"
    /\ cancelPc' = [cancelPc EXCEPT ![j] = CASE job[j].state = "waiting" -> "remove"
                                             [] job[j].state = "active" -> "flag"
                                             [] OTHER -> "over"]
    /\ UNCHANGED <<job, cancelFlag, files, outside>>

\* BullMQ removes no job that a worker took meanwhile.
CancelRemove(j) ==
    /\ cancelPc[j] = "remove"
    /\ job' = [job EXCEPT ![j].state = IF @ = "waiting" THEN "removed" ELSE @]
    /\ cancelPc' = [cancelPc EXCEPT ![j] = "over"]
    /\ UNCHANGED <<cancelFlag, files, outside>>

CancelFlag(j) ==
    /\ cancelPc[j] = "flag"
    /\ cancelFlag' = cancelFlag \cup {j}
    /\ cancelPc' = [cancelPc EXCEPT ![j] = "over"]
    /\ UNCHANGED <<job, files, outside>>

-----------------------------------------------------------------------------
\* The user writes an object by another request.
UserPut(k) ==
    /\ Outside
    /\ PutObject(k, User, outside)
    /\ UNCHANGED <<job, cancelPc, cancelFlag>>

=============================================================================
