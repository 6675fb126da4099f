---------------------------- MODULE DuplicateScan ----------------------------
(***************************************************************************)
(* Duplicate scans of one storage owner (CloudDuplicateService): requests  *)
(* that start a scan, requests that cancel one, and the BullMQ worker that *)
(* runs them.  They share, in Redis, the lock of the active scan and, per  *)
(* scan, a status, a cancel flag and a result; each access is an await.    *)
(*                                                                         *)
(* The phases of a scan differ only in what they compute.  The worker is   *)
(* in "working" from listing to finalizing, where it reports progress and  *)
(* looks at the cancel flag, any number of times each.  UpdateScanStatus   *)
(* reads the status record and writes it back: a progress report thereby   *)
(* repeats the Status it read, any other update sets its own.              *)
(*                                                                         *)
(* The worker runs in the process that serves the requests, so that a      *)
(* crash ends them all.  Which of several waiting jobs the worker takes    *)
(* next is left open.                                                      *)
(***************************************************************************)
EXTENDS Naturals, FiniteSets

CONSTANTS Scans,         \* scan ids, one for every start request
          NoScan,        \* the active lock is free
          Concurrency,   \* CLOUD_DUPLICATE_SCAN_CONCURRENCY
          MaxStalls,     \* BullMQ: how often a stalled job is run again
          MaxFaults      \* bound: failing requests and scans, crashes

ASSUME ScanAssumption ==
    /\ NoScan \notin Scans
    /\ Concurrency \in Nat \ {0} /\ MaxStalls \in Nat /\ MaxFaults \in Nat

VARIABLES activeLock,   \* DuplicateScanActive
          status,       \* per scan: DuplicateScanStatus, "none" if absent
          cancelFlag,   \* scans with DuplicateScanCancel
          result,       \* scans with DuplicateScanResult
          waiting,      \* scans whose job waits for the worker
          stalls,       \* per scan: how often its job stalled
          startPc, startRead,   \* start requests, and the lock they read
          workPc, workRead,     \* jobs, and the status a report read
          ending,               \* jobs: how they end
          cancelPc,             \* cancel requests
          events,       \* per scan: the terminal events emitted
          faults,       \* how many there were
          \* history of the run
          halfCancelled,  \* scans with a cancel request that stopped half way
          abandoned       \* scans whose job ended without settling them

redisVars == <<activeLock, status, cancelFlag, result>>
startVars == <<startPc, startRead>>
workVars == <<workPc, workRead, ending>>
jobVars == <<waiting, stalls, abandoned>>
scanVars == <<redisVars, jobVars, startVars, workVars, cancelPc, halfCancelled,
              events, faults>>

Terminal == {"COMPLETED", "FAILED", "CANCELLED"}

ScanTypeOK ==
    /\ activeLock \in Scans \cup {NoScan}
    /\ status \in [Scans -> Terminal \cup {"none", "PENDING", "SCANNING"}]
    /\ cancelFlag \subseteq Scans /\ result \subseteq Scans
    /\ waiting \subseteq Scans /\ stalls \in [Scans -> 0..MaxStalls]
    /\ halfCancelled \subseteq Scans /\ abandoned \subseteq Scans
    /\ startPc \in [Scans -> {"new", "check", "lock", "status", "enqueue",
                          "over", "failed"}]
    /\ startRead \in [Scans -> Scans \cup {NoScan}]
    /\ workPc \in [Scans -> {"off", "first", "scanning", "working", "report",
                             "result", "settle", "clear", "unlock", "unflag", "done"}]
    /\ workRead \in [Scans -> {"none", "PENDING", "SCANNING"} \cup Terminal]
    /\ ending \in [Scans -> Terminal \cup {"none"}]
    /\ cancelPc \in [Scans -> {"idle", "flag", "status", "clear", "unlock", "over"}]
    /\ events \in [Scans -> SUBSET Terminal]
    /\ faults \in 0..MaxFaults

ScanInit ==
    /\ activeLock = NoScan
    /\ status = [s \in Scans |-> "none"]
    /\ cancelFlag = {} /\ result = {}
    /\ waiting = {} /\ stalls = [s \in Scans |-> 0]
    /\ halfCancelled = {} /\ abandoned = {}
    /\ startPc = [s \in Scans |-> "new"]
    /\ startRead = [s \in Scans |-> NoScan]
    /\ workPc = [s \in Scans |-> "off"]
    /\ workRead = [s \in Scans |-> "none"]
    /\ ending = [s \in Scans |-> "none"]
    /\ cancelPc = [s \in Scans |-> "idle"]
    /\ events = [s \in Scans |-> {}]
    /\ faults = 0

Fault == faults < MaxFaults /\ faults' = faults + 1

SetStatus(s, value) == status' = [status EXCEPT ![s] = value]

-----------------------------------------------------------------------------
(* EnqueueDuplicateScan                                                    *)

StartGoto(s, pc) == startPc' = [startPc EXCEPT ![s] = pc]

StartRest ==
    UNCHANGED <<workVars, cancelPc, halfCancelled, stalls, abandoned, events, faults>>

StartRead(s) ==
    /\ startPc[s] = "new"
    /\ startRead' = [startRead EXCEPT ![s] = activeLock]
    /\ StartGoto(s, IF activeLock = NoScan THEN "lock" ELSE "check")
    /\ UNCHANGED <<redisVars, waiting>> /\ StartRest

\* A lock whose scan is over, or whose status is gone, is stale; a scan that
\* still runs is answered with 409.
StartCheck(s) ==
    /\ startPc[s] = "check"
    /\ StartGoto(s, IF status[startRead[s]] \in Terminal \cup {"none"}
                      THEN "lock" ELSE "over")
    /\ startRead' = [startRead EXCEPT ![s] = NoScan]
    /\ UNCHANGED <<redisVars, waiting>> /\ StartRest

StartLock(s) ==
    /\ startPc[s] = "lock"
    /\ activeLock' = s
    /\ StartGoto(s, "status")
    /\ UNCHANGED <<status, cancelFlag, result, waiting, startRead>> /\ StartRest

StartStatus(s) ==
    /\ startPc[s] = "status"
    /\ SetStatus(s, "PENDING")
    /\ StartGoto(s, "enqueue")
    /\ UNCHANGED <<activeLock, cancelFlag, result, waiting, startRead>> /\ StartRest

StartEnqueue(s) ==
    /\ startPc[s] = "enqueue"
    /\ waiting' = waiting \cup {s}
    /\ StartGoto(s, "over")
    /\ UNCHANGED <<redisVars, startRead>> /\ StartRest

\* A Redis call of the request fails.
StartFails(s) ==
    /\ startPc[s] \in {"status", "enqueue"}
    /\ Fault
    /\ StartGoto(s, "failed")
    /\ UNCHANGED <<redisVars, startRead, jobVars, workVars, cancelPc, halfCancelled, events>>

-----------------------------------------------------------------------------
(* CancelDuplicateScan                                                     *)

CancelGoto(s, pc) == cancelPc' = [cancelPc EXCEPT ![s] = pc]

CancelRest == UNCHANGED <<jobVars, startVars, workVars, halfCancelled, faults>>

CancelRead(s) ==
    /\ cancelPc[s] = "idle"
    /\ status[s] \notin Terminal \cup {"none"}
    /\ CancelGoto(s, "flag")
    /\ UNCHANGED <<redisVars, events>> /\ CancelRest

CancelFlag(s) ==
    /\ cancelPc[s] = "flag"
    /\ cancelFlag' = cancelFlag \cup {s}
    /\ CancelGoto(s, "status")
    /\ UNCHANGED <<activeLock, status, result, events>> /\ CancelRest

CancelStatus(s) ==
    /\ cancelPc[s] = "status"
    /\ SetStatus(s, "CANCELLED")
    /\ CancelGoto(s, "clear")
    /\ UNCHANGED <<activeLock, cancelFlag, result, events>> /\ CancelRest

\* Mutant of CancelClear: a cancel that finds the lock gone says nothing.
CancelClearSilent(s) ==
    /\ cancelPc[s] = "clear"
    /\ CancelGoto(s, IF activeLock = s THEN "unlock" ELSE "over")
    /\ UNCHANGED <<redisVars, events>> /\ CancelRest

\* ClearActiveLock, and the terminal event.
CancelClear(s) ==
    /\ cancelPc[s] = "clear"
    /\ \/ activeLock = s /\ CancelGoto(s, "unlock") /\ UNCHANGED events
       \/ /\ activeLock # s
          /\ CancelGoto(s, "over")
          /\ events' = [events EXCEPT ![s] = @ \cup {"CANCELLED"}]
    /\ UNCHANGED redisVars /\ CancelRest

CancelUnlock(s) ==
    /\ cancelPc[s] = "unlock"
    /\ activeLock' = NoScan
    /\ CancelGoto(s, "over")
    /\ events' = [events EXCEPT ![s] = @ \cup {"CANCELLED"}]
    /\ UNCHANGED <<status, cancelFlag, result>> /\ CancelRest

\* What a cancel has begun: the flag is set, the rest may be.
Begun(s) == cancelPc[s] \in {"status", "clear", "unlock"}

\* A Redis call of the request throws: it ends there, with nothing announced, and
\* the client may send another one.
CancelFails(s) ==
    /\ cancelPc[s] \notin {"idle", "over"}
    /\ Fault
    /\ CancelGoto(s, "idle")
    /\ halfCancelled' = IF Begun(s) THEN halfCancelled \cup {s} ELSE halfCancelled
    /\ UNCHANGED <<redisVars, jobVars, startVars, workVars, events>>

-----------------------------------------------------------------------------
(* ProcessDuplicateScanJob                                                 *)

WorkGoto(s, pc) == workPc' = [workPc EXCEPT ![s] = pc]

\* HandleCancellation and HandleFailure, and the end of a successful scan:
\* the status is set, the lock cleared, the flag deleted, the event emitted.
End(s, outcome) ==
    /\ WorkGoto(s, "settle")
    /\ ending' = [ending EXCEPT ![s] = outcome]
    /\ workRead' = [workRead EXCEPT ![s] = "none"]

WorkEnds(s, pc) ==
    /\ WorkGoto(s, pc)
    /\ ending' = [ending EXCEPT ![s] = "none"]
    /\ workRead' = [workRead EXCEPT ![s] = "none"]

WorkRest == UNCHANGED <<startVars, cancelPc, halfCancelled, stalls, abandoned, faults>>

Take(s) ==
    /\ s \in waiting
    /\ Cardinality({t \in Scans : workPc[t] # "off"}) < Concurrency
    /\ waiting' = waiting \ {s}
    /\ WorkGoto(s, "first")
    /\ UNCHANGED <<redisVars, workRead, ending, events>> /\ WorkRest

Proceed(s, pc) == WorkGoto(s, pc) /\ UNCHANGED <<workRead, ending>>

\* Cancelled while it sat queued?
FirstCheck(s) ==
    /\ workPc[s] = "first"
    /\ \/ s \in cancelFlag /\ End(s, "CANCELLED")
       \/ s \notin cancelFlag /\ Proceed(s, "scanning")
    /\ UNCHANGED <<redisVars, waiting, events>> /\ WorkRest

BeginScanning(s) ==
    /\ workPc[s] = "scanning"
    /\ SetStatus(s, "SCANNING")
    /\ Proceed(s, "working")
    /\ UNCHANGED <<activeLock, cancelFlag, result, waiting, events>> /\ WorkRest

ReportRead(s) ==
    /\ workPc[s] = "working"
    /\ workRead' = [workRead EXCEPT ![s] = status[s]]
    /\ WorkGoto(s, "report")
    /\ UNCHANGED <<redisVars, waiting, ending, events>> /\ WorkRest

ReportWrite(s) ==
    /\ workPc[s] = "report"
    /\ SetStatus(s, workRead[s])
    /\ workRead' = [workRead EXCEPT ![s] = "none"]
    /\ WorkGoto(s, "working")
    /\ UNCHANGED <<activeLock, cancelFlag, result, waiting, ending, events>>
    /\ WorkRest

\* Mutant of Checkpoint: the worker just returns, as the cancel has settled all.
CheckpointReturns(s) ==
    /\ workPc[s] = "working"
    /\ s \in cancelFlag
    /\ Proceed(s, "off")
    /\ UNCHANGED <<redisVars, waiting, events>> /\ WorkRest

Checkpoint(s) ==
    /\ workPc[s] = "working"
    /\ s \in cancelFlag
    /\ End(s, "CANCELLED")
    /\ UNCHANGED <<redisVars, waiting, events>> /\ WorkRest

\* The check after FINALIZING is reported: the last one.
LastCheck(s) ==
    /\ workPc[s] = "working"
    /\ s \notin cancelFlag
    /\ Proceed(s, "result")
    /\ UNCHANGED <<redisVars, waiting, events>> /\ WorkRest

WriteResult(s) ==
    /\ workPc[s] = "result"
    /\ result' = result \cup {s}
    /\ End(s, "COMPLETED")
    /\ UNCHANGED <<activeLock, status, cancelFlag, waiting, events>> /\ WorkRest

\* Too many files, or an S3 or Redis call throws, in the middle of the scan or
\* while it ends: HandleFailure.
ScanFails(s) ==
    /\ workPc[s] \notin {"off", "done"} /\ ending[s] # "FAILED"
    /\ Fault
    /\ End(s, "FAILED")
    /\ UNCHANGED <<redisVars, startVars, jobVars, cancelPc, halfCancelled, events>>

\* HandleFailure throws, and nobody catches that: BullMQ fails the job.
HandlerThrows(s) ==
    /\ ending[s] = "FAILED"
    /\ Fault
    /\ WorkEnds(s, "off")
    /\ abandoned' = abandoned \cup {s}
    /\ UNCHANGED <<redisVars, startVars, waiting, stalls, cancelPc, halfCancelled, events>>

\* Mutant of Settle: the active lock is left to expire.
SettleKeepsLock(s) ==
    /\ workPc[s] = "settle"
    /\ SetStatus(s, ending[s])
    /\ Proceed(s, "unflag")
    /\ UNCHANGED <<activeLock, cancelFlag, result, waiting, events>> /\ WorkRest

Settle(s) ==
    /\ workPc[s] = "settle"
    /\ SetStatus(s, ending[s])
    /\ Proceed(s, "clear")
    /\ UNCHANGED <<activeLock, cancelFlag, result, waiting, events>> /\ WorkRest

\* ClearActiveLock: read, compare, and then delete.
ClearActiveLock(s) ==
    /\ workPc[s] = "clear"
    /\ Proceed(s, IF activeLock = s THEN "unlock" ELSE "unflag")
    /\ UNCHANGED <<redisVars, waiting, events>> /\ WorkRest

Unlock(s) ==
    /\ workPc[s] = "unlock"
    /\ activeLock' = NoScan
    /\ Proceed(s, "unflag")
    /\ UNCHANGED <<status, cancelFlag, result, waiting, events>> /\ WorkRest

\* The cancel request announces a cancellation itself.
FinishScan(s) ==
    /\ workPc[s] = "unflag"
    /\ cancelFlag' = cancelFlag \ {s}
    /\ events' = [events EXCEPT ![s] = @ \cup ({ending[s]} \ {"CANCELLED"})]
    /\ WorkEnds(s, "done")
    /\ UNCHANGED <<activeLock, status, result, waiting>> /\ WorkRest

\* BullMQ records the job as completed.
LeaveQueue(s) ==
    /\ workPc[s] = "done"
    /\ WorkEnds(s, "off")
    /\ UNCHANGED <<redisVars, waiting, events>> /\ WorkRest

\* The process dies, with the requests it serves.  BullMQ finds its jobs stalled
\* and queues them again, but fails one that stalls too often: no handler runs.
Crash ==
    LET working == {s \in Scans : workPc[s] # "off"}
        again == {s \in working : stalls[s] < MaxStalls}
    IN  /\ \E s \in Scans :
              \/ s \in working \/ cancelPc[s] \notin {"idle", "over"}
              \/ startPc[s] \notin {"new", "over", "failed"}
        /\ Fault
        /\ waiting' = waiting \cup again
        /\ stalls' = [s \in Scans |-> IF s \in again THEN stalls[s] + 1 ELSE stalls[s]]
        /\ abandoned' = abandoned \cup {s \in working \ again : workPc[s] # "done"}
        /\ workPc' = [s \in Scans |-> "off"]
        /\ workRead' = [s \in Scans |-> "none"]
        /\ ending' = [s \in Scans |-> "none"]
        /\ cancelPc' = [s \in Scans |-> IF cancelPc[s] = "over" THEN "over" ELSE "idle"]
        /\ halfCancelled' = halfCancelled \cup {s \in Scans : Begun(s)}
        /\ startPc' = [s \in Scans |-> IF startPc[s] \in {"new", "over"} THEN startPc[s]
                                        ELSE "failed"]
        /\ startRead' = [s \in Scans |-> NoScan]
        /\ UNCHANGED <<redisVars, events>>

-----------------------------------------------------------------------------
Start(s) == \/ StartRead(s) \/ StartCheck(s) \/ StartLock(s)
            \/ StartStatus(s) \/ StartEnqueue(s)

Cancel(s) == CancelFlag(s) \/ CancelStatus(s) \/ CancelClear(s) \/ CancelUnlock(s)

\* Steps the worker takes unless it loops in its progress reports.
Advance(s) == \/ Take(s) \/ FirstCheck(s) \/ BeginScanning(s)
              \/ ReportWrite(s) \/ Checkpoint(s) \/ LastCheck(s)
              \/ WriteResult(s) \/ Settle(s) \/ ClearActiveLock(s)
              \/ Unlock(s) \/ FinishScan(s) \/ LeaveQueue(s)

ScanNext ==
    \/ \E s \in Scans :
          \/ Start(s) \/ StartFails(s)
          \/ CancelRead(s) \/ Cancel(s) \/ CancelFails(s)
          \/ Advance(s) \/ ReportRead(s) \/ ScanFails(s) \/ HandlerThrows(s)
    \/ Crash

ScanSpec == ScanInit /\ [][ScanNext]_scanVars

\* Requests that have begun go on, and so does the worker: a scan has finitely
\* many files, so that it cannot report progress for ever.
ScanFairness ==
    \A s \in Scans :
       /\ WF_scanVars(startPc[s] # "new" /\ Start(s))
       /\ WF_scanVars(Cancel(s))
       /\ WF_scanVars(Advance(s) /\ workPc[s] # "working")
       /\ SF_scanVars(Checkpoint(s) \/ LastCheck(s))

FairScanSpec == ScanSpec /\ ScanFairness

-----------------------------------------------------------------------------
(* Properties                                                              *)

Enqueued(s) == startPc[s] = "over" /\ status[s] # "none"

Quiet(s) ==
    /\ s \notin waiting /\ workPc[s] = "off"
    /\ cancelPc[s] \in {"idle", "over"}

\* Once nobody works on a scan any more, its status is a terminal one, and the
\* client has got the event of just that status: a cancel, a completion and a
\* failure that race agree in the end on something that was announced.  Two
\* scans are excepted: one whose job ended without its handler (HandleFailure
\* threw, or the job stalled too often); and one left CANCELLED by a cancel
\* request that stopped half way, which the worker settles without a word.
OutcomeAnnounced ==
    \A s \in Scans :
        Enqueued(s) /\ Quiet(s) /\ s \notin abandoned =>
            \/ status[s] \in events[s]
            \/ status[s] = "CANCELLED" /\ s \in halfCancelled

\* Every scan that was enqueued comes to a terminal status for good, whatever
\* cancels, failures and crashes do, half-way cancels included, unless its job
\* ended without its handler.
EveryScanSettles ==
    <>[](\A s \in Scans :
            Enqueued(s) => status[s] \in Terminal \/ s \in abandoned)

\* "A lock must never outlive its scan": no scan keeps the active lock for ever,
\* but for one whose start failed before its job was queued, or whose job ended
\* without its handler.
LockIsReleased ==
    <>[](\A s \in Scans :
            activeLock = s => startPc[s] = "failed" \/ s \in abandoned)

\* ClearActiveLock "can never free a newer scan's lock": it does not hold.
ClearsOnlyOwnLock ==
    [][\A s \in Scans :
          \/ workPc[s] = "unlock" /\ workPc'[s] = "unflag"
          \/ cancelPc[s] = "unlock" /\ cancelPc'[s] = "over"
          => activeLock \in {s, NoScan}]_scanVars

=============================================================================
