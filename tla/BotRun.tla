------------------------------ MODULE BotRun -------------------------------
(***************************************************************************)
(* The queued bot runs of the BaaS: the tables baas_bot_run_queue (work) and *)
(* baas_bot_run (results), and the processes that share them.  In each, one  *)
(* asyncio loop runs the claiming tick, a task per claimed run with its      *)
(* guardian and its abort poll, the timeout scan and the abort requests.     *)
(*                                                                         *)
(* One action is one SQL statement or one await.  Between two awaits a loop  *)
(* runs one coroutine only: while it is Busy nothing else of its process     *)
(* moves, but the other processes and the renewal threads do.  Every run is  *)
(* of one bot.                                                               *)
(***************************************************************************)
EXTENDS DistributedLock, Naturals

CONSTANTS Runs,
          SessionOf,         \* the session each run belongs to
          MaxRunning,        \* the bot's global concurrency limit
          MaxConcurrent,     \* max_concurrent of a process
          MaxQueueDepth,     \* 0: no back pressure
          Mortal,            \* the processes that may die
          MaxAborts,         \* bound on chat.abort calls
          MaxFaults          \* bound on failing statements and calls

ASSUME RunAssumption ==
    /\ SessionOf \in [Runs -> Sessions]
    /\ None \notin Pods \cup Runs
    /\ IsFiniteSet(Pods) /\ Pods # {}
    /\ IsFiniteSet(Runs)
    /\ MaxRunning \in Nat
    /\ MaxConcurrent \in Nat
    /\ MaxQueueDepth \in Nat
    /\ Mortal \subseteq Pods
    /\ MaxAborts \in Nat
    /\ MaxFaults \in Nat

VARIABLES queue,     \* baas_bot_run_queue
          result,    \* the status column of baas_bot_run
          exec,      \* the task of each execution
          tasks,     \* _running_tasks of each process
          room,      \* the tick counted below the limit, and claims next
          scan,      \* the record the timeout scan is at
          abort,     \* the record abort_runs_by_session is at
          overdue,   \* runs past gmt_create + meta.timeout
          up, aborts, faults
(* History, read by no action. *)
VARIABLES told,      \* what BCN was first told of a run
          sends,     \* how often its message was sent, up to 2
          disturbed, \* runs hit by a missed heartbeat, a crash, an outage or a
                     \* failed statement on their queue row
          overtaken, \* runs another process aborted before they wrote RUNNING
          lost       \* runs whose result was not written: the statement failed
                     \* or its writer died

rowVars  == <<queue, result>>
podVars  == <<tasks, room, scan, abort, up>>
history  == <<told, sends, disturbed, overtaken, lost>>
vars     == <<rowVars, exec, podVars, overdue, aborts, faults, history, lockVars>>

Open == {"PENDING", "RUNNING"}
Terminal == {"COMPLETED", "FAILED", "TIME_OUT", "ABORTED"}

Work == [status : {"absent", "DONE"} \cup Open, worker : Pods \cup {None},
         beat : {"none", "fresh", "stale"}, abort : BOOLEAN]
Sync == {"requeuing", "unlocking", "failing", "marking"}
Awaits == {"start", "binding", "sending", "calling", "assured"}
Exec == [phase : {"free", "leaked"} \cup Awaits \cup Sync, pod : Pods \cup {None},
         run : Runs \cup {None}, cancel : BOOLEAN,
         watch : SUBSET {"guardian", "poll"}]
Free == [phase |-> "free", pod |-> None, run |-> None, cancel |-> FALSE, watch |-> {}]
NoScan == [step |-> "none", pod |-> None, run |-> None, ran |-> FALSE]
NoAbort == [step |-> "none", pod |-> None, run |-> None, mine |-> FALSE]

Init ==
    /\ queue = [r \in Runs |-> [status |-> "absent", worker |-> None,
                                beat |-> "none", abort |-> FALSE]]
    /\ result = [r \in Runs |-> "absent"]
    /\ exec = [e \in Execs |-> Free]
    /\ tasks = [p \in Pods |-> [r \in Runs |-> None]]
    /\ room = [p \in Pods |-> FALSE]
    /\ scan = NoScan
    /\ abort = NoAbort
    /\ overdue = {}
    /\ up = [p \in Pods |-> TRUE]
    /\ aborts = 0
    /\ faults = 0
    /\ told = [r \in Runs |-> "none"]
    /\ sends = [r \in Runs |-> 0]
    /\ disturbed = {}
    /\ overtaken = {}
    /\ lost = {}
    /\ LockInit

----------------------------------------------------------------------------
(* The statements on the two tables. *)

InStatus(status) == {r \in Runs : queue[r].status = status}
Owns(p, r) == queue[r].status = "RUNNING" /\ queue[r].worker = p
Pending(w) == [w EXCEPT !.status = "PENDING", !.worker = None, !.beat = "none"]

(* A statement or call fails: one of the bounded number of faults. *)
Fault(fails) == /\ fails => faults < MaxFaults
                /\ faults' = IF fails THEN faults + 1 ELSE faults

Add(set, r, cond) == IF cond THEN set \cup {r} ELSE set

(* Its failure is suppressed wherever it is called. *)
force_done(r, fails) ==
    /\ queue' = IF fails THEN queue
                ELSE [queue EXCEPT ![r].status = IF @ \in Open THEN "DONE" ELSE @]
    /\ disturbed' = Add(disturbed, r, fails)
    /\ Fault(fails)

(* update_result, update_error, update_aborted, update_timeout. *)
Settle(r, status) ==
    result' = [result EXCEPT ![r] = IF @ \in Open THEN status ELSE @]

(* The same where the failure is left behind. *)
TryToSettle(r, status, fails) ==
    /\ IF fails THEN UNCHANGED result ELSE Settle(r, status)
    /\ lost' = Add(lost, r, fails)
    /\ Fault(fails)

----------------------------------------------------------------------------
(* The tasks of a process. *)

ExecsOf(p) == {e \in Execs : exec[e].pod = p}

Busy(p) ==
    \/ room[p]
    \/ \E e \in ExecsOf(p) : exec[e].phase \in Sync
    \/ scan.pod = p /\ scan.step = "marked"
    \/ abort.pod = p

Idle(p) == up[p] /\ ~Busy(p)

At(e, phase) == exec[e].phase = phase
(* The awaited call of e returns. *)
Resumes(e, phase) == At(e, phase) /\ Idle(exec[e].pod) /\ ~exec[e].cancel

GoTo(e, phase) == exec' = [exec EXCEPT ![e].phase = phase]

(* The finally clause of _run_one: forget the run's task, whichever it is. *)
Finish(e) ==
    /\ exec' = [exec EXCEPT ![e] = Free]
    /\ tasks' = [tasks EXCEPT ![exec[e].pod][exec[e].run] = None]

(* task.cancel() on the task registered for the run, if it is not done. *)
_cancel_local_task(p, r) ==
    [e \in Execs |-> IF tasks[p][r] = e /\ exec[e].phase \in Awaits
                     THEN [exec[e] EXCEPT !.cancel = TRUE] ELSE exec[e]]

(* Mutants: runs that have not ended are reported, timeouts are not. *)
TellAny(r, ok) ==
    told' = IF ok /\ told[r] = "none" THEN [told EXCEPT ![r] = result[r]] ELSE told

TellCompleted(r, ok) ==
    told' = IF ok /\ result[r] \in {"COMPLETED", "FAILED"} /\ told[r] = "none"
            THEN [told EXCEPT ![r] = result[r]] ELSE told

(* BcnUplinkCallback: terminal runs only, deduplicated by BCN on the run id. *)
Tell(r, ok) ==
    told' = IF ok /\ result[r] \in Terminal /\ told[r] = "none"
            THEN [told EXCEPT ![r] = result[r]] ELSE told

----------------------------------------------------------------------------
(* Dispatch and claim. *)

Dispatch(r) ==
    /\ queue[r].status = "absent"
    /\ MaxQueueDepth > 0 => Cardinality(InStatus("PENDING")) < MaxQueueDepth
    /\ queue' = [queue EXCEPT ![r].status = "PENDING"]
    /\ result' = [result EXCEPT ![r] = "PENDING"]
    /\ UNCHANGED <<exec, podVars, overdue, aborts, faults, history, lockVars>>

(* Mutant: the limit is checked before the last claim is counted. *)
_count_runningLate == Cardinality(InStatus("RUNNING")) - 1

_count_running == Cardinality(InStatus("RUNNING"))

(* Bound: the holder ids there are. *)
Spare(e) == At(e, "free") /\ Unreferenced(e)

CountRunning(p) ==
    /\ Idle(p)
    /\ Cardinality(ExecsOf(p)) < MaxConcurrent
    /\ _count_running < MaxRunning
    /\ InStatus("PENDING") # {}
    /\ Cardinality({e \in Execs : Spare(e)}) > Cardinality({q \in Pods : room[q]})
    /\ room' = [room EXCEPT ![p] = TRUE]
    /\ UNCHANGED <<rowVars, exec, tasks, scan, abort, up, overdue, aborts, faults,
                   history, lockVars>>

(* Mutant: the update of the candidate does not look at its status. *)
ClaimsAny(r) == queue[r].status \in Open

Claims(r) == queue[r].status = "PENDING"

claim_pending_by_bot(p, r, e) ==
    /\ room[p]
    /\ Claims(r)
    /\ Spare(e)
    /\ room' = [room EXCEPT ![p] = FALSE]
    /\ queue' = [queue EXCEPT ![r].status = "RUNNING", ![r].worker = p, ![r].beat = "fresh"]
    /\ exec' = [exec EXCEPT ![e] = [Free EXCEPT !.phase = "start", !.pod = p, !.run = r]]
    /\ tasks' = [tasks EXCEPT ![p][r] = e]
    /\ UNCHANGED <<result, scan, abort, up, overdue, aborts, faults, history, lockVars>>

(* Every candidate went to another process. *)
ClaimNothing(p) ==
    /\ room[p]
    /\ InStatus("PENDING") = {}
    /\ room' = [room EXCEPT ![p] = FALSE]
    /\ UNCHANGED <<rowVars, exec, tasks, scan, abort, up, overdue, aborts, faults,
                   history, lockVars>>

----------------------------------------------------------------------------
(* _run_one of execution e, on the layers of executors below it. *)

Quiet == UNCHANGED <<room, scan, abort, up, overdue, aborts, overtaken>>
ExecStep == Quiet /\ UNCHANGED tasks
Unharmed == UNCHANGED <<disturbed, lost>>

(* Mutant: a run past its deadline is executed all the same. *)
TimedOutNever(r) == FALSE

TimedOut(r) == r \in overdue

(* Guardian and abort poll start with the task. *)
Begin(e, phase) ==
    exec' = [exec EXCEPT ![e].phase = phase, ![e].watch = {"guardian", "poll"}]

ExpiresAtStart(e, fails) ==
    /\ Resumes(e, "start")
    /\ TimedOut(exec[e].run)
    /\ TryToSettle(exec[e].run, "TIME_OUT", fails)
    /\ Begin(e, IF fails THEN "assured" ELSE "calling")
    /\ ExecStep /\ UNCHANGED <<queue, told, sends, disturbed, lockVars>>

LocksSession(e) ==
    /\ Resumes(e, "start")
    /\ ~TimedOut(exec[e].run)
    /\ acquire_lock(exec[e].pod, SessionOf[exec[e].run], e)
    /\ Begin(e, "binding")
    /\ ExecStep /\ Unharmed /\ UNCHANGED <<rowVars, faults, told, sends>>

FindsSessionBusy(e) ==
    /\ Resumes(e, "start")
    /\ ~TimedOut(exec[e].run)
    /\ ~acquirable(SessionOf[exec[e].run])
    /\ Begin(e, "requeuing")
    /\ ExecStep /\ Unharmed /\ UNCHANGED <<rowVars, faults, told, sends, lockVars>>

_requeue_pending(e, fails) ==
    /\ At(e, "requeuing")
    /\ queue' = IF Owns(exec[e].pod, exec[e].run) /\ ~fails
                THEN [queue EXCEPT ![exec[e].run] = Pending(@)] ELSE queue
    /\ disturbed' = Add(disturbed, exec[e].run, fails)
    /\ Fault(fails)
    /\ Finish(e)
    /\ Quiet /\ UNCHANGED <<result, told, sends, lost, lockVars>>

(* A task cancelled before its first step never enters _run_one: nothing is  *)
(* cleaned up, and _active stays one too high.                                *)
CancelledUnstarted(e) ==
    /\ At(e, "start") /\ exec[e].cancel /\ Idle(exec[e].pod)
    /\ GoTo(e, "leaked")
    /\ ExecStep /\ Unharmed /\ UNCHANGED <<rowVars, faults, told, sends, lockVars>>

(* update_status has no guard. *)
Bind(e) ==
    /\ Resumes(e, "binding")
    /\ result' = [result EXCEPT ![exec[e].run] = "RUNNING"]
    /\ sends' = [sends EXCEPT ![exec[e].run] = IF @ < 2 THEN @ + 1 ELSE @]
    /\ lost' = lost \ {exec[e].run}
    /\ GoTo(e, "sending")
    /\ ExecStep /\ UNCHANGED <<queue, faults, told, disturbed, lockVars>>

BindingMissing(e) ==
    /\ Resumes(e, "binding")
    /\ Settle(exec[e].run, "FAILED")
    /\ GoTo(e, "unlocking")
    /\ ExecStep /\ Unharmed /\ UNCHANGED <<queue, faults, told, sends, lockVars>>

Send(e, out) ==
    /\ Resumes(e, "sending")
    /\ Settle(exec[e].run, out)
    /\ GoTo(e, "unlocking")
    /\ ExecStep /\ Unharmed /\ UNCHANGED <<queue, faults, told, sends, lockVars>>

Unlock(e, fails) ==
    /\ At(e, "unlocking")
    /\ release_lock(exec[e].pod, SessionOf[exec[e].run], e, fails)
    /\ Fault(fails)
    /\ GoTo(e, "calling")
    /\ ExecStep /\ Unharmed /\ UNCHANGED <<rowVars, told, sends>>

(* CancelledError: SerializingExecutor unlocks, ResultGuardExecutor settles. *)
Cancelled(e, fails) ==
    /\ At(e, "binding") \/ At(e, "sending")
    /\ exec[e].cancel /\ Idle(exec[e].pod)
    /\ force_unlock(exec[e].pod, SessionOf[exec[e].run], fails)
    /\ Fault(fails)
    /\ exec' = [exec EXCEPT ![e].phase = "failing", ![e].cancel = FALSE]
    /\ ExecStep /\ Unharmed /\ UNCHANGED <<rowVars, told, sends>>

(* Mutant: the cancelled execution leaves the result alone. *)
_mark_cancelledNot(e, fails) ==
    /\ At(e, "failing")
    /\ Fault(fails)
    /\ GoTo(e, "assured")
    /\ ExecStep /\ Unharmed /\ UNCHANGED <<rowVars, told, sends, lockVars>>

_mark_cancelled(e, fails) ==
    /\ At(e, "failing")
    /\ TryToSettle(exec[e].run, IF exec[e].run \in overdue THEN "TIME_OUT" ELSE "FAILED", fails)
    /\ GoTo(e, "assured")
    /\ ExecStep /\ UNCHANGED <<queue, told, sends, disturbed, lockVars>>

(* The database is out when the binding is found or the answer comes: no     *)
(* write lands and the exception goes through every layer.                    *)
Outage(e) ==
    /\ Resumes(e, "binding") \/ Resumes(e, "sending")
    /\ Fault(TRUE)
    /\ force_unlock(exec[e].pod, SessionOf[exec[e].run], TRUE)
    /\ GoTo(e, "assured")
    /\ disturbed' = disturbed \cup {exec[e].run}
    /\ lost' = lost \cup {exec[e].run}
    /\ ExecStep /\ UNCHANGED <<rowVars, told, sends>>

_post_run(e, ok) ==
    /\ Resumes(e, "calling")
    /\ Tell(exec[e].run, ok)
    /\ Fault(~ok)
    /\ GoTo(e, "marking")
    /\ ExecStep /\ Unharmed /\ UNCHANGED <<rowVars, sends, lockVars>>

PostRunCancelled(e) ==
    /\ At(e, "calling") /\ exec[e].cancel /\ Idle(exec[e].pod)
    /\ exec' = [exec EXCEPT ![e].phase = "assured", ![e].cancel = FALSE]
    /\ ExecStep /\ Unharmed /\ UNCHANGED <<rowVars, faults, told, sends, lockVars>>

_mark_queue_done(e, fails) ==
    /\ At(e, "marking")
    /\ queue' = IF Owns(exec[e].pod, exec[e].run) /\ ~fails
                THEN [queue EXCEPT ![exec[e].run].status = "DONE"] ELSE queue
    /\ disturbed' = Add(disturbed, exec[e].run, fails)
    /\ Fault(fails)
    /\ Finish(e)
    /\ Quiet /\ UNCHANGED <<result, told, sends, lost, lockVars>>

(* The assured callback of the exception path; a second cancel cuts it off. *)
AssuredCallback(e, ok) ==
    /\ At(e, "assured") /\ Idle(exec[e].pod)
    /\ exec[e].cancel => ~ok
    /\ Tell(exec[e].run, ok)
    /\ Fault(~ok /\ ~exec[e].cancel)
    /\ Finish(e)
    /\ Quiet /\ Unharmed /\ UNCHANGED <<rowVars, sends, lockVars>>

----------------------------------------------------------------------------
(* What watches an execution: its guardian and its abort poll. *)

Watched(e, w) == w \in exec[e].watch /\ Idle(exec[e].pod)

touch_heartbeat(e) ==
    /\ Watched(e, "guardian")
    /\ Owns(exec[e].pod, exec[e].run)
    /\ queue[exec[e].run].beat = "stale"
    /\ queue' = [queue EXCEPT ![exec[e].run].beat = "fresh"]
    /\ UNCHANGED <<result, exec, podVars, overdue, aborts, faults, history, lockVars>>

(* The callback of the guardian may itself be cut off by the task's end. *)
_terminate_local_timeout(e, ok, fails) ==
    /\ Watched(e, "guardian")
    /\ exec[e].run \in overdue
    /\ exec' = [_cancel_local_task(exec[e].pod, exec[e].run)
                  EXCEPT ![e].watch = @ \ {"guardian"}]
    /\ force_done(exec[e].run, fails)
    /\ Tell(exec[e].run, ok)
    /\ ExecStep /\ UNCHANGED <<result, sends, lost, lockVars>>

_abort_poll_loop(e, fails) ==
    /\ Watched(e, "poll")
    /\ queue[exec[e].run].abort
    /\ exec' = [exec EXCEPT ![e].watch = @ \ {"poll"}, ![e].cancel = TRUE]
    /\ force_done(exec[e].run, fails)
    /\ ExecStep /\ UNCHANGED <<result, told, sends, lost, lockVars>>

----------------------------------------------------------------------------
(* abort_runs_by_session in process p, one RUNNING record at a time.  Each   *)
(* of its three statements may fail; the next one is run all the same.        *)

AbortStep == UNCHANGED <<tasks, room, scan, up, overdue, told, sends, lockVars>>

AbortFinds(p, r) ==
    /\ Idle(p)
    /\ abort = NoAbort          \* bound: one call at a time
    /\ aborts < MaxAborts
    /\ queue[r].status = "RUNNING"
    /\ abort' = [step |-> "found", pod |-> p, run |-> r, mine |-> queue[r].worker = p]
    /\ aborts' = aborts + 1
    /\ AbortStep /\ Unharmed /\ UNCHANGED <<rowVars, exec, faults, overtaken>>

(* Some execution of the run is past update_status, or will not reach it. *)
Under(r) == \E e \in Execs : /\ exec[e].run = r
                             /\ exec[e].phase \notin {"start", "requeuing", "binding"}

AbortMarks(fails) ==
    /\ abort.step = "found"
    /\ TryToSettle(abort.run, "ABORTED", fails)
    /\ overtaken' = Add(overtaken, abort.run, ~fails /\ ~abort.mine /\ ~Under(abort.run))
    /\ abort' = [abort EXCEPT !.step = "marked"]
    /\ AbortStep /\ UNCHANGED <<queue, exec, aborts, disturbed>>

request_abort(fails) ==
    /\ abort.step = "marked"
    /\ queue' = IF fails THEN queue ELSE [queue EXCEPT ![abort.run].abort = TRUE]
    /\ disturbed' = Add(disturbed, abort.run, fails)
    /\ Fault(fails)
    /\ abort' = [abort EXCEPT !.step = "requested"]
    /\ AbortStep /\ UNCHANGED <<result, exec, aborts, overtaken, lost>>

(* Mutants: the row is left to the execution; its local task is left alone. *)
AbortEndsOpen(fails) ==
    /\ abort.step = "requested"
    /\ exec' = IF abort.mine THEN _cancel_local_task(abort.pod, abort.run) ELSE exec
    /\ abort' = NoAbort
    /\ Fault(fails)
    /\ AbortStep /\ Unharmed /\ UNCHANGED <<rowVars, aborts, overtaken>>

AbortEndsUncancelled(fails) ==
    /\ abort.step = "requested"
    /\ force_done(abort.run, fails)
    /\ abort' = NoAbort
    /\ AbortStep /\ UNCHANGED <<result, exec, aborts, overtaken, lost>>

AbortEnds(fails) ==
    /\ abort.step = "requested"
    /\ force_done(abort.run, fails)
    /\ exec' = IF abort.mine THEN _cancel_local_task(abort.pod, abort.run) ELSE exec
    /\ abort' = NoAbort
    /\ AbortStep /\ UNCHANGED <<result, aborts, overtaken, lost>>

----------------------------------------------------------------------------
(* The timeout scan, one process at a time under its own lock.  Its list of  *)
(* records is a snapshot: the loop may have run other tasks since.           *)

ScanStep == UNCHANGED <<exec, tasks, room, abort, up, overdue, aborts, sends, overtaken,
                        lockVars>>

(* Mutant: RUNNING rows of dead workers are left to the recovery task. *)
scan_timeoutPending(p, r) ==
    /\ Idle(p)
    /\ scan = NoScan
    /\ r \in overdue
    /\ queue[r].status = "PENDING"
    /\ scan' = [step |-> "found", pod |-> p, run |-> r, ran |-> queue[r].status = "RUNNING"]
    /\ ScanStep /\ Unharmed /\ UNCHANGED <<rowVars, faults, told>>

scan_timeout(p, r) ==
    /\ Idle(p)
    /\ scan = NoScan
    /\ r \in overdue
    /\ \/ queue[r].status = "PENDING"
       \/ queue[r].status = "RUNNING" /\ queue[r].beat = "stale"
    /\ scan' = [step |-> "found", pod |-> p, run |-> r, ran |-> queue[r].status = "RUNNING"]
    /\ ScanStep /\ Unharmed /\ UNCHANGED <<rowVars, faults, told>>

(* For a RUNNING record the failure is suppressed and the row closed all the *)
(* same; for a PENDING one it ends the scan and the row stays.                *)
ScanMarks(fails) ==
    /\ scan.step = "found" /\ Idle(scan.pod)
    /\ IF fails THEN UNCHANGED result ELSE Settle(scan.run, "TIME_OUT")
    /\ scan' = IF fails /\ ~scan.ran THEN NoScan ELSE [scan EXCEPT !.step = "marked"]
    /\ lost' = Add(lost, scan.run, fails /\ scan.ran)
    /\ Fault(fails)
    /\ ScanStep /\ UNCHANGED <<queue, told, disturbed>>

ScanEnds(fails) ==
    /\ scan.step = "marked"
    /\ force_done(scan.run, fails)
    /\ scan' = [scan EXCEPT !.step = "done"]
    /\ ScanStep /\ UNCHANGED <<result, told, lost>>

_fire_timeout_callback(ok) ==
    /\ scan.step = "done" /\ Idle(scan.pod)
    /\ Tell(scan.run, ok)
    /\ Fault(~ok)
    /\ scan' = NoScan
    /\ ScanStep /\ Unharmed /\ UNCHANGED rowVars

----------------------------------------------------------------------------
(* The recovery task, time, and what goes wrong. *)

Environment == UNCHANGED <<exec, podVars, aborts, told, sends, overtaken, lost>>

reset_stale_running ==
    /\ \E r \in Runs : queue[r].status = "RUNNING" /\ queue[r].beat = "stale"
    /\ queue' = [r \in Runs |-> IF queue[r].status = "RUNNING" /\ queue[r].beat = "stale"
                                THEN Pending(queue[r]) ELSE queue[r]]
    /\ Environment /\ UNCHANGED <<result, overdue, faults, disturbed, lockVars>>

(* stale_seconds without a heartbeat: normal once nobody beats for the run,  *)
(* a fault while its guardian lives.                                         *)
Beating(r) == \E e \in Execs : /\ exec[e].run = r /\ Owns(exec[e].pod, r)
                               /\ "guardian" \in exec[e].watch \/ At(e, "start")

GoesStale(r) ==
    /\ queue[r].status = "RUNNING" /\ queue[r].beat = "fresh"
    /\ Fault(Beating(r))
    /\ queue' = [queue EXCEPT ![r].beat = "stale"]
    /\ disturbed' = Add(disturbed, r, Beating(r))
    /\ Environment /\ UNCHANGED <<result, overdue, lockVars>>

DeadlinePasses(r) ==
    /\ r \notin overdue
    /\ queue[r].status \in Open \/ \E e \in Execs : exec[e].run = r
    /\ overdue' = overdue \cup {r}
    /\ Environment /\ UNCHANGED <<rowVars, faults, disturbed, lockVars>>

(* The holder of the row still works under it. *)
Holding(s) == \E e \in Execs : /\ lock[s].holder = e
                               /\ exec[e].phase \in {"binding", "sending", "unlocking"}

SessionLockStep(s) ==
    /\ \/ LockExpires(s, Holding(s)) /\ UNCHANGED faults
       \/ \E p \in Pods, e \in Execs, fails \in BOOLEAN :
             RenewEnds(p, s, e, fails) /\ Fault(fails)
    /\ Environment /\ UNCHANGED <<rowVars, overdue, disturbed>>

ReapLocks ==
    /\ _reap_orphan_session_locks
    /\ Environment /\ UNCHANGED <<rowVars, overdue, faults, disturbed>>

Crash(p) ==
    LET hit == {exec[e].run : e \in ExecsOf(p)}
               \cup (IF scan.pod = p THEN {scan.run} ELSE {})
               \cup (IF abort.pod = p THEN {abort.run} ELSE {}) IN
    /\ p \in Mortal /\ up[p]
    /\ up' = [up EXCEPT ![p] = FALSE]
    /\ exec' = [e \in Execs |-> IF exec[e].pod = p THEN Free ELSE exec[e]]
    /\ tasks' = [tasks EXCEPT ![p] = [r \in Runs |-> None]]
    /\ room' = [room EXCEPT ![p] = FALSE]
    /\ scan' = IF scan.pod = p THEN NoScan ELSE scan
    /\ abort' = IF abort.pod = p THEN NoAbort ELSE abort
    /\ disturbed' = disturbed \cup hit
    /\ lost' = lost \cup {r \in hit : result[r] \in Open}
    /\ LockCrash(p)
    /\ UNCHANGED <<rowVars, overdue, aborts, faults, told, sends, overtaken>>

----------------------------------------------------------------------------
TaskStep(e) ==
    \/ LocksSession(e) \/ FindsSessionBusy(e) \/ CancelledUnstarted(e) \/ PostRunCancelled(e)
    \/ \E fails \in BOOLEAN :
         \/ ExpiresAtStart(e, fails) \/ _requeue_pending(e, fails) \/ Unlock(e, fails)
         \/ Cancelled(e, fails) \/ _mark_cancelled(e, fails) \/ _mark_queue_done(e, fails)
    \/ \E ok \in BOOLEAN : _post_run(e, ok) \/ AssuredCallback(e, ok)

(* The calls whose duration nothing bounds but the deadline. *)
BotAnswers(e) ==
    \/ Bind(e) \/ BindingMissing(e) \/ Outage(e)
    \/ \E out \in {"COMPLETED", "FAILED", "TIME_OUT"} : Send(e, out)

WatchStep(e) ==
    \/ touch_heartbeat(e)
    \/ \E fails \in BOOLEAN : _abort_poll_loop(e, fails)
    \/ \E ok, fails \in BOOLEAN : _terminate_local_timeout(e, ok, fails)

TickStep(p) ==
    \/ CountRunning(p) \/ ClaimNothing(p)
    \/ \E r \in Runs, e \in Execs : claim_pending_by_bot(p, r, e)

AbortRecord == \E fails \in BOOLEAN : AbortMarks(fails) \/ request_abort(fails) \/ AbortEnds(fails)

ScanRecord ==
    \/ \E p \in Pods, r \in Runs : scan_timeout(p, r)
    \/ \E fails \in BOOLEAN : ScanMarks(fails) \/ ScanEnds(fails)
    \/ \E ok \in BOOLEAN : _fire_timeout_callback(ok)

Next ==
    \/ \E e \in Execs : TaskStep(e) \/ BotAnswers(e) \/ WatchStep(e)
    \/ \E p \in Pods : TickStep(p) \/ Crash(p) \/ \E r \in Runs : AbortFinds(p, r)
    \/ AbortRecord \/ ScanRecord \/ reset_stale_running \/ ReapLocks
    \/ \E r \in Runs : Dispatch(r) \/ GoesStale(r) \/ DeadlinePasses(r)
    \/ \E s \in Sessions : SessionLockStep(s)

Spec == Init /\ [][Next]_vars

(* The loops of the living processes turn, time passes and the periodic jobs *)
(* run.  No bot is assumed to answer, and no fault or abort to happen.       *)
FairSpec ==
    /\ Spec
    /\ \A e \in Execs : WF_vars(TaskStep(e)) /\ WF_vars(WatchStep(e))
    /\ \A p \in Pods : WF_vars(TickStep(p))
    /\ WF_vars(AbortRecord) /\ WF_vars(ScanRecord)
    /\ \A r \in Runs : WF_vars(DeadlinePasses(r)) /\ WF_vars(GoesStale(r) /\ ~Beating(r))
=============================================================================
