----------------------------- MODULE TaskWorker -----------------------------
(***************************************************************************)
(* The pods of the backend that share one ac_task_queue: in each, the loop  *)
(* of TaskWorker that claims and runs tasks, the WorkerWakeup latch that    *)
(* ends its idle wait, and TaskQueueService.enqueue, callable by any thread *)
(* of the pod at any time.                                                  *)
(*                                                                         *)
(* One action is one SQL statement, one await or one thread hand-over: what *)
(* can come between two of them here can come between them in the program.  *)
(* A pod that stops is gone for good, because its worker id is never used   *)
(* again; the lease it leaves behind is all that is known of it.            *)
(***************************************************************************)
EXTENDS TaskQueue

CONSTANTS AppOf,            \* the app each pod is deployed for
          Registered,       \* the types with a handler
          GivesUpTypes,     \* ... whose handler has an on_give_up hook
          WakeTypes,        \* ... registered with wake_on_enqueue
          Batch,            \* batch_size
          MaxConcurrency,   \* max_concurrency
          BackoffMin, BackoffMax,
          PollDelays,       \* the delays handlers reschedule with
          Delays, Deadlines,\* the durations callers enqueue with
          KeyedInsertAttempts,
          Callers,          \* the pods whose threads enqueue
          Mortal,           \* the pods that may stop
          MaxFaults         \* bound on failing statements

ASSUME WorkerAssumption ==
    /\ AppOf \in [Workers -> Apps]
    /\ Registered \subseteq Types
    /\ GivesUpTypes \subseteq Registered
    /\ WakeTypes \subseteq Registered
    /\ Batch \in Nat \ {0}
    /\ MaxConcurrency \in Nat \ {0}
    /\ BackoffMin \in Nat
    /\ BackoffMax \in Nat
    /\ PollDelays \subseteq Nat
    /\ Delays \subseteq Nat
    /\ Deadlines \subseteq Nat
    /\ KeyedInsertAttempts \in Nat \ {0}
    /\ Callers \subseteq Workers
    /\ Mortal \subseteq Workers
    /\ MaxFaults \in Nat

VARIABLES pc,        \* where each pod's _loop stands
          cand,      \* ids its claim scan read and has not tried yet
          retired,   \* tasks it retired at claim time, hook not run yet
          won,       \* how many tasks its poll claimed
          jobs,      \* the coroutine it runs for each task
          call,      \* the enqueue in progress in the pod
          signal,    \* event.set is queued on its loop
          latch,     \* its event is set
          faults
(* History, read by no action. *)
VARIABLES ender,     \* the pod that made the terminal transition of a task
          hookedBy,  \* the pods whose give-up hook ran for a task
          lapsed,    \* tasks whose lease has run out under its holder
          owed       \* pods signalled since their last claim scan

loopVars == <<pc, cand, retired, won, jobs>>
wakeVars == <<signal, latch, owed>>
history  == <<ender, hookedBy, lapsed>>
vars     == <<rows, loopVars, call, wakeVars, faults, history>>

NoJob == [phase |-> "none", attempt |-> 0, beat |-> "on", out |-> "none",
          delay |-> 0]
NoCall == [step |-> "none"]

Job == [phase   : {"none", "waiting", "handling", "writing", "reading", "hook"},
        attempt : Nat,
        beat    : {"on", "lost", "broken"},
        out     : {"none", "complete", "fail", "repend"},
        delay   : Nat]

Call == [step : {"none"}]
        \cup [step : {"insert", "lookup", "stranded", "created"}, type : Types,
              key : Keys \cup {NoKey}, delay : Delays, deadline : Deadlines,
              tries : Nat \ {0}]

Blank == [status |-> "absent", app |-> CHOOSE a \in Apps : TRUE,
          type |-> CHOOSE y \in Types : TRUE, key |-> NoKey, active |-> NoKey,
          due |-> 0, deadline |-> 0, lease |-> Null, by |-> NoWorker,
          attempts |-> 0]

Init ==
    /\ rows = [t \in Tasks |-> Blank]
    /\ pc = [w \in Workers |-> "off"]
    /\ cand = [w \in Workers |-> {}]
    /\ retired = [w \in Workers |-> {}]
    /\ won = [w \in Workers |-> 0]
    /\ jobs = [w \in Workers |-> [t \in Tasks |-> NoJob]]
    /\ call = [w \in Workers |-> NoCall]
    /\ signal = [w \in Workers |-> FALSE]
    /\ latch = [w \in Workers |-> FALSE]
    /\ faults = 0
    /\ ender = [t \in Tasks |-> NoWorker]
    /\ hookedBy = [t \in Tasks |-> {}]
    /\ lapsed = {}
    /\ owed = [w \in Workers |-> FALSE]

----------------------------------------------------------------------------
(* The loop: poll, run the batch, then poll again or wait. *)

Up(w) == pc[w] \notin {"off", "gone"}

Boot(w) ==
    /\ pc[w] = "off"
    /\ pc' = [pc EXCEPT ![w] = "idle"]
    /\ UNCHANGED <<rows, cand, retired, won, jobs, call, wakeVars, faults, history>>

Scan(w) ==
    /\ pc[w] = "idle"
    /\ \E S \in _read_candidates(AppOf[w], Batch) : cand' = [cand EXCEPT ![w] = S]
    /\ pc' = [pc EXCEPT ![w] = "claiming"]
    /\ owed' = [owed EXCEPT ![w] = FALSE]
    /\ UNCHANGED <<rows, retired, won, jobs, call, signal, latch, faults, history>>

(* The two guarded updates of a candidate: claim it, or retire it. *)
Claimable(r, app) == _eligible(r, app) /\ r.deadline > 0
Overdue(r, app)   == _eligible(r, app) /\ r.deadline = 0

Claim(w, t) ==
    /\ rows' = [rows EXCEPT ![t] = Claimed(@, w)]
    /\ jobs' = [jobs EXCEPT ![w][t] = [NoJob EXCEPT !.phase = "waiting",
                                                   !.attempt = rows[t].attempts + 1]]
    /\ won' = [won EXCEPT ![w] = @ + 1]
    /\ UNCHANGED <<retired, ender>>

Retire(w, t) ==
    /\ rows' = [rows EXCEPT ![t] = Ended(@, "TIMED_OUT")]
    /\ ender' = [ender EXCEPT ![t] = w]
    /\ retired' = IF rows[t].type \in GivesUpTypes
                  THEN [retired EXCEPT ![w] = @ \cup {t}] ELSE retired
    /\ UNCHANGED <<jobs, won>>

ClaimRow(w, t) ==
    /\ pc[w] = "claiming"
    /\ t \in cand[w]
    /\ cand' = [cand EXCEPT ![w] = @ \ {t}]
    /\ \/ Claimable(rows[t], AppOf[w]) /\ Claim(w, t)
       \/ Overdue(rows[t], AppOf[w]) /\ Retire(w, t)
       \/ ~_eligible(rows[t], AppOf[w]) /\ UNCHANGED <<rows, jobs, won, retired, ender>>
    /\ UNCHANGED <<pc, call, wakeVars, faults, hookedBy, lapsed>>

(* A statement of the poll fails: rows already won stay RUNNING with no job,  *)
(* retired ones get no hook, and _loop goes to wait.                          *)
ClaimFault(w) ==
    /\ pc[w] = "claiming"
    /\ faults < MaxFaults
    /\ faults' = faults + 1
    /\ pc' = [pc EXCEPT ![w] = "sleeping"]
    /\ cand' = [cand EXCEPT ![w] = {}]
    /\ retired' = [retired EXCEPT ![w] = {}]
    /\ won' = [won EXCEPT ![w] = 0]
    /\ jobs' = [jobs EXCEPT ![w] = [t \in Tasks |-> NoJob]]
    /\ UNCHANGED <<rows, call, wakeVars, history>>

(* run_once gives up on the retired tasks one by one, then starts the batch. *)
GiveUpRetired(w, t) ==
    /\ pc[w] = "claiming"
    /\ cand[w] = {}
    /\ t \in retired[w]
    /\ retired' = [retired EXCEPT ![w] = @ \ {t}]
    /\ hookedBy' = [hookedBy EXCEPT ![t] = @ \cup {w}]
    /\ UNCHANGED <<rows, pc, cand, won, jobs, call, wakeVars, faults, ender, lapsed>>

BeginBatch(w) ==
    /\ pc[w] = "claiming"
    /\ cand[w] = {}
    /\ retired[w] = {}
    /\ pc' = [pc EXCEPT ![w] = "running"]
    /\ UNCHANGED <<rows, cand, retired, won, jobs, call, wakeVars, faults, history>>

(* Mutant: the event is cleared before the wait instead of after it. *)
BatchDoneClearing(w) ==
    /\ pc[w] = "running"
    /\ \A t \in Tasks : jobs[w][t].phase = "none"
    /\ pc' = [pc EXCEPT ![w] = IF won[w] >= Batch THEN "idle" ELSE "sleeping"]
    /\ won' = [won EXCEPT ![w] = 0]
    /\ latch' = [latch EXCEPT ![w] = FALSE]
    /\ UNCHANGED <<rows, cand, retired, jobs, call, signal, owed, faults, history>>

(* The gather returns; a full batch is polled for again at once. *)
BatchDone(w) ==
    /\ pc[w] = "running"
    /\ \A t \in Tasks : jobs[w][t].phase = "none"
    /\ pc' = [pc EXCEPT ![w] = IF won[w] >= Batch THEN "idle" ELSE "sleeping"]
    /\ won' = [won EXCEPT ![w] = 0]
    /\ UNCHANGED <<rows, cand, retired, jobs, call, wakeVars, faults, history>>

(* WorkerWakeup.wait returns, signalled or timed out, and clears the event. *)
Wake(w) ==
    /\ pc[w] = "sleeping"
    /\ pc' = [pc EXCEPT ![w] = "idle"]
    /\ latch' = [latch EXCEPT ![w] = FALSE]
    /\ UNCHANGED <<rows, cand, retired, won, jobs, call, signal, owed, faults, history>>

Stop(w) ==
    /\ w \in Mortal
    /\ pc[w] # "gone"
    /\ pc' = [pc EXCEPT ![w] = "gone"]
    /\ cand' = [cand EXCEPT ![w] = {}]
    /\ retired' = [retired EXCEPT ![w] = {}]
    /\ won' = [won EXCEPT ![w] = 0]
    /\ jobs' = [jobs EXCEPT ![w] = [t \in Tasks |-> NoJob]]
    /\ call' = [call EXCEPT ![w] = NoCall]
    /\ signal' = [signal EXCEPT ![w] = FALSE]
    /\ latch' = [latch EXCEPT ![w] = FALSE]
    /\ owed' = [owed EXCEPT ![w] = FALSE]
    /\ UNCHANGED <<rows, faults, history>>

----------------------------------------------------------------------------
(* One claimed task: wait for a slot, run the handler beside a heartbeat,    *)
(* write the outcome, and give up where the queue gave up.                   *)

SetJob(w, t, j) == jobs' = [jobs EXCEPT ![w][t] = j]

(* The coroutine is at `phase', and only rows, jobs and what the action names move. *)
At(w, t, phase) == pc[w] = "running" /\ jobs[w][t].phase = phase
JobStep == UNCHANGED <<pc, cand, retired, won, call, wakeVars, lapsed>>

InSlot(w) == {t \in Tasks : jobs[w][t].phase \notin {"none", "waiting"}}

StartHandler(w, t) ==
    /\ At(w, t, "waiting")
    /\ Cardinality(InSlot(w)) < MaxConcurrency
    /\ SetJob(w, t, IF rows[t].type \in Registered
                    THEN [jobs[w][t] EXCEPT !.phase = "handling"]
                    ELSE [jobs[w][t] EXCEPT !.phase = "writing", !.out = "fail"])
    /\ JobStep /\ UNCHANGED <<rows, faults, ender, hookedBy>>

Heartbeat(w, t) ==
    /\ At(w, t, "handling")
    /\ jobs[w][t].beat = "on"
    /\ \/ /\ _holder_filter(rows[t], w)
          /\ rows' = [rows EXCEPT ![t] = Renewed(@)]
          /\ UNCHANGED jobs
       \/ /\ ~_holder_filter(rows[t], w)
          /\ SetJob(w, t, [jobs[w][t] EXCEPT !.beat = "lost"])
          /\ UNCHANGED rows
    /\ JobStep /\ UNCHANGED <<faults, ender, hookedBy>>

(* renew_lease raises: the heartbeat task ends with the exception. *)
HeartbeatFault(w, t) ==
    /\ At(w, t, "handling")
    /\ jobs[w][t].beat = "on"
    /\ faults < MaxFaults
    /\ faults' = faults + 1
    /\ SetJob(w, t, [jobs[w][t] EXCEPT !.beat = "broken"])
    /\ JobStep /\ UNCHANGED <<rows, ender, hookedBy>>

_backoff(attempts) ==
    LET d == BackoffMin * 2^(IF attempts > 1 THEN attempts - 1 ELSE 0)
    IN  IF d < BackoffMax THEN d ELSE BackoffMax

(* What a handler can leave to write; raising is a Retry. *)
Outcome(out, delay, attempt) ==
    \/ out \in {"complete", "fail"} /\ delay = 0
    \/ out = "repend" /\ (delay \in PollDelays \/ delay = _backoff(attempt))

(* `await heartbeat' re-raises what ended it: the outcome is then dropped. *)
HandlerReturns(w, t, out, delay) ==
    /\ At(w, t, "handling")
    /\ Outcome(out, delay, jobs[w][t].attempt)
    /\ SetJob(w, t, IF jobs[w][t].beat = "broken" THEN NoJob
                    ELSE [jobs[w][t] EXCEPT !.phase = "writing", !.out = out,
                                            !.delay = delay])
    /\ JobStep /\ UNCHANGED <<rows, faults, ender, hookedBy>>

(* The row complete, fail or reschedule leaves. *)
Written(r, j) == CASE j.out = "complete" -> Ended(r, "SUCCEEDED")
                   [] j.out = "fail"     -> Ended(r, "FAILED")
                   [] OTHER              -> Rescheduled(r, j.delay)

(* Mutant: the outcome is written by task id alone. *)
WriteOutcomeUnguarded(w, t) ==
    /\ rows' = [rows EXCEPT ![t] = Written(@, jobs[w][t])]
    /\ ender' = IF rows'[t].status \in TERMINAL_STATUSES
                THEN [ender EXCEPT ![t] = w] ELSE ender

(* The holder-guarded statement of the outcome, on the row of a holder. *)
WriteOutcome(w, t) ==
    /\ _holder_filter(rows[t], w)
    /\ rows' = [rows EXCEPT ![t] = Written(@, jobs[w][t])]
    /\ ender' = IF rows'[t].status \in TERMINAL_STATUSES
                THEN [ender EXCEPT ![t] = w] ELSE ender

(* Mutant: a reschedule is taken to have re-pended the task. *)
AfterWriteTrusting(t, j) ==
    IF rows[t].type \notin GivesUpTypes \/ j.out # "fail" THEN NoJob
    ELSE [NoJob EXCEPT !.phase = "hook"]

(* After a write that took: a failed task is given up on, a rescheduled one   *)
(* whose type has a hook is read back.                                        *)
AfterWrite(t, j) ==
    IF rows[t].type \notin GivesUpTypes \/ j.out = "complete" THEN NoJob
    ELSE [NoJob EXCEPT !.phase = IF j.out = "fail" THEN "hook" ELSE "reading"]

_apply(w, t) ==
    /\ At(w, t, "writing")
    /\ WriteOutcome(w, t)
    /\ SetJob(w, t, AfterWrite(t, jobs[w][t]))
    /\ JobStep /\ UNCHANGED <<faults, hookedBy>>

(* The predicate matches nothing: the claim was lost. *)
ApplyLost(w, t) ==
    /\ At(w, t, "writing")
    /\ ~_holder_filter(rows[t], w)
    /\ SetJob(w, t, NoJob)
    /\ JobStep /\ UNCHANGED <<rows, faults, ender, hookedBy>>

(* Mutant: the record read back is not looked at. *)
ReadBackBlindly(w, t) ==
    /\ At(w, t, "reading")
    /\ SetJob(w, t, [jobs[w][t] EXCEPT !.phase = "hook"])
    /\ JobStep /\ UNCHANGED <<rows, faults, ender, hookedBy>>

ReadBack(w, t) ==
    /\ At(w, t, "reading")
    /\ SetJob(w, t, IF rows[t].status = "TIMED_OUT"
                    THEN [jobs[w][t] EXCEPT !.phase = "hook"] ELSE NoJob)
    /\ JobStep /\ UNCHANGED <<rows, faults, ender, hookedBy>>

_give_up(w, t) ==
    /\ At(w, t, "hook")
    /\ SetJob(w, t, NoJob)
    /\ hookedBy' = [hookedBy EXCEPT ![t] = @ \cup {w}]
    /\ JobStep /\ UNCHANGED <<rows, faults, ender>>

(* A statement of _apply raises, whether or not the database carried it out. *)
ApplyFault(w, t) ==
    /\ At(w, t, "writing") \/ At(w, t, "reading")
    /\ faults < MaxFaults
    /\ faults' = faults + 1
    /\ SetJob(w, t, NoJob)
    /\ \/ UNCHANGED <<rows, ender>>
       \/ At(w, t, "writing") /\ WriteOutcome(w, t)
    /\ JobStep /\ UNCHANGED hookedBy

----------------------------------------------------------------------------
(* TaskQueueService.enqueue in pod w. *)

CallStep == UNCHANGED <<loopVars, faults, history>>

Enqueue(w, type, key, delay, deadline) ==
    /\ w \in Callers
    /\ pc[w] # "gone"
    /\ call[w] = NoCall
    /\ \E t \in Tasks : rows[t].status = "absent"      \* bound: the rows there are
    /\ call' = [call EXCEPT ![w] = [step |-> "insert", type |-> type, key |-> key,
                                   delay |-> delay, deadline |-> deadline,
                                   tries |-> KeyedInsertAttempts]]
    /\ CallStep /\ UNCHANGED <<rows, wakeVars>>

_should_wake(c) == c.type \in WakeTypes /\ c.delay = 0

_insert(w, t) ==
    LET c == call[w] IN
    /\ c.step = "insert"
    /\ rows[t].status = "absent"
    /\ ~_is_active_idem_conflict(AppOf[w], c.type, c.key)
    /\ rows' = [rows EXCEPT ![t] = New(AppOf[w], c.type, c.key, c.delay, c.deadline)]
    /\ call' = [call EXCEPT ![w] = IF _should_wake(c)
                                   THEN [c EXCEPT !.step = "created"] ELSE NoCall]
    /\ CallStep /\ UNCHANGED wakeVars

InsertConflict(w) ==
    /\ call[w].step = "insert"
    /\ _is_active_idem_conflict(AppOf[w], call[w].type, call[w].key)
    /\ call' = [call EXCEPT ![w].step = "lookup"]
    /\ CallStep /\ UNCHANGED <<rows, wakeVars>>

(* The live holder is the answer; without one, look for a stranded key. *)
Lookup(w) ==
    LET c == call[w] IN
    /\ c.step = "lookup"
    /\ call' = [call EXCEPT ![w] = IF _find_active_by_key(AppOf[w], c.type, c.key) # {}
                                   THEN NoCall ELSE [c EXCEPT !.step = "stranded"]]
    /\ CallStep /\ UNCHANGED <<rows, wakeVars>>

(* A stranded key, and the last attempt, end the call with an error. *)
CheckStranded(w) ==
    LET c == call[w] IN
    /\ c.step = "stranded"
    /\ call' = [call EXCEPT ![w] =
                  IF _find_stranded_key_holder(AppOf[w], c.type, c.key) # {} \/ c.tries = 1
                  THEN NoCall ELSE [c EXCEPT !.step = "insert", !.tries = @ - 1]]
    /\ CallStep /\ UNCHANGED <<rows, wakeVars>>

(* notify: queue event.set on the loop, if one is bound. *)
Notify(w) ==
    /\ call[w].step = "created"
    /\ call' = [call EXCEPT ![w] = NoCall]
    /\ signal' = [signal EXCEPT ![w] = Up(w)]
    /\ owed' = [owed EXCEPT ![w] = Up(w)]
    /\ CallStep /\ UNCHANGED <<rows, latch>>

(* The loop runs the queued event.set. *)
Deliver(w) ==
    /\ signal[w]
    /\ signal' = [signal EXCEPT ![w] = FALSE]
    /\ latch' = [latch EXCEPT ![w] = TRUE]
    /\ CallStep /\ UNCHANGED <<rows, call, owed>>

----------------------------------------------------------------------------
(* One second of the database clock. *)
Tick ==
    /\ \E t \in Tasks : Aged(rows[t]) # rows[t]
    /\ rows' = [t \in Tasks |-> Aged(rows[t])]
    /\ lapsed' = lapsed \cup {t \in Tasks : rows[t].lease = 1}
    /\ UNCHANGED <<loopVars, call, wakeVars, faults, ender, hookedBy>>
----------------------------------------------------------------------------
LoopStep(w) ==
    \/ Boot(w) \/ Scan(w) \/ BeginBatch(w) \/ BatchDone(w) \/ Wake(w)
    \/ \E t \in Tasks : ClaimRow(w, t) \/ GiveUpRetired(w, t)

RunStep(w) ==
    \E t \in Tasks :
       \/ StartHandler(w, t)
       \/ \E out \in {"complete", "fail", "repend"}, delay \in PollDelays \cup 0..BackoffMax :
             HandlerReturns(w, t, out, delay)
       \/ _apply(w, t) \/ ApplyLost(w, t) \/ ReadBack(w, t) \/ _give_up(w, t)

AnswerStep(w) ==
    \/ \E t \in Tasks : _insert(w, t)
    \/ InsertConflict(w) \/ Lookup(w) \/ CheckStranded(w) \/ Notify(w)

FaultStep(w) ==
    \/ ClaimFault(w) \/ Stop(w)
    \/ \E t \in Tasks : HeartbeatFault(w, t) \/ ApplyFault(w, t)

SubmitStep(w) ==
    \E type \in Types, key \in Keys \cup {NoKey}, delay \in Delays, deadline \in Deadlines :
       Enqueue(w, type, key, delay, deadline)

Next ==
    \/ \E w \in Workers : \/ LoopStep(w) \/ RunStep(w) \/ AnswerStep(w) \/ FaultStep(w)
                          \/ SubmitStep(w) \/ Deliver(w)
                          \/ \E t \in Tasks : Heartbeat(w, t)
    \/ Tick

Spec == Init /\ [][Next]_vars

(* The clock advances, and a pod that is up keeps running its event loop, its *)
(* handlers and its calls.  Nothing is assumed of faults or heartbeats.       *)
FairSpec ==
    /\ Spec
    /\ WF_vars(Tick)
    /\ \A w \in Workers : WF_vars(LoopStep(w) \/ RunStep(w)) /\ WF_vars(AnswerStep(w))
=============================================================================
