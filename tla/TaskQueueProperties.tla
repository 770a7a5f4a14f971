------------------------ MODULE TaskQueueProperties ------------------------
(* What the task queue is relied on for, and how the pods implement WorkSlots. *)
EXTENDS TaskWorker

TypeOK ==
    /\ rows \in [Tasks -> Row]
    /\ pc \in [Workers -> {"off", "idle", "claiming", "running", "sleeping", "gone"}]
    /\ cand \in [Workers -> SUBSET Tasks]
    /\ retired \in [Workers -> SUBSET Tasks]
    /\ won \in [Workers -> Nat]
    /\ jobs \in [Workers -> [Tasks -> Job]]
    /\ call \in [Workers -> Call]
    /\ signal \in [Workers -> BOOLEAN]
    /\ latch \in [Workers -> BOOLEAN]
    /\ faults \in Nat
    /\ ender \in [Tasks -> Workers \cup {NoWorker}]
    /\ hookedBy \in [Tasks -> SUBSET Workers]
    /\ lapsed \subseteq Tasks
    /\ owed \in [Workers -> BOOLEAN]

----------------------------------------------------------------------------
(* A pod that waits for a slot with a claimed task, or runs its handler,      *)
(* holds the row, unless the lease of the task has run out under a holder:    *)
(* with leases kept alive a task has one runner at a time, and an ended task  *)
(* has none.  It covers jobs queued behind the semaphore and the give-up      *)
(* hooks of the same poll, which no heartbeat protects.                       *)
RunnerHolds ==
    \A w \in Workers, t \in Tasks :
        jobs[w][t].phase \in {"waiting", "handling"} /\ t \notin lapsed
            => _holder_filter(rows[t], w)

(* The outcome guard compares worker ids, not attempts.  That is enough: a    *)
(* coroutine that passes the guard speaks for the latest attempt, because a   *)
(* pod never claims again a task one of its own coroutines still carries.     *)
OutcomeOfLatestAttempt ==
    \A w \in Workers, t \in Tasks :
        jobs[w][t].phase \in {"waiting", "handling", "writing"} /\ _holder_filter(rows[t], w)
            => jobs[w][t].attempt = rows[t].attempts

(* At most one live task per (app, type, key), through every retry, crash and *)
(* give-up; and a key is taken exactly while its task is live, so no enqueue  *)
(* is ever refused on behalf of a task that has ended.                        *)
LiveKeyIsExclusive ==
    /\ \A t \in Tasks : rows[t].active = IF rows[t].status \in Live
                                         THEN rows[t].key ELSE NoKey
    /\ \A t, u \in Tasks :
           /\ rows[t].active # NoKey
           /\ HoldsKey(u, rows[t].app, rows[t].type, rows[t].active)
           => t = u

(* The give-up hook runs, or is about to run, only for a task the queue has   *)
(* given up on: on a claim-time retirement, on Fail, and on the read-back     *)
(* after a reschedule.                                                        *)
HookOnlyAfterGiveUp ==
    \A t \in Tasks :
        \/ rows[t].status \in {"FAILED", "TIMED_OUT"}
        \/ /\ hookedBy[t] = {}
           /\ \A w \in Workers : t \notin retired[w] /\ jobs[w][t].phase # "hook"

(* `What makes a signal impossible to lose': a pod never settles into its     *)
(* idle wait with a wake-up still owed since its last claim scan, whatever    *)
(* the threads of enqueue, the loop and the timer did in between.             *)
WakeIsNotLost ==
    \A w \in Workers : pc[w] = "sleeping" /\ owed[w] => signal[w] \/ latch[w]

----------------------------------------------------------------------------
Implemented == INSTANCE WorkSlots WITH
    Items <- Tasks, Slots <- Apps \X Types \X Keys, NoSlot <- NoKey,
    Results <- TERMINAL_STATUSES,
    state <- [t \in Tasks |-> IF rows[t].status \in Live THEN "open" ELSE rows[t].status],
    slot <- [t \in Tasks |-> IF rows[t].active = NoKey THEN NoKey
                             ELSE <<rows[t].app, rows[t].type, rows[t].active>>]

(* The queue implements WorkSlots: one final result, exclusive slots.         *)
KeepsItsPromise == Implemented!SafeSlots

(* And with it that every accepted task ends, although pods stop, statements  *)
(* fail, handlers retry, and nothing but leases and deadlines says so.        *)
KeepsItsPromiseFairly == Implemented!FairSlots

(* A task of a type with a hook that the queue gives up on has its hook run,  *)
(* unless the pod that ended it stopped or a statement failed.                *)
GiveUpIsReported ==
    \A t \in Tasks :
        rows[t].status \in {"FAILED", "TIMED_OUT"} /\ rows[t].type \in GivesUpTypes
            ~> hookedBy[t] # {} \/ faults > 0 \/ (\E w \in Workers : w = ender[t] /\ pc[w] = "gone")

----------------------------------------------------------------------------
(* The pods are quick: between two seconds no claim is half done, no task    *)
(* waits beside a free slot, and every heartbeat renews before its lease runs *)
(* out.  Only handlers and hooks take time.                                   *)
Timely ==
    \A w \in Workers :
        /\ pc[w] = "claiming" => cand[w] = {} /\ retired[w] # {}
        /\ pc[w] = "running" /\ Cardinality(InSlot(w)) < MaxConcurrency
               => \A t \in Tasks : jobs[w][t].phase # "waiting"
        /\ \A t \in Tasks : At(w, t, "handling") /\ jobs[w][t].beat = "on"
                              /\ _holder_filter(rows[t], w) => rows[t].lease > 1

TimelySpec == Init /\ [][Next /\ (Tick => Timely)]_vars

(* types.py: terminal tasks are `never claimed or run again'.                 *)
NeverRunAgain ==
    [][\A w \in Workers, t \in Tasks :
           jobs[w][t].phase = "waiting" /\ jobs'[w][t].phase = "handling"
               => rows[t].status \notin TERMINAL_STATUSES]_vars
=============================================================================
