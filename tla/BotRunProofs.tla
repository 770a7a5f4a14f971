---------------------------- MODULE BotRunProofs ----------------------------
(***************************************************************************)
(* Type correctness of the queued bot runs, the mutual exclusion of the     *)
(* session locks and the bound on the concurrency limit, for any number of  *)
(* runs, sessions, processes and executions.                                *)
(***************************************************************************)
EXTENDS BotRunProperties, FiniteSetTheorems, TLAPS

(* A task that exists belongs to a process and a run. *)
Located(x) == x = Free \/ (x.phase # "free" /\ x.pod \in Pods /\ x.run \in Runs)
Placed == \A e \in Execs : Located(exec[e])

Typed == TypeOK /\ Placed

Phases == {"free", "leaked"} \cup Awaits \cup Sync

----------------------------------------------------------------------------
(* The pieces the actions are made of. *)

LEMMA ExecFields ==
    ASSUME NEW x \in Exec
    PROVE  /\ \A ph \in Phases : LET y == [x EXCEPT !.phase = ph] IN
                 y \in Exec /\ y.phase = ph /\ y.pod = x.pod /\ y.run = x.run
           /\ \A b \in BOOLEAN : LET y == [x EXCEPT !.cancel = b] IN
                 y \in Exec /\ y.phase = x.phase /\ y.pod = x.pod /\ y.run = x.run
           /\ \A w \in SUBSET {"guardian", "poll"} : LET y == [x EXCEPT !.watch = w] IN
                 y \in Exec /\ y.phase = x.phase /\ y.pod = x.pod /\ y.run = x.run
  BY DEF Exec, Phases

LEMMA FreeExec == /\ Free \in Exec /\ Free.phase = "free" /\ Free.pod = None
                  /\ Free.watch = {} /\ Located(Free)
  BY DEF Free, Exec, Located

(* One execution gets a new value that is placed. *)
LEMMA OneExec ==
    ASSUME Typed, NEW e \in Execs, NEW x \in Exec, exec' = [exec EXCEPT ![e] = x],
           Located(x)
    PROVE  exec' \in [Execs -> Exec] /\ Placed'
<1>1. \A f \in Execs : exec'[f] = IF f = e THEN x ELSE exec[f]
  BY DEF Typed, TypeOK
<1> QED BY <1>1 DEF Typed, TypeOK, Placed

LEMMA GoToTyped ==
    ASSUME Typed, NEW e \in Execs, NEW ph \in Phases \ {"free"}, GoTo(e, ph), exec[e].phase # "free"
    PROVE  exec' \in [Execs -> Exec] /\ Placed'
<1> DEFINE x == [exec[e] EXCEPT !.phase = ph]
<1>1. exec[e] \in Exec
  BY DEF Typed, TypeOK
<1>2. x \in Exec /\ x.phase = ph /\ x.pod = exec[e].pod /\ x.run = exec[e].run
  BY <1>1, ExecFields
<1>3. exec' = [exec EXCEPT ![e] = x]
  BY DEF GoTo
<1> HIDE DEF x
<1> QED BY <1>2, <1>3, OneExec, FreeExec DEF Typed, Placed, Located

LEMMA BeginTyped ==
    ASSUME Typed, NEW e \in Execs, NEW ph \in Phases \ {"free"}, Begin(e, ph), exec[e].phase # "free"
    PROVE  exec' \in [Execs -> Exec] /\ Placed'
<1> DEFINE x == [[exec[e] EXCEPT !.phase = ph] EXCEPT !.watch = {"guardian", "poll"}]
<1>1. exec[e] \in Exec
  BY DEF Typed, TypeOK
<1>2. x \in Exec /\ x.phase = ph /\ x.pod = exec[e].pod /\ x.run = exec[e].run
  BY <1>1 DEF Exec, Phases
<1>3. exec' = [exec EXCEPT ![e] = x]
  BY <1>1 DEF Begin, Typed, TypeOK
<1> HIDE DEF x
<1> QED BY <1>2, <1>3, OneExec, FreeExec DEF Typed, Placed, Located

LEMMA FinishTyped ==
    ASSUME Typed, NEW e \in Execs, Finish(e)
    PROVE  /\ exec' \in [Execs -> Exec] /\ Placed'
           /\ tasks' \in [Pods -> [Runs -> Execs \cup {None}]]
<1>1. exec' \in [Execs -> Exec] /\ Placed'
  BY FreeExec, OneExec DEF Finish
<1>2. tasks' \in [Pods -> [Runs -> Execs \cup {None}]]
  BY DEF Finish, Typed, TypeOK
<1> QED BY <1>1, <1>2

LEMMA CancelTyped ==
    ASSUME Typed, NEW p, NEW r
    PROVE  LET new == _cancel_local_task(p, r) IN
           /\ new \in [Execs -> Exec]
           /\ \A e \in Execs : /\ new[e].phase = exec[e].phase /\ new[e].pod = exec[e].pod
                               /\ new[e].run = exec[e].run /\ new[e].watch = exec[e].watch
                               /\ Located(new[e])
<1> SUFFICES ASSUME NEW e \in Execs
             PROVE  LET y == _cancel_local_task(p, r)[e] IN
                    /\ y \in Exec /\ y.phase = exec[e].phase /\ y.pod = exec[e].pod
                    /\ y.run = exec[e].run /\ y.watch = exec[e].watch /\ Located(y)
  BY DEF _cancel_local_task
<1>1. exec[e] \in Exec /\ Located(exec[e])
  BY DEF Typed, TypeOK, Placed
<1> DEFINE x == [exec[e] EXCEPT !.cancel = TRUE]
<1>2. /\ x \in Exec /\ x.phase = exec[e].phase /\ x.pod = exec[e].pod
      /\ x.run = exec[e].run /\ x.watch = exec[e].watch
  BY <1>1 DEF Exec
<1>3. exec[e].phase \in Awaits => Located(x)
  BY <1>1, <1>2, FreeExec DEF Awaits, Located
<1>4. _cancel_local_task(p, r)[e] = exec[e]
        \/ (_cancel_local_task(p, r)[e] = x /\ exec[e].phase \in Awaits)
  BY DEF _cancel_local_task
<1> HIDE DEF x
<1> QED BY <1>1, <1>2, <1>3, <1>4

LEMMA SettleTyped ==
    ASSUME TypeOK, NEW r, NEW st \in Terminal, Settle(r, st)
    PROVE  result' \in [Runs -> {"absent"} \cup Open \cup Terminal]
  BY DEF TypeOK, Settle

LEMMA TellTyped ==
    ASSUME TypeOK, NEW r, NEW ok, Tell(r, ok)
    PROVE  told' \in [Runs -> {"none"} \cup Terminal]
  BY DEF TypeOK, Tell

LEMMA FaultTyped ==
    ASSUME TypeOK, NEW fails, Fault(fails) PROVE faults' \in Nat
  BY DEF TypeOK, Fault

LEMMA AddTyped ==
    ASSUME NEW set, set \subseteq Runs, NEW r \in Runs, NEW cond PROVE Add(set, r, cond) \subseteq Runs
  BY DEF Add

LEMMA TryTyped ==
    ASSUME TypeOK, NEW r \in Runs, NEW st \in Terminal, NEW fails, TryToSettle(r, st, fails)
    PROVE  /\ result' \in [Runs -> {"absent"} \cup Open \cup Terminal]
           /\ lost' \subseteq Runs /\ faults' \in Nat
<1>1. result' \in [Runs -> {"absent"} \cup Open \cup Terminal]
  BY SettleTyped DEF TryToSettle, TypeOK
<1>2. lost' \subseteq Runs
  BY AddTyped DEF TryToSettle, TypeOK
<1> QED BY <1>1, <1>2, FaultTyped DEF TryToSettle

LEMMA DoneTyped ==
    ASSUME TypeOK, NEW r \in Runs, NEW fails, force_done(r, fails)
    PROVE  queue' \in [Runs -> Work] /\ disturbed' \subseteq Runs /\ faults' \in Nat
<1>1. \A w \in Work : [w EXCEPT !.status = "DONE"] \in Work
  BY DEF Work
<1>2. queue' \in [Runs -> Work]
  BY <1>1 DEF TypeOK, force_done, Work
<1>3. disturbed' \subseteq Runs
  BY AddTyped DEF force_done, TypeOK
<1> QED BY <1>2, <1>3, FaultTyped DEF force_done

LEMMA PendingTyped == \A w \in Work : Pending(w) \in Work
  BY DEF Pending, Work, Open

----------------------------------------------------------------------------
(* The lock table. *)

LEMMA LockRows == /\ NoRow \in [holder : Execs \cup {None}, expired : BOOLEAN]
                  /\ \A e \in Execs : [holder |-> e, expired |-> FALSE]
                                        \in [holder : Execs \cup {None}, expired : BOOLEAN]
  BY DEF NoRow

LEMMA AcquireTyped ==
    ASSUME LockTypeOK, NEW p \in Pods, NEW s \in Sessions, NEW e \in Execs, acquire_lock(p, s, e)
    PROVE  LockTypeOK'
  BY LockRows DEF LockTypeOK, acquire_lock

LEMMA ReleaseTyped ==
    ASSUME LockTypeOK, NEW p, NEW s, NEW e, NEW fails, release_lock(p, s, e, fails)
    PROVE  LockTypeOK'
<1>1. lock' \in [Sessions -> [holder : Execs \cup {None}, expired : BOOLEAN]]
  BY LockRows DEF LockTypeOK, release_lock
<1>2. ctx' \in [Pods -> [Sessions -> Execs \cup {None}]]
  BY DEF LockTypeOK, release_lock
<1>3. threads' \subseteq Pods \X Sessions \X Execs
  BY DEF LockTypeOK, release_lock, _stop_renew_thread
<1> QED BY <1>1, <1>2, <1>3 DEF LockTypeOK, release_lock

LEMMA ForceTyped ==
    ASSUME LockTypeOK, NEW p, NEW s, NEW fails, force_unlock(p, s, fails)
    PROVE  LockTypeOK'
  BY LockRows DEF LockTypeOK, force_unlock, _stop_renew_thread

----------------------------------------------------------------------------
(* Type correctness, action by action. *)

LEMMA TaskTyped ==
    ASSUME Typed, NEW e \in Execs, TaskStep(e) PROVE Typed'
<1> USE DEF rowVars, history, lockVars, Quiet, ExecStep, Unharmed
<1>a. /\ TypeOK /\ LockTypeOK /\ exec[e] \in Exec
      /\ {"leaked", "binding", "requeuing", "calling", "unlocking", "assured", "marking"}
            \subseteq Phases \ {"free"}
      /\ "TIME_OUT" \in Terminal /\ "FAILED" \in Terminal
  BY DEF Typed, TypeOK, Phases, Awaits, Sync, Terminal
<1>b. exec[e].phase # "free" => /\ exec[e].pod \in Pods /\ exec[e].run \in Runs
                                /\ SessionOf[exec[e].run] \in Sessions
  BY RunAssumption, FreeExec DEF Typed, Placed, Located
<1>c. UNCHANGED lockVars => LockTypeOK'
  BY <1>a DEF LockTypeOK
<1>1. ASSUME NEW fails \in BOOLEAN, ExpiresAtStart(e, fails) PROVE Typed'
  <2>1. exec' \in [Execs -> Exec] /\ Placed'
    BY <1>1, <1>a, BeginTyped DEF ExpiresAtStart, Resumes, At
  <2> QED BY <2>1, <1>1, <1>a, <1>b, <1>c, TryTyped DEF ExpiresAtStart, Resumes, At, Typed, TypeOK
<1>2. CASE LocksSession(e)
  BY <1>2, <1>a, <1>b, AcquireTyped, BeginTyped DEF LocksSession, Resumes, At, Typed, TypeOK
<1>3. CASE FindsSessionBusy(e)
  BY <1>3, <1>a, <1>c, BeginTyped DEF FindsSessionBusy, Resumes, At, Typed, TypeOK
<1>4. ASSUME NEW fails \in BOOLEAN, _requeue_pending(e, fails) PROVE Typed'
  <2>1. queue' \in [Runs -> Work]
    BY <1>4, <1>a, <1>b, PendingTyped DEF _requeue_pending, At, TypeOK
  <2>2. disturbed' \subseteq Runs
    BY <1>4, <1>a, <1>b, AddTyped DEF _requeue_pending, At, TypeOK
  <2> QED BY <2>1, <2>2, <1>4, <1>a, <1>c, FaultTyped, FinishTyped DEF _requeue_pending, Typed, TypeOK
<1>5. CASE CancelledUnstarted(e)
  BY <1>5, <1>a, <1>c, GoToTyped DEF CancelledUnstarted, At, Typed, TypeOK
<1>6. ASSUME NEW fails \in BOOLEAN, Unlock(e, fails) PROVE Typed'
  BY <1>6, <1>a, ReleaseTyped, FaultTyped, GoToTyped DEF Unlock, At, Typed, TypeOK
<1>7. ASSUME NEW fails \in BOOLEAN, Cancelled(e, fails) PROVE Typed'
  <2> DEFINE x == [[exec[e] EXCEPT !.phase = "failing"] EXCEPT !.cancel = FALSE]
  <2>1. x \in Exec /\ x.phase # "free" /\ x.pod = exec[e].pod /\ x.run = exec[e].run
    BY <1>a DEF Exec, Sync
  <2>2. exec' = [exec EXCEPT ![e] = x]
    BY <1>7, <1>a DEF Cancelled, TypeOK
  <2> HIDE DEF x
  <2>3. exec' \in [Execs -> Exec] /\ Placed'
    BY <2>1, <2>2, <1>7, <1>b, OneExec DEF Cancelled, At, Located
  <2> QED BY <2>3, <1>7, <1>a, ForceTyped, FaultTyped DEF Cancelled, Typed, TypeOK
<1>8. ASSUME NEW fails \in BOOLEAN, _mark_cancelled(e, fails) PROVE Typed'
  BY <1>8, <1>a, <1>b, <1>c, TryTyped, GoToTyped DEF _mark_cancelled, At, Typed, TypeOK
<1>9. CASE PostRunCancelled(e)
  <2> DEFINE x == [[exec[e] EXCEPT !.phase = "assured"] EXCEPT !.cancel = FALSE]
  <2>1. x \in Exec /\ x.phase # "free" /\ x.pod = exec[e].pod /\ x.run = exec[e].run
    BY <1>a DEF Exec, Awaits
  <2>2. exec' = [exec EXCEPT ![e] = x]
    BY <1>9, <1>a DEF PostRunCancelled, TypeOK
  <2> HIDE DEF x
  <2>3. exec' \in [Execs -> Exec] /\ Placed'
    BY <2>1, <2>2, <1>9, <1>b, OneExec DEF PostRunCancelled, At, Located
  <2> QED BY <2>3, <1>9, <1>a, <1>c DEF PostRunCancelled, Typed, TypeOK
<1>10. ASSUME NEW ok \in BOOLEAN, _post_run(e, ok) PROVE Typed'
  BY <1>10, <1>a, <1>c, TellTyped, FaultTyped, GoToTyped DEF _post_run, Resumes, At, Typed, TypeOK
<1>11. ASSUME NEW fails \in BOOLEAN, _mark_queue_done(e, fails) PROVE Typed'
  <2>1. \A w \in Work : [w EXCEPT !.status = "DONE"] \in Work
    BY DEF Work
  <2>2. queue' \in [Runs -> Work]
    BY <2>1, <1>11, <1>a DEF _mark_queue_done, TypeOK
  <2>3. disturbed' \subseteq Runs
    BY <1>11, <1>a, <1>b, AddTyped DEF _mark_queue_done, At, TypeOK
  <2> QED BY <2>2, <2>3, <1>11, <1>a, <1>c, FaultTyped, FinishTyped
          DEF _mark_queue_done, Typed, TypeOK
<1>12. ASSUME NEW ok \in BOOLEAN, AssuredCallback(e, ok) PROVE Typed'
  BY <1>12, <1>a, <1>c, TellTyped, FaultTyped, FinishTyped DEF AssuredCallback, Typed, TypeOK
<1> QED BY <1>1, <1>2, <1>3, <1>4, <1>5, <1>6, <1>7, <1>8, <1>9, <1>10, <1>11, <1>12 DEF TaskStep

LEMMA AnswerTyped ==
    ASSUME Typed, NEW e \in Execs, BotAnswers(e) PROVE Typed'
<1> USE DEF rowVars, history, lockVars, Quiet, ExecStep, Unharmed
<1>a. /\ TypeOK /\ LockTypeOK /\ exec[e] \in Exec
      /\ {"sending", "unlocking", "assured"} \subseteq Phases \ {"free"}
      /\ {"COMPLETED", "TIME_OUT", "FAILED"} \subseteq Terminal
  BY DEF Typed, TypeOK, Phases, Awaits, Sync, Terminal
<1>c. UNCHANGED lockVars => LockTypeOK'
  BY <1>a DEF LockTypeOK
<1>1. CASE Bind(e)
  <2>1. result' \in [Runs -> {"absent"} \cup Open \cup Terminal]
    BY <1>1, <1>a DEF Bind, TypeOK, Open
  <2>2. sends' \in [Runs -> 0..2]
    <3>1. \A n \in 0..2 : (IF n < 2 THEN n + 1 ELSE n) \in 0..2
      OBVIOUS
    <3> QED BY <3>1, <1>1, <1>a DEF Bind, TypeOK
  <2> QED BY <2>1, <2>2, <1>1, <1>a, <1>c, GoToTyped DEF Bind, Resumes, At, Typed, TypeOK
<1>2. CASE BindingMissing(e)
  BY <1>2, <1>a, <1>c, SettleTyped, GoToTyped DEF BindingMissing, Resumes, At, Typed, TypeOK
<1>3. CASE Outage(e)
  <2>1. disturbed' \subseteq Runs /\ lost' \subseteq Runs
    BY <1>3, <1>a, FreeExec DEF Outage, Resumes, At, Typed, Placed, Located, TypeOK
  <2> QED BY <2>1, <1>3, <1>a, ForceTyped, FaultTyped, GoToTyped DEF Outage, Resumes, At, Typed, TypeOK
<1>4. ASSUME NEW out \in {"COMPLETED", "FAILED", "TIME_OUT"}, Send(e, out) PROVE Typed'
  BY <1>4, <1>a, <1>c, SettleTyped, GoToTyped DEF Send, Resumes, At, Typed, TypeOK
<1> QED BY <1>1, <1>2, <1>3, <1>4 DEF BotAnswers

LEMMA WatchTyped ==
    ASSUME Typed, NEW e \in Execs, WatchStep(e) PROVE Typed'
<1> USE DEF rowVars, podVars, history, lockVars, Quiet, ExecStep
<1>a. TypeOK /\ LockTypeOK /\ exec[e] \in Exec
  BY DEF Typed, TypeOK
<1>b. Placed /\ (exec[e].watch # {} => exec[e].run \in Runs)
  BY FreeExec DEF Typed, Placed, Located
<1>c. UNCHANGED lockVars => LockTypeOK'
  BY <1>a DEF LockTypeOK
<1>1. CASE touch_heartbeat(e)
  <2>1. \A w \in Work : [w EXCEPT !.beat = "fresh"] \in Work
    BY DEF Work
  <2>2. queue' \in [Runs -> Work]
    BY <2>1, <1>1, <1>a DEF touch_heartbeat, TypeOK
  <2> QED BY <2>2, <1>1, <1>a, <1>b, <1>c DEF touch_heartbeat, Typed, TypeOK, Placed
<1>2. ASSUME NEW fails \in BOOLEAN, _abort_poll_loop(e, fails) PROVE Typed'
  <2> DEFINE x == [[exec[e] EXCEPT !.watch = @ \ {"poll"}] EXCEPT !.cancel = TRUE]
  <2>1. x \in Exec /\ x.phase = exec[e].phase /\ x.pod = exec[e].pod /\ x.run = exec[e].run
    BY <1>a DEF Exec
  <2>2. exec' = [exec EXCEPT ![e] = x]
    BY <1>2, <1>a DEF _abort_poll_loop, TypeOK
  <2> HIDE DEF x
  <2>3. exec' \in [Execs -> Exec] /\ Placed'
    BY <2>1, <2>2, <1>2, <1>b, OneExec, FreeExec DEF Placed, Located, _abort_poll_loop, Watched
  <2>4. exec[e].run \in Runs
    BY <1>2, <1>b DEF _abort_poll_loop, Watched
  <2> QED BY <2>3, <2>4, <1>2, <1>a, <1>c, DoneTyped DEF _abort_poll_loop, Typed, TypeOK
<1>3. ASSUME NEW ok \in BOOLEAN, NEW fails \in BOOLEAN, _terminate_local_timeout(e, ok, fails)
      PROVE  Typed'
  <2> DEFINE new == _cancel_local_task(exec[e].pod, exec[e].run)
             x == [new[e] EXCEPT !.watch = @ \ {"guardian"}]
  <2>1. /\ new \in [Execs -> Exec]
        /\ \A f \in Execs : /\ new[f].phase = exec[f].phase /\ new[f].pod = exec[f].pod
                            /\ new[f].run = exec[f].run /\ new[f].watch = exec[f].watch
                            /\ Located(new[f])
    BY CancelTyped
  <2> HIDE DEF new
  <2>2. x \in Exec /\ x.phase = new[e].phase /\ x.pod = new[e].pod /\ x.run = new[e].run
    BY <2>1 DEF Exec
  <2>3. exec' = [new EXCEPT ![e] = x]
    BY <1>3, <2>1 DEF _terminate_local_timeout, new
  <2> HIDE DEF x
  <2>4. \A f \in Execs : exec'[f] = IF f = e THEN x ELSE new[f]
    BY <2>1, <2>3
  <2>5. exec' \in [Execs -> Exec]
    BY <2>1, <2>2, <2>3
  <2>6. Located(x)
    BY <2>1, <2>2, <1>3, FreeExec DEF _terminate_local_timeout, Watched, Located
  <2>7. Placed'
    BY <2>1, <2>4, <2>6 DEF Placed
  <2>8. exec[e].run \in Runs
    BY <1>3, <1>b DEF _terminate_local_timeout, Watched
  <2> QED BY <2>5, <2>7, <2>8, <1>3, <1>a, <1>c, DoneTyped, TellTyped
          DEF _terminate_local_timeout, Typed, TypeOK
<1> QED BY <1>1, <1>2, <1>3 DEF WatchStep

LEMMA TickTyped ==
    ASSUME Typed, NEW p \in Pods, TickStep(p) PROVE Typed'
<1> USE DEF rowVars, history, lockVars
<1>a. TypeOK /\ LockTypeOK /\ Placed
  BY DEF Typed, TypeOK
<1>c. UNCHANGED lockVars => LockTypeOK'
  BY <1>a DEF LockTypeOK
<1>1. CASE CountRunning(p) \/ ClaimNothing(p)
  BY <1>1, <1>a, <1>c DEF CountRunning, ClaimNothing, Typed, TypeOK, Placed
<1>2. ASSUME NEW r \in Runs, NEW e \in Execs, claim_pending_by_bot(p, r, e) PROVE Typed'
  <2> DEFINE x == [Free EXCEPT !.phase = "start", !.pod = p, !.run = r]
  <2>1. x \in Exec /\ x.phase # "free" /\ x.pod = p /\ x.run = r
    BY DEF Free, Exec, Awaits
  <2> HIDE DEF x
  <2>2. exec' = [exec EXCEPT ![e] = x]
    BY <1>2 DEF claim_pending_by_bot, x
  <2>3. exec' \in [Execs -> Exec] /\ Placed'
    BY <2>1, <2>2, OneExec DEF Located
  <2>4. \A w \in Work : [w EXCEPT !.status = "RUNNING", !.worker = p, !.beat = "fresh"] \in Work
    BY DEF Work, Open
  <2>5. queue' \in [Runs -> Work]
    BY <2>4, <1>2, <1>a DEF claim_pending_by_bot, TypeOK
  <2>6. tasks' \in [Pods -> [Runs -> Execs \cup {None}]] /\ room' \in [Pods -> BOOLEAN]
    BY <1>2, <1>a DEF claim_pending_by_bot, TypeOK
  <2> QED BY <2>3, <2>5, <2>6, <1>2, <1>a, <1>c DEF claim_pending_by_bot, Typed, TypeOK
<1> QED BY <1>1, <1>2 DEF TickStep

LEMMA CrashTyped ==
    ASSUME Typed, NEW p \in Pods, Crash(p) PROVE Typed'
<1> USE DEF rowVars
<1> DEFINE hit == {exec[e].run : e \in ExecsOf(p)}
                  \cup (IF scan.pod = p THEN {scan.run} ELSE {})
                  \cup (IF abort.pod = p THEN {abort.run} ELSE {})
<1>a. TypeOK /\ LockTypeOK /\ Placed
  BY DEF Typed, TypeOK
<1>1. exec' \in [Execs -> Exec] /\ Placed'
  <2>1. exec' = [e \in Execs |-> IF exec[e].pod = p THEN Free ELSE exec[e]]
    BY DEF Crash
  <2> QED BY <2>1, <1>a, FreeExec DEF TypeOK, Placed
<1>2. tasks' \in [Pods -> [Runs -> Execs \cup {None}]] /\ room' \in [Pods -> BOOLEAN]
      /\ up' \in [Pods -> BOOLEAN]
  BY <1>a DEF Crash, TypeOK
<1>3. /\ scan' \in {NoScan} \cup [step : {"found", "marked", "done"}, pod : Pods, run : Runs,
                                ran : BOOLEAN]
      /\ abort' \in {NoAbort} \cup [step : {"found", "marked", "requested"}, pod : Pods,
                                    run : Runs, mine : BOOLEAN]
  BY <1>a DEF Crash, TypeOK
<1>5. hit \subseteq Runs
  <2>1. \A e \in ExecsOf(p) : exec[e].run \in Runs
    BY <1>a, FreeExec, RunAssumption DEF ExecsOf, Placed, Located
  <2>2. scan.pod = p => scan.run \in Runs
    BY <1>a, RunAssumption DEF TypeOK, NoScan
  <2>3. abort.pod = p => abort.run \in Runs
    BY <1>a, RunAssumption DEF TypeOK, NoAbort
  <2> QED BY <2>1, <2>2, <2>3
<1>6. disturbed' \subseteq Runs /\ lost' \subseteq Runs
  <2>1. disturbed' = disturbed \cup hit /\ lost' \subseteq lost \cup hit
    BY DEF Crash
  <2> QED BY <2>1, <1>5, <1>a DEF TypeOK
<1>4. LockTypeOK'
  BY <1>a DEF Crash, LockCrash, LockTypeOK
<1> QED BY <1>1, <1>2, <1>3, <1>4, <1>6, <1>a DEF Crash, Typed, TypeOK

LEMMA AbortTyped ==
    ASSUME Typed,
           AbortRecord \/ \E p \in Pods, r \in Runs : AbortFinds(p, r)
    PROVE  Typed'
<1> USE DEF rowVars, history, lockVars, AbortStep, Unharmed
<1>a. TypeOK /\ LockTypeOK /\ Placed /\ "ABORTED" \in Terminal
  BY DEF Typed, TypeOK, Terminal
<1>b. UNCHANGED exec => exec' \in [Execs -> Exec] /\ Placed'
  BY <1>a DEF TypeOK, Placed
<1>c. UNCHANGED lockVars => LockTypeOK'
  BY <1>a DEF LockTypeOK
<1>d. abort # NoAbort => abort.run \in Runs
  BY <1>a DEF TypeOK
<1>e. ASSUME NEW st \in {"marked", "requested"}, abort # NoAbort, abort' = [abort EXCEPT !.step = st]
      PROVE  abort' \in {NoAbort} \cup [step : {"found", "marked", "requested"}, pod : Pods,
                                       run : Runs, mine : BOOLEAN]
  BY <1>e, <1>a DEF TypeOK
<1>1. ASSUME NEW p \in Pods, NEW r \in Runs, AbortFinds(p, r) PROVE Typed'
  <2>1. aborts' \in Nat
    BY <1>1, <1>a DEF AbortFinds, TypeOK
  <2> QED BY <2>1, <1>1, <1>a, <1>b, <1>c DEF AbortFinds, Typed, TypeOK
<1>2. ASSUME NEW fails \in BOOLEAN, AbortMarks(fails) PROVE Typed'
  <2>1. abort # NoAbort
    BY <1>2 DEF AbortMarks, NoAbort
  <2>2. overtaken' \subseteq Runs
    BY <2>1, <1>2, <1>a, <1>d, AddTyped DEF AbortMarks, TypeOK
  <2> QED BY <2>1, <2>2, <1>2, <1>a, <1>b, <1>c, <1>d, <1>e, TryTyped DEF AbortMarks, Typed, TypeOK
<1>3. ASSUME NEW fails \in BOOLEAN, request_abort(fails) PROVE Typed'
  <2>1. abort # NoAbort
    BY <1>3 DEF request_abort, NoAbort
  <2>2. \A w \in Work : [w EXCEPT !.abort = TRUE] \in Work
    BY DEF Work
  <2>3. queue' \in [Runs -> Work]
    BY <2>2, <1>3, <1>a DEF request_abort, TypeOK
  <2>4. disturbed' \subseteq Runs
    BY <2>1, <1>3, <1>a, <1>d, AddTyped DEF request_abort, TypeOK
  <2> QED BY <2>1, <2>3, <2>4, <1>3, <1>a, <1>b, <1>c, <1>e, FaultTyped
          DEF request_abort, Typed, TypeOK
<1>4. ASSUME NEW fails \in BOOLEAN, AbortEnds(fails) PROVE Typed'
  <2>1. exec' \in [Execs -> Exec] /\ Placed'
    <3>1. CASE exec' = exec
      BY <3>1, <1>b
    <3>2. CASE exec' = _cancel_local_task(abort.pod, abort.run)
      BY <3>2, CancelTyped DEF Placed
    <3> QED BY <3>1, <3>2, <1>4 DEF AbortEnds
  <2>2. abort.run \in Runs
    BY <1>4, <1>d DEF AbortEnds, NoAbort
  <2> QED BY <2>1, <2>2, <1>4, <1>a, <1>c, DoneTyped DEF AbortEnds, Typed, TypeOK
<1> QED BY <1>1, <1>2, <1>3, <1>4 DEF AbortRecord

LEMMA ScanTyped ==
    ASSUME Typed, ScanRecord PROVE Typed'
<1> USE DEF rowVars, lockVars, ScanStep, Unharmed
<1>a. TypeOK /\ LockTypeOK /\ Placed /\ "TIME_OUT" \in Terminal
  BY DEF Typed, TypeOK, Terminal
<1>b. UNCHANGED exec => exec' \in [Execs -> Exec] /\ Placed'
  BY <1>a DEF TypeOK, Placed
<1>c. UNCHANGED lockVars => LockTypeOK'
  BY <1>a DEF LockTypeOK
<1>d. scan # NoScan => scan.run \in Runs
  BY <1>a DEF TypeOK
<1>e. ASSUME NEW st \in {"marked", "done"}, scan # NoScan,
             scan' = NoScan \/ scan' = [scan EXCEPT !.step = st]
      PROVE  scan' \in {NoScan} \cup [step : {"found", "marked", "done"}, pod : Pods, run : Runs,
                                     ran : BOOLEAN]
  BY <1>e, <1>a DEF TypeOK
<1>1. ASSUME NEW p \in Pods, NEW r \in Runs, scan_timeout(p, r) PROVE Typed'
  <2>1. scan' \in [step : {"found", "marked", "done"}, pod : Pods, run : Runs, ran : BOOLEAN]
    BY <1>1 DEF scan_timeout
  <2> QED BY <2>1, <1>1, <1>a, <1>b, <1>c DEF scan_timeout, Typed, TypeOK
<1>2. ASSUME NEW fails \in BOOLEAN, ScanMarks(fails) PROVE Typed'
  <2>1. scan # NoScan /\ (scan' = NoScan \/ scan' = [scan EXCEPT !.step = "marked"])
    BY <1>2 DEF ScanMarks, NoScan
  <2>2. result' \in [Runs -> {"absent"} \cup Open \cup Terminal]
    BY <1>2, <1>a, SettleTyped DEF ScanMarks, TypeOK
  <2>3. lost' \subseteq Runs
    BY <2>1, <1>2, <1>a, <1>d, AddTyped DEF ScanMarks, TypeOK
  <2>4. scan' \in {NoScan} \cup [step : {"found", "marked", "done"}, pod : Pods, run : Runs,
                                ran : BOOLEAN]
    BY <2>1, <1>e
  <2> QED BY <2>2, <2>3, <2>4, <1>2, <1>a, <1>b, <1>c, FaultTyped DEF ScanMarks, Typed, TypeOK
<1>3. ASSUME NEW fails \in BOOLEAN, ScanEnds(fails) PROVE Typed'
  <2>1. scan # NoScan /\ scan' = [scan EXCEPT !.step = "done"]
    BY <1>3 DEF ScanEnds, NoScan
  <2>2. scan' \in {NoScan} \cup [step : {"found", "marked", "done"}, pod : Pods, run : Runs,
                                ran : BOOLEAN]
    BY <2>1, <1>e
  <2> QED BY <2>1, <2>2, <1>3, <1>a, <1>b, <1>c, <1>d, DoneTyped DEF ScanEnds, Typed, TypeOK
<1>4. ASSUME NEW ok \in BOOLEAN, _fire_timeout_callback(ok) PROVE Typed'
  BY <1>4, <1>a, <1>b, <1>c, TellTyped, FaultTyped DEF _fire_timeout_callback, Typed, TypeOK
<1> QED BY <1>1, <1>2, <1>3, <1>4 DEF ScanRecord

LEMMA EnvironmentTyped ==
    ASSUME Typed,
           \/ reset_stale_running \/ ReapLocks
           \/ \E r \in Runs : Dispatch(r) \/ GoesStale(r) \/ DeadlinePasses(r)
           \/ \E s \in Sessions : SessionLockStep(s)
           \/ UNCHANGED vars
    PROVE  Typed'
<1> USE DEF rowVars, podVars, history, lockVars, Environment
<1>a. TypeOK /\ LockTypeOK /\ Placed
  BY DEF Typed, TypeOK
<1>b. UNCHANGED exec => exec' \in [Execs -> Exec] /\ Placed'
  BY <1>a DEF TypeOK, Placed
<1>c. UNCHANGED lockVars => LockTypeOK'
  BY <1>a DEF LockTypeOK
<1>1. CASE reset_stale_running
  <2>1. queue' \in [Runs -> Work]
    BY <1>1, <1>a, PendingTyped DEF reset_stale_running, TypeOK
  <2> QED BY <2>1, <1>1, <1>a, <1>b, <1>c DEF reset_stale_running, Typed, TypeOK
<1>2. CASE ReapLocks
  <2>1. LockTypeOK'
    BY <1>2, <1>a, LockRows DEF ReapLocks, _reap_orphan_session_locks, LockTypeOK
  <2> QED BY <2>1, <1>2, <1>a, <1>b DEF ReapLocks, Typed, TypeOK
<1>3. ASSUME NEW r \in Runs, Dispatch(r) PROVE Typed'
  <2>1. \A w \in Work : [w EXCEPT !.status = "PENDING"] \in Work
    BY DEF Work, Open
  <2>2. queue' \in [Runs -> Work] /\ result' \in [Runs -> {"absent"} \cup Open \cup Terminal]
    BY <2>1, <1>3, <1>a DEF Dispatch, TypeOK, Open
  <2> QED BY <2>2, <1>3, <1>a, <1>b, <1>c DEF Dispatch, Typed, TypeOK
<1>4. ASSUME NEW r \in Runs, GoesStale(r) PROVE Typed'
  <2>1. \A w \in Work : [w EXCEPT !.beat = "stale"] \in Work
    BY DEF Work
  <2>2. queue' \in [Runs -> Work]
    BY <2>1, <1>4, <1>a DEF GoesStale, TypeOK
  <2> QED BY <2>2, <1>4, <1>a, <1>b, <1>c, FaultTyped, AddTyped DEF GoesStale, Typed, TypeOK
<1>5. ASSUME NEW r \in Runs, DeadlinePasses(r) PROVE Typed'
  BY <1>5, <1>a, <1>b, <1>c DEF DeadlinePasses, Typed, TypeOK
<1>6. ASSUME NEW s \in Sessions, SessionLockStep(s) PROVE Typed'
  <2>1. CASE LockExpires(s, Holding(s)) /\ UNCHANGED faults
    <3>1. \A row \in [holder : Execs \cup {None}, expired : BOOLEAN] :
            [row EXCEPT !.expired = TRUE] \in [holder : Execs \cup {None}, expired : BOOLEAN]
      OBVIOUS
    <3>2. lock' \in [Sessions -> [holder : Execs \cup {None}, expired : BOOLEAN]]
      BY <3>1, <2>1, <1>a DEF LockExpires, LockTypeOK
    <3>3. lock[s].holder \in Execs
      BY <2>1, <1>a DEF LockExpires, LockTypeOK
    <3>4. overran' \in [Sessions -> SUBSET Execs]
      BY <3>3, <2>1, <1>a DEF LockExpires, LockTypeOK
    <3>5. LockTypeOK'
      BY <3>2, <3>4, <2>1, <1>a DEF LockExpires, LockTypeOK
    <3> QED BY <3>5, <2>1, <1>6, <1>a, <1>b DEF SessionLockStep, Typed, TypeOK
  <2>2. ASSUME NEW p \in Pods, NEW e \in Execs, NEW fails \in BOOLEAN,
               RenewEnds(p, s, e, fails), Fault(fails)
        PROVE  Typed'
    <3>1. LockTypeOK'
      BY <2>2, <1>a DEF RenewEnds, LockTypeOK
    <3> QED BY <3>1, <2>2, <1>6, <1>a, <1>b, FaultTyped DEF SessionLockStep, Typed, TypeOK
  <2> QED BY <1>6, <2>1, <2>2 DEF SessionLockStep
<1>7. CASE UNCHANGED vars
  BY <1>7, <1>a, <1>b, <1>c DEF vars, Typed, TypeOK
<1> QED BY <1>1, <1>2, <1>3, <1>4, <1>5, <1>6, <1>7

LEMMA TypedNext == Typed /\ [Next]_vars => Typed'
  BY TaskTyped, AnswerTyped, WatchTyped, TickTyped, CrashTyped, AbortTyped, ScanTyped,
     EnvironmentTyped DEF Next

LEMMA TypedInit == Init => Typed
<1> SUFFICES ASSUME Init PROVE Typed
  OBVIOUS
<1>1. exec \in [Execs -> Exec] /\ Placed
  BY FreeExec DEF Init, Placed
<1>2. LockTypeOK
  BY LockRows DEF Init, LockInit, LockTypeOK
<1>3. queue \in [Runs -> Work]
  BY DEF Init, Work
<1>4. result \in [Runs -> {"absent"} \cup Open \cup Terminal]
  BY DEF Init
<1>5. tasks \in [Pods -> [Runs -> Execs \cup {None}]] /\ sends \in [Runs -> 0..2]
  BY DEF Init
<1>6. room \in [Pods -> BOOLEAN] /\ up \in [Pods -> BOOLEAN]
  BY DEF Init
<1>7. told \in [Runs -> {"none"} \cup Terminal]
  BY DEF Init
<1> QED BY <1>1, <1>2, <1>3, <1>4, <1>5, <1>6, <1>7 DEF Init, Typed, TypeOK

LEMMA AlwaysTyped == Spec => []Typed
<1> QED BY TypedInit, TypedNext, PTL DEF Spec

(* Type correctness; in particular only terminal results reach BCN. *)
THEOREM TypeCorrect == Spec => []TypeOK
<1>1. Typed => TypeOK
  BY DEF Typed
<1> QED BY <1>1, AlwaysTyped, PTL

----------------------------------------------------------------------------
(* Mutual exclusion of the sessions. *)

WorkPhases == {"binding", "sending", "unlocking"}
Works(e, s) == exec[e].phase \in WorkPhases /\ SessionOf[exec[e].run] = s

(* Until a row of the session runs out under a worker, whoever works in the   *)
(* session, up to and including its release, holds a row that is not expired. *)
(* That the row is its own is what makes deletion by name harmless.           *)
SessionHeld ==
    \A s \in Sessions, e \in Execs :
        Works(e, s) /\ overran[s] = {} => lock[s].holder = e /\ ~lock[s].expired

(* No execution starts to work in a session. *)
NoNewWork ==
    \A e \in Execs : exec'[e].phase \in WorkPhases =>
        exec[e].phase \in WorkPhases /\ exec'[e].run = exec[e].run

LEMMA HeldKept ==
    ASSUME SessionHeld, NoNewWork, UNCHANGED <<lock, overran>> PROVE SessionHeld'
  BY DEF SessionHeld, NoNewWork, Works

LEMMA OneExecWork ==
    ASSUME Typed, NEW e \in Execs, NEW x, exec' = [exec EXCEPT ![e] = x],
           x.phase \in WorkPhases => exec[e].phase \in WorkPhases /\ x.run = exec[e].run
    PROVE  NoNewWork
  BY DEF NoNewWork, Typed, TypeOK

LEMMA GoToWork ==
    ASSUME Typed, NEW e \in Execs, NEW ph \in Phases, GoTo(e, ph),
           ph \in WorkPhases => exec[e].phase \in WorkPhases
    PROVE  NoNewWork
<1>1. exec[e] \in Exec
  BY DEF Typed, TypeOK
<1> DEFINE x == [exec[e] EXCEPT !.phase = ph]
<1>2. x.phase = ph /\ x.run = exec[e].run
  BY <1>1, ExecFields
<1>3. exec' = [exec EXCEPT ![e] = x]
  BY DEF GoTo
<1> HIDE DEF x
<1> QED BY <1>2, <1>3, OneExecWork

LEMMA BeginWork ==
    ASSUME Typed, NEW e \in Execs, NEW ph, Begin(e, ph), ph \notin WorkPhases
    PROVE  NoNewWork
<1>1. exec[e] \in Exec
  BY DEF Typed, TypeOK
<1> DEFINE x == [[exec[e] EXCEPT !.phase = ph] EXCEPT !.watch = {"guardian", "poll"}]
<1>2. x.phase = ph
  BY <1>1 DEF Exec
<1>3. exec' = [exec EXCEPT ![e] = x]
  BY DEF Begin, Typed, TypeOK
<1> HIDE DEF x
<1> QED BY <1>2, <1>3, OneExecWork

LEMMA FinishWork ==
    ASSUME Typed, NEW e \in Execs, Finish(e) PROVE NoNewWork
<1>1. Free.phase \notin WorkPhases
  BY FreeExec DEF WorkPhases
<1> QED BY <1>1, OneExecWork DEF Finish

(* A worker that leaves by removing the row of its session. *)
LEMMA HeldLeft ==
    ASSUME Typed, SessionHeld, NEW e \in Execs, NEW s \in Sessions, Works(e, s),
           exec'[e].phase \notin WorkPhases, NoNewWork, UNCHANGED overran,
           \A z \in Sessions : z # s => lock'[z] = lock[z]
    PROVE  SessionHeld'
<1> SUFFICES ASSUME NEW z \in Sessions, NEW f \in Execs, Works(f, z)', overran'[z] = {}
             PROVE  lock'[z].holder = f /\ ~lock'[z].expired
  BY DEF SessionHeld
<1>1. Works(f, z) /\ f # e
  BY DEF Works, NoNewWork
<1>2. lock[z].holder = f /\ ~lock[z].expired
  BY <1>1 DEF SessionHeld
<1>3. z # s
  BY <1>1, <1>2 DEF SessionHeld
<1> QED BY <1>2, <1>3

LEMMA HeldTask ==
    ASSUME Typed, SessionHeld, NEW e \in Execs, TaskStep(e) PROVE SessionHeld'
<1> USE DEF lockVars
<1>a. /\ TypeOK /\ LockTypeOK /\ exec[e] \in Exec
      /\ {"leaked", "binding", "requeuing", "calling", "unlocking", "assured", "marking", "failing"}
            \subseteq Phases
  BY DEF Typed, TypeOK, Phases, Awaits, Sync
<1>b. exec[e].phase # "free" => /\ exec[e].pod \in Pods /\ exec[e].run \in Runs
                                /\ SessionOf[exec[e].run] \in Sessions
  BY RunAssumption, FreeExec DEF Typed, Placed, Located
<1>1. ASSUME NEW fails \in BOOLEAN, ExpiresAtStart(e, fails) PROVE SessionHeld'
  BY <1>1, BeginWork, HeldKept DEF ExpiresAtStart, WorkPhases
<1>2. CASE LocksSession(e)
  <2> DEFINE s == SessionOf[exec[e].run]
             x == [[exec[e] EXCEPT !.phase = "binding"] EXCEPT !.watch = {"guardian", "poll"}]
  <2>1. x.run = exec[e].run
    BY <1>a DEF Exec
  <2>2. \A f \in Execs : exec'[f] = IF f = e THEN x ELSE exec[f]
    BY <1>2, <1>a DEF LocksSession, Begin, TypeOK
  <2> HIDE DEF x
  <2>3. s \in Sessions /\ acquirable(s) /\ UNCHANGED overran
    BY <1>2, <1>b DEF LocksSession, Resumes, At, acquire_lock
  <2>4. \A z \in Sessions : lock'[z] = IF z = s THEN [holder |-> e, expired |-> FALSE] ELSE lock[z]
    BY <1>2, <1>a DEF LocksSession, acquire_lock, LockTypeOK
  <2> SUFFICES ASSUME NEW z \in Sessions, NEW f \in Execs, Works(f, z)', overran'[z] = {}
               PROVE  lock'[z].holder = f /\ ~lock'[z].expired
    BY DEF SessionHeld
  <2>5. CASE f = e
    <3>1. z = s
      BY <2>1, <2>2, <2>5 DEF Works
    <3> QED BY <3>1, <2>4, <2>5
  <2>6. CASE f # e
    <3>1. Works(f, z) /\ overran[z] = {}
      BY <2>2, <2>3, <2>6 DEF Works
    <3>2. lock[z].holder = f /\ ~lock[z].expired
      BY <3>1 DEF SessionHeld
    <3>3. z # s
      BY <3>2, <2>3, LockAssumption DEF acquirable
    <3> QED BY <3>2, <3>3, <2>4
  <2> QED BY <2>5, <2>6
<1>3. CASE FindsSessionBusy(e)
  BY <1>3, BeginWork, HeldKept DEF FindsSessionBusy, WorkPhases
<1>4. ASSUME NEW fails \in BOOLEAN, _requeue_pending(e, fails) PROVE SessionHeld'
  BY <1>4, FinishWork, HeldKept DEF _requeue_pending
<1>5. CASE CancelledUnstarted(e)
  BY <1>5, <1>a, GoToWork, HeldKept DEF CancelledUnstarted, WorkPhases
<1>6. ASSUME NEW fails \in BOOLEAN, Unlock(e, fails) PROVE SessionHeld'
  <2> DEFINE s == SessionOf[exec[e].run]
  <2>1. s \in Sessions /\ Works(e, s)
    BY <1>6, <1>b DEF Unlock, At, Works, WorkPhases
  <2>2. NoNewWork /\ UNCHANGED overran
    BY <1>6, <1>a, GoToWork DEF Unlock, release_lock, WorkPhases
  <2>3. exec'[e].phase \notin WorkPhases
    BY <1>6, <1>a, ExecFields DEF Unlock, GoTo, TypeOK, WorkPhases
  <2>4. \A z \in Sessions : z # s => lock'[z] = lock[z]
    BY <1>6, <1>a DEF Unlock, release_lock, LockTypeOK
  <2> QED BY <2>1, <2>2, <2>3, <2>4, HeldLeft
<1>7. ASSUME NEW fails \in BOOLEAN, Cancelled(e, fails) PROVE SessionHeld'
  <2> DEFINE s == SessionOf[exec[e].run]
             x == [[exec[e] EXCEPT !.phase = "failing"] EXCEPT !.cancel = FALSE]
  <2>1. x.phase \notin WorkPhases
    BY <1>a DEF Exec, WorkPhases
  <2>2. exec' = [exec EXCEPT ![e] = x]
    BY <1>7, <1>a DEF Cancelled, TypeOK
  <2> HIDE DEF x
  <2>3. NoNewWork /\ exec'[e].phase \notin WorkPhases
    BY <2>1, <2>2, <1>a, OneExecWork DEF TypeOK
  <2>4. s \in Sessions /\ Works(e, s)
    BY <1>7, <1>b DEF Cancelled, At, Works, WorkPhases
  <2>5. UNCHANGED overran /\ \A z \in Sessions : z # s => lock'[z] = lock[z]
    BY <1>7, <1>a DEF Cancelled, force_unlock, LockTypeOK
  <2> QED BY <2>3, <2>4, <2>5, HeldLeft
<1>8. ASSUME NEW fails \in BOOLEAN, _mark_cancelled(e, fails) PROVE SessionHeld'
  BY <1>8, <1>a, GoToWork, HeldKept DEF _mark_cancelled, WorkPhases
<1>9. CASE PostRunCancelled(e)
  <2> DEFINE x == [[exec[e] EXCEPT !.phase = "assured"] EXCEPT !.cancel = FALSE]
  <2>1. x.phase \notin WorkPhases
    BY <1>a DEF Exec, WorkPhases
  <2>2. exec' = [exec EXCEPT ![e] = x]
    BY <1>9, <1>a DEF PostRunCancelled, TypeOK
  <2> HIDE DEF x
  <2> QED BY <2>1, <2>2, <1>9, OneExecWork, HeldKept DEF PostRunCancelled
<1>10. ASSUME NEW ok \in BOOLEAN, _post_run(e, ok) PROVE SessionHeld'
  BY <1>10, <1>a, GoToWork, HeldKept DEF _post_run, WorkPhases
<1>11. ASSUME NEW fails \in BOOLEAN, _mark_queue_done(e, fails) PROVE SessionHeld'
  BY <1>11, FinishWork, HeldKept DEF _mark_queue_done
<1>12. ASSUME NEW ok \in BOOLEAN, AssuredCallback(e, ok) PROVE SessionHeld'
  BY <1>12, FinishWork, HeldKept DEF AssuredCallback
<1> QED BY <1>1, <1>2, <1>3, <1>4, <1>5, <1>6, <1>7, <1>8, <1>9, <1>10, <1>11, <1>12 DEF TaskStep

LEMMA HeldAnswer ==
    ASSUME Typed, SessionHeld, NEW e \in Execs, BotAnswers(e) PROVE SessionHeld'
<1> USE DEF lockVars
<1>a. /\ TypeOK /\ LockTypeOK /\ exec[e] \in Exec
      /\ {"sending", "unlocking", "assured"} \subseteq Phases
  BY DEF Typed, TypeOK, Phases, Awaits, Sync
<1>1. CASE Bind(e)
  BY <1>1, <1>a, GoToWork, HeldKept DEF Bind, Resumes, At, WorkPhases
<1>2. CASE BindingMissing(e)
  BY <1>2, <1>a, GoToWork, HeldKept DEF BindingMissing, Resumes, At, WorkPhases
<1>3. CASE Outage(e)
  BY <1>3, <1>a, GoToWork, HeldKept DEF Outage, force_unlock, WorkPhases
<1>4. ASSUME NEW out \in {"COMPLETED", "FAILED", "TIME_OUT"}, Send(e, out) PROVE SessionHeld'
  BY <1>4, <1>a, GoToWork, HeldKept DEF Send, Resumes, At, WorkPhases
<1> QED BY <1>1, <1>2, <1>3, <1>4 DEF BotAnswers

LEMMA CancelWork ==
    ASSUME Typed, NEW p, NEW r, exec' = _cancel_local_task(p, r) PROVE NoNewWork
  BY CancelTyped DEF NoNewWork

LEMMA HeldOther ==
    ASSUME Typed, SessionHeld,
           \/ \E e \in Execs : WatchStep(e)
           \/ \E p \in Pods : TickStep(p) \/ \E r \in Runs : AbortFinds(p, r)
           \/ AbortRecord \/ ScanRecord \/ reset_stale_running
           \/ \E r \in Runs : Dispatch(r) \/ GoesStale(r) \/ DeadlinePasses(r)
           \/ UNCHANGED vars
    PROVE  SessionHeld'
<1> USE DEF lockVars
<1>0. CASE UNCHANGED <<exec, lock, overran>>
  BY <1>0 DEF SessionHeld, Works
<1>1. ASSUME NEW e \in Execs, WatchStep(e) PROVE SessionHeld'
  <2>a. exec[e] \in Exec /\ exec \in [Execs -> Exec]
    BY DEF Typed, TypeOK
  <2>1. CASE touch_heartbeat(e)
    BY <2>1, <1>0 DEF touch_heartbeat
  <2>2. ASSUME NEW fails \in BOOLEAN, _abort_poll_loop(e, fails) PROVE SessionHeld'
    <3> DEFINE x == [[exec[e] EXCEPT !.watch = @ \ {"poll"}] EXCEPT !.cancel = TRUE]
    <3>1. x.phase = exec[e].phase /\ x.run = exec[e].run
      BY <2>a DEF Exec
    <3>2. exec' = [exec EXCEPT ![e] = x]
      BY <2>2, <2>a DEF _abort_poll_loop
    <3> HIDE DEF x
    <3> QED BY <3>1, <3>2, <2>2, OneExecWork, HeldKept DEF _abort_poll_loop
  <2>3. ASSUME NEW ok \in BOOLEAN, NEW fails \in BOOLEAN, _terminate_local_timeout(e, ok, fails)
        PROVE  SessionHeld'
    <3> DEFINE new == _cancel_local_task(exec[e].pod, exec[e].run)
               x == [new[e] EXCEPT !.watch = @ \ {"guardian"}]
    <3>1. /\ new \in [Execs -> Exec]
          /\ \A f \in Execs : new[f].phase = exec[f].phase /\ new[f].run = exec[f].run
      BY CancelTyped
    <3> HIDE DEF new
    <3>2. x.phase = new[e].phase /\ x.run = new[e].run
      BY <3>1 DEF Exec
    <3>3. exec' = [new EXCEPT ![e] = x]
      BY <2>3, <3>1 DEF _terminate_local_timeout, new
    <3> HIDE DEF x
    <3>4. NoNewWork
      BY <3>1, <3>2, <3>3 DEF NoNewWork
    <3> QED BY <3>4, <2>3, HeldKept DEF _terminate_local_timeout
  <2> QED BY <1>1, <2>1, <2>2, <2>3 DEF WatchStep
<1>2. ASSUME NEW p \in Pods, TickStep(p) PROVE SessionHeld'
  <2>1. ASSUME NEW r \in Runs, NEW e \in Execs, claim_pending_by_bot(p, r, e) PROVE SessionHeld'
    <3> DEFINE x == [Free EXCEPT !.phase = "start", !.pod = p, !.run = r]
    <3>1. x.phase \notin WorkPhases
      BY DEF Free, WorkPhases
    <3>2. exec' = [exec EXCEPT ![e] = x]
      BY <2>1 DEF claim_pending_by_bot
    <3> HIDE DEF x
    <3> QED BY <3>1, <3>2, <2>1, OneExecWork, HeldKept DEF claim_pending_by_bot
  <2> QED BY <1>2, <2>1, <1>0 DEF TickStep, CountRunning, ClaimNothing
<1>3. CASE AbortRecord
  <2>1. ASSUME NEW fails \in BOOLEAN, AbortEnds(fails) PROVE SessionHeld'
    <3>1. CASE exec' = exec
      BY <3>1, <2>1, <1>0 DEF AbortEnds, AbortStep
    <3>2. CASE exec' = _cancel_local_task(abort.pod, abort.run)
      BY <3>2, <2>1, CancelWork, HeldKept DEF AbortEnds, AbortStep
    <3> QED BY <3>1, <3>2, <2>1 DEF AbortEnds
  <2> QED BY <1>3, <2>1, <1>0 DEF AbortRecord, AbortMarks, request_abort, AbortStep
<1>4. CASE ScanRecord
  BY <1>4, <1>0 DEF ScanRecord, scan_timeout, ScanMarks, ScanEnds, _fire_timeout_callback, ScanStep
<1>5. ASSUME NEW p \in Pods, NEW r \in Runs, AbortFinds(p, r) PROVE SessionHeld'
  BY <1>5, <1>0 DEF AbortFinds, AbortStep
<1>6. ASSUME NEW r \in Runs, Dispatch(r) \/ GoesStale(r) \/ DeadlinePasses(r) PROVE SessionHeld'
  BY <1>6, <1>0 DEF Dispatch, GoesStale, DeadlinePasses, Environment
<1>7. CASE reset_stale_running \/ UNCHANGED vars
  BY <1>7, <1>0 DEF reset_stale_running, Environment, vars
<1> QED BY <1>1, <1>2, <1>3, <1>4, <1>5, <1>6, <1>7

LEMMA HeldLock ==
    ASSUME Typed, SessionHeld,
           \/ ReapLocks \/ \E p \in Pods : Crash(p)
           \/ \E s \in Sessions : SessionLockStep(s)
    PROVE  SessionHeld'
<1>a. LockTypeOK /\ exec \in [Execs -> Exec]
  BY DEF Typed, TypeOK
<1>1. CASE ReapLocks
  <2>1. /\ lock' = [s \in Sessions |-> IF lock[s].expired THEN NoRow ELSE lock[s]]
        /\ UNCHANGED <<exec, overran>>
    BY <1>1 DEF ReapLocks, _reap_orphan_session_locks, Environment
  <2> QED BY <2>1 DEF SessionHeld, Works
<1>2. ASSUME NEW p \in Pods, Crash(p) PROVE SessionHeld'
  <2>1. exec' = [e \in Execs |-> IF exec[e].pod = p THEN Free ELSE exec[e]]
    BY <1>2 DEF Crash
  <2>2. NoNewWork
    BY <2>1, FreeExec DEF NoNewWork, WorkPhases
  <2> QED BY <2>2, <1>2, HeldKept DEF Crash, LockCrash
<1>3. ASSUME NEW s \in Sessions, SessionLockStep(s) PROVE SessionHeld'
  <2>0. UNCHANGED exec
    BY <1>3 DEF SessionLockStep, Environment
  <2>1. CASE UNCHANGED <<lock, overran>>
    BY <2>0, <2>1 DEF SessionHeld, Works
  <2>2. CASE LockExpires(s, Holding(s))
    <3> SUFFICES ASSUME NEW z \in Sessions, NEW e \in Execs, Works(e, z), overran'[z] = {}
                 PROVE  lock'[z].holder = e /\ ~lock'[z].expired
      BY <2>0 DEF SessionHeld, Works
    <3>1. overran[z] = {} /\ \A y \in Sessions : y # s => lock'[y] = lock[y]
      BY <2>2, <1>a DEF LockExpires, LockTypeOK
    <3>2. lock[z].holder = e /\ ~lock[z].expired
      BY <3>1 DEF SessionHeld
    <3>3. z # s
      <4> SUFFICES ASSUME z = s PROVE FALSE
        OBVIOUS
      <4>1. Holding(s)
        BY <3>2 DEF Holding, Works, WorkPhases
      <4>2. e \in overran'[s]
        BY <4>1, <3>2, <2>2, <1>a DEF LockExpires, LockTypeOK
      <4> QED BY <4>2
    <3> QED BY <3>1, <3>2, <3>3
  <2> QED BY <1>3, <2>1, <2>2 DEF SessionLockStep, RenewEnds
<1> QED BY <1>1, <1>2, <1>3

LEMMA HeldNext == Typed /\ SessionHeld /\ [Next]_vars => SessionHeld'
  BY HeldTask, HeldAnswer, HeldOther, HeldLock DEF Next

(* The requests of a session are served one at a time until a lock row runs   *)
(* out under its holder: takeovers, releases and forced unlocks by name,       *)
(* reaping, crashes and requeues let nobody else in.                           *)
THEOREM SessionsAreSerial == Spec => []SerialUntilLapse
<1>1. Init => SessionHeld
  BY FreeExec DEF Init, SessionHeld, Works, WorkPhases
<1>2. SessionHeld => SerialUntilLapse
  BY DEF SessionHeld, SerialUntilLapse, Works, Inside, WorkPhases
<1> QED BY <1>1, <1>2, HeldNext, AlwaysTyped, PTL DEF Spec

----------------------------------------------------------------------------
(* The concurrency limit of the bot. *)

RunningRows == InStatus("RUNNING")
Rooms == {p \in Pods : room[p]}

(* Neither a running row nor a tick about to claim is added. *)
NoneAdded == RunningRows' \subseteq RunningRows /\ Rooms' \subseteq Rooms

LEMMA DoneAddsNone ==
    ASSUME TypeOK, NEW r, NEW fails, force_done(r, fails) PROVE RunningRows' \subseteq RunningRows
<1>1. \A x \in Runs : queue'[x].status = "RUNNING" => queue[x].status = "RUNNING"
  <2>1. \A x \in Runs : queue[x] \in Work
    BY DEF TypeOK
  <2>2. \A x \in Runs : x # r => queue'[x] = queue[x]
    BY DEF TypeOK, force_done
  <2>3. r \in Runs => \/ queue'[r] = queue[r]
                    \/ queue'[r] = [queue[r] EXCEPT !.status = IF @ \in Open THEN "DONE" ELSE @]
    BY DEF TypeOK, force_done
  <2> QED BY <2>1, <2>2, <2>3 DEF Work
<1> QED BY <1>1 DEF RunningRows, InStatus

LEMMA Addition ==
    ASSUME Typed, [Next]_vars
    PROVE  \/ NoneAdded
           \/ \E p \in Pods : CountRunning(p)
           \/ \E p \in Pods, r \in Runs, e \in Execs : claim_pending_by_bot(p, r, e)
<1> USE DEF rowVars, podVars, NoneAdded
<1>a. TypeOK /\ queue \in [Runs -> Work] /\ room \in [Pods -> BOOLEAN]
  BY DEF Typed, TypeOK
<1>r. UNCHANGED room => Rooms' \subseteq Rooms
  BY DEF Rooms
<1>q. UNCHANGED queue => RunningRows' \subseteq RunningRows
  BY DEF RunningRows, InStatus
<1>d. ASSUME NEW r, NEW st, queue' = [queue EXCEPT ![r].status = st], st # "RUNNING"
      PROVE  RunningRows' \subseteq RunningRows
  <2>1. \A x \in Runs : queue'[x] = IF x = r THEN [queue[x] EXCEPT !.status = st] ELSE queue[x]
    BY <1>d, <1>a
  <2> QED BY <2>1, <1>d, <1>a DEF RunningRows, InStatus, Work
<1>p. \A w \in Work : Pending(w).status = "PENDING"
  BY DEF Pending, Work
<1>1. ASSUME NEW e \in Execs, TaskStep(e) PROVE NoneAdded
  <2>0. UNCHANGED room
    BY <1>1 DEF TaskStep, ExpiresAtStart, LocksSession, FindsSessionBusy, _requeue_pending,
                CancelledUnstarted, Unlock, Cancelled, _mark_queue_done, _mark_cancelled,
                PostRunCancelled, _post_run, AssuredCallback, ExecStep, Quiet
  <2>1. ASSUME NEW fails \in BOOLEAN, _requeue_pending(e, fails) PROVE NoneAdded
    <3>1. \A x \in Runs : queue'[x] = queue[x] \/ queue'[x] = Pending(queue[x])
      BY <2>1, <1>a DEF _requeue_pending
    <3>2. RunningRows' \subseteq RunningRows
      BY <3>1, <1>p, <1>a DEF RunningRows, InStatus
    <3> QED BY <3>2, <2>0, <1>r
  <2>2. ASSUME NEW fails \in BOOLEAN, _mark_queue_done(e, fails) PROVE NoneAdded
    BY <2>2, <2>0, <1>r, <1>q, <1>d DEF _mark_queue_done
  <2> QED BY <1>1, <2>0, <2>1, <2>2, <1>r, <1>q
          DEF TaskStep, ExpiresAtStart, TryToSettle, LocksSession, FindsSessionBusy,
              CancelledUnstarted, Unlock, Cancelled, _mark_cancelled, PostRunCancelled, _post_run, AssuredCallback
<1>2. ASSUME NEW e \in Execs, BotAnswers(e) PROVE NoneAdded
  BY <1>2, <1>r, <1>q DEF BotAnswers, Bind, BindingMissing, Outage, Send, ExecStep, Quiet
<1>3. ASSUME NEW e \in Execs, WatchStep(e) PROVE NoneAdded
  <2>1. CASE touch_heartbeat(e)
    <3>1. \A x \in Runs : queue'[x] = queue[x] \/ queue'[x] = [queue[x] EXCEPT !.beat = "fresh"]
      BY <2>1, <1>a DEF touch_heartbeat
    <3>2. RunningRows' \subseteq RunningRows
      BY <3>1, <1>a DEF RunningRows, InStatus, Work
    <3> QED BY <3>2, <2>1, <1>r DEF touch_heartbeat
  <2> QED BY <1>3, <2>1, <1>a, <1>r, DoneAddsNone
          DEF WatchStep, _abort_poll_loop, _terminate_local_timeout, ExecStep, Quiet
<1>4. ASSUME NEW p \in Pods, TickStep(p) PROVE
             \/ NoneAdded
             \/ CountRunning(p)
             \/ \E r \in Runs, e \in Execs : claim_pending_by_bot(p, r, e)
  <2>1. CASE ClaimNothing(p)
    <3>1. Rooms' \subseteq Rooms
      BY <2>1, <1>a DEF ClaimNothing, Rooms
    <3> QED BY <3>1, <2>1, <1>q DEF ClaimNothing
  <2> QED BY <1>4, <2>1 DEF TickStep
<1>5. ASSUME NEW p \in Pods, Crash(p) PROVE NoneAdded
  <2>1. Rooms' \subseteq Rooms
    BY <1>5, <1>a DEF Crash, Rooms
  <2> QED BY <2>1, <1>5, <1>q DEF Crash
<1>6. ASSUME NEW p \in Pods, NEW r \in Runs, AbortFinds(p, r) PROVE NoneAdded
  BY <1>6, <1>r, <1>q DEF AbortFinds, AbortStep
<1>7. CASE AbortRecord
  <2>1. ASSUME NEW fails \in BOOLEAN, request_abort(fails) PROVE NoneAdded
    <3>1. \A x \in Runs : queue'[x] = queue[x] \/ queue'[x] = [queue[x] EXCEPT !.abort = TRUE]
      BY <2>1, <1>a DEF request_abort
    <3>2. RunningRows' \subseteq RunningRows
      BY <3>1, <1>a DEF RunningRows, InStatus, Work
    <3> QED BY <3>2, <2>1, <1>r DEF request_abort, AbortStep
  <2> QED BY <1>7, <2>1, <1>a, <1>r, <1>q, DoneAddsNone
          DEF AbortRecord, AbortMarks, AbortEnds, AbortStep
<1>8. CASE ScanRecord
  BY <1>8, <1>a, <1>r, <1>q, DoneAddsNone
     DEF ScanRecord, scan_timeout, ScanMarks, ScanEnds, _fire_timeout_callback, ScanStep
<1>9. CASE reset_stale_running
  <2>1. \A x \in Runs : queue'[x] = queue[x] \/ queue'[x] = Pending(queue[x])
    BY <1>9 DEF reset_stale_running
  <2>2. RunningRows' \subseteq RunningRows
    BY <2>1, <1>p, <1>a DEF RunningRows, InStatus
  <2> QED BY <2>2, <1>9, <1>r DEF reset_stale_running, Environment
<1>10. ASSUME NEW r \in Runs, Dispatch(r) PROVE NoneAdded
  BY <1>10, <1>r, <1>d DEF Dispatch
<1>11. ASSUME NEW r \in Runs, GoesStale(r) PROVE NoneAdded
  <2>1. \A x \in Runs : queue'[x] = queue[x] \/ queue'[x] = [queue[x] EXCEPT !.beat = "stale"]
    BY <1>11, <1>a DEF GoesStale
  <2>2. RunningRows' \subseteq RunningRows
    BY <2>1, <1>a DEF RunningRows, InStatus, Work
  <2> QED BY <2>2, <1>11, <1>r DEF GoesStale, Environment
<1>12. ASSUME NEW r \in Runs, DeadlinePasses(r) PROVE NoneAdded
  BY <1>12, <1>r, <1>q DEF DeadlinePasses, Environment
<1>13. ASSUME NEW s \in Sessions, SessionLockStep(s) PROVE NoneAdded
  BY <1>13, <1>r, <1>q DEF SessionLockStep, Environment
<1>14. CASE ReapLocks \/ UNCHANGED vars
  BY <1>14, <1>r, <1>q DEF ReapLocks, Environment, vars
<1> QED BY <1>1, <1>2, <1>3, <1>4, <1>5, <1>6, <1>7, <1>8, <1>9, <1>10, <1>11, <1>12, <1>13,
           <1>14 DEF Next

LEMMA CountsOf ==
    ASSUME NEW R, R \subseteq Runs, NEW Q, Q \subseteq Pods
    PROVE  /\ IsFiniteSet(R) /\ Cardinality(R) \in Nat
           /\ IsFiniteSet(Q) /\ Cardinality(Q) \in Nat
           /\ Cardinality(Q) <= Cardinality(Pods)
           /\ Cardinality(Pods) \in Nat \ {0}
<1>1. IsFiniteSet(Runs) /\ IsFiniteSet(Pods) /\ Pods # {}
  BY RunAssumption
<1>2. IsFiniteSet(R) /\ IsFiniteSet(Q) /\ Cardinality(Q) <= Cardinality(Pods)
  BY <1>1, FS_Subset
<1>3. Cardinality(Pods) # 0
  BY <1>1, FS_EmptySet
<1> QED BY <1>1, <1>2, <1>3, FS_CardinalityType

LEMMA Counts ==
    /\ IsFiniteSet(RunningRows) /\ Cardinality(RunningRows) \in Nat
    /\ IsFiniteSet(Rooms) /\ Cardinality(Rooms) \in Nat
    /\ Cardinality(Rooms) <= Cardinality(Pods)
    /\ Cardinality(Pods) \in Nat \ {0}
<1>1. RunningRows \subseteq Runs /\ Rooms \subseteq Pods
  BY DEF RunningRows, InStatus, Rooms
<1> QED BY <1>1, CountsOf

LEMMA SmallerSum ==
    ASSUME NEW a \in Nat, NEW b \in Nat, NEW c \in Nat, NEW d \in Nat, NEW n \in Int,
           c <= a, d <= b, a + b <= n
    PROVE  c + d <= n
  OBVIOUS

LEMMA LimitStep ==
    ASSUME Typed, LimitOvershoot, [Next]_vars PROVE LimitOvershoot'
<1>a. Typed'
  BY TypedNext
<1>b. queue \in [Runs -> Work] /\ room \in [Pods -> BOOLEAN]
  BY DEF Typed, TypeOK
<1>c. MaxRunning \in Nat
  BY RunAssumption
<1>d. /\ IsFiniteSet(RunningRows') /\ Cardinality(RunningRows') \in Nat
      /\ IsFiniteSet(Rooms') /\ Cardinality(Rooms') \in Nat
      /\ Cardinality(Rooms') <= Cardinality(Pods)
  <2>1. RunningRows' \subseteq Runs /\ Rooms' \subseteq Pods
    BY DEF RunningRows, InStatus, Rooms
  <2> QED BY <2>1, CountsOf
<1>l. /\ LimitOvershoot = (Cardinality(RunningRows) + Cardinality(Rooms)
                              <= MaxRunning + Cardinality(Pods) - 1)
      /\ LimitOvershoot' = (Cardinality(RunningRows') + Cardinality(Rooms')
                              <= MaxRunning + Cardinality(Pods) - 1)
  BY DEF LimitOvershoot, RunningRows, Rooms
<1>1. CASE NoneAdded
  <2>1. /\ Cardinality(RunningRows') <= Cardinality(RunningRows)
        /\ Cardinality(Rooms') <= Cardinality(Rooms)
    BY <1>1, Counts, FS_Subset DEF NoneAdded
  <2>2. MaxRunning + Cardinality(Pods) - 1 \in Int
    BY <1>c, Counts
  <2> QED BY <2>1, <2>2, <1>l, <1>d, Counts, SmallerSum
<1>2. ASSUME NEW p \in Pods, CountRunning(p) PROVE LimitOvershoot'
  <2>1. RunningRows' = RunningRows
    BY <1>2 DEF CountRunning, RunningRows, InStatus, rowVars
  <2>2. Cardinality(RunningRows) < MaxRunning
    BY <1>2 DEF CountRunning, _count_running, RunningRows
  <2> QED BY <2>1, <2>2, <1>l, <1>d, <1>c, Counts
<1>3. ASSUME NEW p \in Pods, NEW r \in Runs, NEW e \in Execs, claim_pending_by_bot(p, r, e)
      PROVE  LimitOvershoot'
  <2>1. r \notin RunningRows /\ p \in Rooms
    BY <1>3 DEF claim_pending_by_bot, Claims, RunningRows, InStatus, Rooms
  <2>2. RunningRows' = RunningRows \cup {r}
    <3>1. \A x \in Runs : x # r => queue'[x] = queue[x]
      BY <1>3, <1>b DEF claim_pending_by_bot
    <3>2. queue'[r].status = "RUNNING"
      BY <1>3, <1>b DEF claim_pending_by_bot, Work
    <3> QED BY <3>1, <3>2 DEF RunningRows, InStatus
  <2>3. Rooms' = Rooms \ {p}
    BY <1>3, <1>b DEF claim_pending_by_bot, Rooms
  <2>4. Cardinality(RunningRows') = Cardinality(RunningRows) + 1
    BY <2>1, <2>2, Counts, FS_AddElement
  <2>5. Cardinality(Rooms') = Cardinality(Rooms) - 1
    BY <2>1, <2>3, Counts, FS_RemoveElement
  <2> QED BY <2>4, <2>5, <1>l, <1>c, Counts
<1> QED BY <1>1, <1>2, <1>3, Addition

(* The processes exceed the bot's limit by at most one run each but one.      *)
THEOREM OvershootIsBounded == Spec => []LimitOvershoot
<1>1. Init => LimitOvershoot
  <2> SUFFICES ASSUME Init PROVE LimitOvershoot
    OBVIOUS
  <2>1. RunningRows = {} /\ Rooms = {}
    BY DEF Init, RunningRows, InStatus, Rooms
  <2>2. Cardinality({}) = 0
    BY FS_EmptySet
  <2> QED BY <2>1, <2>2, Counts, RunAssumption DEF LimitOvershoot, RunningRows, Rooms
<1>2. Typed /\ LimitOvershoot /\ [Next]_vars => LimitOvershoot'
  BY LimitStep
<1> QED BY <1>1, <1>2, AlwaysTyped, PTL DEF Spec
=============================================================================
