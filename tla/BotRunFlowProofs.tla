-------------------------- MODULE BotRunFlowProofs --------------------------
(***************************************************************************)
(* The life of a run, for any number of runs, sessions, processes and       *)
(* executions: its message is sent once, a closed row has its result, a     *)
(* result is final, and BCN is told the truth.                              *)
(*                                                                         *)
(* Good(r) is the inductive invariant, one run at a time.  A step touches   *)
(* one run, or none; Untouched carries Good over for the others.            *)
(***************************************************************************)
EXTENDS BotRunProofs

Early == {"start", "requeuing", "binding"}
(* The phases of an execution that started past the deadline of its run. *)
Late == {"start", "calling", "marking", "assured", "leaked"}
Of(r) == {e \in Execs : exec[e].run = r}

(* What a registered task is registered for. *)
TasksMatch ==
    \A p \in Pods, r \in Runs, e \in Execs :
        tasks[p][r] = e => exec[e].pod = p /\ exec[e].run = r

(* An undisturbed run has one execution at a time; it owns the row until the  *)
(* row is DONE, beats for it, and is cancelled only once the row is DONE.  It *)
(* leaves a RUNNING row behind only if its deadline passed before it started. *)
Flow(r) ==
    r \notin disturbed =>
        /\ \A e, f \in Of(r) : e = f
        /\ \A e \in Of(r) :
              /\ queue[r].status \in {"RUNNING", "DONE"}
              /\ queue[r].status = "RUNNING" =>
                    /\ queue[r].worker = exec[e].pod /\ queue[r].beat = "fresh"
                    /\ ~exec[e].cancel
                    /\ exec[e].phase \notin {"leaked", "failing"}
                    /\ exec[e].phase = "assured" => r \in overdue /\ sends[r] = 0
                    /\ exec[e].phase = "start" \/ "guardian" \in exec[e].watch
              /\ exec[e].phase # "leaked" => tasks[exec[e].pod][r] = e
              /\ sends[r] > 0 => exec[e].phase \notin Early
        /\ queue[r].status = "RUNNING" => Of(r) # {} \/ r \in overdue
        /\ sends[r] > 0 => queue[r].status = "DONE" \/ Of(r) # {}
        /\ sends[r] <= 1

(* What the rows, the scan and the abort know of a run.  An execution that    *)
(* goes on under a DONE row is cancelled, or will be by its abort poll.  The  *)
(* process that aborts a run of its own keeps the execution where it is.      *)
Settled(r) ==
    /\ queue[r].status = "absent" <=> result[r] = "absent"
    /\ Of(r) # {} \/ abort.run = r => queue[r].status # "absent"
    /\ scan.run = r => r \in overdue /\ queue[r].status # "absent"
    /\ \A e \in Of(r) : exec[e].phase \in {"start", "leaked"} => exec[e].watch = {}
    /\ r \notin disturbed =>
        /\ \A e \in Of(r) :
              /\ queue[r].status = "DONE"
              /\ \/ exec[e].phase \in {"binding", "sending"}
                 \/ exec[e].phase = "start" /\ r \notin overdue
              => exec[e].cancel \/ queue[r].abort
        /\ scan.run = r => \A e \in Of(r) : exec[e].phase \in Late
        /\ abort.run = r /\ abort.step = "requested" => queue[r].abort
        /\ abort.run = r /\ abort.mine =>
              /\ queue[r].status \in {"RUNNING", "DONE"} \/ r \in overdue
              /\ \A e \in Of(r) : \/ exec[e].pod = abort.pod /\ exec[e].phase \notin Sync
                                  \/ r \in overdue /\ exec[e].phase \in Late

(* Where the result of a run must be there already, or is being written. *)
Owed(r) ==
    \/ queue[r].status = "DONE"
    \/ \E e \in Of(r) : exec[e].phase \in {"unlocking", "calling", "marking", "assured"}
    \/ scan.run = r /\ scan.step \in {"marked", "done"}
    \/ abort.run = r /\ abort.step \in {"marked", "requested"}

Answered(r) ==
    Owed(r) => \/ result[r] \in Terminal \/ r \in lost
               \/ \E e \in Of(r) : exec[e].phase \in {"binding", "sending", "failing"}

(* The execution of a run is about to be cancelled by its own process. *)
Doomed(r) == abort.run = r /\ abort.mine /\ abort.step \in {"marked", "requested"}

(* Where no result can be there yet, and what BCN was told. *)
Final(r) ==
    r \notin disturbed \cup overtaken =>
        /\ \A e \in Of(r) : exec[e].phase = "binding" =>
              result[r] \in Open \/ exec[e].cancel \/ Doomed(r)
        /\ result[r] \in Terminal /\ r \notin overdue =>
              /\ queue[r].status \notin {"PENDING", "absent"}
              /\ \A e \in Of(r) : exec[e].phase \in Early =>
                    exec[e].phase # "requeuing" /\ (exec[e].cancel \/ Doomed(r))
        /\ told[r] # "none" => result[r] = told[r]

Good(r) == Flow(r) /\ Settled(r) /\ Answered(r) /\ Final(r)

(* A step that leaves run x alone. *)
Untouched(x) ==
    /\ queue'[x] = queue[x] /\ result'[x] = result[x]
    /\ sends'[x] = sends[x] /\ told'[x] = told[x]
    /\ disturbed \subseteq disturbed' /\ overtaken \subseteq overtaken'
    /\ x \in lost' <=> x \in lost
    /\ overdue \subseteq overdue'
    /\ \A e \in Execs : exec'[e].run = x \/ exec[e].run = x => exec'[e] = exec[e]
    /\ \A p \in Pods : tasks'[p][x] = tasks[p][x]
    /\ scan'.run = x => scan' = scan
    /\ abort.run = x \/ abort'.run = x => abort' = abort

LEMMA UntouchedGood ==
    ASSUME Typed, NEW x \in Runs, Good(x), Untouched(x) PROVE Good(x)'
<1>a. \A e \in Execs : exec'[e].run = x <=> exec[e].run = x
  BY DEF Untouched
<1>b. Of(x)' = Of(x) /\ \A e \in Of(x) : exec'[e] = exec[e]
  BY <1>a DEF Untouched, Of
<1>p. \A e \in Of(x) : exec[e].pod \in Pods
  BY RunAssumption DEF Of, Typed, Placed, Located, Free
<1>1. Flow(x)'
  BY <1>b, <1>p DEF Good, Flow, Untouched
<1>2. Settled(x)'
  BY <1>b DEF Good, Settled, Untouched
<1>3. Answered(x)'
  BY <1>b DEF Good, Answered, Owed, Untouched
<1>4. Final(x)'
  BY <1>b DEF Good, Final, Doomed, Untouched
<1> QED BY <1>1, <1>2, <1>3, <1>4 DEF Good

----------------------------------------------------------------------------
(* A step of execution e on its own run. *)
OwnStep(e, r) ==
    /\ e \in Execs /\ r \in Runs /\ exec[e].run = r
    /\ \A f \in Execs : f # e => exec'[f] = exec[f]
    /\ exec'[e].run \in {r, None}
    /\ \A x \in Runs : x # r => /\ queue'[x] = queue[x] /\ result'[x] = result[x]
                                /\ sends'[x] = sends[x] /\ told'[x] = told[x]
                                /\ x \in lost' <=> x \in lost
                                /\ \A p \in Pods : tasks'[p][x] = tasks[p][x]
    /\ disturbed \subseteq disturbed'
    /\ UNCHANGED <<overdue, scan, abort, overtaken>>

LEMMA OwnStepElsewhere ==
    ASSUME NEW e, NEW r, OwnStep(e, r), NEW x \in Runs, x # r PROVE Untouched(x)
  BY RunAssumption DEF OwnStep, Untouched

(* Execution e of run r goes on with these fields, alone. *)
Goes(e, r, ph, c, w) ==
    /\ \A f \in Execs : f # e => exec'[f] = exec[f]
    /\ exec'[e].phase = ph /\ exec'[e].cancel = c /\ exec'[e].watch = w
    /\ exec'[e].run = r /\ exec'[e].pod = exec[e].pod
    /\ Of(r)' = Of(r) /\ e \in Of(r) /\ e \in Execs /\ r \in Runs
    /\ \A f \in Of(r) : f # e => exec'[f] = exec[f]

(* Execution e of run r ends. *)
Leaves(e, r) ==
    /\ \A f \in Execs : f # e => exec'[f] = exec[f]
    /\ exec'[e].run = None
    /\ Of(r)' = Of(r) \ {e} /\ e \in Of(r) /\ e \in Execs /\ r \in Runs
    /\ \A f \in Of(r) : f # e => exec'[f] = exec[f]
    /\ \A x \in Runs, p \in Pods : x # r => tasks'[p][x] = tasks[p][x]

LEMMA RunOf ==
    ASSUME Typed, NEW e \in Execs, exec[e].phase # "free"
    PROVE  /\ exec[e].run \in Runs /\ exec[e].pod \in Pods /\ e \in Of(exec[e].run)
           /\ exec[e] \in Exec
  BY FreeExec DEF Typed, TypeOK, Placed, Located, Of

LEMMA GoToGoes ==
    ASSUME Typed, NEW e \in Execs, exec[e].phase # "free", NEW r, r = exec[e].run, NEW ph, GoTo(e, ph)
    PROVE  Goes(e, r, ph, exec[e].cancel, exec[e].watch)
<1>a. exec[e] \in Exec
  BY RunOf
<1>1. exec' = [exec EXCEPT ![e] = [exec[e] EXCEPT !.phase = ph]]
  BY DEF GoTo
<1>2. \A f \in Execs : f # e => exec'[f] = exec[f]
  BY <1>1 DEF Typed, TypeOK
<1>3. /\ exec'[e].phase = ph /\ exec'[e].cancel = exec[e].cancel
      /\ exec'[e].watch = exec[e].watch /\ exec'[e].run = exec[e].run
      /\ exec'[e].pod = exec[e].pod
  BY <1>1, <1>a DEF Typed, TypeOK, Exec
<1> QED BY <1>2, <1>3, RunOf DEF Goes, Of

LEMMA BeginGoes ==
    ASSUME Typed, NEW e \in Execs, exec[e].phase # "free", NEW r, r = exec[e].run, NEW ph, Begin(e, ph)
    PROVE  Goes(e, r, ph, exec[e].cancel, {"guardian", "poll"})
<1>a. exec[e] \in Exec
  BY RunOf
<1>1. exec' = [exec EXCEPT ![e] = [[exec[e] EXCEPT !.phase = ph]
                                      EXCEPT !.watch = {"guardian", "poll"}]]
  BY DEF Begin, Typed, TypeOK
<1>2. \A f \in Execs : f # e => exec'[f] = exec[f]
  BY <1>1 DEF Typed, TypeOK
<1>3. /\ exec'[e].phase = ph /\ exec'[e].cancel = exec[e].cancel
      /\ exec'[e].watch = {"guardian", "poll"} /\ exec'[e].run = exec[e].run
      /\ exec'[e].pod = exec[e].pod
  BY <1>1, <1>a DEF Typed, TypeOK, Exec
<1> QED BY <1>2, <1>3, RunOf DEF Goes, Of

LEMMA ResetGoes ==
    ASSUME Typed, NEW e \in Execs, exec[e].phase # "free", NEW r, r = exec[e].run, NEW ph,
           exec' = [exec EXCEPT ![e].phase = ph, ![e].cancel = FALSE]
    PROVE  Goes(e, r, ph, FALSE, exec[e].watch)
<1>a. exec[e] \in Exec
  BY RunOf
<1>1. exec' = [exec EXCEPT ![e] = [[exec[e] EXCEPT !.phase = ph] EXCEPT !.cancel = FALSE]]
  BY DEF Typed, TypeOK
<1>2. \A f \in Execs : f # e => exec'[f] = exec[f]
  BY <1>1 DEF Typed, TypeOK
<1>3. /\ exec'[e].phase = ph /\ exec'[e].cancel = FALSE
      /\ exec'[e].watch = exec[e].watch /\ exec'[e].run = exec[e].run
      /\ exec'[e].pod = exec[e].pod
  BY <1>1, <1>a DEF Typed, TypeOK, Exec
<1> QED BY <1>2, <1>3, RunOf DEF Goes, Of

LEMMA FinishLeaves ==
    ASSUME Typed, NEW e \in Execs, exec[e].phase # "free", NEW r, r = exec[e].run, Finish(e)
    PROVE  Leaves(e, r)
<1>1. \A f \in Execs : exec'[f] = IF f = e THEN Free ELSE exec[f]
  BY DEF Finish, Typed, TypeOK
<1>2. Free.run = None /\ None \notin Runs
  BY RunAssumption DEF Free
<1>3. Of(r)' = Of(r) \ {e}
  BY <1>1, <1>2, RunOf DEF Of
<1>p. exec[e].pod \in Pods /\ exec[e].run \in Runs
  BY RunOf
<1>t. tasks' = [tasks EXCEPT ![exec[e].pod] = [tasks[exec[e].pod] EXCEPT ![exec[e].run] = None]]
  BY DEF Finish
<1>4. ASSUME NEW x \in Runs, NEW p \in Pods, x # r
      PROVE  tasks'[p][x] = tasks[p][x]
  BY <1>t, <1>p, <1>4 DEF Typed, TypeOK
<1> QED BY <1>1, <1>2, <1>3, <1>4, RunOf DEF Leaves, Of

(* The rows of the other runs stay. *)
Others(r) ==
    \A x \in Runs : x # r => /\ queue'[x] = queue[x] /\ result'[x] = result[x]
                             /\ sends'[x] = sends[x] /\ told'[x] = told[x]
                             /\ x \in lost' <=> x \in lost

LEMMA GoesIsOwn ==
    ASSUME NEW e, NEW r, NEW ph, NEW c, NEW w, Goes(e, r, ph, c, w), Others(r),
           UNCHANGED <<tasks, overdue, scan, abort, overtaken>>, disturbed \subseteq disturbed'
    PROVE  OwnStep(e, r)
  BY DEF Goes, Others, OwnStep, Of

LEMMA LeavesIsOwn ==
    ASSUME NEW e, NEW r, Leaves(e, r), Others(r),
           UNCHANGED <<overdue, scan, abort, overtaken>>, disturbed \subseteq disturbed'
    PROVE  OwnStep(e, r)
  BY DEF Leaves, Others, OwnStep, Of

(* What Settle, TryToSettle, Tell and force_done do to one run. *)
LEMMA SettleAt ==
    ASSUME TypeOK, NEW r \in Runs, NEW st \in Terminal, Settle(r, st)
    PROVE  /\ \A x \in Runs : x # r => result'[x] = result[x]
           /\ result'[r] = IF result[r] \in Open THEN st ELSE result[r]
           /\ result[r] # "absent" => result'[r] \in Terminal
           /\ result[r] \in Terminal => result'[r] = result[r]
           /\ result[r] = "absent" => result'[r] = "absent"
  BY DEF Settle, TypeOK, Open, Terminal

LEMMA TryAt ==
    ASSUME TypeOK, NEW r \in Runs, NEW st \in Terminal, NEW fails \in BOOLEAN,
           TryToSettle(r, st, fails)
    PROVE  /\ \A x \in Runs : x # r => result'[x] = result[x] /\ (x \in lost' <=> x \in lost)
           /\ result[r] # "absent" => result'[r] \in Terminal \/ r \in lost'
           /\ result[r] \in Terminal => result'[r] = result[r]
           /\ result[r] = "absent" <=> result'[r] = "absent"
           /\ result'[r] = result[r] \/ result'[r] \in Terminal
           /\ r \in lost => r \in lost'
           /\ fails => result' = result
<1>1. lost' = IF fails THEN lost \cup {r} ELSE lost
  BY DEF TryToSettle, Add
<1>2. CASE fails
  BY <1>1, <1>2 DEF TryToSettle
<1>3. CASE ~fails
  <2>1. Settle(r, st)
    BY <1>3 DEF TryToSettle
  <2> QED BY <2>1, <1>1, <1>3, SettleAt DEF TypeOK, Open, Terminal
<1> QED BY <1>2, <1>3

LEMMA TellAt ==
    ASSUME TypeOK, NEW r \in Runs, NEW ok, Tell(r, ok)
    PROVE  /\ \A x \in Runs : x # r => told'[x] = told[x]
           /\ told'[r] = told[r] \/ (told'[r] = result[r] /\ result[r] \in Terminal)
  BY DEF Tell, TypeOK

LEMMA DoneAt ==
    ASSUME TypeOK, NEW r \in Runs, NEW fails \in BOOLEAN, force_done(r, fails)
    PROVE  /\ \A x \in Runs : x # r => queue'[x] = queue[x]
           /\ queue'[r].status = IF queue[r].status \in Open /\ ~fails THEN "DONE"
                                 ELSE queue[r].status
           /\ queue'[r].worker = queue[r].worker /\ queue'[r].beat = queue[r].beat
           /\ queue'[r].abort = queue[r].abort
           /\ disturbed' = IF fails THEN disturbed \cup {r} ELSE disturbed
           /\ r \notin disturbed' => ~fails /\ r \notin disturbed
  BY DEF force_done, TypeOK, Work, Add

(* While a process aborts a run of its own, the execution stays where it is. *)
LEMMA NotHeld ==
    ASSUME Typed, NEW e \in Execs, exec[e].phase # "free", NEW r, r = exec[e].run, Good(r),
           Idle(exec[e].pod) \/ exec[e].phase \in Sync,
           r \notin disturbed, abort.run = r, abort.mine
    PROVE  r \in overdue /\ exec[e].phase \in Late
<1>1. e \in Of(r)
  BY RunOf
<1>2. Idle(exec[e].pod) => abort.pod # exec[e].pod
  BY DEF Idle, Busy
<1> QED BY <1>1, <1>2 DEF Good, Settled

----------------------------------------------------------------------------
(* The steps of an execution. *)

LEMMA BindGood ==
    ASSUME Typed, NEW e \in Execs, Bind(e), NEW r, r = exec[e].run, Good(r)
    PROVE  OwnStep(e, r) /\ Good(r)'
<1>a. TypeOK /\ exec[e].phase = "binding" /\ ~exec[e].cancel /\ Idle(exec[e].pod)
  BY DEF Bind, Resumes, At, Typed
<1>1. Goes(e, r, "sending", exec[e].cancel, exec[e].watch)
  BY <1>a, GoToGoes DEF Bind, Resumes
<1>2. UNCHANGED <<queue, tasks, told, scan, abort, overdue,
                disturbed, overtaken>>
  BY DEF Bind, ExecStep, Quiet, Unharmed, rowVars
<1>s. /\ told[r] \in {"none"} \cup Terminal
      /\ result[r] \in {"absent"} \cup Open \cup Terminal
      /\ result[r] # "absent" /\ sends[r] \in 0..2
  BY <1>1, <1>a DEF Goes, Leaves, TypeOK, Good, Settled
<1>n. r \notin disturbed /\ abort.run = r /\ abort.mine =>
         r \in overdue /\ exec[e].phase \in Late
  BY <1>a, NotHeld DEF Sync
<1>3. /\ lost' = lost \ {r} /\ result'[r] = "RUNNING" /\ Others(r)
      /\ sends'[r] = IF sends[r] < 2 THEN sends[r] + 1 ELSE sends[r]
  BY <1>1, <1>2, <1>a DEF Goes, Bind, TypeOK, Others
<1>4. OwnStep(e, r)
  BY <1>1, <1>2, <1>3, GoesIsOwn DEF Others
<1>5. Flow(r)'
  BY <1>1, <1>2, <1>a, <1>s, <1>3 DEF Good, Flow, Goes, Early, Late
<1>6. Settled(r)'
  BY <1>1, <1>2, <1>a, <1>n, <1>s, <1>3 DEF Good, Flow, Settled, Goes, Late, Sync, Terminal
<1>7. Answered(r)'
  BY <1>1, <1>2, <1>a, <1>s, <1>3 DEF Good, Answered, Owed, Goes
<1>8. Final(r)'
  BY <1>1, <1>2, <1>a, <1>n, <1>s, <1>3
     DEF Good, Flow, Settled, Final, Doomed, Goes, Early, Late, Open, Terminal
<1> QED BY <1>4, <1>5, <1>6, <1>7, <1>8 DEF Good

LEMMA ExpiresGood ==
    ASSUME Typed, NEW e \in Execs, NEW fails \in BOOLEAN,
           ExpiresAtStart(e, fails), NEW r, r = exec[e].run, Good(r)
    PROVE  OwnStep(e, r) /\ Good(r)'
<1>a. TypeOK /\ exec[e].phase = "start" /\ ~exec[e].cancel /\ r \in overdue /\ Idle(exec[e].pod)
  BY DEF ExpiresAtStart, Resumes, At, TimedOut, Typed
<1>1. Goes(e, r, IF fails THEN "assured" ELSE "calling", exec[e].cancel, {"guardian", "poll"})
  BY <1>a, BeginGoes DEF ExpiresAtStart, Resumes
<1>2. UNCHANGED <<queue, tasks, sends, told, scan, abort, overdue,
                disturbed, overtaken>>
  BY DEF ExpiresAtStart, ExecStep, Quiet, Unharmed, rowVars
<1>s. /\ told[r] \in {"none"} \cup Terminal
      /\ result[r] \in {"absent"} \cup Open \cup Terminal
      /\ result[r] # "absent" /\ sends[r] \in 0..2
  BY <1>1, <1>a DEF Goes, Leaves, TypeOK, Good, Settled
<1>n. r \notin disturbed /\ abort.run = r /\ abort.mine =>
         r \in overdue /\ exec[e].phase \in Late
  BY <1>a, NotHeld DEF Sync
<1>3. /\ \A x \in Runs : x # r => result'[x] = result[x] /\ (x \in lost' <=> x \in lost)
      /\ result'[r] \in Terminal \/ r \in lost'
      /\ result'[r] = result[r] \/ result'[r] \in Terminal
      /\ result[r] \in Terminal => result'[r] = result[r]
      /\ result[r] = "absent" <=> result'[r] = "absent"
      /\ r \in lost => r \in lost'
  BY <1>1, <1>a, <1>s, TryAt DEF Goes, ExpiresAtStart, Terminal
<1>4. OwnStep(e, r)
  BY <1>1, <1>2, <1>3, GoesIsOwn DEF Others
<1>5. Flow(r)'
  BY <1>1, <1>2, <1>a, <1>s, <1>3 DEF Good, Flow, Goes, Early, Late
<1>6. Settled(r)'
  BY <1>1, <1>2, <1>a, <1>n, <1>s, <1>3 DEF Good, Flow, Settled, Goes, Late, Sync, Terminal
<1>7. Answered(r)'
  BY <1>1, <1>2, <1>a, <1>s, <1>3 DEF Good, Answered, Owed, Goes
<1>8. Final(r)'
  BY <1>1, <1>2, <1>a, <1>n, <1>s, <1>3
     DEF Good, Flow, Settled, Final, Doomed, Goes, Early, Late, Open, Terminal
<1> QED BY <1>4, <1>5, <1>6, <1>7, <1>8 DEF Good

LEMMA LocksGood ==
    ASSUME Typed, NEW e \in Execs, LocksSession(e), NEW r, r = exec[e].run, Good(r)
    PROVE  OwnStep(e, r) /\ Good(r)'
<1>a. TypeOK /\ exec[e].phase = "start" /\ ~exec[e].cancel /\ r \notin overdue /\ Idle(exec[e].pod)
  BY DEF LocksSession, Resumes, At, TimedOut, Typed
<1>1. Goes(e, r, "binding", exec[e].cancel, {"guardian", "poll"})
  BY <1>a, BeginGoes DEF LocksSession, Resumes
<1>2. UNCHANGED <<queue, result, tasks, sends, told, scan, abort, overdue,
                disturbed, overtaken, lost>>
  BY DEF LocksSession, ExecStep, Quiet, Unharmed, rowVars
<1>s. /\ told[r] \in {"none"} \cup Terminal
      /\ result[r] \in {"absent"} \cup Open \cup Terminal
      /\ result[r] # "absent" /\ sends[r] \in 0..2
  BY <1>1, <1>a DEF Goes, Leaves, TypeOK, Good, Settled
<1>n. r \notin disturbed /\ abort.run = r /\ abort.mine =>
         r \in overdue /\ exec[e].phase \in Late
  BY <1>a, NotHeld DEF Sync
<1>4. OwnStep(e, r)
  BY <1>1, <1>2, GoesIsOwn DEF Others
<1>5. Flow(r)'
  BY <1>1, <1>2, <1>a, <1>s DEF Good, Flow, Goes, Early, Late
<1>6. Settled(r)'
  BY <1>1, <1>2, <1>a, <1>n, <1>s DEF Good, Flow, Settled, Goes, Late, Sync, Terminal
<1>7. Answered(r)'
  BY <1>1, <1>2, <1>a, <1>s DEF Good, Answered, Owed, Goes
<1>8. Final(r)'
  BY <1>1, <1>2, <1>a, <1>n, <1>s
     DEF Good, Flow, Settled, Final, Doomed, Goes, Early, Late, Open, Terminal
<1> QED BY <1>4, <1>5, <1>6, <1>7, <1>8 DEF Good

LEMMA BusyGood ==
    ASSUME Typed, NEW e \in Execs, FindsSessionBusy(e), NEW r, r = exec[e].run, Good(r)
    PROVE  OwnStep(e, r) /\ Good(r)'
<1>a. TypeOK /\ exec[e].phase = "start" /\ ~exec[e].cancel /\ r \notin overdue /\ Idle(exec[e].pod)
  BY DEF FindsSessionBusy, Resumes, At, TimedOut, Typed
<1>1. Goes(e, r, "requeuing", exec[e].cancel, {"guardian", "poll"})
  BY <1>a, BeginGoes DEF FindsSessionBusy, Resumes
<1>2. UNCHANGED <<queue, result, tasks, sends, told, scan, abort, overdue,
                disturbed, overtaken, lost>>
  BY DEF FindsSessionBusy, ExecStep, Quiet, Unharmed, rowVars
<1>s. /\ told[r] \in {"none"} \cup Terminal
      /\ result[r] \in {"absent"} \cup Open \cup Terminal
      /\ result[r] # "absent" /\ sends[r] \in 0..2
  BY <1>1, <1>a DEF Goes, Leaves, TypeOK, Good, Settled
<1>n. r \notin disturbed /\ abort.run = r /\ abort.mine =>
         r \in overdue /\ exec[e].phase \in Late
  BY <1>a, NotHeld DEF Sync
<1>4. OwnStep(e, r)
  BY <1>1, <1>2, GoesIsOwn DEF Others
<1>5. Flow(r)'
  BY <1>1, <1>2, <1>a, <1>s DEF Good, Flow, Goes, Early, Late
<1>6. Settled(r)'
  BY <1>1, <1>2, <1>a, <1>n, <1>s DEF Good, Flow, Settled, Goes, Late, Sync, Terminal
<1>7. Answered(r)'
  BY <1>1, <1>2, <1>a, <1>s DEF Good, Answered, Owed, Goes
<1>8. Final(r)'
  BY <1>1, <1>2, <1>a, <1>n, <1>s
     DEF Good, Flow, Settled, Final, Doomed, Goes, Early, Late, Open, Terminal
<1> QED BY <1>4, <1>5, <1>6, <1>7, <1>8 DEF Good

LEMMA UnstartedGood ==
    ASSUME Typed, NEW e \in Execs,
           CancelledUnstarted(e), NEW r, r = exec[e].run, Good(r)
    PROVE  OwnStep(e, r) /\ Good(r)'
<1>a. TypeOK /\ exec[e].phase = "start" /\ exec[e].cancel /\ Idle(exec[e].pod)
  BY DEF CancelledUnstarted, At, Typed
<1>1. Goes(e, r, "leaked", exec[e].cancel, exec[e].watch)
  BY <1>a, GoToGoes DEF CancelledUnstarted
<1>2. UNCHANGED <<queue, result, tasks, sends, told, scan, abort, overdue,
                disturbed, overtaken, lost>>
  BY DEF CancelledUnstarted, ExecStep, Quiet, Unharmed, rowVars
<1>s. /\ told[r] \in {"none"} \cup Terminal
      /\ result[r] \in {"absent"} \cup Open \cup Terminal
      /\ result[r] # "absent" /\ sends[r] \in 0..2
  BY <1>1, <1>a DEF Goes, Leaves, TypeOK, Good, Settled
<1>n. r \notin disturbed /\ abort.run = r /\ abort.mine =>
         r \in overdue /\ exec[e].phase \in Late
  BY <1>a, NotHeld DEF Sync
<1>4. OwnStep(e, r)
  BY <1>1, <1>2, GoesIsOwn DEF Others
<1>5. Flow(r)'
  BY <1>1, <1>2, <1>a, <1>s DEF Good, Flow, Goes, Early, Late
<1>6. Settled(r)'
  BY <1>1, <1>2, <1>a, <1>n, <1>s DEF Good, Flow, Settled, Goes, Late, Sync, Terminal
<1>7. Answered(r)'
  BY <1>1, <1>2, <1>a, <1>s DEF Good, Answered, Owed, Goes
<1>8. Final(r)'
  BY <1>1, <1>2, <1>a, <1>n, <1>s
     DEF Good, Flow, Settled, Final, Doomed, Goes, Early, Late, Open, Terminal
<1> QED BY <1>4, <1>5, <1>6, <1>7, <1>8 DEF Good

LEMMA UnlockGood ==
    ASSUME Typed, NEW e \in Execs, NEW fails \in BOOLEAN,
           Unlock(e, fails), NEW r, r = exec[e].run, Good(r)
    PROVE  OwnStep(e, r) /\ Good(r)'
<1>a. TypeOK /\ exec[e].phase = "unlocking"
  BY DEF Unlock, At, Typed
<1>1. Goes(e, r, "calling", exec[e].cancel, exec[e].watch)
  BY <1>a, GoToGoes DEF Unlock
<1>2. UNCHANGED <<queue, result, tasks, sends, told, scan, abort, overdue,
                disturbed, overtaken, lost>>
  BY DEF Unlock, ExecStep, Quiet, Unharmed, rowVars
<1>s. /\ told[r] \in {"none"} \cup Terminal
      /\ result[r] \in {"absent"} \cup Open \cup Terminal
      /\ result[r] # "absent" /\ sends[r] \in 0..2
  BY <1>1, <1>a DEF Goes, Leaves, TypeOK, Good, Settled
<1>n. r \notin disturbed /\ abort.run = r /\ abort.mine =>
         r \in overdue /\ exec[e].phase \in Late
  BY <1>a, NotHeld DEF Sync
<1>4. OwnStep(e, r)
  BY <1>1, <1>2, GoesIsOwn DEF Others
<1>5. Flow(r)'
  BY <1>1, <1>2, <1>a, <1>s DEF Good, Flow, Goes, Early, Late
<1>6. Settled(r)'
  BY <1>1, <1>2, <1>a, <1>n, <1>s DEF Good, Flow, Settled, Goes, Late, Sync, Terminal
<1>7. Answered(r)'
  BY <1>1, <1>2, <1>a, <1>s DEF Good, Answered, Owed, Goes
<1>8. Final(r)'
  BY <1>1, <1>2, <1>a, <1>n, <1>s
     DEF Good, Flow, Settled, Final, Doomed, Goes, Early, Late, Open, Terminal
<1> QED BY <1>4, <1>5, <1>6, <1>7, <1>8 DEF Good

LEMMA CancelledGood ==
    ASSUME Typed, NEW e \in Execs, NEW fails \in BOOLEAN,
           Cancelled(e, fails), NEW r, r = exec[e].run, Good(r)
    PROVE  OwnStep(e, r) /\ Good(r)'
<1>a. TypeOK /\ exec[e].phase \in {"binding", "sending"} /\ exec[e].cancel /\ Idle(exec[e].pod)
  BY DEF Cancelled, At, Typed
<1>1. Goes(e, r, "failing", FALSE, exec[e].watch)
  BY <1>a, ResetGoes DEF Cancelled
<1>2. UNCHANGED <<queue, result, tasks, sends, told, scan, abort, overdue,
                disturbed, overtaken, lost>>
  BY DEF Cancelled, ExecStep, Quiet, Unharmed, rowVars
<1>s. /\ told[r] \in {"none"} \cup Terminal
      /\ result[r] \in {"absent"} \cup Open \cup Terminal
      /\ result[r] # "absent" /\ sends[r] \in 0..2
  BY <1>1, <1>a DEF Goes, Leaves, TypeOK, Good, Settled
<1>n. r \notin disturbed /\ abort.run = r /\ abort.mine =>
         r \in overdue /\ exec[e].phase \in Late
  BY <1>a, NotHeld DEF Sync
<1>4. OwnStep(e, r)
  BY <1>1, <1>2, GoesIsOwn DEF Others
<1>5. Flow(r)'
  BY <1>1, <1>2, <1>a, <1>s DEF Good, Flow, Goes, Early, Late
<1>6. Settled(r)'
  BY <1>1, <1>2, <1>a, <1>n, <1>s DEF Good, Flow, Settled, Goes, Late, Sync, Terminal
<1>7. Answered(r)'
  BY <1>1, <1>2, <1>a, <1>s DEF Good, Answered, Owed, Goes
<1>8. Final(r)'
  BY <1>1, <1>2, <1>a, <1>n, <1>s
     DEF Good, Flow, Settled, Final, Doomed, Goes, Early, Late, Open, Terminal
<1> QED BY <1>4, <1>5, <1>6, <1>7, <1>8 DEF Good

LEMMA PostRunCancelledGood ==
    ASSUME Typed, NEW e \in Execs, PostRunCancelled(e), NEW r, r = exec[e].run, Good(r)
    PROVE  OwnStep(e, r) /\ Good(r)'
<1>a. TypeOK /\ exec[e].phase = "calling" /\ exec[e].cancel /\ Idle(exec[e].pod)
  BY DEF PostRunCancelled, At, Typed
<1>1. Goes(e, r, "assured", FALSE, exec[e].watch)
  BY <1>a, ResetGoes DEF PostRunCancelled
<1>2. UNCHANGED <<queue, result, tasks, sends, told, scan, abort, overdue,
                disturbed, overtaken, lost>>
  BY DEF PostRunCancelled, ExecStep, Quiet, Unharmed, rowVars
<1>s. /\ told[r] \in {"none"} \cup Terminal
      /\ result[r] \in {"absent"} \cup Open \cup Terminal
      /\ result[r] # "absent" /\ sends[r] \in 0..2
  BY <1>1, <1>a DEF Goes, Leaves, TypeOK, Good, Settled
<1>n. r \notin disturbed /\ abort.run = r /\ abort.mine =>
         r \in overdue /\ exec[e].phase \in Late
  BY <1>a, NotHeld DEF Sync
<1>4. OwnStep(e, r)
  BY <1>1, <1>2, GoesIsOwn DEF Others
<1>5. Flow(r)'
  BY <1>1, <1>2, <1>a, <1>s DEF Good, Flow, Goes, Early, Late
<1>6. Settled(r)'
  BY <1>1, <1>2, <1>a, <1>n, <1>s DEF Good, Flow, Settled, Goes, Late, Sync, Terminal
<1>7. Answered(r)'
  BY <1>1, <1>2, <1>a, <1>s DEF Good, Answered, Owed, Goes
<1>8. Final(r)'
  BY <1>1, <1>2, <1>a, <1>n, <1>s
     DEF Good, Flow, Settled, Final, Doomed, Goes, Early, Late, Open, Terminal
<1> QED BY <1>4, <1>5, <1>6, <1>7, <1>8 DEF Good

LEMMA MarkCancelledGood ==
    ASSUME Typed, NEW e \in Execs, NEW fails \in BOOLEAN,
           _mark_cancelled(e, fails), NEW r, r = exec[e].run, Good(r)
    PROVE  OwnStep(e, r) /\ Good(r)'
<1>a. TypeOK /\ exec[e].phase = "failing"
  BY DEF _mark_cancelled, At, Typed
<1>1. Goes(e, r, "assured", exec[e].cancel, exec[e].watch)
  BY <1>a, GoToGoes DEF _mark_cancelled
<1>2. UNCHANGED <<queue, tasks, sends, told, scan, abort, overdue,
                disturbed, overtaken>>
  BY DEF _mark_cancelled, ExecStep, Quiet, Unharmed, rowVars
<1>s. /\ told[r] \in {"none"} \cup Terminal
      /\ result[r] \in {"absent"} \cup Open \cup Terminal
      /\ result[r] # "absent" /\ sends[r] \in 0..2
  BY <1>1, <1>a DEF Goes, Leaves, TypeOK, Good, Settled
<1>n. r \notin disturbed /\ abort.run = r /\ abort.mine =>
         r \in overdue /\ exec[e].phase \in Late
  BY <1>a, NotHeld DEF Sync
<1>3. /\ \A x \in Runs : x # r => result'[x] = result[x] /\ (x \in lost' <=> x \in lost)
      /\ result'[r] \in Terminal \/ r \in lost'
      /\ result'[r] = result[r] \/ result'[r] \in Terminal
      /\ result[r] \in Terminal => result'[r] = result[r]
      /\ result[r] = "absent" <=> result'[r] = "absent"
      /\ r \in lost => r \in lost'
  BY <1>1, <1>a, <1>s, TryAt DEF Goes, _mark_cancelled, Terminal
<1>4. OwnStep(e, r)
  BY <1>1, <1>2, <1>3, GoesIsOwn DEF Others
<1>5. Flow(r)'
  BY <1>1, <1>2, <1>a, <1>s, <1>3 DEF Good, Flow, Goes, Early, Late
<1>6. Settled(r)'
  BY <1>1, <1>2, <1>a, <1>n, <1>s, <1>3 DEF Good, Flow, Settled, Goes, Late, Sync, Terminal
<1>7. Answered(r)'
  BY <1>1, <1>2, <1>a, <1>s, <1>3 DEF Good, Answered, Owed, Goes
<1>8. Final(r)'
  BY <1>1, <1>2, <1>a, <1>n, <1>s, <1>3
     DEF Good, Flow, Settled, Final, Doomed, Goes, Early, Late, Open, Terminal
<1> QED BY <1>4, <1>5, <1>6, <1>7, <1>8 DEF Good

LEMMA MissingGood ==
    ASSUME Typed, NEW e \in Execs, BindingMissing(e), NEW r, r = exec[e].run, Good(r)
    PROVE  OwnStep(e, r) /\ Good(r)'
<1>a. TypeOK /\ exec[e].phase = "binding" /\ ~exec[e].cancel /\ Idle(exec[e].pod)
  BY DEF BindingMissing, Resumes, At, Typed
<1>1. Goes(e, r, "unlocking", exec[e].cancel, exec[e].watch)
  BY <1>a, GoToGoes DEF BindingMissing, Resumes
<1>2. UNCHANGED <<queue, tasks, sends, told, scan, abort, overdue,
                disturbed, overtaken, lost>>
  BY DEF BindingMissing, ExecStep, Quiet, Unharmed, rowVars
<1>s. /\ told[r] \in {"none"} \cup Terminal
      /\ result[r] \in {"absent"} \cup Open \cup Terminal
      /\ result[r] # "absent" /\ sends[r] \in 0..2
  BY <1>1, <1>a DEF Goes, Leaves, TypeOK, Good, Settled
<1>n. r \notin disturbed /\ abort.run = r /\ abort.mine =>
         r \in overdue /\ exec[e].phase \in Late
  BY <1>a, NotHeld DEF Sync
<1>3. /\ \A x \in Runs : x # r => result'[x] = result[x]
      /\ result'[r] \in Terminal
      /\ result[r] \in Terminal => result'[r] = result[r]
  BY <1>1, <1>a, <1>s, SettleAt DEF Goes, BindingMissing, Terminal
<1>4. OwnStep(e, r)
  BY <1>1, <1>2, <1>3, GoesIsOwn DEF Others
<1>5. Flow(r)'
  BY <1>1, <1>2, <1>a, <1>s, <1>3 DEF Good, Flow, Goes, Early, Late
<1>6. Settled(r)'
  BY <1>1, <1>2, <1>a, <1>n, <1>s, <1>3 DEF Good, Flow, Settled, Goes, Late, Sync, Terminal
<1>7. Answered(r)'
  BY <1>1, <1>2, <1>a, <1>s, <1>3 DEF Good, Answered, Owed, Goes
<1>8. Final(r)'
  BY <1>1, <1>2, <1>a, <1>n, <1>s, <1>3
     DEF Good, Flow, Settled, Final, Doomed, Goes, Early, Late, Open, Terminal
<1> QED BY <1>4, <1>5, <1>6, <1>7, <1>8 DEF Good

LEMMA SendGood ==
    ASSUME Typed, NEW e \in Execs, NEW out \in {"COMPLETED", "FAILED", "TIME_OUT"},
           Send(e, out), NEW r, r = exec[e].run, Good(r)
    PROVE  OwnStep(e, r) /\ Good(r)'
<1>a. TypeOK /\ exec[e].phase = "sending" /\ ~exec[e].cancel /\ Idle(exec[e].pod)
  BY DEF Send, Resumes, At, Typed
<1>1. Goes(e, r, "unlocking", exec[e].cancel, exec[e].watch)
  BY <1>a, GoToGoes DEF Send, Resumes
<1>2. UNCHANGED <<queue, tasks, sends, told, scan, abort, overdue,
                disturbed, overtaken, lost>>
  BY DEF Send, ExecStep, Quiet, Unharmed, rowVars
<1>s. /\ told[r] \in {"none"} \cup Terminal
      /\ result[r] \in {"absent"} \cup Open \cup Terminal
      /\ result[r] # "absent" /\ sends[r] \in 0..2
  BY <1>1, <1>a DEF Goes, Leaves, TypeOK, Good, Settled
<1>n. r \notin disturbed /\ abort.run = r /\ abort.mine =>
         r \in overdue /\ exec[e].phase \in Late
  BY <1>a, NotHeld DEF Sync
<1>3. /\ \A x \in Runs : x # r => result'[x] = result[x]
      /\ result'[r] \in Terminal
      /\ result[r] \in Terminal => result'[r] = result[r]
  BY <1>1, <1>a, <1>s, SettleAt DEF Goes, Send, Terminal
<1>4. OwnStep(e, r)
  BY <1>1, <1>2, <1>3, GoesIsOwn DEF Others
<1>5. Flow(r)'
  BY <1>1, <1>2, <1>a, <1>s, <1>3 DEF Good, Flow, Goes, Early, Late
<1>6. Settled(r)'
  BY <1>1, <1>2, <1>a, <1>n, <1>s, <1>3 DEF Good, Flow, Settled, Goes, Late, Sync, Terminal
<1>7. Answered(r)'
  BY <1>1, <1>2, <1>a, <1>s, <1>3 DEF Good, Answered, Owed, Goes
<1>8. Final(r)'
  BY <1>1, <1>2, <1>a, <1>n, <1>s, <1>3
     DEF Good, Flow, Settled, Final, Doomed, Goes, Early, Late, Open, Terminal
<1> QED BY <1>4, <1>5, <1>6, <1>7, <1>8 DEF Good

LEMMA PostRunGood ==
    ASSUME Typed, NEW e \in Execs, NEW ok \in BOOLEAN,
           _post_run(e, ok), NEW r, r = exec[e].run, Good(r)
    PROVE  OwnStep(e, r) /\ Good(r)'
<1>a. TypeOK /\ exec[e].phase = "calling" /\ ~exec[e].cancel /\ Idle(exec[e].pod)
  BY DEF _post_run, Resumes, At, Typed
<1>1. Goes(e, r, "marking", exec[e].cancel, exec[e].watch)
  BY <1>a, GoToGoes DEF _post_run, Resumes
<1>2. UNCHANGED <<queue, result, tasks, sends, scan, abort, overdue,
                disturbed, overtaken, lost>>
  BY DEF _post_run, ExecStep, Quiet, Unharmed, rowVars
<1>s. /\ told[r] \in {"none"} \cup Terminal
      /\ result[r] \in {"absent"} \cup Open \cup Terminal
      /\ result[r] # "absent" /\ sends[r] \in 0..2
  BY <1>1, <1>a DEF Goes, Leaves, TypeOK, Good, Settled
<1>n. r \notin disturbed /\ abort.run = r /\ abort.mine =>
         r \in overdue /\ exec[e].phase \in Late
  BY <1>a, NotHeld DEF Sync
<1>3. /\ \A x \in Runs : x # r => told'[x] = told[x]
      /\ told'[r] = told[r] \/ (told'[r] = result[r] /\ result[r] \in Terminal)
  BY <1>1, <1>a, TellAt DEF Goes, Leaves, _post_run
<1>4. OwnStep(e, r)
  BY <1>1, <1>2, <1>3, GoesIsOwn DEF Others
<1>5. Flow(r)'
  BY <1>1, <1>2, <1>a, <1>s, <1>3 DEF Good, Flow, Goes, Early, Late
<1>6. Settled(r)'
  BY <1>1, <1>2, <1>a, <1>n, <1>s, <1>3 DEF Good, Flow, Settled, Goes, Late, Sync, Terminal
<1>7. Answered(r)'
  BY <1>1, <1>2, <1>a, <1>s, <1>3 DEF Good, Answered, Owed, Goes
<1>8. Final(r)'
  BY <1>1, <1>2, <1>a, <1>n, <1>s, <1>3
     DEF Good, Flow, Settled, Final, Doomed, Goes, Early, Late, Open, Terminal
<1> QED BY <1>4, <1>5, <1>6, <1>7, <1>8 DEF Good

LEMMA OutageGood ==
    ASSUME Typed, NEW e \in Execs, Outage(e), NEW r, r = exec[e].run, Good(r)
    PROVE  OwnStep(e, r) /\ Good(r)'
<1>a. TypeOK /\ exec[e].phase \in {"binding", "sending"} /\ ~exec[e].cancel /\ Idle(exec[e].pod)
  BY DEF Outage, Resumes, At, Typed
<1>1. Goes(e, r, "assured", exec[e].cancel, exec[e].watch)
  BY <1>a, GoToGoes DEF Outage, Resumes
<1>2. /\ UNCHANGED <<queue, result, tasks, sends, told, scan, abort, overdue, overtaken>>
      /\ disturbed' = disturbed \cup {r} /\ lost' = lost \cup {r}
  BY DEF Outage, ExecStep, Quiet, Unharmed, rowVars
<1>s. /\ told[r] \in {"none"} \cup Terminal
      /\ result[r] \in {"absent"} \cup Open \cup Terminal
      /\ result[r] # "absent" /\ sends[r] \in 0..2
  BY <1>1, <1>a DEF Goes, Leaves, TypeOK, Good, Settled
<1>n. r \notin disturbed /\ abort.run = r /\ abort.mine =>
         r \in overdue /\ exec[e].phase \in Late
  BY <1>a, NotHeld DEF Sync
<1>4. OwnStep(e, r)
  BY <1>1, <1>2, GoesIsOwn DEF Others
<1>5. Flow(r)'
  BY <1>1, <1>2, <1>a, <1>s DEF Good, Flow, Goes, Early, Late
<1>6. Settled(r)'
  BY <1>1, <1>2, <1>a, <1>n, <1>s DEF Good, Flow, Settled, Goes, Late, Sync, Terminal
<1>7. Answered(r)'
  BY <1>1, <1>2, <1>a, <1>s DEF Good, Answered, Owed, Goes
<1>8. Final(r)'
  BY <1>1, <1>2, <1>a, <1>n, <1>s
     DEF Good, Flow, Settled, Final, Doomed, Goes, Early, Late, Open, Terminal
<1> QED BY <1>4, <1>5, <1>6, <1>7, <1>8 DEF Good

LEMMA AssuredGood ==
    ASSUME Typed, NEW e \in Execs, NEW ok \in BOOLEAN,
           AssuredCallback(e, ok), NEW r, r = exec[e].run, Good(r)
    PROVE  OwnStep(e, r) /\ Good(r)'
<1>a. TypeOK /\ exec[e].phase = "assured" /\ Idle(exec[e].pod)
  BY DEF AssuredCallback, At, Typed
<1>1. Leaves(e, r)
  BY <1>a, FinishLeaves DEF AssuredCallback
<1>2. UNCHANGED <<queue, result, sends, scan, abort, overdue,
                disturbed, overtaken, lost>>
  BY DEF AssuredCallback, Quiet, Unharmed, rowVars
<1>s. /\ told[r] \in {"none"} \cup Terminal
      /\ result[r] \in {"absent"} \cup Open \cup Terminal
      /\ result[r] # "absent" /\ sends[r] \in 0..2
  BY <1>1, <1>a DEF Goes, Leaves, TypeOK, Good, Settled
<1>n. r \notin disturbed /\ abort.run = r /\ abort.mine =>
         r \in overdue /\ exec[e].phase \in Late
  BY <1>a, NotHeld DEF Sync
<1>3. /\ \A x \in Runs : x # r => told'[x] = told[x]
      /\ told'[r] = told[r] \/ (told'[r] = result[r] /\ result[r] \in Terminal)
  BY <1>1, <1>a, TellAt DEF Goes, Leaves, AssuredCallback
<1>4. OwnStep(e, r)
  BY <1>1, <1>2, <1>3, LeavesIsOwn DEF Others
<1>5. Flow(r)'
  BY <1>1, <1>2, <1>a, <1>s, <1>3 DEF Good, Flow, Leaves, Early, Late
<1>6. Settled(r)'
  BY <1>1, <1>2, <1>a, <1>n, <1>s, <1>3 DEF Good, Flow, Settled, Leaves, Late, Sync, Terminal
<1>7. Answered(r)'
  BY <1>1, <1>2, <1>a, <1>s, <1>3 DEF Good, Answered, Owed, Leaves
<1>8. Final(r)'
  BY <1>1, <1>2, <1>a, <1>n, <1>s, <1>3
     DEF Good, Flow, Settled, Final, Doomed, Leaves, Early, Late, Open, Terminal
<1> QED BY <1>4, <1>5, <1>6, <1>7, <1>8 DEF Good

LEMMA RequeueGood ==
    ASSUME Typed, NEW e \in Execs, NEW fails \in BOOLEAN,
           _requeue_pending(e, fails), NEW r, r = exec[e].run, Good(r)
    PROVE  OwnStep(e, r) /\ Good(r)'
<1>a. TypeOK /\ exec[e].phase = "requeuing"
  BY DEF _requeue_pending, At, Typed
<1>1. Leaves(e, r)
  BY <1>a, FinishLeaves DEF _requeue_pending
<1>2. UNCHANGED <<result, sends, told, scan, abort, overdue, overtaken, lost>>
  BY DEF _requeue_pending, Quiet, Unharmed, rowVars
<1>s. /\ told[r] \in {"none"} \cup Terminal
      /\ result[r] \in {"absent"} \cup Open \cup Terminal
      /\ result[r] # "absent" /\ sends[r] \in 0..2
  BY <1>1, <1>a DEF Goes, Leaves, TypeOK, Good, Settled
<1>n. r \notin disturbed /\ abort.run = r /\ abort.mine =>
         r \in overdue /\ exec[e].phase \in Late
  BY <1>a, NotHeld DEF Sync
<1>3. /\ \A x \in Runs : x # r => queue'[x] = queue[x]
      /\ queue'[r].status = IF Owns(exec[e].pod, r) /\ ~fails THEN "PENDING" ELSE queue[r].status
      /\ queue'[r].abort = queue[r].abort
      /\ disturbed' = IF fails THEN disturbed \cup {r} ELSE disturbed
  BY <1>1, <1>a DEF Leaves, _requeue_pending, Pending, TypeOK, Work, Add
<1>4. OwnStep(e, r)
  BY <1>1, <1>2, <1>3, LeavesIsOwn DEF Others
<1>5. Flow(r)'
  BY <1>1, <1>2, <1>a, <1>s, <1>3 DEF Good, Flow, Leaves, Early, Late, Owns
<1>6. Settled(r)'
  BY <1>1, <1>2, <1>a, <1>n, <1>s, <1>3 DEF Good, Flow, Settled, Leaves, Late, Sync, Terminal, Owns
<1>7. Answered(r)'
  BY <1>1, <1>2, <1>a, <1>s, <1>3 DEF Good, Answered, Owed, Leaves, Owns
<1>8. Final(r)'
  BY <1>1, <1>2, <1>a, <1>n, <1>s, <1>3
     DEF Good, Flow, Settled, Final, Doomed, Leaves, Early, Late, Open, Terminal, Owns
<1> QED BY <1>4, <1>5, <1>6, <1>7, <1>8 DEF Good

LEMMA MarkDoneGood ==
    ASSUME Typed, NEW e \in Execs, NEW fails \in BOOLEAN,
           _mark_queue_done(e, fails), NEW r, r = exec[e].run, Good(r)
    PROVE  OwnStep(e, r) /\ Good(r)'
<1>a. TypeOK /\ exec[e].phase = "marking"
  BY DEF _mark_queue_done, At, Typed
<1>1. Leaves(e, r)
  BY <1>a, FinishLeaves DEF _mark_queue_done
<1>2. UNCHANGED <<result, sends, told, scan, abort, overdue, overtaken, lost>>
  BY DEF _mark_queue_done, Quiet, Unharmed, rowVars
<1>s. /\ told[r] \in {"none"} \cup Terminal
      /\ result[r] \in {"absent"} \cup Open \cup Terminal
      /\ result[r] # "absent" /\ sends[r] \in 0..2
  BY <1>1, <1>a DEF Goes, Leaves, TypeOK, Good, Settled
<1>n. r \notin disturbed /\ abort.run = r /\ abort.mine =>
         r \in overdue /\ exec[e].phase \in Late
  BY <1>a, NotHeld DEF Sync
<1>3. /\ \A x \in Runs : x # r => queue'[x] = queue[x]
      /\ queue'[r].status = IF Owns(exec[e].pod, r) /\ ~fails THEN "DONE" ELSE queue[r].status
      /\ queue'[r].abort = queue[r].abort
      /\ disturbed' = IF fails THEN disturbed \cup {r} ELSE disturbed
  BY <1>1, <1>a DEF Leaves, _mark_queue_done, TypeOK, Work, Add
<1>4. OwnStep(e, r)
  BY <1>1, <1>2, <1>3, LeavesIsOwn DEF Others
<1>5. Flow(r)'
  BY <1>1, <1>2, <1>a, <1>s, <1>3 DEF Good, Flow, Leaves, Early, Late, Owns
<1>6. Settled(r)'
  BY <1>1, <1>2, <1>a, <1>n, <1>s, <1>3 DEF Good, Flow, Settled, Leaves, Late, Sync, Terminal, Owns
<1>7. Answered(r)'
  BY <1>1, <1>2, <1>a, <1>s, <1>3 DEF Good, Answered, Owed, Leaves, Owns
<1>8. Final(r)'
  BY <1>1, <1>2, <1>a, <1>n, <1>s, <1>3
     DEF Good, Flow, Settled, Final, Doomed, Leaves, Early, Late, Open, Terminal, Owns
<1> QED BY <1>4, <1>5, <1>6, <1>7, <1>8 DEF Good

----------------------------------------------------------------------------
(* Guardian, abort poll, claim, abort and scan: steps that touch one run. *)
Elsewhere(r) == \A x \in Runs : x # r => Untouched(x)

(* No execution moves. *)
Still == exec' = exec /\ tasks' = tasks

LEMMA StillOf ==
    ASSUME Still, NEW r PROVE Of(r)' = Of(r)
  BY DEF Still, Of

LEMMA StillElsewhere ==
    ASSUME Still, NEW r, Others(r), overdue' = overdue, disturbed \subseteq disturbed',
           overtaken \subseteq overtaken',
           scan' = scan \/ scan'.run \in {r, None}, abort' = abort \/ abort'.run \in {r, None},
           abort.run \in {r, None} \/ abort' = abort
    PROVE  Elsewhere(r)
  BY RunAssumption DEF Still, Others, Elsewhere, Untouched

LEMMA HeartbeatGood ==
    ASSUME Typed, NEW e \in Execs, touch_heartbeat(e), NEW r, r = exec[e].run, Good(r)
    PROVE  Elsewhere(r) /\ Good(r)'
<1>a. TypeOK /\ exec[e].watch # {} /\ queue[r].status = "RUNNING"
  BY DEF touch_heartbeat, Watched, Owns, Typed
<1>b. r \in Runs
  BY <1>a, RunOf, FreeExec DEF Typed, Placed, Located, Free
<1>1. Still /\ UNCHANGED <<result, sends, told, scan, abort, overdue, disturbed, overtaken, lost>>
  BY DEF touch_heartbeat, Still, podVars, history
<1>2. /\ \A x \in Runs : x # r => queue'[x] = queue[x]
      /\ queue'[r].status = "RUNNING" /\ queue'[r].beat = "fresh"
      /\ queue'[r].worker = queue[r].worker /\ queue'[r].abort = queue[r].abort
  BY <1>a, <1>b DEF touch_heartbeat, TypeOK, Work
<1>3. Elsewhere(r)
  BY <1>1, <1>2, StillElsewhere DEF Others
<1>o. Of(r)' = Of(r)
  BY <1>1, StillOf
<1>4. Flow(r)'
  BY <1>a, <1>1, <1>2, <1>o DEF Still, Good, Flow
<1>5. Settled(r)'
  BY <1>a, <1>1, <1>2, <1>o DEF Still, Good, Settled
<1>6. Answered(r)'
  BY <1>a, <1>1, <1>2, <1>o DEF Still, Good, Answered, Owed
<1>7. Final(r)'
  BY <1>a, <1>1, <1>2, <1>o DEF Still, Good, Final, Doomed
<1> QED BY <1>3, <1>4, <1>5, <1>6, <1>7 DEF Good

LEMMA PollGood ==
    ASSUME Typed, NEW e \in Execs, NEW fails \in BOOLEAN, _abort_poll_loop(e, fails),
           NEW r, r = exec[e].run, Good(r)
    PROVE  OwnStep(e, r) /\ Good(r)'
<1>a. TypeOK /\ "poll" \in exec[e].watch /\ queue[r].abort /\ Idle(exec[e].pod)
  BY DEF _abort_poll_loop, Watched, Typed
<1>f. exec[e].phase # "free"
  BY <1>a, FreeExec DEF Typed, Placed, Located, Free
<1>b. r \in Runs /\ exec[e].pod \in Pods /\ exec[e] \in Exec /\ e \in Of(r)
  BY <1>f, RunOf
<1>i. exec[e].phase \notin Sync
  BY <1>a DEF Idle, Busy, ExecsOf
<1>1. exec' = [exec EXCEPT ![e] = [[exec[e] EXCEPT !.watch = exec[e].watch \ {"poll"}]
                                      EXCEPT !.cancel = TRUE]]
  BY DEF _abort_poll_loop, Typed, TypeOK
<1>2. Goes(e, r, exec[e].phase, TRUE, exec[e].watch \ {"poll"})
  <2>1. \A f \in Execs : f # e => exec'[f] = exec[f]
    BY <1>1, <1>a DEF TypeOK
  <2>2. /\ exec'[e].phase = exec[e].phase /\ exec'[e].cancel = TRUE
        /\ exec'[e].watch = exec[e].watch \ {"poll"} /\ exec'[e].run = r
        /\ exec'[e].pod = exec[e].pod
    BY <1>1, <1>a, <1>b DEF TypeOK, Exec
  <2> QED BY <2>1, <2>2, <1>b DEF Goes, Of
<1>3. UNCHANGED <<result, tasks, sends, told, scan, abort, overdue, overtaken, lost>>
  BY DEF _abort_poll_loop, ExecStep, Quiet
<1>4. /\ \A x \in Runs : x # r => queue'[x] = queue[x]
      /\ queue'[r].status = IF queue[r].status \in Open /\ ~fails THEN "DONE"
                            ELSE queue[r].status
      /\ queue'[r].abort = queue[r].abort
      /\ disturbed \subseteq disturbed'
      /\ r \notin disturbed' => ~fails /\ r \notin disturbed
  BY <1>a, <1>b, DoneAt DEF _abort_poll_loop
<1>5. OwnStep(e, r)
  BY <1>2, <1>3, <1>4, GoesIsOwn DEF Others
<1>n. r \notin disturbed /\ abort.run = r /\ abort.mine =>
         r \in overdue /\ exec[e].phase \in Late
  BY <1>a, <1>f, NotHeld
<1>s. queue[r].status # "absent" /\ queue[r].status \in Open \cup {"DONE", "absent"}
  BY <1>a, <1>b DEF Good, Settled, TypeOK, Work
<1>6. Flow(r)'
  BY <1>2, <1>3, <1>4, <1>a DEF Good, Flow, Goes, Early, Open
<1>p. exec[e].phase \in {"binding", "sending", "calling", "assured"}
  <2>1. exec[e].phase \notin {"start", "leaked"}
    BY <1>a, <1>b DEF Good, Settled
  <2> QED BY <2>1, <1>b, <1>i, <1>f DEF Exec, Awaits, Sync
<1>7. Settled(r)'
  BY <1>2, <1>3, <1>4, <1>a, <1>p, <1>n, <1>s DEF Good, Flow, Settled, Goes, Open, Late
<1>8. Answered(r)'
  BY <1>2, <1>3, <1>4, <1>a, <1>p DEF Good, Answered, Owed, Goes
<1>9. Final(r)'
  BY <1>2, <1>3, <1>4, <1>a, <1>p, <1>n, <1>s DEF Good, Flow, Final, Doomed, Goes, Early, Late, Open
<1> QED BY <1>5, <1>6, <1>7, <1>8, <1>9 DEF Good

LEMMA CancelAt ==
    ASSUME Typed, NEW p \in Pods, NEW r \in Runs, NEW f \in Execs
    PROVE  LET x == _cancel_local_task(p, r)[f] IN
           /\ x.phase = exec[f].phase /\ x.pod = exec[f].pod /\ x.run = exec[f].run
           /\ x.watch = exec[f].watch
           /\ x.cancel = (exec[f].cancel \/ (tasks[p][r] = f /\ exec[f].phase \in Awaits))
           /\ tasks[p][r] # f => x = exec[f]
           /\ x \in Exec
<1>1. exec[f] \in Exec
  BY DEF Typed, TypeOK
<1>2. _cancel_local_task(p, r)[f] =
         IF tasks[p][r] = f /\ exec[f].phase \in Awaits
         THEN [exec[f] EXCEPT !.cancel = TRUE] ELSE exec[f]
  BY DEF _cancel_local_task
<1> QED BY <1>1, <1>2 DEF Exec

LEMMA TerminateGood ==
    ASSUME Typed, TasksMatch, NEW e \in Execs, NEW ok \in BOOLEAN, NEW fails \in BOOLEAN,
           _terminate_local_timeout(e, ok, fails), NEW r, r = exec[e].run, Good(r)
    PROVE  Elsewhere(r) /\ Good(r)'
<1>a. TypeOK /\ "guardian" \in exec[e].watch /\ r \in overdue /\ Idle(exec[e].pod)
  BY DEF _terminate_local_timeout, Watched, Typed
<1>f. exec[e].phase # "free"
  BY <1>a, FreeExec DEF Typed, Placed, Located, Free
<1>b. r \in Runs /\ exec[e].pod \in Pods /\ exec[e] \in Exec /\ e \in Of(r)
  BY <1>f, RunOf
<1>i. exec[e].phase \notin Sync
  BY <1>a DEF Idle, Busy, ExecsOf
<1>p. exec[e].phase \in {"binding", "sending", "calling", "assured"}
  <2>1. exec[e].phase \notin {"start", "leaked"}
    BY <1>a, <1>b DEF Good, Settled
  <2> QED BY <2>1, <1>b, <1>i, <1>f DEF Exec, Awaits, Sync
<1> DEFINE p == exec[e].pod
           c == _cancel_local_task(p, r)
           x == c[e]
<1>c. c \in [Execs -> Exec]
  BY CancelTyped
<1>1. exec' = [c EXCEPT ![e] = [x EXCEPT !.watch = x.watch \ {"guardian"}]]
  BY DEF _terminate_local_timeout
<1>x. x \in Exec
  BY <1>c
<1>2. \A f \in Execs : f # e => exec'[f] = c[f]
  <2> HIDE DEF c, x
  <2> QED BY <1>1, <1>c
<1>3. /\ exec'[e].phase = x.phase /\ exec'[e].pod = x.pod /\ exec'[e].run = x.run
      /\ exec'[e].cancel = x.cancel /\ exec'[e].watch = x.watch \ {"guardian"}
  <2> HIDE DEF c, x
  <2> QED BY <1>1, <1>c, <1>x DEF Exec
<1>4. /\ exec'[e].phase = exec[e].phase /\ exec'[e].pod = exec[e].pod /\ exec'[e].run = r
      /\ exec'[e].cancel = (exec[e].cancel \/ (tasks[p][r] = e /\ exec[e].phase \in Awaits))
      /\ exec'[e].watch = exec[e].watch \ {"guardian"}
  BY <1>3, <1>b, CancelAt
<1>5. \A f \in Execs : f # e => /\ exec'[f].run = exec[f].run
                                /\ tasks[p][r] # f => exec'[f] = exec[f]
  BY <1>2, <1>b, CancelAt
<1>k. \A f \in Execs : c[f].watch = exec[f].watch /\ c[f].phase = exec[f].phase
  BY <1>b, CancelAt
<1> HIDE DEF c, x
<1>o. Of(r)' = Of(r)
  BY <1>4, <1>5, <1>b DEF Of
<1>6. UNCHANGED <<result, tasks, sends, scan, abort, overdue, overtaken, lost>>
  BY DEF _terminate_local_timeout, ExecStep, Quiet
<1>7. /\ \A y \in Runs : y # r => queue'[y] = queue[y]
      /\ queue'[r].status = IF queue[r].status \in Open /\ ~fails THEN "DONE"
                            ELSE queue[r].status
      /\ queue'[r].abort = queue[r].abort
      /\ disturbed \subseteq disturbed'
      /\ r \notin disturbed' => ~fails /\ r \notin disturbed
  BY <1>a, <1>b, DoneAt DEF _terminate_local_timeout
<1>8. /\ \A y \in Runs : y # r => told'[y] = told[y]
      /\ told'[r] = told[r] \/ (told'[r] = result[r] /\ result[r] \in Terminal)
  BY <1>a, <1>b, TellAt DEF _terminate_local_timeout
<1>9. Elsewhere(r)
  BY <1>4, <1>5, <1>6, <1>7, <1>8, <1>b DEF Elsewhere, Untouched, TasksMatch
<1>s. /\ queue[r].status \in Open \cup {"DONE"} /\ queue[r].status # "absent"
  BY <1>a, <1>b DEF TypeOK, Work, Good, Settled
<1>n. r \notin disturbed /\ abort.run = r /\ abort.mine => exec[e].phase \in Late
  BY <1>a, <1>f, NotHeld
<1>10. Flow(r)'
  BY <1>4, <1>6, <1>7, <1>o, <1>a, <1>b DEF Good, Flow, Early, Open
<1>u. ASSUME r \notin disturbed'
      PROVE  /\ Of(r) = {e} /\ exec'[e].cancel = TRUE /\ queue'[r].status = "DONE"
  <2>1. Of(r) = {e} /\ queue[r].status \in {"RUNNING", "DONE"}
    BY <1>u, <1>7, <1>b DEF Good, Flow
  <2>2. tasks[p][r] = e
    BY <1>u, <1>7, <1>b, <1>p DEF Good, Flow
  <2>3. exec[e].phase \in Awaits
    BY <1>p DEF Awaits
  <2> QED BY <1>u, <2>1, <2>2, <2>3, <1>4, <1>7 DEF Open
<1> HIDE DEF p
<1>w. \A f \in Of(r) : exec'[f].watch \subseteq exec[f].watch /\ exec'[f].phase = exec[f].phase
  BY <1>2, <1>4, <1>k DEF Of
<1>11. Settled(r)'
  <2>1. CASE r \in disturbed'
    BY <2>1, <1>6, <1>7, <1>o, <1>w, <1>s DEF Good, Settled, Open
  <2>2. CASE r \notin disturbed'
    <3>1. /\ scan.run = r => exec[e].phase \in Late
          /\ abort.run = r /\ abort.step = "requested" => queue[r].abort
      BY <2>2, <1>7, <1>b DEF Good, Settled
    <3>2. Of(r)' = {e} /\ exec'[e].phase = exec[e].phase
      BY <2>2, <1>u, <1>o, <1>4
    <3> QED BY <2>2, <1>u, <3>1, <3>2, <1>n, <1>6, <1>7, <1>a, <1>p, <1>s DEF Good, Settled
  <2> QED BY <2>1, <2>2
<1>12. Answered(r)'
  BY <1>4, <1>6, <1>7, <1>o, <1>w, <1>b, <1>p DEF Good, Answered, Owed
<1>13. Final(r)'
  <2> SUFFICES ASSUME r \notin disturbed' \cup overtaken' PROVE Final(r)'
    BY DEF Final
  <2>1. Of(r)' = {e} /\ exec'[e].cancel = TRUE /\ exec'[e].phase # "requeuing"
    BY <1>u, <1>o, <1>4, <1>p
  <2> QED BY <2>1, <1>u, <1>6, <1>7, <1>8 DEF Good, Final
<1> QED BY <1>9, <1>10, <1>11, <1>12, <1>13 DEF Good

LEMMA ClaimGood ==
    ASSUME Typed, NEW p \in Pods, NEW r \in Runs, NEW e \in Execs,
           claim_pending_by_bot(p, r, e), Good(r)
    PROVE  Elsewhere(r) /\ Good(r)'
<1> DEFINE x == [Free EXCEPT !.phase = "start", !.pod = p, !.run = r]
<1>a. TypeOK /\ queue[r].status = "PENDING"
  BY DEF claim_pending_by_bot, Claims, Typed
<1>f. exec[e].run = None /\ None \notin Runs
  BY RunAssumption DEF claim_pending_by_bot, Spare, At, Typed, Placed, Located, Free
<1>x. /\ x.phase = "start" /\ x.pod = p /\ x.run = r /\ ~x.cancel /\ x.watch = {}
  BY DEF Free
<1>1. exec' = [exec EXCEPT ![e] = x]
  BY DEF claim_pending_by_bot
<1> HIDE DEF x
<1>2. \A f \in Execs : exec'[f] = IF f = e THEN x ELSE exec[f]
  BY <1>1, <1>a DEF TypeOK
<1>3. Of(r)' = Of(r) \cup {e}
  BY <1>2, <1>x DEF Of
<1>4. UNCHANGED <<result, sends, told, scan, abort, overdue, disturbed, overtaken, lost>>
  BY DEF claim_pending_by_bot, history
<1>5. /\ \A y \in Runs : y # r => queue'[y] = queue[y]
      /\ queue'[r].status = "RUNNING" /\ queue'[r].worker = p /\ queue'[r].beat = "fresh"
      /\ queue'[r].abort = queue[r].abort
  BY <1>a DEF claim_pending_by_bot, TypeOK, Work
<1>6. /\ tasks'[p][r] = e
      /\ \A q \in Pods, y \in Runs : y # r => tasks'[q][y] = tasks[q][y]
  <2>1. tasks' = [tasks EXCEPT ![p] = [tasks[p] EXCEPT ![r] = e]]
    BY DEF claim_pending_by_bot
  <2> QED BY <2>1, <1>a DEF TypeOK
<1>7. Elsewhere(r)
  BY <1>2, <1>x, <1>f, <1>4, <1>5, <1>6 DEF Elsewhere, Untouched
<1>8. r \notin disturbed => Of(r) = {} /\ sends[r] = 0
  <2>1. sends[r] \in 0..2
    BY <1>a DEF TypeOK
  <2> QED BY <2>1, <1>a DEF Good, Flow
<1>9. Flow(r)'
  <2>1. r \notin disturbed => Of(r)' = {e}
    BY <1>3, <1>8
  <2>2. /\ exec'[e].phase = "start" /\ exec'[e].pod = p /\ ~exec'[e].cancel
        /\ exec'[e].watch = {}
    BY <1>2, <1>x
  <2> QED BY <2>1, <2>2, <1>4, <1>5, <1>6, <1>8 DEF Flow
<1>10. Settled(r)'
  <2>1. r \notin disturbed => Of(r)' = {e}
    BY <1>3, <1>8
  <2>2. exec'[e].phase = "start" /\ exec'[e].watch = {}
    BY <1>2, <1>x
  <2>3. \A f \in Of(r)' : f = e \/ (f \in Of(r) /\ exec'[f] = exec[f])
    BY <1>2, <1>3 DEF Of
  <2> QED BY <2>1, <2>2, <2>3, <1>a, <1>4, <1>5, <1>8 DEF Good, Settled, Late
<1>11. Answered(r)'
  <2>1. exec'[e].phase = "start" /\ e \notin Of(r)
    BY <1>2, <1>x, <1>f DEF Of
  <2>2. \A f \in Of(r) : f \in Of(r)' /\ exec'[f] = exec[f]
    BY <1>2, <1>3, <2>1 DEF Of
  <2> QED BY <2>1, <2>2, <1>3, <1>4, <1>5 DEF Good, Answered, Owed
<1>12. Final(r)'
  <2>1. r \notin disturbed => Of(r)' = {e}
    BY <1>3, <1>8
  <2>2. exec'[e].phase = "start"
    BY <1>2, <1>x
  <2> QED BY <2>1, <2>2, <1>a, <1>4, <1>5 DEF Good, Final
<1> QED BY <1>7, <1>9, <1>10, <1>11, <1>12 DEF Good

----------------------------------------------------------------------------
(* Abort, one record. *)
LEMMA AbortFindsGood ==
    ASSUME Typed, NEW p \in Pods, NEW r \in Runs, AbortFinds(p, r), Good(r)
    PROVE  Still /\ Elsewhere(r) /\ Good(r)'
<1>1. /\ Still
      /\ UNCHANGED <<queue, result, sends, told, scan, overdue, disturbed, overtaken, lost>>
      /\ abort = NoAbort /\ queue[r].status = "RUNNING" /\ Idle(p) /\ TypeOK
      /\ abort' = [step |-> "found", pod |-> p, run |-> r, mine |-> queue[r].worker = p]
  BY DEF AbortFinds, AbortStep, Unharmed, Still, rowVars, Typed
<1>2. /\ abort.run = None /\ abort'.run = r /\ abort'.step = "found" /\ abort'.pod = p
      /\ abort'.mine <=> queue[r].worker = p
  BY <1>1 DEF NoAbort
<1>3. Elsewhere(r)
  BY <1>1, <1>2, StillElsewhere DEF Others
<1>o. Of(r)' = Of(r)
  BY <1>1, StillOf
<1>4. Flow(r)'
  BY <1>1, <1>o DEF Still, Good, Flow
<1>5. ASSUME r \notin disturbed, queue[r].worker = p, NEW e \in Of(r)
      PROVE  exec[e].pod = p /\ exec[e].phase \notin Sync
  <2>1. exec[e].pod = p
    BY <1>5, <1>1 DEF Good, Flow
  <2> QED BY <2>1, <1>1 DEF Idle, Busy, ExecsOf, Of
<1>6. Settled(r)'
  BY <1>1, <1>2, <1>5, <1>o DEF Still, Good, Settled
<1>7. Answered(r)'
  BY <1>1, <1>2, <1>o DEF Still, Good, Answered, Owed
<1>8. Final(r)'
  BY <1>1, <1>2, <1>o, RunAssumption DEF Still, Good, Final, Doomed
<1> QED BY <1>1, <1>3, <1>4, <1>6, <1>7, <1>8 DEF Good

LEMMA AbortMarksGood ==
    ASSUME Typed, NEW fails \in BOOLEAN, AbortMarks(fails), NEW r, r = abort.run, Good(r)
    PROVE  r \in Runs /\ Still /\ Elsewhere(r) /\ Good(r)'
<1>1. /\ Still /\ UNCHANGED <<queue, sends, told, scan, overdue, disturbed>>
      /\ abort.step = "found" /\ TypeOK
  BY DEF AbortMarks, AbortStep, Still, Typed
<1>2. /\ r \in Runs /\ abort'.run = r /\ abort'.step = "marked"
      /\ abort'.pod = abort.pod /\ abort'.mine = abort.mine
  BY <1>1 DEF TypeOK, NoAbort, AbortMarks
<1>q. queue[r].status # "absent" /\ result[r] # "absent"
  BY DEF Good, Settled
<1>3. /\ \A x \in Runs : x # r => result'[x] = result[x] /\ (x \in lost' <=> x \in lost)
      /\ result'[r] \in Terminal \/ r \in lost'
      /\ result'[r] = result[r] \/ result'[r] \in Terminal
      /\ result[r] \in Terminal => result'[r] = result[r]
      /\ result'[r] # "absent"
      /\ fails => result' = result
  BY <1>1, <1>2, <1>q, TryAt DEF AbortMarks, Terminal
<1>v. /\ overtaken \subseteq overtaken'
      /\ r \notin overtaken' => r \notin overtaken /\ (fails \/ abort.mine \/ Under(r))
  BY DEF AbortMarks, Add
<1>4. Elsewhere(r)
  BY <1>1, <1>2, <1>3, <1>v, StillElsewhere DEF Others
<1>o. Of(r)' = Of(r)
  BY <1>1, StillOf
<1>5. Flow(r)'
  BY <1>1, <1>o DEF Still, Good, Flow
<1>6. Settled(r)'
  BY <1>1, <1>2, <1>3, <1>q, <1>o DEF Still, Good, Settled
<1>7. Answered(r)'
  BY <1>3 DEF Answered
<1>8. Final(r)'
  <2> SUFFICES ASSUME r \notin disturbed \cup overtaken' PROVE Final(r)'
    BY <1>1 DEF Final
  <2>1. CASE fails
    BY <2>1, <1>1, <1>2, <1>3, <1>v, <1>o DEF Still, Good, Final, Doomed
  <2>2. CASE abort.mine
    <3>1. /\ queue[r].status \in {"RUNNING", "DONE"} \/ r \in overdue
          /\ r \notin overdue => \A e \in Of(r) : exec[e].phase # "requeuing"
      BY <2>2 DEF Good, Settled, Sync
    <3>2. Doomed(r)'
      BY <2>2, <1>2 DEF Doomed
    <3>3. told[r] # "none" => result'[r] = told[r]
      BY <1>1, <1>2, <1>3, <1>v DEF Good, Final, TypeOK
    <3> QED BY <3>1, <3>2, <3>3, <1>1, <1>o DEF Still, Final
  <2>3. CASE Under(r)
    <3>1. PICK f \in Of(r) : exec[f].phase \notin Early
      BY <2>3 DEF Under, Of, Early
    <3>2. /\ \A e \in Of(r) : exec[e].phase \notin Early
          /\ queue[r].status \in {"RUNNING", "DONE"}
      BY <3>1 DEF Good, Flow
    <3>3. told[r] # "none" => result'[r] = told[r]
      BY <1>1, <1>2, <1>3, <1>v DEF Good, Final, TypeOK
    <3> QED BY <3>2, <3>3, <1>1, <1>o DEF Still, Final, Early
  <2> QED BY <2>1, <2>2, <2>3, <1>v
<1> QED BY <1>1, <1>2, <1>4, <1>5, <1>6, <1>7, <1>8 DEF Good

LEMMA RequestGood ==
    ASSUME Typed, NEW fails \in BOOLEAN, request_abort(fails), NEW r, r = abort.run, Good(r)
    PROVE  r \in Runs /\ Still /\ Elsewhere(r) /\ Good(r)'
<1>1. /\ Still /\ UNCHANGED <<result, sends, told, scan, overdue, overtaken, lost>>
      /\ abort.step = "marked" /\ TypeOK
      /\ disturbed' = IF fails THEN disturbed \cup {r} ELSE disturbed
  BY DEF request_abort, AbortStep, Still, Typed, Add
<1>2. /\ r \in Runs /\ abort'.run = r /\ abort'.step = "requested"
      /\ abort'.pod = abort.pod /\ abort'.mine = abort.mine
  BY <1>1 DEF TypeOK, NoAbort, request_abort
<1>3. /\ \A x \in Runs : x # r => queue'[x] = queue[x]
      /\ queue'[r].status = queue[r].status /\ queue'[r].worker = queue[r].worker
      /\ queue'[r].beat = queue[r].beat
      /\ ~fails \/ queue[r].abort => queue'[r].abort
  BY <1>1, <1>2 DEF request_abort, TypeOK, Work
<1>4. Elsewhere(r)
  BY <1>1, <1>2, <1>3, StillElsewhere DEF Others
<1>o. Of(r)' = Of(r)
  BY <1>1, StillOf
<1>5. Flow(r)'
  BY <1>1, <1>3, <1>o DEF Still, Good, Flow
<1>6. Settled(r)'
  BY <1>1, <1>2, <1>3, <1>o DEF Still, Good, Settled
<1>7. Answered(r)'
  BY <1>1, <1>2, <1>3, <1>o DEF Still, Good, Answered, Owed
<1>8. Final(r)'
  BY <1>1, <1>2, <1>3, <1>o DEF Still, Good, Final, Doomed
<1> QED BY <1>1, <1>2, <1>4, <1>5, <1>6, <1>7, <1>8 DEF Good

LEMMA AbortEndsGood ==
    ASSUME Typed, TasksMatch, NEW fails \in BOOLEAN, AbortEnds(fails), NEW r, r = abort.run, Good(r)
    PROVE  /\ r \in Runs /\ Elsewhere(r) /\ Good(r)' /\ tasks' = tasks
           /\ \A f \in Execs : exec'[f].pod = exec[f].pod /\ exec'[f].run = exec[f].run
<1>1. /\ UNCHANGED <<tasks, result, sends, told, scan, overdue, overtaken, lost>>
      /\ abort.step = "requested" /\ TypeOK /\ abort' = NoAbort
  BY DEF AbortEnds, AbortStep, Typed
<1>2. r \in Runs /\ abort'.run = None /\ None \notin Runs /\ abort.pod \in Pods
  BY <1>1, RunAssumption DEF TypeOK, NoAbort
<1>3. /\ \A x \in Runs : x # r => queue'[x] = queue[x]
      /\ queue'[r].status = IF queue[r].status \in Open /\ ~fails THEN "DONE"
                            ELSE queue[r].status
      /\ queue'[r].abort = queue[r].abort
      /\ queue'[r].worker = queue[r].worker /\ queue'[r].beat = queue[r].beat
      /\ disturbed \subseteq disturbed'
      /\ r \notin disturbed' => ~fails /\ r \notin disturbed
  BY <1>1, <1>2, DoneAt DEF AbortEnds
<1>4. queue[r].status # "absent" /\ queue[r].status \in Open \cup {"DONE", "absent"}
  BY <1>1, <1>2 DEF Good, Settled, TypeOK, Work
<1>d. r \notin disturbed' => queue'[r].status = "DONE"
  BY <1>3, <1>4
<1>5. \A f \in Execs :
         /\ exec'[f].phase = exec[f].phase /\ exec'[f].pod = exec[f].pod
         /\ exec'[f].run = exec[f].run /\ exec'[f].watch = exec[f].watch
         /\ exec[f].cancel => exec'[f].cancel
         /\ exec[f].run # r => exec'[f] = exec[f]
         /\ abort.mine /\ tasks[abort.pod][r] = f /\ exec[f].phase \in Awaits => exec'[f].cancel
  <2>1. CASE exec' = exec /\ ~abort.mine
    BY <2>1
  <2>2. CASE exec' = _cancel_local_task(abort.pod, abort.run)
    <3> SUFFICES ASSUME NEW f \in Execs
                 PROVE  /\ exec'[f].phase = exec[f].phase /\ exec'[f].pod = exec[f].pod
                        /\ exec'[f].run = exec[f].run /\ exec'[f].watch = exec[f].watch
                        /\ exec[f].cancel => exec'[f].cancel
                        /\ exec[f].run # r => exec'[f] = exec[f]
                        /\ abort.mine /\ tasks[abort.pod][r] = f /\ exec[f].phase \in Awaits
                             => exec'[f].cancel
      OBVIOUS
    <3>1. tasks[abort.pod][r] = f => exec[f].run = r
      BY <1>2 DEF TasksMatch
    <3> QED BY <2>2, <3>1, <1>2, CancelAt
  <2> QED BY <2>1, <2>2 DEF AbortEnds
<1>o. Of(r)' = Of(r)
  BY <1>5 DEF Of
<1>6. Elsewhere(r)
  BY <1>1, <1>2, <1>3, <1>5 DEF Elsewhere, Untouched
<1>7. Flow(r)'
  BY <1>1, <1>3, <1>d, <1>5, <1>o DEF Good, Flow, Of
<1>w. \A f \in Of(r) : /\ exec'[f].phase = exec[f].phase /\ exec'[f].watch = exec[f].watch
                       /\ exec[f].cancel => exec'[f].cancel
  BY <1>5 DEF Of
<1>8. Settled(r)'
  <2>1. r \notin disturbed' => queue'[r].abort
    BY <1>1, <1>3 DEF Good, Settled
  <2> QED BY <1>1, <1>2, <1>3, <1>4, <1>w, <2>1, <1>o DEF Good, Settled, Open
<1>9. Answered(r)'
  BY <1>1, <1>2, <1>3, <1>w, <1>o DEF Good, Answered, Owed
<1>10. Final(r)'
  <2> SUFFICES ASSUME r \notin disturbed' \cup overtaken' PROVE Final(r)'
    BY DEF Final
  <2>1. ASSUME NEW f \in Of(r), abort.mine, exec[f].phase \in Early,
               r \notin overdue \/ exec[f].phase = "binding"
        PROVE  exec'[f].cancel
    <3>1. exec[f].pod = abort.pod /\ exec[f].phase \notin Sync
      BY <2>1, <1>3 DEF Good, Settled, Early, Late
    <3>2. exec[f].phase \in {"start", "binding"}
      BY <2>1, <3>1 DEF Early, Sync
    <3>3. tasks[exec[f].pod][r] = f
      BY <2>1, <3>2, <1>3 DEF Good, Flow
    <3> QED BY <2>1, <3>1, <3>2, <3>3, <1>5 DEF Of, Awaits
  <2> QED BY <2>1, <1>1, <1>d, <1>3, <1>w, <1>o DEF Good, Final, Doomed, Early
<1> QED BY <1>1, <1>2, <1>5, <1>6, <1>7, <1>8, <1>9, <1>10 DEF Good

----------------------------------------------------------------------------
(* The timeout scan, one record. *)
LEMMA ScanFindsGood ==
    ASSUME Typed, NEW p \in Pods, NEW r \in Runs, scan_timeout(p, r), Good(r)
    PROVE  Still /\ Elsewhere(r) /\ Good(r)'
<1>1. /\ Still
      /\ UNCHANGED <<queue, result, sends, told, abort, overdue, disturbed, overtaken, lost>>
      /\ scan = NoScan /\ r \in overdue
      /\ scan'.run = r /\ scan'.step = "found"
      /\ queue[r].status = "PENDING" \/ (queue[r].status = "RUNNING" /\ queue[r].beat = "stale")
  BY DEF scan_timeout, ScanStep, Unharmed, Still, rowVars
<1>2. Elsewhere(r)
  BY <1>1, StillElsewhere DEF Others
<1>o. Of(r)' = Of(r)
  BY <1>1, StillOf
<1>3. r \notin disturbed => Of(r) = {}
  BY <1>1 DEF Good, Flow
<1>4. Flow(r)'
  BY <1>1, <1>o DEF Still, Good, Flow
<1>5. Settled(r)'
  BY <1>1, <1>3, <1>o DEF Still, Good, Settled
<1>6. Answered(r)'
  BY <1>1, <1>o DEF Still, Good, Answered, Owed
<1>7. Final(r)'
  BY <1>1, <1>o DEF Still, Good, Final, Doomed
<1> QED BY <1>1, <1>2, <1>4, <1>5, <1>6, <1>7 DEF Good

LEMMA ScanMarksGood ==
    ASSUME Typed, NEW fails \in BOOLEAN, ScanMarks(fails), NEW r, r = scan.run, Good(r)
    PROVE  r \in Runs /\ Still /\ Elsewhere(r) /\ Good(r)'
<1>1. /\ Still /\ UNCHANGED <<queue, sends, told, abort, overdue, disturbed, overtaken>>
      /\ scan.step = "found" /\ TypeOK
  BY DEF ScanMarks, ScanStep, Still, Typed
<1>2. /\ r \in Runs /\ None \notin Runs
      /\ \/ scan'.run = r /\ scan'.step = "marked"
         \/ scan'.run = None /\ fails /\ ~scan.ran
  BY <1>1, RunAssumption DEF TypeOK, NoScan, ScanMarks
<1>q. queue[r].status # "absent" /\ result[r] # "absent" /\ r \in overdue
  BY DEF Good, Settled
<1>3. /\ \A x \in Runs : x # r => result'[x] = result[x] /\ (x \in lost' <=> x \in lost)
      /\ result[r] \in Terminal => result'[r] = result[r]
      /\ result'[r] = result[r] \/ result'[r] \in Terminal
      /\ r \in lost => r \in lost'
      /\ result'[r] \in Terminal \/ r \in lost' \/ scan'.run = None
  <2>1. lost' = IF fails /\ scan.ran THEN lost \cup {r} ELSE lost
    BY DEF ScanMarks, Add
  <2>2. CASE fails
    <3>1. result' = result
      BY <2>2 DEF ScanMarks
    <3> QED BY <2>1, <2>2, <3>1, <1>2 DEF ScanMarks, NoScan
  <2>3. CASE ~fails
    <3>1. Settle(r, "TIME_OUT")
      BY <2>3 DEF ScanMarks
    <3> QED BY <2>1, <2>3, <3>1, <1>1, <1>2, <1>q, SettleAt DEF Terminal
  <2> QED BY <2>2, <2>3
<1>t. result'[r] # "absent"
  BY <1>3, <1>q DEF Terminal
<1>4. Elsewhere(r)
  BY <1>1, <1>2, <1>3, StillElsewhere DEF Others
<1>o. Of(r)' = Of(r)
  BY <1>1, StillOf
<1>5. Flow(r)'
  BY <1>1, <1>o DEF Still, Good, Flow
<1>6. Settled(r)'
  BY <1>1, <1>2, <1>q, <1>t, <1>o DEF Still, Good, Settled
<1>7. Answered(r)'
  BY <1>1, <1>2, <1>3, <1>o DEF Still, Good, Answered, Owed
<1>8. Final(r)'
  <2>1. told[r] \in {"none"} \cup Terminal
    BY <1>1, <1>2 DEF TypeOK
  <2>2. r \notin disturbed => \A e \in Of(r) : exec[e].phase # "binding"
    BY <1>2, RunAssumption DEF Good, Settled, Late
  <2> QED BY <2>1, <2>2, <1>1, <1>2, <1>3, <1>q, <1>o DEF Still, Good, Final, Doomed
<1> QED BY <1>1, <1>2, <1>4, <1>5, <1>6, <1>7, <1>8 DEF Good

LEMMA ScanEndsGood ==
    ASSUME Typed, NEW fails \in BOOLEAN, ScanEnds(fails), NEW r, r = scan.run, Good(r)
    PROVE  r \in Runs /\ Still /\ Elsewhere(r) /\ Good(r)'
<1>1. /\ Still /\ UNCHANGED <<result, sends, told, abort, overdue, overtaken, lost>>
      /\ scan.step = "marked" /\ TypeOK
  BY DEF ScanEnds, ScanStep, Still, Typed
<1>2. r \in Runs /\ scan'.run = r /\ scan'.step = "done"
  BY <1>1 DEF TypeOK, NoScan, ScanEnds
<1>3. /\ \A x \in Runs : x # r => queue'[x] = queue[x]
      /\ queue'[r].status = IF queue[r].status \in Open /\ ~fails THEN "DONE"
                            ELSE queue[r].status
      /\ queue'[r].abort = queue[r].abort
      /\ disturbed \subseteq disturbed'
      /\ r \notin disturbed' => ~fails /\ r \notin disturbed
  BY <1>1, <1>2, DoneAt DEF ScanEnds
<1>q. queue[r].status \in Open \cup {"DONE"} /\ r \in overdue
  BY <1>1, <1>2 DEF TypeOK, Work, Good, Settled
<1>d. /\ r \notin disturbed' => queue'[r].status = "DONE"
      /\ queue'[r].status # "absent"
  BY <1>3, <1>q DEF Open
<1>4. Elsewhere(r)
  BY <1>1, <1>2, <1>3, StillElsewhere DEF Others
<1>o. Of(r)' = Of(r)
  BY <1>1, StillOf
<1>5. Flow(r)'
  BY <1>1, <1>3, <1>d, <1>o DEF Still, Good, Flow
<1>6. Settled(r)'
  BY <1>1, <1>2, <1>3, <1>d, <1>q, <1>o DEF Still, Good, Settled, Late
<1>7. Answered(r)'
  BY <1>1, <1>2, <1>3, <1>o DEF Still, Good, Answered, Owed
<1>8. Final(r)'
  BY <1>1, <1>3, <1>d, <1>q, <1>o DEF Still, Good, Final, Doomed
<1> QED BY <1>1, <1>2, <1>4, <1>5, <1>6, <1>7, <1>8 DEF Good

LEMMA ScanTellsGood ==
    ASSUME Typed, NEW ok \in BOOLEAN, _fire_timeout_callback(ok), NEW r, r = scan.run, Good(r)
    PROVE  r \in Runs /\ Still /\ Elsewhere(r) /\ Good(r)'
<1>1. /\ Still
      /\ UNCHANGED <<queue, result, sends, abort, overdue, disturbed, overtaken, lost>>
      /\ scan.step = "done" /\ TypeOK
  BY DEF _fire_timeout_callback, ScanStep, Unharmed, Still, Typed, rowVars
<1>2. r \in Runs /\ scan'.run = None /\ None \notin Runs
  BY <1>1, RunAssumption DEF TypeOK, NoScan, _fire_timeout_callback
<1>3. /\ \A x \in Runs : x # r => told'[x] = told[x]
      /\ told'[r] = told[r] \/ (told'[r] = result[r] /\ result[r] \in Terminal)
  BY <1>1, <1>2, TellAt DEF _fire_timeout_callback
<1>4. Elsewhere(r)
  BY <1>1, <1>2, <1>3, StillElsewhere DEF Others
<1>o. Of(r)' = Of(r)
  BY <1>1, StillOf
<1>5. Flow(r)'
  BY <1>1, <1>o DEF Still, Good, Flow
<1>6. Settled(r)'
  BY <1>1, <1>2, <1>o DEF Still, Good, Settled
<1>7. Answered(r)'
  BY <1>1, <1>2, <1>o DEF Still, Good, Answered, Owed
<1>8. Final(r)'
  BY <1>1, <1>3, <1>o DEF Still, Good, Final, Doomed
<1> QED BY <1>1, <1>2, <1>4, <1>5, <1>6, <1>7, <1>8 DEF Good

----------------------------------------------------------------------------
(* Dispatch, recovery, lost heartbeats, deadlines, crashes. *)
LEMMA DispatchGood ==
    ASSUME Typed, NEW r \in Runs, Dispatch(r), Good(r)
    PROVE  Still /\ Elsewhere(r) /\ Good(r)'
<1>1. /\ Still /\ UNCHANGED <<sends, told, scan, abort, overdue, disturbed, overtaken, lost>>
      /\ queue[r].status = "absent" /\ TypeOK
  BY DEF Dispatch, Still, podVars, history, Typed
<1>2. /\ \A x \in Runs : x # r => queue'[x] = queue[x] /\ result'[x] = result[x]
      /\ queue'[r].status = "PENDING" /\ queue'[r].abort = queue[r].abort
      /\ result'[r] = "PENDING"
  BY <1>1 DEF Dispatch, TypeOK, Work
<1>3. Elsewhere(r)
  BY <1>1, <1>2, StillElsewhere DEF Others
<1>o. Of(r)' = Of(r)
  BY <1>1, StillOf
<1>4. Of(r) = {} /\ result[r] = "absent" /\ abort.run # r /\ scan.run # r
  BY <1>1 DEF Good, Settled
<1>5. Flow(r)'
  BY <1>1, <1>2, <1>4, <1>o DEF Good, Flow
<1>6. Settled(r)'
  BY <1>1, <1>2, <1>4, <1>o DEF Settled
<1>7. Answered(r)'
  BY <1>1, <1>2, <1>4, <1>o DEF Answered, Owed
<1>8. Final(r)'
  <2>1. told[r] \in {"none"} \cup Terminal
    BY <1>1 DEF TypeOK
  <2> QED BY <2>1, <1>1, <1>2, <1>4, <1>o DEF Good, Final, Open, Terminal
<1> QED BY <1>1, <1>3, <1>5, <1>6, <1>7, <1>8 DEF Good

(* A disturbed run owes little. *)
LEMMA DisturbedGood ==
    ASSUME NEW x \in Runs, Good(x), x \in disturbed', result' = result, overdue \subseteq overdue',
           queue'[x].status = "absent" <=> queue[x].status = "absent",
           \A e \in Of(x)' : e \in Of(x) /\ exec'[e] = exec[e],
           scan'.run = x => scan' = scan, abort'.run = x => abort' = abort, Answered(x)'
    PROVE  Good(x)'
<1>1. Flow(x)' /\ Final(x)'
  BY DEF Flow, Final
<1>2. Settled(x)'
  BY DEF Good, Settled
<1> QED BY <1>1, <1>2 DEF Good

(* The heartbeat of a row runs out, or the recovery task makes it PENDING. *)
LEMMA StaleRowGood ==
    ASSUME Typed, NEW x \in Runs, Good(x), Still, queue[x].status = "RUNNING",
           x \in disturbed' \/ Of(x) = {}, disturbed \subseteq disturbed',
           queue'[x].status \in {"RUNNING", "PENDING"}, queue'[x].abort = queue[x].abort,
           UNCHANGED <<result, sends, told, scan, abort, overdue, overtaken, lost>>
    PROVE  Good(x)'
<1>o. Of(x)' = Of(x)
  BY StillOf
<1>1. Answered(x)'
  BY <1>o DEF Still, Good, Answered, Owed
<1>2. CASE x \in disturbed'
  <2>1. \A e \in Of(x)' : e \in Of(x) /\ exec'[e] = exec[e]
    BY <1>o DEF Still
  <2> QED BY <1>1, <1>2, <2>1, DisturbedGood
<1>3. CASE x \notin disturbed'
  <2>1. Of(x) = {} /\ Of(x)' = {} /\ x \notin disturbed /\ x \in overdue
    BY <1>3, <1>o DEF Good, Flow
  <2>2. Flow(x)'
    BY <2>1 DEF Good, Flow
  <2>3. Settled(x)'
    BY <2>1 DEF Good, Settled
  <2>4. Final(x)'
    BY <2>1 DEF Good, Final
  <2> QED BY <1>1, <2>2, <2>3, <2>4 DEF Good
<1> QED BY <1>2, <1>3

LEMMA RecoveryGood ==
    ASSUME Typed, reset_stale_running, \A x \in Runs : Good(x)
    PROVE  Still /\ \A x \in Runs : Good(x)'
<1>1. /\ Still
      /\ UNCHANGED <<result, sends, told, scan, abort, overdue, disturbed, overtaken, lost>>
      /\ queue \in [Runs -> Work]
  BY DEF reset_stale_running, Environment, podVars, Still, Typed, TypeOK
<1> SUFFICES ASSUME NEW x \in Runs PROVE Good(x)'
  BY <1>1
<1>2. CASE queue[x].status = "RUNNING" /\ queue[x].beat = "stale"
  <2>1. x \in disturbed \/ Of(x) = {}
    BY <1>2 DEF Good, Flow
  <2>2. queue'[x] = Pending(queue[x]) /\ queue[x] \in Work
    BY <1>1, <1>2 DEF reset_stale_running
  <2>3. queue'[x].status = "PENDING" /\ queue'[x].abort = queue[x].abort
    BY <2>2 DEF Pending, Work
  <2> QED BY <2>1, <2>3, <1>1, <1>2, StaleRowGood
<1>3. CASE ~(queue[x].status = "RUNNING" /\ queue[x].beat = "stale")
  <2>1. queue'[x] = queue[x]
    BY <1>3 DEF reset_stale_running
  <2>2. Untouched(x)
    BY <2>1, <1>1 DEF Untouched, Still
  <2> QED BY <2>2, UntouchedGood
<1> QED BY <1>2, <1>3

LEMMA StaleGood ==
    ASSUME Typed, NEW r \in Runs, GoesStale(r), Good(r)
    PROVE  Still /\ Elsewhere(r) /\ Good(r)'
<1>1. /\ Still /\ UNCHANGED <<result, sends, told, scan, abort, overdue, overtaken, lost>>
      /\ queue \in [Runs -> Work] /\ queue[r].status = "RUNNING"
      /\ disturbed' = IF Beating(r) THEN disturbed \cup {r} ELSE disturbed
  BY DEF GoesStale, Environment, podVars, Still, Typed, TypeOK, Add
<1>2. r \in disturbed' \/ Of(r) = {}
  <2> SUFFICES ASSUME r \notin disturbed, NEW e \in Of(r) PROVE Beating(r)
    BY <1>1
  <2>1. queue[r].worker = exec[e].pod
          /\ (exec[e].phase = "start" \/ "guardian" \in exec[e].watch)
    BY <1>1 DEF Good, Flow
  <2> QED BY <2>1, <1>1 DEF Beating, Of, Owns, At
<1>3. /\ \A x \in Runs : x # r => queue'[x] = queue[x]
      /\ queue'[r].status = queue[r].status /\ queue'[r].abort = queue[r].abort
  BY <1>1 DEF GoesStale, Work
<1>4. Elsewhere(r)
  BY <1>1, <1>3 DEF Still, Elsewhere, Untouched
<1> QED BY <1>1, <1>2, <1>3, <1>4, StaleRowGood

LEMMA CrashGood ==
    ASSUME Typed, TasksMatch, NEW p \in Pods, Crash(p), \A x \in Runs : Good(x)
    PROVE  TasksMatch' /\ \A x \in Runs : Good(x)'
<1> DEFINE hit == {exec[e].run : e \in ExecsOf(p)}
                  \cup (IF scan.pod = p THEN {scan.run} ELSE {})
                  \cup (IF abort.pod = p THEN {abort.run} ELSE {})
<1>1. /\ UNCHANGED <<queue, result, sends, told, overdue>>
      /\ disturbed' = disturbed \cup hit /\ overtaken' = overtaken
      /\ lost' = lost \cup {x \in hit : result[x] \in Open}
      /\ scan' = IF scan.pod = p THEN NoScan ELSE scan
      /\ abort' = IF abort.pod = p THEN NoAbort ELSE abort
      /\ tasks' = [tasks EXCEPT ![p] = [r \in Runs |-> None]]
      /\ exec' = [e \in Execs |-> IF exec[e].pod = p THEN Free ELSE exec[e]]
  BY DEF Crash, rowVars
<1>2. /\ Free.run = None /\ NoScan.run = None /\ NoAbort.run = None /\ None \notin Runs
      /\ None \notin Execs
  BY RunAssumption, LockAssumption DEF Free, NoScan, NoAbort
<1>3. tasks \in [Pods -> [Runs -> Execs \cup {None}]] /\ exec \in [Execs -> Exec]
  BY DEF Typed, TypeOK
<1>4. \A q \in Pods, x \in Runs : tasks'[q][x] = IF q = p THEN None ELSE tasks[q][x]
  BY <1>1, <1>3
<1>5. TasksMatch'
  <2> SUFFICES ASSUME NEW q \in Pods, NEW x \in Runs, NEW e \in Execs, tasks'[q][x] = e
               PROVE  exec'[e].pod = q /\ exec'[e].run = x
    BY DEF TasksMatch
  <2>1. q # p /\ tasks[q][x] = e
    BY <1>2, <1>4
  <2>2. exec[e].pod = q /\ exec[e].run = x
    BY <2>1 DEF TasksMatch
  <2> QED BY <2>1, <2>2, <1>1
<1> SUFFICES ASSUME NEW x \in Runs PROVE Good(x)'
  BY <1>5
<1>6. CASE x \in hit
  <2>1. \A e \in Of(x)' : e \in Of(x) /\ exec'[e] = exec[e]
    BY <1>1, <1>2 DEF Of
  <2>2. queue[x].status # "absent"
    BY <1>6 DEF ExecsOf, Of, Good, Settled
  <2>3. result[x] \in Open \cup Terminal
    BY <2>2 DEF Good, Settled, Typed, TypeOK
  <2>4. result[x] \in Terminal \/ x \in lost'
    BY <2>3, <1>1, <1>6
  <2>5. Answered(x)'
    BY <2>4, <1>1 DEF Answered
  <2> QED BY <2>1, <2>5, <1>6, <1>1, <1>2, DisturbedGood
<1>7. CASE x \notin hit
  <2>1. \A e \in Execs : exec'[e].run = x \/ exec[e].run = x => exec'[e] = exec[e]
    BY <1>7, <1>1, <1>2 DEF ExecsOf
  <2>2. \A q \in Pods : tasks'[q][x] = tasks[q][x]
    <3>1. tasks[p][x] = None
      <4> SUFFICES ASSUME tasks[p][x] # None PROVE FALSE
        OBVIOUS
      <4>1. PICK e \in Execs : tasks[p][x] = e
        BY <1>3
      <4>2. exec[e].pod = p /\ exec[e].run = x
        BY <4>1 DEF TasksMatch
      <4> QED BY <4>2, <1>7 DEF ExecsOf
    <3> QED BY <3>1, <1>4
  <2>3. Untouched(x)
    BY <2>1, <2>2, <1>1, <1>2, <1>7 DEF Untouched
  <2> QED BY <2>3, UntouchedGood
<1> QED BY <1>6, <1>7

----------------------------------------------------------------------------
(* The registry of the tasks. *)
KeepsPlaces ==
    /\ tasks' = tasks
    /\ \A f \in Execs : exec'[f].pod = exec[f].pod /\ exec'[f].run = exec[f].run

LEMMA PlacesMatch ==
    ASSUME TasksMatch, KeepsPlaces PROVE TasksMatch'
  BY DEF TasksMatch, KeepsPlaces

LEMMA GoesKeeps ==
    ASSUME NEW e, NEW r, NEW ph, NEW c, NEW w, Goes(e, r, ph, c, w), tasks' = tasks
    PROVE  KeepsPlaces
  BY DEF Goes, KeepsPlaces, Of

LEMMA FinishMatch ==
    ASSUME Typed, TasksMatch, NEW e \in Execs, exec[e].phase # "free", Finish(e)
    PROVE  TasksMatch'
<1> DEFINE p == exec[e].pod
           r == exec[e].run
<1>1. p \in Pods /\ r \in Runs
  BY RunOf
<1>2. tasks' = [tasks EXCEPT ![p] = [tasks[p] EXCEPT ![r] = None]]
  BY DEF Finish
<1>3. \A f \in Execs : f # e => exec'[f] = exec[f]
  BY DEF Finish, Typed, TypeOK
<1> SUFFICES ASSUME NEW q \in Pods, NEW x \in Runs, NEW f \in Execs, tasks'[q][x] = f
             PROVE  exec'[f].pod = q /\ exec'[f].run = x
  BY DEF TasksMatch
<1>4. ~(q = p /\ x = r) /\ tasks[q][x] = f
  <2> HIDE DEF p, r
  <2> QED BY <1>1, <1>2, LockAssumption DEF Typed, TypeOK
<1>5. exec[f].pod = q /\ exec[f].run = x
  BY <1>4 DEF TasksMatch
<1> QED BY <1>3, <1>4, <1>5

LEMMA TaskMatch ==
    ASSUME Typed, TasksMatch, NEW e \in Execs, TaskStep(e) \/ BotAnswers(e) PROVE TasksMatch'
<1> USE DEF ExecStep, Quiet, At, Resumes
<1>1. CASE LocksSession(e) \/ FindsSessionBusy(e)
  BY <1>1, BeginGoes, GoesKeeps, PlacesMatch DEF LocksSession, FindsSessionBusy
<1>9. ASSUME NEW b \in BOOLEAN, ExpiresAtStart(e, b) PROVE TasksMatch'
  BY <1>9, BeginGoes, GoesKeeps, PlacesMatch DEF ExpiresAtStart
<1>2. CASE \/ CancelledUnstarted(e) \/ Bind(e) \/ BindingMissing(e) \/ Outage(e)
  BY <1>2, GoToGoes, GoesKeeps, PlacesMatch DEF CancelledUnstarted, Bind, BindingMissing, Outage
<1>3. ASSUME NEW b \in BOOLEAN, Unlock(e, b) \/ _post_run(e, b) \/ _mark_cancelled(e, b)
      PROVE  TasksMatch'
  BY <1>3, GoToGoes, GoesKeeps, PlacesMatch DEF Unlock, _post_run, _mark_cancelled
<1>4. ASSUME NEW out \in {"COMPLETED", "FAILED", "TIME_OUT"}, Send(e, out) PROVE TasksMatch'
  BY <1>4, GoToGoes, GoesKeeps, PlacesMatch DEF Send
<1>5. ASSUME NEW b \in BOOLEAN, Cancelled(e, b) PROVE TasksMatch'
  BY <1>5, ResetGoes, GoesKeeps, PlacesMatch DEF Cancelled
<1>6. CASE PostRunCancelled(e)
  BY <1>6, ResetGoes, GoesKeeps, PlacesMatch DEF PostRunCancelled
<1>7. ASSUME NEW b \in BOOLEAN,
             _requeue_pending(e, b) \/ _mark_queue_done(e, b) \/ AssuredCallback(e, b)
      PROVE  TasksMatch'
  BY <1>7, FinishMatch DEF _requeue_pending, _mark_queue_done, AssuredCallback
<1> QED BY <1>1, <1>2, <1>3, <1>4, <1>5, <1>6, <1>7, <1>9 DEF TaskStep, BotAnswers

LEMMA WatchMatch ==
    ASSUME Typed, TasksMatch, NEW e \in Execs, WatchStep(e) PROVE TasksMatch'
<1> USE DEF ExecStep, Quiet
<1>a. exec \in [Execs -> Exec] /\ exec[e] \in Exec
  BY DEF Typed, TypeOK
<1>1. CASE touch_heartbeat(e)
  BY <1>1, PlacesMatch DEF touch_heartbeat, KeepsPlaces, podVars
<1>2. ASSUME NEW fails \in BOOLEAN, _abort_poll_loop(e, fails) PROVE TasksMatch'
  <2> DEFINE x == [[exec[e] EXCEPT !.watch = exec[e].watch \ {"poll"}] EXCEPT !.cancel = TRUE]
  <2>1. exec' = [exec EXCEPT ![e] = x]
    BY <1>2, <1>a DEF _abort_poll_loop
  <2>2. x.pod = exec[e].pod /\ x.run = exec[e].run
    BY <1>a DEF Exec
  <2> HIDE DEF x
  <2>3. KeepsPlaces
    BY <2>1, <2>2, <1>a, <1>2 DEF KeepsPlaces, _abort_poll_loop
  <2> QED BY <2>3, PlacesMatch
<1>3. ASSUME NEW ok \in BOOLEAN, NEW fails \in BOOLEAN, _terminate_local_timeout(e, ok, fails)
      PROVE  TasksMatch'
  <2> DEFINE c == _cancel_local_task(exec[e].pod, exec[e].run)
             x == [c[e] EXCEPT !.watch = c[e].watch \ {"guardian"}]
  <2>1. /\ c \in [Execs -> Exec]
        /\ \A f \in Execs : c[f].pod = exec[f].pod /\ c[f].run = exec[f].run
    BY CancelTyped
  <2>2. exec' = [c EXCEPT ![e] = x]
    BY <1>3 DEF _terminate_local_timeout
  <2>3. x.pod = c[e].pod /\ x.run = c[e].run
    <3> HIDE DEF c
    <3> QED BY <2>1 DEF Exec
  <2> HIDE DEF c, x
  <2>4. KeepsPlaces
    BY <2>1, <2>2, <2>3, <1>3 DEF KeepsPlaces, _terminate_local_timeout
  <2> QED BY <2>4, PlacesMatch
<1> QED BY <1>1, <1>2, <1>3 DEF WatchStep

LEMMA ClaimMatch ==
    ASSUME Typed, TasksMatch, NEW p \in Pods, NEW r \in Runs, NEW e \in Execs,
           claim_pending_by_bot(p, r, e)
    PROVE  TasksMatch'
<1> DEFINE y == [Free EXCEPT !.phase = "start", !.pod = p, !.run = r]
<1>1. y.pod = p /\ y.run = r
  BY DEF Free
<1>2. exec' = [exec EXCEPT ![e] = y] /\ tasks' = [tasks EXCEPT ![p] = [tasks[p] EXCEPT ![r] = e]]
  BY DEF claim_pending_by_bot
<1> HIDE DEF y
<1>3. exec[e].run = None /\ None \notin Runs
  BY RunAssumption DEF claim_pending_by_bot, Spare, At, Typed, Placed, Located, Free
<1>4. \A f \in Execs : exec'[f] = IF f = e THEN y ELSE exec[f]
  BY <1>2 DEF Typed, TypeOK
<1> SUFFICES ASSUME NEW q \in Pods, NEW x \in Runs, NEW f \in Execs, tasks'[q][x] = f
             PROVE  exec'[f].pod = q /\ exec'[f].run = x
  BY DEF TasksMatch
<1>5. CASE q = p /\ x = r
  <2>1. f = e
    BY <1>5, <1>2 DEF Typed, TypeOK
  <2> QED BY <2>1, <1>5, <1>1, <1>4
<1>6. CASE ~(q = p /\ x = r)
  <2>1. tasks[q][x] = f
    BY <1>6, <1>2 DEF Typed, TypeOK
  <2>2. exec[f].pod = q /\ exec[f].run = x
    BY <2>1 DEF TasksMatch
  <2> QED BY <2>2, <1>3, <1>4
<1> QED BY <1>5, <1>6

LEMMA StillMatch == TasksMatch /\ Still => TasksMatch'
  BY DEF TasksMatch, Still

----------------------------------------------------------------------------
(* All steps together. *)
Goodness == TasksMatch /\ \A r \in Runs : Good(r)

LEMMA ElsewhereGood ==
    ASSUME Typed, Goodness, NEW r \in Runs, Elsewhere(r), Good(r)'
    PROVE  \A x \in Runs : Good(x)'
  BY UntouchedGood DEF Elsewhere, Goodness

LEMMA OwnGood ==
    ASSUME Typed, Goodness, NEW e, NEW r, OwnStep(e, r), Good(r)'
    PROVE  \A x \in Runs : Good(x)'
<1>1. r \in Runs
  BY DEF OwnStep
<1> QED BY <1>1, OwnStepElsewhere, ElsewhereGood DEF Elsewhere

(* Nothing the invariant looks at changes, but deadlines may pass. *)
LEMMA CalmGood ==
    ASSUME Typed, Goodness, Still, overdue \subseteq overdue',
           UNCHANGED <<queue, result, sends, told, disturbed, overtaken, lost, scan, abort>>
    PROVE  Goodness'
<1>1. \A x \in Runs : Untouched(x)
  BY DEF Still, Untouched
<1> QED BY <1>1, UntouchedGood, StillMatch DEF Goodness

LEMMA TaskGoodness ==
    ASSUME Typed, Goodness, NEW e \in Execs, TaskStep(e) \/ BotAnswers(e) PROVE Goodness'
<1> SUFFICES \A x \in Runs : Good(x)'
  BY TaskMatch DEF Goodness
<1>a. exec[e].phase # "free"
  BY DEF TaskStep, BotAnswers, ExpiresAtStart, LocksSession, FindsSessionBusy, _requeue_pending,
         CancelledUnstarted, Unlock, Cancelled, _mark_queue_done, _mark_cancelled,
         PostRunCancelled, _post_run, AssuredCallback, Bind, BindingMissing, Outage, Send,
         Resumes, At
<1>b. PICK r \in Runs : r = exec[e].run
  BY <1>a, RunOf
<1>c. Good(r)
  BY <1>b DEF Goodness
<1> SUFFICES OwnStep(e, r) /\ Good(r)'
  BY OwnGood
<1>1. CASE LocksSession(e) \/ FindsSessionBusy(e) \/ CancelledUnstarted(e)
  BY <1>1, <1>b, <1>c, LocksGood, BusyGood, UnstartedGood
<1>5. ASSUME NEW b \in BOOLEAN,
             ExpiresAtStart(e, b) \/ _requeue_pending(e, b) \/ _mark_cancelled(e, b)
      PROVE  OwnStep(e, r) /\ Good(r)'
  BY <1>5, <1>b, <1>c, ExpiresGood, RequeueGood, MarkCancelledGood
<1>2. ASSUME NEW b \in BOOLEAN, Unlock(e, b) \/ Cancelled(e, b) \/ _mark_queue_done(e, b)
                                \/ _post_run(e, b) \/ AssuredCallback(e, b)
      PROVE  OwnStep(e, r) /\ Good(r)'
  BY <1>2, <1>b, <1>c, UnlockGood, CancelledGood, MarkDoneGood, PostRunGood, AssuredGood
<1>3. CASE PostRunCancelled(e) \/ Bind(e) \/ BindingMissing(e) \/ Outage(e)
  BY <1>3, <1>b, <1>c, PostRunCancelledGood, BindGood, MissingGood, OutageGood
<1>4. ASSUME NEW out \in {"COMPLETED", "FAILED", "TIME_OUT"}, Send(e, out)
      PROVE  OwnStep(e, r) /\ Good(r)'
  BY <1>4, <1>b, <1>c, SendGood
<1> QED BY <1>1, <1>2, <1>3, <1>4, <1>5 DEF TaskStep, BotAnswers

LEMMA WatchGoodness ==
    ASSUME Typed, Goodness, NEW e \in Execs, WatchStep(e) PROVE Goodness'
<1> SUFFICES \A x \in Runs : Good(x)'
  BY WatchMatch DEF Goodness
<1>a. exec[e].watch # {}
  BY DEF WatchStep, touch_heartbeat, _abort_poll_loop, _terminate_local_timeout, Watched
<1>b. PICK r \in Runs : r = exec[e].run
  BY <1>a, FreeExec, RunOf DEF Typed, Placed, Located
<1>c. Good(r) /\ TasksMatch
  BY <1>b DEF Goodness
<1>1. CASE touch_heartbeat(e)
  BY <1>1, <1>b, <1>c, HeartbeatGood, ElsewhereGood
<1>2. ASSUME NEW fails \in BOOLEAN, _abort_poll_loop(e, fails) PROVE \A x \in Runs : Good(x)'
  BY <1>2, <1>b, <1>c, PollGood, OwnGood
<1>3. ASSUME NEW ok \in BOOLEAN, NEW fails \in BOOLEAN, _terminate_local_timeout(e, ok, fails)
      PROVE  \A x \in Runs : Good(x)'
  BY <1>3, <1>b, <1>c, TerminateGood, ElsewhereGood
<1> QED BY <1>1, <1>2, <1>3 DEF WatchStep

LEMMA RecordGoodness ==
    ASSUME Typed, Goodness, AbortRecord \/ ScanRecord PROVE Goodness'
<1>a. TypeOK /\ TasksMatch
  BY DEF Typed, Goodness
<1>g. \A r \in Runs : Good(r)
  BY DEF Goodness
<1>s. ASSUME NEW r \in Runs, Still, Elsewhere(r), Good(r)' PROVE Goodness'
  BY <1>s, <1>a, StillMatch, ElsewhereGood DEF Goodness
<1>1. CASE AbortRecord
  <2>1. PICK r \in Runs : r = abort.run
    BY <1>1, <1>a DEF AbortRecord, AbortMarks, request_abort, AbortEnds, TypeOK, NoAbort
  <2>2. ASSUME NEW fails \in BOOLEAN, AbortMarks(fails) PROVE Goodness'
    BY <2>1, <2>2, <1>g, <1>s, AbortMarksGood
  <2>3. ASSUME NEW fails \in BOOLEAN, request_abort(fails) PROVE Goodness'
    BY <2>1, <2>3, <1>g, <1>s, RequestGood
  <2>4. ASSUME NEW fails \in BOOLEAN, AbortEnds(fails) PROVE Goodness'
    <3>1. Elsewhere(r) /\ Good(r)' /\ KeepsPlaces
      BY <2>1, <2>4, <1>a, <1>g, AbortEndsGood DEF KeepsPlaces
    <3> QED BY <3>1, <1>a, PlacesMatch, ElsewhereGood DEF Goodness
  <2> QED BY <1>1, <2>2, <2>3, <2>4 DEF AbortRecord
<1>2. ASSUME NEW p \in Pods, NEW r \in Runs, scan_timeout(p, r) PROVE Goodness'
  BY <1>2, <1>g, <1>s, ScanFindsGood
<1>3. ASSUME NEW fails \in BOOLEAN, ScanMarks(fails) \/ ScanEnds(fails) PROVE Goodness'
  <2>1. PICK r \in Runs : r = scan.run
    BY <1>3, <1>a DEF ScanMarks, ScanEnds, TypeOK, NoScan
  <2> QED BY <2>1, <1>3, <1>g, <1>s, ScanMarksGood, ScanEndsGood
<1>4. ASSUME NEW ok \in BOOLEAN, _fire_timeout_callback(ok) PROVE Goodness'
  <2>1. PICK r \in Runs : r = scan.run
    BY <1>4, <1>a DEF _fire_timeout_callback, TypeOK, NoScan
  <2> QED BY <2>1, <1>4, <1>g, <1>s, ScanTellsGood
<1> QED BY <1>1, <1>2, <1>3, <1>4 DEF ScanRecord

LEMMA GoodnessNext == Typed /\ Goodness /\ [Next]_vars => Goodness'
<1> SUFFICES ASSUME Typed, Goodness, [Next]_vars PROVE Goodness'
  OBVIOUS
<1> USE DEF rowVars, podVars, history
<1>g. TasksMatch /\ \A r \in Runs : Good(r)
  BY DEF Goodness
<1>s. ASSUME NEW r \in Runs, Still, Elsewhere(r), Good(r)' PROVE Goodness'
  BY <1>s, <1>g, StillMatch, ElsewhereGood DEF Goodness
<1>1. ASSUME NEW p \in Pods, TickStep(p) PROVE Goodness'
  <2>1. CASE CountRunning(p) \/ ClaimNothing(p)
    BY <2>1, CalmGood DEF CountRunning, ClaimNothing, Still
  <2>2. ASSUME NEW r \in Runs, NEW e \in Execs, claim_pending_by_bot(p, r, e) PROVE Goodness'
    BY <2>2, <1>g, ClaimGood, ClaimMatch, ElsewhereGood DEF Goodness
  <2> QED BY <1>1, <2>1, <2>2 DEF TickStep
<1>2. ASSUME NEW p \in Pods, Crash(p) PROVE Goodness'
  BY <1>2, <1>g, CrashGood DEF Goodness
<1>3. ASSUME NEW p \in Pods, NEW r \in Runs, AbortFinds(p, r) PROVE Goodness'
  BY <1>3, <1>g, <1>s, AbortFindsGood
<1>4. CASE reset_stale_running
  BY <1>4, <1>g, RecoveryGood, StillMatch DEF Goodness
<1>5. CASE ReapLocks \/ UNCHANGED vars
  BY <1>5, CalmGood DEF ReapLocks, Environment, Still, vars
<1>6. ASSUME NEW s \in Sessions, SessionLockStep(s) PROVE Goodness'
  BY <1>6, CalmGood DEF SessionLockStep, Environment, Still
<1>7. ASSUME NEW r \in Runs, DeadlinePasses(r) PROVE Goodness'
  BY <1>7, CalmGood DEF DeadlinePasses, Environment, Still
<1>8. ASSUME NEW r \in Runs, Dispatch(r) \/ GoesStale(r) PROVE Goodness'
  BY <1>8, <1>g, <1>s, DispatchGood, StaleGood
<1> QED BY <1>1, <1>2, <1>3, <1>4, <1>5, <1>6, <1>7, <1>8, TaskGoodness, WatchGoodness,
           RecordGoodness DEF Next

LEMMA AlwaysGood == Spec => []Goodness
<1>1. Init => Goodness
  <2> SUFFICES ASSUME Init PROVE Goodness
    OBVIOUS
  <2>1. \A e \in Execs : exec[e].run = None
    BY DEF Init, Free
  <2>2. \A r \in Runs : Of(r) = {} /\ abort.run # r /\ scan.run # r
    BY <2>1, RunAssumption DEF Init, Of, NoAbort, NoScan
  <2>3. TasksMatch
    BY LockAssumption DEF Init, TasksMatch
  <2>4. \A r \in Runs : Good(r)
    BY <2>2 DEF Init, Good, Flow, Settled, Answered, Owed, Final, Terminal
  <2> QED BY <2>3, <2>4 DEF Goodness
<1> QED BY <1>1, GoodnessNext, AlwaysTyped, PTL DEF Spec

----------------------------------------------------------------------------
(* Through requeues, timeouts, aborts and races for the row, the message of   *)
(* an undisturbed run reaches the bot at most once.                           *)
THEOREM MessagesAreSentOnce == Spec => []SentOnce
<1>1. Typed /\ Goodness => SentOnce
  <2> SUFFICES ASSUME Typed, Goodness, NEW r \in Runs, sends[r] > 1, r \notin disturbed PROVE FALSE
    BY DEF SentOnce
  <2>1. sends[r] <= 1 /\ sends[r] \in 0..2
    BY DEF Goodness, Good, Flow, Typed, TypeOK
  <2> QED BY <2>1
<1> QED BY <1>1, AlwaysGood, AlwaysTyped, PTL

(* A closed row has its result, or an execution that writes one, unless       *)
(* writing it failed or its writer died.  Of a run that was not disturbed     *)
(* that execution is cancelled, or will be by its abort poll.                 *)
THEOREM ClosedRowsAreSettled == Spec => []DoneIsSettled
<1>1. ASSUME Goodness PROVE DoneIsSettled
  <2> SUFFICES ASSUME NEW r \in Runs, queue[r].status = "DONE", r \notin lost,
                      result[r] \notin Terminal
               PROVE  \E e \in Execs : /\ exec[e].run = r
                                       /\ exec[e].phase \in {"binding", "sending", "failing"}
                                       /\ \/ r \in disturbed \/ exec[e].cancel \/ queue[r].abort
                                          \/ At(e, "failing")
    BY DEF DoneIsSettled
  <2>1. PICK e \in Of(r) : exec[e].phase \in {"binding", "sending", "failing"}
    BY <1>1 DEF Goodness, Good, Answered, Owed
  <2>2. \/ r \in disturbed \/ exec[e].cancel \/ queue[r].abort
        \/ exec[e].phase = "failing"
    BY <1>1, <2>1 DEF Goodness, Good, Settled
  <2> QED BY <2>1, <2>2 DEF Of, At
<1> QED BY <1>1, AlwaysGood, PTL

(* BCN is told what the result row says from then on, of runs that were       *)
(* neither disturbed nor overtaken by another process's abort.                *)
THEOREM BcnIsToldTheTruth == Spec => []ToldIsTrue
<1>1. Goodness => ToldIsTrue
  BY DEF Goodness, Good, Final, ToldIsTrue
<1> QED BY <1>1, AlwaysGood, PTL

LEMMA SettleKeeps ==
    ASSUME TypeOK, NEW y, NEW st, Settle(y, st), NEW r \in Runs, result[r] \in Terminal
    PROVE  result'[r] = result[r]
  BY DEF TypeOK, Settle, Open, Terminal

LEMMA TryKeeps ==
    ASSUME TypeOK, NEW y, NEW st, NEW fails, TryToSettle(y, st, fails),
           NEW r \in Runs, result[r] \in Terminal
    PROVE  result'[r] = result[r]
  BY SettleKeeps DEF TryToSettle

LEMMA FinalStep ==
    ASSUME Typed, Goodness, [Next]_vars, NEW r \in Runs, result[r] \in Terminal,
           r \notin disturbed \cup overtaken
    PROVE  result'[r] = result[r]
<1> USE DEF rowVars
<1>a. TypeOK /\ Good(r)
  BY DEF Typed, Goodness
<1>1. ASSUME NEW e \in Execs, TaskStep(e) PROVE result'[r] = result[r]
  BY <1>1, <1>a, TryKeeps
     DEF TaskStep, ExpiresAtStart, LocksSession, FindsSessionBusy, _requeue_pending,
         CancelledUnstarted, Unlock, Cancelled, _mark_queue_done, _mark_cancelled,
         PostRunCancelled, _post_run, AssuredCallback
<1>2. ASSUME NEW e \in Execs, BotAnswers(e) PROVE result'[r] = result[r]
  <2>1. CASE Bind(e)
    <3>1. exec[e].phase = "binding" /\ ~exec[e].cancel /\ Idle(exec[e].pod)
      BY <2>1 DEF Bind, Resumes, At
    <3>2. ASSUME exec[e].run = r PROVE FALSE
      <4>1. ~(abort.run = r /\ abort.mine)
        BY <3>1, <3>2, <1>a, NotHeld DEF Late
      <4> QED BY <4>1, <3>1, <3>2, <1>a DEF Good, Final, Doomed, Of, Open, Terminal
    <3> QED BY <3>2, <2>1, <1>a DEF Bind, TypeOK
  <2> QED BY <1>2, <2>1, <1>a, SettleKeeps DEF BotAnswers, BindingMissing, Outage, Send
<1>3. ASSUME NEW e \in Execs, WatchStep(e) PROVE result'[r] = result[r]
  BY <1>3 DEF WatchStep, touch_heartbeat, _abort_poll_loop, _terminate_local_timeout
<1>4. ASSUME NEW p \in Pods, TickStep(p) \/ Crash(p) \/ \E x \in Runs : AbortFinds(p, x)
      PROVE  result'[r] = result[r]
  BY <1>4 DEF TickStep, CountRunning, ClaimNothing, claim_pending_by_bot, Crash, AbortFinds
<1>5. CASE AbortRecord \/ ScanRecord
  BY <1>5, <1>a, SettleKeeps, TryKeeps
     DEF AbortRecord, AbortMarks, request_abort, AbortEnds,
         ScanRecord, scan_timeout, ScanMarks, ScanEnds, _fire_timeout_callback
<1>6. CASE reset_stale_running \/ ReapLocks \/ UNCHANGED vars
  BY <1>6 DEF reset_stale_running, ReapLocks, vars
<1>7. ASSUME NEW x \in Runs, Dispatch(x) PROVE result'[r] = result[r]
  <2>1. x # r
    BY <1>7, <1>a DEF Dispatch, Good, Settled, Terminal
  <2> QED BY <2>1, <1>7, <1>a DEF Dispatch, TypeOK
<1>8. ASSUME NEW x \in Runs, GoesStale(x) \/ DeadlinePasses(x) PROVE result'[r] = result[r]
  BY <1>8 DEF GoesStale, DeadlinePasses
<1>9. ASSUME NEW s \in Sessions, SessionLockStep(s) PROVE result'[r] = result[r]
  BY <1>9 DEF SessionLockStep
<1> QED BY <1>1, <1>2, <1>3, <1>4, <1>5, <1>6, <1>7, <1>8, <1>9 DEF Next

(* A result, once written, is not overwritten, though update_status has no    *)
(* guard, unless its run was disturbed or overtaken.                          *)
THEOREM ResultsAreFinal == Spec => ResultIsFinal
<1>1. Typed /\ Goodness /\ [Next]_vars =>
        [\A r \in Runs \ (disturbed \cup overtaken) :
            result[r] \in Terminal => result'[r] = result[r]]_vars
  BY FinalStep
<1> QED BY <1>1, AlwaysGood, AlwaysTyped, PTL DEF Spec, ResultIsFinal
=============================================================================
