-------------------------- MODULE TaskQueueProofs --------------------------
(***************************************************************************)
(* The safety properties of the task queue and its refinement of WorkSlots, *)
(* for any number of tasks, pods, keys and types and any lease.             *)
(*                                                                         *)
(* Every step of the pods is first reduced to what it does to the table     *)
(* (RowStep) and to the coroutine a pod runs for a task (JobMove).  The      *)
(* invariants are then shown for those few shapes.                          *)
(***************************************************************************)
EXTENDS TaskQueueProperties, TLAPS

-----------------------------------------------------------------------------
(* Type correctness *)

(* Single fields of a row and of a job. *)
LEMMA RowLease ==
    ASSUME NEW r \in Row, NEW n \in Nat \cup {Null} PROVE [r EXCEPT !.lease = n] \in Row
  BY DEF Row

LEMMA RowClaim ==
    ASSUME NEW r \in Row, NEW w \in Workers, NEW n \in Nat
    PROVE  [r EXCEPT !.status = "RUNNING", !.by = w, !.attempts = n] \in Row
  BY DEF Row, Live

LEMMA NextAttempt == ASSUME NEW r \in Row PROVE r.attempts + 1 \in Nat
  BY DEF Row

LEMMA JobClaim ==
    ASSUME NEW n \in Nat
    PROVE  [NoJob EXCEPT !.phase = "waiting", !.attempt = n] \in Job
  BY DEF NoJob, Job

LEMMA LeaseType == Lease \in Nat \cup {Null}
  BY QueueAssumption

(* The rows the statements write. *)
LEMMA RowWritten ==
    ASSUME NEW r \in Row
    PROVE  /\ \A w \in Workers : Claimed(r, w) \in Row
           /\ \A st \in TERMINAL_STATUSES : Ended(r, st) \in Row
           /\ \A d \in Nat : Repended(r, d) \in Row /\ Rescheduled(r, d) \in Row
           /\ Renewed(r) \in Row
           /\ Aged(r) \in Row
           /\ \A j \in Job : Written(r, j) \in Row
<1>1. ASSUME NEW w \in Workers PROVE Claimed(r, w) \in Row
  <2> DEFINE n == r.attempts + 1
             q == [r EXCEPT !.status = "RUNNING", !.by = w, !.attempts = n]
  <2>1. n \in Nat
    BY NextAttempt
  <2>2. q \in Row
    BY <2>1, RowClaim
  <2>3. [q EXCEPT !.lease = Lease] \in Row
    BY <2>2, LeaseType, RowLease
  <2>4. Claimed(r, w) = [q EXCEPT !.lease = Lease]
    BY DEF Claimed, Row
  <2> QED BY <2>3, <2>4
<1>2. \A st \in TERMINAL_STATUSES : Ended(r, st) \in Row
  BY DEF Ended, Row, Live, TERMINAL_STATUSES, Null
<1>3. \A d \in Nat : Repended(r, d) \in Row
  BY DEF Repended, Row, Live, TERMINAL_STATUSES, Null
<1>4. \A d \in Nat : Rescheduled(r, d) \in Row
  BY <1>2, <1>3 DEF Rescheduled, TERMINAL_STATUSES
<1>5. Renewed(r) \in Row
  BY LeaseType, RowLease DEF Renewed
<1>6. Aged(r) \in Row
  <2>1. \A n \in Nat : Dec(n) \in Nat
    BY DEF Dec
  <2>2. \A n \in Nat \cup {Null} : Dec(n) \in Nat \cup {Null}
    BY DEF Dec, Null
  <2>3. /\ r.due \in Nat /\ r.deadline \in Nat /\ r.lease \in Nat \cup {Null}
    BY DEF Row
  <2>4. ASSUME NEW a \in Nat, NEW b \in Nat, NEW c \in Nat \cup {Null}
        PROVE  [r EXCEPT !.due = a, !.deadline = b, !.lease = c] \in Row
    BY DEF Row
  <2> QED BY <2>1, <2>2, <2>3, <2>4 DEF Aged
<1>7. \A j \in Job : Written(r, j) \in Row
  BY <1>2, <1>4 DEF Written, TERMINAL_STATUSES, Job
<1> QED BY <1>1, <1>2, <1>3, <1>4, <1>5, <1>6, <1>7

LEMMA BlankRow == Blank \in Row
<1>1. (CHOOSE a \in Apps : TRUE) \in Apps /\ (CHOOSE y \in Types : TRUE) \in Types
  BY QueueAssumption
<1> QED BY <1>1 DEF Blank, Row, Null

LEMMA TypeInit == Init => TypeOK
<1> SUFFICES ASSUME Init PROVE TypeOK
  OBVIOUS
<1>1. rows \in [Tasks -> Row]
  BY BlankRow DEF Init
<1>2. jobs \in [Workers -> [Tasks -> Job]]
  BY DEF Init, NoJob, Job
<1>3. call \in [Workers -> Call]
  BY DEF Init, NoCall, Call
<1> QED BY <1>1, <1>2, <1>3, QueueAssumption DEF Init, TypeOK

LEMMA JobShapes == NoJob \in Job /\ NoCall \in Call
  BY DEF NoJob, Job, NoCall, Call

(* The actions, grouped by what they write. *)
LEMMA TypeLoop ==
    ASSUME TypeOK, NEW w \in Workers, LoopStep(w) PROVE TypeOK'
<1> USE DEF wakeVars, history
<1>1. CASE Boot(w)
  BY <1>1 DEF TypeOK, Boot
<1>5. CASE BeginBatch(w)
  BY <1>5 DEF TypeOK, BeginBatch
<1>6. CASE BatchDone(w)
  BY <1>6 DEF TypeOK, BatchDone
<1>7. CASE Wake(w)
  BY <1>7 DEF TypeOK, Wake
<1>2. CASE Scan(w)
  BY <1>2 DEF TypeOK, Scan, _read_candidates, history
<1>3. ASSUME NEW t \in Tasks, ClaimRow(w, t) PROVE TypeOK'
  <2>1. rows[t] \in Row /\ jobs[w][t] \in Job
    BY DEF TypeOK
  <2>2. CASE Claim(w, t)
    <3>1. rows' \in [Tasks -> Row]
      BY <2>1, <2>2, RowWritten DEF TypeOK, Claim
    <3>2. [NoJob EXCEPT !.phase = "waiting", !.attempt = rows[t].attempts + 1] \in Job
      BY <2>1, NextAttempt, JobClaim
    <3>3. jobs' \in [Workers -> [Tasks -> Job]]
      BY <3>2, <2>2 DEF TypeOK, Claim
    <3> QED BY <3>1, <3>3, <2>2, <1>3 DEF TypeOK, Claim, ClaimRow, wakeVars
  <2>3. CASE Retire(w, t)
    <3>1. rows' \in [Tasks -> Row]
      BY <2>1, <2>3, RowWritten DEF TypeOK, Retire, TERMINAL_STATUSES
    <3> QED BY <3>1, <2>3, <1>3 DEF TypeOK, Retire, ClaimRow, wakeVars
  <2>4. CASE UNCHANGED <<rows, jobs, won, retired, ender>>
    BY <2>4, <1>3 DEF TypeOK, ClaimRow, wakeVars
  <2> QED BY <1>3, <2>2, <2>3, <2>4 DEF ClaimRow
<1>4. ASSUME NEW t \in Tasks, GiveUpRetired(w, t) PROVE TypeOK'
  BY <1>4 DEF TypeOK, GiveUpRetired, wakeVars
<1> QED BY <1>1, <1>2, <1>3, <1>4, <1>5, <1>6, <1>7 DEF LoopStep

LEMMA TypeJob ==
    ASSUME TypeOK, NEW w \in Workers, NEW t \in Tasks, NEW j \in Job, SetJob(w, t, j)
    PROVE  jobs' \in [Workers -> [Tasks -> Job]]
  BY DEF TypeOK, SetJob

LEMMA TypeOutcome ==
    ASSUME TypeOK, NEW w \in Workers, NEW t \in Tasks, WriteOutcome(w, t)
    PROVE  rows' \in [Tasks -> Row] /\ ender' \in [Tasks -> Workers \cup {NoWorker}]
<1>1. Written(rows[t], jobs[w][t]) \in Row
  BY RowWritten DEF TypeOK
<1> QED BY <1>1 DEF TypeOK, WriteOutcome

LEMMA TypeRun ==
    ASSUME TypeOK, NEW w \in Workers, RunStep(w) PROVE TypeOK'
<1> USE DEF JobStep, wakeVars
<1>0. PICK t \in Tasks :
       \/ StartHandler(w, t)
       \/ \E out \in {"complete", "fail", "repend"}, delay \in PollDelays \cup 0..BackoffMax :
             HandlerReturns(w, t, out, delay)
       \/ _apply(w, t) \/ ApplyLost(w, t) \/ ReadBack(w, t) \/ _give_up(w, t)
  BY DEF RunStep
<1>a. jobs[w][t] \in Job
  BY DEF TypeOK
<1>1. CASE StartHandler(w, t)
  <2>1. jobs' \in [Workers -> [Tasks -> Job]]
    BY <1>a, <1>1, TypeJob DEF StartHandler, Job
  <2> QED BY <2>1, <1>1 DEF StartHandler, TypeOK
<1>2. ASSUME NEW out \in {"complete", "fail", "repend"}, NEW delay \in PollDelays \cup 0..BackoffMax,
             HandlerReturns(w, t, out, delay)
      PROVE TypeOK'
  <2>1. delay \in Nat
    BY WorkerAssumption
  <2>2. jobs' \in [Workers -> [Tasks -> Job]]
    BY <1>a, <2>1, <1>2, TypeJob, JobShapes DEF HandlerReturns, Job
  <2> QED BY <2>2, <1>2 DEF HandlerReturns, TypeOK
<1>3. CASE _apply(w, t)
  <2>1. AfterWrite(t, jobs[w][t]) \in Job
    BY <1>a DEF AfterWrite, NoJob, Job
  <2>2. jobs' \in [Workers -> [Tasks -> Job]]
    BY <2>1, <1>3, TypeJob DEF _apply
  <2> QED BY <2>2, <1>3, TypeOutcome DEF _apply, TypeOK
<1>4. CASE ApplyLost(w, t)
  BY <1>4, TypeJob, JobShapes DEF ApplyLost, TypeOK
<1>5. CASE ReadBack(w, t)
  <2>1. jobs' \in [Workers -> [Tasks -> Job]]
    BY <1>a, <1>5, TypeJob, JobShapes DEF ReadBack, Job
  <2> QED BY <2>1, <1>5 DEF ReadBack, TypeOK
<1>6. CASE _give_up(w, t)
  BY <1>6, TypeJob, JobShapes DEF _give_up, TypeOK
<1> QED BY <1>0, <1>1, <1>2, <1>3, <1>4, <1>5, <1>6

LEMMA TypeAnswer ==
    ASSUME TypeOK, NEW w \in Workers, AnswerStep(w) PROVE TypeOK'
<1> USE DEF CallStep, loopVars, wakeVars, history
<1>a. call[w] \in Call /\ NoCall \in Call
  BY JobShapes DEF TypeOK
<1>1. ASSUME NEW t \in Tasks, _insert(w, t) PROVE TypeOK'
  <2> DEFINE c == call[w]
  <2>1. c.step = "insert"
    BY <1>1 DEF _insert
  <2>2. c.type \in Types /\ c.key \in Keys \cup {NoKey} /\ c.delay \in Nat /\ c.deadline \in Nat
    BY <2>1, <1>a, WorkerAssumption DEF Call
  <2>3. New(AppOf[w], c.type, c.key, c.delay, c.deadline) \in Row
    BY <2>2, WorkerAssumption DEF New, Row, Live, Null
  <2>4. rows' \in [Tasks -> Row]
    BY <2>3, <1>1 DEF _insert, TypeOK
  <2>5. [c EXCEPT !.step = "created"] \in Call
    BY <2>1, <1>a DEF Call
  <2>6. call' \in [Workers -> Call]
    BY <2>5, <1>a, <1>1 DEF _insert, TypeOK
  <2> QED BY <2>4, <2>6, <1>1 DEF _insert, TypeOK
<1>2. CASE InsertConflict(w)
  <2>1. [call[w] EXCEPT !.step = "lookup"] \in Call
    BY <1>2, <1>a DEF InsertConflict, Call
  <2>2. call' \in [Workers -> Call]
    BY <2>1, <1>2 DEF InsertConflict, TypeOK
  <2> QED BY <2>2, <1>2 DEF InsertConflict, TypeOK
<1>3. CASE Lookup(w)
  <2>1. [call[w] EXCEPT !.step = "stranded"] \in Call
    BY <1>3, <1>a DEF Lookup, Call
  <2>2. call' \in [Workers -> Call]
    BY <2>1, <1>a, <1>3 DEF Lookup, TypeOK
  <2> QED BY <2>2, <1>3 DEF Lookup, TypeOK
<1>4. CASE CheckStranded(w)
  <2>0. ASSUME NEW n \in Nat \ {0} PROVE [call[w] EXCEPT !.step = "insert", !.tries = n] \in Call
    BY <1>4, <1>a DEF CheckStranded, Call
  <2>a. call[w].tries \in Nat \ {0}
    BY <1>4, <1>a DEF CheckStranded, Call
  <2>b. call[w].tries # 1 => call[w].tries - 1 \in Nat \ {0}
    BY <2>a
  <2>1. call[w].tries # 1 => [call[w] EXCEPT !.step = "insert", !.tries = @ - 1] \in Call
    BY <2>0, <2>b
  <2>2. call' \in [Workers -> Call]
    BY <2>1, <1>a, <1>4 DEF CheckStranded, TypeOK
  <2> QED BY <2>2, <1>4 DEF CheckStranded, TypeOK
<1>5. CASE Notify(w)
  BY <1>5, <1>a DEF Notify, TypeOK, Up
<1> QED BY <1>1, <1>2, <1>3, <1>4, <1>5 DEF AnswerStep

LEMMA TypeFault ==
    ASSUME TypeOK, NEW w \in Workers, FaultStep(w) PROVE TypeOK'
<1>1. CASE ClaimFault(w)
  BY <1>1, JobShapes, WorkerAssumption DEF ClaimFault, TypeOK, wakeVars, history
<1>2. CASE Stop(w)
  BY <1>2, JobShapes DEF Stop, TypeOK, history
<1>3. ASSUME NEW t \in Tasks, HeartbeatFault(w, t) PROVE TypeOK'
  <2>1. jobs[w][t] \in Job
    BY DEF TypeOK
  <2>2. jobs' \in [Workers -> [Tasks -> Job]]
    BY <2>1, <1>3, TypeJob DEF HeartbeatFault, Job
  <2> QED BY <2>2, <1>3, WorkerAssumption DEF HeartbeatFault, TypeOK, JobStep, wakeVars
<1>4. ASSUME NEW t \in Tasks, ApplyFault(w, t) PROVE TypeOK'
  <2>1. jobs' \in [Workers -> [Tasks -> Job]]
    BY <1>4, TypeJob, JobShapes DEF ApplyFault
  <2>2. rows' \in [Tasks -> Row] /\ ender' \in [Tasks -> Workers \cup {NoWorker}]
    BY <1>4, TypeOutcome DEF ApplyFault, TypeOK
  <2> QED BY <2>1, <2>2, <1>4, WorkerAssumption DEF ApplyFault, TypeOK, JobStep, wakeVars
<1> QED BY <1>1, <1>2, <1>3, <1>4 DEF FaultStep

LEMMA TypeNext == TypeOK /\ [Next]_vars => TypeOK'
<1> SUFFICES ASSUME TypeOK, [Next]_vars PROVE TypeOK'
  OBVIOUS
<1>1. ASSUME NEW w \in Workers, SubmitStep(w) PROVE TypeOK'
  <2>1. PICK type \in Types, key \in Keys \cup {NoKey}, delay \in Delays, deadline \in Deadlines :
          Enqueue(w, type, key, delay, deadline)
    BY <1>1 DEF SubmitStep
  <2>2. [step |-> "insert", type |-> type, key |-> key, delay |-> delay,
         deadline |-> deadline, tries |-> KeyedInsertAttempts] \in Call
    BY WorkerAssumption DEF Call
  <2>3. call' \in [Workers -> Call]
    BY <2>1, <2>2 DEF Enqueue, TypeOK
  <2> QED BY <2>1, <2>3 DEF Enqueue, TypeOK, CallStep, loopVars, wakeVars, history
<1>2. ASSUME NEW w \in Workers, Deliver(w) PROVE TypeOK'
  BY <1>2 DEF Deliver, TypeOK, CallStep, loopVars, history
<1>3. ASSUME NEW w \in Workers, NEW t \in Tasks, Heartbeat(w, t) PROVE TypeOK'
  <2>1. jobs[w][t] \in Job /\ Renewed(rows[t]) \in Row
    BY RowWritten DEF TypeOK
  <2>2. rows' \in [Tasks -> Row]
    BY <2>1, <1>3 DEF Heartbeat, TypeOK
  <2>3. jobs' \in [Workers -> [Tasks -> Job]]
    BY <2>1, <1>3, TypeJob DEF Heartbeat, TypeOK, Job
  <2> QED BY <2>2, <2>3, <1>3 DEF Heartbeat, TypeOK, JobStep, wakeVars
<1>4. CASE Tick
  <2>1. \A t \in Tasks : Aged(rows[t]) \in Row
    BY RowWritten DEF TypeOK
  <2> QED BY <2>1, <1>4 DEF Tick, TypeOK, loopVars, wakeVars
<1>5. CASE UNCHANGED vars
  BY <1>5 DEF TypeOK, vars, loopVars, wakeVars, history
<1> QED BY <1>1, <1>2, <1>3, <1>4, <1>5, TypeLoop, TypeRun, TypeAnswer, TypeFault DEF Next

(* Type correctness: in particular no countdown passes zero and every attempt *)
(* of an enqueue is left with a try.                                          *)
THEOREM TypeCorrect == Spec => []TypeOK
<1> QED BY TypeInit, TypeNext, PTL DEF Spec

-----------------------------------------------------------------------------
(* The shapes of a step *)

(* The job of a task just claimed. *)
FreshJob(t) == [NoJob EXCEPT !.phase = "waiting", !.attempt = rows[t].attempts + 1]

(* What one step does to the table. *)
RowClaimed(w, t) ==
    /\ _eligible(rows[t], AppOf[w])
    /\ rows' = [rows EXCEPT ![t] = Claimed(@, w)]
    /\ jobs'[w][t] = FreshJob(t)

RowRetired(w, t) ==
    /\ _eligible(rows[t], AppOf[w])
    /\ rows' = [rows EXCEPT ![t] = Ended(@, "TIMED_OUT")]

RowRenewed(w, t) ==
    /\ _holder_filter(rows[t], w)
    /\ rows' = [rows EXCEPT ![t] = Renewed(@)]

RowSettled(w, t) ==
    /\ _holder_filter(rows[t], w)
    /\ jobs[w][t].phase = "writing"
    /\ rows' = [rows EXCEPT ![t] = Written(@, jobs[w][t])]

RowInserted(w, t) ==
    LET c == call[w] IN
    /\ c.step = "insert"
    /\ rows[t].status = "absent"
    /\ ~_is_active_idem_conflict(AppOf[w], c.type, c.key)
    /\ rows' = [rows EXCEPT ![t] = New(AppOf[w], c.type, c.key, c.delay, c.deadline)]

RowAged ==
    /\ rows' = [t \in Tasks |-> Aged(rows[t])]
    /\ lapsed' = lapsed \cup {t \in Tasks : rows[t].lease = 1}

RowStep ==
    \/ UNCHANGED rows
    \/ \E w \in Workers, t \in Tasks :
          RowClaimed(w, t) \/ RowRetired(w, t) \/ RowRenewed(w, t)
             \/ RowSettled(w, t) \/ RowInserted(w, t)
    \/ RowAged

(* Only the clock lets a lease run out. *)
LEMMA RowSteps ==
    ASSUME TypeOK, [Next]_vars
    PROVE  RowStep /\ lapsed \subseteq lapsed'
<1> USE DEF RowStep
<1>1. ASSUME NEW w \in Workers, LoopStep(w) PROVE RowStep /\ lapsed' = lapsed
  <2>1. CASE Boot(w) \/ Scan(w) \/ BeginBatch(w) \/ BatchDone(w) \/ Wake(w)
    BY <2>1 DEF Boot, Scan, BeginBatch, BatchDone, Wake, history
  <2>2. ASSUME NEW t \in Tasks, ClaimRow(w, t) PROVE RowStep /\ lapsed' = lapsed
    <3>1. CASE Claimable(rows[t], AppOf[w]) /\ Claim(w, t)
      <4>1. jobs'[w][t] = FreshJob(t)
        BY <3>1 DEF Claim, FreshJob, TypeOK
      <4>2. RowClaimed(w, t)
        BY <4>1, <3>1 DEF Claimable, Claim, RowClaimed
      <4> QED BY <4>2, <2>2 DEF ClaimRow
    <3>2. CASE Overdue(rows[t], AppOf[w]) /\ Retire(w, t)
      BY <3>2, <2>2 DEF Overdue, Retire, RowRetired, ClaimRow
    <3>3. CASE UNCHANGED rows
      BY <3>3, <2>2 DEF ClaimRow
    <3> QED BY <2>2, <3>1, <3>2, <3>3 DEF ClaimRow
  <2>3. ASSUME NEW t \in Tasks, GiveUpRetired(w, t) PROVE RowStep /\ lapsed' = lapsed
    BY <2>3 DEF GiveUpRetired
  <2> QED BY <1>1, <2>1, <2>2, <2>3 DEF LoopStep
<1>2. ASSUME NEW w \in Workers, RunStep(w) PROVE RowStep /\ lapsed' = lapsed
  <2>1. ASSUME NEW t \in Tasks, _apply(w, t) PROVE RowStep /\ lapsed' = lapsed
    BY <2>1 DEF _apply, At, WriteOutcome, RowSettled, JobStep
  <2> QED BY <1>2, <2>1
          DEF RunStep, StartHandler, HandlerReturns, ApplyLost, ReadBack, _give_up, JobStep
<1>3. ASSUME NEW w \in Workers, AnswerStep(w) PROVE RowStep /\ lapsed' = lapsed
  <2>1. ASSUME NEW t \in Tasks, _insert(w, t) PROVE RowStep /\ lapsed' = lapsed
    BY <2>1 DEF _insert, RowInserted, CallStep, history
  <2> QED BY <1>3, <2>1
          DEF AnswerStep, InsertConflict, Lookup, CheckStranded, Notify, CallStep, history
<1>4. ASSUME NEW w \in Workers, FaultStep(w) PROVE RowStep /\ lapsed' = lapsed
  <2>1. ASSUME NEW t \in Tasks, ApplyFault(w, t) PROVE RowStep /\ lapsed' = lapsed
    BY <2>1 DEF ApplyFault, At, WriteOutcome, RowSettled, JobStep
  <2> QED BY <1>4, <2>1
          DEF FaultStep, ClaimFault, Stop, HeartbeatFault, JobStep, history
<1>5. ASSUME NEW w \in Workers, SubmitStep(w) \/ Deliver(w) PROVE RowStep /\ lapsed' = lapsed
  BY <1>5 DEF SubmitStep, Enqueue, Deliver, CallStep, history
<1>6. ASSUME NEW w \in Workers, NEW t \in Tasks, Heartbeat(w, t)
      PROVE RowStep /\ lapsed' = lapsed
  BY <1>6 DEF Heartbeat, RowRenewed, JobStep
<1>7. CASE Tick
  BY <1>7 DEF Tick, RowAged
<1>8. CASE UNCHANGED vars
  BY <1>8 DEF vars, history
<1> QED BY <1>1, <1>2, <1>3, <1>4, <1>5, <1>6, <1>7, <1>8 DEF Next

----------------------------------------------------------------------------
(* The deduplication key. *)

(* The fields of a row the uniqueness of keys rests on. *)
KeyFields(r) == <<r.app, r.type, r.key, r.active>>

KeyInv ==
    /\ \A t \in Tasks : rows[t].active = IF rows[t].status \in Live
                                         THEN rows[t].key ELSE NoKey
    /\ \A t, u \in Tasks :
           /\ rows[t].active # NoKey
           /\ rows[u].app = rows[t].app
           /\ rows[u].type = rows[t].type
           /\ rows[u].active = rows[t].active
           => t = u

LEMMA KeyInvIs == KeyInv <=> LiveKeyIsExclusive
  BY DEF KeyInv, LiveKeyIsExclusive, HoldsKey

(* What the row transitions do to the columns of the key. *)
LEMMA RowKeys ==
    ASSUME NEW r \in Row
    PROVE  /\ \A w \in Workers : LET q == Claimed(r, w) IN
                 q.status = "RUNNING" /\ q.by = w /\ KeyFields(q) = KeyFields(r)
           /\ \A st \in TERMINAL_STATUSES : LET q == Ended(r, st) IN
                 q.status = st /\ q.active = NoKey /\ q.app = r.app /\ q.type = r.type
           /\ \A d \in Nat : LET q == Repended(r, d) IN
                 q.status = "PENDING" /\ KeyFields(q) = KeyFields(r)
           /\ LET q == Renewed(r) IN q.status = r.status /\ KeyFields(q) = KeyFields(r)
           /\ LET q == Aged(r) IN q.status = r.status /\ KeyFields(q) = KeyFields(r)
  BY DEF Row, KeyFields, Claimed, Ended, Repended, Renewed, Aged, TERMINAL_STATUSES, Live

(* An outcome re-pends a row or ends it. *)
LEMMA WrittenShape ==
    ASSUME NEW r \in Row, NEW j \in Job
    PROVE  \/ \E d \in Nat : Written(r, j) = Repended(r, d)
           \/ \E st \in TERMINAL_STATUSES : Written(r, j) = Ended(r, st)
  BY DEF Written, Rescheduled, TERMINAL_STATUSES, Job

(* A row that stays live keeps its key, one that ends loses it: nobody else   *)
(* comes to hold a key.                                                       *)
LEMMA KeyKept ==
    ASSUME TypeOK, KeyInv, NEW t \in Tasks, NEW q \in Row,
           rows' = [rows EXCEPT ![t] = q],
           \/ rows[t].status \in Live /\ q.status \in Live /\ KeyFields(q) = KeyFields(rows[t])
           \/ q.status \in TERMINAL_STATUSES /\ q.active = NoKey
    PROVE  KeyInv'
<1> USE DEF TypeOK, KeyFields
<1>1. \A u \in Tasks : rows'[u] = IF u = t THEN q ELSE rows[u]
  OBVIOUS
<1>2. TERMINAL_STATUSES \cap Live = {}
  BY DEF TERMINAL_STATUSES, Live
<1> QED BY <1>1, <1>2 DEF KeyInv

LEMMA KeyStep ==
    ASSUME TypeOK, KeyInv, RowStep PROVE KeyInv'
<1>1. CASE UNCHANGED rows
  BY <1>1 DEF KeyInv
<1>2. ASSUME NEW w \in Workers, NEW t \in Tasks, RowClaimed(w, t) PROVE KeyInv'
  <2>1. rows[t] \in Row /\ Claimed(rows[t], w) \in Row
    BY RowWritten DEF TypeOK
  <2>2. rows[t].status \in Live /\ "RUNNING" \in Live
    BY <1>2 DEF RowClaimed, _eligible, _due_pending, _expired_lease, Live
  <2> QED BY <2>1, <2>2, <1>2, RowKeys, KeyKept DEF RowClaimed
<1>3. ASSUME NEW w \in Workers, NEW t \in Tasks, RowRetired(w, t) PROVE KeyInv'
  <2>1. rows[t] \in Row /\ Ended(rows[t], "TIMED_OUT") \in Row
    BY RowWritten DEF TypeOK, TERMINAL_STATUSES
  <2>2. "TIMED_OUT" \in TERMINAL_STATUSES
    BY DEF TERMINAL_STATUSES
  <2> QED BY <2>1, <2>2, <1>3, RowKeys, KeyKept DEF RowRetired
<1>4. ASSUME NEW w \in Workers, NEW t \in Tasks, RowRenewed(w, t) PROVE KeyInv'
  <2>1. rows[t] \in Row /\ Renewed(rows[t]) \in Row
    BY RowWritten DEF TypeOK
  <2>2. rows[t].status \in Live
    BY <1>4 DEF RowRenewed, _holder_filter, Live
  <2> QED BY <2>1, <2>2, <1>4, RowKeys, KeyKept DEF RowRenewed
<1>5. ASSUME NEW w \in Workers, NEW t \in Tasks, RowSettled(w, t) PROVE KeyInv'
  <2> DEFINE q == Written(rows[t], jobs[w][t])
  <2>1. rows[t] \in Row /\ jobs[w][t] \in Job /\ q \in Row
    BY RowWritten DEF TypeOK
  <2>2. rows[t].status \in Live /\ "PENDING" \in Live
    BY <1>5 DEF RowSettled, _holder_filter, Live
  <2>3. rows' = [rows EXCEPT ![t] = q]
    BY <1>5 DEF RowSettled
  <2>4. \/ q.status \in Live /\ KeyFields(q) = KeyFields(rows[t])
        \/ q.status \in TERMINAL_STATUSES /\ q.active = NoKey
    BY <2>1, <2>2, WrittenShape, RowKeys
  <2> QED BY <2>1, <2>2, <2>3, <2>4, KeyKept
<1>6. ASSUME NEW w \in Workers, NEW t \in Tasks, RowInserted(w, t) PROVE KeyInv'
  <2> DEFINE c == call[w]
             q == New(AppOf[w], c.type, c.key, c.delay, c.deadline)
  <2>1. rows \in [Tasks -> Row]
    BY DEF TypeOK
  <2>2. \A u \in Tasks : rows'[u] = IF u = t THEN q ELSE rows[u]
    BY <2>1, <1>6 DEF RowInserted
  <2>3. /\ q.status \in Live /\ q.active = q.key
        /\ q.app = AppOf[w] /\ q.type = c.type /\ q.key = c.key
    BY DEF New, Live
  <2>4. ASSUME NEW u \in Tasks, c.key # NoKey, rows[u].app = AppOf[w],
               rows[u].type = c.type, rows[u].active = c.key
        PROVE  FALSE
    <3>1. rows[u].status # "absent"
      BY <2>4 DEF KeyInv, Live
    <3> QED BY <2>4, <3>1, <1>6 DEF RowInserted, _is_active_idem_conflict
  <2> QED BY <2>2, <2>3, <2>4 DEF KeyInv
<1>7. CASE RowAged
  <2>1. \A t \in Tasks : /\ rows'[t].status = rows[t].status
                         /\ KeyFields(rows'[t]) = KeyFields(rows[t])
    BY <1>7, RowKeys DEF RowAged, TypeOK
  <2> QED BY <2>1 DEF KeyInv, KeyFields
<1> QED BY <1>1, <1>2, <1>3, <1>4, <1>5, <1>6, <1>7 DEF RowStep

LEMMA KeyAtStart == Init => KeyInv
  BY DEF Init, KeyInv, Blank, Live

(* One live task per (app, type, key), and no key outlives its task.          *)
THEOREM KeysAreExclusive == Spec => []LiveKeyIsExclusive
<1>1. TypeOK /\ KeyInv /\ [Next]_vars => KeyInv'
  BY RowSteps, KeyStep
<1>2. Spec => []KeyInv
  BY TypeCorrect, KeyAtStart, <1>1, PTL DEF Spec
<1> QED BY <1>2, KeyInvIs, PTL

----------------------------------------------------------------------------
(* The refinement: what a caller sees of a task and its key. *)

SlotState == [t \in Tasks |-> IF rows[t].status \in Live THEN "open" ELSE rows[t].status]
SlotHeld  == [t \in Tasks |-> IF rows[t].active = NoKey THEN NoKey
                              ELSE <<rows[t].app, rows[t].type, rows[t].active>>]

(* A step that leaves the status class and the key of every row alone. *)
LEMMA SlotStutter ==
    ASSUME NEW t \in Tasks, TypeOK, NEW q \in Row, rows' = [rows EXCEPT ![t] = q],
           rows[t].status \in Live, q.status \in Live, KeyFields(q) = KeyFields(rows[t])
    PROVE  SlotState' = SlotState /\ SlotHeld' = SlotHeld
<1>1. \A u \in Tasks : rows'[u] = IF u = t THEN q ELSE rows[u]
  BY DEF TypeOK
<1> QED BY <1>1 DEF SlotState, SlotHeld, KeyFields

(* A live row that ends closes its item. *)
LEMMA SlotClose ==
    ASSUME TypeOK, NEW t \in Tasks, NEW q \in Row, rows' = [rows EXCEPT ![t] = q],
           rows[t].status \in Live, q.status \in TERMINAL_STATUSES, q.active = NoKey
    PROVE  Implemented!Close(t, q.status)
<1>1. \A u \in Tasks : rows'[u] = IF u = t THEN q ELSE rows[u]
  BY DEF TypeOK
<1>2. q.status \notin Live
  BY DEF TERMINAL_STATUSES, Live
<1>3. /\ SlotState' = [SlotState EXCEPT ![t] = q.status]
      /\ SlotHeld' = [SlotHeld EXCEPT ![t] = NoKey]
  <2>1. SlotState' = [u \in Tasks |-> IF u = t THEN q.status ELSE SlotState[u]]
    BY <1>1, <1>2 DEF SlotState
  <2>2. SlotHeld' = [u \in Tasks |-> IF u = t THEN NoKey ELSE SlotHeld[u]]
    BY <1>1 DEF SlotHeld
  <2>3. SlotState = [u \in Tasks |-> SlotState[u]] /\ SlotHeld = [u \in Tasks |-> SlotHeld[u]]
    BY DEF SlotState, SlotHeld
  <2> QED BY <2>1, <2>2, <2>3
<1>4. SlotState[t] = "open"
  BY DEF SlotState
<1> QED BY <1>3, <1>4 DEF SlotState, SlotHeld, Implemented!Close

LEMMA SlotStep ==
    ASSUME TypeOK, TypeOK', KeyInv, RowStep
    PROVE  [Implemented!SlotNext]_(Implemented!slotVars)
<1> DEFINE Stutter == SlotState' = SlotState /\ SlotHeld' = SlotHeld
           Closing == \E t \in Tasks, st \in TERMINAL_STATUSES : Implemented!Close(t, st)
<1>s. Stutter => [Implemented!SlotNext]_(Implemented!slotVars)
  BY DEF SlotState, SlotHeld, Implemented!slotVars
<1>c. Closing => [Implemented!SlotNext]_(Implemented!slotVars)
  BY DEF Implemented!SlotNext
<1>1. CASE UNCHANGED rows
  BY <1>1, <1>s DEF SlotState, SlotHeld
<1>2. ASSUME NEW w \in Workers, NEW t \in Tasks, RowClaimed(w, t) PROVE Stutter
  <2>1. rows[t] \in Row /\ Claimed(rows[t], w) \in Row
    BY RowWritten DEF TypeOK
  <2>2. rows[t].status \in Live /\ "RUNNING" \in Live
    BY <1>2 DEF RowClaimed, _eligible, _due_pending, _expired_lease, Live
  <2> QED BY <2>1, <2>2, <1>2, RowKeys, SlotStutter DEF RowClaimed
<1>3. ASSUME NEW w \in Workers, NEW t \in Tasks, RowRetired(w, t) PROVE Closing
  <2>1. rows[t] \in Row /\ Ended(rows[t], "TIMED_OUT") \in Row
    BY RowWritten DEF TypeOK, TERMINAL_STATUSES
  <2>2. "TIMED_OUT" \in TERMINAL_STATUSES
    BY DEF TERMINAL_STATUSES
  <2>3. rows[t].status \in Live
    BY <1>3 DEF RowRetired, _eligible, _due_pending, _expired_lease, Live
  <2> DEFINE q == Ended(rows[t], "TIMED_OUT")
  <2>4. q.status \in TERMINAL_STATUSES /\ q.active = NoKey
    BY <2>1, <2>2, RowKeys
  <2>5. rows' = [rows EXCEPT ![t] = q] /\ q \in Row
    BY <2>1, <1>3 DEF RowRetired
  <2> HIDE DEF q
  <2> QED BY <2>3, <2>4, <2>5, SlotClose
<1>4. ASSUME NEW w \in Workers, NEW t \in Tasks, RowRenewed(w, t) PROVE Stutter
  <2>1. rows[t] \in Row /\ Renewed(rows[t]) \in Row
    BY RowWritten DEF TypeOK
  <2>2. rows[t].status \in Live
    BY <1>4 DEF RowRenewed, _holder_filter, Live
  <2> QED BY <2>1, <2>2, <1>4, RowKeys, SlotStutter DEF RowRenewed
<1>5. ASSUME NEW w \in Workers, NEW t \in Tasks, RowSettled(w, t) PROVE Stutter \/ Closing
  <2> DEFINE q == Written(rows[t], jobs[w][t])
  <2>1. rows[t] \in Row /\ jobs[w][t] \in Job /\ q \in Row
    BY RowWritten DEF TypeOK
  <2>2. rows[t].status \in Live /\ "PENDING" \in Live
    BY <1>5 DEF RowSettled, _holder_filter, Live
  <2>3. rows' = [rows EXCEPT ![t] = q]
    BY <1>5 DEF RowSettled
  <2>4. CASE q.status \in Live /\ KeyFields(q) = KeyFields(rows[t])
    BY <2>1, <2>2, <2>3, <2>4, SlotStutter
  <2>5. CASE q.status \in TERMINAL_STATUSES /\ q.active = NoKey
    BY <2>1, <2>2, <2>3, <2>5, SlotClose
  <2> QED BY <2>1, <2>2, <2>4, <2>5, WrittenShape, RowKeys
<1>6. ASSUME NEW w \in Workers, NEW t \in Tasks, RowInserted(w, t)
      PROVE  Implemented!SlotNext
  <2> DEFINE c == call[w]
             q == New(AppOf[w], c.type, c.key, c.delay, c.deadline)
             s == IF c.key = NoKey THEN NoKey ELSE <<AppOf[w], c.type, c.key>>
  <2>1. \A u \in Tasks : rows'[u] = IF u = t THEN q ELSE rows[u]
    BY <1>6 DEF RowInserted, TypeOK
  <2>2. q.status \in Live /\ q.active = c.key /\ q.app = AppOf[w] /\ q.type = c.type
    BY DEF New, Live
  <2>3. c.type \in Types /\ c.key \in Keys \cup {NoKey} /\ AppOf[w] \in Apps
    BY <1>6, WorkerAssumption DEF RowInserted, TypeOK, Call
  <2>4. s \in (Apps \X Types \X Keys) \cup {NoKey}
    BY <2>3
  <2>5. SlotState' = [SlotState EXCEPT ![t] = "open"] /\ SlotHeld' = [SlotHeld EXCEPT ![t] = s]
    BY <2>1, <2>2 DEF SlotState, SlotHeld
  <2>6. SlotState[t] = "absent"
    BY <1>6 DEF RowInserted, SlotState, Live
  <2>7. ASSUME NEW u \in Tasks, s # NoKey PROVE SlotHeld[u] # s
    <3> SUFFICES ASSUME SlotHeld[u] = s PROVE FALSE
      OBVIOUS
    <3>1. c.key # NoKey /\ s = <<AppOf[w], c.type, c.key>>
      BY <2>7
    <3>2. rows[u].active # NoKey
      BY <2>7 DEF SlotHeld
    <3>3. <<rows[u].app, rows[u].type, rows[u].active>> = <<AppOf[w], c.type, c.key>>
      BY <3>1, <3>2 DEF SlotHeld
    <3>4. rows[u].app = AppOf[w] /\ rows[u].type = c.type /\ rows[u].active = c.key
      BY <3>3
    <3>5. rows[u].status # "absent"
      BY <3>2 DEF KeyInv, Live
    <3> QED BY <3>1, <3>4, <3>5, <1>6 DEF RowInserted, _is_active_idem_conflict
  <2>8. PICK z : z = s
    OBVIOUS
  <2> HIDE DEF s
  <2>9. Implemented!Submit(t, z)
    BY <2>5, <2>6, <2>7, <2>8 DEF SlotState, SlotHeld, Implemented!Submit
  <2>10. z \in (Apps \X Types \X Keys) \cup {NoKey}
    BY <2>4, <2>8
  <2> QED BY <2>9, <2>10 DEF Implemented!SlotNext
<1>7. CASE RowAged
  <2>1. \A t \in Tasks : /\ rows'[t].status = rows[t].status
                         /\ KeyFields(rows'[t]) = KeyFields(rows[t])
    BY <1>7, RowKeys DEF RowAged, TypeOK
  <2> QED BY <2>1, <1>s DEF SlotState, SlotHeld, KeyFields
<1> QED BY <1>1, <1>2, <1>3, <1>4, <1>5, <1>6, <1>7, <1>s, <1>c DEF RowStep

LEMMA SlotStart == Init => Implemented!SlotInit
  BY DEF Init, Implemented!SlotInit, Blank, Live

(* The queue, with its pods, leases and retries, implements WorkSlots: an     *)
(* accepted task has one final result and its key is held exactly until then. *)
THEOREM QueueImplementsSlots == Spec => KeepsItsPromise
<1>1. TypeOK /\ TypeOK' /\ KeyInv /\ [Next]_vars
        => [Implemented!SlotNext]_(Implemented!slotVars)
  BY RowSteps, SlotStep
<1>2. Spec => []KeyInv
  BY KeysAreExclusive, KeyInvIs, PTL
<1> QED BY <1>1, <1>2, TypeCorrect, SlotStart, PTL
        DEF Spec, KeepsItsPromise, Implemented!SafeSlots

----------------------------------------------------------------------------
(* What one step does to the coroutine pod w runs for task t. *)
JobMove(w, t) ==
    \/ jobs'[w][t] = jobs[w][t]
    \/ jobs'[w][t].phase = "none"
    \/ /\ jobs'[w][t] = FreshJob(t)
       /\ rows' = [rows EXCEPT ![t] = Claimed(@, w)]
    \/ /\ UNCHANGED rows
       /\ jobs[w][t].phase \in {"waiting", "handling"}
       /\ jobs'[w][t].phase \in {"handling", "writing"}
       /\ jobs'[w][t].attempt = jobs[w][t].attempt
    \/ /\ _holder_filter(rows[t], w)
       /\ rows' = [rows EXCEPT ![t] = Written(@, jobs[w][t])]
       /\ jobs'[w][t].phase \in {"reading", "hook"}
       /\ jobs'[w][t].phase = "hook" => jobs[w][t].out = "fail"
    \/ /\ UNCHANGED rows
       /\ jobs'[w][t].phase = "hook"
       /\ rows[t].status = "TIMED_OUT"

(* A step that sets one job moves no other. *)
LEMMA OneJob ==
    ASSUME TypeOK, NEW w \in Workers, NEW t \in Tasks, NEW j, SetJob(w, t, j)
    PROVE  /\ jobs'[w][t] = j
           /\ \A v \in Workers, u \in Tasks : <<v, u>> # <<w, t>> => jobs'[v][u] = jobs[v][u]
  BY DEF TypeOK, SetJob

LEMMA OneMove ==
    ASSUME TypeOK, NEW w \in Workers, NEW t \in Tasks, NEW j, SetJob(w, t, j),
           JobMove(w, t)
    PROVE  \A v \in Workers, u \in Tasks : JobMove(v, u)
<1> SUFFICES ASSUME NEW v \in Workers, NEW u \in Tasks PROVE JobMove(v, u)
  OBVIOUS
<1>1. CASE v = w /\ u = t
  BY <1>1
<1>2. CASE ~(v = w /\ u = t)
  BY <1>2, OneJob DEF JobMove
<1> QED BY <1>1, <1>2

LEMMA JobsAtRest ==
    ASSUME UNCHANGED jobs PROVE \A v \in Workers, u \in Tasks : JobMove(v, u)
  BY DEF JobMove

(* A pod that drops all its coroutines. *)
LEMMA JobsDropped ==
    ASSUME TypeOK, NEW w \in Workers, jobs' = [jobs EXCEPT ![w] = [t \in Tasks |-> NoJob]]
    PROVE  \A v \in Workers, u \in Tasks : JobMove(v, u)
<1> SUFFICES ASSUME NEW v \in Workers, NEW u \in Tasks PROVE JobMove(v, u)
  OBVIOUS
<1>1. v = w => jobs'[v][u] = NoJob
  BY DEF TypeOK
<1>2. v # w => jobs'[v][u] = jobs[v][u]
  BY DEF TypeOK
<1> QED BY <1>1, <1>2 DEF JobMove, NoJob

LEMMA JobMoves ==
    ASSUME TypeOK, [Next]_vars
    PROVE  \A v \in Workers, u \in Tasks : JobMove(v, u)
<1> DEFINE Moves == \A v \in Workers, u \in Tasks : JobMove(v, u)
<1>a. \A w \in Workers, t \in Tasks : jobs[w][t] \in Job
  BY DEF TypeOK
<1>1. ASSUME NEW w \in Workers, LoopStep(w) PROVE Moves
  <2>1. CASE Boot(w) \/ Scan(w) \/ BeginBatch(w) \/ BatchDone(w) \/ Wake(w)
    BY <2>1, JobsAtRest DEF Boot, Scan, BeginBatch, BatchDone, Wake
  <2>2. ASSUME NEW t \in Tasks, ClaimRow(w, t) PROVE Moves
    <3>1. CASE Claim(w, t)
      <4>1. SetJob(w, t, FreshJob(t))
        BY <3>1 DEF Claim, SetJob, FreshJob
      <4>2. JobMove(w, t)
        BY <3>1, <4>1, OneJob DEF Claim, JobMove
      <4> QED BY <4>1, <4>2, OneMove
    <3>2. CASE UNCHANGED jobs
      BY <3>2, JobsAtRest
    <3> QED BY <2>2, <3>1, <3>2 DEF ClaimRow, Retire
  <2>3. ASSUME NEW t \in Tasks, GiveUpRetired(w, t) PROVE Moves
    BY <2>3, JobsAtRest DEF GiveUpRetired
  <2> QED BY <1>1, <2>1, <2>2, <2>3 DEF LoopStep
<1>2. ASSUME NEW w \in Workers, RunStep(w) PROVE Moves
  <2>1. ASSUME NEW t \in Tasks, StartHandler(w, t) PROVE Moves
    <3> DEFINE j == IF rows[t].type \in Registered
                    THEN [jobs[w][t] EXCEPT !.phase = "handling"]
                    ELSE [jobs[w][t] EXCEPT !.phase = "writing", !.out = "fail"]
    <3>1. j.phase \in {"handling", "writing"} /\ j.attempt = jobs[w][t].attempt
      BY <1>a DEF Job
    <3>2. SetJob(w, t, j) /\ UNCHANGED rows /\ jobs[w][t].phase = "waiting"
      BY <2>1 DEF StartHandler, At
    <3> HIDE DEF j
    <3>3. jobs'[w][t] = j
      BY <3>2, OneJob
    <3>4. JobMove(w, t)
      BY <3>1, <3>2, <3>3 DEF JobMove
    <3> QED BY <3>2, <3>4, OneMove
  <2>2. ASSUME NEW t \in Tasks, NEW out, NEW delay, HandlerReturns(w, t, out, delay) PROVE Moves
    <3> DEFINE j == [jobs[w][t] EXCEPT !.phase = "writing", !.out = out, !.delay = delay]
               k == IF jobs[w][t].beat = "broken" THEN NoJob ELSE j
    <3>1. j.phase = "writing" /\ j.attempt = jobs[w][t].attempt /\ NoJob.phase = "none"
      BY <1>a DEF Job, NoJob
    <3>2. SetJob(w, t, k) /\ UNCHANGED rows /\ jobs[w][t].phase = "handling"
      BY <2>2 DEF HandlerReturns, At
    <3>3. k = NoJob \/ k = j
      OBVIOUS
    <3> HIDE DEF j, k
    <3>4. jobs'[w][t] = k
      BY <3>2, OneJob
    <3>5. JobMove(w, t)
      BY <3>1, <3>2, <3>3, <3>4 DEF JobMove
    <3> QED BY <3>2, <3>5, OneMove
  <2>3. ASSUME NEW t \in Tasks, _apply(w, t) PROVE Moves
    <3> DEFINE j == AfterWrite(t, jobs[w][t])
    <3>1. /\ j.phase \in {"none", "reading", "hook"}
          /\ j.phase = "hook" => jobs[w][t].out = "fail"
      BY DEF AfterWrite, NoJob
    <3>2. /\ SetJob(w, t, j) /\ _holder_filter(rows[t], w)
          /\ rows' = [rows EXCEPT ![t] = Written(@, jobs[w][t])]
      BY <2>3 DEF _apply, WriteOutcome
    <3> HIDE DEF j
    <3>3. jobs'[w][t] = j
      BY <3>2, OneJob
    <3>4. JobMove(w, t)
      BY <3>1, <3>2, <3>3 DEF JobMove
    <3> QED BY <3>2, <3>4, OneMove
  <2>4. ASSUME NEW t \in Tasks, ApplyLost(w, t) \/ _give_up(w, t) PROVE Moves
    <3>1. SetJob(w, t, NoJob)
      BY <2>4 DEF ApplyLost, _give_up
    <3>2. JobMove(w, t)
      BY <3>1, OneJob DEF JobMove, NoJob
    <3> QED BY <3>1, <3>2, OneMove
  <2>5. ASSUME NEW t \in Tasks, ReadBack(w, t) PROVE Moves
    <3> DEFINE j == IF rows[t].status = "TIMED_OUT"
                    THEN [jobs[w][t] EXCEPT !.phase = "hook"] ELSE NoJob
    <3>1. j.phase = "none" \/ (j.phase = "hook" /\ rows[t].status = "TIMED_OUT")
      BY <1>a DEF Job, NoJob
    <3>2. SetJob(w, t, j) /\ UNCHANGED rows
      BY <2>5 DEF ReadBack
    <3> HIDE DEF j
    <3>3. JobMove(w, t)
      BY <3>1, <3>2, OneJob DEF JobMove
    <3> QED BY <3>2, <3>3, OneMove
  <2> QED BY <1>2, <2>1, <2>2, <2>3, <2>4, <2>5 DEF RunStep
<1>3. ASSUME NEW w \in Workers, AnswerStep(w) PROVE Moves
  BY <1>3, JobsAtRest DEF AnswerStep, _insert, InsertConflict, Lookup, CheckStranded, Notify,
                          CallStep, loopVars
<1>4. ASSUME NEW w \in Workers, FaultStep(w) PROVE Moves
  <2>1. CASE ClaimFault(w) \/ Stop(w)
    BY <2>1, JobsDropped DEF ClaimFault, Stop
  <2>2. ASSUME NEW t \in Tasks, HeartbeatFault(w, t) PROVE Moves
    <3> DEFINE j == [jobs[w][t] EXCEPT !.beat = "broken"]
    <3>1. j.phase = jobs[w][t].phase /\ j.attempt = jobs[w][t].attempt
      BY <1>a DEF Job
    <3>2. SetJob(w, t, j) /\ UNCHANGED rows /\ jobs[w][t].phase = "handling"
      BY <2>2 DEF HeartbeatFault, At
    <3> HIDE DEF j
    <3>3. JobMove(w, t)
      BY <3>1, <3>2, OneJob DEF JobMove
    <3> QED BY <3>2, <3>3, OneMove
  <2>3. ASSUME NEW t \in Tasks, ApplyFault(w, t) PROVE Moves
    <3>1. SetJob(w, t, NoJob)
      BY <2>3 DEF ApplyFault
    <3>2. JobMove(w, t)
      BY <3>1, OneJob DEF JobMove, NoJob
    <3> QED BY <3>1, <3>2, OneMove
  <2> QED BY <1>4, <2>1, <2>2, <2>3 DEF FaultStep
<1>5. ASSUME NEW w \in Workers, SubmitStep(w) \/ Deliver(w) PROVE Moves
  BY <1>5, JobsAtRest DEF SubmitStep, Enqueue, Deliver, CallStep, loopVars
<1>6. ASSUME NEW w \in Workers, NEW t \in Tasks, Heartbeat(w, t) PROVE Moves
  <2>1. CASE UNCHANGED jobs
    BY <2>1, JobsAtRest
  <2>2. CASE SetJob(w, t, [jobs[w][t] EXCEPT !.beat = "lost"]) /\ UNCHANGED rows
    <3> DEFINE j == [jobs[w][t] EXCEPT !.beat = "lost"]
    <3>1. j.phase = jobs[w][t].phase /\ j.attempt = jobs[w][t].attempt
      BY <1>a DEF Job
    <3>2. SetJob(w, t, j) /\ UNCHANGED rows /\ jobs[w][t].phase = "handling"
      BY <1>6, <2>2 DEF Heartbeat, At
    <3> HIDE DEF j
    <3>3. JobMove(w, t)
      BY <3>1, <3>2, OneJob DEF JobMove
    <3> QED BY <3>2, <3>3, OneMove
  <2> QED BY <1>6, <2>1, <2>2 DEF Heartbeat
<1>7. CASE Tick
  BY <1>7, JobsAtRest DEF Tick, loopVars
<1>8. CASE UNCHANGED vars
  BY <1>8, JobsAtRest DEF vars, loopVars
<1> QED BY <1>1, <1>2, <1>3, <1>4, <1>5, <1>6, <1>7, <1>8 DEF Next

----------------------------------------------------------------------------
(* One runner per task while its lease lives. *)

(* A lease that has run out is on record. *)
LeaseOnRecord == \A t \in Tasks : rows[t].lease = 0 => t \in lapsed

(* What the row transitions do to the holder, the lease and the attempts. *)
LEMMA RowHolder ==
    ASSUME NEW r \in Row
    PROVE  /\ \A w \in Workers : /\ Claimed(r, w).lease = Lease
                                 /\ Claimed(r, w).attempts = r.attempts + 1
           /\ \A st \in TERMINAL_STATUSES : Ended(r, st).lease = Null
           /\ \A d \in Nat : Repended(r, d).lease = Null
           /\ Renewed(r).lease = Lease /\ Renewed(r).by = r.by
           /\ Renewed(r).attempts = r.attempts
           /\ Aged(r).lease = Dec(r.lease) /\ Aged(r).by = r.by
           /\ Aged(r).attempts = r.attempts
  BY DEF Row, Claimed, Ended, Repended, Renewed, Aged, TERMINAL_STATUSES

LEMMA LeaseStep ==
    ASSUME TypeOK, LeaseOnRecord, RowStep, lapsed \subseteq lapsed' PROVE LeaseOnRecord'
<1> SUFFICES ASSUME NEW u \in Tasks, rows'[u].lease = 0 PROVE u \in lapsed'
  BY DEF LeaseOnRecord
<1>a. rows \in [Tasks -> Row] /\ rows[u] \in Row /\ Lease # 0 /\ Null # 0
  BY QueueAssumption DEF TypeOK, Null
<1>b. rows[u].lease = 0 => u \in lapsed'
  BY DEF LeaseOnRecord
<1>1. CASE UNCHANGED rows
  BY <1>1, <1>b
<1>2. ASSUME NEW w \in Workers, NEW t \in Tasks, RowClaimed(w, t) PROVE u \in lapsed'
  BY <1>2, <1>a, <1>b, RowHolder DEF RowClaimed
<1>3. ASSUME NEW w \in Workers, NEW t \in Tasks, RowRetired(w, t) PROVE u \in lapsed'
  BY <1>3, <1>a, <1>b, RowHolder DEF RowRetired, TERMINAL_STATUSES
<1>4. ASSUME NEW w \in Workers, NEW t \in Tasks, RowRenewed(w, t) PROVE u \in lapsed'
  BY <1>4, <1>a, <1>b, RowHolder DEF RowRenewed
<1>5. ASSUME NEW w \in Workers, NEW t \in Tasks, RowSettled(w, t) PROVE u \in lapsed'
  <2>1. jobs[w][t] \in Job
    BY DEF TypeOK
  <2>2. u = t => Written(rows[u], jobs[w][t]).lease = Null
    BY <1>a, <2>1, WrittenShape, RowHolder
  <2> QED BY <1>5, <1>a, <1>b, <2>2 DEF RowSettled
<1>6. ASSUME NEW w \in Workers, NEW t \in Tasks, RowInserted(w, t) PROVE u \in lapsed'
  BY <1>6, <1>a, <1>b DEF RowInserted, New
<1>7. CASE RowAged
  <2>1. Dec(rows[u].lease) = 0
    BY <1>7, <1>a, RowHolder DEF RowAged
  <2>2. rows[u].lease \in Nat \cup {Null}
    BY <1>a DEF Row
  <2>3. rows[u].lease = 0 \/ rows[u].lease = 1
    BY <2>1, <2>2 DEF Dec, Null
  <2> QED BY <2>3, <1>7, <1>b DEF RowAged
<1> QED BY <1>1, <1>2, <1>3, <1>4, <1>5, <1>6, <1>7 DEF RowStep

(* What a step of the table leaves of pod v's hold on row u. *)
LEMMA HoldStep ==
    ASSUME TypeOK, LeaseOnRecord, RowStep, NEW v \in Workers, NEW u \in Tasks,
           _holder_filter(rows[u], v), jobs[v][u].phase # "writing", u \notin lapsed
    PROVE  _holder_filter(rows'[u], v)
<1>a. rows \in [Tasks -> Row] /\ rows[u] \in Row /\ rows[u].lease # 0
  BY DEF TypeOK, LeaseOnRecord
<1>b. \A w \in Workers : ~_eligible(rows[u], AppOf[w])
  BY <1>a DEF _eligible, _due_pending, _expired_lease, _holder_filter
<1>1. CASE UNCHANGED rows
  BY <1>1
<1>2. ASSUME NEW w \in Workers, NEW t \in Tasks, RowClaimed(w, t) \/ RowRetired(w, t)
      PROVE _holder_filter(rows'[u], v)
  <2>1. t # u
    BY <1>2, <1>b DEF RowClaimed, RowRetired
  <2> QED BY <2>1, <1>2, <1>a DEF RowClaimed, RowRetired
<1>3. ASSUME NEW w \in Workers, NEW t \in Tasks, RowRenewed(w, t)
      PROVE _holder_filter(rows'[u], v)
  BY <1>3, <1>a, RowKeys, RowHolder DEF RowRenewed, _holder_filter
<1>4. ASSUME NEW w \in Workers, NEW t \in Tasks, RowSettled(w, t)
      PROVE _holder_filter(rows'[u], v)
  BY <1>4, <1>a DEF RowSettled, _holder_filter
<1>5. ASSUME NEW w \in Workers, NEW t \in Tasks, RowInserted(w, t)
      PROVE _holder_filter(rows'[u], v)
  BY <1>5, <1>a DEF RowInserted, _holder_filter
<1>6. CASE RowAged
  BY <1>6, <1>a, RowKeys, RowHolder DEF RowAged, _holder_filter
<1> QED BY <1>1, <1>2, <1>3, <1>4, <1>5, <1>6 DEF RowStep

LEMMA RunnerStep ==
    ASSUME TypeOK, LeaseOnRecord, RunnerHolds, [Next]_vars PROVE RunnerHolds'
<1>a. /\ RowStep /\ lapsed \subseteq lapsed'
      /\ \A v \in Workers, u \in Tasks : JobMove(v, u)
  BY RowSteps, JobMoves
<1> SUFFICES ASSUME NEW v \in Workers, NEW u \in Tasks,
                    jobs'[v][u].phase \in {"waiting", "handling"}, u \notin lapsed'
             PROVE  _holder_filter(rows'[u], v)
  BY DEF RunnerHolds, _holder_filter
<1>b. u \notin lapsed /\ rows \in [Tasks -> Row] /\ rows[u] \in Row
  BY <1>a DEF TypeOK
<1>1. CASE jobs'[v][u] = jobs[v][u]
  BY <1>1, <1>a, <1>b, HoldStep DEF RunnerHolds
<1>2. CASE rows' = [rows EXCEPT ![u] = Claimed(@, v)]
  BY <1>2, <1>b, RowKeys DEF _holder_filter
<1>3. CASE UNCHANGED rows /\ jobs[v][u].phase \in {"waiting", "handling"}
  BY <1>3, <1>b DEF RunnerHolds
<1> QED BY <1>a, <1>1, <1>2, <1>3 DEF JobMove

(* While its lease has not run out, a task is run only by the pod that holds  *)
(* its row.                                                                   *)
THEOREM RunnersHold == Spec => []RunnerHolds
<1>1. Init => LeaseOnRecord /\ RunnerHolds
  BY DEF Init, LeaseOnRecord, RunnerHolds, Blank, NoJob, Null
<1>2. TypeOK /\ LeaseOnRecord /\ [Next]_vars => LeaseOnRecord'
  BY LeaseStep, RowSteps
<1>3. TypeOK /\ LeaseOnRecord /\ RunnerHolds /\ [Next]_vars => RunnerHolds'
  BY RunnerStep
<1> QED BY <1>1, <1>2, <1>3, TypeCorrect, PTL DEF Spec

----------------------------------------------------------------------------
(* The attempt an outcome is written for. *)

LEMMA AttemptStep ==
    ASSUME TypeOK, OutcomeOfLatestAttempt, [Next]_vars PROVE OutcomeOfLatestAttempt'
<1>a. RowStep /\ \A v \in Workers, u \in Tasks : JobMove(v, u)
  BY RowSteps, JobMoves
<1> SUFFICES ASSUME NEW v \in Workers, NEW u \in Tasks,
                    jobs'[v][u].phase \in {"waiting", "handling", "writing"},
                    _holder_filter(rows'[u], v)
             PROVE  jobs'[v][u].attempt = rows'[u].attempts
  BY DEF OutcomeOfLatestAttempt, _holder_filter
<1>b. rows \in [Tasks -> Row] /\ rows[u] \in Row
  BY DEF TypeOK
<1>f. FreshJob(u).attempt = rows[u].attempts + 1
  BY DEF FreshJob, NoJob
<1>1. CASE jobs'[v][u] = jobs[v][u]
  <2>a. _holder_filter(rows[u], v) => jobs[v][u].attempt = rows[u].attempts
    BY <1>1 DEF OutcomeOfLatestAttempt
  <2>1. CASE UNCHANGED rows
    BY <2>1, <2>a, <1>1
  <2>2. ASSUME NEW w \in Workers, NEW t \in Tasks, RowClaimed(w, t)
        PROVE  jobs'[v][u].attempt = rows'[u].attempts
    <3>1. CASE t # u
      BY <3>1, <2>2, <2>a, <1>1, <1>b DEF RowClaimed
    <3>2. CASE t = u
      <4>1. rows'[u] = Claimed(rows[u], w)
        BY <3>2, <2>2, <1>b DEF RowClaimed
      <4>2. w = v
        BY <4>1, <1>b, RowKeys DEF _holder_filter
      <4> QED BY <4>1, <4>2, <3>2, <2>2, <1>b, <1>f, RowHolder DEF RowClaimed
    <3> QED BY <3>1, <3>2
  <2>3. ASSUME NEW w \in Workers, NEW t \in Tasks, RowRetired(w, t)
        PROVE  jobs'[v][u].attempt = rows'[u].attempts
    <3>1. t # u
      BY <2>3, <1>b, RowKeys DEF RowRetired, TERMINAL_STATUSES, _holder_filter
    <3> QED BY <3>1, <2>3, <2>a, <1>1, <1>b DEF RowRetired
  <2>4. ASSUME NEW w \in Workers, NEW t \in Tasks, RowRenewed(w, t)
        PROVE  jobs'[v][u].attempt = rows'[u].attempts
    BY <2>4, <2>a, <1>1, <1>b, RowKeys, RowHolder DEF RowRenewed, _holder_filter
  <2>5. ASSUME NEW w \in Workers, NEW t \in Tasks, RowSettled(w, t)
        PROVE  jobs'[v][u].attempt = rows'[u].attempts
    <3>1. jobs[w][t] \in Job /\ rows[t] \in Row
      BY DEF TypeOK
    <3>2. Written(rows[t], jobs[w][t]).status # "RUNNING"
      BY <3>1, WrittenShape, RowKeys DEF TERMINAL_STATUSES
    <3>3. t # u
      BY <3>2, <2>5, <1>b DEF RowSettled, _holder_filter
    <3> QED BY <3>3, <2>5, <2>a, <1>1, <1>b DEF RowSettled
  <2>6. ASSUME NEW w \in Workers, NEW t \in Tasks, RowInserted(w, t)
        PROVE  jobs'[v][u].attempt = rows'[u].attempts
    <3>1. t # u
      BY <2>6, <1>b DEF RowInserted, New, _holder_filter
    <3> QED BY <3>1, <2>6, <2>a, <1>1, <1>b DEF RowInserted
  <2>7. CASE RowAged
    BY <2>7, <2>a, <1>1, <1>b, RowKeys, RowHolder DEF RowAged, _holder_filter
  <2> QED BY <1>a, <2>1, <2>2, <2>3, <2>4, <2>5, <2>6, <2>7 DEF RowStep
<1>2. CASE jobs'[v][u] = FreshJob(u) /\ rows' = [rows EXCEPT ![u] = Claimed(@, v)]
  BY <1>2, <1>b, <1>f, RowHolder
<1>3. CASE /\ UNCHANGED rows /\ jobs[v][u].phase \in {"waiting", "handling"}
           /\ jobs'[v][u].attempt = jobs[v][u].attempt
  BY <1>3 DEF OutcomeOfLatestAttempt
<1> QED BY <1>a, <1>1, <1>2, <1>3 DEF JobMove

(* A coroutine that passes the holder guard speaks for the latest attempt.    *)
THEOREM OutcomesAreOfLatest == Spec => []OutcomeOfLatestAttempt
<1>1. Init => OutcomeOfLatestAttempt
  BY DEF Init, OutcomeOfLatestAttempt, NoJob
<1>2. TypeOK /\ OutcomeOfLatestAttempt /\ [Next]_vars => OutcomeOfLatestAttempt'
  BY AttemptStep
<1> QED BY <1>1, <1>2, TypeCorrect, PTL DEF Spec

----------------------------------------------------------------------------
(* The give-up hook. *)

GivenUp == {"FAILED", "TIMED_OUT"}

(* A hook that ran was due before the step, a retirement is on the row after it. *)
HookMove ==
    /\ \A u \in Tasks : hookedBy'[u] = hookedBy[u]
                           \/ \E v \in Workers : u \in retired[v] \/ jobs[v][u].phase = "hook"
    /\ \A v \in Workers, u \in Tasks :
           u \in retired'[v] => u \in retired[v] \/ rows'[u].status = "TIMED_OUT"

LEMMA HookMoves ==
    ASSUME TypeOK, [Next]_vars PROVE HookMove
<1> USE DEF HookMove
<1>a. /\ rows \in [Tasks -> Row] /\ retired \in [Workers -> SUBSET Tasks]
      /\ hookedBy \in [Tasks -> SUBSET Workers]
  BY DEF TypeOK
<1>1. ASSUME NEW w \in Workers, LoopStep(w) PROVE HookMove
  <2>1. CASE Boot(w) \/ Scan(w) \/ BeginBatch(w) \/ BatchDone(w) \/ Wake(w)
    BY <2>1 DEF Boot, Scan, BeginBatch, BatchDone, Wake, history
  <2>2. ASSUME NEW t \in Tasks, ClaimRow(w, t) PROVE HookMove
    <3>1. CASE Retire(w, t)
      <4>1. rows'[t].status = "TIMED_OUT"
        BY <3>1, <1>a, RowKeys DEF Retire, TERMINAL_STATUSES
      <4>2. \A v \in Workers, u \in Tasks : u \in retired'[v] => u \in retired[v] \/ u = t
        BY <3>1, <1>a DEF Retire
      <4> QED BY <4>1, <4>2, <2>2 DEF ClaimRow
    <3>2. CASE UNCHANGED retired
      BY <3>2, <2>2 DEF ClaimRow
    <3> QED BY <2>2, <3>1, <3>2 DEF ClaimRow, Claim
  <2>3. ASSUME NEW t \in Tasks, GiveUpRetired(w, t) PROVE HookMove
    BY <2>3, <1>a DEF GiveUpRetired
  <2> QED BY <1>1, <2>1, <2>2, <2>3 DEF LoopStep
<1>2. ASSUME NEW w \in Workers, RunStep(w) PROVE HookMove
  <2>1. ASSUME NEW t \in Tasks, _give_up(w, t) PROVE HookMove
    BY <2>1, <1>a DEF _give_up, At, JobStep
  <2> QED BY <1>2, <2>1
          DEF RunStep, StartHandler, HandlerReturns, _apply, ApplyLost, ReadBack, JobStep
<1>3. ASSUME NEW w \in Workers, AnswerStep(w) PROVE HookMove
  BY <1>3 DEF AnswerStep, _insert, InsertConflict, Lookup, CheckStranded, Notify,
              CallStep, loopVars, history
<1>4. ASSUME NEW w \in Workers, FaultStep(w) PROVE HookMove
  <2>1. CASE ClaimFault(w)
    BY <2>1, <1>a DEF ClaimFault, history
  <2>2. CASE Stop(w)
    BY <2>2, <1>a DEF Stop, history
  <2> QED BY <1>4, <2>1, <2>2 DEF FaultStep, HeartbeatFault, ApplyFault, JobStep
<1>5. ASSUME NEW w \in Workers, SubmitStep(w) \/ Deliver(w) PROVE HookMove
  BY <1>5 DEF SubmitStep, Enqueue, Deliver, CallStep, loopVars, history
<1>6. ASSUME NEW w \in Workers, NEW t \in Tasks, Heartbeat(w, t) PROVE HookMove
  BY <1>6 DEF Heartbeat, JobStep
<1>7. CASE Tick
  BY <1>7 DEF Tick, loopVars
<1>8. CASE UNCHANGED vars
  BY <1>8 DEF vars, loopVars, history
<1> QED BY <1>1, <1>2, <1>3, <1>4, <1>5, <1>6, <1>7, <1>8 DEF Next

(* Terminal statuses are final. *)
LEMMA TerminalIsFinal ==
    ASSUME TypeOK, RowStep, NEW u \in Tasks, rows[u].status \in TERMINAL_STATUSES
    PROVE  rows'[u].status = rows[u].status
<1> USE DEF TERMINAL_STATUSES
<1>a. rows \in [Tasks -> Row] /\ rows[u] \in Row
  BY DEF TypeOK
<1>1. ASSUME NEW w \in Workers, NEW t \in Tasks, RowClaimed(w, t) \/ RowRetired(w, t)
      PROVE rows'[u].status = rows[u].status
  <2>1. t # u
    BY <1>1 DEF RowClaimed, RowRetired, _eligible, _due_pending, _expired_lease
  <2> QED BY <2>1, <1>1, <1>a DEF RowClaimed, RowRetired
<1>2. ASSUME NEW w \in Workers, NEW t \in Tasks, RowRenewed(w, t) \/ RowSettled(w, t)
      PROVE rows'[u].status = rows[u].status
  <2>1. t # u
    BY <1>2 DEF RowRenewed, RowSettled, _holder_filter
  <2> QED BY <2>1, <1>2, <1>a DEF RowRenewed, RowSettled
<1>3. ASSUME NEW w \in Workers, NEW t \in Tasks, RowInserted(w, t)
      PROVE rows'[u].status = rows[u].status
  <2>1. t # u
    BY <1>3 DEF RowInserted
  <2> QED BY <2>1, <1>3, <1>a DEF RowInserted
<1>4. CASE RowAged
  BY <1>4, <1>a, RowKeys DEF RowAged
<1> QED BY <1>1, <1>2, <1>3, <1>4 DEF RowStep

LEMMA HookStep ==
    ASSUME TypeOK, HookOnlyAfterGiveUp, [Next]_vars PROVE HookOnlyAfterGiveUp'
<1>a. RowStep /\ HookMove /\ \A v \in Workers, u \in Tasks : JobMove(v, u)
  BY RowSteps, HookMoves, JobMoves
<1> SUFFICES ASSUME NEW u \in Tasks, rows'[u].status \notin GivenUp
             PROVE  /\ hookedBy'[u] = {}
                    /\ \A w \in Workers : u \notin retired'[w] /\ jobs'[w][u].phase # "hook"
  BY DEF HookOnlyAfterGiveUp, GivenUp
<1>1. rows[u].status \notin GivenUp
  BY <1>a, TerminalIsFinal DEF GivenUp, TERMINAL_STATUSES
<1>2. /\ hookedBy[u] = {}
      /\ \A w \in Workers : u \notin retired[w] /\ jobs[w][u].phase # "hook"
  BY <1>1 DEF HookOnlyAfterGiveUp, GivenUp
<1>3. hookedBy'[u] = {} /\ \A w \in Workers : u \notin retired'[w]
  BY <1>2, <1>a DEF HookMove, GivenUp
<1>4. ASSUME NEW w \in Workers, jobs'[w][u].phase = "hook" PROVE FALSE
  <2>a. rows \in [Tasks -> Row] /\ rows[u] \in Row /\ jobs[w][u] \in Job
    BY DEF TypeOK
  <2>1. CASE jobs'[w][u] = jobs[w][u] \/ jobs'[w][u].phase = "none"
    BY <2>1, <1>4, <1>2
  <2>2. CASE jobs'[w][u] = FreshJob(u)
    BY <2>2, <1>4 DEF FreshJob, NoJob
  <2>3. CASE UNCHANGED rows /\ jobs'[w][u].phase \in {"handling", "writing"}
    BY <2>3, <1>4
  <2>4. CASE /\ rows' = [rows EXCEPT ![u] = Written(@, jobs[w][u])]
             /\ jobs[w][u].out = "fail"
    <3>1. Written(rows[u], jobs[w][u]) = Ended(rows[u], "FAILED")
      BY <2>4 DEF Written
    <3>2. rows'[u].status = "FAILED"
      BY <3>1, <2>4, <2>a, RowKeys DEF TERMINAL_STATUSES
    <3> QED BY <3>2 DEF GivenUp
  <2>5. CASE UNCHANGED rows /\ rows[u].status = "TIMED_OUT"
    BY <2>5, <1>1 DEF GivenUp
  <2>6. JobMove(w, u)
    BY <1>a
  <2> QED BY <2>6, <2>1, <2>2, <2>3, <2>4, <2>5, <1>4 DEF JobMove
<1> QED BY <1>3, <1>4

(* No hook runs, or is about to, for a task that is alive or succeeded.       *)
THEOREM HooksFollowGiveUp == Spec => []HookOnlyAfterGiveUp
<1>1. Init => HookOnlyAfterGiveUp
  BY DEF Init, HookOnlyAfterGiveUp, NoJob
<1>2. TypeOK /\ HookOnlyAfterGiveUp /\ [Next]_vars => HookOnlyAfterGiveUp'
  BY HookStep
<1> QED BY <1>1, <1>2, TypeCorrect, PTL DEF Spec

----------------------------------------------------------------------------
(* The wake-up latch. *)

(* Except between the wait and the next scan, an owed wake-up is on its way.  *)
OwedIsOnItsWay == \A w \in Workers : owed[w] /\ pc[w] # "idle" => signal[w] \/ latch[w]

LEMMA WakeStep ==
    ASSUME TypeOK, OwedIsOnItsWay, [Next]_vars PROVE OwedIsOnItsWay'
<1> USE DEF OwedIsOnItsWay
<1>a. /\ signal \in [Workers -> BOOLEAN] /\ latch \in [Workers -> BOOLEAN]
      /\ owed \in [Workers -> BOOLEAN] /\ DOMAIN pc = Workers
  BY DEF TypeOK
<1>0. CASE UNCHANGED <<pc, signal, latch, owed>>
  BY <1>0
<1>1. ASSUME NEW w \in Workers, LoopStep(w) PROVE OwedIsOnItsWay'
  <2>1. CASE Boot(w)
    BY <2>1, <1>a DEF Boot, wakeVars
  <2>2. CASE Scan(w)
    BY <2>2, <1>a DEF Scan
  <2>3. CASE BeginBatch(w)
    BY <2>3, <1>a DEF BeginBatch, wakeVars
  <2>4. CASE BatchDone(w)
    BY <2>4, <1>a DEF BatchDone, wakeVars
  <2>5. CASE Wake(w)
    BY <2>5, <1>a DEF Wake
  <2>6. ASSUME NEW t \in Tasks, ClaimRow(w, t) \/ GiveUpRetired(w, t) PROVE OwedIsOnItsWay'
    BY <2>6, <1>0 DEF ClaimRow, GiveUpRetired, wakeVars
  <2> QED BY <1>1, <2>1, <2>2, <2>3, <2>4, <2>5, <2>6 DEF LoopStep
<1>2. ASSUME NEW w \in Workers, RunStep(w) PROVE OwedIsOnItsWay'
  BY <1>2, <1>0 DEF RunStep, StartHandler, HandlerReturns, _apply, ApplyLost, ReadBack,
                    _give_up, JobStep, wakeVars
<1>3. ASSUME NEW w \in Workers, AnswerStep(w) PROVE OwedIsOnItsWay'
  <2>1. CASE Notify(w)
    BY <2>1, <1>a DEF Notify, CallStep, loopVars
  <2> QED BY <1>3, <2>1, <1>0 DEF AnswerStep, _insert, InsertConflict, Lookup, CheckStranded,
                                  CallStep, loopVars, wakeVars
<1>4. ASSUME NEW w \in Workers, FaultStep(w) PROVE OwedIsOnItsWay'
  <2>1. CASE ClaimFault(w)
    BY <2>1, <1>a DEF ClaimFault, wakeVars
  <2>2. CASE Stop(w)
    BY <2>2, <1>a DEF Stop
  <2> QED BY <1>4, <2>1, <2>2, <1>0 DEF FaultStep, HeartbeatFault, ApplyFault, JobStep, wakeVars
<1>5. ASSUME NEW w \in Workers, Deliver(w) PROVE OwedIsOnItsWay'
  BY <1>5, <1>a DEF Deliver, CallStep, loopVars
<1>6. ASSUME NEW w \in Workers, SubmitStep(w) PROVE OwedIsOnItsWay'
  BY <1>6, <1>0 DEF SubmitStep, Enqueue, CallStep, loopVars, wakeVars
<1>7. ASSUME NEW w \in Workers, NEW t \in Tasks, Heartbeat(w, t) PROVE OwedIsOnItsWay'
  BY <1>7, <1>0 DEF Heartbeat, JobStep, wakeVars
<1>8. CASE Tick \/ UNCHANGED vars
  BY <1>8, <1>0 DEF Tick, vars, loopVars, wakeVars
<1> QED BY <1>1, <1>2, <1>3, <1>4, <1>5, <1>6, <1>7, <1>8 DEF Next

(* No signal is lost: a pod does not settle into its idle wait with a wake-up *)
(* owed and neither queued nor latched.                                       *)
THEOREM WakesAreNotLost == Spec => []WakeIsNotLost
<1>1. Init => OwedIsOnItsWay
  BY DEF Init, OwedIsOnItsWay
<1>2. TypeOK /\ OwedIsOnItsWay /\ [Next]_vars => OwedIsOnItsWay'
  BY WakeStep
<1>3. OwedIsOnItsWay => WakeIsNotLost
  BY DEF OwedIsOnItsWay, WakeIsNotLost
<1> QED BY <1>1, <1>2, <1>3, TypeCorrect, PTL DEF Spec
=============================================================================
