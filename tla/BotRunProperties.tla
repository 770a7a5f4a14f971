-------------------------- MODULE BotRunProperties --------------------------
(* What the queued bot runs are relied on for. *)
EXTENDS BotRun

TypeOK ==
    /\ queue \in [Runs -> Work]
    /\ result \in [Runs -> {"absent"} \cup Open \cup Terminal]
    /\ exec \in [Execs -> Exec]
    /\ tasks \in [Pods -> [Runs -> Execs \cup {None}]]
    /\ room \in [Pods -> BOOLEAN]
    /\ scan \in {NoScan} \cup [step : {"found", "marked", "done"}, pod : Pods, run : Runs,
                              ran : BOOLEAN]
    /\ abort \in {NoAbort} \cup [step : {"found", "marked", "requested"}, pod : Pods,
                                 run : Runs, mine : BOOLEAN]
    /\ overdue \subseteq Runs
    /\ up \in [Pods -> BOOLEAN]
    /\ aborts \in Nat
    /\ faults \in Nat
    /\ told \in [Runs -> {"none"} \cup Terminal]
    /\ sends \in [Runs -> 0..2]
    /\ disturbed \subseteq Runs
    /\ overtaken \subseteq Runs
    /\ lost \subseteq Runs
    /\ LockTypeOK

----------------------------------------------------------------------------
Inside(e, s) == /\ exec[e].phase \in {"binding", "sending"}
                /\ SessionOf[exec[e].run] = s

(* The requests of a session are served one at a time, across processes, as  *)
(* long as no lock row has run out under a working holder: no expired row     *)
(* taken over, no release, forced unlock, reap or crash lets a second one in. *)
SerialUntilLapse ==
    \A s \in Sessions : overran[s] = {} =>
        \A e \in Execs : Inside(e, s) => lock[s].holder = e

(* _service.py: `only the holder of a lock may release it'.  So an execution *)
(* whose own row never ran out has the session to itself among such.         *)
HolderIsAlone ==
    \A s \in Sessions, e, f \in Execs :
        Inside(e, s) /\ Inside(f, s) /\ e \notin overran[s] /\ f \notin overran[s] => e = f

(* The limit is counted, then a row is claimed, in different statements: the  *)
(* processes overshoot it by at most one run each but one.                    *)
LimitOvershoot ==
    Cardinality(InStatus("RUNNING")) + Cardinality({p \in Pods : room[p]})
        <= MaxRunning + Cardinality(Pods) - 1

(* The message of a run is sent to the bot at most once, through requeues,    *)
(* timeouts, aborts and races for the row, unless the run was disturbed: a    *)
(* missed heartbeat, a crash, an outage or a failed statement on its row lets *)
(* another execution send it again.                                           *)
SentOnce == \A r \in Runs : sends[r] > 1 => r \in disturbed

(* A DONE row is never looked at again by tick, scan or recovery.  So its run *)
(* has its result, unless writing it failed or its writer died, or an         *)
(* execution is there to write one.  Of a run that was not disturbed that     *)
(* execution is already cancelled, or will be by its abort poll.              *)
DoneIsSettled ==
    \A r \in Runs : queue[r].status = "DONE" /\ r \notin lost =>
        \/ result[r] \in Terminal
        \/ \E e \in Execs : /\ exec[e].run = r
                            /\ exec[e].phase \in {"binding", "sending", "failing"}
                            /\ \/ r \in disturbed \/ exec[e].cancel \/ queue[r].abort
                               \/ At(e, "failing")

(* What BCN was told of a run, deduplicated by run id for good, is what the   *)
(* result row says from then on: of runs neither disturbed nor overtaken.     *)
ToldIsTrue ==
    \A r \in Runs \ (disturbed \cup overtaken) : told[r] # "none" => result[r] = told[r]

(* A terminal result is final, though update_status writes RUNNING over       *)
(* anything: an execution that would do so was cancelled or never starts,     *)
(* except of a run that was disturbed, or that another process aborted while  *)
(* its execution had not written RUNNING yet.                                 *)
ResultIsFinal ==
    [][\A r \in Runs \ (disturbed \cup overtaken) :
          result[r] \in Terminal => result'[r] = result[r]]_vars

----------------------------------------------------------------------------
(* An execution that lost its guardian without being cancelled: the guardian  *)
(* cancels the task registered for the run, and that was its successor.       *)
Unguarded(r) == \E e \in Execs : /\ exec[e].run = r
                                 /\ exec[e].phase \in {"binding", "sending"}
                                 /\ "guardian" \notin exec[e].watch /\ ~exec[e].cancel

(* Every dispatched run gets a terminal result, though no bot has to answer,  *)
(* unless its row is closed and writing the result failed or its writer died, *)
(* or its execution is left without a guardian.                               *)
EveryRunSettles ==
    \A r \in Runs : queue[r].status # "absent" ~>
        result[r] \in Terminal \/ (r \in lost /\ queue[r].status = "DONE") \/ Unguarded(r)

(* And BCN is told, unless some statement or call failed, a crash or a missed *)
(* heartbeat hit the run, or it was aborted: abort and deadline together can  *)
(* cut off both callbacks.                                                    *)
EveryRunIsTold ==
    \A r \in Runs : queue[r].status # "absent" ~>
        told[r] # "none" \/ r \in disturbed \/ faults > 0 \/ queue[r].abort
=============================================================================
