-------------------------- MODULE DistributedLock --------------------------
(***************************************************************************)
(* The lock table of the BaaS and DistributedLockService, one per process,  *)
(* as the session locks of the bot-run workers use them: non-blocking, one  *)
(* holder id per acquisition, a renewal thread per acquisition.             *)
(*                                                                         *)
(* A row is its holder and whether it has run out.  Renewal and deletion    *)
(* address the row by its name alone.  A holder id stands for the execution *)
(* that generated it; it is not used again while anything refers to it.     *)
(* Renewals come in time: a row runs out only when no thread renews it.     *)
(***************************************************************************)
EXTENDS FiniteSets

CONSTANTS Sessions,          \* lock names
          Pods,              \* processes, each with its service object
          Execs, None      \* holder ids; the absent value

ASSUME LockAssumption == None \notin Execs

VARIABLES lock,      \* the row of each name
          ctx,       \* _lock_contexts of each process: the holder per name
          threads    \* the live renewal threads: process, name, holder
(* History, read by no action. *)
VARIABLE  overran    \* holders whose row ran out while they held it, per name

lockVars == <<lock, ctx, threads, overran>>

NoRow == [holder |-> None, expired |-> FALSE]

LockTypeOK ==
    /\ lock \in [Sessions -> [holder : Execs \cup {None}, expired : BOOLEAN]]
    /\ ctx \in [Pods -> [Sessions -> Execs \cup {None}]]
    /\ threads \subseteq Pods \X Sessions \X Execs
    /\ overran \in [Sessions -> SUBSET Execs]

LockInit ==
    /\ lock = [s \in Sessions |-> NoRow]
    /\ ctx = [p \in Pods |-> [s \in Sessions |-> None]]
    /\ threads = {}
    /\ overran = [s \in Sessions |-> {}]

(* No row, context, thread or history names this holder id. *)
Unreferenced(e) ==
    \A s \in Sessions :
        /\ lock[s].holder # e
        /\ e \notin overran[s]
        /\ \A p \in Pods : ctx[p][s] # e /\ <<p, s, e>> \notin threads

----------------------------------------------------------------------------
(* Mutant: the upsert takes over a row that has not run out. *)
acquirableAlways(s) == TRUE

acquirable(s) == lock[s].holder = None \/ lock[s].expired

(* The context of an earlier acquisition in this process is overwritten, its *)
(* renewal thread goes on.                                                    *)
acquire_lock(p, s, e) ==
    /\ acquirable(s)
    /\ lock' = [lock EXCEPT ![s] = [holder |-> e, expired |-> FALSE]]
    /\ ctx' = [ctx EXCEPT ![p][s] = e]
    /\ threads' = threads \cup {<<p, s, e>>}
    /\ UNCHANGED overran

_stop_renew_thread(p, s) == threads' = threads \ {<<p, s, ctx[p][s]>>}

(* The holder is compared with the context of this process, then the row goes *)
(* by name, whoever holds it.  A failing DELETE leaves row and context.       *)
release_lock(p, s, e, fails) ==
    /\ IF ctx[p][s] = e
       THEN /\ _stop_renew_thread(p, s)
            /\ lock' = IF fails THEN lock ELSE [lock EXCEPT ![s] = NoRow]
            /\ ctx' = IF fails THEN ctx ELSE [ctx EXCEPT ![p][s] = None]
       ELSE UNCHANGED <<lock, ctx, threads>>
    /\ UNCHANGED overran

(* force_unlock, and the release_lock after it that finds no context. *)
force_unlock(p, s, fails) ==
    /\ _stop_renew_thread(p, s)
    /\ ctx' = [ctx EXCEPT ![p][s] = None]
    /\ lock' = IF fails THEN lock ELSE [lock EXCEPT ![s] = NoRow]
    /\ UNCHANGED overran

----------------------------------------------------------------------------
Renews(s) == \E p \in Pods, e \in Execs : <<p, s, e>> \in threads

(* A renewal that updates no row ends its thread, and so does one that raises. *)
RenewEnds(p, s, e, fails) ==
    /\ <<p, s, e>> \in threads
    /\ fails \/ lock[s].holder = None
    /\ threads' = threads \ {<<p, s, e>>}
    /\ UNCHANGED <<lock, ctx, overran>>

(* expire_time passes; `held' says whether the holder is still inside. *)
LockExpires(s, held) ==
    /\ lock[s].holder # None
    /\ ~lock[s].expired
    /\ ~Renews(s)
    /\ lock' = [lock EXCEPT ![s].expired = TRUE]
    /\ overran' = IF held THEN [overran EXCEPT ![s] = @ \cup {lock[s].holder}]
                          ELSE overran
    /\ UNCHANGED <<ctx, threads>>

_reap_orphan_session_locks ==
    /\ \E s \in Sessions : lock[s].expired
    /\ lock' = [s \in Sessions |-> IF lock[s].expired THEN NoRow ELSE lock[s]]
    /\ UNCHANGED <<ctx, threads, overran>>

(* A process dies: its contexts and its threads are gone, its rows stay. *)
LockCrash(p) ==
    /\ ctx' = [ctx EXCEPT ![p] = [s \in Sessions |-> None]]
    /\ threads' = {x \in threads : x[1] # p}
    /\ UNCHANGED <<lock, overran>>

=============================================================================
