----------------------------- MODULE TaskQueue -----------------------------
(***************************************************************************)
(* The table ac_task_queue of the backend and the statements of            *)
(* TaskQueueRepository that read and write it.                             *)
(*                                                                         *)
(* The database owns all timing.  A timestamp column is kept as the number *)
(* of seconds until it is reached (0: reached, Null: the SQL NULL), and     *)
(* Aged lets one second pass; `run_at <= now()' is due = 0, and             *)
(* `now() + d < deadline_at' is d < deadline.  Every UPDATE is one          *)
(* compare-and-swap: a predicate on a row and the row it writes.            *)
(***************************************************************************)
EXTENDS Integers, FiniteSets

CONSTANTS Tasks,            \* row identities
          Apps, Types,      \* owning deployments, task types
          Keys, NoKey,      \* idempotency keys; the NULL key
          Workers, NoWorker,\* worker ids (one per process); the NULL holder
          Lease,            \* lease_seconds
          LegacyIndex       \* the unique index that ignores app still exists

ASSUME QueueAssumption ==
    /\ Apps # {} /\ Types # {}
    /\ Lease \in Nat \ {0}
    /\ NoKey \notin Keys
    /\ NoWorker \notin Workers
    /\ LegacyIndex \in BOOLEAN

VARIABLE rows

Null == -1

Live == {"PENDING", "RUNNING"}
TERMINAL_STATUSES == {"SUCCEEDED", "FAILED", "TIMED_OUT"}

Row == [status   : {"absent"} \cup Live \cup TERMINAL_STATUSES,
        app      : Apps, type : Types,
        key      : Keys \cup {NoKey},      \* idempotency_key, the audit value
        active   : Keys \cup {NoKey},      \* active_idempotency_key
        due      : Nat, deadline : Nat, lease : Nat \cup {Null},
        by       : Workers \cup {NoWorker},
        attempts : Nat]

----------------------------------------------------------------------------
(* Eligibility: both branches of the claim scan and its compare-and-swap. *)

_due_pending(r, app) == r.status = "PENDING" /\ r.app = app /\ r.due = 0

(* Mutant: an abandoned row is never reclaimed. *)
_expired_leaseNever(r, app) == FALSE

_expired_lease(r, app) ==
    r.status = "RUNNING" /\ r.app = app /\ r.due = 0 /\ r.lease = 0

(* Mutant: any RUNNING row is up for reclaim. *)
_eligibleWithoutLease(r, app) ==
    _due_pending(r, app) \/ (r.status = "RUNNING" /\ r.app = app /\ r.due = 0)

_eligible(r, app) == _due_pending(r, app) \/ _expired_lease(r, app)

(* Mutant: the outcome guard forgets the holder. *)
_holder_filterAny(r, w) == r.status = "RUNNING"

_holder_filter(r, w) == r.status = "RUNNING" /\ r.by = w

(* The claim scan reads at most `limit' rows, lapsed leases before due rows;  *)
(* rows of one branch with equal timestamps come in any order.                *)
_read_candidates(app, limit) ==
    LET lapsedRows == {t \in Tasks : _expired_lease(rows[t], app)}
        dueRows    == {t \in Tasks : _due_pending(rows[t], app)}
        all        == lapsedRows \cup dueRows
    IN  {S \in SUBSET all :
            /\ Cardinality(S) = IF Cardinality(all) < limit THEN Cardinality(all)
                                                            ELSE limit
            /\ S \cap dueRows # {} => lapsedRows \subseteq S}

----------------------------------------------------------------------------
(* The rows the transitions write. *)

Claimed(r, w) == [r EXCEPT !.status = "RUNNING", !.by = w, !.lease = Lease,
                           !.attempts = @ + 1]

(* Mutant: a terminal transition forgets the key. *)
EndedKeepingKey(r, status) == [r EXCEPT !.status = status, !.by = NoWorker,
                                        !.lease = Null, !.due = 0, !.deadline = 0]

(* Every terminal transition releases the deduplication key.  No statement   *)
(* compares the times of a terminal row, so they are dropped.                *)
Ended(r, status) == [r EXCEPT !.status = status, !.by = NoWorker,
                              !.lease = Null, !.active = NoKey,
                              !.due = 0, !.deadline = 0]

Repended(r, delay) == [r EXCEPT !.status = "PENDING", !.due = delay,
                                !.by = NoWorker, !.lease = Null]

Renewed(r) == [r EXCEPT !.lease = Lease]

(* reschedule: re-pend, or give up when the retry would overshoot. *)
Rescheduled(r, delay) ==
    IF delay < r.deadline THEN Repended(r, delay) ELSE Ended(r, "TIMED_OUT")

New(app, type, key, delay, deadline) ==
    [status |-> "PENDING", app |-> app, type |-> type, key |-> key,
     active |-> key, due |-> delay, deadline |-> deadline, lease |-> Null,
     by |-> NoWorker, attempts |-> 0]

----------------------------------------------------------------------------
(* The unique index over the active key, and the two lookups after a conflict. *)

_is_active_idem_conflict(app, type, key) ==
    /\ key # NoKey
    /\ \E u \in Tasks : /\ rows[u].status # "absent"
                        /\ rows[u].active = key
                        /\ rows[u].type = type
                        /\ rows[u].app = app \/ LegacyIndex

HoldsKey(u, app, type, key) ==
    /\ rows[u].app = app
    /\ rows[u].type = type
    /\ rows[u].active = key

_find_active_by_key(app, type, key) ==
    {u \in Tasks : rows[u].status \in Live /\ HoldsKey(u, app, type, key)}

_find_stranded_key_holder(app, type, key) ==
    {u \in Tasks : rows[u].status \in TERMINAL_STATUSES
                   /\ HoldsKey(u, app, type, key)}

----------------------------------------------------------------------------
(* One second of the database clock. *)
(* Mutant: a time that was reached keeps counting. *)
DecThroughZero(n) == n - 1

Dec(n) == IF n > 0 THEN n - 1 ELSE n

Aged(r) == [r EXCEPT !.due = Dec(@), !.deadline = Dec(@), !.lease = Dec(@)]

=============================================================================
