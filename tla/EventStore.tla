----------------------------- MODULE EventStore -----------------------------
(***************************************************************************)
(* The transactional Event repository of BCS Eventing: subscriptions with  *)
(* immutable revisions, events with per-stream sequences, the fanout       *)
(* targets an event owes its subscriptions (the outbox), the deliveries    *)
(* made of them, and the attempts audited on each delivery.                *)
(*                                                                         *)
(* Every repository call runs under one write lock (memory store) or in    *)
(* one database transaction (SQL store), so each one is a single action    *)
(* here.  This module defines the operations over the store's variables;   *)
(* module Eventing adds the callers (administrators, producers, fanout and *)
(* dispatch workers, retention) and closes the system.                     *)
(*                                                                         *)
(* Abstractions.                                                           *)
(*  - A target is identified by what its hashed id is computed from; a     *)
(*    manual replay, whose id is random, also by a number.  A target has   *)
(*    at most one delivery, so a delivery carries its target's identity.   *)
(*  - An optional reference is a set with at most one element.             *)
(*  - Deadlines are kept relative to the clock: lease and wait are the     *)
(*    ticks left of lease_until_ms and next_attempt_at_ms, 0 once reached. *)
(*    Retention lasts weeks and leases seconds: expired is a flag.         *)
(*  - Events are numbered in commit order, which also stands for           *)
(*    recorded_at and created_at.                                          *)
(*  - scope_epochs serialise transactions and are never read: left out.    *)
(***************************************************************************)
EXTENDS Naturals, FiniteSets, Sequences

CONSTANTS
  Groups,              \* group ids, the only subscription scope
  NewGroups,           \* the groups still being provisioned at the start
  Subs,                \* subscription ids
  Types,               \* event types
  Filters,             \* the sets of types a revision's event_filters match
  Streams,             \* stream keys
  Keys,                \* producer idempotency keys
  Requests,            \* replay request ids
  Owners,              \* lease owner tokens, numbers above 0
  Lease,               \* ticks a lease lasts
  MaxDelay,            \* largest retry delay in ticks
  ScopeLimit,          \* max_group_subscriptions
  ClaimLimit,          \* rows one claim takes at most
  ReplayAnswersCause,  \* TRUE: memory.rs; FALSE: transaction_plan.rs, replay.rs
  MaxEvents,           \* bound: events ever appended
  MaxRevision,         \* bound: revisions of one subscription
  MaxReplays,          \* bound: replay targets ever created
  MaxClaims            \* bound: attempts of one delivery (u32 in the code)

ASSUME ConstantsOK ==
  /\ NewGroups \subseteq Groups
  /\ Filters \subseteq SUBSET Types
  /\ Owners \subseteq Nat \ {0}
  /\ Lease \in Nat \ {0} /\ MaxDelay \in Nat \ {0}
  /\ ScopeLimit \in Nat /\ ClaimLimit \in Nat \ {0}
  /\ ReplayAnswersCause \in BOOLEAN
  /\ MaxEvents \in Nat /\ MaxRevision \in Nat \ {0}
  /\ MaxReplays \in Nat /\ MaxClaims \in Nat

VARIABLES
  groups,      \* status of each group (owned by the Group store)
  subs,        \* subscriptions: id -> record with its revisions
  events,      \* events: number -> record
  appended,    \* number of events ever appended
  sequences,   \* stream_sequences: last sequence of each stream
  targets,     \* fanout targets: TargetId -> record
  deliveries,  \* deliveries: TargetId -> record
  attempts,    \* attempts: TargetId -> attempt number -> result
  replays      \* number of replay targets ever created

storeVars == <<groups, subs, events, appended, sequences, targets,
               deliveries, attempts, replays>>

EventIds == 1..MaxEvents
Revisions == 1..MaxRevision
NoOwner == 0

SubscriptionStatus == {"pending", "active", "disabled", "deleted"}
Revision == [filter : Filters, endpoint : Revisions]
Subscription == [group : Groups, status : SubscriptionStatus,
                 revision : Revisions, since : 0..MaxEvents,
                 revisions : Seq(Revision)]

Causes == {{}} \cup {{e} : e \in EventIds}
Event == [group : Groups, stream : Streams, seq : EventIds, type : Types,
          key : Keys, cause : Causes,
          fanout : {"pending", "completed"}, expired : BOOLEAN]

Purposes == {"normal", "cause", "replay"}
TargetId == [event : EventIds, sub : Subs, rev : Revisions,
             purpose : Purposes, n : 0..MaxReplays]
Target == [status : {"pending", "materialized", "cancelled"},
           at : EventIds, dep : SUBSET TargetId,
           of : SUBSET TargetId, request : SUBSET Requests,
           owner : Owners \cup {NoOwner}, lease : 0..Lease]

DeliveryStatus == {"pending", "in_flight", "retry_wait", "succeeded",
                   "dead_lettered", "cancelled", "skipped"}
Delivery == [status : DeliveryStatus, count : 0..MaxClaims,
             owner : Owners \cup {NoOwner}, lease : 0..Lease,
             wait : 0..MaxDelay, resolved : SUBSET TargetId]

AttemptResult == {"open", "success", "retryable", "terminal"}

StoreTypeOK ==
  /\ groups \in [Groups -> {"provisioning", "active", "deleted"}]
  /\ DOMAIN subs \subseteq Subs
  /\ \A s \in DOMAIN subs : /\ subs[s] \in Subscription
                            /\ Len(subs[s].revisions) = subs[s].revision
  /\ appended \in 0..MaxEvents
  /\ DOMAIN events \subseteq 1..appended
  /\ \A e \in DOMAIN events : events[e] \in Event
  /\ sequences \in [Streams -> 0..appended]
  /\ DOMAIN targets \subseteq TargetId
  /\ \A t \in DOMAIN targets : targets[t] \in Target
  /\ DOMAIN deliveries \subseteq DOMAIN targets
  /\ \A d \in DOMAIN deliveries : deliveries[d] \in Delivery
  /\ DOMAIN attempts = DOMAIN deliveries
  /\ \A d \in DOMAIN attempts :
       attempts[d] \in [1..deliveries[d].count -> AttemptResult]
  /\ replays \in 0..MaxReplays

-----------------------------------------------------------------------------
(* Reading the store *)

FilterOf(s, r) == subs[s].revisions[r].filter

\* EventDeliveryStatus::is_attempt_terminal.
AttemptTerminal(st) ==
  st \in {"succeeded", "dead_lettered", "cancelled", "skipped"}

\* delivery_unblocks_lane: later deliveries of the lane may pass this one.
UnblocksLane(d) ==
  \/ deliveries[d].status \in {"succeeded", "cancelled", "skipped"}
  \/ deliveries[d].status = "dead_lettered" /\ deliveries[d].resolved # {}

\* The outcomes of a cause that release its effect.
CauseSettled(d) ==
  /\ d \in DOMAIN deliveries
  /\ \/ deliveries[d].status \in {"succeeded", "skipped"}
     \/ deliveries[d].status = "dead_lettered" /\ deliveries[d].resolved # {}

\* delivery_dependency_satisfied.
DependencySatisfied(d) == \A c \in targets[d].dep : CauseSettled(c)

\* Mutant: a delivery whose worker crashed is never due again.
DueUnlessInFlight(d) ==
  \/ deliveries[d].status = "pending"
  \/ deliveries[d].status = "retry_wait" /\ deliveries[d].wait = 0

\* Mutant: a dead letter is due again.
DueAfterDeadLetter(d) ==
  deliveries[d].lease = 0 /\ deliveries[d].wait = 0 /\ deliveries[d].status # "succeeded"

\* delivery_is_due.
Due(d) ==
  /\ deliveries[d].lease = 0
  /\ \/ deliveries[d].status \in {"pending", "in_flight"}
     \/ deliveries[d].status = "retry_wait" /\ deliveries[d].wait = 0

\* p is ahead of d in d's lane: same subscription and stream, lower sequence.
Ahead(p, d) ==
  /\ p.sub = d.sub
  /\ events[p.event].stream = events[d.event].stream
  /\ events[p.event].seq < events[d.event].seq

\* Mutant: causes are not waited for.
EligibleBeforeCause(d) ==
  Due(d) /\ \A p \in DOMAIN deliveries : Ahead(p, d) => UnblocksLane(p)

\* Mutant: the lane is not looked at.
EligibleOutOfOrder(d) == Due(d) /\ DependencySatisfied(d)

\* delivery_is_eligible: only deliveries already materialized block the lane.
Eligible(d) ==
  /\ Due(d)
  /\ DependencySatisfied(d)
  /\ \A p \in DOMAIN deliveries : Ahead(p, d) => UnblocksLane(p)

\* The subscriptions that count against a group's limit.
Reserved(g) ==
  {s \in DOMAIN subs : subs[s].group = g /\ subs[s].status \in {"pending", "active"}}

\* EventSubscriptionStatus::can_transition_to.
CanTransition(old, new) ==
  <<old, new>> \in {<<"pending", "active">>, <<"pending", "deleted">>,
                    <<"active", "disabled">>, <<"active", "deleted">>,
                    <<"disabled", "active">>, <<"disabled", "deleted">>}

-----------------------------------------------------------------------------
(* Fanout bookkeeping shared by the operations *)

\* complete_event_fanout_if_settled for the events E, after ts became the targets.
SettleFanout(es, ts, E) ==
  [e \in DOMAIN es |->
     IF e \in E /\ \A t \in DOMAIN ts : t.event = e => ts[t].status # "pending"
     THEN [es[e] EXCEPT !.fanout = "completed"]
     ELSE es[e]]

\* Mutant: an event that was fanned out stays completed.
ReopenNothing(es, E) == es

\* A target added later puts the event's fanout_status back to pending.
ReopenFanout(es, E) ==
  [e \in DOMAIN es |-> IF e \in E THEN [es[e] EXCEPT !.fanout = "pending"] ELSE es[e]]

\* Mutant: the lease is not given back.
MoveKeepingLease(d, status, wait) ==
  [deliveries[d] EXCEPT !.status = status, !.wait = wait]

\* Delivery d once it moved to status, out of any worker's hands.
Move(d, status, wait) ==
  [deliveries[d] EXCEPT !.status = status, !.owner = NoOwner, !.lease = 0, !.wait = wait]

\* Mutant: only deliveries waiting for a retry are cancelled.
CancelRetries(D) ==
  [d \in DOMAIN deliveries |->
     IF d \in D /\ deliveries[d].status = "retry_wait"
     THEN Move(d, "cancelled", 0) ELSE deliveries[d]]

\* The deliveries with work still to start are cancelled; one in flight is left.
CancelDeliveries(D) ==
  [d \in DOMAIN deliveries |->
     IF d \in D /\ deliveries[d].status \in {"pending", "retry_wait"}
     THEN Move(d, "cancelled", 0) ELSE deliveries[d]]

\* Pending targets are cancelled.  One call of the memory store leaves the lease
\* columns of a cancelled target behind; they are never read again and reset here.
CancelTargets(T) ==
  [t \in DOMAIN targets |->
     IF t \in T /\ targets[t].status = "pending"
     THEN [targets[t] EXCEPT !.status = "cancelled", !.owner = NoOwner, !.lease = 0]
     ELSE targets[t]]

NormalId(e, s, r) == [event |-> e, sub |-> s, rev |-> r, purpose |-> "normal", n |-> 0]
CauseId(e, s, r) == [event |-> e, sub |-> s, rev |-> r, purpose |-> "cause", n |-> 0]
ReplayId(e, s, r, n) == [event |-> e, sub |-> s, rev |-> r, purpose |-> "replay", n |-> n]

NewTarget(at, dep, of, request) ==
  [status |-> "pending", at |-> at, dep |-> dep, of |-> of, request |-> request,
   owner |-> NoOwner, lease |-> 0]

-----------------------------------------------------------------------------
(* Causal prerequisites: resolve_causal_target *)

\* Targets of cause event c for revision r of s that are not cancelled.
LiveTargets(ts, c, s, r) ==
  {t \in DOMAIN ts : t.event = c /\ t.sub = s /\ t.rev = r /\ ts[t].status # "cancelled"}

\* Mutant: any replay answers for the cause.
ReplaysTrusted(live) == {t \in live : t.purpose = "replay"}

\* The replays that answer for a cause: the SQL store takes none.
ReplaysAnswering(live) == {t \in live : ReplayAnswersCause /\ t.purpose = "replay"}

\* What a new target of revision r of s depends on, when its event is caused by
\* the events in cause (none or one): nothing if the revision does not filter
\* the cause in; its normal target, else its prerequisite; in the memory store
\* else a replay of it; and otherwise a prerequisite that is yet to be created.
ResolveCause(ts, es, cause, s, r) ==
  UNION {LET live == LiveTargets(ts, c, s, r)
             again == ReplaysAnswering(live)
         IN IF es[c].type \notin FilterOf(s, r) THEN {}
            ELSE IF NormalId(c, s, r) \in live THEN {NormalId(c, s, r)}
            ELSE IF CauseId(c, s, r) \in live THEN {CauseId(c, s, r)}
            ELSE IF again # {} THEN {CHOOSE t \in again : TRUE}
            ELSE {CauseId(c, s, r)} : c \in cause}

\* The prerequisite was created and then cancelled: the call fails (Conflict).
CauseConflict(ts, dep) ==
  \E t \in dep : t \in DOMAIN ts /\ ts[t].status = "cancelled"

-----------------------------------------------------------------------------
(* Appending events: append_event_to_state and its two callers *)

\* What a producer hands over.
EventInput == [group : Groups, stream : Streams, type : Types, key : Keys,
               cause : Causes]

\* The part of the store that appending touches, so that appends can be chained.
Log == [events |-> events, targets |-> targets, sequences |-> sequences,
        appended |-> appended]

\* existing_by_producer: key and type were used by an event that is still retained.
Deduplicated(log, in) ==
  \E e \in DOMAIN log.events : log.events[e].key = in.key /\ log.events[e].type = in.type

\* The active subscriptions among A whose current revision matches the event.
Matching(A, in) ==
  {s \in A : subs[s].group = in.group /\ in.type \in FilterOf(s, subs[s].revision)}

DependsOn(log, in, s) ==
  ResolveCause(log.targets, log.events, in.cause, s, subs[s].revision)

\* validate_causation, no Conflict from resolve_causal_target, and the bound.
CanAppend(log, A, in) ==
  \/ Deduplicated(log, in)
  \/ /\ log.appended < MaxEvents
     /\ in.cause \subseteq DOMAIN log.events
     /\ \A s \in Matching(A, in) : ~CauseConflict(log.targets, DependsOn(log, in, s))

\* Mutant: numbered by the events still retained.
SequenceOfRetained(log, stream) ==
  Cardinality({e \in DOMAIN log.events : log.events[e].stream = stream}) + 1

NextSequence(log, stream) == log.sequences[stream] + 1

\* append_event_to_state: a deduplicated event changes nothing; a new one gets
\* the stream's next sequence and a pending target per matching subscription,
\* with the causal prerequisites those need.
AppendTo(log, A, in) ==
  IF Deduplicated(log, in) THEN log
  ELSE LET e == log.appended + 1
           M == Matching(A, in)
           normal == {NormalId(e, s, subs[s].revision) : s \in M}
           prerequisite == (UNION {DependsOn(log, in, s) : s \in M}) \ DOMAIN log.targets
           seq == NextSequence(log, in.stream)
           record == [group |-> in.group, stream |-> in.stream, seq |-> seq,
                      type |-> in.type, key |-> in.key, cause |-> in.cause,
                      fanout |-> IF M = {} THEN "completed" ELSE "pending",
                      expired |-> FALSE]
           reopened == ReopenFanout(log.events, {t.event : t \in prerequisite})
       IN [events |-> [x \in DOMAIN log.events \cup {e} |->
                         IF x = e THEN record ELSE reopened[x]],
           targets |-> [t \in DOMAIN log.targets \cup normal \cup prerequisite |->
                          IF t \in normal THEN NewTarget(e, DependsOn(log, in, t.sub), {}, {})
                          ELSE IF t \in prerequisite THEN NewTarget(e, {}, {}, {})
                          ELSE log.targets[t]],
           sequences |-> [log.sequences EXCEPT ![in.stream] = seq],
           appended |-> e]

ActiveSubs == {s \in DOMAIN subs : subs[s].status = "active"}

BecomesLog(log) ==
  /\ events' = log.events
  /\ targets' = log.targets
  /\ sequences' = log.sequences
  /\ appended' = log.appended

\* append_event, and commit_mutation with one event beside a business change.
AppendEvent(in) ==
  /\ CanAppend(Log, ActiveSubs, in)
  /\ BecomesLog(AppendTo(Log, ActiveSubs, in))
  /\ UNCHANGED <<groups, subs, deliveries, attempts, replays>>

-----------------------------------------------------------------------------
(* Subscriptions *)

\* create_subscription: revision 1, within the limit of the group.
CreateSubscription(s, g, f, status) ==
  /\ s \notin DOMAIN subs
  /\ Cardinality(Reserved(g)) < ScopeLimit
  /\ subs' = [x \in DOMAIN subs \cup {s} |->
                IF x = s THEN [group |-> g, status |-> status, revision |-> 1,
                               since |-> appended,
                               revisions |-> <<[filter |-> f, endpoint |-> 1]>>]
                ELSE subs[x]]
  /\ UNCHANGED <<groups, events, appended, sequences, targets, deliveries,
                 attempts, replays>>

PendingSubs(g) == {s \in DOMAIN subs : subs[s].group = g /\ subs[s].status = "pending"}

\* cancel_pending_subscriptions, when provisioning the group is given up.
CancelPendingSubscriptions(g) ==
  /\ groups' = [groups EXCEPT ![g] = "deleted"]
  /\ subs' = [s \in DOMAIN subs |->
                IF s \in PendingSubs(g) THEN [subs[s] EXCEPT !.status = "deleted"]
                ELSE subs[s]]
  /\ UNCHANGED <<events, appended, sequences, targets, deliveries, attempts, replays>>

\* replace_subscription_revision: a compare-and-swap on the revision number.
\* cancel withdraws the work of the replaced revision that has not started, and
\* of every revision when the subscription is disabled or deleted.
ReplaceRevision(s, expected, status, f, endpoint, cancel) ==
  LET all == status \in {"disabled", "deleted"}
      work == IF cancel THEN {t \in DOMAIN targets : t.sub = s /\ (all \/ t.rev = expected)}
              ELSE {}
      ts == CancelTargets(work)
  IN /\ s \in DOMAIN subs
     /\ subs[s].revision = expected
     /\ status = subs[s].status \/ CanTransition(subs[s].status, status)
     /\ expected < MaxRevision
     /\ subs' = [subs EXCEPT ![s].status = status, ![s].revision = expected + 1,
                   ![s].revisions = Append(@, [filter |-> f, endpoint |-> endpoint])]
     /\ targets' = ts
     /\ deliveries' = CancelDeliveries(work)
     /\ events' = SettleFanout(events, ts, {t.event : t \in work})
     /\ UNCHANGED <<groups, appended, sequences, attempts, replays>>

-----------------------------------------------------------------------------
(* Groups: provisioning with inline subscriptions, deletion *)

\* Mutant: the first event recorded while pending is left out.
MissedButFirst(S, g) ==
  {t \in {NormalId(e, s, subs[s].revision) : e \in DOMAIN events, s \in S} :
     /\ events[t.event].group = g
     /\ ~events[t.event].expired
     /\ t.event > subs[t.sub].since + 1
     /\ events[t.event].type \in FilterOf(t.sub, t.rev)}

\* The events of the group recorded while the subscriptions S were pending.
Missed(S, g) ==
  {t \in {NormalId(e, s, subs[s].revision) : e \in DOMAIN events, s \in S} :
     /\ events[t.event].group = g
     /\ ~events[t.event].expired
     /\ t.event > subs[t.sub].since
     /\ events[t.event].type \in FilterOf(t.sub, t.rev)}

\* backfill_group_provisioning_targets: a target for each of them, with the
\* prerequisites they need.
Backfill(S, g) ==
  LET added == Missed(S, g) \ DOMAIN targets
      with == [t \in DOMAIN targets \cup added |->
                 IF t \in added THEN NewTarget(t.event, {}, {}, {}) ELSE targets[t]]
      dep(t) == ResolveCause(with, events, events[t.event].cause, t.sub, t.rev)
      prerequisite == (UNION {dep(t) : t \in added}) \ DOMAIN with
      first(c) == CHOOSE a \in {t.event : t \in {x \in added : c \in dep(x)}} :
                    \A t \in added : c \in dep(t) => a <= t.event
  IN [events |-> ReopenFanout(events, {t.event : t \in added \cup prerequisite}),
      targets |-> [t \in DOMAIN with \cup prerequisite |->
                     IF t \in added THEN NewTarget(t.event, dep(t), {}, {})
                     ELSE IF t \in prerequisite THEN NewTarget(first(t), {}, {}, {})
                     ELSE targets[t]],
      sequences |-> sequences,
      appended |-> appended]

\* The causes the backfill resolves must still be stored (CausationViolation).
BackfillCausesStored(S, g) ==
  \A t \in Missed(S, g) : events[t.event].cause \subseteq DOMAIN events

\* finalize_group_provisioning: activates the group's pending subscriptions,
\* backfills them, then appends group.created (created) and, if the group starts
\* with a session, session.created (session), which the first one causes.
FinalizeGroupProvisioning(g, created, session) ==
  LET S == PendingSubs(g)
      A == ActiveSubs \cup S
      log1 == Backfill(S, g)
      log2 == AppendTo(log1, A, created)
      caused == [session EXCEPT !.cause = {log2.appended}]
  IN /\ groups[g] = "provisioning"
     /\ BackfillCausesStored(S, g)
     /\ ~Deduplicated(log1, created) /\ CanAppend(log1, A, created)
     /\ \/ BecomesLog(log2)
        \/ /\ ~Deduplicated(log2, caused) /\ CanAppend(log2, A, caused)
           /\ BecomesLog(AppendTo(log2, A, caused))
     /\ groups' = [groups EXCEPT ![g] = "active"]
     /\ subs' = [s \in DOMAIN subs |->
                   IF s \in S THEN [subs[s] EXCEPT !.status = "active"] ELSE subs[s]]
     /\ UNCHANGED <<deliveries, attempts, replays>>

\* commit_group_deletion: disables the active subscriptions of the group without
\* a new revision, and withdraws their work that has not started.
CommitGroupDeletion(g) ==
  LET S == {s \in ActiveSubs : subs[s].group = g}
      work == {t \in DOMAIN targets : t.sub \in S}
      ts == CancelTargets(work)
  IN /\ groups[g] = "active"
     /\ groups' = [groups EXCEPT ![g] = "deleted"]
     /\ subs' = [s \in DOMAIN subs |->
                   IF s \in S THEN [subs[s] EXCEPT !.status = "disabled"] ELSE subs[s]]
     /\ targets' = ts
     /\ deliveries' = CancelDeliveries(work)
     /\ events' = SettleFanout(events, ts, {t.event : t \in work})
     /\ UNCHANGED <<appended, sequences, attempts, replays>>

-----------------------------------------------------------------------------
(* Fanout *)

\* Mutant: a target once claimed is not claimed again.
UnclaimedTargets ==
  {t \in DOMAIN targets : targets[t].status = "pending" /\ targets[t].owner = NoOwner}

\* Pending targets with no lease or an expired one.
ClaimableTargets ==
  {t \in DOMAIN targets : targets[t].status = "pending" /\ targets[t].lease = 0}

\* The order of a claim: created_at, then stream and sequence.
CreatedBefore(u, t) ==
  \/ targets[u].at < targets[t].at
  \/ /\ targets[u].at = targets[t].at
     /\ events[u.event].stream = events[t.event].stream
     /\ events[u.event].seq < events[t.event].seq

\* claim_fanout_targets: a batch B, leased to one owner.
ClaimFanoutTargets(B, owner) ==
  /\ B # {} /\ B \subseteq ClaimableTargets
  /\ Cardinality(B) <= ClaimLimit
  /\ Cardinality(B) = ClaimLimit \/ B = ClaimableTargets
  /\ \A t \in B : \A u \in ClaimableTargets : CreatedBefore(u, t) => u \in B
  /\ targets' = [t \in DOMAIN targets |->
                   IF t \in B THEN [targets[t] EXCEPT !.owner = owner, !.lease = Lease]
                   ELSE targets[t]]
  /\ UNCHANGED <<groups, subs, events, appended, sequences, deliveries, attempts, replays>>

HoldsTarget(t, owner) ==
  /\ t \in DOMAIN targets
  /\ targets[t].status = "pending"
  /\ targets[t].owner = owner
  /\ targets[t].lease > 0

\* materialize_fanout_target under a live lease: the delivery starts pending, or
\* dead-lettered when the payload cannot be projected.
MaterializeFanoutTarget(t, owner, status) ==
  LET ts == [targets EXCEPT ![t].status = "materialized",
                            ![t].owner = NoOwner, ![t].lease = 0]
  IN /\ HoldsTarget(t, owner)
     /\ t \notin DOMAIN deliveries
     /\ targets' = ts
     /\ deliveries' = [d \in DOMAIN deliveries \cup {t} |->
                         IF d = t THEN [status |-> status, count |-> 0, owner |-> NoOwner,
                                        lease |-> 0, wait |-> 0, resolved |-> {}]
                         ELSE deliveries[d]]
     /\ attempts' = [d \in DOMAIN attempts \cup {t} |-> IF d = t THEN << >> ELSE attempts[d]]
     /\ events' = SettleFanout(events, ts, {t.event})
     /\ UNCHANGED <<groups, subs, appended, sequences, replays>>

-----------------------------------------------------------------------------
(* Dispatch *)

EligibleDeliveries == {d \in DOMAIN deliveries : Eligible(d)}

\* Mutant: no attempt is recorded.
NextAttemptsUnrecorded(d) == attempts[d]

\* Mutant: the abandoned attempt stays open.
NextAttemptsLeftOpen(d) ==
  [n \in 1..(deliveries[d].count + 1) |->
     IF n = deliveries[d].count + 1 THEN "open" ELSE attempts[d][n]]

\* Mutant: the last attempt is closed again, whatever it reported.
NextAttemptsClosedTwice(d) ==
  [n \in 1..(deliveries[d].count + 1) |->
     IF n = deliveries[d].count + 1 THEN "open"
     ELSE IF n = deliveries[d].count THEN "terminal" ELSE attempts[d][n]]

\* The attempts of d once it is claimed: one still open was abandoned by its
\* worker and is closed as retryable ("lease_expired"); the next one is open.
NextAttempts(d) ==
  LET next == deliveries[d].count + 1
  IN [n \in 1..next |->
        IF n = next THEN "open"
        ELSE IF n = deliveries[d].count /\ deliveries[d].status = "in_flight"
                /\ attempts[d][n] = "open" THEN "retryable"
        ELSE attempts[d][n]]

\* claim_deliveries: the batch B, leased to one owner, each on a new attempt.
\* Which eligible deliveries a full batch takes (the oldest) is left open.
ClaimDeliveries(B, owner) ==
  /\ B # {} /\ B \subseteq EligibleDeliveries
  /\ Cardinality(B) <= ClaimLimit
  /\ Cardinality(B) = ClaimLimit \/ B = EligibleDeliveries
  /\ \A d \in B : deliveries[d].count < MaxClaims
  /\ deliveries' = [d \in DOMAIN deliveries |->
                      IF d \in B THEN [deliveries[d] EXCEPT
                                         !.status = "in_flight", !.count = @ + 1,
                                         !.owner = owner, !.lease = Lease, !.wait = 0]
                      ELSE deliveries[d]]
  /\ attempts' = [d \in DOMAIN attempts |-> IF d \in B THEN NextAttempts(d) ELSE attempts[d]]
  /\ UNCHANGED <<groups, subs, events, appended, sequences, targets, replays>>

\* The fence of renew_delivery_lease and complete_delivery_attempt.
HoldsDelivery(d, owner, n) ==
  /\ d \in DOMAIN deliveries
  /\ deliveries[d].status = "in_flight"
  /\ deliveries[d].owner = owner
  /\ deliveries[d].count = n
  /\ deliveries[d].lease > 0

\* renew_delivery_lease.
RenewDeliveryLease(d, owner, n) ==
  /\ HoldsDelivery(d, owner, n)
  /\ deliveries' = [deliveries EXCEPT ![d].lease = Lease]
  /\ UNCHANGED <<groups, subs, events, appended, sequences, targets, attempts, replays>>

\* complete_delivery_attempt: closes the attempt and moves the delivery on; the
\* success of a replay resolves the dead letter it replays.
CompleteDeliveryAttempt(d, owner, n, result, status, wait) ==
  /\ HoldsDelivery(d, owner, n)
  /\ attempts[d][n] = "open"
  /\ attempts' = [attempts EXCEPT ![d] = [@ EXCEPT ![n] = result]]
  /\ deliveries' =
       [x \in DOMAIN deliveries |->
          IF x = d THEN Move(d, status, wait)
          ELSE IF /\ status = "succeeded" /\ x \in targets[d].of
                  /\ deliveries[x].status = "dead_lettered" /\ deliveries[x].resolved = {}
               THEN [deliveries[x] EXCEPT !.resolved = {d}]
          ELSE deliveries[x]]
  /\ UNCHANGED <<groups, subs, events, appended, sequences, targets, replays>>

-----------------------------------------------------------------------------
(* Replay, skip, retention *)

UnresolvedDeadLetter(d) ==
  /\ d \in DOMAIN deliveries
  /\ deliveries[d].status = "dead_lettered"
  /\ deliveries[d].resolved = {}

\* Mutant: whatever belongs to the same event and subscription.
EverythingBeside(d) ==
  {t \in DOMAIN targets : t.event = d.event /\ t.sub = d.sub /\ t # d}

\* The replays of d, by replay_of_delivery_id.
ReplaysOf(d) == {t \in DOMAIN targets : d \in targets[t].of}

\* Mutant: a materialized replay no longer counts.
ReplaysNotFannedOut(d) == {t \in ReplaysOf(d) : targets[t].status = "pending"}

\* unresolved_replay_target: replays of d that have not come to an end.
OpenReplays(d) ==
  {t \in ReplaysOf(d) :
     \/ targets[t].status = "pending"
     \/ targets[t].status = "materialized" /\ ~AttemptTerminal(deliveries[t].status)}

\* replay_target: the request was made before, for this delivery and revision.
SameRequest(d, r, q) ==
  {t \in ReplaysOf(d) : t.rev = r /\ q \in targets[t].request}

\* create_replay_target: a replay of the dead letter d on the current revision.
\* A repeated request, or one while a replay is open, returns that replay.
CreateReplayTarget(d, q) ==
  LET s == d.sub
      r == subs[s].revision
      dep == ResolveCause(targets, events, events[d.event].cause, s, r)
      prerequisite == dep \ DOMAIN targets
      id == ReplayId(d.event, s, r, replays + 1)
  IN /\ UnresolvedDeadLetter(d)
     /\ SameRequest(d, r, q) = {} /\ OpenReplays(d) = {}
     /\ subs[s].status = "active"
     /\ ~events[d.event].expired
     /\ events[d.event].cause \subseteq DOMAIN events
     /\ ~CauseConflict(targets, dep)
     /\ replays < MaxReplays
     /\ targets' = [t \in DOMAIN targets \cup prerequisite \cup {id} |->
                      IF t = id THEN NewTarget(appended, dep, {d}, {q})
                      ELSE IF t \in prerequisite THEN NewTarget(appended, {}, {}, {})
                      ELSE targets[t]]
     /\ events' = ReopenFanout(events, {d.event} \cup {t.event : t \in prerequisite})
     /\ replays' = replays + 1
     /\ UNCHANGED <<groups, subs, appended, sequences, deliveries, attempts>>

\* skip_dead_lettered_delivery: accepts the loss and withdraws its replays that
\* have not started.  The fanout status of the event is left as it is.
SkipDeadLetteredDelivery(d) ==
  /\ UnresolvedDeadLetter(d)
  /\ deliveries' = [CancelDeliveries(ReplaysOf(d)) EXCEPT ![d].status = "skipped"]
  /\ targets' = CancelTargets(ReplaysOf(d))
  /\ UNCHANGED <<groups, subs, events, appended, sequences, attempts, replays>>

\* Mutant: what depends on the event is not looked at.
PurgeableOnceSent(e) ==
  \A t \in DOMAIN targets : t.event = e =>
    targets[t].status # "pending" /\ (t \in DOMAIN deliveries => UnblocksLane(t))

\* event_can_be_purged.
Purgeable(e) ==
  \A t \in DOMAIN targets : t.event = e =>
    /\ targets[t].status # "pending"
    /\ \A u \in DOMAIN targets : t \notin targets[u].dep
    /\ t \in DOMAIN deliveries => UnblocksLane(t)

\* purge_expired: one batch E of expired events, with everything that hangs on them.
PurgeExpired(E) ==
  LET kept(f) == [t \in {x \in DOMAIN f : x.event \notin E} |-> f[t]]
  IN /\ E # {} /\ E \subseteq {e \in DOMAIN events : events[e].expired /\ Purgeable(e)}
     /\ events' = [e \in DOMAIN events \ E |-> events[e]]
     /\ targets' = kept(targets)
     /\ deliveries' = kept(deliveries)
     /\ attempts' = kept(attempts)
     /\ UNCHANGED <<groups, subs, appended, sequences, replays>>

-----------------------------------------------------------------------------
(* Time *)

Dec(n) == IF n = 0 THEN 0 ELSE n - 1

TimersRunning ==
  \/ \E t \in DOMAIN targets : targets[t].lease > 0
  \/ \E d \in DOMAIN deliveries : deliveries[d].lease > 0 \/ deliveries[d].wait > 0

\* The clock moves: leases and retry delays run down.
ClockTick ==
  /\ TimersRunning
  /\ targets' = [t \in DOMAIN targets |-> [targets[t] EXCEPT !.lease = Dec(@)]]
  /\ deliveries' = [d \in DOMAIN deliveries |->
                      [deliveries[d] EXCEPT !.lease = Dec(@), !.wait = Dec(@)]]
  /\ UNCHANGED <<groups, subs, events, appended, sequences, attempts, replays>>

\* The retention of event e runs out.
RetentionElapses(e) ==
  /\ e \in DOMAIN events /\ ~events[e].expired
  /\ events' = [events EXCEPT ![e].expired = TRUE]
  /\ UNCHANGED <<groups, subs, appended, sequences, targets, deliveries, attempts, replays>>

StoreInit ==
  /\ groups = [g \in Groups |-> IF g \in NewGroups THEN "provisioning" ELSE "active"]
  /\ subs = << >> /\ events = << >> /\ appended = 0
  /\ sequences = [s \in Streams |-> 0]
  /\ targets = << >> /\ deliveries = << >> /\ attempts = << >> /\ replays = 0
=============================================================================
