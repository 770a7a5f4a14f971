------------------------------ MODULE Eventing ------------------------------
(***************************************************************************)
(* BCS Eventing as a system: the Event repository (module EventStore) and  *)
(* everything that calls it concurrently.                                  *)
(*  - administrators create, patch and delete subscriptions, and replay or *)
(*    skip dead letters; a patch or a delete reads the subscription first  *)
(*    and writes it in a second call;                                      *)
(*  - producers append events; groups are provisioned and deleted;         *)
(*  - fanout workers claim a batch of targets and materialize them one by  *)
(*    one; dispatch workers claim a batch of deliveries and run one task   *)
(*    per delivery: the HTTP request, the reaction to its outcome and,     *)
(*    beside it, the heartbeat that renews the lease;                      *)
(*  - retention purges expired events.                                     *)
(* A fault is a worker crash, a repository error that makes a worker drop  *)
(* an item, or a worker so slow that its lease lapses.                     *)
(***************************************************************************)
EXTENDS EventStore

CONSTANTS
  Admins, FanoutWorkers, DispatchWorkers,
  MaxAttempts,       \* retry.max_attempts
  DeletableGroups,   \* bound: the groups that may be deleted
  ExpiringEvents,    \* bound: the events whose retention may run out
  MaxFaults          \* bound: faults in one behaviour

ASSUME EventingConstantsOK ==
  /\ MaxAttempts \in Nat \ {0} /\ MaxFaults \in Nat
  /\ DeletableGroups \subseteq Groups /\ ExpiringEvents \subseteq EventIds

VARIABLES
  drafts,   \* the subscription snapshot an administrator call works on
  batches,  \* the targets each fanout worker still has to materialize
  tasks,    \* the deliveries each dispatch worker is sending
  faults    \* faults so far

workerVars == <<drafts, batches, tasks, faults>>
vars == <<groups, subs, events, appended, sequences, targets, deliveries,
          attempts, replays, drafts, batches, tasks, faults>>

Draft == [sub : Subs, revision : Revisions, status : SubscriptionStatus]
Batch == [owner : Owners \cup {NoOwner}, todo : SUBSET TargetId]
\* A task's stage is what it does next: send the request, then handle the
\* outcome; "gone" (HTTP 410) first reads and then disables the subscription.
Task == [id : TargetId, owner : Owners, attempt : 1..MaxClaims,
         stage : {"send", "success", "retryable", "terminal", "gone", "disable"},
         rev : 0..MaxRevision]

TypeOK ==
  /\ StoreTypeOK
  /\ drafts \in [Admins -> SUBSET Draft]
  /\ batches \in [FanoutWorkers -> Batch]
  /\ tasks \in [DispatchWorkers -> SUBSET Task]
  /\ faults \in 0..MaxFaults

Idle == [owner |-> NoOwner, todo |-> {}]

\* A lease owner is the worker's name and a fresh UUID: a token nobody holds.
OwnersInUse ==
  {targets[t].owner : t \in DOMAIN targets}
    \cup {deliveries[d].owner : d \in DOMAIN deliveries}
    \cup {batches[w].owner : w \in FanoutWorkers}
    \cup UNION {{k.owner : k \in tasks[w]} : w \in DispatchWorkers}

FreshOwners == Owners \ OwnersInUse
ClaimOwner == CHOOSE o \in FreshOwners : TRUE

Fault == faults < MaxFaults /\ faults' = faults + 1

-----------------------------------------------------------------------------
(* Administrators *)

\* EventSubscriptionService::create, for a group the caller manages.
Create(s, g, f) ==
  /\ groups[g] = "active"
  /\ CreateSubscription(s, g, f, "active")
  /\ UNCHANGED workerVars

\* GroupEventSubscriptionProvisioner::prepare, one inline subscription.
Prepare(s, g, f) ==
  /\ groups[g] = "provisioning"
  /\ CreateSubscription(s, g, f, "pending")
  /\ UNCHANGED workerVars

\* GroupEventSubscriptionProvisioner::cancel.
CancelProvisioning(g) ==
  /\ groups[g] = "provisioning"
  /\ CancelPendingSubscriptions(g)
  /\ UNCHANGED workerVars

\* GroupEventSubscriptionProvisioner::finalize.
Finalize(g, created, session) ==
  /\ created.group = g /\ created.cause = {} /\ session.group = g /\ session.cause = {}
  /\ FinalizeGroupProvisioning(g, created, session)
  /\ UNCHANGED workerVars

\* patch and delete begin alike: load, authorize, compare the revision.
LoadSubscription(a, s) ==
  /\ drafts[a] = {}
  /\ s \in DOMAIN subs /\ subs[s].status # "deleted"
  /\ groups[subs[s].group] = "active"
  /\ drafts' = [drafts EXCEPT ![a] = {[sub |-> s, revision |-> subs[s].revision,
                                       status |-> subs[s].status]}]
  /\ UNCHANGED <<storeVars, batches, tasks, faults>>

\* The rest of patch: the status is the requested one or the one that was read;
\* a new URL or a tightened payload withdraws the replaced revision's work.
Patch(a, status, f, retarget, tighten) ==
  \E c \in drafts[a] :
    LET old == subs[c.sub].revisions[c.revision]
    IN /\ status \in {c.status, "active", "disabled"}
       /\ status = c.status \/ CanTransition(c.status, status)
       /\ ReplaceRevision(c.sub, c.revision, status, f,
                          IF retarget THEN c.revision + 1 ELSE old.endpoint,
                          retarget \/ tighten \/ status \in {"disabled", "deleted"})
       /\ drafts' = [drafts EXCEPT ![a] = {}]
       /\ UNCHANGED <<batches, tasks, faults>>

\* The rest of delete.
Delete(a) ==
  \E c \in drafts[a] :
    LET old == subs[c.sub].revisions[c.revision]
    IN /\ ReplaceRevision(c.sub, c.revision, "deleted", old.filter, old.endpoint, TRUE)
       /\ drafts' = [drafts EXCEPT ![a] = {}]
       /\ UNCHANGED <<batches, tasks, faults>>

\* The call ends without a write: a revision conflict, a rejected request, a crash.
DropDraft(a) ==
  /\ drafts[a] # {}
  /\ drafts' = [drafts EXCEPT ![a] = {}]
  /\ UNCHANGED <<storeVars, batches, tasks, faults>>

\* EventSubscriptionService::replay_delivery and skip_delivery.
Replay(d, q) ==
  /\ UnresolvedDeadLetter(d)
  /\ groups[subs[d.sub].group] = "active"
  /\ CreateReplayTarget(d, q)
  /\ UNCHANGED workerVars

Skip(d) ==
  /\ groups[subs[d.sub].group] = "active"
  /\ SkipDeadLetteredDelivery(d)
  /\ UNCHANGED workerVars

-----------------------------------------------------------------------------
(* Producers and groups *)

Produce(in) ==
  /\ groups[in.group] # "deleted"
  /\ AppendEvent(in)
  /\ UNCHANGED workerVars

DeleteGroup(g) ==
  /\ g \in DeletableGroups
  /\ CommitGroupDeletion(g)
  /\ UNCHANGED workerVars

-----------------------------------------------------------------------------
(* Fanout workers: EventFanoutWorker::run_once *)

ClaimTargets(w) ==
  /\ batches[w].todo = {}
  /\ FreshOwners # {}
  /\ \E B \in SUBSET ClaimableTargets :
       /\ ClaimFanoutTargets(B, ClaimOwner)
       /\ batches' = [batches EXCEPT ![w] = [owner |-> ClaimOwner, todo |-> B]]
  /\ UNCHANGED <<drafts, tasks, faults>>

\* The batch is worked off in the order of the claim; a finished one is Idle.
NextInBatch(w, t) ==
  /\ t \in batches[w].todo
  /\ \A u \in batches[w].todo \cap DOMAIN targets :
       t \in DOMAIN targets => ~CreatedBefore(u, t)

BatchWithout(w, t) ==
  IF batches[w].todo = {t} THEN Idle ELSE [batches[w] EXCEPT !.todo = @ \ {t}]

Materialize(w, t, status) ==
  /\ NextInBatch(w, t)
  /\ MaterializeFanoutTarget(t, batches[w].owner, status)
  /\ batches' = [batches EXCEPT ![w] = BatchWithout(w, t)]
  /\ UNCHANGED <<drafts, tasks, faults>>

\* The item fails and the worker goes on with the next: the lease is lost, the
\* target is gone, or (a fault) the repository call fails.
FailMaterialize(w, t) ==
  /\ NextInBatch(w, t)
  /\ \/ ~HoldsTarget(t, batches[w].owner) /\ UNCHANGED faults
     \/ HoldsTarget(t, batches[w].owner) /\ Fault
  /\ batches' = [batches EXCEPT ![w] = BatchWithout(w, t)]
  /\ UNCHANGED <<storeVars, drafts, tasks>>

-----------------------------------------------------------------------------
(* Dispatch workers: EventDispatcher::run_once, dispatch, dispatch_claimed *)

ClaimWork(w) ==
  /\ tasks[w] = {}
  /\ FreshOwners # {}
  /\ \E B \in SUBSET EligibleDeliveries :
       /\ ClaimDeliveries(B, ClaimOwner)
       /\ tasks' = [tasks EXCEPT ![w] =
                      {[id |-> d, owner |-> ClaimOwner, attempt |-> deliveries[d].count + 1,
                        stage |-> "send", rev |-> 0] : d \in B}]
  /\ UNCHANGED <<drafts, batches, faults>>

Advance(w, k, stage, rev) ==
  tasks' = [tasks EXCEPT ![w] = (@ \ {k}) \cup {[k EXCEPT !.stage = stage, !.rev = rev]}]

Finish(w, k) == tasks' = [tasks EXCEPT ![w] = @ \ {k}]

\* The request is sent and answered (or times out, or fails before it is sent).
Respond(w, k, outcome) ==
  /\ k.stage = "send"
  /\ Advance(w, k, outcome, 0)
  /\ UNCHANGED <<storeVars, drafts, batches, faults>>

\* disable_subscription, first call: a subscription that is no longer active
\* needs no change; one that cannot be disabled, or a repository call that fails
\* (a fault), makes the attempt retryable.
ReadForDisable(w, k) ==
  LET status == subs[k.id.sub].status
  IN /\ k.stage = "gone"
     /\ \/ /\ status \in {"disabled", "deleted"} /\ UNCHANGED faults
           /\ Advance(w, k, "terminal", 0)
        \/ /\ status = "active" /\ UNCHANGED faults
           /\ Advance(w, k, "disable", subs[k.id.sub].revision)
        \/ /\ IF status = "pending" THEN UNCHANGED faults ELSE Fault
           /\ Advance(w, k, "retryable", 0)
     /\ UNCHANGED <<storeVars, drafts, batches>>

\* disable_subscription, second call: the compare-and-swap, which may be refused
\* or (a fault) fail; either way the attempt becomes retryable.
DisableSubscription(w, k) ==
  LET s == k.id.sub
      old == subs[s].revisions[k.rev]
      refused == subs[s].revision # k.rev \/ subs[s].status = "deleted"
  IN /\ k.stage = "disable"
     /\ \/ /\ ReplaceRevision(s, k.rev, "disabled", old.filter, old.endpoint, TRUE)
           /\ Advance(w, k, "terminal", 0)
           /\ UNCHANGED faults
        \/ /\ IF refused THEN UNCHANGED faults ELSE Fault
           /\ Advance(w, k, "retryable", 0)
           /\ UNCHANGED storeVars
     /\ UNCHANGED <<drafts, batches>>

\* complete_attempt: a retryable outcome waits for the next attempt, unless the
\* attempts or the retry window (retry_at_ms) are exhausted.
NextStates(k) ==
  CASE k.stage = "success" -> {<<"succeeded", 0>>}
    [] k.stage = "retryable" ->
         {<<"dead_lettered", 0>>} \cup
         (IF k.attempt < MaxAttempts THEN {"retry_wait"} \X (1..MaxDelay) ELSE {})
    [] OTHER -> {<<"dead_lettered", 0>>}

Complete(w, k) ==
  /\ k.stage \in {"success", "retryable", "terminal"}
  /\ \E next \in NextStates(k) :
       CompleteDeliveryAttempt(k.id, k.owner, k.attempt, k.stage, next[1], next[2])
  /\ Finish(w, k)
  /\ UNCHANGED <<drafts, batches, faults>>

\* The heartbeat renews the lease beside the request.
Heartbeat(w, k) ==
  /\ RenewDeliveryLease(k.id, k.owner, k.attempt)
  /\ UNCHANGED workerVars

\* The task ends with nothing stored: its completion or its heartbeat finds the
\* lease lost, or (a fault) the repository call fails.
DropTask(w, k) ==
  /\ \/ ~HoldsDelivery(k.id, k.owner, k.attempt) /\ UNCHANGED faults
     \/ HoldsDelivery(k.id, k.owner, k.attempt) /\ Fault
  /\ Finish(w, k)
  /\ UNCHANGED <<storeVars, drafts, batches>>

-----------------------------------------------------------------------------
(* Environment *)

CrashFanout(w) ==
  /\ batches[w] # Idle /\ Fault
  /\ batches' = [batches EXCEPT ![w] = Idle]
  /\ UNCHANGED <<storeVars, drafts, tasks>>

CrashDispatch(w) ==
  /\ tasks[w] # {} /\ Fault
  /\ tasks' = [tasks EXCEPT ![w] = {}]
  /\ UNCHANGED <<storeVars, drafts, batches>>

\* A lease that a worker is still working under ends with this tick.
LapsesInUse ==
  \/ \E w \in FanoutWorkers : \E t \in batches[w].todo :
       HoldsTarget(t, batches[w].owner) /\ targets[t].lease = 1
  \/ \E w \in DispatchWorkers : \E k \in tasks[w] :
       HoldsDelivery(k.id, k.owner, k.attempt) /\ deliveries[k.id].lease = 1

Tick ==
  /\ ClockTick
  /\ IF LapsesInUse THEN Fault ELSE UNCHANGED faults
  /\ UNCHANGED <<drafts, batches, tasks>>

RetentionEnds(e) ==
  /\ e \in ExpiringEvents
  /\ RetentionElapses(e)
  /\ UNCHANGED workerVars

\* The retention worker's run.
Purge ==
  /\ \E E \in SUBSET DOMAIN events : PurgeExpired(E)
  /\ UNCHANGED workerVars

-----------------------------------------------------------------------------
Init ==
  /\ StoreInit
  /\ drafts = [a \in Admins |-> {}]
  /\ batches = [w \in FanoutWorkers |-> Idle]
  /\ tasks = [w \in DispatchWorkers |-> {}]
  /\ faults = 0

Administer ==
  \/ \E s \in Subs, g \in Groups, f \in Filters : Create(s, g, f) \/ Prepare(s, g, f)
  \/ \E g \in Groups : CancelProvisioning(g)
  \/ \E g \in Groups, c \in EventInput, i \in EventInput : Finalize(g, c, i)
  \/ \E a \in Admins :
       \/ \E s \in Subs : LoadSubscription(a, s)
       \/ \E st \in SubscriptionStatus, f \in Filters, r, p \in BOOLEAN : Patch(a, st, f, r, p)
       \/ Delete(a)
       \/ DropDraft(a)
  \/ \E d \in DOMAIN deliveries : Skip(d) \/ \E q \in Requests : Replay(d, q)

FanOut(w) ==
  \/ ClaimTargets(w)
  \/ \E t \in batches[w].todo :
       \/ \E st \in {"pending", "dead_lettered"} : Materialize(w, t, st)
       \/ FailMaterialize(w, t)

Dispatch(w) ==
  \/ ClaimWork(w)
  \/ \E k \in tasks[w] :
       \/ \E o \in {"success", "retryable", "terminal", "gone"} : Respond(w, k, o)
       \/ ReadForDisable(w, k)
       \/ DisableSubscription(w, k)
       \/ Complete(w, k)
       \/ Heartbeat(w, k)
       \/ DropTask(w, k)

Next ==
  \/ Administer
  \/ \E in \in EventInput : Produce(in)
  \/ \E g \in Groups : DeleteGroup(g)
  \/ \E w \in FanoutWorkers : FanOut(w) \/ CrashFanout(w)
  \/ \E w \in DispatchWorkers : Dispatch(w) \/ CrashDispatch(w)
  \/ Tick
  \/ \E e \in EventIds : RetentionEnds(e)
  \/ Purge

Spec == Init /\ [][Next]_vars

-----------------------------------------------------------------------------
(* Safety *)

\* The audit of claim_deliveries and complete_delivery_attempt: a delivery in
\* flight has exactly one open attempt, its last one, and no other delivery has
\* any.  Slow workers, crashes and re-claims must not leave a second one open.
OneOpenAttempt ==
  \A d \in DOMAIN deliveries : \A n \in 1..deliveries[d].count :
    attempts[d][n] = "open" <=>
      n = deliveries[d].count /\ deliveries[d].status = "in_flight"

\* The lease columns of complete_delivery_attempt, claim_deliveries and the
\* cancelling operations: only work in progress is owned.
OwnedWhileInFlight ==
  /\ \A d \in DOMAIN deliveries :
       deliveries[d].owner # NoOwner <=> deliveries[d].status = "in_flight"
  /\ \A t \in DOMAIN targets :
       targets[t].status = "materialized" <=> t \in DOMAIN deliveries

\* delivery_dependency_satisfied against purge_expired and create_replay_target:
\* whatever was attempted has its cause settled, and the cause is still stored.
CauseBeforeEffect ==
  \A d \in DOMAIN deliveries : deliveries[d].count > 0 => DependencySatisfied(d)

\* purge_expired removes an event with everything that hangs on it and nothing
\* that is still referred to by what remains.
NoDanglingReference ==
  \A t \in DOMAIN targets :
    /\ t.event \in DOMAIN events
    /\ targets[t].dep \cup targets[t].of \subseteq DOMAIN targets
    /\ t \in DOMAIN deliveries => deliveries[t].resolved \subseteq DOMAIN deliveries

\* create_replay_target, complete_delivery_attempt and skip: a dead letter has at
\* most one replay under way; once resolved it has none, and what resolved it is
\* a replay of it that succeeded.
ReplaysResolve ==
  \A d \in DOMAIN deliveries :
    /\ \A t, u \in OpenReplays(d) : t = u
    /\ \A r \in deliveries[d].resolved :
         /\ deliveries[d].status = "dead_lettered" /\ OpenReplays(d) = {}
         /\ r \in DOMAIN deliveries /\ deliveries[r].status = "succeeded"
         /\ targets[r].of = {d}

\* complete_event_fanout_if_settled: fanout_status says completed only when no
\* target of the event is pending, whatever prerequisites and replays were added.
CompletedMeansSettled ==
  \A t \in DOMAIN targets :
    targets[t].status = "pending" => events[t.event].fanout = "pending"

\* stream_sequences outlive purge_expired: in a stream, later events have larger
\* sequences, and no sequence is given out twice.
SequencesIncrease ==
  \A e, f \in DOMAIN events :
    e < f /\ events[e].stream = events[f].stream => events[e].seq < events[f].seq

\* append_event and backfill_group_provisioning_targets: a subscription that was
\* never patched owes a target for every matching event recorded since it was
\* created, also for those recorded while it was pending.
NothingMissed ==
  \A s \in ActiveSubs : \A e \in DOMAIN events :
    /\ subs[s].revision = 1 /\ e > subs[s].since
    /\ events[e].group = subs[s].group /\ events[e].type \in FilterOf(s, 1)
    /\ ~events[e].expired
    => NormalId(e, s, 1) \in DOMAIN targets

\* replace_subscription_revision and commit_group_deletion: a subscription that is
\* switched off has no target left to fan out and no delivery left to start.
SwitchedOffIsQuiet ==
  \A t \in DOMAIN targets :
    subs[t.sub].status \in {"disabled", "deleted"} =>
      /\ targets[t].status # "pending"
      /\ t \in DOMAIN deliveries => deliveries[t].status # "pending"

\* resolve_causal_target never meets its Conflict: publishing an event cannot
\* fail because some subscription's prerequisite was cancelled earlier.
AppendNeverConflicts ==
  \A s \in ActiveSubs : \A c \in DOMAIN events :
    ~CauseConflict(targets, ResolveCause(targets, events, {c}, s, subs[s].revision))

\* A delivery or target with work left never waits for a cancelled cause, which
\* would block its lane for good.
NoStrandedEffect ==
  \A t \in DOMAIN targets :
    \/ targets[t].status = "pending"
    \/ t \in DOMAIN deliveries /\ ~AttemptTerminal(deliveries[t].status)
    => \A c \in targets[t].dep :
         /\ targets[c].status # "cancelled"
         /\ c \in DOMAIN deliveries => deliveries[c].status # "cancelled"

\* The strict lane as the receiver sees it: while a delivery is in flight, every
\* earlier event of its stream that the subscription is owed is settled.  Replays
\* and prerequisites are made on request, at any time later, and come when they do.
StrictLane ==
  \A d \in DOMAIN deliveries : deliveries[d].status = "in_flight" =>
    \A t \in DOMAIN targets : t.purpose = "normal" /\ Ahead(t, d) =>
      /\ targets[t].status # "pending"
      /\ t \in DOMAIN deliveries => UnblocksLane(t)

-----------------------------------------------------------------------------
(* Action properties *)

\* What a delivery that was already settled may still do: nothing, but for a dead
\* letter, which may be skipped or resolved; or be purged with its event.
SettledIsFinal ==
  [][\A d \in DOMAIN deliveries \cap DOMAIN deliveries' :
       AttemptTerminal(deliveries[d].status) =>
         \/ deliveries'[d].status = deliveries[d].status
         \/ UnresolvedDeadLetter(d) /\ deliveries'[d].status = "skipped"]_vars

\* Attempts are an immutable audit: a closed attempt keeps its result, whatever a
\* late worker reports, and attempts are only ever added one at a time.
AuditIsImmutable ==
  [][\A d \in DOMAIN deliveries \cap DOMAIN deliveries' :
       /\ deliveries'[d].count \in {deliveries[d].count, deliveries[d].count + 1}
       /\ \A n \in 1..deliveries[d].count :
            attempts[d][n] # "open" => attempts'[d][n] = attempts[d][n]]_vars

-----------------------------------------------------------------------------
(* Liveness *)

\* Workers poll for ever, requests end (they have a timeout), time passes.
Fairness ==
  /\ \A w \in FanoutWorkers :
       /\ WF_vars(ClaimTargets(w))
       /\ WF_vars(\E t \in batches[w].todo :
                    Materialize(w, t, "pending") \/ FailMaterialize(w, t))
  /\ \A w \in DispatchWorkers :
       /\ WF_vars(ClaimWork(w))
       /\ WF_vars(\E k \in tasks[w] :
                    \/ \E o \in {"success", "retryable", "terminal", "gone"} : Respond(w, k, o)
                    \/ ReadForDisable(w, k) \/ DisableSubscription(w, k) \/ Complete(w, k))
       /\ WF_vars(\E k \in tasks[w] :
                    ~HoldsDelivery(k.id, k.owner, k.attempt) /\ DropTask(w, k))
  /\ WF_vars(Tick)

FairSpec == Spec /\ Fairness

\* Every target is fanned out, also when workers crash or lose their lease.
FanoutCompletes ==
  \A t \in TargetId :
    (t \in DOMAIN targets /\ targets[t].status = "pending") ~>
      ~(t \in DOMAIN targets /\ targets[t].status = "pending")

Unfinished(d) == d \in DOMAIN deliveries /\ ~AttemptTerminal(deliveries[d].status)

\* Every delivery comes to an end, unless a dead letter of its subscription that
\* nobody handles holds it up: no lane is blocked by a crashed or slow worker.
DeliveriesEnd ==
  \A d \in TargetId :
    Unfinished(d) ~> \/ ~Unfinished(d)
                     \/ \E p \in DOMAIN deliveries : p.sub = d.sub /\ UnresolvedDeadLetter(p)
=============================================================================
