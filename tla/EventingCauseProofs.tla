------------------------ MODULE EventingCauseProofs -------------------------
(***************************************************************************)
(* Causal order, for every value of the constants: CauseBeforeEffect.  It  *)
(* rests on four facts about every step: a target never changes what it    *)
(* depends on; a cause that is referred to is not purged; a settled cause  *)
(* stays settled; and an attempt starts only under a settled cause.        *)
(***************************************************************************)
EXTENDS EventingAuditProofs

CauseStep ==
  /\ \A t \in DOMAIN targets \cap DOMAIN targets' :
       /\ targets'[t].dep = targets[t].dep
       /\ \A c \in targets[t].dep : c \in DOMAIN deliveries => c \in DOMAIN deliveries'
  /\ \A d \in DOMAIN deliveries \cap DOMAIN deliveries' :
       /\ CauseSettled(d) => CauseSettled(d)'
       /\ deliveries'[d].count > 0 => deliveries[d].count > 0 \/ DependencySatisfied(d)
  /\ \A d \in DOMAIN deliveries' \ DOMAIN deliveries : deliveries'[d].count = 0

LEMMA CauseStepSuffices ==
  ASSUME StoreInv, StoreInv', CauseBeforeEffect, CauseStep
  PROVE  CauseBeforeEffect'
<1>1. SUFFICES ASSUME NEW d \in DOMAIN deliveries', deliveries'[d].count > 0
               PROVE  DependencySatisfied(d)'
  BY DEF CauseBeforeEffect
<1>2. d \in DOMAIN deliveries
  BY <1>1 DEF CauseStep
<1>3. DependencySatisfied(d)
  BY <1>1, <1>2 DEF CauseStep, CauseBeforeEffect
<1>4. d \in DOMAIN targets /\ d \in DOMAIN targets'
  BY <1>1, <1>2 DEF StoreInv, StoreTypeOK
<1>5. SUFFICES ASSUME NEW c \in targets'[d].dep
               PROVE  CauseSettled(c)'
  BY DEF DependencySatisfied
<1>6. c \in targets[d].dep
  BY <1>4 DEF CauseStep
<1>7. CauseSettled(c)
  BY <1>3, <1>6 DEF DependencySatisfied
<1>8. c \in DOMAIN deliveries /\ c \in DOMAIN deliveries'
  BY <1>4, <1>6, <1>7 DEF CauseSettled, CauseStep
<1> QED
  BY <1>7, <1>8 DEF CauseStep

\* The deliveries stay as they are, and the targets what they depend on.
LEMMA QuietCause ==
  ASSUME deliveries' = deliveries,
         \A t \in DOMAIN targets \cap DOMAIN targets' : targets'[t].dep = targets[t].dep
  PROVE  CauseStep
BY DEF CauseStep, CauseSettled

LEMMA UntouchedCause ==
  ASSUME UNCHANGED <<deliveries, targets>>
  PROVE  CauseStep
BY QuietCause

LEMMA OnlyAddsCause ==
  ASSUME NEW log, OnlyAdds(Log, log), BecomesLog(log), deliveries' = deliveries
  PROVE  CauseStep
<1>1. Log.targets = targets /\ targets' = log.targets
  BY DEF Log, BecomesLog
<1> QED
  BY <1>1, QuietCause DEF OnlyAdds

LEMMA AppendEventCause ==
  ASSUME StoreInv, NEW in \in EventInput, AppendEvent(in)
  PROVE  CauseStep
<1>1. ActiveSubs \in SUBSET DOMAIN subs /\ LogOK(Log) /\ StoreTypeOK
  BY LogIsOK DEF ActiveSubs, StoreInv
<1>2. OnlyAdds(Log, AppendTo(Log, ActiveSubs, in))
  BY <1>1, AppendOnlyAdds DEF AppendEvent
<1> QED
  BY <1>2, OnlyAddsCause DEF AppendEvent

LEMMA FinalizeCause ==
  ASSUME StoreInv, NEW g \in Groups, NEW created \in EventInput,
         NEW session \in EventInput, FinalizeGroupProvisioning(g, created, session)
  PROVE  CauseStep
<1> DEFINE S == PendingSubs(g)
           A == ActiveSubs \cup S
           log1 == Backfill(S, g)
           log2 == AppendTo(log1, A, created)
           caused == [session EXCEPT !.cause = {log2.appended}]
           log3 == AppendTo(log2, A, caused)
<1>1. S \in SUBSET DOMAIN subs /\ A \in SUBSET DOMAIN subs /\ StoreTypeOK
      /\ BackfillCausesStored(S, g)
      /\ ~Deduplicated(log1, created) /\ CanAppend(log1, A, created)
  BY DEF PendingSubs, ActiveSubs, StoreInv, FinalizeGroupProvisioning
<1>2. LogOK(log1) /\ OnlyAdds(Log, log1)
  BY <1>1, BackfillType, BackfillOnlyAdds
<1>3. LogOK(log2) /\ log2.appended \in EventIds /\ OnlyAdds(log1, log2)
  BY <1>1, <1>2, AppendType, AppendOnlyAdds
<1>4. caused \in EventInput
  BY <1>3 DEF EventInput, Causes
<1>5. CanAppend(log2, A, caused) => OnlyAdds(log2, log3)
  BY <1>1, <1>3, <1>4, AppendOnlyAdds
<1>6. /\ deliveries' = deliveries
      /\ BecomesLog(log2) \/ (CanAppend(log2, A, caused) /\ BecomesLog(log3))
  BY DEF FinalizeGroupProvisioning
<1> HIDE DEF log1, log2, log3, caused, S, A
<1>7. OnlyAdds(Log, log2) /\ (CanAppend(log2, A, caused) => OnlyAdds(Log, log3))
  BY <1>2, <1>3, <1>5, OnlyAddsTwice
<1> QED
  BY <1>6, <1>7, OnlyAddsCause

LEMMA ReplayCause ==
  ASSUME StoreInv, AuditInv, NEW d, NEW q, CreateReplayTarget(d, q)
  PROVE  CauseStep
<1> DEFINE dep == ResolveCause(targets, events, events[d.event].cause, d.sub, subs[d.sub].revision)
           prerequisite == dep \ DOMAIN targets
           id == ReplayId(d.event, d.sub, subs[d.sub].revision, replays + 1)
<1>1. /\ targets' = [t \in DOMAIN targets \cup prerequisite \cup {id} |->
                       IF t = id THEN NewTarget(appended, dep, {d}, {q})
                       ELSE IF t \in prerequisite THEN NewTarget(appended, {}, {}, {})
                       ELSE targets[t]]
      /\ deliveries' = deliveries
  BY DEF CreateReplayTarget
<1>2. replays \in Nat /\ \A t \in DOMAIN targets : t.n \in Nat /\ t.n <= replays
  BY ConstantsOK DEF AuditInv, StoreInv, StoreTypeOK, TargetId
<1>3. id.n = replays + 1
  BY DEF ReplayId
<1>4. id \notin DOMAIN targets
  BY <1>2, <1>3
<1>5. prerequisite \cap DOMAIN targets = {}
  OBVIOUS
<1> HIDE DEF dep, prerequisite, id
<1> QED
  BY <1>1, <1>4, <1>5, QuietCause

\* Deliveries move among statuses that do not settle a cause, or are skipped.
LEMMA MovesCause ==
  ASSUME DOMAIN targets' = DOMAIN targets, DOMAIN deliveries' = DOMAIN deliveries,
         \A t \in DOMAIN targets : targets'[t].dep = targets[t].dep,
         \A d \in DOMAIN deliveries :
           /\ deliveries'[d].count = deliveries[d].count
           /\ \/ /\ deliveries'[d].status = deliveries[d].status
                 /\ deliveries'[d].resolved = deliveries[d].resolved
              \/ deliveries[d].status \in {"pending", "in_flight", "retry_wait"}
              \/ UnresolvedDeadLetter(d)
  PROVE  CauseStep
BY DEF CauseStep, CauseSettled, UnresolvedDeadLetter

LEMMA CancelTargetsDep ==
  ASSUME StoreInv, NEW W, NEW t \in DOMAIN targets
  PROVE  CancelTargets(W)[t].dep = targets[t].dep
<1>1. targets[t] \in Target
  BY DEF StoreInv, StoreTypeOK
<1> QED
  BY <1>1 DEF CancelTargets, Target

LEMMA WithdrawCause ==
  ASSUME StoreInv, NEW W, targets' = CancelTargets(W), deliveries' = CancelDeliveries(W)
  PROVE  CauseStep
<1>1. DOMAIN targets' = DOMAIN targets /\ DOMAIN deliveries' = DOMAIN deliveries
  BY DEF CancelTargets, CancelDeliveries
<1> QED
  BY <1>1, CancelledOrSame, CancelTargetsDep, MovesCause

LEMMA ReplaceRevisionCause ==
  ASSUME StoreInv, NEW s, NEW r, NEW status, NEW f, NEW endpoint, NEW cancel,
         ReplaceRevision(s, r, status, f, endpoint, cancel)
  PROVE  CauseStep
<1>1. \E W : targets' = CancelTargets(W) /\ deliveries' = CancelDeliveries(W)
  BY DEF ReplaceRevision
<1> QED
  BY <1>1, WithdrawCause

LEMMA GroupDeletionCause ==
  ASSUME StoreInv, NEW g, CommitGroupDeletion(g)
  PROVE  CauseStep
<1>1. \E W : targets' = CancelTargets(W) /\ deliveries' = CancelDeliveries(W)
  BY DEF CommitGroupDeletion
<1> QED
  BY <1>1, WithdrawCause

LEMMA SkipCause ==
  ASSUME StoreInv, NEW d, SkipDeadLetteredDelivery(d)
  PROVE  CauseStep
<1> DEFINE ds == CancelDeliveries(ReplaysOf(d))
<1>1. /\ UnresolvedDeadLetter(d) /\ d \in DOMAIN deliveries
      /\ deliveries' = [ds EXCEPT ![d].status = "skipped"]
      /\ targets' = CancelTargets(ReplaysOf(d))
  BY DEF SkipDeadLetteredDelivery, UnresolvedDeadLetter
<1>2. DOMAIN ds = DOMAIN deliveries
      /\ \A x \in DOMAIN deliveries : ds[x] \in Delivery
  BY CancelDeliveriesType DEF StoreInv
<1>3. \A x \in DOMAIN deliveries :
        /\ ds[x].count = deliveries[x].count
        /\ ds[x] = deliveries[x] \/ deliveries[x].status \in {"pending", "retry_wait"}
  BY CancelledOrSame
<1> HIDE DEF ds
<1>4. deliveries'[d].count = deliveries[d].count
  BY <1>1, <1>2, <1>3 DEF Delivery
<1>5. \A x \in DOMAIN deliveries : x # d => deliveries'[x] = ds[x]
  BY <1>1, <1>2
<1>6. DOMAIN deliveries' = DOMAIN deliveries /\ DOMAIN targets' = DOMAIN targets
  BY <1>1, <1>2 DEF CancelTargets
<1>7. \A t \in DOMAIN targets : targets'[t].dep = targets[t].dep
  BY <1>1, CancelTargetsDep
<1>8. \A x \in DOMAIN deliveries :
        /\ deliveries'[x].count = deliveries[x].count
        /\ \/ /\ deliveries'[x].status = deliveries[x].status
              /\ deliveries'[x].resolved = deliveries[x].resolved
           \/ deliveries[x].status \in {"pending", "in_flight", "retry_wait"}
           \/ UnresolvedDeadLetter(x)
  BY <1>1, <1>3, <1>4, <1>5
<1> QED
  BY <1>6, <1>7, <1>8, MovesCause

LEMMA TickCause ==
  ASSUME StoreInv, ClockTick
  PROVE  CauseStep
<1>1. DOMAIN targets' = DOMAIN targets /\ DOMAIN deliveries' = DOMAIN deliveries
  BY DEF ClockTick
<1>2. \A t \in DOMAIN targets : targets'[t].dep = targets[t].dep
  <2>1. \A x \in Target : [x EXCEPT !.lease = Dec(@)].dep = x.dep
    BY DEF Target
  <2> QED
    BY <2>1 DEF ClockTick, StoreInv, StoreTypeOK
<1>3. \A d \in DOMAIN deliveries : /\ deliveries'[d].status = deliveries[d].status
                                   /\ deliveries'[d].resolved = deliveries[d].resolved
                                   /\ deliveries'[d].count = deliveries[d].count
  <2>1. \A x \in Delivery : LET y == [x EXCEPT !.lease = Dec(@), !.wait = Dec(@)]
                            IN y.status = x.status /\ y.resolved = x.resolved /\ y.count = x.count
    BY DEF Delivery
  <2> QED
    BY <2>1 DEF ClockTick, StoreInv, StoreTypeOK
<1> QED
  BY <1>1, <1>2, <1>3, MovesCause

LEMMA RenewCause ==
  ASSUME StoreInv, NEW d, NEW owner, NEW n, RenewDeliveryLease(d, owner, n)
  PROVE  CauseStep
<1>1. /\ d \in DOMAIN deliveries /\ deliveries[d] \in Delivery
      /\ deliveries' = [deliveries EXCEPT ![d].lease = Lease] /\ targets' = targets
  BY DEF RenewDeliveryLease, HoldsDelivery, StoreInv, StoreTypeOK
<1>2. DOMAIN deliveries' = DOMAIN deliveries
      /\ \A x \in DOMAIN deliveries : /\ deliveries'[x].status = deliveries[x].status
                                       /\ deliveries'[x].resolved = deliveries[x].resolved
                                       /\ deliveries'[x].count = deliveries[x].count
  BY <1>1 DEF Delivery
<1> QED
  BY <1>1, <1>2, MovesCause

LEMMA CompleteCause ==
  ASSUME StoreInv, NEW d, NEW owner, NEW n, NEW result, NEW status, NEW wait,
         CompleteDeliveryAttempt(d, owner, n, result, status, wait)
  PROVE  CauseStep
<1>1. d \in DOMAIN deliveries /\ deliveries[d].status = "in_flight"
  BY DEF CompleteDeliveryAttempt, HoldsDelivery
<1>2. /\ deliveries' =
           [x \in DOMAIN deliveries |->
              IF x = d THEN Move(d, status, wait)
              ELSE IF /\ status = "succeeded" /\ x \in targets[d].of
                      /\ deliveries[x].status = "dead_lettered" /\ deliveries[x].resolved = {}
                   THEN [deliveries[x] EXCEPT !.resolved = {d}]
              ELSE deliveries[x]]
      /\ targets' = targets
  BY DEF CompleteDeliveryAttempt
<1>3. \A x \in DOMAIN deliveries : deliveries[x] \in Delivery
  BY DEF StoreInv, StoreTypeOK
<1>4. Move(d, status, wait).count = deliveries[d].count
  BY <1>1, <1>3 DEF Move, Delivery
<1>5. \A x \in Delivery : [x EXCEPT !.resolved = {d}].count = x.count
  BY DEF Delivery
<1>6. \A x \in DOMAIN deliveries :
        /\ deliveries'[x].count = deliveries[x].count
        /\ \/ deliveries'[x] = deliveries[x]
           \/ deliveries[x].status = "in_flight"
           \/ UnresolvedDeadLetter(x)
  BY <1>1, <1>2, <1>3, <1>4, <1>5 DEF UnresolvedDeadLetter
<1>7. DOMAIN deliveries' = DOMAIN deliveries
  BY <1>2
<1> QED
  BY <1>2, <1>6, <1>7, MovesCause

LEMMA MaterializeCause ==
  ASSUME StoreInv, NEW t, NEW owner, NEW status, MaterializeFanoutTarget(t, owner, status)
  PROVE  CauseStep
<1> DEFINE new == [status |-> status, count |-> 0, owner |-> NoOwner,
                   lease |-> 0, wait |-> 0, resolved |-> {}]
<1>1. /\ t \in DOMAIN targets /\ t \notin DOMAIN deliveries
      /\ targets' = [targets EXCEPT ![t].status = "materialized",
                                    ![t].owner = NoOwner, ![t].lease = 0]
      /\ deliveries' = [d \in DOMAIN deliveries \cup {t} |-> IF d = t THEN new ELSE deliveries[d]]
  BY DEF MaterializeFanoutTarget, HoldsTarget
<1>2. new.count = 0
  OBVIOUS
<1>3. \A x \in DOMAIN targets : targets'[x].dep = targets[x].dep
  <2>1. \A x \in DOMAIN targets : targets[x] \in Target
    BY DEF StoreInv, StoreTypeOK
  <2> QED
    BY <1>1, <2>1 DEF Target
<1> HIDE DEF new
<1>4. /\ DOMAIN deliveries' = DOMAIN deliveries \cup {t} /\ deliveries'[t].count = 0
      /\ \A d \in DOMAIN deliveries : deliveries'[d] = deliveries[d]
  BY <1>1, <1>2
<1>5. \A d \in DOMAIN deliveries : CauseSettled(d) => CauseSettled(d)'
  BY <1>4 DEF CauseSettled
<1> QED
  BY <1>3, <1>4, <1>5 DEF CauseStep

LEMMA ClaimDeliveriesCause ==
  ASSUME StoreInv, NEW B, NEW owner, ClaimDeliveries(B, owner)
  PROVE  CauseStep
<1>1. \A d \in B : /\ d \in DOMAIN deliveries /\ DependencySatisfied(d)
                   /\ deliveries[d].status \in {"pending", "in_flight", "retry_wait"}
  BY DEF ClaimDeliveries, EligibleDeliveries, Eligible, Due
<1>2. /\ DOMAIN deliveries' = DOMAIN deliveries /\ targets' = targets
      /\ \A d \in DOMAIN deliveries \ B : deliveries'[d] = deliveries[d]
  BY DEF ClaimDeliveries
<1>3. \A d \in DOMAIN deliveries : CauseSettled(d) => d \notin B
  BY <1>1 DEF CauseSettled
<1>4. \A d \in DOMAIN deliveries : CauseSettled(d) => CauseSettled(d)'
  BY <1>2, <1>3 DEF CauseSettled
<1> QED
  BY <1>1, <1>2, <1>4 DEF CauseStep

LEMMA PurgeCause ==
  ASSUME StoreInv, NEW E, PurgeExpired(E)
  PROVE  CauseStep
<1>1. /\ targets' = [t \in {x \in DOMAIN targets : x.event \notin E} |-> targets[t]]
      /\ deliveries' = [t \in {x \in DOMAIN deliveries : x.event \notin E} |-> deliveries[t]]
      /\ \A e \in E : Purgeable(e)
  BY DEF PurgeExpired
<1>2. ASSUME NEW t \in DOMAIN targets, NEW c \in targets[t].dep, c \in DOMAIN deliveries
      PROVE  c \in DOMAIN deliveries'
  <2>1. c \in DOMAIN targets
    BY <1>2 DEF StoreInv, StoreTypeOK
  <2>2. c.event \notin E
    BY <1>1, <1>2, <2>1 DEF Purgeable
  <2> QED
    BY <1>1, <1>2, <2>2
<1>3. \A d \in DOMAIN deliveries \cap DOMAIN deliveries' : deliveries'[d] = deliveries[d]
  BY <1>1
<1>4. \A d \in DOMAIN deliveries \cap DOMAIN deliveries' : CauseSettled(d) => CauseSettled(d)'
  BY <1>3 DEF CauseSettled
<1>5. \A t \in DOMAIN targets \cap DOMAIN targets' : targets'[t].dep = targets[t].dep
  BY <1>1
<1> QED
  BY <1>1, <1>2, <1>3, <1>4, <1>5 DEF CauseStep

LEMMA ClaimFanoutCause ==
  ASSUME StoreInv, NEW B, NEW owner, ClaimFanoutTargets(B, owner)
  PROVE  CauseStep
<1>1. \A x \in Target : [x EXCEPT !.owner = owner, !.lease = Lease].dep = x.dep
  BY DEF Target
<1>2. \A t \in DOMAIN targets : targets'[t].dep = targets[t].dep
  BY <1>1 DEF ClaimFanoutTargets, StoreInv, StoreTypeOK
<1> QED
  BY <1>2, QuietCause DEF ClaimFanoutTargets

-----------------------------------------------------------------------------
(* The system *)

LEMMA CauseStepHolds ==
  ASSUME TypeInv, AuditInv, [Next]_vars
  PROVE  CauseStep
<1> USE DEF TypeInv
<1>1. CASE Administer
  <2>1. ASSUME NEW s, NEW g, NEW f, Create(s, g, f) \/ Prepare(s, g, f) PROVE CauseStep
    BY <2>1, UntouchedCause DEF Create, Prepare, CreateSubscription
  <2>2. ASSUME NEW g, CancelProvisioning(g) PROVE CauseStep
    BY <2>2, UntouchedCause DEF CancelProvisioning, CancelPendingSubscriptions
  <2>3. ASSUME NEW g \in Groups, NEW c \in EventInput, NEW i \in EventInput, Finalize(g, c, i)
        PROVE  CauseStep
    BY <2>3, FinalizeCause DEF Finalize
  <2>4. ASSUME NEW a, NEW s, LoadSubscription(a, s) \/ DropDraft(a) PROVE CauseStep
    BY <2>4, UntouchedCause DEF LoadSubscription, DropDraft, storeVars
  <2>5. ASSUME NEW a, NEW st, NEW f, NEW r, NEW p, Patch(a, st, f, r, p) \/ Delete(a)
        PROVE  CauseStep
    BY <2>5, ReplaceRevisionCause DEF Patch, Delete
  <2>6. ASSUME NEW d, NEW q, Skip(d) \/ Replay(d, q) PROVE CauseStep
    BY <2>6, SkipCause, ReplayCause DEF Skip, Replay
  <2> QED
    BY <1>1, <2>1, <2>2, <2>3, <2>4, <2>5, <2>6 DEF Administer
<1>2. ASSUME NEW in \in EventInput, Produce(in) PROVE CauseStep
  BY <1>2, AppendEventCause DEF Produce
<1>3. ASSUME NEW g, DeleteGroup(g) PROVE CauseStep
  BY <1>3, GroupDeletionCause DEF DeleteGroup
<1>4. ASSUME NEW w, FanOut(w) \/ CrashFanout(w) PROVE CauseStep
  BY <1>4, UntouchedCause, ClaimFanoutCause, MaterializeCause
     DEF FanOut, CrashFanout, ClaimTargets, Materialize, FailMaterialize, storeVars
<1>5. ASSUME NEW w, Dispatch(w) \/ CrashDispatch(w) PROVE CauseStep
  <2>1. ASSUME NEW k, DisableSubscription(w, k) PROVE CauseStep
    BY <2>1, UntouchedCause, ReplaceRevisionCause DEF DisableSubscription, storeVars
  <2>2. ASSUME NEW k, Complete(w, k) PROVE CauseStep
    BY <2>2, CompleteCause DEF Complete
  <2>3. ASSUME NEW k, Heartbeat(w, k) PROVE CauseStep
    BY <2>3, RenewCause DEF Heartbeat
  <2>4. CASE ClaimWork(w)
    BY <2>4, ClaimDeliveriesCause DEF ClaimWork
  <2> QED
    BY <1>5, <2>1, <2>2, <2>3, <2>4, UntouchedCause
       DEF Dispatch, CrashDispatch, Respond, ReadForDisable, DropTask, storeVars
<1>6. CASE Tick
  BY <1>6, TickCause DEF Tick
<1>7. ASSUME NEW e, RetentionEnds(e) PROVE CauseStep
  BY <1>7, UntouchedCause DEF RetentionEnds, RetentionElapses
<1>8. CASE Purge
  BY <1>8, PurgeCause DEF Purge
<1>9. CASE UNCHANGED vars
  BY <1>9, UntouchedCause DEF vars
<1> QED
  BY <1>1, <1>2, <1>3, <1>4, <1>5, <1>6, <1>7, <1>8, <1>9 DEF Next

\* delivery_dependency_satisfied holds for every delivery that was ever attempted,
\* at all times: neither purges, replays, skips nor late completions take a cause
\* back from under its effect.
THEOREM CauseBeforeEffectAlways == Spec => []CauseBeforeEffect
<1>1. Init => CauseBeforeEffect
  BY DEF Init, StoreInit, CauseBeforeEffect
<1>2. TypeInv /\ AuditInv /\ CauseBeforeEffect /\ [Next]_vars => CauseBeforeEffect'
  <2>1. SUFFICES ASSUME TypeInv, AuditInv, CauseBeforeEffect, [Next]_vars
                 PROVE  CauseBeforeEffect'
    OBVIOUS
  <2>2. StoreInv /\ StoreInv' /\ CauseStep
    BY <2>1, TypeInvStep, CauseStepHolds DEF TypeInv
  <2> QED
    BY <2>1, <2>2, CauseStepSuffices
<1> QED
  BY <1>1, <1>2, AuditInvAlways, PTL DEF Spec
=============================================================================
