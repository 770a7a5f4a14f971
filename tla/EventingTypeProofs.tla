------------------------- MODULE EventingTypeProofs -------------------------
(***************************************************************************)
(* Type correctness of Eventing, for every value of the constants.  TypeOK *)
(* is not inductive alone: a replay reads the subscription and the event   *)
(* of the delivery it replays, and a dispatch task the subscription of its *)
(* delivery, so these must be known to exist (StoreInv, CallersInv).       *)
(* There is one lemma per repository operation; the callers' lemmas cite   *)
(* them.                                                                   *)
(***************************************************************************)
EXTENDS Eventing, WellFoundedInduction, TLAPS

\* Every target belongs to a subscription and to an event that exist.
StoreInv ==
  /\ StoreTypeOK
  /\ \A t \in DOMAIN targets : t.sub \in DOMAIN subs /\ t.event \in DOMAIN events

\* What every repository call keeps; subscriptions are never removed.
StorePreserved ==
  /\ StoreInv'
  /\ DOMAIN subs \subseteq DOMAIN subs'

LEMMA Zeros ==
  /\ 0 \in 0..Lease /\ Lease \in 0..Lease
  /\ 0 \in 0..MaxDelay /\ 0 \in 0..MaxClaims /\ 0 \in 0..MaxReplays /\ 0 \in 0..MaxEvents
  /\ 1 \in Revisions
BY ConstantsOK DEF Revisions

LEMMA NewTargetType ==
  ASSUME NEW a \in EventIds, NEW dep \in SUBSET TargetId, NEW of \in SUBSET TargetId,
         NEW q \in SUBSET Requests
  PROVE  NewTarget(a, dep, of, q) \in Target
BY Zeros DEF NewTarget, Target

LEMMA IdTypes ==
  ASSUME NEW e \in EventIds, NEW s \in Subs, NEW r \in Revisions, NEW n \in 0..MaxReplays
  PROVE  /\ NormalId(e, s, r) \in TargetId
         /\ CauseId(e, s, r) \in TargetId
         /\ ReplayId(e, s, r, n) \in TargetId
         /\ NormalId(e, s, r).sub = s /\ NormalId(e, s, r).event = e
         /\ CauseId(e, s, r).sub = s /\ CauseId(e, s, r).event = e
         /\ ReplayId(e, s, r, n).sub = s /\ ReplayId(e, s, r, n).event = e
BY ConstantsOK DEF NormalId, CauseId, ReplayId, TargetId, Purposes

LEMMA MoveType ==
  ASSUME StoreTypeOK, NEW d \in DOMAIN deliveries, NEW st \in DeliveryStatus,
         NEW wait \in 0..MaxDelay
  PROVE  Move(d, st, wait) \in Delivery /\ Move(d, st, wait).count = deliveries[d].count
<1>1. deliveries[d] \in Delivery
  BY DEF StoreTypeOK
<1> QED
  BY <1>1, Zeros DEF Move, Delivery

LEMMA CancelDeliveriesType ==
  ASSUME StoreTypeOK, NEW D
  PROVE  /\ DOMAIN CancelDeliveries(D) = DOMAIN deliveries
         /\ \A d \in DOMAIN deliveries :
              CancelDeliveries(D)[d] \in Delivery /\ CancelDeliveries(D)[d].count = deliveries[d].count
<1>1. "cancelled" \in DeliveryStatus /\ 0 \in 0..MaxDelay
  BY ConstantsOK DEF DeliveryStatus
<1>2. \A d \in DOMAIN deliveries : Move(d, "cancelled", 0) \in Delivery
                                   /\ Move(d, "cancelled", 0).count = deliveries[d].count
  BY <1>1, MoveType
<1> QED
  BY <1>2 DEF CancelDeliveries, StoreTypeOK

LEMMA CancelTargetsType ==
  ASSUME StoreTypeOK, NEW T
  PROVE  /\ DOMAIN CancelTargets(T) = DOMAIN targets
         /\ \A t \in DOMAIN targets : CancelTargets(T)[t] \in Target
<1>1. \A t \in DOMAIN targets : targets[t] \in Target
  BY DEF StoreTypeOK
<1>2. \A x \in Target : [x EXCEPT !.status = "cancelled", !.owner = NoOwner, !.lease = 0] \in Target
  BY Zeros DEF Target
<1> QED
  BY <1>1, <1>2 DEF CancelTargets

LEMMA SettleFanoutType ==
  ASSUME NEW es, NEW ts, NEW E, \A e \in DOMAIN es : es[e] \in Event
  PROVE  /\ DOMAIN SettleFanout(es, ts, E) = DOMAIN es
         /\ \A e \in DOMAIN es : SettleFanout(es, ts, E)[e] \in Event
BY DEF SettleFanout, Event

LEMMA ReopenFanoutType ==
  ASSUME NEW es, NEW E, \A e \in DOMAIN es : es[e] \in Event
  PROVE  /\ DOMAIN ReopenFanout(es, E) = DOMAIN es
         /\ \A e \in DOMAIN es : ReopenFanout(es, E)[e] \in Event
BY DEF ReopenFanout, Event

-----------------------------------------------------------------------------
(* Appending *)

LogOK(log) ==
  /\ log.appended \in 0..MaxEvents
  /\ DOMAIN log.events \subseteq 1..log.appended
  /\ \A e \in DOMAIN log.events : log.events[e] \in Event
  /\ log.sequences \in [Streams -> 0..log.appended]
  /\ DOMAIN log.targets \subseteq TargetId
  /\ \A t \in DOMAIN log.targets :
       log.targets[t] \in Target /\ t.sub \in DOMAIN subs /\ t.event \in DOMAIN log.events

LEMMA ResolveCauseType ==
  ASSUME NEW ts, NEW es, NEW cause \in Causes, NEW s \in Subs, NEW r \in Revisions,
         DOMAIN ts \subseteq TargetId
  PROVE  ResolveCause(ts, es, cause, s, r) \in SUBSET {t \in TargetId : t.sub = s /\ t.event \in cause}
<1>1. SUFFICES ASSUME NEW c \in cause
               PROVE  LET live == LiveTargets(ts, c, s, r)
                          again == ReplaysAnswering(live)
                      IN (IF es[c].type \notin FilterOf(s, r) THEN {}
                          ELSE IF NormalId(c, s, r) \in live THEN {NormalId(c, s, r)}
                          ELSE IF CauseId(c, s, r) \in live THEN {CauseId(c, s, r)}
                          ELSE IF again # {} THEN {CHOOSE t \in again : TRUE}
                          ELSE {CauseId(c, s, r)}) \in SUBSET {t \in TargetId : t.sub = s /\ t.event \in cause}
  BY DEF ResolveCause
<1>2. c \in EventIds
  BY DEF Causes
<1>3. {NormalId(c, s, r)} \in SUBSET {t \in TargetId : t.sub = s /\ t.event \in cause}
      /\ {CauseId(c, s, r)} \in SUBSET {t \in TargetId : t.sub = s /\ t.event \in cause}
  BY <1>2, Zeros, IdTypes
<1> DEFINE again == ReplaysAnswering(LiveTargets(ts, c, s, r))
<1>4. again \subseteq {t \in TargetId : t.sub = s /\ t.event \in cause}
  BY DEF ReplaysAnswering, LiveTargets
<1>5. again # {} => (CHOOSE t \in again : TRUE) \in again
  OBVIOUS
<1> HIDE DEF again
<1>6. again # {} => {CHOOSE t \in again : TRUE} \in SUBSET {t \in TargetId : t.sub = s /\ t.event \in cause}
  BY <1>4, <1>5
<1> QED
  BY <1>3, <1>6 DEF again

LEMMA MatchingType ==
  ASSUME StoreTypeOK, NEW A \in SUBSET DOMAIN subs, NEW in, NEW s \in Matching(A, in)
  PROVE  s \in DOMAIN subs /\ s \in Subs /\ subs[s].revision \in Revisions
BY DEF Matching, StoreTypeOK, Subscription

LEMMA AppendType ==
  ASSUME StoreTypeOK, NEW log, LogOK(log), NEW A \in SUBSET DOMAIN subs,
         NEW in \in EventInput, CanAppend(log, A, in)
  PROVE  /\ LogOK(AppendTo(log, A, in))
         /\ DOMAIN log.targets \subseteq DOMAIN AppendTo(log, A, in).targets
         /\ ~Deduplicated(log, in) => AppendTo(log, A, in).appended \in EventIds
<1>1. CASE Deduplicated(log, in)
  BY <1>1 DEF AppendTo
<1>2. CASE ~Deduplicated(log, in)
  <2> DEFINE e == log.appended + 1
             M == Matching(A, in)
             normal == {NormalId(e, s, subs[s].revision) : s \in M}
             prerequisite == (UNION {DependsOn(log, in, s) : s \in M}) \ DOMAIN log.targets
             seq == NextSequence(log, in.stream)
             record == [group |-> in.group, stream |-> in.stream, seq |-> seq,
                        type |-> in.type, key |-> in.key, cause |-> in.cause,
                        fanout |-> IF M = {} THEN "completed" ELSE "pending",
                        expired |-> FALSE]
             reopened == ReopenFanout(log.events, {t.event : t \in prerequisite})
             new == AppendTo(log, A, in)
  <2>1. /\ new.appended = e
        /\ new.events = [x \in DOMAIN log.events \cup {e} |->
                           IF x = e THEN record ELSE reopened[x]]
        /\ new.sequences = [log.sequences EXCEPT ![in.stream] = seq]
        /\ new.targets = [t \in DOMAIN log.targets \cup normal \cup prerequisite |->
                            IF t \in normal THEN NewTarget(e, DependsOn(log, in, t.sub), {}, {})
                            ELSE IF t \in prerequisite THEN NewTarget(e, {}, {}, {})
                            ELSE log.targets[t]]
    BY <1>2 DEF AppendTo
  <2>2. e \in EventIds /\ log.appended \in Nat /\ e \in 0..MaxEvents
        /\ 0..log.appended \subseteq 0..e /\ 1..log.appended \subseteq 1..e
    BY <1>2, ConstantsOK DEF CanAppend, LogOK, EventIds
  <2>3. seq \in 1..e /\ seq \in 0..e /\ seq \in EventIds
    BY <2>2, ConstantsOK DEF NextSequence, LogOK, EventInput, EventIds
  <2>4. record \in Event
    BY <2>3 DEF EventInput, Event
  <2>5. DOMAIN reopened = DOMAIN log.events /\ \A x \in DOMAIN log.events : reopened[x] \in Event
    BY ReopenFanoutType DEF LogOK
  <2>6. \A s \in M : /\ s \in DOMAIN subs
                     /\ NormalId(e, s, subs[s].revision) \in TargetId
                     /\ NormalId(e, s, subs[s].revision).sub = s
                     /\ NormalId(e, s, subs[s].revision).event = e
                     /\ DependsOn(log, in, s)
                          \in SUBSET {t \in TargetId : t.sub = s /\ t.event \in in.cause}
    BY <2>2, MatchingType, IdTypes, Zeros, ResolveCauseType DEF DependsOn, LogOK, EventInput
  <2>7. \A t \in normal : /\ t \in TargetId /\ t.sub \in DOMAIN subs /\ t.event = e
                          /\ DependsOn(log, in, t.sub) \in SUBSET TargetId
    BY <2>6
  <2>8. \A t \in prerequisite : /\ t \in TargetId /\ t.sub \in DOMAIN subs
                                /\ t.event \in DOMAIN log.events
    <3>1. in.cause \subseteq DOMAIN log.events
      BY <1>2 DEF CanAppend
    <3> QED
      BY <2>6, <3>1
  <2>9. /\ \A t \in normal : NewTarget(e, DependsOn(log, in, t.sub), {}, {}) \in Target
        /\ NewTarget(e, {}, {}, {}) \in Target
    BY <2>2, <2>7, NewTargetType
  <2> HIDE DEF e, M, normal, prerequisite, seq, record, reopened, new
  <2>10. /\ DOMAIN new.events \subseteq 1..e
         /\ \A x \in DOMAIN new.events : new.events[x] \in Event
    <3>1. e \in 1..e
      BY <2>2 DEF EventIds
    <3> QED
      BY <2>1, <2>2, <2>4, <2>5, <3>1 DEF LogOK
  <2>11. new.sequences \in [Streams -> 0..e]
    BY <2>1, <2>2, <2>3 DEF LogOK, EventInput
  <2>12. /\ DOMAIN new.targets \subseteq TargetId
         /\ \A t \in DOMAIN new.targets :
              new.targets[t] \in Target /\ t.sub \in DOMAIN subs /\ t.event \in DOMAIN new.events
         /\ DOMAIN log.targets \subseteq DOMAIN new.targets
    BY <2>1, <2>7, <2>8, <2>9 DEF LogOK
  <2> QED
    BY <2>1, <2>2, <2>10, <2>11, <2>12 DEF LogOK, new
<1> QED
  BY <1>1, <1>2

LEMMA LogIsOK ==
  ASSUME StoreInv
  PROVE  LogOK(Log)
BY DEF StoreInv, StoreTypeOK, LogOK, Log

LEMMA BecomesLogType ==
  ASSUME StoreInv, NEW log, LogOK(log), BecomesLog(log),
         DOMAIN targets \subseteq DOMAIN log.targets,
         groups' \in [Groups -> {"provisioning", "active", "deleted"}],
         DOMAIN subs' = DOMAIN subs,
         \A s \in DOMAIN subs' : subs'[s] \in Subscription
                                 /\ Len(subs'[s].revisions) = subs'[s].revision,
         UNCHANGED <<deliveries, attempts, replays>>
  PROVE  StorePreserved
BY DEF StoreInv, StorePreserved, StoreTypeOK, LogOK, BecomesLog

LEMMA AppendEventType ==
  ASSUME StoreInv, NEW in \in EventInput, AppendEvent(in)
  PROVE  StorePreserved
<1>1. ActiveSubs \in SUBSET DOMAIN subs
  BY DEF ActiveSubs
<1>2. LogOK(Log) /\ StoreTypeOK /\ CanAppend(Log, ActiveSubs, in)
  BY LogIsOK DEF StoreInv, AppendEvent
<1>3. /\ LogOK(AppendTo(Log, ActiveSubs, in))
      /\ DOMAIN Log.targets \subseteq DOMAIN AppendTo(Log, ActiveSubs, in).targets
  BY <1>1, <1>2, AppendType
<1>4. Log.targets = targets
  BY DEF Log
<1> QED
  BY <1>3, <1>4, BecomesLogType DEF AppendEvent, StoreInv, StoreTypeOK

LEMMA Minimum ==
  ASSUME NEW S \in SUBSET Nat, S # {}
  PROVE  \E m \in S : \A x \in S : m <= x
<1>1. PICK m \in S : \A x \in S : ~(<<x, m>> \in OpToRel(<, Nat))
  BY NatLessThanWellFounded, WFMin
<1>2. \A x \in S : ~(x < m)
  BY <1>1 DEF OpToRel
<1> QED
  BY <1>2

LEMMA BackfillType ==
  ASSUME StoreInv, NEW S \in SUBSET DOMAIN subs, NEW g \in Groups, BackfillCausesStored(S, g)
  PROVE  LogOK(Backfill(S, g)) /\ DOMAIN targets \subseteq DOMAIN Backfill(S, g).targets
<1> DEFINE added == Missed(S, g) \ DOMAIN targets
           with == [t \in DOMAIN targets \cup added |->
                      IF t \in added THEN NewTarget(t.event, {}, {}, {}) ELSE targets[t]]
           dep(t) == ResolveCause(with, events, events[t.event].cause, t.sub, t.rev)
           prerequisite == (UNION {dep(t) : t \in added}) \ DOMAIN with
           dependents(c) == {t.event : t \in {x \in added : c \in dep(x)}}
           first(c) == CHOOSE a \in dependents(c) : \A t \in added : c \in dep(t) => a <= t.event
           new == Backfill(S, g)
<1>1. /\ new.events = ReopenFanout(events, {t.event : t \in added \cup prerequisite})
      /\ new.targets = [t \in DOMAIN with \cup prerequisite |->
                          IF t \in added THEN NewTarget(t.event, dep(t), {}, {})
                          ELSE IF t \in prerequisite THEN NewTarget(first(t), {}, {}, {})
                          ELSE targets[t]]
      /\ new.sequences = sequences /\ new.appended = appended
  BY DEF Backfill
<1>2. \A t \in added : /\ t \in TargetId /\ t.event \in DOMAIN events /\ t.event \in EventIds
                       /\ t.sub \in S /\ t.sub \in Subs /\ t.rev \in Revisions
  <2>1. SUFFICES ASSUME NEW e \in DOMAIN events, NEW s \in S
                 PROVE  LET t == NormalId(e, s, subs[s].revision)
                        IN /\ t \in TargetId /\ t.event \in DOMAIN events /\ t.event \in EventIds
                           /\ t.sub \in S /\ t.sub \in Subs /\ t.rev \in Revisions
    BY DEF Missed
  <2>2. e \in EventIds /\ s \in Subs /\ subs[s].revision \in Revisions
    BY ConstantsOK DEF StoreInv, StoreTypeOK, Subscription, EventIds
  <2> QED
    BY <2>2, Zeros, IdTypes DEF TargetId
<1>3. DOMAIN with = DOMAIN targets \cup added /\ DOMAIN with \subseteq TargetId
  BY <1>2 DEF StoreInv, StoreTypeOK
<1>4. \A t \in added : dep(t) \in SUBSET {x \in TargetId : x.sub = t.sub /\ x.event \in DOMAIN events}
  <2>1. \A t \in added : events[t.event].cause \in Causes
    BY <1>2 DEF StoreInv, StoreTypeOK, Event
  <2>2. \A t \in added : events[t.event].cause \subseteq DOMAIN events
    BY DEF BackfillCausesStored
  <2> HIDE DEF added, with
  <2> QED
    BY <1>2, <1>3, <2>1, <2>2, ResolveCauseType
<1> HIDE DEF added, with, dep
<1>5. \A c \in prerequisite : /\ c \in TargetId /\ c.sub \in DOMAIN subs
                              /\ c.event \in DOMAIN events /\ first(c) \in EventIds
  <2>1. TAKE c \in prerequisite
  <2>2. PICK t \in added : c \in dep(t)
    OBVIOUS
  <2>3. dependents(c) # {} /\ dependents(c) \in SUBSET Nat /\ dependents(c) \subseteq EventIds
    BY <1>2, <2>2, ConstantsOK DEF EventIds
  <2>4. \E a \in dependents(c) : \A x \in dependents(c) : a <= x
    <3> HIDE DEF dependents
    <3> QED BY <2>3, Minimum
  <2>5. \E a \in dependents(c) : \A x \in added : c \in dep(x) => a <= x.event
    BY <2>4
  <2>6. first(c) \in dependents(c)
    <3> HIDE DEF dependents
    <3> QED BY <2>5
  <2> QED
    BY <1>2, <1>4, <2>2, <2>3, <2>6
<1> HIDE DEF prerequisite, first, new
<1>6. /\ \A t \in added : NewTarget(t.event, dep(t), {}, {}) \in Target
      /\ \A t \in prerequisite : NewTarget(first(t), {}, {}, {}) \in Target
  BY <1>2, <1>4, <1>5, NewTargetType
<1>7. /\ DOMAIN new.targets \subseteq TargetId /\ DOMAIN targets \subseteq DOMAIN new.targets
      /\ \A t \in DOMAIN new.targets :
           new.targets[t] \in Target /\ t.sub \in DOMAIN subs /\ t.event \in DOMAIN events
  BY <1>1, <1>2, <1>3, <1>5, <1>6 DEF StoreInv, StoreTypeOK
<1>8. DOMAIN new.events = DOMAIN events /\ \A e \in DOMAIN events : new.events[e] \in Event
  BY <1>1, ReopenFanoutType DEF StoreInv, StoreTypeOK
<1> QED
  BY <1>1, <1>7, <1>8 DEF LogOK, StoreInv, StoreTypeOK, new

-----------------------------------------------------------------------------
(* Subscriptions and groups *)

LEMMA CreateSubscriptionType ==
  ASSUME StoreInv, NEW s \in Subs, NEW g \in Groups, NEW f \in Filters,
         NEW status \in SubscriptionStatus, CreateSubscription(s, g, f, status)
  PROVE  StorePreserved
<1> DEFINE new == [group |-> g, status |-> status, revision |-> 1, since |-> appended,
                   revisions |-> <<[filter |-> f, endpoint |-> 1]>>]
<1>1. new \in Subscription /\ Len(new.revisions) = new.revision
  BY Zeros DEF Subscription, Revision, StoreInv, StoreTypeOK
<1>2. DOMAIN subs' = DOMAIN subs \cup {s}
      /\ \A x \in DOMAIN subs' : subs'[x] = IF x = s THEN new ELSE subs[x]
  BY DEF CreateSubscription
<1> HIDE DEF new
<1>3. \A x \in DOMAIN subs' : subs'[x] \in Subscription /\ Len(subs'[x].revisions) = subs'[x].revision
  BY <1>1, <1>2 DEF StoreInv, StoreTypeOK
<1> QED
  BY <1>2, <1>3 DEF CreateSubscription, StoreInv, StorePreserved, StoreTypeOK

LEMMA StatusType ==
  ASSUME StoreTypeOK, NEW s \in DOMAIN subs, NEW st \in SubscriptionStatus
  PROVE  /\ [subs[s] EXCEPT !.status = st] \in Subscription
         /\ Len([subs[s] EXCEPT !.status = st].revisions) = [subs[s] EXCEPT !.status = st].revision
<1>1. subs[s] \in Subscription /\ Len(subs[s].revisions) = subs[s].revision
  BY DEF StoreTypeOK
<1> QED
  BY <1>1 DEF Subscription

LEMMA CancelPendingType ==
  ASSUME StoreInv, NEW g \in Groups, CancelPendingSubscriptions(g)
  PROVE  StorePreserved
<1>1. "deleted" \in SubscriptionStatus
  BY DEF SubscriptionStatus
<1>2. DOMAIN subs' = DOMAIN subs /\ \A s \in DOMAIN subs' : subs'[s] \in Subscription
                                              /\ Len(subs'[s].revisions) = subs'[s].revision
  BY <1>1, StatusType DEF CancelPendingSubscriptions, StoreInv, StoreTypeOK
<1> QED
  BY <1>2 DEF CancelPendingSubscriptions, StoreInv, StorePreserved, StoreTypeOK

\* What withdrawing the work in W leaves well typed.
LEMMA WithdrawType ==
  ASSUME StoreInv, NEW W,
         targets' = CancelTargets(W), deliveries' = CancelDeliveries(W),
         events' = SettleFanout(events, CancelTargets(W), {t.event : t \in W}),
         groups' \in [Groups -> {"provisioning", "active", "deleted"}],
         DOMAIN subs' = DOMAIN subs,
         \A s \in DOMAIN subs' : subs'[s] \in Subscription
                                 /\ Len(subs'[s].revisions) = subs'[s].revision,
         UNCHANGED <<appended, sequences, attempts, replays>>
  PROVE  StorePreserved
<1>1. DOMAIN targets' = DOMAIN targets /\ \A t \in DOMAIN targets : targets'[t] \in Target
  BY CancelTargetsType DEF StoreInv
<1>2. DOMAIN deliveries' = DOMAIN deliveries
      /\ \A d \in DOMAIN deliveries : deliveries'[d] \in Delivery
                                       /\ deliveries'[d].count = deliveries[d].count
  BY CancelDeliveriesType DEF StoreInv
<1>3. DOMAIN events' = DOMAIN events /\ \A e \in DOMAIN events : events'[e] \in Event
  BY SettleFanoutType DEF StoreInv, StoreTypeOK
<1> QED
  BY <1>1, <1>2, <1>3 DEF StoreInv, StorePreserved, StoreTypeOK

LEMMA ReplaceRevisionType ==
  ASSUME StoreInv, NEW s, NEW r, NEW status \in SubscriptionStatus,
         NEW f, NEW endpoint, NEW cancel,
         ReplaceRevision(s, r, status, f, endpoint, cancel),
         f \in Filters, endpoint \in Revisions
  PROVE  StorePreserved
<1> DEFINE W == IF cancel
                THEN {t \in DOMAIN targets : t.sub = s /\ (status \in {"disabled", "deleted"} \/ t.rev = r)}
                ELSE {}
<1>1. /\ targets' = CancelTargets(W) /\ deliveries' = CancelDeliveries(W)
      /\ events' = SettleFanout(events, CancelTargets(W), {t.event : t \in W})
      /\ UNCHANGED <<groups, appended, sequences, attempts, replays>>
  BY DEF ReplaceRevision
<1>2. /\ s \in DOMAIN subs /\ subs[s].revision = r /\ r < MaxRevision
      /\ subs' = [subs EXCEPT ![s].status = status, ![s].revision = r + 1,
                    ![s].revisions = Append(@, [filter |-> f, endpoint |-> endpoint])]
  BY DEF ReplaceRevision
<1>3. subs[s] \in Subscription /\ Len(subs[s].revisions) = r
  BY <1>2 DEF StoreInv, StoreTypeOK
<1>4. [filter |-> f, endpoint |-> endpoint] \in Revision
  BY DEF Revision
<1> DEFINE new == [subs[s] EXCEPT !.status = status, !.revision = r + 1,
                     !.revisions = Append(@, [filter |-> f, endpoint |-> endpoint])]
<1>5. subs'[s] = new /\ DOMAIN subs' = DOMAIN subs
      /\ \A x \in DOMAIN subs : x # s => subs'[x] = subs[x]
  BY <1>2
<1>6. r + 1 \in Revisions
  BY <1>2, <1>3, ConstantsOK DEF Subscription, Revisions
<1>7. subs[s].revisions \in Seq(Revision)
  BY <1>3 DEF Subscription
<1>8. /\ Append(subs[s].revisions, [filter |-> f, endpoint |-> endpoint]) \in Seq(Revision)
      /\ Len(Append(subs[s].revisions, [filter |-> f, endpoint |-> endpoint])) = r + 1
  BY <1>3, <1>4, <1>7
<1>9. new \in Subscription /\ Len(new.revisions) = new.revision
  BY <1>3, <1>6, <1>8 DEF Subscription
<1>10. \A x \in DOMAIN subs' : subs'[x] \in Subscription /\ Len(subs'[x].revisions) = subs'[x].revision
  BY <1>5, <1>9 DEF StoreInv, StoreTypeOK
<1> HIDE DEF W, new
<1> QED
  BY <1>1, <1>5, <1>10, WithdrawType DEF StoreInv, StoreTypeOK

LEMMA GroupDeletionType ==
  ASSUME StoreInv, NEW g \in Groups, CommitGroupDeletion(g)
  PROVE  StorePreserved
<1> DEFINE S == {s \in ActiveSubs : subs[s].group = g}
           W == {t \in DOMAIN targets : t.sub \in S}
<1>1. /\ targets' = CancelTargets(W) /\ deliveries' = CancelDeliveries(W)
      /\ events' = SettleFanout(events, CancelTargets(W), {t.event : t \in W})
      /\ UNCHANGED <<appended, sequences, attempts, replays>>
      /\ groups' = [groups EXCEPT ![g] = "deleted"]
      /\ subs' = [s \in DOMAIN subs |->
                    IF s \in S THEN [subs[s] EXCEPT !.status = "disabled"] ELSE subs[s]]
  BY DEF CommitGroupDeletion
<1>2. "disabled" \in SubscriptionStatus
  BY DEF SubscriptionStatus
<1>3. DOMAIN subs' = DOMAIN subs /\ \A s \in DOMAIN subs' : subs'[s] \in Subscription
                                              /\ Len(subs'[s].revisions) = subs'[s].revision
  BY <1>1, <1>2, StatusType DEF StoreInv, StoreTypeOK
<1>4. groups' \in [Groups -> {"provisioning", "active", "deleted"}]
  BY <1>1 DEF StoreInv, StoreTypeOK
<1> HIDE DEF W
<1> QED
  BY <1>1, <1>3, <1>4, WithdrawType

LEMMA FinalizeType ==
  ASSUME StoreInv, NEW g \in Groups, NEW created \in EventInput, NEW session \in EventInput,
         FinalizeGroupProvisioning(g, created, session)
  PROVE  StorePreserved
<1> DEFINE S == PendingSubs(g)
           A == ActiveSubs \cup S
           log1 == Backfill(S, g)
           log2 == AppendTo(log1, A, created)
           caused == [session EXCEPT !.cause = {log2.appended}]
           log3 == AppendTo(log2, A, caused)
<1>1. S \in SUBSET DOMAIN subs /\ A \in SUBSET DOMAIN subs /\ StoreTypeOK
  BY DEF PendingSubs, ActiveSubs, StoreInv
<1>2. LogOK(log1) /\ DOMAIN targets \subseteq DOMAIN log1.targets
  <2>1. BackfillCausesStored(S, g)
    BY DEF FinalizeGroupProvisioning
  <2> QED
    BY <1>1, <2>1, BackfillType
<1>3. ~Deduplicated(log1, created) /\ CanAppend(log1, A, created)
  BY DEF FinalizeGroupProvisioning
<1>4. LogOK(log2) /\ DOMAIN log1.targets \subseteq DOMAIN log2.targets /\ log2.appended \in EventIds
  BY <1>1, <1>2, <1>3, AppendType
<1>5. caused \in EventInput
  BY <1>4 DEF EventInput, Causes
<1>6. CanAppend(log2, A, caused) => LogOK(log3) /\ DOMAIN log2.targets \subseteq DOMAIN log3.targets
  BY <1>1, <1>4, <1>5, AppendType
<1>7. "active" \in SubscriptionStatus
  BY DEF SubscriptionStatus
<1>8. /\ groups' = [groups EXCEPT ![g] = "active"]
      /\ subs' = [s \in DOMAIN subs |->
                    IF s \in S THEN [subs[s] EXCEPT !.status = "active"] ELSE subs[s]]
      /\ UNCHANGED <<deliveries, attempts, replays>>
      /\ BecomesLog(log2) \/ (CanAppend(log2, A, caused) /\ BecomesLog(log3))
  BY DEF FinalizeGroupProvisioning
<1>9. DOMAIN subs' = DOMAIN subs /\ \A s \in DOMAIN subs' : subs'[s] \in Subscription
                                              /\ Len(subs'[s].revisions) = subs'[s].revision
  BY <1>7, <1>8, StatusType DEF StoreInv, StoreTypeOK
<1>10. groups' \in [Groups -> {"provisioning", "active", "deleted"}]
  BY <1>8 DEF StoreInv, StoreTypeOK
<1> HIDE DEF log1, log2, log3, caused, S, A
<1>11. CASE BecomesLog(log2)
  BY <1>2, <1>4, <1>8, <1>9, <1>10, <1>11, BecomesLogType
<1>12. CASE CanAppend(log2, A, caused) /\ BecomesLog(log3)
  BY <1>2, <1>4, <1>6, <1>8, <1>9, <1>10, <1>12, BecomesLogType
<1> QED
  BY <1>8, <1>11, <1>12

-----------------------------------------------------------------------------
(* Fanout and dispatch *)

LEMMA ClaimFanoutTargetsType ==
  ASSUME StoreInv, NEW B, NEW owner \in Owners, ClaimFanoutTargets(B, owner)
  PROVE  StorePreserved
<1>1. \A x \in Target : [x EXCEPT !.owner = owner, !.lease = Lease] \in Target
  BY Zeros DEF Target
<1>2. DOMAIN targets' = DOMAIN targets /\ \A t \in DOMAIN targets : targets'[t] \in Target
  BY <1>1 DEF ClaimFanoutTargets, StoreInv, StoreTypeOK
<1> QED
  BY <1>2 DEF ClaimFanoutTargets, StoreInv, StorePreserved, StoreTypeOK

LEMMA MaterializeType ==
  ASSUME StoreInv, NEW t, NEW owner, NEW status \in {"pending", "dead_lettered"},
         MaterializeFanoutTarget(t, owner, status)
  PROVE  StorePreserved
<1> DEFINE ts == [targets EXCEPT ![t].status = "materialized", ![t].owner = NoOwner, ![t].lease = 0]
           new == [status |-> status, count |-> 0, owner |-> NoOwner,
                   lease |-> 0, wait |-> 0, resolved |-> {}]
<1>1. t \in DOMAIN targets /\ t \notin DOMAIN deliveries
  BY DEF MaterializeFanoutTarget, HoldsTarget
<1>2. \A x \in Target : [x EXCEPT !.status = "materialized", !.owner = NoOwner, !.lease = 0] \in Target
  BY Zeros DEF Target
<1>3. DOMAIN ts = DOMAIN targets /\ \A x \in DOMAIN targets : ts[x] \in Target
  BY <1>1, <1>2 DEF StoreInv, StoreTypeOK
<1>4. new \in Delivery /\ new.count = 0
  BY Zeros DEF Delivery, DeliveryStatus
<1>5. << >> \in [1..0 -> AttemptResult]
  OBVIOUS
<1>6. /\ targets' = ts /\ events' = SettleFanout(events, ts, {t.event})
      /\ deliveries' = [d \in DOMAIN deliveries \cup {t} |-> IF d = t THEN new ELSE deliveries[d]]
      /\ attempts' = [d \in DOMAIN attempts \cup {t} |-> IF d = t THEN << >> ELSE attempts[d]]
      /\ UNCHANGED <<groups, subs, appended, sequences, replays>>
  BY DEF MaterializeFanoutTarget
<1>7. DOMAIN events' = DOMAIN events /\ \A e \in DOMAIN events : events'[e] \in Event
  BY <1>6, SettleFanoutType DEF StoreInv, StoreTypeOK
<1> HIDE DEF ts, new
<1>8. /\ DOMAIN deliveries' = DOMAIN deliveries \cup {t} /\ DOMAIN attempts' = DOMAIN deliveries'
      /\ \A d \in DOMAIN deliveries' :
           /\ deliveries'[d] \in Delivery
           /\ attempts'[d] \in [1..deliveries'[d].count -> AttemptResult]
  BY <1>1, <1>4, <1>5, <1>6 DEF StoreInv, StoreTypeOK
<1> QED
  BY <1>1, <1>3, <1>6, <1>7, <1>8 DEF StoreInv, StorePreserved, StoreTypeOK

LEMMA NextAttemptsType ==
  ASSUME StoreTypeOK, NEW d \in DOMAIN deliveries
  PROVE  NextAttempts(d) \in [1..(deliveries[d].count + 1) -> AttemptResult]
<1>1. deliveries[d].count \in Nat
  BY ConstantsOK DEF StoreTypeOK, Delivery
<1>2. attempts[d] \in [1..deliveries[d].count -> AttemptResult]
  BY DEF StoreTypeOK
<1> QED
  BY <1>1, <1>2 DEF NextAttempts, AttemptResult

LEMMA ClaimDeliveriesType ==
  ASSUME StoreInv, NEW B, NEW owner \in Owners, ClaimDeliveries(B, owner)
  PROVE  StorePreserved
<1>1. B \subseteq DOMAIN deliveries
  BY DEF ClaimDeliveries, EligibleDeliveries
<1>2. /\ deliveries' = [d \in DOMAIN deliveries |->
                          IF d \in B THEN [deliveries[d] EXCEPT
                                             !.status = "in_flight", !.count = @ + 1,
                                             !.owner = owner, !.lease = Lease, !.wait = 0]
                          ELSE deliveries[d]]
      /\ attempts' = [d \in DOMAIN attempts |-> IF d \in B THEN NextAttempts(d) ELSE attempts[d]]
      /\ \A d \in B : deliveries[d].count < MaxClaims
      /\ UNCHANGED <<groups, subs, events, appended, sequences, targets, replays>>
  BY DEF ClaimDeliveries
<1>3. \A x \in Delivery : x.count < MaxClaims =>
        LET y == [x EXCEPT !.status = "in_flight", !.count = @ + 1,
                           !.owner = owner, !.lease = Lease, !.wait = 0]
        IN y \in Delivery /\ y.count = x.count + 1
  <2>1. TAKE x \in Delivery
  <2>2. HAVE x.count < MaxClaims
  <2>3. x.count + 1 \in 0..MaxClaims
    BY <2>2, ConstantsOK DEF Delivery
  <2> QED
    BY <2>3, Zeros DEF Delivery, DeliveryStatus
<1>4. \A d \in DOMAIN deliveries : deliveries[d] \in Delivery
  BY DEF StoreInv, StoreTypeOK
<1>5. \A d \in B : deliveries'[d] \in Delivery /\ deliveries'[d].count = deliveries[d].count + 1
  BY <1>1, <1>2, <1>3, <1>4
<1>6. \A d \in DOMAIN deliveries \ B : deliveries'[d] = deliveries[d] /\ attempts'[d] = attempts[d]
  BY <1>2 DEF StoreInv, StoreTypeOK
<1>7. \A d \in B : attempts'[d] \in [1..(deliveries[d].count + 1) -> AttemptResult]
  BY <1>1, <1>2, NextAttemptsType DEF StoreInv, StoreTypeOK
<1>8. DOMAIN deliveries' = DOMAIN deliveries /\ DOMAIN attempts' = DOMAIN attempts
  BY <1>2
<1>9. \A d \in DOMAIN deliveries' :
        deliveries'[d] \in Delivery /\ attempts'[d] \in [1..deliveries'[d].count -> AttemptResult]
  BY <1>4, <1>5, <1>6, <1>7, <1>8 DEF StoreInv, StoreTypeOK
<1> QED
  BY <1>2, <1>8, <1>9 DEF StoreInv, StorePreserved, StoreTypeOK

LEMMA RenewType ==
  ASSUME StoreInv, NEW d, NEW owner, NEW n, RenewDeliveryLease(d, owner, n)
  PROVE  StorePreserved
<1>1. d \in DOMAIN deliveries
  BY DEF RenewDeliveryLease, HoldsDelivery
<1>2. \A x \in Delivery : [x EXCEPT !.lease = Lease] \in Delivery
                          /\ [x EXCEPT !.lease = Lease].count = x.count
  BY Zeros DEF Delivery
<1>3. DOMAIN deliveries' = DOMAIN deliveries
      /\ \A x \in DOMAIN deliveries : deliveries'[x] \in Delivery
                                       /\ deliveries'[x].count = deliveries[x].count
  BY <1>1, <1>2 DEF RenewDeliveryLease, StoreInv, StoreTypeOK
<1> QED
  BY <1>3 DEF RenewDeliveryLease, StoreInv, StorePreserved, StoreTypeOK

LEMMA CompleteType ==
  ASSUME StoreInv, NEW d, NEW owner, NEW n, NEW result \in AttemptResult,
         NEW status \in DeliveryStatus, NEW wait \in 0..MaxDelay,
         CompleteDeliveryAttempt(d, owner, n, result, status, wait)
  PROVE  StorePreserved
<1>1. d \in DOMAIN deliveries /\ DOMAIN attempts = DOMAIN deliveries
  BY DEF CompleteDeliveryAttempt, HoldsDelivery, StoreInv, StoreTypeOK
<1>2. Move(d, status, wait) \in Delivery /\ Move(d, status, wait).count = deliveries[d].count
  BY <1>1, MoveType DEF StoreInv
<1>3. \A x \in DOMAIN deliveries : deliveries[x] \in Delivery
  BY DEF StoreInv, StoreTypeOK
<1>4. \A x \in Delivery : d \in TargetId =>
        [x EXCEPT !.resolved = {d}] \in Delivery /\ [x EXCEPT !.resolved = {d}].count = x.count
  BY DEF Delivery
<1>5. d \in TargetId
  BY <1>1 DEF StoreInv, StoreTypeOK
<1>6. DOMAIN deliveries' = DOMAIN deliveries
      /\ \A x \in DOMAIN deliveries : deliveries'[x] \in Delivery
                                       /\ deliveries'[x].count = deliveries[x].count
  BY <1>2, <1>3, <1>4, <1>5 DEF CompleteDeliveryAttempt
<1>7. DOMAIN attempts' = DOMAIN attempts
      /\ \A x \in DOMAIN attempts : attempts'[x] \in [1..deliveries[x].count -> AttemptResult]
  <2>1. attempts' = [attempts EXCEPT ![d] = [@ EXCEPT ![n] = result]]
    BY DEF CompleteDeliveryAttempt
  <2>2. \A x \in DOMAIN attempts : attempts[x] \in [1..deliveries[x].count -> AttemptResult]
    BY DEF StoreInv, StoreTypeOK
  <2>3. [attempts[d] EXCEPT ![n] = result] \in [1..deliveries[d].count -> AttemptResult]
    BY <1>1, <2>2
  <2> QED
    BY <1>1, <2>1, <2>2, <2>3
<1> QED
  BY <1>1, <1>6, <1>7 DEF CompleteDeliveryAttempt, StoreInv, StorePreserved, StoreTypeOK

-----------------------------------------------------------------------------
(* Replay, skip, retention, time *)

LEMMA ReplayType ==
  ASSUME StoreInv, NEW d \in DOMAIN deliveries, NEW q \in Requests, CreateReplayTarget(d, q)
  PROVE  StorePreserved
<1> DEFINE r == subs[d.sub].revision
           dep == ResolveCause(targets, events, events[d.event].cause, d.sub, r)
           prerequisite == dep \ DOMAIN targets
           id == ReplayId(d.event, d.sub, r, replays + 1)
<1>1. d \in TargetId /\ d.sub \in DOMAIN subs /\ d.sub \in Subs /\ d.event \in EventIds
  BY DEF StoreInv, StoreTypeOK, TargetId
<1>2. r \in Revisions
  BY <1>1 DEF StoreInv, StoreTypeOK, Subscription
<1>3. replays + 1 \in 0..MaxReplays
  BY ConstantsOK DEF CreateReplayTarget, StoreInv, StoreTypeOK
<1>4. id \in TargetId /\ id.sub = d.sub
  BY <1>1, <1>2, <1>3, IdTypes
<1>5. /\ targets' = [t \in DOMAIN targets \cup prerequisite \cup {id} |->
                       IF t = id THEN NewTarget(appended, dep, {d}, {q})
                       ELSE IF t \in prerequisite THEN NewTarget(appended, {}, {}, {})
                       ELSE targets[t]]
      /\ events' = ReopenFanout(events, {d.event} \cup {t.event : t \in prerequisite})
      /\ replays' = replays + 1
      /\ UNCHANGED <<groups, subs, appended, sequences, deliveries, attempts>>
  BY DEF CreateReplayTarget
<1>6. DOMAIN events' = DOMAIN events /\ \A e \in DOMAIN events : events'[e] \in Event
  BY <1>5, ReopenFanoutType DEF StoreInv, StoreTypeOK
<1>7. /\ d.event \in DOMAIN events /\ events[d.event].cause \in Causes
      /\ events[d.event].cause \subseteq DOMAIN events
  BY DEF StoreInv, StoreTypeOK, Event, CreateReplayTarget
<1>8. appended \in EventIds
  BY <1>7, ConstantsOK DEF StoreInv, StoreTypeOK, EventIds
<1>9. dep \in SUBSET {t \in TargetId : t.sub = d.sub /\ t.event \in events[d.event].cause}
  BY <1>1, <1>2, <1>7, ResolveCauseType DEF StoreInv, StoreTypeOK
<1>10. id.event = d.event
  BY <1>1, <1>2, <1>3, IdTypes
<1> HIDE DEF dep, id
<1>11. NewTarget(appended, dep, {d}, {q}) \in Target /\ NewTarget(appended, {}, {}, {}) \in Target
  BY <1>1, <1>8, <1>9, NewTargetType
<1>12. /\ DOMAIN targets' \subseteq TargetId /\ DOMAIN targets \subseteq DOMAIN targets'
       /\ \A t \in DOMAIN targets' :
            targets'[t] \in Target /\ t.sub \in DOMAIN subs /\ t.event \in DOMAIN events
  BY <1>1, <1>4, <1>5, <1>7, <1>9, <1>10, <1>11 DEF StoreInv, StoreTypeOK
<1> QED
  BY <1>3, <1>5, <1>6, <1>12 DEF StoreInv, StorePreserved, StoreTypeOK

LEMMA SkipType ==
  ASSUME StoreInv, NEW d, SkipDeadLetteredDelivery(d)
  PROVE  StorePreserved
<1> DEFINE ds == CancelDeliveries(ReplaysOf(d))
<1>1. d \in DOMAIN deliveries
  BY DEF SkipDeadLetteredDelivery, UnresolvedDeadLetter
<1>2. DOMAIN ds = DOMAIN deliveries
      /\ \A x \in DOMAIN deliveries : ds[x] \in Delivery /\ ds[x].count = deliveries[x].count
  BY CancelDeliveriesType DEF StoreInv
<1>3. \A x \in Delivery : [x EXCEPT !.status = "skipped"] \in Delivery
                          /\ [x EXCEPT !.status = "skipped"].count = x.count
  BY DEF Delivery, DeliveryStatus
<1>4. /\ deliveries' = [ds EXCEPT ![d].status = "skipped"]
      /\ targets' = CancelTargets(ReplaysOf(d))
      /\ UNCHANGED <<groups, subs, events, appended, sequences, attempts, replays>>
  BY DEF SkipDeadLetteredDelivery
<1> HIDE DEF ds
<1>5. DOMAIN deliveries' = DOMAIN deliveries
      /\ \A x \in DOMAIN deliveries : deliveries'[x] \in Delivery
                                       /\ deliveries'[x].count = deliveries[x].count
  BY <1>1, <1>2, <1>3, <1>4
<1>6. DOMAIN targets' = DOMAIN targets /\ \A t \in DOMAIN targets : targets'[t] \in Target
  BY <1>4, CancelTargetsType DEF StoreInv
<1> QED
  BY <1>4, <1>5, <1>6 DEF StoreInv, StorePreserved, StoreTypeOK

LEMMA PurgeType ==
  ASSUME StoreInv, NEW E, PurgeExpired(E)
  PROVE  StorePreserved
BY DEF PurgeExpired, StoreInv, StorePreserved, StoreTypeOK

LEMMA TickType ==
  ASSUME StoreInv, ClockTick
  PROVE  StorePreserved
<1>1. /\ \A n \in 0..Lease : Dec(n) \in 0..Lease
      /\ \A n \in 0..MaxDelay : Dec(n) \in 0..MaxDelay
  BY ConstantsOK DEF Dec
<1>2. \A x \in Target : [x EXCEPT !.lease = Dec(@)] \in Target
  BY <1>1 DEF Target
<1>3. \A x \in Delivery : [x EXCEPT !.lease = Dec(@), !.wait = Dec(@)] \in Delivery
                          /\ [x EXCEPT !.lease = Dec(@), !.wait = Dec(@)].count = x.count
  BY <1>1 DEF Delivery
<1>4. DOMAIN targets' = DOMAIN targets /\ \A t \in DOMAIN targets : targets'[t] \in Target
  BY <1>2 DEF ClockTick, StoreInv, StoreTypeOK
<1>5. DOMAIN deliveries' = DOMAIN deliveries
      /\ \A x \in DOMAIN deliveries : deliveries'[x] \in Delivery
                                       /\ deliveries'[x].count = deliveries[x].count
  BY <1>3 DEF ClockTick, StoreInv, StoreTypeOK
<1> QED
  BY <1>4, <1>5 DEF ClockTick, StoreInv, StorePreserved, StoreTypeOK

LEMMA RetentionType ==
  ASSUME StoreInv, NEW e, RetentionElapses(e)
  PROVE  StorePreserved
<1>1. \A x \in Event : [x EXCEPT !.expired = TRUE] \in Event
  BY DEF Event
<1>2. DOMAIN events' = DOMAIN events /\ \A x \in DOMAIN events : events'[x] \in Event
  BY <1>1 DEF RetentionElapses, StoreInv, StoreTypeOK
<1> QED
  BY <1>2 DEF RetentionElapses, StoreInv, StorePreserved, StoreTypeOK

-----------------------------------------------------------------------------
(* The callers *)

\* What workers and administrators remember is well typed, and the tasks of the
\* dispatch workers belong to subscriptions that exist.
CallersInv ==
  /\ drafts \in [Admins -> SUBSET Draft]
  /\ batches \in [FanoutWorkers -> Batch]
  /\ tasks \in [DispatchWorkers -> SUBSET Task]
  /\ \A w \in DispatchWorkers : \A k \in tasks[w] : k.id.sub \in DOMAIN subs
  /\ faults \in 0..MaxFaults

\* TypeOK made inductive.
TypeInv == StoreInv /\ CallersInv

LEMMA StoreUnchanged ==
  ASSUME StoreInv, UNCHANGED storeVars
  PROVE  StorePreserved
BY DEF storeVars, StoreInv, StorePreserved, StoreTypeOK

LEMMA CallersUnchanged ==
  ASSUME CallersInv, UNCHANGED workerVars, StorePreserved
  PROVE  CallersInv'
BY DEF workerVars, StorePreserved, CallersInv

LEMMA FaultType ==
  ASSUME CallersInv, Fault
  PROVE  faults' \in 0..MaxFaults
BY EventingConstantsOK DEF CallersInv, Fault

LEMMA CurrentRevision ==
  ASSUME StoreInv, NEW s \in DOMAIN subs
  PROVE  subs[s].revisions[subs[s].revision] \in Revision /\ subs[s].revision \in Revisions
<1>1. subs[s] \in Subscription /\ Len(subs[s].revisions) = subs[s].revision
  BY DEF StoreInv, StoreTypeOK
<1>2. subs[s].revisions \in Seq(Revision) /\ subs[s].revision \in Revisions
  BY <1>1 DEF Subscription
<1>3. subs[s].revision \in 1..Len(subs[s].revisions)
  BY <1>1, <1>2, ConstantsOK DEF Revisions
<1> QED
  BY <1>2, <1>3

LEMMA PatchType ==
  ASSUME TypeInv, NEW a \in Admins, NEW st \in SubscriptionStatus, NEW f \in Filters,
         NEW retarget \in BOOLEAN, NEW tighten \in BOOLEAN, Patch(a, st, f, retarget, tighten)
  PROVE  TypeInv'
<1>1. PICK c \in drafts[a] :
        /\ ReplaceRevision(c.sub, c.revision, st, f,
              IF retarget THEN c.revision + 1 ELSE subs[c.sub].revisions[c.revision].endpoint,
              retarget \/ tighten \/ st \in {"disabled", "deleted"})
        /\ drafts' = [drafts EXCEPT ![a] = {}]
        /\ UNCHANGED <<batches, tasks, faults>>
  BY DEF Patch
<1>2. c.sub \in DOMAIN subs /\ subs[c.sub].revision = c.revision /\ c.revision < MaxRevision
  BY <1>1 DEF ReplaceRevision
<1>3. subs[c.sub].revisions[c.revision] \in Revision /\ c.revision \in Revisions
  BY <1>2, CurrentRevision DEF TypeInv
<1>4. c.revision + 1 \in Revisions /\ subs[c.sub].revisions[c.revision].endpoint \in Revisions
  BY <1>2, <1>3, ConstantsOK DEF Revision, Revisions
<1>5. StorePreserved
  <2> DEFINE endpoint == IF retarget THEN c.revision + 1 ELSE subs[c.sub].revisions[c.revision].endpoint
             cancel == retarget \/ tighten \/ st \in {"disabled", "deleted"}
  <2>1. endpoint \in Revisions /\ ReplaceRevision(c.sub, c.revision, st, f, endpoint, cancel)
    BY <1>1, <1>4
  <2> HIDE DEF endpoint, cancel
  <2> QED
    BY <2>1, ReplaceRevisionType DEF TypeInv
<1> QED
  BY <1>1, <1>5 DEF TypeInv, CallersInv, StorePreserved

LEMMA DeleteType ==
  ASSUME TypeInv, NEW a \in Admins, Delete(a)
  PROVE  TypeInv'
<1>1. PICK c \in drafts[a] :
        /\ ReplaceRevision(c.sub, c.revision, "deleted", subs[c.sub].revisions[c.revision].filter,
                           subs[c.sub].revisions[c.revision].endpoint, TRUE)
        /\ drafts' = [drafts EXCEPT ![a] = {}]
        /\ UNCHANGED <<batches, tasks, faults>>
  BY DEF Delete
<1>2. c.sub \in DOMAIN subs /\ subs[c.sub].revision = c.revision
  BY <1>1 DEF ReplaceRevision
<1>3. subs[c.sub].revisions[c.revision] \in Revision
  BY <1>2, CurrentRevision DEF TypeInv
<1>4. StorePreserved
  <2>1. /\ subs[c.sub].revisions[c.revision].filter \in Filters
        /\ subs[c.sub].revisions[c.revision].endpoint \in Revisions
        /\ "deleted" \in SubscriptionStatus
    BY <1>3 DEF Revision, SubscriptionStatus
  <2> QED
    BY <1>1, <2>1, ReplaceRevisionType DEF TypeInv
<1> QED
  BY <1>1, <1>4 DEF TypeInv, CallersInv, StorePreserved

LEMMA AdministerType ==
  ASSUME TypeInv, Administer
  PROVE  TypeInv'
<1>1. ASSUME NEW s \in Subs, NEW g \in Groups, NEW f \in Filters,
             Create(s, g, f) \/ Prepare(s, g, f)
      PROVE  TypeInv'
  <2>1. "active" \in SubscriptionStatus /\ "pending" \in SubscriptionStatus
    BY DEF SubscriptionStatus
  <2>2. StorePreserved /\ UNCHANGED workerVars
    BY <1>1, <2>1, CreateSubscriptionType DEF Create, Prepare, TypeInv
  <2> QED
    BY <2>2, CallersUnchanged DEF TypeInv, StorePreserved
<1>2. ASSUME NEW g \in Groups, CancelProvisioning(g)
      PROVE  TypeInv'
  BY <1>2, CancelPendingType, CallersUnchanged DEF CancelProvisioning, TypeInv, StorePreserved
<1>3. ASSUME NEW g \in Groups, NEW c \in EventInput, NEW i \in EventInput, Finalize(g, c, i)
      PROVE  TypeInv'
  BY <1>3, FinalizeType, CallersUnchanged DEF Finalize, TypeInv, StorePreserved
<1>4. ASSUME NEW a \in Admins, NEW s \in Subs, LoadSubscription(a, s)
      PROVE  TypeInv'
  <2> DEFINE c == [sub |-> s, revision |-> subs[s].revision, status |-> subs[s].status]
  <2>1. s \in DOMAIN subs /\ drafts' = [drafts EXCEPT ![a] = {c}]
        /\ UNCHANGED <<storeVars, batches, tasks, faults>>
    BY <1>4 DEF LoadSubscription
  <2>2. c \in Draft
    BY <2>1 DEF Draft, TypeInv, StoreInv, StoreTypeOK, Subscription
  <2>3. StorePreserved
    BY <2>1, StoreUnchanged DEF TypeInv
  <2> HIDE DEF c
  <2> QED
    BY <2>1, <2>2, <2>3 DEF TypeInv, CallersInv, StorePreserved
<1>5. ASSUME NEW a \in Admins, DropDraft(a)
      PROVE  TypeInv'
  <2>1. StorePreserved
    BY <1>5, StoreUnchanged DEF DropDraft, TypeInv
  <2> QED
    BY <1>5, <2>1 DEF DropDraft, TypeInv, CallersInv, StorePreserved
<1>6. ASSUME NEW d \in DOMAIN deliveries, Skip(d)
      PROVE  TypeInv'
  BY <1>6, SkipType, CallersUnchanged DEF Skip, TypeInv, StorePreserved
<1>7. ASSUME NEW d \in DOMAIN deliveries, NEW q \in Requests, Replay(d, q)
      PROVE  TypeInv'
  BY <1>7, ReplayType, CallersUnchanged DEF Replay, TypeInv, StorePreserved
<1> QED
  BY <1>1, <1>2, <1>3, <1>4, <1>5, <1>6, <1>7, PatchType, DeleteType DEF Administer

LEMMA ClaimOwnerType ==
  ASSUME FreshOwners # {}
  PROVE  ClaimOwner \in Owners
BY DEF ClaimOwner, FreshOwners

LEMMA FanOutType ==
  ASSUME TypeInv, NEW w \in FanoutWorkers, FanOut(w) \/ CrashFanout(w)
  PROVE  TypeInv'
<1>1. Idle \in Batch
  BY DEF Idle, Batch
<1>2. \A t : BatchWithout(w, t) \in Batch
  BY <1>1 DEF BatchWithout, Batch, TypeInv, CallersInv
<1>3. CASE ClaimTargets(w)
  <2>1. PICK B \in SUBSET ClaimableTargets :
          /\ ClaimFanoutTargets(B, ClaimOwner)
          /\ batches' = [batches EXCEPT ![w] = [owner |-> ClaimOwner, todo |-> B]]
    BY <1>3 DEF ClaimTargets
  <2>2. ClaimOwner \in Owners
    BY <1>3, ClaimOwnerType DEF ClaimTargets
  <2>3. StorePreserved
    BY <2>1, <2>2, ClaimFanoutTargetsType DEF TypeInv
  <2>4. [owner |-> ClaimOwner, todo |-> B] \in Batch
    BY <2>2 DEF ClaimableTargets, Batch, TypeInv, StoreInv, StoreTypeOK
  <2> QED
    BY <1>3, <2>1, <2>3, <2>4 DEF ClaimTargets, TypeInv, CallersInv, StorePreserved
<1>4. ASSUME NEW t, NEW st \in {"pending", "dead_lettered"}, Materialize(w, t, st)
      PROVE  TypeInv'
  <2>1. StorePreserved
    BY <1>4, MaterializeType DEF Materialize, TypeInv
  <2> QED
    BY <1>2, <1>4, <2>1 DEF Materialize, TypeInv, CallersInv, StorePreserved
<1>5. ASSUME NEW t, FailMaterialize(w, t)
      PROVE  TypeInv'
  <2>1. StorePreserved
    BY <1>5, StoreUnchanged DEF FailMaterialize, TypeInv
  <2>2. faults' \in 0..MaxFaults
    BY <1>5, FaultType DEF FailMaterialize, TypeInv, CallersInv
  <2> QED
    BY <1>2, <1>5, <2>1, <2>2 DEF FailMaterialize, TypeInv, CallersInv, StorePreserved
<1>6. CASE CrashFanout(w)
  <2>1. StorePreserved /\ faults' \in 0..MaxFaults
    BY <1>6, StoreUnchanged, FaultType DEF CrashFanout, TypeInv
  <2> QED
    BY <1>1, <1>6, <2>1 DEF CrashFanout, TypeInv, CallersInv, StorePreserved
<1> QED
  BY <1>3, <1>4, <1>5, <1>6 DEF FanOut

\* A task moves on or ends while the subscriptions stay known.
LEMMA TaskType ==
  ASSUME TypeInv, StorePreserved, NEW w \in DispatchWorkers, NEW k \in tasks[w],
         NEW T \in SUBSET Task, \A x \in T : x.id = k.id,
         tasks' = [tasks EXCEPT ![w] = (@ \ {k}) \cup T],
         drafts' = drafts, batches' = batches, faults' \in 0..MaxFaults
  PROVE  TypeInv'
<1>1. k.id.sub \in DOMAIN subs
  BY DEF TypeInv, CallersInv
<1>2. tasks' \in [DispatchWorkers -> SUBSET Task]
  BY DEF TypeInv, CallersInv
<1>3. \A v \in DispatchWorkers : \A x \in tasks'[v] : x.id.sub \in DOMAIN subs
  BY <1>1 DEF TypeInv, CallersInv
<1> QED
  BY <1>2, <1>3 DEF TypeInv, CallersInv, StorePreserved

LEMMA AdvanceType ==
  ASSUME TypeInv, StorePreserved, NEW w \in DispatchWorkers, NEW k \in tasks[w],
         NEW stage \in {"success", "retryable", "terminal", "gone", "disable"},
         NEW rev \in 0..MaxRevision, Advance(w, k, stage, rev),
         UNCHANGED <<drafts, batches>>, faults' \in 0..MaxFaults
  PROVE  TypeInv'
<1> DEFINE next == [k EXCEPT !.stage = stage, !.rev = rev]
<1>1. k \in Task
  BY DEF TypeInv, CallersInv
<1>2. next \in Task /\ next.id = k.id
  BY <1>1 DEF Task
<1>3. tasks' = [tasks EXCEPT ![w] = (@ \ {k}) \cup {next}]
  BY DEF Advance
<1> HIDE DEF next
<1>4. {next} \in SUBSET Task /\ \A x \in {next} : x.id = k.id
  BY <1>2
<1> QED
  BY <1>3, <1>4, TaskType DEF TypeInv, CallersInv

LEMMA FinishType ==
  ASSUME TypeInv, StorePreserved, NEW w \in DispatchWorkers, NEW k \in tasks[w],
         Finish(w, k), drafts' = drafts, batches' = batches, faults' \in 0..MaxFaults
  PROVE  TypeInv'
<1> DEFINE none == {}
<1>1. tasks' = [tasks EXCEPT ![w] = (@ \ {k}) \cup none]
  BY DEF Finish, TypeInv, CallersInv
<1>2. none \in SUBSET Task /\ \A x \in none : x.id = k.id
  OBVIOUS
<1> HIDE DEF none
<1> QED
  BY <1>1, <1>2, TaskType

LEMMA NextStatesType ==
  ASSUME NEW k, NEW next \in NextStates(k)
  PROVE  next[1] \in {"succeeded", "retry_wait", "dead_lettered"} /\ next[2] \in 0..MaxDelay
BY ConstantsOK DEF NextStates

LEMMA DispatchType ==
  ASSUME TypeInv, NEW w \in DispatchWorkers, Dispatch(w) \/ CrashDispatch(w)
  PROVE  TypeInv'
<1>1. CASE ClaimWork(w)
  <2>1. PICK B \in SUBSET EligibleDeliveries :
          /\ ClaimDeliveries(B, ClaimOwner)
          /\ tasks' = [tasks EXCEPT ![w] =
               {[id |-> d, owner |-> ClaimOwner, attempt |-> deliveries[d].count + 1,
                 stage |-> "send", rev |-> 0] : d \in B}]
    BY <1>1 DEF ClaimWork
  <2>2. ClaimOwner \in Owners
    BY <1>1, ClaimOwnerType DEF ClaimWork
  <2>3. StorePreserved
    BY <2>1, <2>2, ClaimDeliveriesType DEF TypeInv
  <2>4. \A d \in B : /\ d \in TargetId /\ d.sub \in DOMAIN subs
                     /\ deliveries[d].count + 1 \in 1..MaxClaims
    <3>1. \A d \in B : d \in DOMAIN deliveries /\ deliveries[d].count < MaxClaims
      BY <2>1 DEF EligibleDeliveries, ClaimDeliveries
    <3> QED
      BY <3>1, ConstantsOK DEF TypeInv, StoreInv, StoreTypeOK, Delivery
  <2>5. \A d \in B : [id |-> d, owner |-> ClaimOwner, attempt |-> deliveries[d].count + 1,
                      stage |-> "send", rev |-> 0] \in Task
    BY <2>2, <2>4, ConstantsOK DEF Task
  <2> QED
    BY <1>1, <2>1, <2>3, <2>4, <2>5 DEF ClaimWork, TypeInv, CallersInv, StorePreserved
<1>2. ASSUME NEW k \in tasks[w], NEW o \in {"success", "retryable", "terminal", "gone"},
             Respond(w, k, o)
      PROVE  TypeInv'
  <2>1. StorePreserved
    BY <1>2, StoreUnchanged DEF Respond, TypeInv
  <2>2. 0 \in 0..MaxRevision
    BY ConstantsOK
  <2> QED
    BY <1>2, <2>1, <2>2, AdvanceType DEF Respond, TypeInv, CallersInv
<1>3. ASSUME NEW k \in tasks[w], ReadForDisable(w, k)
      PROVE  TypeInv'
  <2>1. StorePreserved
    BY <1>3, StoreUnchanged DEF ReadForDisable, TypeInv
  <2>2. 0 \in 0..MaxRevision /\ Revisions \subseteq 0..MaxRevision
    BY ConstantsOK DEF Revisions
  <2>3. subs[k.id.sub].revision \in 0..MaxRevision
    BY <2>2, CurrentRevision DEF TypeInv, CallersInv
  <2>4. faults' \in 0..MaxFaults
    BY <1>3, FaultType DEF ReadForDisable, TypeInv, CallersInv
  <2> QED
    BY <1>3, <2>1, <2>2, <2>3, <2>4, AdvanceType DEF ReadForDisable
<1>4. ASSUME NEW k \in tasks[w], DisableSubscription(w, k)
      PROVE  TypeInv'
  <2> DEFINE s == k.id.sub
             old == subs[s].revisions[k.rev]
  <2>0. UNCHANGED <<drafts, batches>> /\ (UNCHANGED faults \/ Fault)
    BY <1>4, Zenon DEF DisableSubscription
  <2>1. 0 \in 0..MaxRevision /\ UNCHANGED <<drafts, batches>> /\ faults' \in 0..MaxFaults
    BY <2>0, ConstantsOK, FaultType DEF TypeInv, CallersInv
  <2>2. CASE ReplaceRevision(s, k.rev, "disabled", old.filter, old.endpoint, TRUE)
             /\ Advance(w, k, "terminal", 0)
    <3>1. s \in DOMAIN subs /\ subs[s].revision = k.rev
      BY <2>2 DEF ReplaceRevision
    <3>2. old \in Revision
      BY <3>1, CurrentRevision DEF TypeInv
    <3>3. old.filter \in Filters /\ old.endpoint \in Revisions /\ "disabled" \in SubscriptionStatus
      BY <3>2 DEF Revision, SubscriptionStatus
    <3> HIDE DEF s, old
    <3>4. StorePreserved
      BY <2>2, <3>3, ReplaceRevisionType DEF TypeInv
    <3> QED
      BY <2>1, <2>2, <3>4, AdvanceType
  <2>3. CASE Advance(w, k, "retryable", 0) /\ UNCHANGED storeVars
    <3>1. StorePreserved
      BY <2>3, StoreUnchanged DEF TypeInv
    <3> QED
      BY <2>1, <2>3, <3>1, AdvanceType
  <2> QED
    BY <1>4, <2>2, <2>3 DEF DisableSubscription
<1>5. ASSUME NEW k \in tasks[w], Complete(w, k)
      PROVE  TypeInv'
  <2>1. PICK next \in NextStates(k) :
          CompleteDeliveryAttempt(k.id, k.owner, k.attempt, k.stage, next[1], next[2])
    BY <1>5 DEF Complete
  <2>2. next[1] \in DeliveryStatus /\ next[2] \in 0..MaxDelay /\ k.stage \in AttemptResult
    BY <1>5, NextStatesType DEF Complete, DeliveryStatus, AttemptResult
  <2>3. StorePreserved
    BY <2>1, <2>2, CompleteType DEF TypeInv
  <2> QED
    BY <1>5, <2>3, FinishType DEF Complete, TypeInv, CallersInv
<1>6. ASSUME NEW k \in tasks[w], Heartbeat(w, k)
      PROVE  TypeInv'
  BY <1>6, RenewType, CallersUnchanged DEF Heartbeat, TypeInv, StorePreserved
<1>7. ASSUME NEW k \in tasks[w], DropTask(w, k)
      PROVE  TypeInv'
  <2>1. StorePreserved
    BY <1>7, StoreUnchanged DEF DropTask, TypeInv
  <2>2. faults' \in 0..MaxFaults
    BY <1>7, FaultType DEF DropTask, TypeInv, CallersInv
  <2> QED
    BY <1>7, <2>1, <2>2, FinishType DEF DropTask
<1>8. CASE CrashDispatch(w)
  <2>1. StorePreserved /\ faults' \in 0..MaxFaults
    BY <1>8, StoreUnchanged, FaultType DEF CrashDispatch, TypeInv
  <2> QED
    BY <1>8, <2>1 DEF CrashDispatch, TypeInv, CallersInv, StorePreserved
<1> QED
  BY <1>1, <1>2, <1>3, <1>4, <1>5, <1>6, <1>7, <1>8 DEF Dispatch

LEMMA TypeInvInit ==
  ASSUME Init
  PROVE  TypeInv
<1>1. StoreInv
  BY ConstantsOK DEF Init, StoreInit, StoreInv, StoreTypeOK
<1>2. CallersInv
  BY EventingConstantsOK DEF Init, CallersInv, Idle, Batch
<1> QED
  BY <1>1, <1>2 DEF TypeInv

LEMMA TypeInvStep ==
  ASSUME TypeInv, [Next]_vars
  PROVE  TypeInv'
<1>1. ASSUME NEW in \in EventInput, Produce(in)
      PROVE  TypeInv'
  BY <1>1, AppendEventType, CallersUnchanged DEF Produce, TypeInv, StorePreserved
<1>2. ASSUME NEW g \in Groups, DeleteGroup(g)
      PROVE  TypeInv'
  BY <1>2, GroupDeletionType, CallersUnchanged DEF DeleteGroup, TypeInv, StorePreserved
<1>3. CASE Tick
  <2>1. StorePreserved
    BY <1>3, TickType DEF Tick, TypeInv
  <2>2. faults' \in 0..MaxFaults
    BY <1>3, FaultType DEF Tick, TypeInv, CallersInv
  <2> QED
    BY <1>3, <2>1, <2>2 DEF Tick, TypeInv, CallersInv, StorePreserved
<1>4. ASSUME NEW e \in EventIds, RetentionEnds(e)
      PROVE  TypeInv'
  BY <1>4, RetentionType, CallersUnchanged DEF RetentionEnds, TypeInv, StorePreserved
<1>5. CASE Purge
  BY <1>5, PurgeType, CallersUnchanged DEF Purge, TypeInv, StorePreserved
<1>6. CASE UNCHANGED vars
  BY <1>6, StoreUnchanged, CallersUnchanged DEF vars, storeVars, workerVars, TypeInv, StorePreserved
<1> QED
  BY <1>1, <1>2, <1>3, <1>4, <1>5, <1>6, AdministerType, FanOutType, DispatchType DEF Next

LEMMA TypeInvAlways == Spec => []TypeInv
<1>1. Init => TypeInv
  BY TypeInvInit
<1>2. TypeInv /\ [Next]_vars => TypeInv'
  BY TypeInvStep
<1> QED
  BY <1>1, <1>2, PTL DEF Spec

\* In every behaviour all of the store, the administrators and the workers keep
\* their types, for any number of subscriptions, events, workers and faults.
THEOREM TypeCorrect == Spec => []TypeOK
<1>1. TypeInv => TypeOK
  BY DEF TypeInv, StoreInv, CallersInv, TypeOK
<1> QED
  BY <1>1, TypeInvAlways, PTL
=============================================================================
