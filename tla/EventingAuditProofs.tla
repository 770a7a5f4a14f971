------------------------ MODULE EventingAuditProofs -------------------------
(***************************************************************************)
(* The attempt audit and the ownership of deliveries, for every value of   *)
(* the constants: OneOpenAttempt, OwnedWhileInFlight, SettledIsFinal and   *)
(* AuditIsImmutable.  The two invariants are inductive together with       *)
(* TypeInv, once it is known that the number of a new replay is unused.    *)
(***************************************************************************)
EXTENDS EventingTypeProofs

AuditInv ==
  /\ OneOpenAttempt
  /\ OwnedWhileInFlight
  /\ \A t \in DOMAIN targets : t.n <= replays

\* What one step does to the deliveries it keeps.
StatusStep ==
  \A d \in DOMAIN deliveries \cap DOMAIN deliveries' :
    AttemptTerminal(deliveries[d].status) =>
      \/ deliveries'[d].status = deliveries[d].status
      \/ UnresolvedDeadLetter(d) /\ deliveries'[d].status = "skipped"

AuditStep ==
  \A d \in DOMAIN deliveries \cap DOMAIN deliveries' :
    /\ deliveries'[d].count \in {deliveries[d].count, deliveries[d].count + 1}
    /\ \A n \in 1..deliveries[d].count :
         attempts[d][n] # "open" => attempts'[d][n] = attempts[d][n]

AuditPreserved == AuditInv' /\ StatusStep /\ AuditStep

-----------------------------------------------------------------------------
(* Steps that leave the deliveries alone and only add pending targets *)

LEMMA QuietStep ==
  ASSUME StoreInv, AuditInv, UNCHANGED <<deliveries, attempts>>,
         DOMAIN targets \subseteq DOMAIN targets',
         \A t \in DOMAIN targets :
           targets'[t].status = "materialized" <=> targets[t].status = "materialized",
         \A t \in DOMAIN targets' \ DOMAIN targets : targets'[t].status = "pending",
         \A t \in DOMAIN targets' : t.n <= replays'
  PROVE  AuditPreserved
<1>1. DOMAIN deliveries \subseteq DOMAIN targets
  BY DEF StoreInv, StoreTypeOK
<1>2. OwnedWhileInFlight'
  BY <1>1 DEF AuditInv, OwnedWhileInFlight
<1>3. OneOpenAttempt'
  BY DEF AuditInv, OneOpenAttempt
<1>4. StatusStep /\ AuditStep
  BY DEF StatusStep, AuditStep
<1> QED
  BY <1>2, <1>3, <1>4 DEF AuditPreserved, AuditInv

LEMMA StoreUntouched ==
  ASSUME StoreInv, AuditInv, UNCHANGED <<deliveries, attempts, targets, replays>>
  PROVE  AuditPreserved
BY QuietStep DEF AuditInv

\* new adds pending targets to log and changes none of its targets.
OnlyAdds(log, new) ==
  /\ DOMAIN log.targets \subseteq DOMAIN new.targets
  /\ \A t \in DOMAIN log.targets : new.targets[t] = log.targets[t]
  /\ \A t \in DOMAIN new.targets \ DOMAIN log.targets :
       new.targets[t].status = "pending" /\ t.n = 0

LEMMA ResolveCauseNew ==
  ASSUME NEW ts, NEW es, NEW cause, NEW s, NEW r,
         NEW t \in ResolveCause(ts, es, cause, s, r), t \notin DOMAIN ts
  PROVE  t.n = 0
<1>1. PICK c \in cause :
        LET live == LiveTargets(ts, c, s, r)
            again == ReplaysAnswering(live)
        IN t \in (IF es[c].type \notin FilterOf(s, r) THEN {}
                  ELSE IF NormalId(c, s, r) \in live THEN {NormalId(c, s, r)}
                  ELSE IF CauseId(c, s, r) \in live THEN {CauseId(c, s, r)}
                  ELSE IF again # {} THEN {CHOOSE x \in again : TRUE}
                  ELSE {CauseId(c, s, r)})
  BY DEF ResolveCause
<1> DEFINE again == ReplaysAnswering(LiveTargets(ts, c, s, r))
<1>2. again \subseteq DOMAIN ts
  BY DEF ReplaysAnswering, LiveTargets
<1>3. again # {} => (CHOOSE x \in again : TRUE) \in again
  OBVIOUS
<1>4. NormalId(c, s, r).n = 0 /\ CauseId(c, s, r).n = 0
  BY DEF NormalId, CauseId
<1> HIDE DEF again
<1>5. again # {} => t # (CHOOSE x \in again : TRUE)
  BY <1>2, <1>3
<1> QED
  BY <1>1, <1>4, <1>5 DEF again

LEMMA AppendOnlyAdds ==
  ASSUME StoreTypeOK, NEW log, LogOK(log), NEW A \in SUBSET DOMAIN subs,
         NEW in \in EventInput, CanAppend(log, A, in)
  PROVE  OnlyAdds(log, AppendTo(log, A, in))
<1>1. CASE Deduplicated(log, in)
  BY <1>1 DEF AppendTo, OnlyAdds
<1>2. CASE ~Deduplicated(log, in)
  <2> DEFINE e == log.appended + 1
             M == Matching(A, in)
             normal == {NormalId(e, s, subs[s].revision) : s \in M}
             prerequisite == (UNION {DependsOn(log, in, s) : s \in M}) \ DOMAIN log.targets
             new == AppendTo(log, A, in)
  <2>1. new.targets = [t \in DOMAIN log.targets \cup normal \cup prerequisite |->
                         IF t \in normal THEN NewTarget(e, DependsOn(log, in, t.sub), {}, {})
                         ELSE IF t \in prerequisite THEN NewTarget(e, {}, {}, {})
                         ELSE log.targets[t]]
    BY <1>2 DEF AppendTo
  <2>2. \A t \in normal : t.event = e /\ t.n = 0
    BY DEF NormalId
  <2>3. e \notin DOMAIN log.events
    BY DEF LogOK
  <2>4. normal \cap DOMAIN log.targets = {}
    BY <2>2, <2>3 DEF LogOK
  <2>5. \A t \in prerequisite : t.n = 0 /\ t \notin DOMAIN log.targets
    BY ResolveCauseNew DEF DependsOn
  <2>6. \A dep : NewTarget(e, dep, {}, {}).status = "pending"
    BY DEF NewTarget
  <2> HIDE DEF e, normal, prerequisite, new
  <2> QED
    BY <2>1, <2>2, <2>4, <2>5, <2>6 DEF OnlyAdds, new
<1> QED
  BY <1>1, <1>2

LEMMA BackfillOnlyAdds ==
  ASSUME NEW S, NEW g
  PROVE  OnlyAdds(Log, Backfill(S, g))
<1> DEFINE added == Missed(S, g) \ DOMAIN targets
           with == [t \in DOMAIN targets \cup added |->
                      IF t \in added THEN NewTarget(t.event, {}, {}, {}) ELSE targets[t]]
           dep(t) == ResolveCause(with, events, events[t.event].cause, t.sub, t.rev)
           prerequisite == (UNION {dep(t) : t \in added}) \ DOMAIN with
           first(c) == CHOOSE a \in {t.event : t \in {x \in added : c \in dep(x)}} :
                         \A t \in added : c \in dep(t) => a <= t.event
           new == Backfill(S, g)
<1>1. new.targets = [t \in DOMAIN with \cup prerequisite |->
                       IF t \in added THEN NewTarget(t.event, dep(t), {}, {})
                       ELSE IF t \in prerequisite THEN NewTarget(first(t), {}, {}, {})
                       ELSE targets[t]]
  BY DEF Backfill
<1>2. \A t \in added : t.n = 0 /\ t \notin DOMAIN targets
  BY DEF Missed, NormalId
<1>3. DOMAIN with = DOMAIN targets \cup added
  OBVIOUS
<1>4. \A t \in prerequisite : t.n = 0 /\ t \notin DOMAIN targets
  <2> HIDE DEF with
  <2> QED
    BY <1>3, ResolveCauseNew
<1>5. \A a, d : NewTarget(a, d, {}, {}).status = "pending"
  BY DEF NewTarget
<1>6. Log.targets = targets
  BY DEF Log
<1> HIDE DEF added, with, dep, prerequisite, first, new
<1> QED
  BY <1>1, <1>2, <1>3, <1>4, <1>5, <1>6 DEF OnlyAdds, new

LEMMA OnlyAddsIsQuiet ==
  ASSUME StoreInv, AuditInv, NEW log, OnlyAdds(Log, log), BecomesLog(log),
         UNCHANGED <<deliveries, attempts, replays>>
  PROVE  AuditPreserved
<1>1. Log.targets = targets /\ targets' = log.targets
  BY DEF Log, BecomesLog
<1>2. 0 <= replays
  BY ConstantsOK DEF StoreInv, StoreTypeOK
<1>3. \A t \in DOMAIN targets' : t.n <= replays'
  BY <1>1, <1>2 DEF OnlyAdds, AuditInv
<1> QED
  BY <1>1, <1>3, QuietStep DEF OnlyAdds

LEMMA AppendEventAudit ==
  ASSUME StoreInv, AuditInv, NEW in \in EventInput, AppendEvent(in)
  PROVE  AuditPreserved
<1>1. ActiveSubs \in SUBSET DOMAIN subs /\ LogOK(Log) /\ StoreTypeOK
  BY LogIsOK DEF ActiveSubs, StoreInv
<1>2. OnlyAdds(Log, AppendTo(Log, ActiveSubs, in))
  BY <1>1, AppendOnlyAdds DEF AppendEvent
<1> QED
  BY <1>2, OnlyAddsIsQuiet DEF AppendEvent

LEMMA OnlyAddsTwice ==
  ASSUME NEW a, NEW b, NEW c, OnlyAdds(a, b), OnlyAdds(b, c)
  PROVE  OnlyAdds(a, c)
BY DEF OnlyAdds

LEMMA FinalizeAudit ==
  ASSUME StoreInv, AuditInv, NEW g \in Groups, NEW created \in EventInput,
         NEW session \in EventInput, FinalizeGroupProvisioning(g, created, session)
  PROVE  AuditPreserved
<1> DEFINE S == PendingSubs(g)
           A == ActiveSubs \cup S
           log1 == Backfill(S, g)
           log2 == AppendTo(log1, A, created)
           caused == [session EXCEPT !.cause = {log2.appended}]
           log3 == AppendTo(log2, A, caused)
<1>1. S \in SUBSET DOMAIN subs /\ A \in SUBSET DOMAIN subs /\ StoreTypeOK
  BY DEF PendingSubs, ActiveSubs, StoreInv
<1>2. LogOK(log1) /\ OnlyAdds(Log, log1)
  <2>1. BackfillCausesStored(S, g)
    BY DEF FinalizeGroupProvisioning
  <2> QED
    BY <1>1, <2>1, BackfillType, BackfillOnlyAdds
<1>3. ~Deduplicated(log1, created) /\ CanAppend(log1, A, created)
  BY DEF FinalizeGroupProvisioning
<1>4. LogOK(log2) /\ log2.appended \in EventIds /\ OnlyAdds(log1, log2)
  BY <1>1, <1>2, <1>3, AppendType, AppendOnlyAdds
<1>5. caused \in EventInput
  BY <1>4 DEF EventInput, Causes
<1>6. CanAppend(log2, A, caused) => OnlyAdds(log2, log3)
  BY <1>1, <1>4, <1>5, AppendOnlyAdds
<1>7. /\ UNCHANGED <<deliveries, attempts, replays>>
      /\ BecomesLog(log2) \/ (CanAppend(log2, A, caused) /\ BecomesLog(log3))
  BY DEF FinalizeGroupProvisioning
<1> HIDE DEF log1, log2, log3, caused, S, A
<1>8. OnlyAdds(Log, log2) /\ (CanAppend(log2, A, caused) => OnlyAdds(Log, log3))
  BY <1>2, <1>4, <1>6, OnlyAddsTwice
<1> QED
  BY <1>7, <1>8, OnlyAddsIsQuiet

LEMMA ReplayAudit ==
  ASSUME StoreInv, AuditInv, NEW d, NEW q, CreateReplayTarget(d, q)
  PROVE  AuditPreserved
<1> DEFINE r == subs[d.sub].revision
           dep == ResolveCause(targets, events, events[d.event].cause, d.sub, r)
           prerequisite == dep \ DOMAIN targets
           id == ReplayId(d.event, d.sub, r, replays + 1)
<1>1. /\ targets' = [t \in DOMAIN targets \cup prerequisite \cup {id} |->
                       IF t = id THEN NewTarget(appended, dep, {d}, {q})
                       ELSE IF t \in prerequisite THEN NewTarget(appended, {}, {}, {})
                       ELSE targets[t]]
      /\ replays' = replays + 1
      /\ UNCHANGED <<deliveries, attempts>>
  BY DEF CreateReplayTarget
<1>2. replays \in Nat
  BY ConstantsOK DEF StoreInv, StoreTypeOK
<1>3. id.n = replays + 1
  BY DEF ReplayId
<1>4. \A t \in prerequisite : t.n = 0
  BY ResolveCauseNew
<1>5. \A t \in DOMAIN targets : t.n \in Nat /\ t.n <= replays
  BY ConstantsOK DEF AuditInv, StoreInv, StoreTypeOK, TargetId
<1>6. id \notin DOMAIN targets
  BY <1>2, <1>3, <1>5
<1>7. NewTarget(appended, dep, {d}, {q}).status = "pending"
      /\ NewTarget(appended, {}, {}, {}).status = "pending"
  BY DEF NewTarget
<1> HIDE DEF dep, prerequisite, id
<1>8. \A t \in DOMAIN targets' : t.n <= replays'
  BY <1>1, <1>2, <1>3, <1>4, <1>5
<1>9. prerequisite \cap DOMAIN targets = {}
  BY DEF prerequisite
<1> QED
  BY <1>1, <1>6, <1>7, <1>8, <1>9, QuietStep

-----------------------------------------------------------------------------
(* Steps that change deliveries *)

\* A step after which each delivery kept its attempts, and stayed as it was or
\* left a status in which it is not in flight for another such status.
LEMMA IdleMoves ==
  ASSUME StoreInv, AuditInv, attempts' = attempts, replays' = replays,
         DOMAIN targets' = DOMAIN targets, DOMAIN deliveries' = DOMAIN deliveries,
         \A t \in DOMAIN targets :
           targets'[t].status = "materialized" <=> targets[t].status = "materialized",
         \A d \in DOMAIN deliveries :
           /\ deliveries'[d].count = deliveries[d].count
           /\ \/ /\ deliveries'[d].status = deliveries[d].status
                 /\ deliveries'[d].owner = deliveries[d].owner
              \/ /\ deliveries[d].status \in {"pending", "retry_wait"}
                 /\ deliveries'[d].status = "cancelled" /\ deliveries'[d].owner = NoOwner
              \/ /\ UnresolvedDeadLetter(d)
                 /\ deliveries'[d].status = "skipped"
                 /\ deliveries'[d].owner = deliveries[d].owner
  PROVE  AuditPreserved
<1>1. OneOpenAttempt'
  BY DEF AuditInv, OneOpenAttempt, UnresolvedDeadLetter
<1>2. OwnedWhileInFlight'
  BY DEF AuditInv, OwnedWhileInFlight, UnresolvedDeadLetter
<1>3. StatusStep
  BY DEF StatusStep, AttemptTerminal
<1>4. AuditStep
  BY DEF AuditStep
<1> QED
  BY <1>1, <1>2, <1>3, <1>4 DEF AuditPreserved, AuditInv

LEMMA CancelledOrSame ==
  ASSUME StoreInv, NEW W, NEW d \in DOMAIN deliveries
  PROVE  LET new == CancelDeliveries(W)[d]
         IN /\ new.count = deliveries[d].count
            /\ \/ new = deliveries[d]
               \/ /\ deliveries[d].status \in {"pending", "retry_wait"}
                  /\ new.status = "cancelled" /\ new.owner = NoOwner
<1>1. deliveries[d] \in Delivery
  BY DEF StoreInv, StoreTypeOK
<1>2. /\ Move(d, "cancelled", 0).count = deliveries[d].count
      /\ Move(d, "cancelled", 0).status = "cancelled"
      /\ Move(d, "cancelled", 0).owner = NoOwner
  BY <1>1 DEF Move, Delivery
<1> QED
  BY <1>2 DEF CancelDeliveries

LEMMA CancelledTargets ==
  ASSUME StoreInv, NEW W, NEW t \in DOMAIN targets
  PROVE  CancelTargets(W)[t].status = "materialized" <=> targets[t].status = "materialized"
<1>1. targets[t] \in Target
  BY DEF StoreInv, StoreTypeOK
<1> QED
  BY <1>1 DEF CancelTargets, Target

LEMMA WithdrawAudit ==
  ASSUME StoreInv, AuditInv, NEW W,
         targets' = CancelTargets(W), deliveries' = CancelDeliveries(W),
         UNCHANGED <<attempts, replays>>
  PROVE  AuditPreserved
<1>1. DOMAIN targets' = DOMAIN targets /\ DOMAIN deliveries' = DOMAIN deliveries
  BY DEF CancelTargets, CancelDeliveries
<1> QED
  BY <1>1, CancelledOrSame, CancelledTargets, IdleMoves

LEMMA ReplaceRevisionAudit ==
  ASSUME StoreInv, AuditInv, NEW s, NEW r, NEW status, NEW f, NEW endpoint, NEW cancel,
         ReplaceRevision(s, r, status, f, endpoint, cancel)
  PROVE  AuditPreserved
<1> DEFINE W == IF cancel
                THEN {t \in DOMAIN targets : t.sub = s /\ (status \in {"disabled", "deleted"} \/ t.rev = r)}
                ELSE {}
<1>1. /\ targets' = CancelTargets(W) /\ deliveries' = CancelDeliveries(W)
      /\ UNCHANGED <<attempts, replays>>
  BY DEF ReplaceRevision
<1> HIDE DEF W
<1> QED
  BY <1>1, WithdrawAudit

LEMMA GroupDeletionAudit ==
  ASSUME StoreInv, AuditInv, NEW g, CommitGroupDeletion(g)
  PROVE  AuditPreserved
<1> DEFINE W == {t \in DOMAIN targets : t.sub \in {s \in ActiveSubs : subs[s].group = g}}
<1>1. /\ targets' = CancelTargets(W) /\ deliveries' = CancelDeliveries(W)
      /\ UNCHANGED <<attempts, replays>>
  BY DEF CommitGroupDeletion
<1> HIDE DEF W
<1> QED
  BY <1>1, WithdrawAudit

LEMMA SkipAudit ==
  ASSUME StoreInv, AuditInv, NEW d, SkipDeadLetteredDelivery(d)
  PROVE  AuditPreserved
<1> DEFINE ds == CancelDeliveries(ReplaysOf(d))
<1>1. /\ UnresolvedDeadLetter(d) /\ d \in DOMAIN deliveries
      /\ deliveries' = [ds EXCEPT ![d].status = "skipped"]
      /\ targets' = CancelTargets(ReplaysOf(d))
      /\ UNCHANGED <<attempts, replays>>
  BY DEF SkipDeadLetteredDelivery, UnresolvedDeadLetter
<1>2. DOMAIN ds = DOMAIN deliveries
  BY DEF CancelDeliveries
<1>3. \A x \in DOMAIN deliveries :
        /\ ds[x].count = deliveries[x].count
        /\ \/ ds[x] = deliveries[x]
           \/ /\ deliveries[x].status \in {"pending", "retry_wait"}
              /\ ds[x].status = "cancelled" /\ ds[x].owner = NoOwner
  BY CancelledOrSame
<1>4. ds[d] = deliveries[d] /\ deliveries[d] \in Delivery
  BY <1>1, <1>3 DEF UnresolvedDeadLetter, StoreInv, StoreTypeOK
<1> HIDE DEF ds
<1>5. /\ deliveries'[d].status = "skipped" /\ deliveries'[d].owner = deliveries[d].owner
      /\ deliveries'[d].count = deliveries[d].count
  BY <1>1, <1>2, <1>4 DEF Delivery
<1>6. \A x \in DOMAIN deliveries : x # d => deliveries'[x] = ds[x]
  BY <1>1, <1>2
<1>7. DOMAIN deliveries' = DOMAIN deliveries /\ DOMAIN targets' = DOMAIN targets
  BY <1>1, <1>2 DEF CancelTargets
<1>8. \A t \in DOMAIN targets :
        targets'[t].status = "materialized" <=> targets[t].status = "materialized"
  BY <1>1, CancelledTargets
<1>9. \A x \in DOMAIN deliveries :
        /\ deliveries'[x].count = deliveries[x].count
        /\ \/ /\ deliveries'[x].status = deliveries[x].status
              /\ deliveries'[x].owner = deliveries[x].owner
           \/ /\ deliveries[x].status \in {"pending", "retry_wait"}
              /\ deliveries'[x].status = "cancelled" /\ deliveries'[x].owner = NoOwner
           \/ /\ UnresolvedDeadLetter(x)
              /\ deliveries'[x].status = "skipped"
              /\ deliveries'[x].owner = deliveries[x].owner
  BY <1>1, <1>3, <1>5, <1>6
<1> QED
  BY <1>1, <1>7, <1>8, <1>9, IdleMoves

LEMMA TickAudit ==
  ASSUME StoreInv, AuditInv, ClockTick
  PROVE  AuditPreserved
<1>1. DOMAIN targets' = DOMAIN targets /\ DOMAIN deliveries' = DOMAIN deliveries
      /\ UNCHANGED <<attempts, replays>>
  BY DEF ClockTick
<1>2. \A t \in DOMAIN targets : targets'[t].status = targets[t].status
  <2>1. \A x \in Target : [x EXCEPT !.lease = Dec(@)].status = x.status
    BY DEF Target
  <2> QED
    BY <2>1 DEF ClockTick, StoreInv, StoreTypeOK
<1>3. \A d \in DOMAIN deliveries : /\ deliveries'[d].status = deliveries[d].status
                                   /\ deliveries'[d].owner = deliveries[d].owner
                                   /\ deliveries'[d].count = deliveries[d].count
  <2>1. \A x \in Delivery : LET y == [x EXCEPT !.lease = Dec(@), !.wait = Dec(@)]
                            IN y.status = x.status /\ y.owner = x.owner /\ y.count = x.count
    BY DEF Delivery
  <2> QED
    BY <2>1 DEF ClockTick, StoreInv, StoreTypeOK
<1> QED
  BY <1>1, <1>2, <1>3, IdleMoves

LEMMA RenewAudit ==
  ASSUME StoreInv, AuditInv, NEW d, NEW owner, NEW n, RenewDeliveryLease(d, owner, n)
  PROVE  AuditPreserved
<1>1. /\ d \in DOMAIN deliveries /\ deliveries[d] \in Delivery
      /\ deliveries' = [deliveries EXCEPT ![d].lease = Lease]
      /\ UNCHANGED <<attempts, replays, targets>>
  BY DEF RenewDeliveryLease, HoldsDelivery, StoreInv, StoreTypeOK
<1>2. DOMAIN deliveries' = DOMAIN deliveries
      /\ \A x \in DOMAIN deliveries : /\ deliveries'[x].status = deliveries[x].status
                                       /\ deliveries'[x].owner = deliveries[x].owner
                                       /\ deliveries'[x].count = deliveries[x].count
  BY <1>1 DEF Delivery
<1> QED
  BY <1>1, <1>2, IdleMoves

LEMMA MaterializeAudit ==
  ASSUME StoreInv, AuditInv, NEW t, NEW owner, NEW status \in {"pending", "dead_lettered"},
         MaterializeFanoutTarget(t, owner, status)
  PROVE  AuditPreserved
<1> DEFINE new == [status |-> status, count |-> 0, owner |-> NoOwner,
                   lease |-> 0, wait |-> 0, resolved |-> {}]
<1>1. /\ t \in DOMAIN targets /\ t \notin DOMAIN deliveries
      /\ targets' = [targets EXCEPT ![t].status = "materialized",
                                    ![t].owner = NoOwner, ![t].lease = 0]
      /\ deliveries' = [d \in DOMAIN deliveries \cup {t} |-> IF d = t THEN new ELSE deliveries[d]]
      /\ attempts' = [d \in DOMAIN attempts \cup {t} |-> IF d = t THEN << >> ELSE attempts[d]]
      /\ replays' = replays
  BY DEF MaterializeFanoutTarget, HoldsTarget
<1>2. \A x \in DOMAIN targets : targets[x] \in Target
  BY DEF StoreInv, StoreTypeOK
<1>3. /\ DOMAIN targets' = DOMAIN targets /\ targets'[t].status = "materialized"
      /\ \A x \in DOMAIN targets : x # t => targets'[x] = targets[x]
  BY <1>1, <1>2 DEF Target
<1>4. /\ DOMAIN deliveries' = DOMAIN deliveries \cup {t} /\ DOMAIN attempts = DOMAIN deliveries
      /\ deliveries'[t].status = status /\ deliveries'[t].owner = NoOwner /\ deliveries'[t].count = 0
      /\ \A d \in DOMAIN deliveries : deliveries'[d] = deliveries[d] /\ attempts'[d] = attempts[d]
  BY <1>1 DEF StoreInv, StoreTypeOK
<1> HIDE DEF new
<1>5. OneOpenAttempt'
  BY <1>4 DEF AuditInv, OneOpenAttempt
<1>6. OwnedWhileInFlight'
  BY <1>1, <1>3, <1>4 DEF AuditInv, OwnedWhileInFlight
<1>7. StatusStep /\ AuditStep
  BY <1>4 DEF StatusStep, AuditStep
<1> QED
  BY <1>1, <1>3, <1>5, <1>6, <1>7 DEF AuditPreserved, AuditInv

LEMMA NextAttemptsAudit ==
  ASSUME StoreInv, AuditInv, NEW d \in DOMAIN deliveries
  PROVE  /\ deliveries[d].count \in Nat
         /\ NextAttempts(d)[deliveries[d].count + 1] = "open"
         /\ \A n \in 1..deliveries[d].count :
              /\ NextAttempts(d)[n] # "open"
              /\ attempts[d][n] # "open" => NextAttempts(d)[n] = attempts[d][n]
<1>1. deliveries[d].count \in Nat
  BY ConstantsOK DEF StoreInv, StoreTypeOK, Delivery
<1>2. \A n \in 1..deliveries[d].count : attempts[d][n] = "open" =>
        n = deliveries[d].count /\ deliveries[d].status = "in_flight"
  BY DEF AuditInv, OneOpenAttempt
<1> QED
  BY <1>1, <1>2 DEF NextAttempts

LEMMA ClaimDeliveriesAudit ==
  ASSUME StoreInv, AuditInv, NEW B, NEW owner \in Owners, ClaimDeliveries(B, owner)
  PROVE  AuditPreserved
<1>1. \A d \in B : d \in DOMAIN deliveries
                   /\ deliveries[d].status \in {"pending", "in_flight", "retry_wait"}
  BY DEF ClaimDeliveries, EligibleDeliveries, Eligible, Due
<1>2. /\ deliveries' = [d \in DOMAIN deliveries |->
                          IF d \in B THEN [deliveries[d] EXCEPT
                                             !.status = "in_flight", !.count = @ + 1,
                                             !.owner = owner, !.lease = Lease, !.wait = 0]
                          ELSE deliveries[d]]
      /\ attempts' = [d \in DOMAIN attempts |-> IF d \in B THEN NextAttempts(d) ELSE attempts[d]]
      /\ UNCHANGED <<targets, replays>>
  BY DEF ClaimDeliveries
<1>3. \A x \in Delivery : LET y == [x EXCEPT !.status = "in_flight", !.count = @ + 1,
                                             !.owner = owner, !.lease = Lease, !.wait = 0]
                          IN y.status = "in_flight" /\ y.owner = owner /\ y.count = x.count + 1
  BY DEF Delivery
<1>4. DOMAIN attempts = DOMAIN deliveries /\ \A d \in DOMAIN deliveries : deliveries[d] \in Delivery
  BY DEF StoreInv, StoreTypeOK
<1>5. \A d \in B : /\ deliveries'[d].status = "in_flight" /\ deliveries'[d].owner = owner
                   /\ deliveries'[d].count = deliveries[d].count + 1
                   /\ attempts'[d] = NextAttempts(d)
  BY <1>1, <1>2, <1>3, <1>4
<1>6. \A d \in DOMAIN deliveries \ B : deliveries'[d] = deliveries[d] /\ attempts'[d] = attempts[d]
  BY <1>2, <1>4
<1>7. DOMAIN deliveries' = DOMAIN deliveries /\ owner # NoOwner
  BY <1>2, ConstantsOK DEF NoOwner
<1>8. OneOpenAttempt'
  <2>1. SUFFICES ASSUME NEW d \in DOMAIN deliveries, NEW n \in 1..deliveries'[d].count
                 PROVE  attempts'[d][n] = "open" <=>
                          n = deliveries'[d].count /\ deliveries'[d].status = "in_flight"
    BY <1>7 DEF OneOpenAttempt
  <2>2. CASE d \in B
    <3>1. n \in 1..deliveries[d].count \/ n = deliveries[d].count + 1
      BY <1>5, <2>2, NextAttemptsAudit
    <3> QED
      BY <1>5, <2>2, <3>1, NextAttemptsAudit
  <2>3. CASE d \notin B
    BY <1>6, <2>3 DEF AuditInv, OneOpenAttempt
  <2> QED
    BY <2>2, <2>3
<1>9. OwnedWhileInFlight'
  BY <1>2, <1>5, <1>6, <1>7 DEF AuditInv, OwnedWhileInFlight
<1>10. StatusStep
  BY <1>1, <1>6, <1>7 DEF StatusStep, AttemptTerminal
<1>11. AuditStep
  BY <1>1, <1>5, <1>6, <1>7, NextAttemptsAudit DEF AuditStep
<1> QED
  BY <1>2, <1>8, <1>9, <1>10, <1>11 DEF AuditPreserved, AuditInv

LEMMA CompleteAudit ==
  ASSUME StoreInv, AuditInv, NEW d, NEW owner, NEW n, NEW result \in AttemptResult \ {"open"},
         NEW status \in {"succeeded", "retry_wait", "dead_lettered"}, NEW wait,
         CompleteDeliveryAttempt(d, owner, n, result, status, wait)
  PROVE  AuditPreserved
<1>1. /\ d \in DOMAIN deliveries /\ deliveries[d].status = "in_flight"
      /\ deliveries[d].count = n /\ attempts[d][n] = "open"
  BY DEF CompleteDeliveryAttempt, HoldsDelivery
<1>2. /\ attempts' = [attempts EXCEPT ![d] = [@ EXCEPT ![n] = result]]
      /\ deliveries' =
           [x \in DOMAIN deliveries |->
              IF x = d THEN Move(d, status, wait)
              ELSE IF /\ status = "succeeded" /\ x \in targets[d].of
                      /\ deliveries[x].status = "dead_lettered" /\ deliveries[x].resolved = {}
                   THEN [deliveries[x] EXCEPT !.resolved = {d}]
              ELSE deliveries[x]]
      /\ UNCHANGED <<targets, replays>>
  BY DEF CompleteDeliveryAttempt
<1>3. DOMAIN attempts = DOMAIN deliveries
      /\ \A x \in DOMAIN deliveries : /\ deliveries[x] \in Delivery
                                       /\ attempts[x] \in [1..deliveries[x].count -> AttemptResult]
  BY DEF StoreInv, StoreTypeOK
<1>4. /\ Move(d, status, wait).status = status /\ Move(d, status, wait).owner = NoOwner
      /\ Move(d, status, wait).count = deliveries[d].count
  BY <1>1, <1>3 DEF Move, Delivery
<1>5. \A x \in Delivery : LET y == [x EXCEPT !.resolved = {d}]
                          IN y.status = x.status /\ y.owner = x.owner /\ y.count = x.count
  BY DEF Delivery
<1>6. /\ deliveries'[d].status = status /\ deliveries'[d].owner = NoOwner
      /\ deliveries'[d].count = n
  BY <1>1, <1>2, <1>4
<1>7. \A x \in DOMAIN deliveries : x # d => /\ deliveries'[x].status = deliveries[x].status
                                            /\ deliveries'[x].owner = deliveries[x].owner
                                            /\ deliveries'[x].count = deliveries[x].count
                                            /\ attempts'[x] = attempts[x]
  BY <1>2, <1>3, <1>5
<1>8. DOMAIN deliveries' = DOMAIN deliveries
  BY <1>2
<1>9. \A m \in 1..n : attempts'[d][m] = IF m = n THEN result ELSE attempts[d][m]
  BY <1>1, <1>2, <1>3
<1>11. OneOpenAttempt'
  <2>1. SUFFICES ASSUME NEW x \in DOMAIN deliveries, NEW m \in 1..deliveries'[x].count
                 PROVE  attempts'[x][m] = "open" <=>
                          m = deliveries'[x].count /\ deliveries'[x].status = "in_flight"
    BY <1>8 DEF OneOpenAttempt
  <2>2. CASE x = d
    BY <1>1, <1>6, <1>9, <2>2 DEF AuditInv, OneOpenAttempt
  <2>3. CASE x # d
    BY <1>7, <2>3 DEF AuditInv, OneOpenAttempt
  <2> QED
    BY <2>2, <2>3
<1>12. OwnedWhileInFlight'
  BY <1>1, <1>2, <1>6, <1>7, <1>8 DEF AuditInv, OwnedWhileInFlight
<1>13. StatusStep
  BY <1>1, <1>7, <1>8 DEF StatusStep, AttemptTerminal
<1>14. AuditStep
  <2>1. SUFFICES ASSUME NEW x \in DOMAIN deliveries
                 PROVE  /\ deliveries'[x].count \in {deliveries[x].count, deliveries[x].count + 1}
                        /\ \A m \in 1..deliveries[x].count :
                             attempts[x][m] # "open" => attempts'[x][m] = attempts[x][m]
    BY <1>8 DEF AuditStep
  <2> QED
    BY <1>1, <1>6, <1>7, <1>9
<1> QED
  BY <1>2, <1>11, <1>12, <1>13, <1>14 DEF AuditPreserved, AuditInv

LEMMA PurgeAudit ==
  ASSUME StoreInv, AuditInv, NEW E, PurgeExpired(E)
  PROVE  AuditPreserved
<1>1. /\ targets' = [t \in {x \in DOMAIN targets : x.event \notin E} |-> targets[t]]
      /\ deliveries' = [t \in {x \in DOMAIN deliveries : x.event \notin E} |-> deliveries[t]]
      /\ attempts' = [t \in {x \in DOMAIN attempts : x.event \notin E} |-> attempts[t]]
      /\ replays' = replays
  BY DEF PurgeExpired
<1>2. DOMAIN attempts = DOMAIN deliveries
  BY DEF StoreInv, StoreTypeOK
<1>3. OneOpenAttempt'
  BY <1>1, <1>2 DEF AuditInv, OneOpenAttempt
<1>4. OwnedWhileInFlight'
  BY <1>1 DEF AuditInv, OwnedWhileInFlight
<1>5. StatusStep /\ AuditStep
  BY <1>1, <1>2 DEF StatusStep, AuditStep
<1> QED
  BY <1>1, <1>3, <1>4, <1>5 DEF AuditPreserved, AuditInv

LEMMA ClaimFanoutAudit ==
  ASSUME StoreInv, AuditInv, NEW B, NEW owner, ClaimFanoutTargets(B, owner)
  PROVE  AuditPreserved
<1>1. \A x \in Target : [x EXCEPT !.owner = owner, !.lease = Lease].status = x.status
  BY DEF Target
<1>2. /\ DOMAIN targets' = DOMAIN targets
      /\ \A t \in DOMAIN targets : targets'[t].status = targets[t].status
  BY <1>1 DEF ClaimFanoutTargets, StoreInv, StoreTypeOK
<1> QED
  BY <1>2, QuietStep DEF ClaimFanoutTargets, AuditInv

-----------------------------------------------------------------------------
(* The system *)

LEMMA AdministerAudit ==
  ASSUME TypeInv, AuditInv, Administer
  PROVE  AuditPreserved
<1> USE DEF TypeInv
<1>1. ASSUME NEW s, NEW g, NEW f, Create(s, g, f) \/ Prepare(s, g, f)
      PROVE  AuditPreserved
  BY <1>1, StoreUntouched DEF Create, Prepare, CreateSubscription
<1>2. ASSUME NEW g, CancelProvisioning(g)
      PROVE  AuditPreserved
  BY <1>2, StoreUntouched DEF CancelProvisioning, CancelPendingSubscriptions
<1>3. ASSUME NEW g \in Groups, NEW c \in EventInput, NEW i \in EventInput, Finalize(g, c, i)
      PROVE  AuditPreserved
  BY <1>3, FinalizeAudit DEF Finalize
<1>4. ASSUME NEW a, NEW s, LoadSubscription(a, s) \/ DropDraft(a)
      PROVE  AuditPreserved
  BY <1>4, StoreUntouched DEF LoadSubscription, DropDraft, storeVars
<1>5. ASSUME NEW a, NEW st, NEW f, NEW r, NEW p, Patch(a, st, f, r, p)
      PROVE  AuditPreserved
  BY <1>5, ReplaceRevisionAudit DEF Patch
<1>6. ASSUME NEW a, Delete(a)
      PROVE  AuditPreserved
  BY <1>6, ReplaceRevisionAudit DEF Delete
<1>7. ASSUME NEW d, Skip(d)
      PROVE  AuditPreserved
  BY <1>7, SkipAudit DEF Skip
<1>8. ASSUME NEW d, NEW q, Replay(d, q)
      PROVE  AuditPreserved
  BY <1>8, ReplayAudit DEF Replay
<1> QED
  BY <1>1, <1>2, <1>3, <1>4, <1>5, <1>6, <1>7, <1>8 DEF Administer

LEMMA FanOutAudit ==
  ASSUME TypeInv, AuditInv, NEW w, FanOut(w) \/ CrashFanout(w)
  PROVE  AuditPreserved
<1> USE DEF TypeInv
<1>1. CASE ClaimTargets(w)
  BY <1>1, ClaimFanoutAudit DEF ClaimTargets
<1>2. ASSUME NEW t, NEW st \in {"pending", "dead_lettered"}, Materialize(w, t, st)
      PROVE  AuditPreserved
  BY <1>2, MaterializeAudit DEF Materialize
<1>3. ASSUME NEW t, FailMaterialize(w, t)
      PROVE  AuditPreserved
  BY <1>3, StoreUntouched DEF FailMaterialize, storeVars
<1>4. CASE CrashFanout(w)
  BY <1>4, StoreUntouched DEF CrashFanout, storeVars
<1> QED
  BY <1>1, <1>2, <1>3, <1>4 DEF FanOut

LEMMA DispatchAudit ==
  ASSUME TypeInv, AuditInv, NEW w, Dispatch(w) \/ CrashDispatch(w)
  PROVE  AuditPreserved
<1> USE DEF TypeInv
<1>1. CASE ClaimWork(w)
  <2>1. ClaimOwner \in Owners
    BY <1>1, ClaimOwnerType DEF ClaimWork
  <2> QED
    BY <1>1, <2>1, ClaimDeliveriesAudit DEF ClaimWork
<1>2. ASSUME NEW k, NEW o, Respond(w, k, o) \/ ReadForDisable(w, k) \/ DropTask(w, k)
      PROVE  AuditPreserved
  BY <1>2, StoreUntouched DEF Respond, ReadForDisable, DropTask, storeVars
<1>3. ASSUME NEW k, DisableSubscription(w, k)
      PROVE  AuditPreserved
  BY <1>3, ReplaceRevisionAudit, StoreUntouched DEF DisableSubscription, storeVars
<1>4. ASSUME NEW k, Complete(w, k)
      PROVE  AuditPreserved
  <2>1. PICK next \in NextStates(k) :
          CompleteDeliveryAttempt(k.id, k.owner, k.attempt, k.stage, next[1], next[2])
    BY <1>4 DEF Complete
  <2>2. /\ next[1] \in {"succeeded", "retry_wait", "dead_lettered"}
        /\ k.stage \in AttemptResult \ {"open"}
    BY <1>4, NextStatesType DEF Complete, AttemptResult
  <2> QED
    BY <2>1, <2>2, CompleteAudit
<1>5. ASSUME NEW k, Heartbeat(w, k)
      PROVE  AuditPreserved
  BY <1>5, RenewAudit DEF Heartbeat
<1>6. CASE CrashDispatch(w)
  BY <1>6, StoreUntouched DEF CrashDispatch, storeVars
<1> QED
  BY <1>1, <1>2, <1>3, <1>4, <1>5, <1>6 DEF Dispatch

LEMMA AuditStepHolds ==
  ASSUME TypeInv, AuditInv, [Next]_vars
  PROVE  AuditPreserved
<1> USE DEF TypeInv
<1>1. ASSUME NEW in \in EventInput, Produce(in)
      PROVE  AuditPreserved
  BY <1>1, AppendEventAudit DEF Produce
<1>2. ASSUME NEW g, DeleteGroup(g)
      PROVE  AuditPreserved
  BY <1>2, GroupDeletionAudit DEF DeleteGroup
<1>3. CASE Tick
  BY <1>3, TickAudit DEF Tick
<1>4. ASSUME NEW e, RetentionEnds(e)
      PROVE  AuditPreserved
  BY <1>4, StoreUntouched DEF RetentionEnds, RetentionElapses
<1>5. CASE Purge
  BY <1>5, PurgeAudit DEF Purge
<1>6. CASE UNCHANGED vars
  BY <1>6, StoreUntouched DEF vars
<1> QED
  BY <1>1, <1>2, <1>3, <1>4, <1>5, <1>6, AdministerAudit, FanOutAudit, DispatchAudit DEF Next

LEMMA AuditInvInit ==
  ASSUME Init
  PROVE  AuditInv
BY DEF Init, StoreInit, AuditInv, OneOpenAttempt, OwnedWhileInFlight

LEMMA AuditInvAlways == Spec => [](TypeInv /\ AuditInv)
<1>1. Init => TypeInv /\ AuditInv
  BY TypeInvInit, AuditInvInit
<1>2. TypeInv /\ AuditInv /\ [Next]_vars => TypeInv' /\ AuditInv'
  BY TypeInvStep, AuditStepHolds DEF AuditPreserved
<1> QED
  BY <1>1, <1>2, PTL DEF Spec

\* claim_deliveries and complete_delivery_attempt keep exactly one attempt open
\* per delivery in flight and none elsewhere, whatever workers crash or lag.
THEOREM OneOpenAttemptAlways == Spec => []OneOpenAttempt
<1>1. TypeInv /\ AuditInv => OneOpenAttempt
  BY DEF AuditInv
<1> QED
  BY <1>1, AuditInvAlways, PTL

\* A delivery has a lease owner exactly while it is in flight, and a target is
\* materialized exactly when its delivery exists.
THEOREM OwnedWhileInFlightAlways == Spec => []OwnedWhileInFlight
<1>1. TypeInv /\ AuditInv => OwnedWhileInFlight
  BY DEF AuditInv
<1> QED
  BY <1>1, AuditInvAlways, PTL

\* A settled delivery stays settled: only a dead letter can still be skipped.
THEOREM SettledIsFinalAlways == Spec => SettledIsFinal
<1>1. TypeInv /\ AuditInv /\ [Next]_vars =>
        [\A d \in DOMAIN deliveries \cap DOMAIN deliveries' :
           AttemptTerminal(deliveries[d].status) =>
             \/ deliveries'[d].status = deliveries[d].status
             \/ UnresolvedDeadLetter(d) /\ deliveries'[d].status = "skipped"]_vars
  BY AuditStepHolds DEF AuditPreserved, StatusStep
<1> QED
  BY <1>1, AuditInvAlways, PTL DEF Spec, SettledIsFinal

\* No late completion rewrites a closed attempt, and attempts are added one by one.
THEOREM AuditIsImmutableAlways == Spec => AuditIsImmutable
<1>1. TypeInv /\ AuditInv /\ [Next]_vars =>
        [\A d \in DOMAIN deliveries \cap DOMAIN deliveries' :
           /\ deliveries'[d].count \in {deliveries[d].count, deliveries[d].count + 1}
           /\ \A n \in 1..deliveries[d].count :
                attempts[d][n] # "open" => attempts'[d][n] = attempts[d][n]]_vars
  BY AuditStepHolds DEF AuditPreserved, AuditStep
<1> QED
  BY <1>1, AuditInvAlways, PTL DEF Spec, AuditIsImmutable
=============================================================================
