------------------------ MODULE EventingTargetProofs ------------------------
(***************************************************************************)
(* What the fanout targets refer to, for every value of the constants:     *)
(* NoDanglingReference, CompletedMeansSettled, SwitchedOffIsQuiet,         *)
(* AppendNeverConflicts, ReplaysResolve and, for the SQL store,            *)
(* NoStrandedEffect.                                                       *)
(*                                                                         *)
(* These six are proved together: TargetInv is their inductive             *)
(* strengthening, TargetStep what one step may do to targets, deliveries,  *)
(* events and subscriptions.  The first part shows that TargetStep         *)
(* preserves TargetInv, the second that every step is a TargetStep.        *)
(***************************************************************************)
EXTENDS EventingCauseProofs

\* A target is made for the revision that was current, of a subscription that
\* had left its pending state.
MadeForRevision ==
  \A t \in DOMAIN targets :
    t.rev <= subs[t.sub].revision /\ subs[t.sub].status # "pending"

\* A replay is made of a dead letter of its own event and subscription, which
\* can at most have been skipped since.
ReplaysAreOfDeadLetters ==
  \A t \in DOMAIN targets : \A d \in targets[t].of :
    /\ targets[t].of = {d} /\ t.purpose = "replay"
    /\ d.event = t.event /\ d.sub = t.sub
    /\ d \in DOMAIN deliveries /\ deliveries[d].status \in {"dead_lettered", "skipped"}

\* A target depends on stored targets of its own revision, and in the SQL store
\* never on a replay.
DependsOnOwnRevision ==
  \A t \in DOMAIN targets : \A c \in targets[t].dep :
    /\ c \in DOMAIN targets /\ c.sub = t.sub /\ c.rev = t.rev
    /\ c.purpose = "replay" => ReplayAnswersCause

\* On the revision an active subscription is at, nothing but replays was cancelled.
CurrentIsLive ==
  \A t \in DOMAIN targets :
    subs[t.sub].status = "active" /\ t.rev = subs[t.sub].revision /\ t.purpose # "replay" =>
      /\ targets[t].status # "cancelled"
      /\ t \in DOMAIN deliveries => deliveries[t].status # "cancelled"

InFlightIsAttempted ==
  \A d \in DOMAIN deliveries : deliveries[d].status = "in_flight" => deliveries[d].count > 0

TargetInv ==
  /\ MadeForRevision
  /\ ReplaysAreOfDeadLetters
  /\ DependsOnOwnRevision
  /\ CurrentIsLive
  /\ InFlightIsAttempted
  /\ CompletedMeansSettled
  /\ SwitchedOffIsQuiet
  /\ ReplaysResolve
  /\ ~ReplayAnswersCause => NoStrandedEffect

-----------------------------------------------------------------------------
(* What one step may do *)

KeptTargets ==
  \A t \in DOMAIN targets \cap DOMAIN targets' :
    /\ targets'[t].dep = targets[t].dep /\ targets'[t].of = targets[t].of
    /\ \/ targets'[t].status = targets[t].status
       \/ targets[t].status = "pending" /\ targets'[t].status # "pending"
    /\ targets'[t].status = "pending" /\ events[t.event].fanout = "pending" =>
         events'[t.event].fanout = "pending"

\* d is resolved by the success of r, a replay of it that was in flight.
ResolvedBy(d, r) ==
  /\ UnresolvedDeadLetter(d) /\ deliveries'[d].status = "dead_lettered"
  /\ r \in DOMAIN deliveries /\ r \in DOMAIN deliveries' /\ d \in targets[r].of
  /\ deliveries[r].status = "in_flight" /\ deliveries'[r].status = "succeeded"
  /\ deliveries'[d].resolved = {r}

KeptDeliveries ==
  \A d \in DOMAIN deliveries \cap DOMAIN deliveries' :
    /\ \/ deliveries'[d].status = deliveries[d].status
       \/ ~AttemptTerminal(deliveries[d].status) /\ deliveries'[d].status # "pending"
       \/ UnresolvedDeadLetter(d) /\ deliveries'[d].status = "skipped"
    /\ \/ deliveries'[d].resolved = deliveries[d].resolved
       \/ \E r : ResolvedBy(d, r)
    /\ deliveries'[d].status = "in_flight" =>
         \/ deliveries'[d].count > 0
         \/ deliveries[d].status = "in_flight" /\ deliveries'[d].count = deliveries[d].count

\* Only a pending target gets a delivery.
NewDeliveries ==
  \A d \in DOMAIN deliveries' \ DOMAIN deliveries :
    /\ d \in DOMAIN targets /\ targets[d].status = "pending"
    /\ deliveries'[d].status \in {"pending", "dead_lettered"} /\ deliveries'[d].resolved = {}

\* Targets and deliveries go when their event goes, and no target on which
\* another one depends.
RemovedWithEvent ==
  /\ \A t \in DOMAIN targets : t \in DOMAIN targets' <=> t.event \in DOMAIN events'
  /\ \A d \in DOMAIN deliveries : d \in DOMAIN deliveries' <=> d.event \in DOMAIN events'
  /\ \A t \in DOMAIN targets \ DOMAIN targets' : \A u \in DOMAIN targets : t \notin targets[u].dep

\* t, just made, may depend on c.
MayDependOn(t, c) ==
  /\ c \in DOMAIN targets' /\ c.sub = t.sub /\ c.rev = t.rev
  /\ c.purpose = "replay" => ReplayAnswersCause
  /\ targets'[c].status # "cancelled"
  /\ ~ReplayAnswersCause /\ c \in DOMAIN deliveries' => deliveries'[c].status # "cancelled"

\* t, just made, may be a replay of d.
MayReplay(t, d) ==
  /\ targets'[t].of = {d} /\ t.purpose = "replay"
  /\ d.event = t.event /\ d.sub = t.sub
  /\ UnresolvedDeadLetter(d) /\ OpenReplays(d) = {} /\ deliveries' = deliveries
  /\ \A u \in DOMAIN targets' \ DOMAIN targets : d \in targets'[u].of => u = t

NewTargets ==
  \A t \in DOMAIN targets' \ DOMAIN targets :
    /\ subs'[t.sub].status = "active" /\ t.rev = subs'[t.sub].revision
    /\ targets'[t].status = "pending" /\ events'[t.event].fanout = "pending"
    /\ \A c \in targets'[t].dep : MayDependOn(t, c)
    /\ \A d \in targets'[t].of : MayReplay(t, d)

\* Nothing of t is left to start.
Withdrawn(t) ==
  /\ t \in DOMAIN targets' => targets'[t].status # "pending"
  /\ t \in DOMAIN deliveries' =>
       /\ t \in DOMAIN deliveries
       /\ deliveries'[t].status \notin {"pending", "retry_wait"}
       /\ deliveries'[t].status = "in_flight" => deliveries[t].status = "in_flight"

\* A subscription is switched off with all of its work withdrawn.
SubscriptionStep ==
  \A s \in DOMAIN subs :
    /\ s \in DOMAIN subs'
    /\ \/ subs'[s].revision = subs[s].revision /\ subs'[s].status = subs[s].status
       \/ /\ subs'[s].revision = subs[s].revision /\ subs[s].status = "pending"
          /\ subs'[s].status # "pending"
       \/ /\ subs'[s].revision = subs[s].revision \/ subs'[s].revision = subs[s].revision + 1
          /\ subs'[s].status = "pending" => subs[s].status = "pending"
          /\ subs'[s].revision = subs[s].revision => subs'[s].status = "disabled"
          /\ subs'[s].status \in {"disabled", "deleted"} =>
               \A t \in DOMAIN targets : t.sub = s => Withdrawn(t)

\* What is cancelled is a replay (by a skip), or it goes with all the work of
\* its revision, which is then no longer the one in force.
MayCancel(t) ==
  \/ t.purpose = "replay"
  \/ /\ ~(subs'[t.sub].status = "active" /\ subs'[t.sub].revision = t.rev)
     /\ \A u \in DOMAIN targets : u.sub = t.sub /\ u.rev = t.rev => Withdrawn(u)

CancelStep ==
  /\ \A t \in DOMAIN targets \cap DOMAIN targets' :
       targets'[t].status = "cancelled" => targets[t].status = "cancelled" \/ MayCancel(t)
  /\ \A d \in DOMAIN deliveries \cap DOMAIN deliveries' :
       deliveries'[d].status = "cancelled" =>
         \/ deliveries[d].status = "cancelled"
         \/ deliveries[d].status \in {"pending", "retry_wait"} /\ MayCancel(d)

TargetStep ==
  /\ KeptTargets /\ KeptDeliveries /\ NewDeliveries /\ RemovedWithEvent
  /\ NewTargets /\ SubscriptionStep /\ CancelStep

-----------------------------------------------------------------------------
(* Such a step preserves the invariant *)

LEMMA MadeForRevisionStep ==
  ASSUME StoreInv, StoreInv', MadeForRevision, TargetStep
  PROVE  MadeForRevision'
<1>1. SUFFICES ASSUME NEW t \in DOMAIN targets'
               PROVE  t.rev <= subs'[t.sub].revision /\ subs'[t.sub].status # "pending"
  BY DEF MadeForRevision
<1>2. t.rev \in Nat /\ subs'[t.sub].revision \in Nat
  BY ConstantsOK DEF StoreInv, StoreTypeOK, TargetId, Revisions, Subscription
<1>3. CASE t \notin DOMAIN targets
  BY <1>2, <1>3 DEF TargetStep, NewTargets
<1>4. CASE t \in DOMAIN targets
  <2>1. t.rev <= subs[t.sub].revision /\ subs[t.sub].status # "pending" /\ t.sub \in DOMAIN subs
        /\ subs[t.sub].revision \in Nat
    BY <1>4, ConstantsOK DEF MadeForRevision, StoreInv, StoreTypeOK, Subscription, Revisions
  <2> QED
    BY <1>2, <2>1 DEF TargetStep, SubscriptionStep
<1> QED
  BY <1>3, <1>4

LEMMA ReplaysAreOfDeadLettersStep ==
  ASSUME StoreInv, StoreInv', ReplaysAreOfDeadLetters, TargetStep
  PROVE  ReplaysAreOfDeadLetters'
<1>1. SUFFICES ASSUME NEW t \in DOMAIN targets', NEW d \in targets'[t].of
               PROVE  /\ targets'[t].of = {d} /\ t.purpose = "replay"
                      /\ d.event = t.event /\ d.sub = t.sub
                      /\ d \in DOMAIN deliveries'
                      /\ deliveries'[d].status \in {"dead_lettered", "skipped"}
  BY DEF ReplaysAreOfDeadLetters
<1>2. CASE t \notin DOMAIN targets
  BY <1>2 DEF TargetStep, NewTargets, MayReplay, UnresolvedDeadLetter
<1>3. CASE t \in DOMAIN targets
  <2>1. d \in targets[t].of /\ targets'[t].of = targets[t].of
    BY <1>3 DEF TargetStep, KeptTargets
  <2>2. /\ targets'[t].of = {d} /\ t.purpose = "replay" /\ d.event = t.event /\ d.sub = t.sub
        /\ d \in DOMAIN deliveries /\ deliveries[d].status \in {"dead_lettered", "skipped"}
    BY <1>3, <2>1 DEF ReplaysAreOfDeadLetters
  <2>3. d \in DOMAIN deliveries'
    BY <1>3, <2>2 DEF TargetStep, RemovedWithEvent
  <2> QED
    BY <2>2, <2>3 DEF TargetStep, KeptDeliveries, AttemptTerminal
<1> QED
  BY <1>2, <1>3

LEMMA DependsOnOwnRevisionStep ==
  ASSUME DependsOnOwnRevision, TargetStep
  PROVE  DependsOnOwnRevision'
<1>1. SUFFICES ASSUME NEW t \in DOMAIN targets', NEW c \in targets'[t].dep
               PROVE  /\ c \in DOMAIN targets' /\ c.sub = t.sub /\ c.rev = t.rev
                      /\ c.purpose = "replay" => ReplayAnswersCause
  BY DEF DependsOnOwnRevision
<1>2. CASE t \notin DOMAIN targets
  BY <1>2 DEF TargetStep, NewTargets, MayDependOn
<1>3. CASE t \in DOMAIN targets
  <2>1. c \in targets[t].dep
    BY <1>3 DEF TargetStep, KeptTargets
  <2>2. c \in DOMAIN targets /\ c.sub = t.sub /\ c.rev = t.rev /\ (c.purpose = "replay" => ReplayAnswersCause)
    BY <1>3, <2>1 DEF DependsOnOwnRevision
  <2>3. c \in DOMAIN targets'
    BY <1>3, <2>1, <2>2 DEF TargetStep, RemovedWithEvent
  <2> QED
    BY <2>2, <2>3
<1> QED
  BY <1>2, <1>3

LEMMA CurrentIsLiveStep ==
  ASSUME StoreInv, StoreInv', MadeForRevision, CurrentIsLive, TargetStep
  PROVE  CurrentIsLive'
<1>1. SUFFICES ASSUME NEW t \in DOMAIN targets', subs'[t.sub].status = "active",
                      t.rev = subs'[t.sub].revision, t.purpose # "replay"
               PROVE  /\ targets'[t].status # "cancelled"
                      /\ t \in DOMAIN deliveries' => deliveries'[t].status # "cancelled"
  BY DEF CurrentIsLive
<1>2. DOMAIN deliveries \subseteq DOMAIN targets
  BY DEF StoreInv, StoreTypeOK
<1>3. CASE t \notin DOMAIN targets
  BY <1>2, <1>3 DEF TargetStep, NewTargets, NewDeliveries
<1>4. CASE t \in DOMAIN targets
  <2>1. /\ t.rev <= subs[t.sub].revision /\ subs[t.sub].status # "pending"
        /\ t.sub \in DOMAIN subs /\ subs[t.sub].revision \in Nat
    BY <1>4, ConstantsOK DEF MadeForRevision, StoreInv, StoreTypeOK, Subscription, Revisions
  <2>2. subs[t.sub].status = "active" /\ subs[t.sub].revision = t.rev
    BY <1>1, <2>1 DEF TargetStep, SubscriptionStep
  <2>3. ~MayCancel(t)
    BY <1>1 DEF MayCancel
  <2>4. targets'[t].status # "cancelled"
    BY <1>1, <1>4, <2>2, <2>3 DEF TargetStep, CancelStep, CurrentIsLive
  <2>5. ASSUME t \in DOMAIN deliveries' PROVE deliveries'[t].status # "cancelled"
    <3>1. CASE t \in DOMAIN deliveries
      BY <1>1, <1>4, <2>2, <2>3, <2>5, <3>1 DEF TargetStep, CancelStep, CurrentIsLive
    <3>2. CASE t \notin DOMAIN deliveries
      BY <2>5, <3>2 DEF TargetStep, NewDeliveries
    <3> QED
      BY <3>1, <3>2
  <2> QED
    BY <2>4, <2>5
<1> QED
  BY <1>3, <1>4

LEMMA InFlightIsAttemptedStep ==
  ASSUME InFlightIsAttempted, TargetStep
  PROVE  InFlightIsAttempted'
BY DEF InFlightIsAttempted, TargetStep, KeptDeliveries, NewDeliveries

LEMMA CompletedMeansSettledStep ==
  ASSUME CompletedMeansSettled, TargetStep
  PROVE  CompletedMeansSettled'
BY DEF CompletedMeansSettled, TargetStep, KeptTargets, NewTargets

LEMMA SwitchedOffIsQuietStep ==
  ASSUME StoreInv, MadeForRevision, SwitchedOffIsQuiet, TargetStep
  PROVE  SwitchedOffIsQuiet'
<1>1. SUFFICES ASSUME NEW t \in DOMAIN targets', subs'[t.sub].status \in {"disabled", "deleted"}
               PROVE  /\ targets'[t].status # "pending"
                      /\ t \in DOMAIN deliveries' => deliveries'[t].status # "pending"
  BY DEF SwitchedOffIsQuiet
<1>2. t \in DOMAIN targets
  BY <1>1 DEF TargetStep, NewTargets
<1>3. t.sub \in DOMAIN subs /\ subs[t.sub].status # "pending"
  BY <1>2 DEF StoreInv, MadeForRevision
<1>4. subs[t.sub].status = subs'[t.sub].status \/ Withdrawn(t)
  BY <1>1, <1>2, <1>3 DEF TargetStep, SubscriptionStep
<1>5. CASE Withdrawn(t)
  BY <1>1, <1>5 DEF Withdrawn
<1>6. CASE subs[t.sub].status = subs'[t.sub].status
  <2>1. targets[t].status # "pending" /\ (t \in DOMAIN deliveries => deliveries[t].status # "pending")
    BY <1>1, <1>2, <1>6 DEF SwitchedOffIsQuiet
  <2>2. targets'[t].status # "pending"
    BY <1>1, <1>2, <2>1 DEF TargetStep, KeptTargets
  <2>3. ASSUME t \in DOMAIN deliveries' PROVE deliveries'[t].status # "pending"
    BY <2>1, <2>3 DEF TargetStep, KeptDeliveries, NewDeliveries
  <2> QED
    BY <2>2, <2>3
<1> QED
  BY <1>4, <1>5, <1>6

\* A replay that is open after the step was open before, or is just made.
LEMMA OpenReplaysStep ==
  ASSUME StoreInv, AuditInv, AuditInv', TargetStep, NEW d, NEW t \in OpenReplays(d)'
  PROVE  t \in OpenReplays(d) \/ (t \notin DOMAIN targets /\ MayReplay(t, d))
<1>1. t \in DOMAIN targets' /\ d \in targets'[t].of
      /\ \/ targets'[t].status = "pending"
         \/ targets'[t].status = "materialized" /\ ~AttemptTerminal(deliveries'[t].status)
  BY DEF OpenReplays, ReplaysOf
<1>2. CASE t \notin DOMAIN targets
  BY <1>1, <1>2 DEF TargetStep, NewTargets
<1>3. CASE t \in DOMAIN targets
  <2>1. d \in targets[t].of
    BY <1>1, <1>3 DEF TargetStep, KeptTargets
  <2>2. CASE targets[t].status = "pending"
    BY <1>3, <2>1, <2>2 DEF OpenReplays, ReplaysOf
  <2>3. CASE targets[t].status # "pending"
    <3>1. /\ targets[t].status = "materialized" /\ targets'[t].status = "materialized"
          /\ ~AttemptTerminal(deliveries'[t].status)
      BY <1>1, <1>3, <2>3 DEF TargetStep, KeptTargets
    <3>2. t \in DOMAIN deliveries /\ t \in DOMAIN deliveries'
      BY <1>1, <1>3, <2>3, <3>1 DEF AuditInv, OwnedWhileInFlight
    <3>3. ~AttemptTerminal(deliveries[t].status)
      BY <3>1, <3>2 DEF TargetStep, KeptDeliveries, AttemptTerminal
    <3> QED
      BY <1>3, <2>1, <3>1, <3>3 DEF OpenReplays, ReplaysOf
  <2> QED
    BY <2>2, <2>3
<1> QED
  BY <1>2, <1>3

LEMMA OneOpenReplayStep ==
  ASSUME StoreInv, AuditInv, AuditInv', ReplaysAreOfDeadLetters, ReplaysResolve, TargetStep,
         NEW d \in DOMAIN deliveries', NEW t \in OpenReplays(d)', NEW u \in OpenReplays(d)'
  PROVE  t = u
<1>1. CASE t \in OpenReplays(d) /\ u \in OpenReplays(d)
  <2>1. t \in DOMAIN targets /\ d \in targets[t].of
    BY <1>1 DEF OpenReplays, ReplaysOf
  <2>2. d \in DOMAIN deliveries
    BY <2>1 DEF ReplaysAreOfDeadLetters
  <2> QED
    BY <1>1, <2>2 DEF ReplaysResolve
<1>2. CASE t \notin OpenReplays(d) \/ u \notin OpenReplays(d)
  <2>1. OpenReplays(d) = {} /\ t \notin DOMAIN targets /\ u \notin DOMAIN targets
        /\ MayReplay(t, d) /\ MayReplay(u, d)
    BY <1>2, OpenReplaysStep DEF MayReplay
  <2>2. u \in DOMAIN targets' /\ d \in targets'[u].of
    BY DEF OpenReplays, ReplaysOf
  <2> QED
    BY <2>1, <2>2 DEF MayReplay
<1> QED
  BY <1>1, <1>2

LEMMA ReplaysResolveStep ==
  ASSUME StoreInv, StoreInv', AuditInv, AuditInv', ReplaysAreOfDeadLetters,
         ReplaysAreOfDeadLetters', ReplaysResolve, TargetStep
  PROVE  ReplaysResolve'
<1>1. SUFFICES ASSUME NEW d \in DOMAIN deliveries', NEW r \in deliveries'[d].resolved
               PROVE  /\ deliveries'[d].status = "dead_lettered" /\ OpenReplays(d)' = {}
                      /\ r \in DOMAIN deliveries' /\ deliveries'[r].status = "succeeded"
                      /\ targets'[r].of = {d}
  BY OneOpenReplayStep DEF ReplaysResolve
<1>2. d \in DOMAIN deliveries
  BY <1>1 DEF TargetStep, NewDeliveries
<1>3. CASE deliveries'[d].resolved = deliveries[d].resolved
  <2>1. /\ deliveries[d].status = "dead_lettered" /\ OpenReplays(d) = {}
        /\ r \in DOMAIN deliveries /\ deliveries[r].status = "succeeded" /\ targets[r].of = {d}
        /\ ~UnresolvedDeadLetter(d)
    BY <1>1, <1>2, <1>3 DEF ReplaysResolve, UnresolvedDeadLetter
  <2>2. deliveries'[d].status = "dead_lettered"
    BY <1>1, <1>2, <2>1 DEF TargetStep, KeptDeliveries, AttemptTerminal
  <2>3. OpenReplays(d)' = {}
    BY <2>1, OpenReplaysStep DEF MayReplay
  <2>4. r \in DOMAIN targets /\ r.event = d.event
    BY <2>1 DEF StoreInv, StoreTypeOK, ReplaysAreOfDeadLetters
  <2>5. r \in DOMAIN deliveries' /\ r \in DOMAIN targets'
    BY <1>1, <1>2, <2>1, <2>4 DEF TargetStep, RemovedWithEvent
  <2>6. deliveries'[r].status = "succeeded"
    BY <2>1, <2>5 DEF TargetStep, KeptDeliveries, AttemptTerminal, UnresolvedDeadLetter
  <2>7. targets'[r].of = {d}
    BY <2>1, <2>4, <2>5 DEF TargetStep, KeptTargets
  <2> QED
    BY <2>2, <2>3, <2>5, <2>6, <2>7
<1>4. CASE deliveries'[d].resolved # deliveries[d].resolved
  <2>1. PICK x : ResolvedBy(d, x)
    BY <1>1, <1>2, <1>4 DEF TargetStep, KeptDeliveries
  <2>2. x = r /\ ResolvedBy(d, r)
    BY <1>1, <2>1 DEF ResolvedBy
  <2>3. r \in DOMAIN targets /\ r \in DOMAIN targets' /\ targets[r].status = "materialized"
    BY <2>2 DEF ResolvedBy, StoreInv, StoreTypeOK, AuditInv, OwnedWhileInFlight
  <2>4. r \in OpenReplays(d)
    BY <2>2, <2>3 DEF ResolvedBy, OpenReplays, ReplaysOf, AttemptTerminal
  <2>5. OpenReplays(d) = {r}
    BY <1>2, <2>4 DEF ReplaysResolve
  <2>6. r \notin OpenReplays(d)'
    <3>1. targets'[r].status = "materialized"
      BY <2>3 DEF TargetStep, KeptTargets
    <3> QED
      BY <2>2, <3>1 DEF ResolvedBy, OpenReplays, AttemptTerminal
  <2>7. OpenReplays(d)' = {}
    BY <2>5, <2>6, OpenReplaysStep DEF MayReplay
  <2>8. targets'[r].of = {d}
    BY <2>2, <2>3 DEF ResolvedBy, TargetStep, KeptTargets, ReplaysAreOfDeadLetters
  <2> QED
    BY <2>2, <2>7, <2>8 DEF ResolvedBy
<1> QED
  BY <1>3, <1>4

\* A target that still has work after the step had it before, or is just made.
WorkLeft(t) ==
  \/ targets[t].status = "pending"
  \/ t \in DOMAIN deliveries /\ ~AttemptTerminal(deliveries[t].status)

LEMMA WorkLeftStep ==
  ASSUME StoreInv, TargetStep, NEW t \in DOMAIN targets, t \in DOMAIN targets', WorkLeft(t)'
  PROVE  WorkLeft(t)
<1>1. CASE targets'[t].status = "pending"
  BY <1>1 DEF TargetStep, KeptTargets, WorkLeft
<1>2. CASE t \in DOMAIN deliveries' /\ ~AttemptTerminal(deliveries'[t].status)
  <2>1. CASE t \in DOMAIN deliveries
    BY <1>2, <2>1 DEF TargetStep, KeptDeliveries, WorkLeft, AttemptTerminal
  <2>2. CASE t \notin DOMAIN deliveries
    BY <1>2, <2>2 DEF TargetStep, NewDeliveries, WorkLeft
  <2> QED
    BY <2>1, <2>2
<1> QED
  BY <1>1, <1>2 DEF WorkLeft

LEMMA NoStrandedEffectStep ==
  ASSUME StoreInv, StoreInv', AuditInv, CauseBeforeEffect, TargetInv, TargetStep,
         ~ReplayAnswersCause
  PROVE  NoStrandedEffect'
<1>1. SUFFICES ASSUME NEW t \in DOMAIN targets', WorkLeft(t)', NEW c \in targets'[t].dep
               PROVE  /\ targets'[c].status # "cancelled"
                      /\ c \in DOMAIN deliveries' => deliveries'[c].status # "cancelled"
  BY DEF NoStrandedEffect, WorkLeft
<1>2. CASE t \notin DOMAIN targets
  BY <1>1, <1>2 DEF TargetStep, NewTargets, MayDependOn
<1>3. CASE t \in DOMAIN targets
  <2>1. WorkLeft(t) /\ c \in targets[t].dep
    BY <1>1, <1>3, WorkLeftStep DEF TargetStep, KeptTargets
  <2>2. /\ c \in DOMAIN targets /\ c.sub = t.sub /\ c.rev = t.rev /\ c.purpose # "replay"
        /\ targets[c].status # "cancelled"
        /\ c \in DOMAIN deliveries => deliveries[c].status # "cancelled"
    BY <1>3, <2>1 DEF TargetInv, DependsOnOwnRevision, NoStrandedEffect, WorkLeft
  <2>3. c \in DOMAIN targets'
    BY <1>3, <2>1, <2>2 DEF TargetStep, RemovedWithEvent
  <2>4. ASSUME MayCancel(c)
        PROVE  c \in DOMAIN deliveries /\ deliveries[c].status \notin {"pending", "retry_wait"}
    <3>1. Withdrawn(t)
      BY <1>3, <2>2, <2>4 DEF MayCancel
    <3>2. t \in DOMAIN deliveries /\ deliveries[t].status = "in_flight"
      <4>1. t \in DOMAIN deliveries' /\ ~AttemptTerminal(deliveries'[t].status)
        BY <1>1, <3>1 DEF WorkLeft, Withdrawn
      <4>2. deliveries'[t] \in Delivery
        BY <4>1 DEF StoreInv, StoreTypeOK
      <4>3. deliveries'[t].status = "in_flight"
        BY <3>1, <4>1, <4>2 DEF Withdrawn, AttemptTerminal, Delivery, DeliveryStatus
      <4> QED
        BY <3>1, <4>1, <4>3 DEF Withdrawn
    <3>3. CauseSettled(c)
      BY <2>1, <3>2 DEF TargetInv, InFlightIsAttempted, CauseBeforeEffect, DependencySatisfied
    <3> QED
      BY <3>3 DEF CauseSettled
  <2>5. targets'[c].status # "cancelled"
    <3>1. SUFFICES ASSUME targets'[c].status = "cancelled" PROVE FALSE
      OBVIOUS
    <3>2. MayCancel(c) /\ targets[c].status = "pending"
      BY <2>2, <2>3, <3>1 DEF TargetStep, CancelStep, KeptTargets
    <3> QED
      BY <2>2, <2>4, <3>2 DEF AuditInv, OwnedWhileInFlight
  <2>6. ASSUME c \in DOMAIN deliveries' PROVE deliveries'[c].status # "cancelled"
    <3>1. CASE c \notin DOMAIN deliveries
      BY <2>6, <3>1 DEF TargetStep, NewDeliveries
    <3>2. CASE c \in DOMAIN deliveries
      BY <2>2, <2>4, <2>6, <3>2 DEF TargetStep, CancelStep
    <3> QED
      BY <3>1, <3>2
  <2> QED
    BY <2>5, <2>6
<1> QED
  BY <1>2, <1>3

LEMMA TargetStepSuffices ==
  ASSUME StoreInv, StoreInv', AuditInv, AuditInv', CauseBeforeEffect, TargetInv, TargetStep
  PROVE  TargetInv'
<1>1. MadeForRevision' /\ ReplaysAreOfDeadLetters' /\ DependsOnOwnRevision'
  BY MadeForRevisionStep, ReplaysAreOfDeadLettersStep, DependsOnOwnRevisionStep DEF TargetInv
<1>2. CurrentIsLive' /\ InFlightIsAttempted' /\ CompletedMeansSettled' /\ SwitchedOffIsQuiet'
  BY CurrentIsLiveStep, InFlightIsAttemptedStep, CompletedMeansSettledStep,
     SwitchedOffIsQuietStep DEF TargetInv
<1>3. ReplaysResolve'
  BY <1>1, ReplaysResolveStep DEF TargetInv
<1>4. ~ReplayAnswersCause => NoStrandedEffect'
  BY NoStrandedEffectStep
<1> QED
  BY <1>1, <1>2, <1>3, <1>4 DEF TargetInv

-----------------------------------------------------------------------------
(* Steps that move no target and no delivery, and purging *)

LEMMA QuietTarget ==
  ASSUME StoreInv, SubscriptionStep,
         DOMAIN targets' = DOMAIN targets, DOMAIN deliveries' = DOMAIN deliveries,
         DOMAIN events' = DOMAIN events,
         \A t \in DOMAIN targets : /\ targets'[t].status = targets[t].status
                                  /\ targets'[t].dep = targets[t].dep
                                  /\ targets'[t].of = targets[t].of,
         \A d \in DOMAIN deliveries : /\ deliveries'[d].status = deliveries[d].status
                                     /\ deliveries'[d].resolved = deliveries[d].resolved
                                     /\ deliveries'[d].count = deliveries[d].count,
         \A e \in DOMAIN events : events'[e].fanout = events[e].fanout
  PROVE  TargetStep
<1>1. \A t \in DOMAIN targets : t.event \in DOMAIN events
  BY DEF StoreInv
<1>2. DOMAIN deliveries \subseteq DOMAIN targets
  BY DEF StoreInv, StoreTypeOK
<1>3. KeptTargets /\ KeptDeliveries /\ NewDeliveries /\ NewTargets /\ CancelStep
  BY <1>1 DEF KeptTargets, KeptDeliveries, NewDeliveries, NewTargets, CancelStep
<1>4. RemovedWithEvent
  BY <1>1, <1>2 DEF RemovedWithEvent
<1> QED
  BY <1>3, <1>4 DEF TargetStep

LEMMA SameSubscriptions ==
  ASSUME subs' = subs
  PROVE  SubscriptionStep
BY DEF SubscriptionStep

LEMMA UntouchedTarget ==
  ASSUME StoreInv, UNCHANGED <<targets, deliveries, events, subs>>
  PROVE  TargetStep
BY QuietTarget, SameSubscriptions

LEMMA CreateSubscriptionTarget ==
  ASSUME StoreInv, NEW s, NEW g, NEW f, NEW status, CreateSubscription(s, g, f, status)
  PROVE  TargetStep
<1>1. SubscriptionStep
  BY DEF CreateSubscription, SubscriptionStep
<1> QED
  BY <1>1, QuietTarget DEF CreateSubscription

\* Only the status of subscriptions in S changes.
LEMMA StatusChange ==
  ASSUME StoreInv, NEW S, NEW st,
         subs' = [s \in DOMAIN subs |->
                    IF s \in S THEN [subs[s] EXCEPT !.status = st] ELSE subs[s]]
  PROVE  \A s \in DOMAIN subs :
           /\ s \in DOMAIN subs' /\ subs'[s].revision = subs[s].revision
           /\ subs'[s].status = IF s \in S THEN st ELSE subs[s].status
<1>1. \A s \in DOMAIN subs : subs[s] \in Subscription
  BY DEF StoreInv, StoreTypeOK
<1> QED
  BY <1>1 DEF Subscription

LEMMA CancelPendingTarget ==
  ASSUME StoreInv, NEW g, CancelPendingSubscriptions(g)
  PROVE  TargetStep
<1>1. SubscriptionStep
  BY StatusChange DEF CancelPendingSubscriptions, PendingSubs, SubscriptionStep
<1> QED
  BY <1>1, QuietTarget DEF CancelPendingSubscriptions

LEMMA ClaimFanoutTarget ==
  ASSUME StoreInv, NEW B, NEW owner, ClaimFanoutTargets(B, owner)
  PROVE  TargetStep
<1>1. \A x \in Target : LET y == [x EXCEPT !.owner = owner, !.lease = Lease]
                        IN y.status = x.status /\ y.dep = x.dep /\ y.of = x.of
  BY DEF Target
<1>2. \A t \in DOMAIN targets : targets[t] \in Target
  BY DEF StoreInv, StoreTypeOK
<1> QED
  BY <1>1, <1>2, QuietTarget, SameSubscriptions DEF ClaimFanoutTargets

LEMMA TickTarget ==
  ASSUME StoreInv, ClockTick
  PROVE  TargetStep
<1>1. \A x \in Target : LET y == [x EXCEPT !.lease = Dec(@)]
                        IN y.status = x.status /\ y.dep = x.dep /\ y.of = x.of
  BY DEF Target
<1>2. \A x \in Delivery : LET y == [x EXCEPT !.lease = Dec(@), !.wait = Dec(@)]
                          IN y.status = x.status /\ y.resolved = x.resolved /\ y.count = x.count
  BY DEF Delivery
<1>3. /\ \A t \in DOMAIN targets : targets[t] \in Target
      /\ \A d \in DOMAIN deliveries : deliveries[d] \in Delivery
  BY DEF StoreInv, StoreTypeOK
<1>4. /\ targets' = [t \in DOMAIN targets |-> [targets[t] EXCEPT !.lease = Dec(@)]]
      /\ deliveries' = [d \in DOMAIN deliveries |->
                          [deliveries[d] EXCEPT !.lease = Dec(@), !.wait = Dec(@)]]
      /\ UNCHANGED <<events, subs>>
  BY DEF ClockTick
<1> QED
  BY <1>1, <1>2, <1>3, <1>4, QuietTarget, SameSubscriptions

LEMMA RenewTarget ==
  ASSUME StoreInv, NEW d, NEW owner, NEW n, RenewDeliveryLease(d, owner, n)
  PROVE  TargetStep
<1>1. \A x \in Delivery : LET y == [x EXCEPT !.lease = Lease]
                          IN y.status = x.status /\ y.resolved = x.resolved /\ y.count = x.count
  BY DEF Delivery
<1>2. \A x \in DOMAIN deliveries : deliveries[x] \in Delivery
  BY DEF StoreInv, StoreTypeOK
<1>3. deliveries' = [deliveries EXCEPT ![d].lease = Lease] /\ UNCHANGED <<targets, events, subs>>
  BY DEF RenewDeliveryLease
<1>4. DOMAIN deliveries' = DOMAIN deliveries
      /\ \A x \in DOMAIN deliveries : /\ deliveries'[x].status = deliveries[x].status
                                       /\ deliveries'[x].resolved = deliveries[x].resolved
                                       /\ deliveries'[x].count = deliveries[x].count
  BY <1>1, <1>2, <1>3
<1> QED
  BY <1>3, <1>4, QuietTarget, SameSubscriptions

LEMMA RetentionTarget ==
  ASSUME StoreInv, NEW e, RetentionElapses(e)
  PROVE  TargetStep
<1>1. \A x \in DOMAIN events : events[x] \in Event
  BY DEF StoreInv, StoreTypeOK
<1>2. events' = [events EXCEPT ![e].expired = TRUE] /\ UNCHANGED <<targets, deliveries, subs>>
  BY DEF RetentionElapses
<1>3. DOMAIN events' = DOMAIN events /\ \A x \in DOMAIN events : events'[x].fanout = events[x].fanout
  BY <1>1, <1>2 DEF Event
<1> QED
  BY <1>2, <1>3, QuietTarget, SameSubscriptions

LEMMA PurgeTarget ==
  ASSUME StoreInv, NEW E, PurgeExpired(E)
  PROVE  TargetStep
<1>1. /\ targets' = [t \in {x \in DOMAIN targets : x.event \notin E} |-> targets[t]]
      /\ deliveries' = [t \in {x \in DOMAIN deliveries : x.event \notin E} |-> deliveries[t]]
      /\ events' = [e \in DOMAIN events \ E |-> events[e]]
      /\ subs' = subs /\ \A e \in E : Purgeable(e)
  BY DEF PurgeExpired
<1>2. \A t \in DOMAIN targets : t.event \in DOMAIN events
  BY DEF StoreInv
<1>3. DOMAIN deliveries \subseteq DOMAIN targets
  BY DEF StoreInv, StoreTypeOK
<1>4. RemovedWithEvent
  <2>1. /\ \A t \in DOMAIN targets : t \in DOMAIN targets' <=> t.event \in DOMAIN events'
        /\ \A d \in DOMAIN deliveries : d \in DOMAIN deliveries' <=> d.event \in DOMAIN events'
    BY <1>1, <1>2, <1>3
  <2>2. \A t \in DOMAIN targets \ DOMAIN targets' : \A u \in DOMAIN targets : t \notin targets[u].dep
    BY <1>1 DEF Purgeable
  <2> QED
    BY <2>1, <2>2 DEF RemovedWithEvent
<1>5. KeptTargets /\ NewTargets
  BY <1>1, <1>2 DEF KeptTargets, NewTargets
<1>6. KeptDeliveries /\ NewDeliveries /\ CancelStep
  BY <1>1 DEF KeptDeliveries, NewDeliveries, CancelStep
<1> QED
  BY <1>1, <1>4, <1>5, <1>6, SameSubscriptions DEF TargetStep

-----------------------------------------------------------------------------
(* Fanout and dispatch *)

\* An event with a pending target is not settled.
LEMMA SettlePending ==
  ASSUME NEW ts, NEW E, NEW t \in DOMAIN ts, ts[t].status = "pending", t.event \in DOMAIN events
  PROVE  SettleFanout(events, ts, E)[t.event] = events[t.event]
BY DEF SettleFanout

LEMMA MaterializeTarget ==
  ASSUME StoreInv, NEW t, NEW owner, NEW status \in {"pending", "dead_lettered"},
         MaterializeFanoutTarget(t, owner, status)
  PROVE  TargetStep
<1> DEFINE ts == [targets EXCEPT ![t].status = "materialized", ![t].owner = NoOwner, ![t].lease = 0]
           new == [status |-> status, count |-> 0, owner |-> NoOwner,
                   lease |-> 0, wait |-> 0, resolved |-> {}]
<1>1. /\ t \in DOMAIN targets /\ t \notin DOMAIN deliveries /\ targets[t].status = "pending"
      /\ targets' = ts /\ events' = SettleFanout(events, ts, {t.event}) /\ subs' = subs
      /\ deliveries' = [d \in DOMAIN deliveries \cup {t} |-> IF d = t THEN new ELSE deliveries[d]]
  BY DEF MaterializeFanoutTarget, HoldsTarget
<1>2. /\ \A x \in DOMAIN targets : targets[x] \in Target /\ x.event \in DOMAIN events
      /\ DOMAIN deliveries \subseteq DOMAIN targets
      /\ \A e \in DOMAIN events : events[e] \in Event
  BY DEF StoreInv, StoreTypeOK
<1>3. /\ DOMAIN ts = DOMAIN targets /\ ts[t].status = "materialized"
      /\ \A x \in DOMAIN targets : ts[x].dep = targets[x].dep /\ ts[x].of = targets[x].of
      /\ \A x \in DOMAIN targets : x # t => ts[x].status = targets[x].status
  BY <1>1, <1>2 DEF Target
<1>4. new.status = status /\ new.resolved = {}
  OBVIOUS
<1> HIDE DEF ts, new
<1>5. DOMAIN events' = DOMAIN events
  BY <1>1 DEF SettleFanout
<1>6. KeptTargets
  <2>1. ASSUME NEW x \in DOMAIN targets, ts[x].status = "pending"
        PROVE  events'[x.event] = events[x.event]
    BY <1>1, <1>2, <1>3, <2>1 DEF SettleFanout
  <2> QED
    BY <1>1, <1>3, <2>1 DEF KeptTargets
<1>7. /\ DOMAIN deliveries' = DOMAIN deliveries \cup {t} /\ deliveries'[t] = new
      /\ \A d \in DOMAIN deliveries : deliveries'[d] = deliveries[d]
  BY <1>1
<1>8. NewTargets /\ NewDeliveries /\ KeptDeliveries
  BY <1>1, <1>3, <1>4, <1>7 DEF NewTargets, NewDeliveries, KeptDeliveries
<1>9. RemovedWithEvent
  BY <1>1, <1>2, <1>3, <1>5, <1>7 DEF RemovedWithEvent
<1>10. CancelStep
  BY <1>1, <1>3, <1>7 DEF CancelStep
<1> QED
  BY <1>1, <1>6, <1>8, <1>9, <1>10, SameSubscriptions DEF TargetStep

\* Targets, events and subscriptions stay, and deliveries move without being
\* cancelled.
LEMMA DispatchedTarget ==
  ASSUME StoreInv, UNCHANGED <<targets, events, subs>>, DOMAIN deliveries' = DOMAIN deliveries,
         KeptDeliveries,
         \A d \in DOMAIN deliveries : deliveries'[d].status = "cancelled" =>
                                        deliveries[d].status = "cancelled"
  PROVE  TargetStep
<1>1. /\ \A t \in DOMAIN targets : t.event \in DOMAIN events
      /\ DOMAIN deliveries \subseteq DOMAIN targets
  BY DEF StoreInv, StoreTypeOK
<1>2. KeptTargets /\ NewTargets /\ NewDeliveries /\ CancelStep
  BY DEF KeptTargets, NewTargets, NewDeliveries, CancelStep
<1>3. RemovedWithEvent
  BY <1>1 DEF RemovedWithEvent
<1> QED
  BY <1>2, <1>3, SameSubscriptions DEF TargetStep

LEMMA ClaimDeliveriesTarget ==
  ASSUME StoreInv, NEW B, NEW owner, ClaimDeliveries(B, owner)
  PROVE  TargetStep
<1>1. \A d \in B : d \in DOMAIN deliveries /\ ~AttemptTerminal(deliveries[d].status)
  BY DEF ClaimDeliveries, EligibleDeliveries, Eligible, Due, AttemptTerminal
<1>2. /\ deliveries' = [d \in DOMAIN deliveries |->
                          IF d \in B THEN [deliveries[d] EXCEPT
                                             !.status = "in_flight", !.count = @ + 1,
                                             !.owner = owner, !.lease = Lease, !.wait = 0]
                          ELSE deliveries[d]]
      /\ UNCHANGED <<targets, events, subs>>
  BY DEF ClaimDeliveries
<1>3. \A d \in DOMAIN deliveries : deliveries[d] \in Delivery
  BY DEF StoreInv, StoreTypeOK
<1>4. \A x \in Delivery :
        LET y == [x EXCEPT !.status = "in_flight", !.count = @ + 1,
                           !.owner = owner, !.lease = Lease, !.wait = 0]
        IN y.status = "in_flight" /\ y.resolved = x.resolved /\ y.count > 0
  BY ConstantsOK DEF Delivery
<1>5. \A d \in B : /\ deliveries'[d].status = "in_flight"
                   /\ deliveries'[d].resolved = deliveries[d].resolved
                   /\ deliveries'[d].count > 0
  BY <1>1, <1>2, <1>3, <1>4
<1>6. DOMAIN deliveries' = DOMAIN deliveries
      /\ \A d \in DOMAIN deliveries \ B : deliveries'[d] = deliveries[d]
  BY <1>2
<1>7. KeptDeliveries
  BY <1>1, <1>5, <1>6 DEF KeptDeliveries
<1> QED
  BY <1>2, <1>5, <1>6, <1>7, DispatchedTarget

LEMMA CompleteTarget ==
  ASSUME StoreInv, NEW d, NEW owner, NEW n, NEW result, NEW wait,
         NEW status \in {"succeeded", "retry_wait", "dead_lettered"},
         CompleteDeliveryAttempt(d, owner, n, result, status, wait)
  PROVE  TargetStep
<1>1. d \in DOMAIN deliveries /\ deliveries[d].status = "in_flight"
  BY DEF CompleteDeliveryAttempt, HoldsDelivery
<1>2. /\ deliveries' =
           [x \in DOMAIN deliveries |->
              IF x = d THEN Move(d, status, wait)
              ELSE IF /\ status = "succeeded" /\ x \in targets[d].of
                      /\ deliveries[x].status = "dead_lettered" /\ deliveries[x].resolved = {}
                   THEN [deliveries[x] EXCEPT !.resolved = {d}]
              ELSE deliveries[x]]
      /\ UNCHANGED <<targets, events, subs>>
  BY DEF CompleteDeliveryAttempt
<1>3. \A x \in DOMAIN deliveries : deliveries[x] \in Delivery
  BY DEF StoreInv, StoreTypeOK
<1>4. /\ deliveries'[d].status = status /\ deliveries'[d].resolved = deliveries[d].resolved
      /\ DOMAIN deliveries' = DOMAIN deliveries
  BY <1>1, <1>2, <1>3 DEF Move, Delivery
<1>5. \A x \in Delivery : [x EXCEPT !.resolved = {d}].status = x.status
                          /\ [x EXCEPT !.resolved = {d}].resolved = {d}
  BY DEF Delivery
<1>6. ASSUME NEW x \in DOMAIN deliveries, x # d, deliveries'[x] # deliveries[x]
      PROVE  ResolvedBy(x, d) /\ deliveries'[x].status = deliveries[x].status
  BY <1>1, <1>2, <1>3, <1>4, <1>5, <1>6 DEF ResolvedBy, UnresolvedDeadLetter
<1>7. KeptDeliveries
  <2>1. SUFFICES ASSUME NEW x \in DOMAIN deliveries
                 PROVE  /\ \/ deliveries'[x].status = deliveries[x].status
                           \/ ~AttemptTerminal(deliveries[x].status) /\ deliveries'[x].status # "pending"
                        /\ \/ deliveries'[x].resolved = deliveries[x].resolved
                           \/ \E r : ResolvedBy(x, r)
                        /\ deliveries'[x].status = "in_flight" =>
                             /\ deliveries[x].status = "in_flight"
                             /\ deliveries'[x].count = deliveries[x].count
    BY DEF KeptDeliveries
  <2>2. CASE x = d
    BY <1>1, <1>4, <2>2 DEF AttemptTerminal
  <2>3. CASE x # d /\ deliveries'[x] = deliveries[x]
    BY <2>3
  <2>4. CASE x # d /\ deliveries'[x] # deliveries[x]
    BY <1>6, <2>4 DEF ResolvedBy
  <2> QED
    BY <2>2, <2>3, <2>4
<1> QED
  BY <1>2, <1>4, <1>6, <1>7, DispatchedTarget

-----------------------------------------------------------------------------
(* Withdrawing work *)

LEMMA CancelFields ==
  ASSUME StoreInv, NEW W, NEW t \in DOMAIN targets
  PROVE  /\ CancelTargets(W)[t].dep = targets[t].dep /\ CancelTargets(W)[t].of = targets[t].of
         /\ CancelTargets(W)[t].status =
              IF t \in W /\ targets[t].status = "pending" THEN "cancelled" ELSE targets[t].status
         /\ t \in DOMAIN deliveries =>
              /\ CancelDeliveries(W)[t].resolved = deliveries[t].resolved
              /\ CancelDeliveries(W)[t].count = deliveries[t].count
              /\ CancelDeliveries(W)[t].status =
                   IF t \in W /\ deliveries[t].status \in {"pending", "retry_wait"} THEN "cancelled"
                   ELSE deliveries[t].status
<1>1. targets[t] \in Target /\ (t \in DOMAIN deliveries => deliveries[t] \in Delivery)
  BY DEF StoreInv, StoreTypeOK
<1>2. t \in DOMAIN deliveries =>
        /\ Move(t, "cancelled", 0).resolved = deliveries[t].resolved
        /\ Move(t, "cancelled", 0).count = deliveries[t].count
        /\ Move(t, "cancelled", 0).status = "cancelled"
  BY <1>1 DEF Move, Delivery
<1>3. LET y == [targets[t] EXCEPT !.status = "cancelled", !.owner = NoOwner, !.lease = 0]
      IN y.status = "cancelled" /\ y.dep = targets[t].dep /\ y.of = targets[t].of
  BY <1>1 DEF Target
<1>4. CancelTargets(W)[t] =
        IF t \in W /\ targets[t].status = "pending"
        THEN [targets[t] EXCEPT !.status = "cancelled", !.owner = NoOwner, !.lease = 0]
        ELSE targets[t]
  BY DEF CancelTargets
<1>5. t \in DOMAIN deliveries =>
        CancelDeliveries(W)[t] =
          IF t \in W /\ deliveries[t].status \in {"pending", "retry_wait"}
          THEN Move(t, "cancelled", 0) ELSE deliveries[t]
  BY DEF CancelDeliveries
<1> QED
  BY <1>2, <1>3, <1>4, <1>5

LEMMA CancelWithdraws ==
  ASSUME StoreInv, NEW W, targets' = CancelTargets(W), deliveries' = CancelDeliveries(W),
         NEW t \in DOMAIN targets, t \in W
  PROVE  Withdrawn(t)
<1>1. DOMAIN deliveries' = DOMAIN deliveries
  BY DEF CancelDeliveries
<1> QED
  BY <1>1, CancelFields DEF Withdrawn

LEMMA WithdrawTarget ==
  ASSUME StoreInv, NEW W, NEW E, SubscriptionStep,
         targets' = CancelTargets(W), deliveries' = CancelDeliveries(W),
         events' = SettleFanout(events, CancelTargets(W), E),
         \A t \in DOMAIN targets : t \in W => MayCancel(t)
  PROVE  TargetStep
<1>1. /\ \A t \in DOMAIN targets : t.event \in DOMAIN events
      /\ DOMAIN deliveries \subseteq DOMAIN targets
  BY DEF StoreInv, StoreTypeOK
<1>2. DOMAIN targets' = DOMAIN targets /\ DOMAIN deliveries' = DOMAIN deliveries
      /\ DOMAIN events' = DOMAIN events
  BY DEF CancelTargets, CancelDeliveries, SettleFanout
<1>3. \A t \in DOMAIN targets : targets'[t].status = "pending" => events'[t.event] = events[t.event]
  BY <1>1, <1>2, SettlePending
<1>4. KeptTargets
  BY <1>2, <1>3, CancelFields DEF KeptTargets
<1>5. KeptDeliveries
  BY <1>1, <1>2, CancelFields DEF KeptDeliveries, AttemptTerminal
<1>6. NewTargets /\ NewDeliveries
  BY <1>2 DEF NewTargets, NewDeliveries
<1>7. RemovedWithEvent
  BY <1>1, <1>2 DEF RemovedWithEvent
<1>8. CancelStep
  BY <1>1, <1>2, CancelFields DEF CancelStep
<1> QED
  BY <1>4, <1>5, <1>6, <1>7, <1>8 DEF TargetStep

LEMMA ReplaceRevisionTarget ==
  ASSUME StoreInv, MadeForRevision, NEW s, NEW r, NEW status, NEW f, NEW endpoint, NEW cancel,
         ReplaceRevision(s, r, status, f, endpoint, cancel),
         status \in {"disabled", "deleted"} => cancel
  PROVE  TargetStep
<1> DEFINE off == status \in {"disabled", "deleted"}
           W == IF cancel THEN {t \in DOMAIN targets : t.sub = s /\ (off \/ t.rev = r)} ELSE {}
<1>1. /\ targets' = CancelTargets(W) /\ deliveries' = CancelDeliveries(W)
      /\ events' = SettleFanout(events, CancelTargets(W), {t.event : t \in W})
      /\ s \in DOMAIN subs /\ subs[s].revision = r
      /\ status = subs[s].status \/ CanTransition(subs[s].status, status)
      /\ subs' = [subs EXCEPT ![s].status = status, ![s].revision = r + 1,
                    ![s].revisions = Append(@, [filter |-> f, endpoint |-> endpoint])]
  BY DEF ReplaceRevision
<1>2. /\ r \in Nat /\ subs[s] \in Subscription
      /\ \A t \in DOMAIN targets : t.rev \in Nat /\ (t.sub = s => t.rev <= r)
  BY <1>1, ConstantsOK DEF StoreInv, StoreTypeOK, TargetId, Revisions, Subscription, MadeForRevision
<1>3. /\ DOMAIN subs' = DOMAIN subs /\ subs'[s].status = status /\ subs'[s].revision = r + 1
      /\ \A x \in DOMAIN subs : x # s => subs'[x] = subs[x]
  BY <1>1, <1>2 DEF Subscription
<1>4. \A t \in W : Withdrawn(t)
  BY <1>1, CancelWithdraws
<1>5. off => \A t \in DOMAIN targets : t.sub = s => t \in W
  OBVIOUS
<1>6. \A t \in W : t.sub = s /\ \A u \in DOMAIN targets : u.sub = s /\ u.rev = t.rev => u \in W
  OBVIOUS
<1>7. W \subseteq DOMAIN targets
  OBVIOUS
<1> HIDE DEF W
<1>8. SubscriptionStep
  <2>1. \A t \in DOMAIN targets : off /\ t.sub = s => Withdrawn(t)
    BY <1>4, <1>5
  <2>2. status = "pending" => subs[s].status = "pending"
    BY <1>1 DEF CanTransition
  <2>3. subs'[s].revision # subs[s].revision
    BY <1>1, <1>2, <1>3
  <2> QED
    BY <1>1, <1>3, <2>1, <2>2, <2>3 DEF SubscriptionStep
<1>9. \A t \in DOMAIN targets : t \in W => MayCancel(t)
  BY <1>2, <1>3, <1>4, <1>6 DEF MayCancel
<1> QED
  BY <1>1, <1>8, <1>9, WithdrawTarget

LEMMA GroupDeletionTarget ==
  ASSUME StoreInv, NEW g, CommitGroupDeletion(g)
  PROVE  TargetStep
<1> DEFINE S == {s \in ActiveSubs : subs[s].group = g}
           W == {t \in DOMAIN targets : t.sub \in S}
<1>1. /\ targets' = CancelTargets(W) /\ deliveries' = CancelDeliveries(W)
      /\ events' = SettleFanout(events, CancelTargets(W), {t.event : t \in W})
      /\ subs' = [s \in DOMAIN subs |->
                    IF s \in S THEN [subs[s] EXCEPT !.status = "disabled"] ELSE subs[s]]
  BY DEF CommitGroupDeletion
<1>2. S \subseteq DOMAIN subs
  BY DEF ActiveSubs
<1>3. \A t \in DOMAIN targets : t \in W <=> t.sub \in S
  OBVIOUS
<1>4. \A t \in W : Withdrawn(t)
  BY <1>1, CancelWithdraws
<1> HIDE DEF S, W
<1>5. \A s \in DOMAIN subs :
        /\ s \in DOMAIN subs' /\ subs'[s].revision = subs[s].revision
        /\ subs'[s].status = IF s \in S THEN "disabled" ELSE subs[s].status
  BY <1>1, StatusChange
<1>6. SubscriptionStep
  BY <1>3, <1>4, <1>5 DEF SubscriptionStep
<1>7. \A t \in DOMAIN targets : t \in W => MayCancel(t)
  BY <1>2, <1>3, <1>4, <1>5 DEF MayCancel
<1> QED
  BY <1>1, <1>6, <1>7, WithdrawTarget

LEMMA SkipTarget ==
  ASSUME StoreInv, ReplaysAreOfDeadLetters, NEW d, SkipDeadLetteredDelivery(d)
  PROVE  TargetStep
<1> DEFINE W == ReplaysOf(d)
           ds == CancelDeliveries(W)
<1>1. /\ UnresolvedDeadLetter(d) /\ d \in DOMAIN deliveries /\ deliveries[d].status = "dead_lettered"
      /\ deliveries' = [ds EXCEPT ![d].status = "skipped"]
      /\ targets' = CancelTargets(W) /\ events' = events /\ subs' = subs
  BY DEF SkipDeadLetteredDelivery, UnresolvedDeadLetter
<1>2. /\ \A t \in DOMAIN targets : t.event \in DOMAIN events
      /\ DOMAIN deliveries \subseteq DOMAIN targets
  BY DEF StoreInv, StoreTypeOK
<1>3. \A t \in DOMAIN targets :
        /\ targets'[t].dep = targets[t].dep /\ targets'[t].of = targets[t].of
        /\ targets'[t].status =
             IF t \in W /\ targets[t].status = "pending" THEN "cancelled" ELSE targets[t].status
  BY <1>1, CancelFields
<1>4. \A x \in DOMAIN deliveries :
        /\ ds[x].resolved = deliveries[x].resolved /\ ds[x].count = deliveries[x].count
        /\ ds[x].status =
             IF x \in W /\ deliveries[x].status \in {"pending", "retry_wait"} THEN "cancelled"
             ELSE deliveries[x].status
  BY <1>2, CancelFields
<1>5. DOMAIN ds = DOMAIN deliveries /\ \A x \in DOMAIN deliveries : ds[x] \in Delivery
  BY CancelDeliveriesType DEF StoreInv
<1>6. DOMAIN targets' = DOMAIN targets
  BY <1>1 DEF CancelTargets
<1>7. \A t \in W : t.purpose = "replay"
  BY DEF ReplaysOf, ReplaysAreOfDeadLetters
<1> HIDE DEF ds, W
<1>8. /\ DOMAIN deliveries' = DOMAIN deliveries
      /\ deliveries'[d].status = "skipped" /\ deliveries'[d].resolved = deliveries[d].resolved
      /\ \A x \in DOMAIN deliveries : x # d => deliveries'[x] = ds[x]
  BY <1>1, <1>4, <1>5 DEF Delivery
<1>9. KeptTargets /\ NewTargets
  BY <1>1, <1>3, <1>6 DEF KeptTargets, NewTargets
<1>10. KeptDeliveries /\ NewDeliveries
  BY <1>1, <1>4, <1>8 DEF KeptDeliveries, NewDeliveries, AttemptTerminal
<1>11. RemovedWithEvent
  BY <1>1, <1>2, <1>6, <1>8 DEF RemovedWithEvent
<1>12. CancelStep
  BY <1>1, <1>3, <1>4, <1>7, <1>8 DEF CancelStep, MayCancel
<1> QED
  BY <1>1, <1>9, <1>10, <1>11, <1>12, SameSubscriptions DEF TargetStep

-----------------------------------------------------------------------------
(* Adding targets *)

LEMMA ResolveCauseFacts ==
  ASSUME NEW ts, NEW es, NEW cause, NEW s, NEW r, NEW t \in ResolveCause(ts, es, cause, s, r)
  PROVE  /\ t.sub = s /\ t.rev = r /\ t.event \in cause
         /\ t.purpose = "replay" => ReplayAnswersCause
         /\ t \notin DOMAIN ts => t = CauseId(t.event, s, r)
         /\ t \in DOMAIN ts => ts[t].status # "cancelled" \/ t.purpose = "cause"
<1>1. PICK c \in cause :
        LET live == LiveTargets(ts, c, s, r)
            again == ReplaysAnswering(live)
        IN t \in (IF es[c].type \notin FilterOf(s, r) THEN {}
                  ELSE IF NormalId(c, s, r) \in live THEN {NormalId(c, s, r)}
                  ELSE IF CauseId(c, s, r) \in live THEN {CauseId(c, s, r)}
                  ELSE IF again # {} THEN {CHOOSE x \in again : TRUE}
                  ELSE {CauseId(c, s, r)})
  BY DEF ResolveCause
<1> DEFINE again == ReplaysAnswering(LiveTargets(ts, c, s, r))
<1>2. \A x \in again : /\ x \in DOMAIN ts /\ x.event = c /\ x.sub = s /\ x.rev = r
                       /\ ReplayAnswersCause /\ ts[x].status # "cancelled"
  BY DEF ReplaysAnswering, LiveTargets
<1>3. again # {} => (CHOOSE x \in again : TRUE) \in again
  OBVIOUS
<1>4. \/ t = NormalId(c, s, r) /\ t \in DOMAIN ts /\ ts[t].status # "cancelled"
      \/ t = CauseId(c, s, r)
      \/ t \in again
  BY <1>1, <1>3 DEF LiveTargets
<1>5. /\ NormalId(c, s, r).event = c /\ NormalId(c, s, r).sub = s /\ NormalId(c, s, r).rev = r
      /\ CauseId(c, s, r).event = c /\ CauseId(c, s, r).sub = s /\ CauseId(c, s, r).rev = r
      /\ NormalId(c, s, r).purpose = "normal" /\ CauseId(c, s, r).purpose = "cause"
  BY DEF NormalId, CauseId
<1> HIDE DEF again
<1> QED
  BY <1>2, <1>4, <1>5

\* What appends and the backfill add to a log for the subscriptions A.
AddsFor(A, log, new) ==
  /\ OnlyAdds(log, new)
  /\ \A e \in DOMAIN log.events :
       /\ e \in DOMAIN new.events
       /\ new.events[e].fanout = log.events[e].fanout \/ new.events[e].fanout = "pending"
  /\ \A t \in DOMAIN new.targets \ DOMAIN log.targets :
       /\ t.sub \in A /\ t.rev = subs[t.sub].revision
       /\ new.targets[t].of = {} /\ new.events[t.event].fanout = "pending"
       /\ \A c \in new.targets[t].dep :
            /\ c \in DOMAIN new.targets /\ c.sub = t.sub /\ c.rev = t.rev
            /\ c.purpose = "replay" => ReplayAnswersCause
            /\ new.targets[c].status # "cancelled"

LEMMA AddsForTwice ==
  ASSUME NEW A, NEW a, NEW b, NEW c, LogOK(b), AddsFor(A, a, b), AddsFor(A, b, c)
  PROVE  AddsFor(A, a, c)
<1>1. OnlyAdds(a, c)
  BY OnlyAddsTwice DEF AddsFor
<1>2. \A e \in DOMAIN a.events :
        /\ e \in DOMAIN c.events
        /\ c.events[e].fanout = a.events[e].fanout \/ c.events[e].fanout = "pending"
  BY DEF AddsFor
<1>3. ASSUME NEW t \in DOMAIN c.targets \ DOMAIN a.targets
      PROVE  /\ t.sub \in A /\ t.rev = subs[t.sub].revision
             /\ c.targets[t].of = {} /\ c.events[t.event].fanout = "pending"
             /\ \A x \in c.targets[t].dep :
                  /\ x \in DOMAIN c.targets /\ x.sub = t.sub /\ x.rev = t.rev
                  /\ x.purpose = "replay" => ReplayAnswersCause
                  /\ c.targets[x].status # "cancelled"
  <2>1. CASE t \notin DOMAIN b.targets
    BY <2>1 DEF AddsFor
  <2>2. CASE t \in DOMAIN b.targets
    <3>1. c.targets[t] = b.targets[t] /\ t.event \in DOMAIN b.events
      BY <2>2 DEF AddsFor, OnlyAdds, LogOK
    <3>2. c.events[t.event].fanout = "pending"
      BY <1>3, <2>2, <3>1 DEF AddsFor
    <3> QED
      BY <1>3, <2>2, <3>1, <3>2 DEF AddsFor, OnlyAdds
  <2> QED
    BY <2>1, <2>2
<1> QED
  BY <1>1, <1>2, <1>3 DEF AddsFor

LEMMA AddsForStep ==
  ASSUME StoreInv, TargetInv, NEW A \in SUBSET DOMAIN subs, NEW log,
         AddsFor(A, Log, log), BecomesLog(log), deliveries' = deliveries, SubscriptionStep,
         \A s \in A : /\ subs[s].status \in {"active", "pending"} /\ subs'[s].status = "active"
                      /\ subs'[s].revision = subs[s].revision
  PROVE  TargetStep
<1>1. Log.targets = targets /\ Log.events = events /\ targets' = log.targets /\ events' = log.events
  BY DEF Log, BecomesLog
<1>2. /\ \A t \in DOMAIN targets : t.event \in DOMAIN events
      /\ DOMAIN deliveries \subseteq DOMAIN targets
  BY DEF StoreInv, StoreTypeOK
<1>3. /\ DOMAIN targets \subseteq DOMAIN targets'
      /\ \A t \in DOMAIN targets : targets'[t] = targets[t]
      /\ \A t \in DOMAIN targets' \ DOMAIN targets : targets'[t].status = "pending"
      /\ \A e \in DOMAIN events :
           /\ e \in DOMAIN events'
           /\ events'[e].fanout = events[e].fanout \/ events'[e].fanout = "pending"
      /\ \A t \in DOMAIN targets' \ DOMAIN targets :
           /\ t.sub \in A /\ t.rev = subs[t.sub].revision
           /\ targets'[t].of = {} /\ events'[t.event].fanout = "pending"
           /\ \A c \in targets'[t].dep :
                /\ c \in DOMAIN targets' /\ c.sub = t.sub /\ c.rev = t.rev
                /\ c.purpose = "replay" => ReplayAnswersCause
                /\ targets'[c].status # "cancelled"
  BY <1>1 DEF AddsFor, OnlyAdds
<1>4. KeptTargets
  BY <1>2, <1>3 DEF KeptTargets
<1>5. KeptDeliveries /\ NewDeliveries
  BY DEF KeptDeliveries, NewDeliveries
<1>6. RemovedWithEvent
  BY <1>2, <1>3 DEF RemovedWithEvent
<1>7. CancelStep
  BY <1>3 DEF CancelStep
<1>8. ASSUME NEW t \in DOMAIN targets' \ DOMAIN targets, NEW c \in targets'[t].dep
      PROVE  MayDependOn(t, c)
  <2>1. ASSUME ~ReplayAnswersCause, c \in DOMAIN deliveries PROVE deliveries[c].status # "cancelled"
    <3>1. c \in DOMAIN targets /\ c.sub \in A /\ c.rev = subs[c.sub].revision /\ c.purpose # "replay"
      BY <1>2, <1>3, <1>8, <2>1
    <3>2. subs[c.sub].status = "active"
      BY <3>1 DEF TargetInv, MadeForRevision
    <3> QED
      BY <2>1, <3>1, <3>2 DEF TargetInv, CurrentIsLive
  <2> QED
    BY <1>3, <1>8, <2>1 DEF MayDependOn
<1>9. NewTargets
  BY <1>3, <1>8 DEF NewTargets
<1> QED
  BY <1>4, <1>5, <1>6, <1>7, <1>9 DEF TargetStep

LEMMA ReopenFields ==
  ASSUME NEW es, NEW E, \A e \in DOMAIN es : es[e] \in Event
  PROVE  /\ DOMAIN ReopenFanout(es, E) = DOMAIN es
         /\ \A e \in DOMAIN es :
              ReopenFanout(es, E)[e].fanout = IF e \in E THEN "pending" ELSE es[e].fanout
BY DEF ReopenFanout, Event

LEMMA AppendAddsFor ==
  ASSUME StoreTypeOK, NEW log, LogOK(log), NEW A \in SUBSET DOMAIN subs,
         NEW in \in EventInput, CanAppend(log, A, in)
  PROVE  AddsFor(A, log, AppendTo(log, A, in))
<1>1. CASE Deduplicated(log, in)
  BY <1>1 DEF AppendTo, AddsFor, OnlyAdds
<1>2. CASE ~Deduplicated(log, in)
  <2> DEFINE e == log.appended + 1
             M == Matching(A, in)
             D(s) == DependsOn(log, in, s)
             normal == {NormalId(e, s, subs[s].revision) : s \in M}
             prerequisite == (UNION {D(s) : s \in M}) \ DOMAIN log.targets
             record == [group |-> in.group, stream |-> in.stream,
                        seq |-> NextSequence(log, in.stream),
                        type |-> in.type, key |-> in.key, cause |-> in.cause,
                        fanout |-> IF M = {} THEN "completed" ELSE "pending",
                        expired |-> FALSE]
             reopened == ReopenFanout(log.events, {t.event : t \in prerequisite})
             new == AppendTo(log, A, in)
  <2>1. /\ new.events = [x \in DOMAIN log.events \cup {e} |-> IF x = e THEN record ELSE reopened[x]]
        /\ new.targets = [t \in DOMAIN log.targets \cup normal \cup prerequisite |->
                            IF t \in normal THEN NewTarget(e, D(t.sub), {}, {})
                            ELSE IF t \in prerequisite THEN NewTarget(e, {}, {}, {})
                            ELSE log.targets[t]]
    BY <1>2 DEF AppendTo
  <2>2. OnlyAdds(log, new)
    BY AppendOnlyAdds
  <2>3. /\ in.cause \subseteq DOMAIN log.events
        /\ \A s \in M : \A c \in D(s) : c \in DOMAIN log.targets => log.targets[c].status # "cancelled"
    BY <1>2 DEF CanAppend, CauseConflict
  <2>4. M \subseteq A
    BY DEF Matching
  <2>5. \A s \in M : \A c \in D(s) : /\ c.sub = s /\ c.rev = subs[s].revision /\ c.event \in in.cause
                                     /\ c.purpose = "replay" => ReplayAnswersCause
    BY ResolveCauseFacts DEF DependsOn
  <2>6. \A t \in normal : t.event = e /\ t.sub \in M /\ t.rev = subs[t.sub].revision
    BY DEF NormalId
  <2>7. e \notin DOMAIN log.events
    BY DEF LogOK
  <2>8. M # {} => record.fanout = "pending"
    OBVIOUS
  <2>9. /\ DOMAIN reopened = DOMAIN log.events
        /\ \A x \in DOMAIN log.events :
             reopened[x].fanout = IF x \in {t.event : t \in prerequisite} THEN "pending"
                                  ELSE log.events[x].fanout
    BY ReopenFields DEF LogOK
  <2>10. \A a, dep : /\ NewTarget(a, dep, {}, {}).dep = dep /\ NewTarget(a, dep, {}, {}).of = {}
                     /\ NewTarget(a, dep, {}, {}).status = "pending"
    BY DEF NewTarget
  <2>11. \A t \in prerequisite : \E s \in M : t \in D(s) /\ t \notin DOMAIN log.targets
    OBVIOUS
  <2>12. \A s \in M : \A c \in D(s) : c \in DOMAIN log.targets \/ c \in prerequisite
    OBVIOUS
  <2>13. \A x \in DOMAIN log.events : x # e
    BY <2>7
  <2> HIDE DEF e, M, D, normal, prerequisite, record, reopened, new
  <2>14. \A x \in DOMAIN log.events :
           /\ x \in DOMAIN new.events
           /\ new.events[x].fanout = log.events[x].fanout \/ new.events[x].fanout = "pending"
    BY <2>1, <2>9, <2>13
  <2>15. ASSUME NEW t \in DOMAIN new.targets \ DOMAIN log.targets
         PROVE  /\ t.sub \in A /\ t.rev = subs[t.sub].revision
                /\ new.targets[t].of = {} /\ new.events[t.event].fanout = "pending"
                /\ \A c \in new.targets[t].dep :
                     /\ c \in DOMAIN new.targets /\ c.sub = t.sub /\ c.rev = t.rev
                     /\ c.purpose = "replay" => ReplayAnswersCause
                     /\ new.targets[c].status # "cancelled"
    <3>1. CASE t \in normal
      <4>1. new.targets[t] = NewTarget(e, D(t.sub), {}, {}) /\ new.events[t.event] = record
        BY <2>1, <2>6, <3>1
      <4>2. t.sub \in M /\ t.rev = subs[t.sub].revision /\ record.fanout = "pending"
        BY <2>6, <2>8, <3>1
      <4>3. ASSUME NEW c \in D(t.sub)
            PROVE  c \in DOMAIN new.targets /\ new.targets[c].status # "cancelled"
        <5>1. c.event \in DOMAIN log.events
          BY <2>3, <2>5, <4>2
        <5>2. c \notin normal
          BY <2>6, <2>7, <5>1
        <5> QED
          BY <2>1, <2>3, <2>10, <2>11, <2>12, <4>2, <5>2
      <4> QED
        BY <2>4, <2>5, <2>10, <4>1, <4>2, <4>3
    <3>2. CASE t \notin normal
      <4>1. t \in prerequisite /\ new.targets[t] = NewTarget(e, {}, {}, {})
        BY <2>1, <2>15, <3>2
      <4>2. PICK s \in M : t \in D(s)
        BY <2>11, <4>1
      <4>3. t.sub = s /\ t.rev = subs[s].revision /\ t.event \in DOMAIN log.events
        BY <2>3, <2>5, <4>2
      <4>4. new.events[t.event].fanout = "pending"
        BY <2>1, <2>9, <2>13, <4>1, <4>3
      <4> QED
        BY <2>4, <2>10, <4>1, <4>2, <4>3, <4>4
    <3> QED
      BY <3>1, <3>2
  <2> QED
    BY <2>2, <2>14, <2>15 DEF AddsFor, new
<1> QED
  BY <1>1, <1>2

\* The backfill meets no target of the subscriptions it activates.
LEMMA BackfillAddsFor ==
  ASSUME StoreInv, MadeForRevision, NEW S \in SUBSET DOMAIN subs, NEW g \in Groups,
         BackfillCausesStored(S, g), \A s \in S : subs[s].status = "pending"
  PROVE  AddsFor(S, Log, Backfill(S, g))
<1> DEFINE added == Missed(S, g) \ DOMAIN targets
           with == [t \in DOMAIN targets \cup added |->
                      IF t \in added THEN NewTarget(t.event, {}, {}, {}) ELSE targets[t]]
           dep(t) == ResolveCause(with, events, events[t.event].cause, t.sub, t.rev)
           prerequisite == (UNION {dep(t) : t \in added}) \ DOMAIN with
           first(c) == CHOOSE a \in {t.event : t \in {x \in added : c \in dep(x)}} :
                         \A t \in added : c \in dep(t) => a <= t.event
           E == {t.event : t \in added \cup prerequisite}
           new == Backfill(S, g)
<1>1. /\ new.events = ReopenFanout(events, E)
      /\ new.targets = [t \in DOMAIN with \cup prerequisite |->
                          IF t \in added THEN NewTarget(t.event, dep(t), {}, {})
                          ELSE IF t \in prerequisite THEN NewTarget(first(t), {}, {}, {})
                          ELSE targets[t]]
  BY DEF Backfill
<1>2. OnlyAdds(Log, new) /\ Log.targets = targets /\ Log.events = events
  BY BackfillOnlyAdds DEF Log
<1>3. \A t \in added : /\ t.sub \in S /\ t.rev = subs[t.sub].revision /\ t.event \in DOMAIN events
                       /\ events[t.event].cause \subseteq DOMAIN events
  BY DEF Missed, NormalId, BackfillCausesStored
<1>4. DOMAIN with = DOMAIN targets \cup added
  OBVIOUS
<1>5. \A t \in added : \A c \in dep(t) :
        /\ c.sub = t.sub /\ c.rev = t.rev /\ c.event \in events[t.event].cause
        /\ c.purpose = "replay" => ReplayAnswersCause
        /\ c \in DOMAIN with \/ c \in prerequisite
  <2> HIDE DEF with
  <2> QED
    BY ResolveCauseFacts
<1>6. \A t \in prerequisite : \E x \in added : t \in dep(x) /\ t \notin DOMAIN with
  OBVIOUS
<1>7. \A t \in DOMAIN targets : t.sub \notin S
  BY DEF MadeForRevision
<1>8. \A a, d : /\ NewTarget(a, d, {}, {}).dep = d /\ NewTarget(a, d, {}, {}).of = {}
                /\ NewTarget(a, d, {}, {}).status = "pending"
  BY DEF NewTarget
<1>9. \A t \in added \cup prerequisite : t.event \in E
  OBVIOUS
<1>10. /\ DOMAIN new.events = DOMAIN events
       /\ \A x \in DOMAIN events :
            new.events[x].fanout = IF x \in E THEN "pending" ELSE events[x].fanout
  <2>1. \A e \in DOMAIN events : events[e] \in Event
    BY DEF StoreInv, StoreTypeOK
  <2> HIDE DEF E, new
  <2> QED
    BY <1>1, <2>1, ReopenFields
<1> HIDE DEF added, with, dep, prerequisite, first, new, E
<1>11. ASSUME NEW t \in DOMAIN new.targets \ DOMAIN targets
       PROVE  /\ t.sub \in S /\ t.rev = subs[t.sub].revision
              /\ new.targets[t].of = {} /\ new.events[t.event].fanout = "pending"
              /\ \A c \in new.targets[t].dep :
                   /\ c \in DOMAIN new.targets /\ c.sub = t.sub /\ c.rev = t.rev
                   /\ c.purpose = "replay" => ReplayAnswersCause
                   /\ new.targets[c].status # "cancelled"
  <2>1. CASE t \in added
    <3>1. new.targets[t] = NewTarget(t.event, dep(t), {}, {})
      BY <1>1, <1>4, <2>1
    <3>2. ASSUME NEW c \in dep(t) PROVE c \in DOMAIN new.targets /\ new.targets[c].status # "cancelled"
      <4>1. c.sub \in S /\ (c \in DOMAIN with \/ c \in prerequisite)
        BY <1>3, <1>5, <2>1
      <4>2. c \in added \/ c \in prerequisite
        BY <1>4, <1>7, <4>1
      <4> QED
        BY <1>1, <1>4, <1>8, <4>2
    <3> QED
      BY <1>3, <1>5, <1>8, <1>9, <1>10, <2>1, <3>1, <3>2
  <2>2. CASE t \notin added
    <3>1. t \in prerequisite /\ new.targets[t] = NewTarget(first(t), {}, {}, {})
      BY <1>1, <1>4, <1>11, <2>2
    <3>2. PICK x \in added : t \in dep(x)
      BY <1>6, <3>1
    <3>3. t.sub \in S /\ t.rev = subs[t.sub].revision /\ t.event \in DOMAIN events
      BY <1>3, <1>5, <3>2
    <3> QED
      BY <1>8, <1>9, <1>10, <3>1, <3>3
  <2> QED
    BY <2>1, <2>2
<1> QED
  BY <1>2, <1>10, <1>11 DEF AddsFor, new

LEMMA AddsForMore ==
  ASSUME NEW A, NEW S \in SUBSET A, NEW a, NEW b, AddsFor(S, a, b)
  PROVE  AddsFor(A, a, b)
BY DEF AddsFor

LEMMA AppendEventTarget ==
  ASSUME StoreInv, TargetInv, NEW in \in EventInput, AppendEvent(in)
  PROVE  TargetStep
<1>1. ActiveSubs \in SUBSET DOMAIN subs /\ LogOK(Log) /\ StoreTypeOK
  BY LogIsOK DEF ActiveSubs, StoreInv
<1>2. AddsFor(ActiveSubs, Log, AppendTo(Log, ActiveSubs, in))
  BY <1>1, AppendAddsFor DEF AppendEvent
<1>3. subs' = subs /\ \A s \in ActiveSubs : subs[s].status = "active"
  BY DEF AppendEvent, ActiveSubs
<1> QED
  BY <1>1, <1>2, <1>3, AddsForStep, SameSubscriptions DEF AppendEvent

LEMMA FinalizeTarget ==
  ASSUME StoreInv, TargetInv, NEW g \in Groups, NEW created \in EventInput,
         NEW session \in EventInput, FinalizeGroupProvisioning(g, created, session)
  PROVE  TargetStep
<1> DEFINE S == PendingSubs(g)
           A == ActiveSubs \cup S
           log1 == Backfill(S, g)
           log2 == AppendTo(log1, A, created)
           caused == [session EXCEPT !.cause = {log2.appended}]
           log3 == AppendTo(log2, A, caused)
<1>1. /\ S \in SUBSET DOMAIN subs /\ A \in SUBSET DOMAIN subs /\ S \in SUBSET A
      /\ StoreTypeOK /\ MadeForRevision
      /\ BackfillCausesStored(S, g)
      /\ ~Deduplicated(log1, created) /\ CanAppend(log1, A, created)
      /\ \A s \in S : subs[s].status = "pending"
      /\ \A s \in A : subs[s].status \in {"active", "pending"}
      /\ \A s \in A \ S : subs[s].status = "active"
  BY DEF PendingSubs, ActiveSubs, StoreInv, TargetInv, FinalizeGroupProvisioning
<1>2. LogOK(log1) /\ AddsFor(A, Log, log1)
  <2>1. LogOK(log1)
    BY <1>1, BackfillType
  <2>2. AddsFor(S, Log, log1)
    BY <1>1, BackfillAddsFor
  <2> HIDE DEF log1, S, A
  <2> QED
    BY <1>1, <2>1, <2>2, AddsForMore
<1>3. LogOK(log2) /\ log2.appended \in EventIds /\ AddsFor(A, log1, log2)
  BY <1>1, <1>2, AppendType, AppendAddsFor
<1>4. caused \in EventInput
  BY <1>3 DEF EventInput, Causes
<1>5. CanAppend(log2, A, caused) => AddsFor(A, log2, log3)
  BY <1>1, <1>3, <1>4, AppendAddsFor
<1>6. /\ deliveries' = deliveries
      /\ BecomesLog(log2) \/ (CanAppend(log2, A, caused) /\ BecomesLog(log3))
      /\ subs' = [s \in DOMAIN subs |->
                    IF s \in S THEN [subs[s] EXCEPT !.status = "active"] ELSE subs[s]]
  BY DEF FinalizeGroupProvisioning
<1> HIDE DEF log1, log2, log3, caused, S, A
<1>7. AddsFor(A, Log, log2) /\ (CanAppend(log2, A, caused) => AddsFor(A, Log, log3))
  BY <1>2, <1>3, <1>5, AddsForTwice
<1>8. \A s \in DOMAIN subs :
        /\ s \in DOMAIN subs' /\ subs'[s].revision = subs[s].revision
        /\ subs'[s].status = IF s \in S THEN "active" ELSE subs[s].status
  BY <1>6, StatusChange
<1>9. SubscriptionStep
  BY <1>1, <1>8 DEF SubscriptionStep
<1>10. \A s \in A : subs'[s].status = "active" /\ subs'[s].revision = subs[s].revision
  BY <1>1, <1>8
<1> QED
  BY <1>1, <1>6, <1>7, <1>9, <1>10, AddsForStep

LEMMA ReplayTarget ==
  ASSUME StoreInv, AuditInv, TargetInv, NEW d, NEW q, CreateReplayTarget(d, q)
  PROVE  TargetStep
<1> DEFINE r == subs[d.sub].revision
           dep == ResolveCause(targets, events, events[d.event].cause, d.sub, r)
           prerequisite == dep \ DOMAIN targets
           id == ReplayId(d.event, d.sub, r, replays + 1)
           E == {d.event} \cup {t.event : t \in prerequisite}
<1>1. /\ targets' = [t \in DOMAIN targets \cup prerequisite \cup {id} |->
                       IF t = id THEN NewTarget(appended, dep, {d}, {q})
                       ELSE IF t \in prerequisite THEN NewTarget(appended, {}, {}, {})
                       ELSE targets[t]]
      /\ events' = ReopenFanout(events, E)
      /\ deliveries' = deliveries /\ subs' = subs
      /\ UnresolvedDeadLetter(d) /\ OpenReplays(d) = {} /\ subs[d.sub].status = "active"
      /\ events[d.event].cause \subseteq DOMAIN events
      /\ \A c \in dep : c \in DOMAIN targets => targets[c].status # "cancelled"
  BY DEF CreateReplayTarget, CauseConflict
<1>2. /\ \A t \in DOMAIN targets : t.event \in DOMAIN events
      /\ DOMAIN deliveries \subseteq DOMAIN targets /\ d \in DOMAIN deliveries
  BY <1>1 DEF StoreInv, StoreTypeOK, UnresolvedDeadLetter
<1>3. /\ id.event = d.event /\ id.sub = d.sub /\ id.rev = r /\ id.purpose = "replay"
      /\ id.n = replays + 1
  BY DEF ReplayId
<1>4. id \notin DOMAIN targets
  <2>1. replays \in Nat /\ \A t \in DOMAIN targets : t.n \in Nat /\ t.n <= replays
    BY ConstantsOK DEF AuditInv, StoreInv, StoreTypeOK, TargetId
  <2> QED
    BY <1>3, <2>1
<1>5. \A c \in dep : /\ c.sub = d.sub /\ c.rev = r /\ c.event \in events[d.event].cause
                     /\ c.purpose = "replay" => ReplayAnswersCause
                     /\ c \notin DOMAIN targets => c.purpose = "cause"
  <2>1. \A e, s, x : CauseId(e, s, x).purpose = "cause"
    BY DEF CauseId
  <2> QED
    BY <2>1, ResolveCauseFacts
<1>6. /\ DOMAIN events' = DOMAIN events
      /\ \A x \in DOMAIN events : events'[x].fanout = IF x \in E THEN "pending" ELSE events[x].fanout
  BY <1>1, ReopenFields DEF StoreInv, StoreTypeOK
<1>7. \A a, x, y, z : /\ NewTarget(a, x, y, z).status = "pending"
                      /\ NewTarget(a, x, y, z).dep = x /\ NewTarget(a, x, y, z).of = y
  BY DEF NewTarget
<1>8. /\ prerequisite \subseteq dep /\ prerequisite \cap DOMAIN targets = {}
      /\ dep \subseteq DOMAIN targets \cup prerequisite
      /\ d.event \in E /\ \A t \in prerequisite : t.event \in E
  OBVIOUS
<1>9. id \notin prerequisite
  BY <1>3, <1>5, <1>8
<1> HIDE DEF dep, prerequisite, id, r, E
<1>10. /\ DOMAIN targets' = DOMAIN targets \cup prerequisite \cup {id}
       /\ \A t \in DOMAIN targets : targets'[t] = targets[t]
       /\ \A t \in prerequisite :
            targets'[t].status = "pending" /\ targets'[t].dep = {} /\ targets'[t].of = {}
       /\ targets'[id].status = "pending" /\ targets'[id].dep = dep /\ targets'[id].of = {d}
  <2>1. /\ DOMAIN targets' = DOMAIN targets \cup prerequisite \cup {id}
        /\ \A t \in DOMAIN targets : targets'[t] = targets[t]
        /\ \A t \in prerequisite : targets'[t] = NewTarget(appended, {}, {}, {})
        /\ targets'[id] = NewTarget(appended, dep, {d}, {q})
    BY <1>1, <1>4, <1>8, <1>9
  <2> QED
    BY <1>7, <2>1
<1>11. KeptTargets /\ KeptDeliveries /\ NewDeliveries /\ CancelStep
  BY <1>1, <1>2, <1>6, <1>10 DEF KeptTargets, KeptDeliveries, NewDeliveries, CancelStep
<1>12. RemovedWithEvent
  BY <1>1, <1>2, <1>6, <1>10 DEF RemovedWithEvent
<1>13. ASSUME NEW c \in dep PROVE MayDependOn(id, c)
  <2>1. c \in DOMAIN targets' /\ targets'[c].status # "cancelled"
    BY <1>1, <1>7, <1>8, <1>10
  <2>2. ASSUME ~ReplayAnswersCause, c \in DOMAIN deliveries PROVE deliveries[c].status # "cancelled"
    BY <1>1, <1>2, <1>5, <2>2 DEF TargetInv, CurrentIsLive, r
  <2> QED
    BY <1>1, <1>3, <1>5, <2>1, <2>2 DEF MayDependOn
<1>14. MayReplay(id, d)
  <2>1. \A u \in DOMAIN targets' \ DOMAIN targets : d \in targets'[u].of => u = id
    BY <1>10
  <2> QED
    BY <1>1, <1>3, <1>10, <2>1 DEF MayReplay
<1>15. NewTargets
  <2>1. ASSUME NEW t \in prerequisite
        PROVE  /\ subs'[t.sub].status = "active" /\ t.rev = subs'[t.sub].revision
               /\ targets'[t].status = "pending" /\ events'[t.event].fanout = "pending"
               /\ targets'[t].dep = {} /\ targets'[t].of = {}
    <3>1. t.sub = d.sub /\ t.rev = r /\ t.event \in DOMAIN events /\ t.event \in E
      BY <1>1, <1>5, <1>8
    <3>2. subs'[t.sub].status = "active" /\ t.rev = subs'[t.sub].revision
      BY <1>1, <3>1 DEF r
    <3>3. events'[t.event].fanout = "pending"
      BY <1>6, <3>1
    <3> QED
      BY <1>10, <3>2, <3>3
  <2>2. /\ subs'[id.sub].status = "active" /\ id.rev = subs'[id.sub].revision
        /\ targets'[id].status = "pending" /\ events'[id.event].fanout = "pending"
        /\ targets'[id].dep = dep /\ targets'[id].of = {d}
    <3>1. subs'[id.sub].status = "active" /\ id.rev = subs'[id.sub].revision
      BY <1>1, <1>3 DEF r
    <3>2. events'[id.event].fanout = "pending"
      BY <1>2, <1>3, <1>6, <1>8
    <3> QED
      BY <1>10, <3>1, <3>2
  <2>3. \A c \in targets'[id].dep : MayDependOn(id, c)
    BY <1>13, <2>2
  <2>4. \A x \in targets'[id].of : MayReplay(id, x)
    <3>1. SUFFICES ASSUME NEW x \in targets'[id].of PROVE MayReplay(id, x)
      OBVIOUS
    <3>2. x = d
      BY <2>2
    <3> QED
      BY <1>14, <3>2
  <2> QED
    BY <1>10, <2>1, <2>2, <2>3, <2>4 DEF NewTargets
<1> QED
  BY <1>1, <1>11, <1>12, <1>15, SameSubscriptions DEF TargetStep

-----------------------------------------------------------------------------
(* The system *)

LEMMA TargetStepHolds ==
  ASSUME TypeInv, AuditInv, TargetInv, [Next]_vars
  PROVE  TargetStep
<1> USE DEF TypeInv
<1>1. CASE Administer
  <2>1. ASSUME NEW s, NEW g, NEW f, Create(s, g, f) \/ Prepare(s, g, f) PROVE TargetStep
    BY <2>1, CreateSubscriptionTarget DEF Create, Prepare
  <2>2. ASSUME NEW g, CancelProvisioning(g) PROVE TargetStep
    BY <2>2, CancelPendingTarget DEF CancelProvisioning
  <2>3. ASSUME NEW g \in Groups, NEW c \in EventInput, NEW i \in EventInput, Finalize(g, c, i)
        PROVE  TargetStep
    BY <2>3, FinalizeTarget DEF Finalize
  <2>4. ASSUME NEW a, NEW s, LoadSubscription(a, s) \/ DropDraft(a) PROVE TargetStep
    BY <2>4, UntouchedTarget DEF LoadSubscription, DropDraft, storeVars
  <2>5. ASSUME NEW a, NEW st, NEW f, NEW r, NEW p, Patch(a, st, f, r, p) PROVE TargetStep
    BY <2>5, ReplaceRevisionTarget DEF Patch, TargetInv
  <2>6. ASSUME NEW a, Delete(a) PROVE TargetStep
    BY <2>6, ReplaceRevisionTarget DEF Delete, TargetInv
  <2>7. ASSUME NEW d, NEW q, Skip(d) \/ Replay(d, q) PROVE TargetStep
    BY <2>7, SkipTarget, ReplayTarget DEF Skip, Replay, TargetInv
  <2> QED
    BY <1>1, <2>1, <2>2, <2>3, <2>4, <2>5, <2>6, <2>7 DEF Administer
<1>2. ASSUME NEW in \in EventInput, Produce(in) PROVE TargetStep
  BY <1>2, AppendEventTarget DEF Produce
<1>3. ASSUME NEW g, DeleteGroup(g) PROVE TargetStep
  BY <1>3, GroupDeletionTarget DEF DeleteGroup
<1>4. ASSUME NEW w, FanOut(w) \/ CrashFanout(w) PROVE TargetStep
  BY <1>4, UntouchedTarget, ClaimFanoutTarget, MaterializeTarget
     DEF FanOut, CrashFanout, ClaimTargets, Materialize, FailMaterialize, storeVars
<1>5. ASSUME NEW w, Dispatch(w) \/ CrashDispatch(w) PROVE TargetStep
  <2>1. ASSUME NEW k, DisableSubscription(w, k) PROVE TargetStep
    BY <2>1, UntouchedTarget, ReplaceRevisionTarget DEF DisableSubscription, storeVars, TargetInv
  <2>2. ASSUME NEW k, Complete(w, k) PROVE TargetStep
    <3>1. \A next \in NextStates(k) : next[1] \in {"succeeded", "retry_wait", "dead_lettered"}
      BY DEF NextStates
    <3> QED
      BY <2>2, <3>1, CompleteTarget DEF Complete
  <2>3. ASSUME NEW k, Heartbeat(w, k) PROVE TargetStep
    BY <2>3, RenewTarget DEF Heartbeat
  <2>4. CASE ClaimWork(w)
    BY <2>4, ClaimDeliveriesTarget DEF ClaimWork
  <2> QED
    BY <1>5, <2>1, <2>2, <2>3, <2>4, UntouchedTarget
       DEF Dispatch, CrashDispatch, Respond, ReadForDisable, DropTask, storeVars
<1>6. CASE Tick
  BY <1>6, TickTarget DEF Tick
<1>7. ASSUME NEW e, RetentionEnds(e) PROVE TargetStep
  BY <1>7, RetentionTarget DEF RetentionEnds
<1>8. CASE Purge
  BY <1>8, PurgeTarget DEF Purge
<1>9. CASE UNCHANGED vars
  BY <1>9, UntouchedTarget DEF vars
<1> QED
  BY <1>1, <1>2, <1>3, <1>4, <1>5, <1>6, <1>7, <1>8, <1>9 DEF Next

\* The inductive invariant of this module, with what it rests on.
LEMMA TargetInvAlways == Spec => [](TypeInv /\ AuditInv /\ CauseBeforeEffect /\ TargetInv)
<1>1. Init => TargetInv
  <2>1. SUFFICES ASSUME Init PROVE TargetInv
    OBVIOUS
  <2>2. targets = << >> /\ deliveries = << >>
    BY <2>1 DEF Init, StoreInit
  <2> QED
    BY <2>2 DEF TargetInv, MadeForRevision, ReplaysAreOfDeadLetters, DependsOnOwnRevision,
                CurrentIsLive, InFlightIsAttempted, CompletedMeansSettled, SwitchedOffIsQuiet,
                ReplaysResolve, NoStrandedEffect
<1>2. TypeInv /\ AuditInv /\ CauseBeforeEffect /\ TargetInv /\ [Next]_vars => TargetInv'
  <2>1. SUFFICES ASSUME TypeInv, AuditInv, CauseBeforeEffect, TargetInv, [Next]_vars
                 PROVE  TargetInv'
    OBVIOUS
  <2>2. StoreInv /\ StoreInv' /\ TargetStep /\ AuditInv'
    BY <2>1, TypeInvStep, AuditStepHolds, TargetStepHolds DEF TypeInv, AuditPreserved
  <2> QED
    BY <2>1, <2>2, TargetStepSuffices
<1> QED
  BY <1>1, <1>2, AuditInvAlways, CauseBeforeEffectAlways, PTL DEF Spec

\* purge_expired, replays and prerequisites: no target ever refers to an event,
\* a cause, a replayed dead letter or a resolving replay that is gone.
THEOREM NoDanglingReferenceAlways == Spec => []NoDanglingReference
<1>1. TypeInv /\ TargetInv => NoDanglingReference
  <2>1. SUFFICES ASSUME TypeInv, TargetInv PROVE NoDanglingReference
    OBVIOUS
  <2>2. SUFFICES ASSUME NEW t \in DOMAIN targets
                 PROVE  /\ t.event \in DOMAIN events
                        /\ targets[t].dep \cup targets[t].of \subseteq DOMAIN targets
                        /\ t \in DOMAIN deliveries => deliveries[t].resolved \subseteq DOMAIN deliveries
    BY DEF NoDanglingReference
  <2>3. t.event \in DOMAIN events /\ DOMAIN deliveries \subseteq DOMAIN targets
    BY <2>1 DEF TypeInv, StoreInv, StoreTypeOK
  <2>4. targets[t].dep \subseteq DOMAIN targets
    BY <2>1 DEF TargetInv, DependsOnOwnRevision
  <2>5. targets[t].of \subseteq DOMAIN targets
    BY <2>1, <2>3 DEF TargetInv, ReplaysAreOfDeadLetters
  <2>6. t \in DOMAIN deliveries => deliveries[t].resolved \subseteq DOMAIN deliveries
    BY <2>1 DEF TargetInv, ReplaysResolve
  <2> QED
    BY <2>3, <2>4, <2>5, <2>6
<1> QED
  BY <1>1, TargetInvAlways, PTL

\* create_replay_target, complete_delivery_attempt and skip together: a dead
\* letter never has two replays under way, and none once one has resolved it.
THEOREM ReplaysResolveAlways == Spec => []ReplaysResolve
<1>1. TargetInv => ReplaysResolve
  BY DEF TargetInv
<1> QED
  BY <1>1, TargetInvAlways, PTL

\* complete_event_fanout_if_settled and the operations that add targets later:
\* an event that reads as fanned out owes nobody a delivery.
THEOREM CompletedMeansSettledAlways == Spec => []CompletedMeansSettled
<1>1. TargetInv => CompletedMeansSettled
  BY DEF TargetInv
<1> QED
  BY <1>1, TargetInvAlways, PTL

\* replace_subscription_revision and commit_group_deletion: whatever appends,
\* replays and late workers do, a subscription that is switched off stays quiet.
THEOREM SwitchedOffIsQuietAlways == Spec => []SwitchedOffIsQuiet
<1>1. TargetInv => SwitchedOffIsQuiet
  BY DEF TargetInv
<1> QED
  BY <1>1, TargetInvAlways, PTL

\* resolve_causal_target: an append never fails with Conflict, because nothing
\* but replays is cancelled on the revision that is in force.
THEOREM AppendNeverConflictsAlways == Spec => []AppendNeverConflicts
<1>1. TypeInv /\ TargetInv => AppendNeverConflicts
  <2>1. SUFFICES ASSUME TypeInv, TargetInv, NEW s \in ActiveSubs, NEW c \in DOMAIN events,
                        NEW t \in ResolveCause(targets, events, {c}, s, subs[s].revision),
                        t \in DOMAIN targets, targets[t].status = "cancelled"
                 PROVE  FALSE
    BY DEF AppendNeverConflicts, CauseConflict
  <2>2. t.sub = s /\ t.rev = subs[s].revision
    BY ResolveCauseFacts
  <2>3. t.purpose = "replay"
    BY <2>1, <2>2 DEF TargetInv, CurrentIsLive, ActiveSubs
  <2>4. t.purpose = "cause"
    BY <2>1, ResolveCauseFacts
  <2> QED
    BY <2>3, <2>4
<1> QED
  BY <1>1, TargetInvAlways, PTL

\* In the SQL store, where only normal targets and prerequisites answer for a
\* cause, nothing with work left waits for a cause that was cancelled.  In the
\* memory store, skipping a dead letter can cancel a replay that answers for one.
THEOREM NoStrandedEffectAlways == ~ReplayAnswersCause => (Spec => []NoStrandedEffect)
<1> SUFFICES ASSUME ~ReplayAnswersCause PROVE Spec => []NoStrandedEffect
  OBVIOUS
<1>1. TargetInv => NoStrandedEffect
  BY DEF TargetInv
<1> QED
  BY <1>1, TargetInvAlways, PTL
=============================================================================
