------------------------ MODULE EventingOrderProofs -------------------------
(***************************************************************************)
(* What becomes of the events, for every value of the constants.           *)
(*  - SequencesIncrease: it is inductive together with the fact that       *)
(*    stream_sequences is never behind an event that is still stored.      *)
(*  - NothingMissed: it is inductive given that targets go only with their *)
(*    event; appends and the backfill are the steps it is about.           *)
(*  - StrictLane, for one fanout worker and until the first fault: targets *)
(*    are dated when they are made, and fanned out in that order; so what  *)
(*    is older than a delivery was fanned out before it.                   *)
(***************************************************************************)
EXTENDS EventingTargetProofs

Ordered(es, seqs) ==
  /\ \A e, f \in DOMAIN es : e < f /\ es[e].stream = es[f].stream => es[e].seq < es[f].seq
  /\ \A e \in DOMAIN es : es[e].seq <= seqs[es[e].stream]

OrderInv == Ordered(events, sequences)

\* new keeps only events of old, with their place in their stream.
SamePlaces(old, new) ==
  /\ DOMAIN new \subseteq DOMAIN old
  /\ \A e \in DOMAIN new :
       /\ new[e].stream = old[e].stream /\ new[e].seq = old[e].seq
       /\ new[e].group = old[e].group /\ new[e].type = old[e].type
       /\ new[e].cause = old[e].cause
       /\ old[e].expired => new[e].expired

KeepsEvents == SamePlaces(events, events') /\ sequences' = sequences

LEMMA SamePlacesOrdered ==
  ASSUME NEW old, NEW new, NEW seqs, SamePlaces(old, new), Ordered(old, seqs)
  PROVE  Ordered(new, seqs)
BY DEF SamePlaces, Ordered

LEMMA OrderKept ==
  ASSUME OrderInv, KeepsEvents
  PROVE  OrderInv'
BY SamePlacesOrdered DEF OrderInv, KeepsEvents

LEMMA EventsUntouched ==
  ASSUME UNCHANGED <<events, sequences>>
  PROVE  KeepsEvents
BY DEF KeepsEvents, SamePlaces

LEMMA ReopenPlaces ==
  ASSUME NEW es, NEW E, \A e \in DOMAIN es : es[e] \in Event
  PROVE  SamePlaces(es, ReopenFanout(es, E)) /\ DOMAIN ReopenFanout(es, E) = DOMAIN es
BY DEF SamePlaces, ReopenFanout, Event

LEMMA SettlePlaces ==
  ASSUME NEW es, NEW ts, NEW E, \A e \in DOMAIN es : es[e] \in Event
  PROVE  SamePlaces(es, SettleFanout(es, ts, E))
BY DEF SamePlaces, SettleFanout, Event

LEMMA AppendOrdered ==
  ASSUME NEW log, LogOK(log), NEW A, NEW in \in EventInput,
         Ordered(log.events, log.sequences)
  PROVE  Ordered(AppendTo(log, A, in).events, AppendTo(log, A, in).sequences)
<1>1. CASE Deduplicated(log, in)
  BY <1>1 DEF AppendTo
<1>2. CASE ~Deduplicated(log, in)
  <2> DEFINE e == log.appended + 1
             M == Matching(A, in)
             prerequisite == (UNION {DependsOn(log, in, s) : s \in M}) \ DOMAIN log.targets
             seq == NextSequence(log, in.stream)
             record == [group |-> in.group, stream |-> in.stream, seq |-> seq,
                        type |-> in.type, key |-> in.key, cause |-> in.cause,
                        fanout |-> IF M = {} THEN "completed" ELSE "pending",
                        expired |-> FALSE]
             reopened == ReopenFanout(log.events, {t.event : t \in prerequisite})
             new == AppendTo(log, A, in)
  <2>1. /\ new.events = [x \in DOMAIN log.events \cup {e} |->
                           IF x = e THEN record ELSE reopened[x]]
        /\ new.sequences = [log.sequences EXCEPT ![in.stream] = seq]
    BY <1>2 DEF AppendTo
  <2>2. record.stream = in.stream /\ record.seq = seq
    OBVIOUS
  <2>3. seq = log.sequences[in.stream] + 1
    BY DEF NextSequence
  <2>4. Ordered(reopened, log.sequences) /\ DOMAIN reopened = DOMAIN log.events
        /\ \A x \in DOMAIN log.events : reopened[x] \in Event
    BY ReopenPlaces, ReopenFanoutType, SamePlacesOrdered DEF LogOK
  <2>5. /\ \A x \in DOMAIN log.events : x \in Nat /\ x < e
        /\ e \in Nat /\ in.stream \in Streams
        /\ \A s \in Streams : log.sequences[s] \in Nat
    BY ConstantsOK DEF LogOK, EventInput
  <2>6. \A x \in DOMAIN log.events : reopened[x].stream \in Streams /\ reopened[x].seq \in Nat
    BY <2>4, ConstantsOK DEF Event, EventIds
  <2>7. DOMAIN log.sequences = Streams
    BY DEF LogOK
  <2> HIDE DEF e, M, prerequisite, seq, record, reopened, new
  <2>8. /\ DOMAIN new.events = DOMAIN log.events \cup {e}
        /\ new.events[e] = record
        /\ \A x \in DOMAIN log.events : new.events[x] = reopened[x]
    BY <2>1, <2>5
  <2>9. \A s \in Streams : new.sequences[s] = IF s = in.stream THEN seq ELSE log.sequences[s]
    BY <2>1, <2>7
  <2>10. \A x \in DOMAIN new.events : new.events[x].seq <= new.sequences[new.events[x].stream]
    BY <2>2, <2>3, <2>4, <2>5, <2>6, <2>8, <2>9 DEF Ordered
  <2>11. \A x, y \in DOMAIN new.events :
           x < y /\ new.events[x].stream = new.events[y].stream => new.events[x].seq < new.events[y].seq
    <3>1. TAKE x, y \in DOMAIN new.events
    <3>2. HAVE x < y /\ new.events[x].stream = new.events[y].stream
    <3>3. x \in DOMAIN log.events
      BY <2>5, <2>8, <3>2
    <3>4. CASE y = e
      BY <2>2, <2>3, <2>4, <2>5, <2>6, <2>8, <3>2, <3>3, <3>4 DEF Ordered
    <3>5. CASE y # e
      BY <2>4, <2>8, <3>2, <3>3, <3>5 DEF Ordered
    <3> QED
      BY <3>4, <3>5
  <2> QED
    BY <2>10, <2>11 DEF Ordered, new
<1> QED
  BY <1>1, <1>2

LEMMA AppendEventOrder ==
  ASSUME StoreInv, OrderInv, NEW in \in EventInput, AppendEvent(in)
  PROVE  OrderInv'
<1>1. LogOK(Log) /\ Ordered(Log.events, Log.sequences)
  BY LogIsOK DEF OrderInv, Log
<1>2. Ordered(AppendTo(Log, ActiveSubs, in).events, AppendTo(Log, ActiveSubs, in).sequences)
  BY <1>1, AppendOrdered
<1> QED
  BY <1>2 DEF AppendEvent, BecomesLog, OrderInv

LEMMA FinalizeOrder ==
  ASSUME StoreInv, OrderInv, NEW g \in Groups, NEW created \in EventInput,
         NEW session \in EventInput, FinalizeGroupProvisioning(g, created, session)
  PROVE  OrderInv'
<1> DEFINE S == PendingSubs(g)
           A == ActiveSubs \cup S
           log1 == Backfill(S, g)
           log2 == AppendTo(log1, A, created)
           caused == [session EXCEPT !.cause = {log2.appended}]
           log3 == AppendTo(log2, A, caused)
<1>1. S \in SUBSET DOMAIN subs /\ A \in SUBSET DOMAIN subs /\ StoreTypeOK
      /\ BackfillCausesStored(S, g)
      /\ ~Deduplicated(log1, created) /\ CanAppend(log1, A, created)
  BY DEF PendingSubs, ActiveSubs, StoreInv, FinalizeGroupProvisioning
<1>2. LogOK(log1)
  BY <1>1, BackfillType
<1>3. Ordered(log1.events, log1.sequences)
  <2>1. \E E : log1.events = ReopenFanout(events, E)
    BY DEF Backfill
  <2>2. log1.sequences = sequences
    BY DEF Backfill
  <2> HIDE DEF log1
  <2> QED
    BY <2>1, <2>2, ReopenPlaces, SamePlacesOrdered DEF OrderInv, StoreInv, StoreTypeOK
<1>4. LogOK(log2) /\ log2.appended \in EventIds
  BY <1>1, <1>2, AppendType
<1>5. Ordered(log2.events, log2.sequences)
  BY <1>2, <1>3, AppendOrdered
<1>6. caused \in EventInput
  BY <1>4 DEF EventInput, Causes
<1>7. Ordered(log3.events, log3.sequences)
  BY <1>4, <1>5, <1>6, AppendOrdered
<1>8. BecomesLog(log2) \/ BecomesLog(log3)
  BY DEF FinalizeGroupProvisioning
<1> HIDE DEF log1, log2, log3, caused
<1> QED
  BY <1>5, <1>7, <1>8 DEF BecomesLog, OrderInv

LEMMA ReplaceRevisionOrder ==
  ASSUME StoreInv, NEW s, NEW r, NEW status, NEW f, NEW endpoint, NEW cancel,
         ReplaceRevision(s, r, status, f, endpoint, cancel)
  PROVE  KeepsEvents
<1>1. sequences' = sequences /\ \E ts, E : events' = SettleFanout(events, ts, E)
  BY DEF ReplaceRevision
<1> QED
  BY <1>1, SettlePlaces DEF KeepsEvents, StoreInv, StoreTypeOK

LEMMA StoreOrder ==
  ASSUME StoreInv
  PROVE  /\ \A g : CommitGroupDeletion(g) => KeepsEvents
         /\ \A t, o, st : MaterializeFanoutTarget(t, o, st) => KeepsEvents
         /\ \A d, q : CreateReplayTarget(d, q) => KeepsEvents
         /\ \A e : RetentionElapses(e) => KeepsEvents
         /\ \A E : PurgeExpired(E) => KeepsEvents
<1>0. \A e \in DOMAIN events : events[e] \in Event
  BY DEF StoreInv, StoreTypeOK
<1>1. ASSUME NEW g, CommitGroupDeletion(g) PROVE KeepsEvents
  <2>1. sequences' = sequences /\ \E ts, E : events' = SettleFanout(events, ts, E)
    BY <1>1 DEF CommitGroupDeletion
  <2> QED
    BY <1>0, <2>1, SettlePlaces DEF KeepsEvents
<1>2. ASSUME NEW t, NEW o, NEW st, MaterializeFanoutTarget(t, o, st) PROVE KeepsEvents
  <2>1. sequences' = sequences /\ \E ts, E : events' = SettleFanout(events, ts, E)
    BY <1>2 DEF MaterializeFanoutTarget
  <2> QED
    BY <1>0, <2>1, SettlePlaces DEF KeepsEvents
<1>3. ASSUME NEW d, NEW q, CreateReplayTarget(d, q) PROVE KeepsEvents
  <2>1. sequences' = sequences /\ \E E : events' = ReopenFanout(events, E)
    BY <1>3 DEF CreateReplayTarget
  <2> QED
    BY <1>0, <2>1, ReopenPlaces DEF KeepsEvents
<1>4. ASSUME NEW e, RetentionElapses(e) PROVE KeepsEvents
  <2>1. sequences' = sequences /\ events' = [events EXCEPT ![e].expired = TRUE]
    BY <1>4 DEF RetentionElapses
  <2>2. SamePlaces(events, events')
    BY <1>0, <2>1 DEF SamePlaces, Event
  <2> QED
    BY <2>1, <2>2 DEF KeepsEvents
<1>5. ASSUME NEW E, PurgeExpired(E) PROVE KeepsEvents
  <2>1. sequences' = sequences /\ events' = [e \in DOMAIN events \ E |-> events[e]]
    BY <1>5 DEF PurgeExpired
  <2>2. SamePlaces(events, events')
    BY <2>1 DEF SamePlaces
  <2> QED
    BY <2>1, <2>2 DEF KeepsEvents
<1> QED
  BY <1>1, <1>2, <1>3, <1>4, <1>5

LEMMA EventsStep ==
  ASSUME TypeInv, [Next]_vars
  PROVE  \/ KeepsEvents
         \/ \E in \in EventInput : Produce(in)
         \/ \E g \in Groups, c \in EventInput, i \in EventInput : Finalize(g, c, i)
<1> USE DEF TypeInv
<1>1. CASE Administer
  <2>1. ASSUME NEW s, NEW g, NEW f, Create(s, g, f) \/ Prepare(s, g, f) PROVE KeepsEvents
    BY <2>1, EventsUntouched DEF Create, Prepare, CreateSubscription
  <2>2. ASSUME NEW g, CancelProvisioning(g) PROVE KeepsEvents
    BY <2>2, EventsUntouched DEF CancelProvisioning, CancelPendingSubscriptions
  <2>3. ASSUME NEW a, NEW s, LoadSubscription(a, s) \/ DropDraft(a) PROVE KeepsEvents
    BY <2>3, EventsUntouched DEF LoadSubscription, DropDraft, storeVars
  <2>4. ASSUME NEW a, NEW st, NEW f, NEW r, NEW p, Patch(a, st, f, r, p) \/ Delete(a)
        PROVE  KeepsEvents
    BY <2>4, ReplaceRevisionOrder DEF Patch, Delete
  <2>5. ASSUME NEW d, NEW q, Skip(d) \/ Replay(d, q) PROVE KeepsEvents
    BY <2>5, EventsUntouched, StoreOrder DEF Skip, Replay, SkipDeadLetteredDelivery
  <2> QED
    BY <1>1, <2>1, <2>2, <2>3, <2>4, <2>5 DEF Administer
<1>2. ASSUME NEW g, DeleteGroup(g) PROVE KeepsEvents
  BY <1>2, StoreOrder DEF DeleteGroup
<1>3. ASSUME NEW w, FanOut(w) \/ CrashFanout(w) PROVE KeepsEvents
  BY <1>3, EventsUntouched, StoreOrder
     DEF FanOut, CrashFanout, ClaimTargets, ClaimFanoutTargets, Materialize, FailMaterialize, storeVars
<1>4. ASSUME NEW w, Dispatch(w) \/ CrashDispatch(w) PROVE KeepsEvents
  <2>1. ASSUME NEW k, DisableSubscription(w, k) PROVE KeepsEvents
    BY <2>1, EventsUntouched, ReplaceRevisionOrder DEF DisableSubscription, storeVars
  <2> QED
    BY <1>4, <2>1, EventsUntouched
       DEF Dispatch, CrashDispatch, ClaimWork, ClaimDeliveries, Respond, ReadForDisable, Complete,
           CompleteDeliveryAttempt, Heartbeat, RenewDeliveryLease, DropTask, storeVars
<1>5. CASE Tick
  BY <1>5, EventsUntouched DEF Tick, ClockTick
<1>6. ASSUME NEW e, RetentionEnds(e) PROVE KeepsEvents
  BY <1>6, StoreOrder DEF RetentionEnds
<1>7. CASE Purge
  BY <1>7, StoreOrder DEF Purge
<1>8. CASE UNCHANGED vars
  BY <1>8, EventsUntouched DEF vars
<1> QED
  BY <1>1, <1>2, <1>3, <1>4, <1>5, <1>6, <1>7, <1>8 DEF Next

LEMMA OrderStep ==
  ASSUME TypeInv, OrderInv, [Next]_vars
  PROVE  OrderInv'
<1>1. \A in \in EventInput : Produce(in) => OrderInv'
  BY AppendEventOrder DEF Produce, TypeInv
<1>2. \A g \in Groups, c \in EventInput, i \in EventInput : Finalize(g, c, i) => OrderInv'
  BY FinalizeOrder DEF Finalize, TypeInv
<1> QED
  BY <1>1, <1>2, EventsStep, OrderKept

\* append_event_to_state numbers a stream without gaps in the order: of two stored
\* events of a stream the later one has the larger sequence, also after purges.
THEOREM SequencesIncreaseAlways == Spec => []SequencesIncrease
<1>1. Init => TypeInv /\ OrderInv
  BY TypeInvInit DEF Init, StoreInit, OrderInv, Ordered
<1>2. TypeInv /\ OrderInv /\ [Next]_vars => TypeInv' /\ OrderInv'
  BY TypeInvStep, OrderStep
<1>3. OrderInv => SequencesIncrease
  BY DEF OrderInv, Ordered, SequencesIncrease
<1> QED
  BY <1>1, <1>2, <1>3, PTL DEF Spec

-----------------------------------------------------------------------------
(* Nothing is missed *)

\* Every subscription of A that was never patched has a target in log for every
\* matching event recorded since it was created.
Covered(A, log) ==
  \A s \in A : \A e \in DOMAIN log.events :
    /\ subs[s].revision = 1 /\ e > subs[s].since
    /\ log.events[e].group = subs[s].group /\ log.events[e].type \in FilterOf(s, 1)
    /\ ~log.events[e].expired
    => NormalId(e, s, 1) \in DOMAIN log.targets

\* The subscriptions that are active and were never patched were so before, or
\* are created now.
UnpatchedStep ==
  \A s \in DOMAIN subs' : subs'[s].revision = 1 /\ subs'[s].status = "active" =>
    \/ s \notin DOMAIN subs /\ subs'[s].since = appended
    \/ /\ s \in DOMAIN subs /\ subs[s].revision = 1 /\ subs[s].status = "active"
       /\ subs'[s].group = subs[s].group /\ subs'[s].since = subs[s].since
       /\ subs'[s].revisions = subs[s].revisions

LEMMA QuietMissed ==
  ASSUME StoreInv, NothingMissed, KeepsEvents, UnpatchedStep,
         \A t \in DOMAIN targets : t.event \in DOMAIN events' => t \in DOMAIN targets'
  PROVE  NothingMissed'
<1>1. SUFFICES ASSUME NEW s \in DOMAIN subs', subs'[s].status = "active",
                      NEW e \in DOMAIN events',
                      subs'[s].revision = 1, e > subs'[s].since,
                      events'[e].group = subs'[s].group,
                      events'[e].type \in subs'[s].revisions[1].filter,
                      ~events'[e].expired
               PROVE  NormalId(e, s, 1) \in DOMAIN targets'
  BY DEF NothingMissed, ActiveSubs, FilterOf
<1>2. /\ e \in DOMAIN events /\ events'[e].group = events[e].group
      /\ events'[e].type = events[e].type /\ ~events[e].expired
  BY <1>1 DEF KeepsEvents, SamePlaces
<1>3. e \in Nat /\ e <= appended
  BY <1>2, ConstantsOK DEF StoreInv, StoreTypeOK
<1>4. CASE s \notin DOMAIN subs
  <2>1. subs'[s].since = appended /\ appended \in Nat
    BY <1>1, <1>4, ConstantsOK DEF UnpatchedStep, StoreInv, StoreTypeOK
  <2> QED
    BY <1>1, <1>3, <2>1
<1>5. CASE s \in DOMAIN subs
  <2>1. /\ s \in ActiveSubs /\ subs[s].revision = 1
        /\ subs'[s].group = subs[s].group /\ subs'[s].since = subs[s].since
        /\ subs'[s].revisions = subs[s].revisions
    BY <1>1, <1>5 DEF UnpatchedStep, ActiveSubs
  <2>2. NormalId(e, s, 1) \in DOMAIN targets
    BY <1>1, <1>2, <2>1 DEF NothingMissed, FilterOf
  <2>3. NormalId(e, s, 1).event = e
    BY DEF NormalId
  <2> QED
    BY <1>1, <2>2, <2>3
<1> QED
  BY <1>4, <1>5

LEMMA AppendCovers ==
  ASSUME NEW log, LogOK(log), NEW A \in SUBSET DOMAIN subs, NEW in \in EventInput,
         Covered(A, log)
  PROVE  Covered(A, AppendTo(log, A, in))
<1>1. CASE Deduplicated(log, in)
  BY <1>1 DEF AppendTo
<1>2. CASE ~Deduplicated(log, in)
  <2> DEFINE e == log.appended + 1
             M == Matching(A, in)
             normal == {NormalId(e, s, subs[s].revision) : s \in M}
             prerequisite == (UNION {DependsOn(log, in, s) : s \in M}) \ DOMAIN log.targets
             record == [group |-> in.group, stream |-> in.stream,
                        seq |-> NextSequence(log, in.stream),
                        type |-> in.type, key |-> in.key, cause |-> in.cause,
                        fanout |-> IF M = {} THEN "completed" ELSE "pending",
                        expired |-> FALSE]
             reopened == ReopenFanout(log.events, {t.event : t \in prerequisite})
             new == AppendTo(log, A, in)
  <2>1. /\ new.events = [x \in DOMAIN log.events \cup {e} |-> IF x = e THEN record ELSE reopened[x]]
        /\ DOMAIN new.targets = DOMAIN log.targets \cup normal \cup prerequisite
    BY <1>2 DEF AppendTo
  <2>2. record.group = in.group /\ record.type = in.type
    OBVIOUS
  <2>3. SamePlaces(log.events, reopened) /\ DOMAIN reopened = DOMAIN log.events
    BY ReopenPlaces DEF LogOK
  <2>4. \A s \in A : subs[s].group = in.group /\ in.type \in FilterOf(s, subs[s].revision)
                    => NormalId(e, s, subs[s].revision) \in normal
    BY DEF Matching
  <2> HIDE DEF e, M, normal, prerequisite, record, reopened, new
  <2>5. SUFFICES ASSUME NEW s \in A, NEW x \in DOMAIN new.events,
                        subs[s].revision = 1, x > subs[s].since,
                        new.events[x].group = subs[s].group,
                        new.events[x].type \in FilterOf(s, 1), ~new.events[x].expired
                 PROVE  NormalId(x, s, 1) \in DOMAIN new.targets
    BY DEF Covered, new
  <2>6. CASE x = e
    <3>1. new.events[x] = record
      BY <2>1, <2>6
    <3>2. NormalId(e, s, subs[s].revision) \in normal
      BY <2>2, <2>4, <2>5, <3>1
    <3> QED
      BY <2>1, <2>5, <2>6, <3>2
  <2>7. CASE x # e
    <3>1. x \in DOMAIN log.events /\ new.events[x] = reopened[x]
      BY <2>1, <2>5, <2>7
    <3>2. /\ log.events[x].group = subs[s].group /\ log.events[x].type \in FilterOf(s, 1)
          /\ ~log.events[x].expired
      BY <2>3, <2>5, <3>1 DEF SamePlaces
    <3>3. NormalId(x, s, 1) \in DOMAIN log.targets
      BY <2>5, <3>1, <3>2 DEF Covered
    <3> QED
      BY <2>1, <3>3
  <2> QED
    BY <2>6, <2>7
<1> QED
  BY <1>1, <1>2

\* The backfill covers the subscriptions it is for, whatever they were owed.
LEMMA BackfillCovers ==
  ASSUME StoreInv, NothingMissed, NEW g
  PROVE  Covered(ActiveSubs \cup PendingSubs(g), Backfill(PendingSubs(g), g))
<1> DEFINE S == PendingSubs(g)
           new == Backfill(S, g)
<1>1. /\ \E E : new.events = ReopenFanout(events, E)
      /\ DOMAIN targets \subseteq DOMAIN new.targets /\ Missed(S, g) \subseteq DOMAIN new.targets
  BY DEF Backfill
<1>2. SamePlaces(events, new.events)
  BY <1>1, ReopenPlaces DEF StoreInv, StoreTypeOK
<1>3. \A s \in S : subs[s].group = g
  BY DEF PendingSubs
<1> HIDE DEF S, new
<1>4. SUFFICES ASSUME NEW s \in ActiveSubs \cup S, NEW x \in DOMAIN new.events,
                      subs[s].revision = 1, x > subs[s].since,
                      new.events[x].group = subs[s].group,
                      new.events[x].type \in FilterOf(s, 1), ~new.events[x].expired
               PROVE  NormalId(x, s, 1) \in DOMAIN new.targets
  BY DEF Covered, new, S
<1>5. /\ x \in DOMAIN events /\ events[x].group = subs[s].group
      /\ events[x].type \in FilterOf(s, 1) /\ ~events[x].expired
  BY <1>2, <1>4 DEF SamePlaces
<1>6. CASE s \in ActiveSubs
  BY <1>1, <1>4, <1>5, <1>6 DEF NothingMissed
<1>7. CASE s \in S
  <2> DEFINE t == NormalId(x, s, subs[s].revision)
  <2>1. t.event = x /\ t.sub = s /\ t.rev = 1
    BY <1>4 DEF NormalId
  <2>2. t \in {NormalId(e, z, subs[z].revision) : e \in DOMAIN events, z \in S}
    BY <1>5, <1>7
  <2> HIDE DEF t
  <2>3. t \in Missed(S, g)
    BY <1>3, <1>4, <1>5, <1>7, <2>1, <2>2 DEF Missed
  <2> QED
    BY <1>1, <1>4, <2>3 DEF t
<1> QED
  BY <1>4, <1>6, <1>7

LEMMA AppendEventMissed ==
  ASSUME StoreInv, NothingMissed, NEW in \in EventInput, AppendEvent(in)
  PROVE  NothingMissed'
<1>1. ActiveSubs \in SUBSET DOMAIN subs /\ LogOK(Log) /\ Covered(ActiveSubs, Log)
  BY LogIsOK DEF ActiveSubs, Covered, NothingMissed, Log
<1> DEFINE new == AppendTo(Log, ActiveSubs, in)
<1>2. Covered(ActiveSubs, new)
  BY <1>1, AppendCovers
<1>3. BecomesLog(new) /\ subs' = subs
  BY DEF AppendEvent
<1> HIDE DEF new
<1> QED
  BY <1>2, <1>3 DEF Covered, NothingMissed, BecomesLog, ActiveSubs, FilterOf

LEMMA FinalizeMissed ==
  ASSUME StoreInv, NothingMissed, NEW g \in Groups, NEW created \in EventInput,
         NEW session \in EventInput, FinalizeGroupProvisioning(g, created, session)
  PROVE  NothingMissed'
<1> DEFINE S == PendingSubs(g)
           A == ActiveSubs \cup S
           log1 == Backfill(S, g)
           log2 == AppendTo(log1, A, created)
           caused == [session EXCEPT !.cause = {log2.appended}]
           log3 == AppendTo(log2, A, caused)
<1>1. /\ S \in SUBSET DOMAIN subs /\ A \in SUBSET DOMAIN subs /\ StoreTypeOK
      /\ BackfillCausesStored(S, g)
      /\ ~Deduplicated(log1, created) /\ CanAppend(log1, A, created)
      /\ \A s \in DOMAIN subs : s \in A <=> s \in S \/ subs[s].status = "active"
  BY DEF PendingSubs, ActiveSubs, StoreInv, FinalizeGroupProvisioning
<1>2. LogOK(log1) /\ Covered(A, log1)
  BY <1>1, BackfillType, BackfillCovers
<1>3. LogOK(log2) /\ log2.appended \in EventIds /\ Covered(A, log2)
  BY <1>1, <1>2, AppendType, AppendCovers
<1>4. caused \in EventInput
  BY <1>3 DEF EventInput, Causes
<1>5. Covered(A, log3)
  BY <1>1, <1>3, <1>4, AppendCovers
<1>6. /\ BecomesLog(log2) \/ BecomesLog(log3)
      /\ subs' = [s \in DOMAIN subs |->
                    IF s \in S THEN [subs[s] EXCEPT !.status = "active"] ELSE subs[s]]
  BY DEF FinalizeGroupProvisioning
<1> HIDE DEF log1, log2, log3, caused, S, A
<1>7. PICK log : Covered(A, log) /\ BecomesLog(log)
  BY <1>3, <1>5, <1>6
<1>8. \A s \in DOMAIN subs : LET x == [subs[s] EXCEPT !.status = "active"]
                            IN /\ x.group = subs[s].group /\ x.since = subs[s].since
                               /\ x.revision = subs[s].revision /\ x.revisions = subs[s].revisions
  BY DEF StoreInv, StoreTypeOK, Subscription
<1>9. DOMAIN subs' = DOMAIN subs
      /\ \A s \in DOMAIN subs :
           /\ subs'[s].group = subs[s].group /\ subs'[s].since = subs[s].since
           /\ subs'[s].revision = subs[s].revision /\ subs'[s].revisions = subs[s].revisions
           /\ s \notin S => subs'[s].status = subs[s].status
  BY <1>6, <1>8
<1>10. \A s \in ActiveSubs' : s \in A
  BY <1>1, <1>9 DEF ActiveSubs
<1>11. SUFFICES ASSUME NEW s \in ActiveSubs', NEW e \in DOMAIN events',
                       subs'[s].revision = 1, e > subs'[s].since,
                       events'[e].group = subs'[s].group,
                       events'[e].type \in subs'[s].revisions[1].filter, ~events'[e].expired
                PROVE  NormalId(e, s, 1) \in DOMAIN targets'
  BY DEF NothingMissed, FilterOf
<1>12. s \in DOMAIN subs /\ s \in A
  BY <1>1, <1>10
<1> QED
  BY <1>7, <1>9, <1>11, <1>12 DEF Covered, BecomesLog, FilterOf

LEMMA ReplaceRevisionUnpatched ==
  ASSUME StoreInv, NEW s, NEW r, NEW status, NEW f, NEW endpoint, NEW cancel,
         ReplaceRevision(s, r, status, f, endpoint, cancel)
  PROVE  UnpatchedStep
<1>1. /\ s \in DOMAIN subs /\ subs[s].revision = r
      /\ subs' = [subs EXCEPT ![s].status = status, ![s].revision = r + 1,
                    ![s].revisions = Append(@, [filter |-> f, endpoint |-> endpoint])]
  BY DEF ReplaceRevision
<1>2. r \in Nat \ {0} /\ subs[s] \in Subscription
  BY <1>1, ConstantsOK DEF StoreInv, StoreTypeOK, Revisions, Subscription
<1>3. /\ DOMAIN subs' = DOMAIN subs /\ subs'[s].revision = r + 1
      /\ \A x \in DOMAIN subs : x # s => subs'[x] = subs[x]
  BY <1>1, <1>2 DEF Subscription
<1>4. subs'[s].revision # 1
  BY <1>2, <1>3
<1> QED
  BY <1>3, <1>4 DEF UnpatchedStep

LEMMA GroupDeletionUnpatched ==
  ASSUME StoreInv, NEW g, CommitGroupDeletion(g)
  PROVE  UnpatchedStep
<1> DEFINE S == {s \in ActiveSubs : subs[s].group = g}
<1>1. subs' = [s \in DOMAIN subs |->
                 IF s \in S THEN [subs[s] EXCEPT !.status = "disabled"] ELSE subs[s]]
  BY DEF CommitGroupDeletion
<1> HIDE DEF S
<1>2. \A s \in DOMAIN subs : subs'[s].status = IF s \in S THEN "disabled" ELSE subs[s].status
  BY <1>1, StatusChange
<1> QED
  BY <1>1, <1>2 DEF UnpatchedStep

LEMMA CancelPendingUnpatched ==
  ASSUME StoreInv, NEW g, CancelPendingSubscriptions(g)
  PROVE  UnpatchedStep
<1> DEFINE S == PendingSubs(g)
<1>1. subs' = [s \in DOMAIN subs |->
                 IF s \in S THEN [subs[s] EXCEPT !.status = "deleted"] ELSE subs[s]]
  BY DEF CancelPendingSubscriptions
<1> HIDE DEF S
<1>2. \A s \in DOMAIN subs : subs'[s].status = IF s \in S THEN "deleted" ELSE subs[s].status
  BY <1>1, StatusChange
<1> QED
  BY <1>1, <1>2 DEF UnpatchedStep

LEMMA UnpatchedUnchanged ==
  ASSUME subs' = subs
  PROVE  UnpatchedStep
BY DEF UnpatchedStep

LEMMA UnpatchedHolds ==
  ASSUME StoreInv, [Next]_vars
  PROVE  UnpatchedStep \/ \E g \in Groups, c \in EventInput, i \in EventInput : Finalize(g, c, i)
<1>1. CASE Administer
  <2>1. ASSUME NEW s, NEW g, NEW f, Create(s, g, f) \/ Prepare(s, g, f) PROVE UnpatchedStep
    BY <2>1 DEF Create, Prepare, CreateSubscription, UnpatchedStep
  <2>2. ASSUME NEW g, CancelProvisioning(g) PROVE UnpatchedStep
    BY <2>2, CancelPendingUnpatched DEF CancelProvisioning
  <2>3. ASSUME NEW a, NEW st, NEW f, NEW r, NEW p, Patch(a, st, f, r, p) \/ Delete(a)
        PROVE  UnpatchedStep
    BY <2>3, ReplaceRevisionUnpatched DEF Patch, Delete
  <2> QED
    BY <1>1, <2>1, <2>2, <2>3, UnpatchedUnchanged
       DEF Administer, LoadSubscription, DropDraft, storeVars, Skip, SkipDeadLetteredDelivery,
           Replay, CreateReplayTarget
<1>2. ASSUME NEW g, DeleteGroup(g) PROVE UnpatchedStep
  BY <1>2, GroupDeletionUnpatched DEF DeleteGroup
<1>3. ASSUME NEW w, Dispatch(w) PROVE UnpatchedStep
  <2>1. ASSUME NEW k, DisableSubscription(w, k) PROVE UnpatchedStep
    BY <2>1, ReplaceRevisionUnpatched, UnpatchedUnchanged DEF DisableSubscription, storeVars
  <2> QED
    BY <1>3, <2>1, UnpatchedUnchanged
       DEF Dispatch, ClaimWork, ClaimDeliveries, Respond, ReadForDisable, Complete,
           CompleteDeliveryAttempt, Heartbeat, RenewDeliveryLease, DropTask, storeVars
<1>4. ASSUME NEW w, FanOut(w) \/ CrashFanout(w) \/ CrashDispatch(w) PROVE UnpatchedStep
  BY <1>4, UnpatchedUnchanged
     DEF FanOut, CrashFanout, CrashDispatch, ClaimTargets, ClaimFanoutTargets, Materialize,
         MaterializeFanoutTarget, FailMaterialize, storeVars
<1> QED
  BY <1>1, <1>2, <1>3, <1>4, UnpatchedUnchanged
     DEF Next, Produce, AppendEvent, Tick, ClockTick, RetentionEnds, RetentionElapses, Purge,
         PurgeExpired, vars

LEMMA NothingMissedStep ==
  ASSUME TypeInv, AuditInv, TargetInv, NothingMissed, [Next]_vars
  PROVE  NothingMissed'
<1>1. \A in \in EventInput : Produce(in) => NothingMissed'
  BY AppendEventMissed DEF Produce, TypeInv
<1>2. \A g \in Groups, c \in EventInput, i \in EventInput : Finalize(g, c, i) => NothingMissed'
  BY FinalizeMissed DEF Finalize, TypeInv
<1>3. ASSUME KeepsEvents, UnpatchedStep PROVE NothingMissed'
  <2>1. \A t \in DOMAIN targets : t.event \in DOMAIN events' => t \in DOMAIN targets'
    BY TargetStepHolds DEF TargetStep, RemovedWithEvent
  <2> QED
    BY <1>3, <2>1, QuietMissed DEF TypeInv
<1>4. StoreInv
  BY DEF TypeInv
<1> QED
  BY <1>1, <1>2, <1>3, <1>4, EventsStep, UnpatchedHolds

\* append_event and backfill_group_provisioning_targets: however provisioning,
\* publishing, patches and purges interleave, a subscription that was never
\* patched is owed every matching event recorded since it was created.
THEOREM NothingMissedAlways == Spec => []NothingMissed
<1>1. Init => NothingMissed
  <2>1. SUFFICES ASSUME Init PROVE NothingMissed
    OBVIOUS
  <2>2. events = << >>
    BY <2>1 DEF Init, StoreInit
  <2> QED
    BY <2>2 DEF NothingMissed
<1>2. TypeInv /\ AuditInv /\ TargetInv /\ NothingMissed /\ [Next]_vars => NothingMissed'
  BY NothingMissedStep
<1> QED
  BY <1>1, <1>2, TargetInvAlways, PTL DEF Spec

-----------------------------------------------------------------------------
(* The strict lane *)

OneFanoutWorker == \A v, w \in FanoutWorkers : v = w

Claimed(t) == \E w \in FanoutWorkers : t \in batches[w].todo

Pending(t) == t \in DOMAIN targets /\ targets[t].status = "pending"

\* created_at: a target is made after its event, a normal one with it; and
\* causes come before their effects.
Dated ==
  /\ \A t \in DOMAIN targets :
       /\ t.event <= targets[t].at /\ targets[t].at <= appended
       /\ t.purpose = "normal" => targets[t].at = t.event
  /\ \A e \in DOMAIN events : \A c \in events[e].cause : c < e

LeasedIsClaimed == \A t \in DOMAIN targets : Pending(t) /\ targets[t].lease > 0 => Claimed(t)

\* The worker holds what is left of its batch, but for what was withdrawn or purged.
ClaimedIsHeld ==
  \A w \in FanoutWorkers : \A t \in batches[w].todo :
    /\ t.event <= appended
    /\ t.event \in DOMAIN events => t \in DOMAIN targets
    /\ Pending(t) => HoldsTarget(t, batches[w].owner)

\* Whatever became a delivery, or is about to, was made no later than a normal
\* target of the subscription that is still to be claimed.
FannedOutInOrder ==
  \A t \in DOMAIN targets : \A d \in DOMAIN deliveries :
    t.purpose = "normal" /\ Pending(t) /\ d.sub = t.sub => targets[d].at <= targets[t].at

ClaimedInOrder ==
  \A t, u \in DOMAIN targets :
    /\ t.purpose = "normal" /\ Pending(t) /\ ~Claimed(t)
    /\ Pending(u) /\ Claimed(u) /\ u.sub = t.sub
    => targets[u].at <= targets[t].at

FanoutInv == Dated /\ LeasedIsClaimed /\ ClaimedIsHeld /\ FannedOutInOrder /\ ClaimedInOrder

LaneInv == FanoutInv /\ StrictLane

\* Events keep their place, and appends number them upwards and after their causes.
EventDates ==
  /\ appended <= appended'
  /\ \A e \in DOMAIN events' :
       \/ /\ e \in DOMAIN events /\ events'[e].cause = events[e].cause
          /\ events'[e].stream = events[e].stream /\ events'[e].seq = events[e].seq
       \/ e > appended /\ \A c \in events'[e].cause : c < e

\* A normal target is made with its event or, by the backfill, for a
\* subscription that was pending.
NewDates ==
  \A t \in DOMAIN targets' \ DOMAIN targets :
    /\ t.event <= targets'[t].at /\ targets'[t].at <= appended' /\ targets'[t].lease = 0
    /\ t.purpose = "normal" =>
         targets'[t].at = t.event /\ (t.event > appended \/ subs[t.sub].status = "pending")

\* Targets keep their date, and their lease as long as a worker needs it.
KeptClaims ==
  \A t \in DOMAIN targets \cap DOMAIN targets' :
    /\ targets'[t].at = targets[t].at
    /\ targets'[t].status = "pending" =>
         /\ targets'[t].owner = targets[t].owner
         /\ targets'[t].lease > 0 => targets[t].lease > 0
         /\ \A w \in FanoutWorkers :
              t \in batches[w].todo /\ HoldsTarget(t, batches[w].owner) => targets'[t].lease > 0

\* What every step but those of the fanout workers does.
NoFanOut ==
  /\ batches' = batches /\ DOMAIN deliveries' \subseteq DOMAIN deliveries
  /\ EventDates /\ NewDates /\ KeptClaims

LEMMA TargetNumbers ==
  ASSUME StoreInv
  PROVE  /\ appended \in Nat
         /\ \A e \in DOMAIN events : e \in Nat /\ e <= appended
         /\ \A e \in DOMAIN events : events[e].seq \in Nat
         /\ \A t \in DOMAIN targets : /\ t.event \in Nat /\ t.event \in DOMAIN events
                                      /\ targets[t].at \in Nat /\ targets[t].lease \in Nat
         /\ DOMAIN deliveries \subseteq DOMAIN targets
BY ConstantsOK DEF StoreInv, StoreTypeOK, TargetId, Target, Event, EventIds

LEMMA NoFanOutLane ==
  ASSUME StoreInv, StoreInv', CallersInv, TargetInv, KeptTargets, RemovedWithEvent,
         FanoutInv, NoFanOut
  PROVE  FanoutInv'
<1>1. /\ appended \in Nat /\ appended' \in Nat /\ appended <= appended'
      /\ \A e \in DOMAIN events : e \in Nat /\ e <= appended
      /\ \A e \in DOMAIN events' : e \in Nat
      /\ \A t \in DOMAIN targets : /\ t.event \in Nat /\ t.event \in DOMAIN events
                                   /\ targets[t].at \in Nat /\ targets[t].at <= appended
      /\ \A t \in DOMAIN targets' : /\ t.event \in Nat /\ t.event \in DOMAIN events'
                                    /\ targets'[t].at \in Nat /\ targets'[t].lease \in Nat
      /\ DOMAIN deliveries \subseteq DOMAIN targets /\ DOMAIN deliveries' \subseteq DOMAIN targets'
  <2>1. StoreInv /\ EventDates /\ Dated
    BY DEF NoFanOut, FanoutInv
  <2>2. /\ appended' \in Nat
        /\ \A e \in DOMAIN events' : e \in Nat
        /\ \A t \in DOMAIN targets' : /\ t.event \in Nat /\ t.event \in DOMAIN events'
                                      /\ targets'[t].at \in Nat /\ targets'[t].lease \in Nat
        /\ DOMAIN deliveries' \subseteq DOMAIN targets'
    BY ConstantsOK DEF StoreInv, StoreTypeOK, TargetId, Target, Event, EventIds
  <2> QED
    BY <2>1, <2>2, TargetNumbers DEF EventDates, Dated
\* A new normal target is the youngest of its subscription.
<1>2. ASSUME NEW t \in DOMAIN targets' \ DOMAIN targets, t.purpose = "normal",
             NEW u \in DOMAIN targets, u.sub = t.sub
      PROVE  targets[u].at <= targets'[t].at
  <2>1. targets'[t].at = t.event /\ (t.event > appended \/ subs[t.sub].status = "pending")
    BY <1>2 DEF NoFanOut, NewDates
  <2>2. subs[t.sub].status # "pending"
    BY <1>2 DEF TargetInv, MadeForRevision
  <2> QED
    BY <1>1, <2>1, <2>2
\* What is left of a batch does not come back once it is gone.
<1>3. ASSUME NEW w \in FanoutWorkers, NEW t \in batches[w].todo, t \in DOMAIN targets'
      PROVE  t \in DOMAIN targets
  <2>1. t.event \in DOMAIN events'
    BY <1>1, <1>3
  <2>2. t.event \in DOMAIN events \/ t.event > appended
    BY <2>1 DEF NoFanOut, EventDates
  <2>3. t.event <= appended /\ (t.event \in DOMAIN events => t \in DOMAIN targets)
    BY DEF FanoutInv, ClaimedIsHeld
  <2> QED
    BY <1>1, <1>3, <2>2, <2>3
<1>4. \A t \in DOMAIN targets \cap DOMAIN targets' :
        Pending(t)' => Pending(t) /\ targets'[t].owner = targets[t].owner
                       /\ (targets'[t].lease > 0 => targets[t].lease > 0)
  BY DEF NoFanOut, KeptTargets, KeptClaims, Pending
<1>5. \A t \in DOMAIN targets \cap DOMAIN targets' : targets'[t].at = targets[t].at
  BY DEF NoFanOut, KeptClaims
<1>6. \A t : Claimed(t)' <=> Claimed(t)
  BY DEF NoFanOut, Claimed
<1>7. Dated'
  <2>1. ASSUME NEW t \in DOMAIN targets'
        PROVE  /\ t.event <= targets'[t].at /\ targets'[t].at <= appended'
               /\ t.purpose = "normal" => targets'[t].at = t.event
    <3>1. CASE t \in DOMAIN targets
      BY <1>1, <1>5, <3>1 DEF FanoutInv, Dated
    <3>2. CASE t \notin DOMAIN targets
      BY <3>2 DEF NoFanOut, NewDates
    <3> QED
      BY <3>1, <3>2
  <2>2. ASSUME NEW e \in DOMAIN events', NEW c \in events'[e].cause PROVE c < e
    BY DEF FanoutInv, Dated, NoFanOut, EventDates
  <2> QED
    BY <2>1, <2>2 DEF Dated
<1>8. LeasedIsClaimed'
  <2>1. SUFFICES ASSUME NEW t \in DOMAIN targets', Pending(t)', targets'[t].lease > 0
                 PROVE  Claimed(t)
    BY <1>6 DEF LeasedIsClaimed
  <2>2. t \in DOMAIN targets
    BY <2>1 DEF NoFanOut, NewDates
  <2> QED
    BY <1>4, <2>1, <2>2 DEF FanoutInv, LeasedIsClaimed
<1>9. ClaimedIsHeld'
  <2>1. SUFFICES ASSUME NEW w \in FanoutWorkers, NEW t \in batches[w].todo
                 PROVE  /\ t.event <= appended'
                        /\ t.event \in DOMAIN events' => t \in DOMAIN targets'
                        /\ Pending(t)' => HoldsTarget(t, batches[w].owner)'
    BY DEF ClaimedIsHeld, NoFanOut
  <2>2. /\ t.event <= appended /\ (t.event \in DOMAIN events => t \in DOMAIN targets)
        /\ Pending(t) => HoldsTarget(t, batches[w].owner)
    BY DEF FanoutInv, ClaimedIsHeld
  <2>3. t.event \in Nat
    BY ConstantsOK DEF CallersInv, Batch, TargetId, EventIds
  <2>4. ASSUME Pending(t)' PROVE HoldsTarget(t, batches[w].owner)'
    <3>1. t \in DOMAIN targets \cap DOMAIN targets'
      BY <1>3, <2>4 DEF Pending
    <3>2. Pending(t) /\ targets'[t].owner = targets[t].owner
      BY <1>4, <2>4, <3>1
    <3>3. HoldsTarget(t, batches[w].owner)
      BY <2>2, <3>2
    <3>4. targets'[t].lease > 0
      BY <2>4, <3>1, <3>3 DEF NoFanOut, KeptClaims, Pending
    <3> QED
      BY <2>4, <3>2, <3>3, <3>4 DEF HoldsTarget, Pending, NoFanOut
  <2>5. ASSUME t.event \in DOMAIN events' PROVE t \in DOMAIN targets'
    <3>1. t.event \in DOMAIN events
      BY <1>1, <2>3, <2>2, <2>5 DEF NoFanOut, EventDates
    <3> QED
      BY <2>2, <2>5, <3>1 DEF RemovedWithEvent
  <2> QED
    BY <1>1, <2>3, <2>2, <2>4, <2>5
<1>10. FannedOutInOrder'
  <2>1. SUFFICES ASSUME NEW t \in DOMAIN targets', NEW d \in DOMAIN deliveries',
                        t.purpose = "normal", Pending(t)', d.sub = t.sub
                 PROVE  targets'[d].at <= targets'[t].at
    BY DEF FannedOutInOrder
  <2>2. d \in DOMAIN deliveries /\ d \in DOMAIN targets /\ targets'[d].at = targets[d].at
    BY <1>1, <1>5 DEF NoFanOut
  <2>3. CASE t \in DOMAIN targets
    BY <1>4, <1>5, <2>1, <2>2, <2>3 DEF FanoutInv, FannedOutInOrder
  <2>4. CASE t \notin DOMAIN targets
    BY <1>2, <2>1, <2>2, <2>4
  <2> QED
    BY <2>3, <2>4
<1>11. ClaimedInOrder'
  <2>1. SUFFICES ASSUME NEW t \in DOMAIN targets', NEW u \in DOMAIN targets',
                        t.purpose = "normal", Pending(t)', ~Claimed(t),
                        Pending(u)', Claimed(u), u.sub = t.sub
                 PROVE  targets'[u].at <= targets'[t].at
    BY <1>6 DEF ClaimedInOrder
  <2>2. u \in DOMAIN targets /\ targets'[u].at = targets[u].at /\ Pending(u)
    BY <1>3, <1>4, <1>5, <2>1 DEF Claimed
  <2>3. CASE t \in DOMAIN targets
    BY <1>4, <1>5, <2>1, <2>2, <2>3 DEF FanoutInv, ClaimedInOrder
  <2>4. CASE t \notin DOMAIN targets
    BY <1>2, <2>1, <2>2, <2>4
  <2> QED
    BY <2>3, <2>4
<1> QED
  BY <1>7, <1>8, <1>9, <1>10, <1>11 DEF FanoutInv

LEMMA ClaimTargetsLane ==
  ASSUME OneFanoutWorker, StoreInv, CallersInv, FanoutInv, NEW w \in FanoutWorkers, ClaimTargets(w)
  PROVE  FanoutInv'
<1>1. PICK B \in SUBSET ClaimableTargets :
        /\ ClaimFanoutTargets(B, ClaimOwner)
        /\ batches' = [batches EXCEPT ![w] = [owner |-> ClaimOwner, todo |-> B]]
  BY DEF ClaimTargets
<1>2. /\ batches[w].todo = {} /\ \A v \in FanoutWorkers : v = w
      /\ batches'[w].owner = ClaimOwner /\ batches'[w].todo = B
  BY <1>1 DEF ClaimTargets, OneFanoutWorker, CallersInv
<1>3. (\A t : ~Claimed(t)) /\ \A t : Claimed(t)' <=> t \in B
  BY <1>2 DEF Claimed
<1>4. /\ targets' = [t \in DOMAIN targets |->
                       IF t \in B THEN [targets[t] EXCEPT !.owner = ClaimOwner, !.lease = Lease]
                       ELSE targets[t]]
  BY <1>1 DEF ClaimFanoutTargets
<1>5. /\ \A t \in B : \A u \in ClaimableTargets : CreatedBefore(u, t) => u \in B
      /\ events' = events /\ appended' = appended /\ deliveries' = deliveries
  BY <1>1 DEF ClaimFanoutTargets
<1>6. \A x \in Target : LET y == [x EXCEPT !.owner = ClaimOwner, !.lease = Lease]
                        IN y.status = x.status /\ y.at = x.at /\ y.owner = ClaimOwner /\ y.lease = Lease
  BY DEF Target
<1>7. \A t \in DOMAIN targets : targets[t] \in Target
  BY DEF StoreInv, StoreTypeOK
<1>8. /\ DOMAIN targets' = DOMAIN targets
      /\ \A t \in DOMAIN targets :
           /\ targets'[t].status = targets[t].status /\ targets'[t].at = targets[t].at
           /\ t \in B => targets'[t].owner = ClaimOwner /\ targets'[t].lease = Lease
           /\ t \notin B => targets'[t] = targets[t]
  BY <1>4, <1>6, <1>7
<1>9. Dated'
  BY <1>5, <1>8 DEF FanoutInv, Dated
<1>10. LeasedIsClaimed'
  BY <1>3, <1>8 DEF FanoutInv, LeasedIsClaimed, Pending
<1>11. ClaimedIsHeld'
  <2>1. \A t \in B : t \in DOMAIN targets /\ t.event <= appended
    BY TargetNumbers DEF ClaimableTargets
  <2>2. Lease > 0
    BY ConstantsOK
  <2> QED
    BY <1>2, <1>5, <1>8, <2>1, <2>2 DEF ClaimedIsHeld, Pending, HoldsTarget
<1>12. FannedOutInOrder'
  <2>1. DOMAIN deliveries \subseteq DOMAIN targets
    BY TargetNumbers
  <2> QED
    BY <1>5, <1>8, <2>1 DEF FanoutInv, FannedOutInOrder, Pending
<1>13. ClaimedInOrder'
  <2>1. SUFFICES ASSUME NEW t \in DOMAIN targets, NEW u \in B, Pending(t), t \notin B
                 PROVE  targets[u].at <= targets[t].at
    BY <1>3, <1>8 DEF ClaimedInOrder, Pending
  <2>2. targets[t].lease = 0
    BY <1>3, <2>1, TargetNumbers DEF FanoutInv, LeasedIsClaimed
  <2>3. t \in ClaimableTargets /\ u \in DOMAIN targets
    BY <2>1, <2>2 DEF ClaimableTargets, Pending
  <2>4. ~(targets[t].at < targets[u].at)
    BY <1>5, <2>1, <2>3 DEF CreatedBefore
  <2> QED
    BY <2>3, <2>4, TargetNumbers
<1> QED
  BY <1>9, <1>10, <1>11, <1>12, <1>13 DEF FanoutInv

\* Taking a target that is settled or gone off the batch disturbs nothing.
LEMMA BatchWithoutFacts ==
  ASSUME OneFanoutWorker, CallersInv, NEW w \in FanoutWorkers, NEW t \in batches[w].todo,
         batches' = [batches EXCEPT ![w] = BatchWithout(w, t)]
  PROVE  /\ \A v \in FanoutWorkers : v = w
         /\ batches'[w].todo = batches[w].todo \ {t}
         /\ \A u \in batches'[w].todo : batches'[w].owner = batches[w].owner
         /\ \A u : Claimed(u) <=> u \in batches[w].todo
         /\ \A u : Claimed(u)' <=> u \in batches[w].todo /\ u # t
<1>1. \A v \in FanoutWorkers : v = w
  BY DEF OneFanoutWorker
<1>2. /\ BatchWithout(w, t).todo = batches[w].todo \ {t}
      /\ batches[w].todo # {t} => BatchWithout(w, t).owner = batches[w].owner
  <2>1. batches[w] \in Batch
    BY DEF CallersInv
  <2> QED
    BY <2>1 DEF BatchWithout, Idle, Batch
<1>3. batches'[w] = BatchWithout(w, t)
  BY DEF CallersInv
<1> QED
  BY <1>1, <1>2, <1>3 DEF Claimed

LEMMA FailMaterializeLane ==
  ASSUME OneFanoutWorker, StoreInv, CallersInv, FanoutInv, faults' = faults,
         NEW w \in FanoutWorkers, NEW t \in batches[w].todo, FailMaterialize(w, t)
  PROVE  FanoutInv'
<1>1. /\ UNCHANGED <<events, appended, targets, deliveries>>
      /\ batches' = [batches EXCEPT ![w] = BatchWithout(w, t)]
  BY DEF FailMaterialize, storeVars
<1>2. ~HoldsTarget(t, batches[w].owner)
  BY EventingConstantsOK DEF FailMaterialize, Fault, CallersInv
<1>3. ~Pending(t)
  BY <1>2 DEF FanoutInv, ClaimedIsHeld
<1>4. /\ batches'[w].todo = batches[w].todo \ {t}
      /\ \A u \in batches'[w].todo : batches'[w].owner = batches[w].owner
      /\ \A v \in FanoutWorkers : v = w
      /\ \A u : Pending(u) => (Claimed(u)' <=> Claimed(u))
  BY <1>1, <1>3, BatchWithoutFacts
<1>5. \A u : Pending(u)' <=> Pending(u)
  BY <1>1 DEF Pending
<1>6. Dated' /\ FannedOutInOrder'
  BY <1>1, <1>5 DEF FanoutInv, Dated, FannedOutInOrder
<1>7. LeasedIsClaimed' /\ ClaimedInOrder'
  BY <1>1, <1>4, <1>5 DEF FanoutInv, LeasedIsClaimed, ClaimedInOrder
<1>8. ClaimedIsHeld'
  BY <1>1, <1>4, <1>5 DEF FanoutInv, ClaimedIsHeld, HoldsTarget
<1> QED
  BY <1>6, <1>7, <1>8 DEF FanoutInv

\* A batch is worked off in the order of the claim, and a claim takes the oldest.
LEMMA MaterializeLane ==
  ASSUME OneFanoutWorker, StoreInv, CallersInv, FanoutInv,
         NEW w \in FanoutWorkers, NEW t \in batches[w].todo, NEW status, Materialize(w, t, status)
  PROVE  FanoutInv'
<1>1. /\ NextInBatch(w, t) /\ Pending(t)
      /\ targets' = [targets EXCEPT ![t].status = "materialized", ![t].owner = NoOwner, ![t].lease = 0]
      /\ \E ts, E : events' = SettleFanout(events, ts, E)
      /\ DOMAIN deliveries' = DOMAIN deliveries \cup {t}
      /\ appended' = appended
      /\ batches' = [batches EXCEPT ![w] = BatchWithout(w, t)]
  BY DEF Materialize, MaterializeFanoutTarget, HoldsTarget, Pending
<1>2. /\ batches'[w].todo = batches[w].todo \ {t}
      /\ \A u \in batches'[w].todo : batches'[w].owner = batches[w].owner
      /\ \A v \in FanoutWorkers : v = w
      /\ \A u : Claimed(u) <=> u \in batches[w].todo
      /\ \A u : Claimed(u)' <=> u \in batches[w].todo /\ u # t
  BY <1>1, BatchWithoutFacts
<1>3. /\ DOMAIN targets' = DOMAIN targets /\ t \in DOMAIN targets
      /\ targets'[t].status = "materialized"
      /\ \A u \in DOMAIN targets : targets'[u].at = targets[u].at /\ (u # t => targets'[u] = targets[u])
  <2>1. \A u \in DOMAIN targets : targets[u] \in Target
    BY DEF StoreInv, StoreTypeOK
  <2> QED
    BY <1>1, <2>1 DEF Pending, Target
<1>4. \A u : Pending(u)' <=> Pending(u) /\ u # t
  BY <1>3 DEF Pending
<1>5. SamePlaces(events, events') /\ DOMAIN events' = DOMAIN events
  <2>1. \A e \in DOMAIN events : events[e] \in Event
    BY DEF StoreInv, StoreTypeOK
  <2>2. PICK ts, E : events' = SettleFanout(events, ts, E)
    BY <1>1
  <2>3. DOMAIN events' = DOMAIN events
    BY <2>2 DEF SettleFanout
  <2> QED
    BY <2>1, <2>2, <2>3, SettlePlaces
<1>6. Dated'
  BY <1>1, <1>3, <1>5 DEF FanoutInv, Dated, SamePlaces
<1>7. LeasedIsClaimed'
  BY <1>2, <1>3, <1>4 DEF FanoutInv, LeasedIsClaimed
<1>8. ClaimedIsHeld'
  BY <1>1, <1>2, <1>3, <1>4, <1>5 DEF FanoutInv, ClaimedIsHeld, HoldsTarget
<1>9. FannedOutInOrder'
  <2>1. SUFFICES ASSUME NEW u \in DOMAIN targets, u.purpose = "normal", Pending(u), u # t, t.sub = u.sub
                 PROVE  targets[t].at <= targets[u].at
    BY <1>1, <1>3, <1>4, TargetNumbers DEF FannedOutInOrder, FanoutInv
  <2>2. CASE Claimed(u)
    <3>1. ~(targets[u].at < targets[t].at)
      BY <1>1, <1>2, <1>3, <2>2 DEF NextInBatch, CreatedBefore
    <3> QED
      BY <1>3, <3>1, TargetNumbers
  <2>3. CASE ~Claimed(u)
    BY <1>1, <1>2, <1>3, <2>1, <2>3 DEF FanoutInv, ClaimedInOrder
  <2> QED
    BY <2>2, <2>3
<1>10. ClaimedInOrder'
  BY <1>2, <1>3, <1>4 DEF FanoutInv, ClaimedInOrder
<1> QED
  BY <1>6, <1>7, <1>8, <1>9, <1>10 DEF FanoutInv

-----------------------------------------------------------------------------
(* The steps that are no fanout *)

QuietTargets ==
  /\ batches' = batches /\ appended' = appended
  /\ DOMAIN deliveries' \subseteq DOMAIN deliveries /\ DOMAIN targets' \subseteq DOMAIN targets
  /\ \A t \in DOMAIN targets' :
       /\ targets'[t].at = targets[t].at
       /\ targets'[t].status = "pending" => targets'[t] = targets[t]

LEMMA QuietNoFanOut ==
  ASSUME StoreInv, QuietTargets, KeepsEvents
  PROVE  NoFanOut
<1>1. EventDates
  BY TargetNumbers DEF EventDates, QuietTargets, KeepsEvents, SamePlaces
<1>2. NewDates
  BY DEF NewDates, QuietTargets
<1>3. KeptClaims
  BY DEF KeptClaims, QuietTargets, HoldsTarget
<1> QED
  BY <1>1, <1>2, <1>3 DEF NoFanOut, QuietTargets

LEMMA UntouchedQuiet ==
  ASSUME UNCHANGED <<batches, appended, targets>>, DOMAIN deliveries' \subseteq DOMAIN deliveries
  PROVE  QuietTargets
BY DEF QuietTargets

LEMMA CancelQuiet ==
  ASSUME StoreInv, UNCHANGED <<batches, appended>>, DOMAIN deliveries' \subseteq DOMAIN deliveries,
         NEW T, targets' = CancelTargets(T)
  PROVE  QuietTargets
<1>1. \A t \in DOMAIN targets : targets[t] \in Target
  BY DEF StoreInv, StoreTypeOK
<1>2. \A x \in Target : LET y == [x EXCEPT !.status = "cancelled", !.owner = NoOwner, !.lease = 0]
                        IN y.status = "cancelled" /\ y.at = x.at
  BY DEF Target
<1> QED
  BY <1>1, <1>2 DEF QuietTargets, CancelTargets

LEMMA ReplaceRevisionQuiet ==
  ASSUME StoreInv, batches' = batches, NEW s, NEW r, NEW status, NEW f, NEW endpoint, NEW cancel,
         ReplaceRevision(s, r, status, f, endpoint, cancel)
  PROVE  QuietTargets
<1>1. \E T : targets' = CancelTargets(T)
  BY DEF ReplaceRevision
<1>2. appended' = appended /\ DOMAIN deliveries' \subseteq DOMAIN deliveries
  BY DEF ReplaceRevision, CancelDeliveries
<1> QED
  BY <1>1, <1>2, CancelQuiet

LEMMA GroupDeletionQuiet ==
  ASSUME StoreInv, batches' = batches, NEW g, CommitGroupDeletion(g)
  PROVE  QuietTargets
<1>1. \E T : targets' = CancelTargets(T)
  BY DEF CommitGroupDeletion
<1>2. appended' = appended /\ DOMAIN deliveries' \subseteq DOMAIN deliveries
  BY DEF CommitGroupDeletion, CancelDeliveries
<1> QED
  BY <1>1, <1>2, CancelQuiet

LEMMA SkipQuiet ==
  ASSUME StoreInv, batches' = batches, NEW d, SkipDeadLetteredDelivery(d)
  PROVE  QuietTargets
BY CancelQuiet DEF SkipDeadLetteredDelivery, CancelDeliveries

LEMMA PurgeQuiet ==
  ASSUME StoreInv, batches' = batches, NEW E, PurgeExpired(E)
  PROVE  QuietTargets
BY DEF PurgeExpired, QuietTargets

\* No lease lapses under a working owner, for that would be a fault.
LEMMA TickNoFanOut ==
  ASSUME StoreInv, CallersInv, faults' = faults, Tick
  PROVE  NoFanOut
<1>1. ~LapsesInUse
  BY EventingConstantsOK DEF Tick, Fault, CallersInv
<1>2. /\ targets' = [t \in DOMAIN targets |-> [targets[t] EXCEPT !.lease = Dec(@)]]
      /\ UNCHANGED <<events, appended, batches>> /\ DOMAIN deliveries' \subseteq DOMAIN deliveries
  BY DEF Tick, ClockTick
<1>3. \A x \in Target : LET y == [x EXCEPT !.lease = Dec(@)]
                        IN y.at = x.at /\ y.owner = x.owner /\ y.lease = Dec(x.lease)
  BY DEF Target
<1>4. /\ DOMAIN targets' = DOMAIN targets
      /\ \A t \in DOMAIN targets : /\ targets'[t].at = targets[t].at
                                   /\ targets'[t].owner = targets[t].owner
                                   /\ targets'[t].lease = Dec(targets[t].lease)
  BY <1>2, <1>3 DEF StoreInv, StoreTypeOK
<1>5. ASSUME NEW w \in FanoutWorkers, NEW t \in batches[w].todo, HoldsTarget(t, batches[w].owner)
      PROVE  Dec(targets[t].lease) > 0
  <2>1. targets[t].lease \in Nat /\ targets[t].lease > 0
    BY <1>5, TargetNumbers DEF HoldsTarget
  <2>2. targets[t].lease # 1
    BY <1>1, <1>5 DEF LapsesInUse
  <2> QED
    BY <2>1, <2>2 DEF Dec
<1>6. \A t \in DOMAIN targets : Dec(targets[t].lease) > 0 => targets[t].lease > 0
  BY TargetNumbers DEF Dec
<1>7. KeptClaims
  BY <1>4, <1>5, <1>6 DEF KeptClaims
<1>8. EventDates /\ NewDates
  BY <1>2, <1>4, TargetNumbers DEF EventDates, NewDates
<1> QED
  BY <1>2, <1>7, <1>8 DEF NoFanOut

\* What appends and the backfill add to a log, and when.
AddsDated(log, new) ==
  /\ OnlyAdds(log, new) /\ log.appended <= new.appended
  /\ DOMAIN log.events \subseteq DOMAIN new.events
  /\ \A e \in DOMAIN new.events :
       \/ /\ e \in DOMAIN log.events /\ new.events[e].cause = log.events[e].cause
          /\ new.events[e].stream = log.events[e].stream /\ new.events[e].seq = log.events[e].seq
       \/ e > log.appended /\ \A c \in new.events[e].cause : c < e
  /\ \A t \in DOMAIN new.targets \ DOMAIN log.targets :
       /\ t.event <= new.targets[t].at /\ new.targets[t].at <= new.appended
       /\ new.targets[t].lease = 0
       /\ t.purpose = "normal" =>
            /\ new.targets[t].at = t.event
            /\ t.event > log.appended \/ subs[t.sub].status = "pending"

LEMMA LogNumbers ==
  ASSUME NEW log, LogOK(log)
  PROVE  /\ log.appended \in Nat
         /\ \A e \in DOMAIN log.events : e \in Nat /\ e <= log.appended
         /\ \A t \in DOMAIN log.targets : /\ t.event \in Nat /\ t.event \in DOMAIN log.events
                                          /\ log.targets[t].at \in Nat
BY ConstantsOK DEF LogOK, TargetId, Target, EventIds

LEMMA AddsDatedTwice ==
  ASSUME NEW a, NEW b, NEW c, LogOK(a), LogOK(b), LogOK(c), AddsDated(a, b), AddsDated(b, c)
  PROVE  AddsDated(a, c)
<1>1. OnlyAdds(a, c)
  BY OnlyAddsTwice DEF AddsDated
<1>2. a.appended <= c.appended /\ DOMAIN a.events \subseteq DOMAIN c.events
  BY LogNumbers DEF AddsDated
<1>3. ASSUME NEW e \in DOMAIN c.events
      PROVE  \/ /\ e \in DOMAIN a.events /\ c.events[e].cause = a.events[e].cause
                /\ c.events[e].stream = a.events[e].stream /\ c.events[e].seq = a.events[e].seq
             \/ e > a.appended /\ \A x \in c.events[e].cause : x < e
  <2>1. CASE e > b.appended /\ \A x \in c.events[e].cause : x < e
    BY <2>1, LogNumbers DEF AddsDated
  <2>2. CASE /\ e \in DOMAIN b.events /\ c.events[e].cause = b.events[e].cause
             /\ c.events[e].stream = b.events[e].stream /\ c.events[e].seq = b.events[e].seq
    BY <2>2 DEF AddsDated
  <2> QED
    BY <2>1, <2>2 DEF AddsDated
<1>4. ASSUME NEW t \in DOMAIN c.targets \ DOMAIN a.targets
      PROVE  /\ t.event <= c.targets[t].at /\ c.targets[t].at <= c.appended
             /\ c.targets[t].lease = 0
             /\ t.purpose = "normal" =>
                  /\ c.targets[t].at = t.event
                  /\ t.event > a.appended \/ subs[t.sub].status = "pending"
  <2>1. CASE t \in DOMAIN b.targets
    <3>1. c.targets[t] = b.targets[t] /\ b.targets[t].at \in Nat /\ b.targets[t].at <= b.appended
      BY <1>4, <2>1, LogNumbers DEF AddsDated, OnlyAdds
    <3>2. /\ a.appended \in Nat /\ b.appended \in Nat /\ c.appended \in Nat
          /\ b.appended <= c.appended
      BY LogNumbers DEF AddsDated
    <3> QED
      BY <1>4, <2>1, <3>1, <3>2 DEF AddsDated
  <2>2. CASE t \notin DOMAIN b.targets
    <3>1. /\ a.appended \in Nat /\ b.appended \in Nat /\ a.appended <= b.appended /\ t.event \in Nat
      BY LogNumbers DEF AddsDated
    <3>2. /\ t.event <= c.targets[t].at /\ c.targets[t].at <= c.appended
          /\ c.targets[t].lease = 0
          /\ t.purpose = "normal" =>
               /\ c.targets[t].at = t.event
               /\ t.event > b.appended \/ subs[t.sub].status = "pending"
      BY <2>2 DEF AddsDated
    <3> QED
      BY <3>1, <3>2
  <2> QED
    BY <2>1, <2>2
<1> QED
  BY <1>1, <1>2, <1>3, <1>4 DEF AddsDated

LEMMA AppendAddsDated ==
  ASSUME StoreTypeOK, NEW log, LogOK(log), NEW A \in SUBSET DOMAIN subs,
         NEW in \in EventInput, CanAppend(log, A, in)
  PROVE  AddsDated(log, AppendTo(log, A, in))
<1>1. CASE Deduplicated(log, in)
  BY <1>1, LogNumbers DEF AppendTo, AddsDated, OnlyAdds
<1>2. CASE ~Deduplicated(log, in)
  <2> DEFINE e == log.appended + 1
             M == Matching(A, in)
             D(s) == DependsOn(log, in, s)
             normal == {NormalId(e, s, subs[s].revision) : s \in M}
             prerequisite == (UNION {D(s) : s \in M}) \ DOMAIN log.targets
             record == [group |-> in.group, stream |-> in.stream,
                        seq |-> NextSequence(log, in.stream),
                        type |-> in.type, key |-> in.key, cause |-> in.cause,
                        fanout |-> IF M = {} THEN "completed" ELSE "pending",
                        expired |-> FALSE]
             reopened == ReopenFanout(log.events, {t.event : t \in prerequisite})
             new == AppendTo(log, A, in)
  <2>1. /\ new.events = [x \in DOMAIN log.events \cup {e} |-> IF x = e THEN record ELSE reopened[x]]
        /\ new.targets = [t \in DOMAIN log.targets \cup normal \cup prerequisite |->
                            IF t \in normal THEN NewTarget(e, D(t.sub), {}, {})
                            ELSE IF t \in prerequisite THEN NewTarget(e, {}, {}, {})
                            ELSE log.targets[t]]
        /\ new.appended = e
    BY <1>2 DEF AppendTo
  <2>2. OnlyAdds(log, new)
    BY AppendOnlyAdds
  <2>3. in.cause \subseteq DOMAIN log.events
    BY <1>2 DEF CanAppend
  <2>4. SamePlaces(log.events, reopened) /\ DOMAIN reopened = DOMAIN log.events
    BY ReopenPlaces DEF LogOK
  <2>5. record.cause = in.cause
    OBVIOUS
  <2>6. \A t \in normal : t.event = e /\ t.purpose = "normal"
    BY DEF NormalId
  <2>7. \A t \in prerequisite : t.event \in in.cause /\ t.purpose = "cause"
    <3>1. \A c, s, r : CauseId(c, s, r).purpose = "cause"
      BY DEF CauseId
    <3> QED
      BY <3>1, ResolveCauseFacts DEF DependsOn
  <2>8. \A dep : NewTarget(e, dep, {}, {}).at = e /\ NewTarget(e, dep, {}, {}).lease = 0
    BY DEF NewTarget
  <2>9. /\ log.appended \in Nat /\ e \in Nat /\ log.appended < e
        /\ \A x \in DOMAIN log.events : x \in Nat /\ x < e
    BY LogNumbers
  <2> HIDE DEF e, M, D, normal, prerequisite, record, reopened, new
  <2>10. /\ DOMAIN new.events = DOMAIN log.events \cup {e} /\ new.events[e].cause = in.cause
         /\ \A x \in DOMAIN log.events : /\ new.events[x].cause = log.events[x].cause
                                         /\ new.events[x].stream = log.events[x].stream
                                         /\ new.events[x].seq = log.events[x].seq
    BY <2>1, <2>4, <2>5, <2>9 DEF SamePlaces
  <2>11. \A x \in DOMAIN new.events :
           \/ /\ x \in DOMAIN log.events /\ new.events[x].cause = log.events[x].cause
              /\ new.events[x].stream = log.events[x].stream /\ new.events[x].seq = log.events[x].seq
           \/ x > log.appended /\ \A c \in new.events[x].cause : c < x
    BY <2>3, <2>9, <2>10
  <2>12. ASSUME NEW t \in DOMAIN new.targets \ DOMAIN log.targets
         PROVE  /\ t.event <= new.targets[t].at /\ new.targets[t].at <= new.appended
                /\ new.targets[t].lease = 0
                /\ t.purpose = "normal" =>
                     /\ new.targets[t].at = t.event
                     /\ t.event > log.appended \/ subs[t.sub].status = "pending"
    <3>1. new.targets[t].at = e /\ new.targets[t].lease = 0 /\ (t \in normal \/ t \in prerequisite)
      BY <2>1, <2>8, <2>12
    <3>2. t.event <= e /\ (t.purpose = "normal" => t.event = e)
      BY <2>3, <2>6, <2>7, <2>9, <3>1
    <3> QED
      BY <2>1, <2>9, <3>1, <3>2
  <2>13. log.appended <= new.appended /\ DOMAIN log.events \subseteq DOMAIN new.events
    BY <2>1, <2>9, <2>10
  <2> QED
    BY <2>2, <2>11, <2>12, <2>13 DEF AddsDated, new
<1> QED
  BY <1>1, <1>2

\* A prerequisite made by the backfill is dated like the first event it is for.
LEMMA BackfillAddsDated ==
  ASSUME StoreInv, Dated, NEW S \in SUBSET DOMAIN subs, NEW g \in Groups,
         BackfillCausesStored(S, g), \A s \in S : subs[s].status = "pending"
  PROVE  AddsDated(Log, Backfill(S, g))
<1> DEFINE added == Missed(S, g) \ DOMAIN targets
           with == [t \in DOMAIN targets \cup added |->
                      IF t \in added THEN NewTarget(t.event, {}, {}, {}) ELSE targets[t]]
           dep(t) == ResolveCause(with, events, events[t.event].cause, t.sub, t.rev)
           prerequisite == (UNION {dep(t) : t \in added}) \ DOMAIN with
           dependents(c) == {t.event : t \in {x \in added : c \in dep(x)}}
           first(c) == CHOOSE a \in dependents(c) : \A t \in added : c \in dep(t) => a <= t.event
           new == Backfill(S, g)
<1>1. /\ \E E : new.events = ReopenFanout(events, E)
      /\ new.targets = [t \in DOMAIN with \cup prerequisite |->
                          IF t \in added THEN NewTarget(t.event, dep(t), {}, {})
                          ELSE IF t \in prerequisite THEN NewTarget(first(t), {}, {}, {})
                          ELSE targets[t]]
      /\ new.appended = appended
  BY DEF Backfill
<1>2. /\ OnlyAdds(Log, new)
      /\ Log.targets = targets /\ Log.events = events /\ Log.appended = appended
  BY BackfillOnlyAdds DEF Log
<1>3. \A t \in added : /\ t.sub \in S /\ t.event \in DOMAIN events /\ t.purpose = "normal"
  BY DEF Missed, NormalId
<1>4. DOMAIN with = DOMAIN targets \cup added
  OBVIOUS
<1>5. \A t \in added : \A c \in dep(t) : c.event \in events[t.event].cause
                                         /\ (c \notin DOMAIN with => c.purpose = "cause")
  <2>1. \A c, s, r : CauseId(c, s, r).purpose = "cause"
    BY DEF CauseId
  <2> HIDE DEF with
  <2> QED
    BY <2>1, ResolveCauseFacts
<1>6. \A a, d : NewTarget(a, d, {}, {}).at = a /\ NewTarget(a, d, {}, {}).lease = 0
  BY DEF NewTarget
<1>7. /\ appended \in Nat /\ \A e \in DOMAIN events : e \in Nat /\ e <= appended
      /\ \A e \in DOMAIN events : \A c \in events[e].cause : c < e
      /\ \A e \in DOMAIN events : events[e].cause \subseteq Nat
  <2>1. \A e \in DOMAIN events : events[e].cause \subseteq Nat
    BY ConstantsOK DEF StoreInv, StoreTypeOK, Event, Causes, EventIds
  <2> QED
    BY <2>1, TargetNumbers DEF Dated
<1> HIDE DEF added, with, dep
<1>8. ASSUME NEW t \in prerequisite
      PROVE  t.event <= first(t) /\ first(t) <= appended /\ t.purpose = "cause"
  <2>1. PICK x \in added : t \in dep(x)
    BY <1>8
  <2>2. dependents(t) # {} /\ dependents(t) \in SUBSET Nat
    BY <1>3, <1>7, <2>1
  <2>3. \E a \in dependents(t) : \A y \in dependents(t) : a <= y
    <3> HIDE DEF dependents
    <3> QED BY <2>2, Minimum
  <2>4. \E a \in dependents(t) : \A y \in added : t \in dep(y) => a <= y.event
    BY <2>3
  <2>5. first(t) \in dependents(t)
    <3> HIDE DEF dependents
    <3> QED BY <2>4
  <2>6. PICK y \in added : t \in dep(y) /\ first(t) = y.event
    BY <2>5
  <2> HIDE DEF first, dependents
  <2>7. t.event \in events[y.event].cause /\ y.event \in DOMAIN events /\ t.purpose = "cause"
    BY <1>3, <1>5, <1>8, <2>6
  <2>8. t.event \in Nat /\ t.event < y.event /\ y.event \in Nat /\ y.event <= appended
    BY <1>7, <2>7
  <2> QED
    BY <2>6, <2>7, <2>8
<1> HIDE DEF prerequisite, first, new
<1>9. SamePlaces(events, new.events) /\ DOMAIN new.events = DOMAIN events
  BY <1>1, ReopenPlaces DEF StoreInv, StoreTypeOK
<1>10. ASSUME NEW t \in DOMAIN new.targets \ DOMAIN targets
       PROVE  /\ t.event <= new.targets[t].at /\ new.targets[t].at <= appended
              /\ new.targets[t].lease = 0
              /\ t.purpose = "normal" => /\ new.targets[t].at = t.event
                                         /\ subs[t.sub].status = "pending"
  <2>1. CASE t \in added
    <3>1. new.targets[t] = NewTarget(t.event, dep(t), {}, {})
      BY <1>1, <1>4, <2>1
    <3> QED
      BY <1>3, <1>6, <1>7, <2>1, <3>1
  <2>2. CASE t \notin added
    <3>1. t \in prerequisite /\ new.targets[t] = NewTarget(first(t), {}, {}, {})
      BY <1>1, <1>4, <1>10, <2>2
    <3> QED
      BY <1>6, <1>8, <3>1
  <2> QED
    BY <2>1, <2>2
<1>11. /\ Log.appended <= new.appended /\ new.appended = appended
       /\ DOMAIN Log.events \subseteq DOMAIN new.events
       /\ \A e \in DOMAIN new.events :
            /\ e \in DOMAIN Log.events /\ new.events[e].cause = Log.events[e].cause
            /\ new.events[e].stream = Log.events[e].stream /\ new.events[e].seq = Log.events[e].seq
  BY <1>1, <1>2, <1>7, <1>9 DEF SamePlaces
<1> QED
  BY <1>2, <1>10, <1>11 DEF AddsDated, new

LEMMA AddsDatedNoFanOut ==
  ASSUME NEW log, AddsDated(Log, log), BecomesLog(log), UNCHANGED <<batches, deliveries>>
  PROVE  NoFanOut
<1>1. /\ Log.targets = targets /\ Log.events = events /\ Log.appended = appended
      /\ targets' = log.targets /\ events' = log.events /\ appended' = log.appended
  BY DEF Log, BecomesLog
<1>2. EventDates /\ NewDates
  BY <1>1 DEF AddsDated, EventDates, NewDates
<1>3. KeptClaims
  BY <1>1 DEF AddsDated, OnlyAdds, KeptClaims, HoldsTarget
<1> QED
  BY <1>2, <1>3 DEF NoFanOut

LEMMA AppendEventLane ==
  ASSUME StoreInv, batches' = batches, NEW in \in EventInput, AppendEvent(in)
  PROVE  NoFanOut
<1>1. ActiveSubs \in SUBSET DOMAIN subs /\ LogOK(Log) /\ StoreTypeOK
  BY LogIsOK DEF ActiveSubs, StoreInv
<1>2. AddsDated(Log, AppendTo(Log, ActiveSubs, in))
  BY <1>1, AppendAddsDated DEF AppendEvent
<1> QED
  BY <1>2, AddsDatedNoFanOut DEF AppendEvent

LEMMA FinalizeLane ==
  ASSUME StoreInv, Dated, batches' = batches, NEW g \in Groups, NEW created \in EventInput,
         NEW session \in EventInput, FinalizeGroupProvisioning(g, created, session)
  PROVE  NoFanOut
<1> DEFINE S == PendingSubs(g)
           A == ActiveSubs \cup S
           log1 == Backfill(S, g)
           log2 == AppendTo(log1, A, created)
           caused == [session EXCEPT !.cause = {log2.appended}]
           log3 == AppendTo(log2, A, caused)
<1>1. /\ S \in SUBSET DOMAIN subs /\ A \in SUBSET DOMAIN subs /\ StoreTypeOK
      /\ BackfillCausesStored(S, g)
      /\ ~Deduplicated(log1, created) /\ CanAppend(log1, A, created)
      /\ \A s \in S : subs[s].status = "pending"
  BY DEF PendingSubs, ActiveSubs, StoreInv, FinalizeGroupProvisioning
<1>2. LogOK(Log) /\ LogOK(log1) /\ AddsDated(Log, log1)
  BY <1>1, LogIsOK, BackfillType, BackfillAddsDated
<1>3. LogOK(log2) /\ log2.appended \in EventIds /\ AddsDated(log1, log2)
  BY <1>1, <1>2, AppendType, AppendAddsDated
<1>4. caused \in EventInput
  BY <1>3 DEF EventInput, Causes
<1>5. CanAppend(log2, A, caused) => LogOK(log3) /\ AddsDated(log2, log3)
  BY <1>1, <1>3, <1>4, AppendType, AppendAddsDated
<1>6. /\ deliveries' = deliveries
      /\ BecomesLog(log2) \/ (CanAppend(log2, A, caused) /\ BecomesLog(log3))
  BY DEF FinalizeGroupProvisioning
<1> HIDE DEF log1, log2, log3, caused, S, A
<1>7. AddsDated(Log, log2) /\ (CanAppend(log2, A, caused) => AddsDated(Log, log3))
  BY <1>2, <1>3, <1>5, AddsDatedTwice
<1> QED
  BY <1>6, <1>7, AddsDatedNoFanOut

LEMMA ReplayLane ==
  ASSUME StoreInv, AuditInv, batches' = batches, NEW d, NEW q, CreateReplayTarget(d, q)
  PROVE  NoFanOut
<1> DEFINE r == subs[d.sub].revision
           dep == ResolveCause(targets, events, events[d.event].cause, d.sub, r)
           prerequisite == dep \ DOMAIN targets
           id == ReplayId(d.event, d.sub, r, replays + 1)
<1>1. /\ targets' = [t \in DOMAIN targets \cup prerequisite \cup {id} |->
                       IF t = id THEN NewTarget(appended, dep, {d}, {q})
                       ELSE IF t \in prerequisite THEN NewTarget(appended, {}, {}, {})
                       ELSE targets[t]]
      /\ \E E : events' = ReopenFanout(events, E)
      /\ deliveries' = deliveries /\ appended' = appended
      /\ events[d.event].cause \subseteq DOMAIN events
      /\ d \in DOMAIN deliveries
  BY DEF CreateReplayTarget, UnresolvedDeadLetter
<1>2. d.event \in DOMAIN events
  BY <1>1, TargetNumbers
<1>3. id.event = d.event /\ id.purpose = "replay" /\ id.n = replays + 1
  BY DEF ReplayId
<1>4. id \notin DOMAIN targets
  <2>1. replays \in Nat /\ \A t \in DOMAIN targets : t.n \in Nat /\ t.n <= replays
    BY ConstantsOK DEF AuditInv, StoreInv, StoreTypeOK, TargetId
  <2> QED
    BY <1>3, <2>1
<1>5. \A t \in prerequisite : t.event \in DOMAIN events /\ t.purpose = "cause"
  <2>1. \A e, s, x : CauseId(e, s, x).purpose = "cause"
    BY DEF CauseId
  <2> QED
    BY <1>1, <2>1, ResolveCauseFacts
<1>6. \A x, y, z : NewTarget(appended, x, y, z).at = appended /\ NewTarget(appended, x, y, z).lease = 0
  BY DEF NewTarget
<1>7. prerequisite \cap DOMAIN targets = {}
  OBVIOUS
<1>8. SamePlaces(events, events') /\ DOMAIN events' = DOMAIN events
  BY <1>1, ReopenPlaces DEF StoreInv, StoreTypeOK
<1> HIDE DEF dep, prerequisite, id, r
<1>9. /\ \A t \in DOMAIN targets : targets'[t] = targets[t]
      /\ \A t \in DOMAIN targets' \ DOMAIN targets :
           /\ t.event \in DOMAIN events /\ t.purpose # "normal"
           /\ targets'[t].at = appended /\ targets'[t].lease = 0
  <2>1. \A t \in DOMAIN targets : targets'[t] = targets[t]
    BY <1>1, <1>4, <1>7
  <2>2. ASSUME NEW t \in DOMAIN targets' \ DOMAIN targets
        PROVE  /\ t.event \in DOMAIN events /\ t.purpose # "normal"
               /\ targets'[t].at = appended /\ targets'[t].lease = 0
    <3>1. CASE t = id
      BY <1>1, <1>2, <1>3, <1>6, <3>1
    <3>2. CASE t # id
      BY <1>1, <1>5, <1>6, <2>2, <3>2
    <3> QED
      BY <3>1, <3>2
  <2> QED
    BY <2>1, <2>2
<1>10. EventDates /\ NewDates
  <2>1. appended' = appended /\ appended \in Nat
        /\ \A e \in DOMAIN events : e \in Nat /\ e <= appended
    BY <1>1, TargetNumbers
  <2>2. EventDates
    BY <1>8, <2>1 DEF EventDates, SamePlaces
  <2>3. NewDates
    BY <1>9, <2>1 DEF NewDates
  <2> QED
    BY <2>2, <2>3
<1>11. KeptClaims
  BY <1>9 DEF KeptClaims, HoldsTarget
<1> QED
  BY <1>1, <1>10, <1>11 DEF NoFanOut

-----------------------------------------------------------------------------
(* The strict lane: every step, and the theorem *)

\* A delivery that takes off was eligible.
InFlightStep ==
  \A d \in DOMAIN deliveries' : deliveries'[d].status = "in_flight" =>
    d \in DOMAIN deliveries /\ (deliveries[d].status = "in_flight" \/ Eligible(d))

LEMMA CancelInFlight ==
  ASSUME StoreInv, NEW D, deliveries' = CancelDeliveries(D)
  PROVE  InFlightStep
<1>1. \A d \in DOMAIN deliveries : Move(d, "cancelled", 0).status = "cancelled"
  BY DEF StoreInv, StoreTypeOK, Delivery, Move
<1> QED
  BY <1>1 DEF InFlightStep, CancelDeliveries

LEMMA UntouchedInFlight ==
  ASSUME deliveries' = deliveries
  PROVE  InFlightStep
BY DEF InFlightStep

LEMMA WithdrawInFlight ==
  ASSUME StoreInv
  PROVE  /\ \A s, r, status, f, endpoint, cancel :
              ReplaceRevision(s, r, status, f, endpoint, cancel) => InFlightStep
         /\ \A g : CommitGroupDeletion(g) => InFlightStep
         /\ \A d : SkipDeadLetteredDelivery(d) => InFlightStep
<1>1. ASSUME NEW s, NEW r, NEW status, NEW f, NEW endpoint, NEW cancel,
             ReplaceRevision(s, r, status, f, endpoint, cancel)
      PROVE  InFlightStep
  <2>1. \E D : deliveries' = CancelDeliveries(D)
    BY <1>1 DEF ReplaceRevision
  <2> QED
    BY <2>1, CancelInFlight
<1>2. ASSUME NEW g, CommitGroupDeletion(g) PROVE InFlightStep
  <2>1. \E D : deliveries' = CancelDeliveries(D)
    BY <1>2 DEF CommitGroupDeletion
  <2> QED
    BY <2>1, CancelInFlight
<1>3. ASSUME NEW d, SkipDeadLetteredDelivery(d) PROVE InFlightStep
  <2> DEFINE ds == CancelDeliveries(ReplaysOf(d))
  <2>1. deliveries' = [ds EXCEPT ![d].status = "skipped"]
    BY <1>3 DEF SkipDeadLetteredDelivery
  <2>2. /\ DOMAIN ds = DOMAIN deliveries
        /\ \A x \in DOMAIN deliveries : ds[x].status = deliveries[x].status \/ ds[x].status = "cancelled"
    <3>1. \A x \in DOMAIN deliveries : Move(x, "cancelled", 0).status = "cancelled"
      BY DEF StoreInv, StoreTypeOK, Delivery, Move
    <3> QED
      BY <3>1 DEF CancelDeliveries
  <2>3. d \in DOMAIN deliveries /\ deliveries[d].status # "in_flight"
    BY <1>3 DEF SkipDeadLetteredDelivery, UnresolvedDeadLetter
  <2> HIDE DEF ds
  <2>4. \A x \in DOMAIN deliveries : deliveries'[x].status = "in_flight" => deliveries[x].status = "in_flight"
    <3>1. \A x \in DOMAIN deliveries : x # d => deliveries'[x] = ds[x]
      BY <2>1, <2>2
    <3>2. ds[d].status # "in_flight"
      BY <2>2, <2>3
    <3>3. deliveries'[d].status # "in_flight"
      BY <2>1, <2>2, <2>3, <3>2
    <3> QED
      BY <2>2, <3>1, <3>3
  <2>5. DOMAIN deliveries' = DOMAIN deliveries
    BY <2>1, <2>2
  <2> QED
    BY <2>4, <2>5 DEF InFlightStep
<1> QED
  BY <1>1, <1>2, <1>3

LEMMA DispatchInFlight ==
  ASSUME StoreInv
  PROVE  /\ \A B, owner : ClaimDeliveries(B, owner) => InFlightStep
         /\ \A d, owner, n : RenewDeliveryLease(d, owner, n) => InFlightStep
         /\ \A d, owner, n, result, status, wait :
              CompleteDeliveryAttempt(d, owner, n, result, status, wait) => InFlightStep
         /\ \A t, owner : \A status \in {"pending", "dead_lettered"} :
              MaterializeFanoutTarget(t, owner, status) => InFlightStep
         /\ \A E : PurgeExpired(E) => InFlightStep
         /\ ClockTick => InFlightStep
<1>1. \A x \in DOMAIN deliveries : deliveries[x] \in Delivery
  BY DEF StoreInv, StoreTypeOK
<1>2. ASSUME NEW B, NEW owner, ClaimDeliveries(B, owner) PROVE InFlightStep
  BY <1>2 DEF ClaimDeliveries, InFlightStep, EligibleDeliveries
<1>3. ASSUME NEW d, NEW owner, NEW n, RenewDeliveryLease(d, owner, n) PROVE InFlightStep
  BY <1>1, <1>3 DEF RenewDeliveryLease, InFlightStep, HoldsDelivery, Delivery
<1>4. ASSUME NEW d, NEW owner, NEW n, NEW result, NEW status, NEW wait,
             CompleteDeliveryAttempt(d, owner, n, result, status, wait)
      PROVE  InFlightStep
  <2>1. /\ d \in DOMAIN deliveries /\ deliveries[d].status = "in_flight"
        /\ DOMAIN deliveries' = DOMAIN deliveries
        /\ \A x \in DOMAIN deliveries : x # d =>
             \/ deliveries'[x] = deliveries[x]
             \/ deliveries'[x] = [deliveries[x] EXCEPT !.resolved = {d}]
    BY <1>4 DEF CompleteDeliveryAttempt, HoldsDelivery
  <2>2. \A x \in DOMAIN deliveries : [deliveries[x] EXCEPT !.resolved = {d}].status = deliveries[x].status
    BY <1>1 DEF Delivery
  <2> QED
    BY <2>1, <2>2 DEF InFlightStep
<1>5. ASSUME NEW t, NEW owner, NEW status \in {"pending", "dead_lettered"},
             MaterializeFanoutTarget(t, owner, status)
      PROVE  InFlightStep
  BY <1>5 DEF MaterializeFanoutTarget, InFlightStep
<1>6. ASSUME NEW E, PurgeExpired(E) PROVE InFlightStep
  BY <1>6 DEF PurgeExpired, InFlightStep
<1>7. ASSUME ClockTick PROVE InFlightStep
  <2>1. \A x \in Delivery : [x EXCEPT !.lease = Dec(@), !.wait = Dec(@)].status = x.status
    BY DEF Delivery
  <2>2. deliveries' = [d \in DOMAIN deliveries |->
                         [deliveries[d] EXCEPT !.lease = Dec(@), !.wait = Dec(@)]]
    BY <1>7 DEF ClockTick
  <2> QED
    BY <1>1, <2>1, <2>2 DEF InFlightStep
<1> QED
  BY <1>2, <1>3, <1>4, <1>5, <1>6, <1>7

LEMMA InFlightStepHolds ==
  ASSUME StoreInv, [Next]_vars
  PROVE  InFlightStep
<1>1. CASE Administer
  <2>1. ASSUME NEW a, NEW st, NEW f, NEW r, NEW p, Patch(a, st, f, r, p) \/ Delete(a)
        PROVE  InFlightStep
    BY <2>1, WithdrawInFlight DEF Patch, Delete
  <2>2. ASSUME NEW d, Skip(d) PROVE InFlightStep
    BY <2>2, WithdrawInFlight DEF Skip
  <2> QED
    BY <1>1, <2>1, <2>2, UntouchedInFlight
       DEF Administer, Create, Prepare, CreateSubscription, CancelProvisioning,
           CancelPendingSubscriptions, Finalize, FinalizeGroupProvisioning, LoadSubscription,
           DropDraft, Replay, CreateReplayTarget, storeVars
<1>2. ASSUME NEW in, Produce(in) PROVE InFlightStep
  BY <1>2, UntouchedInFlight DEF Produce, AppendEvent
<1>3. ASSUME NEW g, DeleteGroup(g) PROVE InFlightStep
  BY <1>3, WithdrawInFlight DEF DeleteGroup
<1>4. ASSUME NEW w, FanOut(w) \/ CrashFanout(w) PROVE InFlightStep
  BY <1>4, UntouchedInFlight, DispatchInFlight
     DEF FanOut, CrashFanout, ClaimTargets, ClaimFanoutTargets, Materialize, FailMaterialize, storeVars
<1>5. ASSUME NEW w, Dispatch(w) \/ CrashDispatch(w) PROVE InFlightStep
  <2>1. ASSUME NEW k, DisableSubscription(w, k) PROVE InFlightStep
    BY <2>1, UntouchedInFlight, WithdrawInFlight DEF DisableSubscription, storeVars
  <2>2. ASSUME NEW k, Complete(w, k) PROVE InFlightStep
    BY <2>2, DispatchInFlight DEF Complete
  <2> QED
    BY <1>5, <2>1, <2>2, UntouchedInFlight, DispatchInFlight
       DEF Dispatch, CrashDispatch, ClaimWork, Respond, ReadForDisable, Heartbeat, DropTask, storeVars
<1>6. ASSUME NEW e, RetentionEnds(e) PROVE InFlightStep
  BY <1>6, UntouchedInFlight DEF RetentionEnds, RetentionElapses
<1> QED
  BY <1>1, <1>2, <1>3, <1>4, <1>5, <1>6, UntouchedInFlight, DispatchInFlight
     DEF Next, Tick, Purge, vars

\* Nothing owed is pending ahead of a delivery: it would be older, and was
\* fanned out before.
LEMMA NothingPendingAhead ==
  ASSUME StoreInv, OrderInv, FanoutInv, NEW d \in DOMAIN deliveries, NEW t \in DOMAIN targets,
         t.purpose = "normal", Ahead(t, d)
  PROVE  targets[t].status # "pending"
<1>1. SUFFICES ASSUME Pending(t) PROVE FALSE
  BY DEF Pending
<1>2. d \in DOMAIN targets /\ targets[d].at <= targets[t].at
  BY <1>1, TargetNumbers DEF FanoutInv, FannedOutInOrder, Ahead
<1>3. d.event <= targets[d].at /\ targets[t].at = t.event
  BY <1>2 DEF FanoutInv, Dated
<1>4. /\ t.event \in Nat /\ t.event \in DOMAIN events /\ d.event \in Nat /\ d.event \in DOMAIN events
      /\ targets[d].at \in Nat /\ events[t.event].seq \in Nat /\ events[d.event].seq \in Nat
  BY <1>2, TargetNumbers
<1>5. ~(d.event < t.event) /\ d.event # t.event
  BY <1>4 DEF OrderInv, Ordered, Ahead
<1> QED
  BY <1>2, <1>3, <1>4, <1>5

LEMMA StrictLaneStep ==
  ASSUME StoreInv, StoreInv', OrderInv, OrderInv', TargetInv, FanoutInv, StrictLane,
         TargetStep, EventDates, NewDates, InFlightStep
  PROVE  StrictLane'
<1>1. SUFFICES ASSUME NEW d \in DOMAIN deliveries', deliveries'[d].status = "in_flight",
                      NEW t \in DOMAIN targets', t.purpose = "normal", Ahead(t, d)'
               PROVE  /\ targets'[t].status # "pending"
                      /\ t \in DOMAIN deliveries' => UnblocksLane(t)'
  BY DEF StrictLane
<1>2. d \in DOMAIN deliveries /\ (deliveries[d].status = "in_flight" \/ Eligible(d))
  BY <1>1 DEF InFlightStep
<1>3. /\ t.sub = d.sub
      /\ t.event \in DOMAIN events' /\ d.event \in DOMAIN events'
      /\ t.event \in Nat /\ d.event \in Nat
      /\ events'[t.event].seq \in Nat /\ events'[d.event].seq \in Nat
  <2>1. /\ \A e \in DOMAIN events' : events'[e] \in Event
        /\ \A u \in DOMAIN targets' : u.event \in Nat /\ u.event \in DOMAIN events'
        /\ DOMAIN deliveries' \subseteq DOMAIN targets'
    BY ConstantsOK DEF StoreInv, StoreTypeOK, TargetId, EventIds
  <2>2. \A x \in Event : x.seq \in Nat
    BY ConstantsOK DEF Event, EventIds
  <2> QED
    BY <1>1, <2>1, <2>2 DEF Ahead
<1>4. d \in DOMAIN targets /\ d.event \in DOMAIN events /\ d.event <= appended /\ appended \in Nat
  BY <1>2, TargetNumbers
<1>5. t \in DOMAIN targets
  <2>1. SUFFICES ASSUME t \notin DOMAIN targets PROVE FALSE
    OBVIOUS
  <2>2. t.event > appended \/ subs[t.sub].status = "pending"
    BY <1>1, <2>1 DEF NewDates
  <2>3. subs[t.sub].status # "pending"
    BY <1>3, <1>4 DEF TargetInv, MadeForRevision
  <2>4. d.event < t.event
    BY <1>3, <1>4, <2>2, <2>3
  <2> QED
    BY <1>1, <1>3, <2>4 DEF OrderInv, Ordered, Ahead
<1>6. Ahead(t, d)
  <2>1. t.event <= appended
    BY <1>5, TargetNumbers
  <2>2. /\ events'[t.event].stream = events[t.event].stream /\ events'[t.event].seq = events[t.event].seq
        /\ events'[d.event].stream = events[d.event].stream /\ events'[d.event].seq = events[d.event].seq
    BY <1>3, <1>4, <2>1 DEF EventDates
  <2> QED
    BY <1>1, <2>2 DEF Ahead
<1>7. targets[t].status # "pending"
  BY <1>1, <1>2, <1>5, <1>6, NothingPendingAhead
<1>8. targets'[t].status # "pending"
  BY <1>1, <1>5, <1>7 DEF TargetStep, KeptTargets
<1>9. ASSUME t \in DOMAIN deliveries' PROVE UnblocksLane(t)'
  <2>1. t \in DOMAIN deliveries
    BY <1>7, <1>9 DEF TargetStep, NewDeliveries
  <2>2. UnblocksLane(t)
    BY <1>1, <1>2, <1>5, <1>6, <2>1 DEF StrictLane, Eligible
  <2>3. /\ deliveries'[t].status = deliveries[t].status
        /\ deliveries'[t].resolved = deliveries[t].resolved \/ deliveries[t].resolved = {}
    BY <1>9, <2>1, <2>2
       DEF TargetStep, KeptDeliveries, UnblocksLane, AttemptTerminal, UnresolvedDeadLetter, ResolvedBy
  <2> QED
    BY <2>2, <2>3 DEF UnblocksLane
<1> QED
  BY <1>8, <1>9

LEMMA QuietTargetsHold ==
  ASSUME StoreInv, batches' = batches, [Next]_vars
  PROVE  \/ QuietTargets \/ Tick
         \/ \E in \in EventInput : Produce(in)
         \/ \E g \in Groups, c \in EventInput, i \in EventInput : Finalize(g, c, i)
         \/ \E d, q : Replay(d, q)
         \/ \E w \in FanoutWorkers : FanOut(w) \/ CrashFanout(w)
<1>1. CASE Administer
  <2>1. ASSUME NEW a, NEW st, NEW f, NEW r, NEW p, Patch(a, st, f, r, p) \/ Delete(a)
        PROVE  QuietTargets
    BY <2>1, ReplaceRevisionQuiet DEF Patch, Delete
  <2>2. ASSUME NEW d, Skip(d) PROVE QuietTargets
    BY <2>2, SkipQuiet DEF Skip
  <2> QED
    BY <1>1, <2>1, <2>2, UntouchedQuiet
       DEF Administer, Create, Prepare, CreateSubscription, CancelProvisioning,
           CancelPendingSubscriptions, LoadSubscription, DropDraft, storeVars
<1>2. ASSUME NEW g, DeleteGroup(g) PROVE QuietTargets
  BY <1>2, GroupDeletionQuiet DEF DeleteGroup
<1>3. ASSUME NEW w, Dispatch(w) \/ CrashDispatch(w) PROVE QuietTargets
  <2>1. ASSUME NEW k, DisableSubscription(w, k) PROVE QuietTargets
    BY <2>1, UntouchedQuiet, ReplaceRevisionQuiet DEF DisableSubscription, storeVars
  <2>2. ASSUME NEW k, Complete(w, k) PROVE QuietTargets
    BY <2>2, UntouchedQuiet DEF Complete, CompleteDeliveryAttempt
  <2>3. CASE ClaimWork(w)
    BY <2>3, UntouchedQuiet DEF ClaimWork, ClaimDeliveries
  <2>4. ASSUME NEW k, Heartbeat(w, k) PROVE QuietTargets
    BY <2>4, UntouchedQuiet DEF Heartbeat, RenewDeliveryLease
  <2> QED
    BY <1>3, <2>1, <2>2, <2>3, <2>4, UntouchedQuiet
       DEF Dispatch, CrashDispatch, Respond, ReadForDisable, DropTask, storeVars
<1>4. ASSUME NEW e, RetentionEnds(e) PROVE QuietTargets
  BY <1>4, UntouchedQuiet DEF RetentionEnds, RetentionElapses
<1>5. CASE Purge
  BY <1>5, PurgeQuiet DEF Purge
<1>6. CASE UNCHANGED vars
  BY <1>6, UntouchedQuiet DEF vars
<1> QED
  BY <1>1, <1>2, <1>3, <1>4, <1>5, <1>6 DEF Next

LEMMA BatchesStep ==
  ASSUME [Next]_vars
  PROVE  batches' = batches \/ \E w \in FanoutWorkers : FanOut(w) \/ CrashFanout(w)
<1>1. CASE Administer
  BY <1>1 DEF Administer, Create, Prepare, CancelProvisioning, Finalize, LoadSubscription, Patch,
              Delete, DropDraft, Skip, Replay, workerVars
<1>2. ASSUME NEW w, Dispatch(w) \/ CrashDispatch(w) PROVE batches' = batches
  BY <1>2 DEF Dispatch, CrashDispatch, ClaimWork, Respond, ReadForDisable, DisableSubscription,
              Complete, Heartbeat, DropTask, workerVars
<1> QED
  BY <1>1, <1>2 DEF Next, Produce, DeleteGroup, Tick, RetentionEnds, Purge, workerVars, vars

\* Faults are only counted: there are none until the first.
LEMMA FaultsStep ==
  ASSUME [Next]_vars
  PROVE  faults' = faults \/ faults' = faults + 1
<1>1. CASE Administer
  BY <1>1 DEF Administer, Create, Prepare, CancelProvisioning, Finalize, LoadSubscription, Patch,
              Delete, DropDraft, Skip, Replay, workerVars
<1>2. ASSUME NEW w, Dispatch(w) \/ CrashDispatch(w) PROVE faults' = faults \/ faults' = faults + 1
  <2>1. ASSUME NEW k, ReadForDisable(w, k) \/ DisableSubscription(w, k)
        PROVE  faults' = faults \/ faults' = faults + 1
    BY <2>1 DEF ReadForDisable, DisableSubscription, Fault
  <2> QED
    BY <1>2, <2>1 DEF Dispatch, CrashDispatch, ClaimWork, Respond, Complete, Heartbeat, DropTask,
                      workerVars, Fault
<1>3. ASSUME NEW w, FanOut(w) \/ CrashFanout(w) PROVE faults' = faults \/ faults' = faults + 1
  BY <1>3 DEF FanOut, CrashFanout, ClaimTargets, Materialize, FailMaterialize, Fault
<1> QED
  BY <1>1, <1>2, <1>3 DEF Next, Produce, DeleteGroup, Tick, RetentionEnds, Purge, workerVars, vars, Fault

LEMMA NoFanOutHolds ==
  ASSUME TypeInv, AuditInv, Dated, faults' = faults, [Next]_vars
  PROVE  NoFanOut \/ \E w \in FanoutWorkers : FanOut(w)
<1> USE DEF TypeInv
<1>1. \A w : ~CrashFanout(w)
  BY EventingConstantsOK DEF CrashFanout, Fault, CallersInv
<1>2. SUFFICES ASSUME batches' = batches, ~\E w \in FanoutWorkers : FanOut(w) PROVE NoFanOut
  BY <1>1, BatchesStep
<1>3. \A in \in EventInput : Produce(in) => NoFanOut
  BY <1>2, AppendEventLane DEF Produce
<1>4. \A g \in Groups, c \in EventInput, i \in EventInput : Finalize(g, c, i) => NoFanOut
  BY <1>2, FinalizeLane DEF Finalize
<1>5. \A d, q : Replay(d, q) => NoFanOut
  BY <1>2, ReplayLane DEF Replay
<1>6. Tick => NoFanOut
  BY TickNoFanOut
<1>7. QuietTargets /\ KeepsEvents => NoFanOut
  BY QuietNoFanOut
<1> QED
  BY <1>1, <1>2, <1>3, <1>4, <1>5, <1>6, <1>7, EventsStep, QuietTargetsHold

LEMMA FanOutLane ==
  ASSUME OneFanoutWorker, TypeInv, FanoutInv, faults' = faults, NEW w \in FanoutWorkers, FanOut(w)
  PROVE  FanoutInv' /\ EventDates /\ NewDates
<1> USE DEF TypeInv
<1>1. FanoutInv'
  BY ClaimTargetsLane, MaterializeLane, FailMaterializeLane DEF FanOut
<1>2. /\ KeepsEvents /\ appended' = appended /\ DOMAIN targets' = DOMAIN targets
  BY EventsUntouched, StoreOrder
     DEF FanOut, ClaimTargets, ClaimFanoutTargets, Materialize, MaterializeFanoutTarget,
         FailMaterialize, storeVars
<1>3. EventDates /\ NewDates
  BY <1>2, TargetNumbers DEF EventDates, NewDates, KeepsEvents, SamePlaces
<1> QED
  BY <1>1, <1>3

LEMMA LaneStep ==
  ASSUME OneFanoutWorker, TypeInv, TypeInv', AuditInv, TargetInv, OrderInv, OrderInv',
         LaneInv, faults' = faults, [Next]_vars
  PROVE  LaneInv'
<1>1. FanoutInv /\ StrictLane /\ TargetStep /\ InFlightStep
  BY TargetStepHolds, InFlightStepHolds DEF LaneInv, FanoutInv, TypeInv
<1>2. FanoutInv' /\ EventDates /\ NewDates
  <2>1. CASE NoFanOut
    BY <1>1, <2>1, NoFanOutLane DEF TypeInv, TargetStep, NoFanOut
  <2>2. CASE \E w \in FanoutWorkers : FanOut(w)
    BY <1>1, <2>2, FanOutLane
  <2> QED
    BY <1>1, <2>1, <2>2, NoFanOutHolds DEF FanoutInv
<1>3. StrictLane'
  BY <1>1, <1>2, StrictLaneStep DEF TypeInv
<1> QED
  BY <1>2, <1>3 DEF LaneInv, FanoutInv

LEMMA LaneInit ==
  ASSUME Init
  PROVE  LaneInv
<1>1. /\ events = << >> /\ targets = << >> /\ deliveries = << >>
      /\ \A w \in FanoutWorkers : batches[w].todo = {}
  BY DEF Init, StoreInit, Idle
<1>2. Dated /\ LeasedIsClaimed /\ FannedOutInOrder /\ ClaimedInOrder /\ StrictLane
  BY <1>1 DEF Dated, LeasedIsClaimed, FannedOutInOrder, ClaimedInOrder, StrictLane
<1>3. ClaimedIsHeld
  BY <1>1 DEF ClaimedIsHeld
<1> QED
  BY <1>2, <1>3 DEF LaneInv, FanoutInv

\* claim_fanout_targets and the delivery eligibility of claim_deliveries: with one
\* fanout worker, and until something fails, whatever is in flight has every
\* earlier event of its stream settled before it, however administrators, producers,
\* provisioning, dispatchers and retention interleave.
THEOREM StrictLaneUndisturbed ==
  OneFanoutWorker => (Spec => [](faults = 0 => StrictLane))
<1> SUFFICES ASSUME OneFanoutWorker PROVE Spec => [](faults = 0 => StrictLane)
  OBVIOUS
<1> DEFINE Lane == faults = 0 => LaneInv
<1>1. Init => OrderInv /\ Lane
  BY LaneInit DEF Init, StoreInit, OrderInv, Ordered
<1>2. ASSUME TypeInv, TypeInv', AuditInv, TargetInv, OrderInv, Lane, [Next]_vars
      PROVE  OrderInv' /\ Lane'
  <2>1. OrderInv'
    BY <1>2, OrderStep
  <2>2. ASSUME faults' = 0 PROVE LaneInv'
    <3>1. faults \in Nat
      BY <1>2, EventingConstantsOK DEF TypeInv, CallersInv
    <3>2. faults' = faults /\ faults = 0
      BY <1>2, <2>2, <3>1, FaultsStep
    <3> QED
      BY <1>2, <2>1, <3>2, LaneStep
  <2> QED
    BY <2>1, <2>2
<1>3. Lane => (faults = 0 => StrictLane)
  BY DEF LaneInv
<1> HIDE DEF Lane
<1> QED
  BY <1>1, <1>2, <1>3, TargetInvAlways, PTL DEF Spec

=============================================================================
