-------------------- MODULE CleanupPlanAvailabilityProofs --------------------
(***************************************************************************)
(* A plan that the commands wrote can always be read again and taken one   *)
(* event further, unless the clock went back behind its last event: for    *)
(* every set of messages, maps, requests and times. What is proved is that *)
(* each of the three commands prepares a plan its own loader accepts, so   *)
(* that the plans of the ledger are the valid ones at all times.           *)
(***************************************************************************)
EXTENDS CleanupPlanLedgerProofs

Open(plan) == LastEvent(plan).state \in {"frozen", "reduced"}

(* The messages a plan lost with one of its events.                        *)
RemovedWith(removals, r) == {m \in DOMAIN removals : removals[m].revision = r}

-----------------------------------------------------------------------------
(* Reasons. *)

(* A protection is none of the reasons the plan itself finds.              *)
LEMMA ProtectionsAreApart ==
    ASSUME NEW comp, IsComposition(comp), NEW m \in DOMAIN comp, NEW sel
    PROVE  /\ comp[m].protection \subseteq Protections
           /\ BaseReasons(comp, m, sel) \intersect Protections = comp[m].protection
           /\ BaseReasons(comp, m, sel)
                \intersect {"missing_after_creation", "scope_changed", "protection_changed"} = {}
<1>1. comp[m].protection \subseteq Protections
  BY DEF IsComposition, PartialMap, Photo
<1>2. \A r \in {"outside_date", "read_state_mismatch", "excluded_label", "keep_latest",
                "missing_after_creation", "scope_changed", "protection_changed"} : r \notin Protections
  BY ReasonsAssumption DEF PlanReasons
<1>3. \A r \in BaseReasons(comp, m, sel) :
         r \in comp[m].protection \union {"outside_date", "read_state_mismatch", "excluded_label"}
  BY DEF BaseReasons
<1>4. comp[m].protection \subseteq BaseReasons(comp, m, sel)
  BY DEF BaseReasons
<1> QED
  BY <1>1, <1>2, <1>3, <1>4

(* A new plan leaves no message out for what can only happen later.        *)
LEMMA CreationReasonsAreValid ==
    ASSUME NEW comp, IsComposition(comp), NEW universe, NEW m \in DOMAIN comp, NEW sel
    PROVE  CreationReasons(comp, universe, sel, m)
             \intersect {"missing_after_creation", "scope_changed", "protection_changed"} = {}
BY ProtectionsAreApart DEF CreationReasons

(* The reasons for which a message leaves a plan may be written down.      *)
LEMMA RemovalReasonsFit ==
    ASSUME NEW comp, IsComposition(comp), NEW sel, NEW m, RemovalReasons(comp, sel, m) # {}
    PROVE  RemovalReasonsAreValid(RemovalReasons(comp, sel, m))
<1> DEFINE universe == Universe(comp, DOMAIN sel.targets)
           base == BaseReasons(comp, m, sel)
           changed == base \union {r \in {"scope_changed"} : m \notin universe}
                           \union {r \in {"protection_changed"} : comp[m].protection # {}}
           reasons == RemovalReasons(comp, sel, m)
<1>1. reasons = IF ~ StructuralTargetsAreCurrent(comp, sel.targets) THEN {"scope_changed"}
                ELSE IF m \notin DOMAIN comp THEN {"missing_after_creation"}
                ELSE IF changed = {} /\ m \notin QuotaAllowed(comp, universe, sel) THEN {"keep_latest"}
                ELSE changed
  BY DEF RemovalReasons
<1>2. \A r \in {"keep_latest", "missing_after_creation", "scope_changed", "protection_changed"} :
         r \notin Protections
  BY ReasonsAssumption DEF PlanReasons
<1>3. CASE reasons \in {{"scope_changed"}, {"missing_after_creation"}, {"keep_latest"}}
  BY <1>2, <1>3 DEF RemovalReasonsAreValid
<1>4. CASE reasons = changed /\ m \in DOMAIN comp
  <2>1. /\ base \intersect Protections = comp[m].protection
        /\ "missing_after_creation" \notin base /\ "protection_changed" \notin base
    BY <1>4, ProtectionsAreApart
  <2> HIDE DEF base, universe
  <2>2. "missing_after_creation" \notin changed
    BY <2>1
  <2>3. "protection_changed" \in changed <=> comp[m].protection # {}
    BY <2>1
  <2>4. changed \intersect Protections = comp[m].protection
    BY <1>2, <2>1
  <2> HIDE DEF changed, reasons
  <2>5. reasons # {}
    BY DEF reasons
  <2> QED
    BY <1>4, <2>2, <2>3, <2>4, <2>5 DEF RemovalReasonsAreValid, reasons
<1> HIDE DEF changed, universe
<1>5. \/ reasons \in {{"scope_changed"}, {"missing_after_creation"}, {"keep_latest"}}
      \/ reasons = changed /\ m \in DOMAIN comp
  BY <1>1
<1> QED
  BY <1>3, <1>4, <1>5 DEF changed

-----------------------------------------------------------------------------
(* What each command prepares. *)

(* A new plan is valid: it has a message, since every target offered has   *)
(* one, and is closed at once if it selects none.                          *)
LEMMA CreationIsValid ==
    ASSUME TypeOK, ListsOK, NEW c, NEW now \in Times,
           c.request.targets # {}, c.request.targets \subseteq Catalog(composition)
    PROVE  PersistedCleanupPlanIsValid(PreparedCreation(c, now))
<1> DEFINE plan == PreparedCreation(c, now)
           members == plan.members
           count == Cardinality(Selected(members))
<1>1. /\ plan.removals = <<>> /\ Len(plan.events) = 1 /\ DOMAIN plan.events = {1}
      /\ plan.createdAt = now /\ plan.events[1].at = now /\ plan.events[1].removed = 0
      /\ plan.events[1].type = "created" /\ plan.events[1].remaining = count
      /\ plan.events[1].state = IF count = 0 THEN "invalidated" ELSE "frozen"
      /\ members = FrozenMembers(Selection(c.request, now))
  BY DEF PreparedCreation
<1>2. PlanOK(plan)
  BY CreationPrepared
<1>3. IsComposition(composition)
  BY MapReads
<1>4. DOMAIN members = Universe(composition, c.request.targets)
  BY <1>1 DEF FrozenMembers, Selection, TargetSnapshots
<1>5. DOMAIN members # {}
  <2>1. PICK target \in c.request.targets : InTarget(composition, target) # {}
    BY DEF Catalog
  <2> QED
    BY <1>4, <2>1 DEF Universe
<1>6. \A m \in DOMAIN members :
         members[m] \intersect {"missing_after_creation", "scope_changed", "protection_changed"} = {}
  <2>1. \A m \in DOMAIN members : m \in DOMAIN composition
    BY <1>4, UniverseIsIndexed
  <2> QED
    BY <1>1, <1>3, <2>1, CreationReasonsAreValid DEF FrozenMembers
<1>7. count \in Nat
  BY <1>2, HeldIsFinite DEF PlanOK
<1> HIDE DEF plan
<1>8. Eligible(plan) = Selected(members) /\ LastEvent(plan) = plan.events[1]
  BY <1>1 DEF Eligible, LastEvent
<1> HIDE DEF count
<1>9. EventsAreValid(plan)
  <2>1. now \in Int /\ Day \in Nat \ {0}
    BY LedgerAssumption, RulesAssumption
  <2>2. EventIsValid(plan.events[1])
    BY <1>1, <1>7 DEF EventIsValid
  <2>3. plan.events[1].at \in plan.createdAt .. ExpiresAt(plan) - 1
    BY <1>1, <2>1 DEF ExpiresAt, Validity
  <2>4. \A r \in DOMAIN plan.events : r = 1 /\ ~ r > 1
    BY <1>1
  <2> QED
    BY <1>1, <2>2, <2>3, <2>4 DEF EventsAreValid
<1>10. RemovalsAreValid(plan)
  <2>1. DOMAIN plan.removals = {}
    BY <1>1
  <2>2. {m \in DOMAIN plan.removals : plan.removals[m].revision = 1} = {}
    BY <2>1
  <2>3. \A r \in DOMAIN plan.events : r = 1
    BY <1>1
  <2> QED
    BY <1>1, <2>1, <2>2, <2>3, FS_EmptySet DEF RemovalsAreValid
<1>11. StateIsValid(plan)
  <2>1. DOMAIN plan.removals = {}
    BY <1>1
  <2>2. Cardinality(Eligible(plan)) = count /\ Cardinality(Selected(plan.members)) = count
    BY <1>8 DEF count
  <2> QED
    BY <1>1, <1>7, <1>8, <2>1, <2>2 DEF StateIsValid
<1> QED
  BY <1>5, <1>6, <1>9, <1>10, <1>11 DEF PersistedCleanupPlanIsValid, plan

(* One more event of an open plan, valid by itself, following the last and *)
(* within the validity of the plan, leaves the events valid.               *)
LEMMA EventsStayValid ==
    ASSUME NEW plan, PlanOK(plan), EventsAreValid(plan), NEW new, NEW event,
           new.events = Append(plan.events, event), new.createdAt = plan.createdAt,
           EventIsValid(event), FollowsInLedger(LastEvent(plan), event),
           event.at \in plan.createdAt .. ExpiresAt(plan) - 1
    PROVE  EventsAreValid(new)
<1>1. /\ plan.events \in Seq(Event) /\ Len(plan.events) \in Nat \ {0}
      /\ DOMAIN plan.events = 1 .. Len(plan.events)
  BY PlanReads
<1>2. /\ DOMAIN new.events = 1 .. (Len(plan.events) + 1)
      /\ new.events[Len(plan.events) + 1] = event
      /\ \A r \in DOMAIN plan.events : new.events[r] = plan.events[r]
  BY <1>1
<1>3. ExpiresAt(new) = ExpiresAt(plan)
  BY DEF ExpiresAt
<1>4. new.events[1].type = "created" /\ new.events[1].at = new.createdAt
  BY <1>1, <1>2 DEF EventsAreValid
<1>5. ASSUME NEW r \in DOMAIN new.events
      PROVE  /\ EventIsValid(new.events[r])
             /\ new.events[r].at \in new.createdAt .. ExpiresAt(new) - 1
             /\ r > 1 => FollowsInLedger(new.events[r - 1], new.events[r])
  <2>1. CASE r = Len(plan.events) + 1
    <3>1. new.events[r] = event /\ new.events[r - 1] = LastEvent(plan)
      BY <1>1, <1>2, <2>1 DEF LastEvent
    <3> QED
      BY <1>3, <3>1
  <2>2. CASE r # Len(plan.events) + 1
    <3>1. r \in DOMAIN plan.events /\ new.events[r] = plan.events[r]
          /\ (r > 1 => new.events[r - 1] = plan.events[r - 1])
      BY <1>1, <1>2, <2>2
    <3> QED
      BY <1>3, <3>1 DEF EventsAreValid
  <2> QED
    BY <2>1, <2>2
<1> QED
  BY <1>4, <1>5 DEF EventsAreValid

(* An open plan that is valid holds a message, and its last event says how *)
(* many.                                                                   *)
LEMMA OpenHolds ==
    ASSUME NEW plan, PlanOK(plan), PersistedCleanupPlanIsValid(plan),
           LastEvent(plan).state \notin {"cancelled", "invalidated"}
    PROVE  /\ Open(plan)
           /\ LastEvent(plan).remaining = Cardinality(Eligible(plan))
           /\ Cardinality(Eligible(plan)) > 0
<1>1. LastEvent(plan) \in Event /\ LastEvent(plan) = plan.events[Len(plan.events)]
      /\ Len(plan.events) \in DOMAIN plan.events
  BY PlanReads DEF LastEvent
<1>2. EventIsValid(LastEvent(plan))
  BY <1>1 DEF PersistedCleanupPlanIsValid, EventsAreValid
<1>3. Open(plan)
  BY <1>1 DEF Event, PlanStates, Open
<1>4. LastEvent(plan).remaining = Cardinality(Eligible(plan))
  BY DEF PersistedCleanupPlanIsValid, StateIsValid
<1>5. LastEvent(plan).type \in {"created", "revalidated", "reduced", "invalidated", "cancelled"}
  BY <1>1 DEF Event
<1>6. LastEvent(plan).remaining > 0
  BY <1>2, <1>5 DEF EventIsValid
<1> QED
  BY <1>3, <1>4, <1>6

(* When a plan may be continued: it is open, and the clock is neither      *)
(* behind its last event nor past its validity.                            *)
Continuable(plan, now) ==
    /\ PlanOK(plan) /\ PersistedCleanupPlanIsValid(plan)
    /\ LastEvent(plan).state \notin {"cancelled", "invalidated"}
    /\ now >= LastEvent(plan).at /\ now < ExpiresAt(plan)

LEMMA ContinuableReads ==
    ASSUME NEW plan, NEW now \in Times, Continuable(plan, now)
    PROVE  now \in plan.createdAt .. ExpiresAt(plan) - 1
<1>1. plan.createdAt \in Int /\ now \in Int /\ Day \in Nat
  BY LedgerAssumption, RulesAssumption DEF Continuable, PlanOK, PlanTypeOK
<1>2. Len(plan.events) \in DOMAIN plan.events
  BY PlanReads DEF Continuable
<1>3. LastEvent(plan).at \in plan.createdAt .. ExpiresAt(plan) - 1
  BY <1>2 DEF Continuable, PersistedCleanupPlanIsValid, EventsAreValid, LastEvent
<1>4. ExpiresAt(plan) \in Int
  BY <1>1 DEF ExpiresAt, Validity
<1> QED
  BY <1>1, <1>3, <1>4 DEF Continuable

(* The removals of an open plan, and those that come with its next event.  *)
LEMMA RemovalsStayValid ==
    ASSUME NEW plan, PlanOK(plan), PersistedCleanupPlanIsValid(plan),
           NEW leaving \in SUBSET Eligible(plan), NEW new, NEW event,
           new.events = Append(plan.events, event), new.members = plan.members,
           DOMAIN new.removals = DOMAIN plan.removals \union leaving,
           event.removed = Cardinality(leaving),
           \A m \in DOMAIN plan.removals : new.removals[m] = plan.removals[m],
           \A m \in leaving : /\ new.removals[m].revision = Len(plan.events) + 1
                              /\ new.removals[m].at = event.at
                              /\ RemovalReasonsAreValid(new.removals[m].reasons)
    PROVE  RemovalsAreValid(new)
<1> DEFINE n == Len(plan.events)
<1>1. /\ plan.events \in Seq(Event) /\ n \in Nat \ {0} /\ DOMAIN plan.events = 1 .. n
  BY PlanReads
<1>2. /\ DOMAIN new.events = 1 .. (n + 1) /\ Len(new.events) = n + 1
      /\ new.events[n + 1] = event
      /\ \A r \in DOMAIN plan.events : new.events[r] = plan.events[r]
  BY <1>1
<1>3. leaving \subseteq Selected(plan.members) /\ leaving \intersect DOMAIN plan.removals = {}
  BY DEF Eligible
<1>4. \A m \in DOMAIN plan.removals :
         /\ m \in Selected(plan.members) /\ plan.removals[m].revision \in 2 .. n
         /\ plan.removals[m].at = plan.events[plan.removals[m].revision].at
         /\ RemovalReasonsAreValid(plan.removals[m].reasons)
  BY DEF PersistedCleanupPlanIsValid, RemovalsAreValid
<1> HIDE DEF n
<1>5. ASSUME NEW m \in DOMAIN new.removals
      PROVE  /\ m \in Selected(new.members) /\ new.removals[m].revision \in 2 .. Len(new.events)
             /\ new.removals[m].at = new.events[new.removals[m].revision].at
             /\ RemovalReasonsAreValid(new.removals[m].reasons)
  <2>1. CASE m \in leaving
    <3>1. new.removals[m].revision = n + 1 /\ n + 1 \in 2 .. (n + 1)
      BY <1>1, <2>1 DEF n
    <3> QED
      BY <1>2, <1>3, <2>1, <3>1
  <2>2. CASE m \in DOMAIN plan.removals
    <3>1. new.removals[m] = plan.removals[m] /\ plan.removals[m].revision \in 2 .. n
      BY <1>4, <2>2
    <3>2. plan.removals[m].revision \in DOMAIN plan.events /\ plan.removals[m].revision \in 2 .. n + 1
      BY <1>1, <3>1
    <3> QED
      BY <1>2, <1>4, <2>2, <3>1, <3>2
  <2> QED
    BY <2>1, <2>2
<1>6. ASSUME NEW r \in DOMAIN new.events
      PROVE  new.events[r].removed = Cardinality(RemovedWith(new.removals, r))
  <2>1. CASE r = n + 1
    <3>1. RemovedWith(new.removals, r) = leaving
      BY <1>1, <1>4, <2>1 DEF RemovedWith, n
    <3> QED
      BY <1>2, <2>1, <3>1
  <2>2. CASE r # n + 1
    <3>1. r \in DOMAIN plan.events
      BY <1>1, <1>2, <2>2
    <3>2. RemovedWith(new.removals, r) = RemovedWith(plan.removals, r)
      BY <1>3, <2>2 DEF RemovedWith, n
    <3>3. plan.events[r].removed = Cardinality(RemovedWith(plan.removals, r))
      BY <3>1 DEF PersistedCleanupPlanIsValid, RemovalsAreValid, RemovedWith
    <3> QED
      BY <1>2, <3>1, <3>2, <3>3
  <2> QED
    BY <2>1, <2>2
<1> QED
  BY <1>5, <1>6 DEF RemovalsAreValid, RemovedWith

(* A plan compared with the map, or cancelled, is valid.                   *)
LEMMA ContinuationIsValid ==
    ASSUME NEW plan, NEW now \in Times, Continuable(plan, now),
           NEW leaving \in SUBSET Eligible(plan), NEW new, NEW event,
           PlanOK(new), new.createdAt = plan.createdAt,
           new.events = Append(plan.events, event), new.members = plan.members,
           LastEvent(new) = event, event.at = now,
           DOMAIN new.removals = DOMAIN plan.removals \union leaving,
           event.removed = Cardinality(leaving),
           event.remaining = Cardinality(Eligible(plan)) - Cardinality(leaving),
           event.type # "created", EventIsValid(event),
           event.type = "revalidated" => event.state = LastEvent(plan).state,
           event.state = "frozen" => LastEvent(plan).state = "frozen" /\ leaving = {},
           event.state = "reduced" => LastEvent(plan).state = "reduced" \/ leaving # {},
           \A m \in DOMAIN plan.removals : new.removals[m] = plan.removals[m],
           \A m \in leaving : /\ new.removals[m].revision = Len(plan.events) + 1
                              /\ new.removals[m].at = event.at
                              /\ RemovalReasonsAreValid(new.removals[m].reasons)
    PROVE  PersistedCleanupPlanIsValid(new)
<1>1. /\ PlanOK(plan) /\ PersistedCleanupPlanIsValid(plan)
      /\ LastEvent(plan).state \notin {"cancelled", "invalidated"}
      /\ now >= LastEvent(plan).at
  BY DEF Continuable
<1>2. /\ Open(plan) /\ LastEvent(plan).remaining = Cardinality(Eligible(plan))
      /\ Cardinality(Eligible(plan)) > 0
  BY <1>1, OpenHolds
<1>3. RemovalsAreValid(new)
  BY <1>1, RemovalsStayValid
<1>4. FollowsInLedger(LastEvent(plan), event)
  BY <1>1, <1>2 DEF FollowsInLedger
<1>5. event.at \in plan.createdAt .. ExpiresAt(plan) - 1
  BY ContinuableReads
<1>6. EventsAreValid(new)
  BY <1>1, <1>4, <1>5, EventsStayValid DEF PersistedCleanupPlanIsValid
<1>7. Eligible(new) = Eligible(plan) \ leaving
  BY DEF Eligible
<1>8. /\ Cardinality(Eligible(new)) = event.remaining /\ event.remaining \in Nat
  <2>1. IsFiniteSet(Eligible(plan)) /\ Eligible(plan) \intersect leaving = leaving
    BY <1>1, HeldIsFinite DEF PlanOK
  <2>2. Cardinality(Eligible(plan) \ leaving) = Cardinality(Eligible(plan)) - Cardinality(leaving)
    <3> DEFINE held == Eligible(plan)
    <3>1. IsFiniteSet(held) /\ held \intersect leaving = leaving
      BY <2>1
    <3> HIDE DEF held
    <3>2. Cardinality(held \ leaving) = Cardinality(held) - Cardinality(held \intersect leaving)
      BY <3>1, FS_Difference
    <3> QED
      BY <3>1, <3>2 DEF held
  <2>3. Cardinality(Eligible(new)) \in Nat
    BY HeldIsFinite DEF PlanOK
  <2> QED
    BY <1>7, <2>2, <2>3
<1>9. StateIsValid(new)
  <2>1. new.events[1] = plan.events[1]
    BY <1>1, PlanReads
  <2>2. plan.events[1].remaining = Cardinality(Selected(plan.members))
    BY <1>1 DEF PersistedCleanupPlanIsValid, StateIsValid
  <2>3. /\ LastEvent(plan).state = "frozen" => DOMAIN plan.removals = {}
        /\ LastEvent(plan).state = "reduced" => DOMAIN plan.removals # {}
    BY <1>1 DEF PersistedCleanupPlanIsValid, StateIsValid
  <2>4. /\ event.state = "frozen" => DOMAIN new.removals = {}
        /\ event.state = "reduced" => DOMAIN new.removals # {}
    BY <2>3
  <2>5. event.type \in {"created", "revalidated", "reduced", "invalidated", "cancelled"}
    <3>1. LastEvent(new) \in Event
      BY PlanReads
    <3> QED
      BY <3>1 DEF Event
  <2>6. /\ event.state = "reduced" => event.remaining > 0
        /\ event.state = "invalidated" => event.remaining = 0
    BY <1>8, <2>5 DEF EventIsValid
  <2> QED
    BY <1>8, <2>1, <2>2, <2>4, <2>6 DEF StateIsValid
<1>10. /\ DOMAIN new.members # {}
       /\ \A m \in DOMAIN new.members :
             new.members[m] \intersect
               {"missing_after_creation", "scope_changed", "protection_changed"} = {}
  BY <1>1 DEF PersistedCleanupPlanIsValid
<1> QED
  BY <1>3, <1>6, <1>9, <1>10 DEF PersistedCleanupPlanIsValid

(* Compared with the map a plan stays valid.                               *)
LEMMA RevalidationIsValid ==
    ASSUME TypeOK, ListsOK, NEW plan, NEW now \in Times, Continuable(plan, now)
    PROVE  PersistedCleanupPlanIsValid(PreparedRevalidation(plan, now))
<1> DEFINE held == Eligible(plan)
           reasons == [m \in held |-> RemovalReasons(composition, plan.selection, m)]
           leaving == {m \in held : reasons[m] # {}}
           remaining == Cardinality(held) - Cardinality(leaving)
           type == IF leaving = {} THEN "revalidated"
                   ELSE IF remaining > 0 THEN "reduced" ELSE "invalidated"
           event == [type |-> type, at |-> now, map |-> mapRevision,
                     removed |-> Cardinality(leaving),
                     state |-> IF leaving = {} THEN LastEvent(plan).state ELSE type,
                     remaining |-> remaining]
           removals == [m \in DOMAIN plan.removals \union leaving |->
                          IF m \in leaving
                          THEN [revision |-> Len(plan.events) + 1, at |-> now, reasons |-> reasons[m]]
                          ELSE plan.removals[m]]
           new == PreparedRevalidation(plan, now)
<1>1. new = WithEvent(plan, event, removals)
  BY DEF PreparedRevalidation
<1>2. PlanOK(plan) /\ PersistedCleanupPlanIsValid(plan)
      /\ LastEvent(plan).state \notin {"cancelled", "invalidated"}
  BY DEF Continuable
<1>3. PlanOK(new)
  BY <1>2, RevalidationPrepared
<1>4. Open(plan) /\ Cardinality(held) > 0 /\ Cardinality(held) \in Nat
  BY <1>2, OpenHolds, HeldIsFinite DEF PlanOK
<1>5. IsComposition(composition)
  BY MapReads
<1>6. \A m \in leaving : RemovalReasonsAreValid(reasons[m])
  BY <1>5, RemovalReasonsFit
<1> HIDE DEF reasons, new
<1>7. leaving \in SUBSET held
  OBVIOUS
<1> HIDE DEF leaving
<1>8. Cardinality(leaving) \in Nat /\ (leaving # {} => Cardinality(leaving) > 0)
      /\ Cardinality(leaving) <= Cardinality(held) /\ (leaving = {} => Cardinality(leaving) = 0)
  <2>1. IsFiniteSet(held)
    BY <1>2, HeldIsFinite DEF PlanOK
  <2> HIDE DEF held
  <2>2. IsFiniteSet(leaving) /\ Cardinality(leaving) <= Cardinality(held)
    BY <1>7, <2>1, FS_Subset
  <2> QED
    BY <2>2, FS_CardinalityType, FS_EmptySet
<1>9. /\ event.at = now /\ event.removed = Cardinality(leaving) /\ event.remaining = remaining
      /\ event.type = type /\ event.state = IF leaving = {} THEN LastEvent(plan).state ELSE type
  OBVIOUS
<1> HIDE DEF event, held
<1>10. EventIsValid(event)
  <2>1. CASE leaving = {}
    <3>1. event.type = "revalidated" /\ event.removed = 0 /\ event.remaining > 0
          /\ event.state \in {"frozen", "reduced"}
      BY <1>4, <1>8, <1>9, <2>1 DEF Open
    <3> QED
      BY <3>1 DEF EventIsValid
  <2>2. CASE leaving # {} /\ remaining > 0
    <3>1. event.type = "reduced" /\ event.state = "reduced" /\ event.removed > 0
          /\ event.remaining > 0
      BY <1>8, <1>9, <2>2
    <3> QED
      BY <3>1 DEF EventIsValid
  <2>3. CASE leaving # {} /\ ~ remaining > 0
    <3>1. event.type = "invalidated" /\ event.state = "invalidated" /\ event.removed > 0
          /\ event.remaining = 0
      BY <1>4, <1>8, <1>9, <2>3
    <3> QED
      BY <3>1 DEF EventIsValid
  <2> QED
    BY <2>1, <2>2, <2>3
<1>11. /\ event.type \in {"revalidated", "reduced", "invalidated"}
       /\ event.type = "revalidated" => leaving = {} /\ event.state = LastEvent(plan).state
       /\ leaving # {} => event.state \in {"reduced", "invalidated"}
       /\ leaving = {} => event.state = LastEvent(plan).state
  BY <1>9
<1>12. /\ DOMAIN removals = DOMAIN plan.removals \union leaving
       /\ \A m \in leaving : removals[m] = [revision |-> Len(plan.events) + 1, at |-> now,
                                            reasons |-> reasons[m]]
       /\ \A m \in DOMAIN plan.removals : m \notin leaving => removals[m] = plan.removals[m]
  OBVIOUS
<1>13. leaving \intersect DOMAIN plan.removals = {}
  BY <1>7 DEF held, Eligible
<1> HIDE DEF removals, type, remaining
<1>14. /\ new.events = Append(plan.events, event) /\ new.members = plan.members
       /\ new.removals = removals /\ new.createdAt = plan.createdAt
  BY <1>1, <1>2 DEF WithEvent, PlanOK, PlanShape
<1>15. LastEvent(new) = event
  BY <1>2, <1>14, PlanReads DEF LastEvent
<1>16. event.remaining = Cardinality(Eligible(plan)) - Cardinality(leaving)
  BY <1>9 DEF remaining, held
<1>17. leaving \in SUBSET Eligible(plan)
  BY <1>7 DEF held
<1>18. \A m \in leaving : /\ new.removals[m].revision = Len(plan.events) + 1
                          /\ new.removals[m].at = event.at
                          /\ RemovalReasonsAreValid(new.removals[m].reasons)
  BY <1>6, <1>9, <1>12, <1>14
<1>19. \A m \in DOMAIN plan.removals : new.removals[m] = plan.removals[m]
  BY <1>12, <1>13, <1>14
<1>20. /\ event.type # "created"
       /\ event.type = "revalidated" => event.state = LastEvent(plan).state
       /\ event.state = "frozen" => LastEvent(plan).state = "frozen" /\ leaving = {}
       /\ event.state = "reduced" => LastEvent(plan).state = "reduced" \/ leaving # {}
  BY <1>11
<1>21. DOMAIN new.removals = DOMAIN plan.removals \union leaving
  BY <1>12, <1>14
<1>22. PersistedCleanupPlanIsValid(new)
  BY <1>3, <1>9, <1>10, <1>14, <1>15, <1>16, <1>17, <1>18, <1>19, <1>20, <1>21,
     ContinuationIsValid
<1> QED
  BY <1>22 DEF new

(* So does one that is cancelled.                                          *)
LEMMA CancellationIsValid ==
    ASSUME NEW plan, NEW now \in Times, Continuable(plan, now)
    PROVE  PersistedCleanupPlanIsValid(PreparedCancellation(plan, now))
<1> DEFINE event == [type |-> "cancelled", at |-> now, map |-> 0, removed |-> 0,
                     state |-> "cancelled", remaining |-> Cardinality(Eligible(plan))]
           new == PreparedCancellation(plan, now)
<1>1. new = WithEvent(plan, event, plan.removals)
  BY DEF PreparedCancellation
<1>2. PlanOK(plan) /\ PersistedCleanupPlanIsValid(plan)
      /\ LastEvent(plan).state \notin {"cancelled", "invalidated"}
  BY DEF Continuable
<1>3. PlanOK(new)
  BY <1>2, CancellationPrepared
<1>4. Cardinality(Eligible(plan)) > 0 /\ Cardinality(Eligible(plan)) \in Nat
  BY <1>2, OpenHolds, HeldIsFinite DEF PlanOK
<1>5. /\ event.type = "cancelled" /\ event.state = "cancelled" /\ event.at = now
      /\ event.removed = 0 /\ event.remaining = Cardinality(Eligible(plan))
  OBVIOUS
<1> HIDE DEF event, new
<1>6. EventIsValid(event)
  BY <1>4, <1>5 DEF EventIsValid
<1>7. /\ new.events = Append(plan.events, event) /\ new.members = plan.members
      /\ new.removals = plan.removals /\ new.createdAt = plan.createdAt
  BY <1>1, <1>2 DEF WithEvent, PlanOK, PlanShape
<1>8. LastEvent(new) = event
  BY <1>2, <1>7, PlanReads DEF LastEvent
<1>9. /\ {} \in SUBSET Eligible(plan) /\ Cardinality({}) = 0
      /\ DOMAIN new.removals = DOMAIN plan.removals \union {}
  BY <1>7, FS_EmptySet
<1>10. event.removed = Cardinality({})
       /\ event.remaining = Cardinality(Eligible(plan)) - Cardinality({})
  BY <1>4, <1>5, <1>9
<1>11. PersistedCleanupPlanIsValid(new)
  BY <1>3, <1>5, <1>6, <1>7, <1>8, <1>9, <1>10, ContinuationIsValid
<1> QED
  BY <1>11 DEF new

-----------------------------------------------------------------------------
(* The plans of the ledger. *)

(* Every plan that was written can be read again.                          *)
ValidPlans == \A p \in DOMAIN plans : PersistedCleanupPlanIsValid(plans[p])

(* The plan a command names that passes the checks common to both kinds,   *)
(* when the clock is not behind it.                                        *)
LEMMA PlanIsContinuable ==
    ASSUME LedgerInv, ValidPlans, NEW c, NEW now \in Times, PlanOutcome(c, now) = "accepted",
           ~ now < LastEvent(plans[c.plan]).at
    PROVE  c.plan \in DOMAIN plans /\ Continuable(plans[c.plan], now)
<1> DEFINE plan == plans[c.plan]
<1>1. /\ c.plan \in DOMAIN plans
      /\ effective_plan_state(plan, now) \notin {"expired", "cancelled", "invalidated"}
  BY DEF PlanOutcome
<1>2. PlanOK(plan) /\ PersistedCleanupPlanIsValid(plan)
  BY <1>1 DEF LedgerInv, RowsAgree, ValidPlans
<1> HIDE DEF plan
<1>3. LastEvent(plan).state \notin {"cancelled", "invalidated"} /\ ~ now >= ExpiresAt(plan)
  BY <1>1 DEF effective_plan_state
<1>4. LastEvent(plan).at \in Int /\ now \in Int /\ ExpiresAt(plan) \in Int
  <2>1. LastEvent(plan).at \in Times /\ plan.createdAt \in Times
    BY <1>2, PlanReads DEF Event, PlanOK, PlanTypeOK
  <2> QED
    BY <2>1, LedgerAssumption, RulesAssumption DEF ExpiresAt, Validity
<1>5. now >= LastEvent(plan).at /\ now < ExpiresAt(plan)
  BY <1>3, <1>4 DEF plan
<1> QED
  BY <1>1, <1>2, <1>3, <1>5 DEF Continuable, plan

(* A plan of the ledger loads, since its row agrees with it.               *)
LEMMA PlansLoad ==
    ASSUME LedgerInv, ValidPlans, NEW p \in DOMAIN plans
    PROVE  Loads(p)
BY DEF LedgerInv, RowsAgree, ValidPlans, Loads

(* What a request of a client can be refused for.                          *)
LEMMA AnswersAreExplained ==
    ASSUME LedgerInv, ValidPlans
    PROVE  UnavailableOnlyByTheClock
<1> SUFFICES ASSUME NEW i \in DOMAIN sent, NEW now \in Times,
                    Outcome(sent[i], now) \in {"study_unavailable", "invalid_request"}
             PROVE  sent[i].kind # "create" /\ now < LastEvent(plans[sent[i].plan]).at
  BY DEF UnavailableOnlyByTheClock
<1> DEFINE c == sent[i]
<1>1. c \in Composed /\ c.kind \in {"create", "revalidate", "cancel"}
  BY SentReads DEF LedgerInv
<1>2. account \in {"absent", "scanning", "completed"}
  BY DEF LedgerInv, TypeOK
<1>3. c.id \notin DOMAIN receipts /\ CatalogIsSound
  BY DEF Outcome, LedgerInv, ReceiptsReplay
<1>4. MapOutcome(c) \notin {"study_unavailable", "invalid_request"}
  BY <1>2 DEF MapOutcome
<1> HIDE DEF c
<1>5. CASE c.kind = "create"
  <2>1. CreationOutcome(c, now) \in {"study_unavailable", "invalid_request"}
    BY <1>3, <1>5 DEF Outcome, c
  <2>2. /\ c.request.targets \subseteq Catalog(composition)
        /\ ~ PersistedCleanupPlanIsValid(PreparedCreation(c, now))
    BY <1>4, <2>1 DEF CreationOutcome
  <2>3. c.request.targets # {}
    BY <1>1, <1>5, RequestsAssumption DEF Composed
  <2> QED
    BY <2>2, <2>3, CreationIsValid DEF LedgerInv
<1>6. CASE c.kind \in {"revalidate", "cancel"}
  <2> SUFFICES ASSUME ~ now < LastEvent(plans[c.plan]).at PROVE FALSE
    BY <1>6 DEF c
  <2>1. PlanOutcome(c, now) \notin {"study_unavailable", "invalid_request"}
    BY PlansLoad DEF PlanOutcome
  <2>2. CASE c.kind = "revalidate"
    <3>1. RevalidationOutcome(c, now) \in {"study_unavailable", "invalid_request"}
      BY <1>3, <2>2 DEF Outcome, c
    <3>2. /\ PlanOutcome(c, now) = "accepted"
          /\ ~ PersistedCleanupPlanIsValid(PreparedRevalidation(plans[c.plan], now))
      BY <1>4, <2>1, <3>1 DEF RevalidationOutcome
    <3> QED
      BY <3>2, PlanIsContinuable, RevalidationIsValid DEF LedgerInv
  <2>3. CASE c.kind = "cancel"
    <3>1. CancellationOutcome(c, now) \in {"study_unavailable", "invalid_request"}
      BY <1>3, <2>3 DEF Outcome, c
    <3>2. /\ PlanOutcome(c, now) = "accepted"
          /\ ~ PersistedCleanupPlanIsValid(PreparedCancellation(plans[c.plan], now))
      BY <2>1, <3>1 DEF CancellationOutcome
    <3> QED
      BY <3>2, PlanIsContinuable, CancellationIsValid
  <2> QED
    BY <1>6, <2>2, <2>3
<1> QED
  BY <1>1, <1>5, <1>6

(* A command writes only a plan that its own loader would accept.          *)
LEMMA AcceptedIsValid ==
    ASSUME LedgerInv, NEW i \in DOMAIN sent, NEW now \in Times, Outcome(sent[i], now) = "accepted"
    PROVE  /\ sent[i].kind = "create" =>
                PersistedCleanupPlanIsValid(PreparedCreation(sent[i], now))
           /\ sent[i].kind = "revalidate" =>
                PersistedCleanupPlanIsValid(PreparedRevalidation(plans[sent[i].plan], now))
           /\ sent[i].kind = "cancel" =>
                PersistedCleanupPlanIsValid(PreparedCancellation(plans[sent[i].plan], now))
<1> DEFINE c == sent[i]
<1>1. /\ c.kind = "create" => CreationOutcome(c, now) = "accepted"
      /\ c.kind = "revalidate" => RevalidationOutcome(c, now) = "accepted"
      /\ c.kind = "cancel" => CancellationOutcome(c, now) = "accepted"
  BY DEF Outcome
<1> HIDE DEF c
<1>2. c.kind = "create" => PersistedCleanupPlanIsValid(PreparedCreation(c, now))
  BY <1>1 DEF CreationOutcome
<1>3. c.kind = "revalidate" => PersistedCleanupPlanIsValid(PreparedRevalidation(plans[c.plan], now))
  BY <1>1 DEF RevalidationOutcome
<1>4. c.kind = "cancel" => PersistedCleanupPlanIsValid(PreparedCancellation(plans[c.plan], now))
  BY <1>1 DEF CancellationOutcome
<1> QED
  BY <1>2, <1>3, <1>4 DEF c

(* What is said of a plan is read off the plan alone.                      *)
LEMMA ValidByValue ==
    ASSUME \A p \in DOMAIN plans' : PersistedCleanupPlanIsValid(plans'[p])
    PROVE  ValidPlans'
BY DEF ValidPlans, PersistedCleanupPlanIsValid, EventsAreValid, RemovalsAreValid, StateIsValid,
       Selected, Eligible, LastEvent, EventIsValid, FollowsInLedger, RemovalReasonsAreValid,
       ExpiresAt, Validity

(* Every step keeps the plans valid.                                       *)
LEMMA ValidStep == ASSUME LedgerInv, ValidPlans, [Next]_vars PROVE ValidPlans'
<1>1. ASSUME NEW i, NEW id, NEW plan, Accepted(i, id, plan), Persist(i, id, plan),
             PersistedCleanupPlanIsValid(plan)
      PROVE  ValidPlans'
  <2>1. PlanWritten(id, plan)
    BY <1>1, PlansAfter
  <2>2. \A p \in DOMAIN plans' : PersistedCleanupPlanIsValid(plans'[p])
    BY <1>1, <2>1 DEF PlanWritten, ValidPlans
  <2> QED
    BY <2>2, ValidByValue
<1>2. CASE UNCHANGED plans
  <2>1. \A p \in DOMAIN plans' : PersistedCleanupPlanIsValid(plans'[p])
    BY <1>2 DEF ValidPlans
  <2> QED
    BY <2>1, ValidByValue
<1>3. CASE Client \/ (Index /\ ~ delete_account_index) \/ UNCHANGED vars
  <2>1. UNCHANGED plans
    BY <1>3 DEF Client, Index, ComposeCreate, ComposeRevalidate, ComposeCancel, Compose,
                MapMoves, ScanEnds, ScanBegins, vars, tableVars
  <2> QED
    BY <1>2, <2>1
<1>4. CASE delete_account_index
  BY <1>4 DEF delete_account_index, ValidPlans
<1>5. ASSUME NEW i \in DOMAIN sent, NEW now \in Times, Command(i, now) PROVE ValidPlans'
  <2>1. CASE create_cleanup_plan(i, now)
    <3>1. PersistedCleanupPlanIsValid(PreparedCreation(sent[i], now))
      BY <2>1, AcceptedIsValid DEF create_cleanup_plan
    <3> QED
      BY <1>1, <2>1, <3>1, CreateTransacts
  <2>2. CASE revalidate_cleanup_plan(i, now)
    <3>1. PersistedCleanupPlanIsValid(PreparedRevalidation(plans[sent[i].plan], now))
      BY <2>2, AcceptedIsValid DEF revalidate_cleanup_plan
    <3> QED
      BY <1>1, <2>2, <3>1, RevalidateTransacts
  <2>3. CASE cancel_cleanup_plan(i, now)
    <3>1. PersistedCleanupPlanIsValid(PreparedCancellation(plans[sent[i].plan], now))
      BY <2>3, AcceptedIsValid DEF cancel_cleanup_plan
    <3> QED
      BY <1>1, <2>3, <3>1, CancelTransacts
  <2>4. CASE Answer(i, now)
    BY <1>3, <2>4 DEF Answer
  <2> QED
    BY <1>5, <2>1, <2>2, <2>3, <2>4 DEF Command
<1> QED
  BY <1>3, <1>4, <1>5 DEF Next

-----------------------------------------------------------------------------
(* Every plan in the ledger is one its own loader accepts.                 *)
THEOREM PlansCorrect == Spec => []ValidPlans
<1>1. Init => ValidPlans
  BY DEF Init, ValidPlans
<1>2. LedgerInv /\ ValidPlans /\ [Next]_vars => ValidPlans'
  BY ValidStep
<1> QED
  BY <1>1, <1>2, LedgerCorrect, PTL DEF Spec

(* A command is refused for a reason a client can understand: that a plan  *)
(* cannot be read, or taken one event further, only ever means that the    *)
(* clock went back behind its last event (UnavailableOnlyByTheClock).      *)
THEOREM AvailabilityCorrect == Spec => []UnavailableOnlyByTheClock
<1>1. LedgerInv /\ ValidPlans => UnavailableOnlyByTheClock
  BY AnswersAreExplained
<1> QED
  BY <1>1, LedgerCorrect, PlansCorrect, PTL
=============================================================================
