----------------------- MODULE CleanupPlanLedgerProofs -----------------------
(***************************************************************************)
(* Theorems of CleanupPlanLedger, for every set of messages, maps,         *)
(* requests, identifiers and times: its tables agree with one another and  *)
(* with the receipts, a command is carried out at most once however late   *)
(* it arrives, also after its account was deleted, and the ledger keeps    *)
(* the promise of CleanupPlanPromise. First lemmas about what a plan       *)
(* selects, then about one transaction, then the steps.                    *)
(***************************************************************************)
EXTENDS CleanupPlanLedger, FiniteSetTheorems, SequenceTheorems, TLAPS

(* What a client composes.                                                 *)
Composed ==
    [id : CommandIds, kind : {"create"}, map : Nat, request : Requests]
    \union [id : CommandIds, kind : {"revalidate"}, map : Nat, plan : Nat, revision : Nat]
    \union [id : CommandIds, kind : {"cancel"}, plan : Nat, revision : Nat]

PlanShape(plan) == DOMAIN plan = {"selection", "createdAt", "members", "removals", "events"}

PlanOK(plan) == PlanTypeOK(plan) /\ PlanShape(plan) /\ plan.events # <<>>

(* The lists are lists, and a command names a map that was there.          *)
ListsOK ==
    /\ maps \in Seq(Compositions) /\ maps # <<>>
    /\ sent \in Seq(Composed) /\ Len(sent) <= MaxCommands
    /\ executed \in Seq(Nat)
    /\ \A i \in DOMAIN sent : sent[i].kind = "create" => sent[i].map <= mapRevision

(* Every plan is one, and its row says of it what it is.                   *)
RowsAgree ==
    /\ DOMAIN rows = DOMAIN plans
    /\ \A p \in DOMAIN plans : PlanOK(plans[p]) /\ rows[p] = Aggregate(plans[p])

(* The receipt of an event: there is one, and only one.                    *)
IsOf(receipt, p, r) == receipt.plan = p /\ receipt.revision = r

EventsHaveReceipts ==
    /\ IsFiniteSet(DOMAIN receipts)
    /\ catalogRevision = Cardinality(DOMAIN receipts)
    /\ \A p \in DOMAIN plans : \A r \in DOMAIN plans[p].events :
          \E id \in DOMAIN receipts :
             IsOf(receipts[id], p, r) /\ \A k \in DOMAIN receipts : IsOf(receipts[k], p, r) => k = id

ReceiptsNameTheirPlan ==
    \A id \in DOMAIN receipts :
        receipts[id].command.kind # "create" => receipts[id].plan = receipts[id].command.plan

(* A command whose receipt is gone with the account will not be accepted   *)
(* again: its map or its plan is gone for good.                            *)
Lost(c) ==
    \/ c.kind = "create" /\ (account = "completed" => c.map < mapRevision)
    \/ c.kind # "create" /\ c.plan \notin DOMAIN plans /\ c.plan <= Len(executed)

HasReceipt(c) == c.id \in DOMAIN receipts /\ receipts[c.id].command = c

ExecutedAreDone ==
    \A n \in DOMAIN executed : HasReceipt(sent[executed[n]]) \/ Lost(sent[executed[n]])

(* The inductive invariant.                                                *)
LedgerInv ==
    /\ TypeOK
    /\ ListsOK
    /\ RowsAgree
    /\ ReceiptsReplay
    /\ EventsHaveReceipts
    /\ ReceiptsNameTheirPlan
    /\ ExecutedOnce
    /\ ExecutedAreDone

-----------------------------------------------------------------------------
(* What a plan selects. *)

(* The messages of a universe are in the index.                            *)
LEMMA UniverseIsIndexed ==
    ASSUME NEW comp, NEW targets
    PROVE  Universe(comp, targets) \subseteq DOMAIN comp
BY DEF Universe, InTarget

(* The reasons found in a map are reasons.                                 *)
LEMMA BaseReasonsType ==
    ASSUME NEW comp, IsComposition(comp), NEW m \in DOMAIN comp, NEW sel
    PROVE  BaseReasons(comp, m, sel) \subseteq Reasons
<1>1. comp[m] \in Photo
  BY DEF IsComposition, PartialMap
<1>2. comp[m].protection \subseteq Protections
  BY <1>1 DEF Photo
<1> QED
  BY <1>2 DEF BaseReasons, Reasons, PlanReasons

(* So are those for which a new plan leaves a message out.                 *)
LEMMA CreationReasonsType ==
    ASSUME NEW comp, IsComposition(comp), NEW universe, NEW m \in DOMAIN comp, NEW sel
    PROVE  CreationReasons(comp, universe, sel, m) \subseteq Reasons
<1>1. BaseReasons(comp, m, sel) \subseteq Reasons
  BY BaseReasonsType
<1>2. {"keep_latest"} \subseteq Reasons
  BY DEF Reasons, PlanReasons
<1> QED
  BY <1>1, <1>2 DEF CreationReasons

(* And those for which a plan loses one.                                   *)
LEMMA RemovalReasonsType ==
    ASSUME NEW comp, IsComposition(comp), NEW m, NEW sel
    PROVE  RemovalReasons(comp, sel, m) \subseteq Reasons
<1>1. \A r \in {"keep_latest", "scope_changed", "missing_after_creation", "protection_changed"} :
         r \in Reasons
  BY DEF Reasons, PlanReasons
<1>2. m \in DOMAIN comp => BaseReasons(comp, m, sel) \subseteq Reasons
  BY BaseReasonsType
<1> QED
  BY <1>1, <1>2 DEF RemovalReasons

(* What identifies a target is a set of addresses.                         *)
LEMMA SnapshotsType ==
    ASSUME NEW comp, IsComposition(comp), NEW targets, targets \subseteq Targets
    PROVE  PartialMap(TargetSnapshots(comp, targets), Targets, SUBSET Senders)
<1>1. \A source : SourceAddresses(comp, source) \subseteq Senders
  BY RulesAssumption DEF SourceAddresses, IsComposition, PartialMap
<1>2. ASSUME NEW target \in Targets PROVE SelectorFingerprint(comp, target) \subseteq Senders
  <2>1. target.kind \in {"source", "flow", "sender"}
    BY DEF Targets
  <2> QED
    BY <1>1, <2>1 DEF SelectorFingerprint
<1> QED
  BY <1>2 DEF PartialMap, TargetSnapshots

(* A plan holds some of finitely many messages.                            *)
LEMMA HeldIsFinite ==
    ASSUME NEW plan, PlanTypeOK(plan)
    PROVE  /\ IsFiniteSet(Selected(plan.members)) /\ IsFiniteSet(Eligible(plan))
           /\ Selected(plan.members) \subseteq Messages /\ Eligible(plan) \subseteq Messages
           /\ Cardinality(Selected(plan.members)) \in Nat
           /\ Cardinality(Eligible(plan)) \in Nat
<1>1. Selected(plan.members) \subseteq Messages /\ Eligible(plan) \subseteq Messages
  BY DEF PlanTypeOK, PartialMap, Selected, Eligible
<1>2. IsFiniteSet(Selected(plan.members)) /\ IsFiniteSet(Eligible(plan))
  BY <1>1, RulesAssumption, FS_Subset
<1> QED
  BY <1>1, <1>2, FS_CardinalityType

(* What is read off a plan with events.                                    *)
LEMMA PlanReads ==
    ASSUME NEW plan, PlanOK(plan)
    PROVE  /\ plan.events \in Seq(Event) /\ Len(plan.events) \in Nat \ {0}
           /\ DOMAIN plan.events = 1 .. Len(plan.events)
           /\ LastEvent(plan) \in Event
           /\ Aggregate(plan) \in Row
           /\ Aggregate(plan).revision = Len(plan.events)
<1>1. /\ plan.events \in Seq(Event) /\ Len(plan.events) \in Nat \ {0}
      /\ DOMAIN plan.events = 1 .. Len(plan.events)
  BY DEF PlanOK, PlanTypeOK
<1>2. LastEvent(plan) \in Event
  BY <1>1 DEF LastEvent
<1>3. Cardinality(Eligible(plan)) \in Nat
  BY HeldIsFinite DEF PlanOK
<1> QED
  BY <1>1, <1>2, <1>3 DEF Aggregate, Row, Event

-----------------------------------------------------------------------------
(* What the commands prepare. *)

(* The map of the moment, and its number.                                  *)
LEMMA MapReads ==
    ASSUME TypeOK, ListsOK
    PROVE  IsComposition(composition) /\ mapRevision \in Nat \ {0}
           /\ DOMAIN maps = 1 .. mapRevision
BY DEF TypeOK, ListsOK, composition, mapRevision

(* A new plan is a plan, with one event, and closed if it selects nothing.  *)
LEMMA CreationPrepared ==
    ASSUME TypeOK, ListsOK, NEW c, NEW now \in Times, c.request.targets \subseteq Catalog(composition)
    PROVE  LET plan == PreparedCreation(c, now)
           IN  /\ PlanOK(plan)
               /\ Len(plan.events) = 1 /\ LastEvent(plan).type = "created"
               /\ plan.removals = <<>>
               /\ LastEvent(plan).state
                    = IF Selected(plan.members) = {} THEN "invalidated" ELSE "frozen"
<1> DEFINE plan == PreparedCreation(c, now)
           sel == Selection(c.request, now)
           members == FrozenMembers(sel)
           count == Cardinality(Selected(members))
           created == [type |-> "created", at |-> now, map |-> mapRevision, removed |-> 0,
                       state |-> IF count = 0 THEN "invalidated" ELSE "frozen",
                       remaining |-> count]
<1>1. plan = [selection |-> sel, createdAt |-> now, members |-> members, removals |-> <<>>,
              events |-> <<created>>]
  BY DEF PreparedCreation
<1>2. IsComposition(composition) /\ mapRevision \in Nat
  BY MapReads
<1>3. PartialMap(sel.targets, Targets, SUBSET Senders)
  BY <1>2, SnapshotsType DEF Selection, Catalog
<1>4. PartialMap(members, Messages, SUBSET Reasons)
  <2>1. DOMAIN members \subseteq DOMAIN composition
    BY UniverseIsIndexed DEF FrozenMembers
  <2>2. \A m \in DOMAIN members : members[m] \subseteq Reasons
    BY <1>2, <2>1, CreationReasonsType DEF FrozenMembers
  <2> QED
    BY <1>2, <2>1, <2>2 DEF PartialMap, IsComposition, FrozenMembers
<1> HIDE DEF sel, members
<1>5. Selected(members) \subseteq Messages /\ IsFiniteSet(Selected(members))
  <2>1. Selected(members) \subseteq Messages
    BY <1>4 DEF Selected, PartialMap
  <2> QED
    BY <2>1, RulesAssumption, FS_Subset
<1>6. count \in Nat /\ (count = 0 <=> Selected(members) = {})
  BY <1>5, FS_CardinalityType, FS_EmptySet
<1> HIDE DEF count
<1>7. created \in Event
  BY <1>2, <1>6 DEF Event, PlanStates
<1> HIDE DEF created
<1>8. PartialMap(<<>>, Messages, Removal)
  BY DEF PartialMap
<1>9. PlanOK(plan)
  BY <1>1, <1>3, <1>4, <1>7, <1>8 DEF PlanOK, PlanTypeOK, PlanShape
<1>10. LastEvent(plan) = created /\ Len(plan.events) = 1
  BY <1>1 DEF LastEvent
<1> QED
  BY <1>1, <1>6, <1>9, <1>10 DEF created, plan

(* A plan with one event more is a plan.                                   *)
LEMMA EventAdded ==
    ASSUME NEW plan, PlanOK(plan), NEW event \in Event, NEW removals,
           PartialMap(removals, Messages, Removal)
    PROVE  LET new == WithEvent(plan, event, removals)
           IN  /\ PlanOK(new)
               /\ new.events = Append(plan.events, event)
               /\ Len(new.events) = Len(plan.events) + 1
               /\ new.members = plan.members /\ new.removals = removals
               /\ LastEvent(new) = event
<1> DEFINE new == WithEvent(plan, event, removals)
<1>1. /\ PlanShape(new) /\ new.selection = plan.selection /\ new.createdAt = plan.createdAt
      /\ new.members = plan.members /\ new.removals = removals
      /\ new.events = Append(plan.events, event)
  BY DEF WithEvent, PlanOK, PlanShape
<1>2. plan.events \in Seq(Event)
  BY PlanReads
<1>3. /\ Append(plan.events, event) \in Seq(Event)
      /\ Append(plan.events, event) # <<>>
      /\ Len(Append(plan.events, event)) = Len(plan.events) + 1
      /\ Append(plan.events, event)[Len(plan.events) + 1] = event
  BY <1>2
<1> HIDE DEF new
<1> QED
  BY <1>1, <1>3 DEF PlanOK, PlanTypeOK, PlanShape, LastEvent, new

(* Compared with the map, a plan has one event more and loses messages.    *)
LEMMA RevalidationPrepared ==
    ASSUME TypeOK, ListsOK, NEW plan, PlanOK(plan), NEW now \in Times
    PROVE  LET new == PreparedRevalidation(plan, now)
           IN  /\ PlanOK(new)
               /\ \E event \in Event : /\ new.events = Append(plan.events, event)
                                       /\ event.type \in {"revalidated", "reduced", "invalidated"}
               /\ \E leaving \in SUBSET Eligible(plan) :
                     /\ Eligible(new) = Eligible(plan) \ leaving
                     /\ LastEvent(new).state =
                          IF leaving = {} THEN LastEvent(plan).state
                          ELSE IF Eligible(plan) \ leaving = {} THEN "invalidated" ELSE "reduced"
<1> DEFINE held == Eligible(plan)
           reasons == [m \in held |-> RemovalReasons(composition, plan.selection, m)]
           leaving == {m \in held : reasons[m] # {}}
           remaining == Cardinality(held) - Cardinality(leaving)
           type == IF leaving = {} THEN "revalidated"
                   ELSE IF remaining > 0 THEN "reduced" ELSE "invalidated"
           event == [type |-> type, at |-> now, map |-> mapRevision,
                     removed |-> Cardinality(leaving),
                     state |-> IF leaving = {} THEN LastEvent(plan).state ELSE type,
                     remaining |-> remaining]
           removals == [m \in DOMAIN plan.removals \union leaving |->
                          IF m \in leaving
                          THEN [revision |-> Len(plan.events) + 1, at |-> now, reasons |-> reasons[m]]
                          ELSE plan.removals[m]]
           new == PreparedRevalidation(plan, now)
<1>1. new = WithEvent(plan, event, removals)
  BY DEF PreparedRevalidation
<1>2. IsComposition(composition) /\ mapRevision \in Nat
  BY MapReads
<1>3. \A m \in held : reasons[m] \subseteq Reasons
  BY <1>2, RemovalReasonsType
<1>4. leaving \subseteq held /\ held \subseteq Messages /\ IsFiniteSet(held)
  BY HeldIsFinite DEF PlanOK
<1> HIDE DEF reasons, held
<1>5. /\ Cardinality(held) \in Nat /\ Cardinality(leaving) \in Nat
      /\ remaining \in Nat
      /\ (remaining = 0 <=> held \ leaving = {})
  <2>1. /\ IsFiniteSet(leaving) /\ Cardinality(leaving) <= Cardinality(held)
        /\ (Cardinality(held) = Cardinality(leaving) => held = leaving)
    BY <1>4, FS_Subset
  <2>2. Cardinality(held) \in Nat /\ Cardinality(leaving) \in Nat
    BY <1>4, <2>1, FS_CardinalityType
  <2>3. held \ leaving = {} => held = leaving
    BY <1>4
  <2> QED
    BY <2>1, <2>2, <2>3
<1>6. Len(plan.events) \in Nat /\ LastEvent(plan) \in Event
  BY PlanReads
<1>7. type \in {"revalidated", "reduced", "invalidated"}
  OBVIOUS
<1>8. event \in Event
  <2>1. (IF leaving = {} THEN LastEvent(plan).state ELSE type) \in PlanStates
    BY <1>6 DEF Event, PlanStates
  <2> HIDE DEF leaving, remaining, type
  <2> QED
    BY <1>2, <1>5, <1>7, <2>1 DEF Event
<1>9. PartialMap(removals, Messages, Removal)
  <2>1. \A m \in DOMAIN plan.removals : plan.removals[m] \in Removal /\ m \in Messages
    BY DEF PlanOK, PlanTypeOK, PartialMap
  <2>2. \A m \in leaving :
           [revision |-> Len(plan.events) + 1, at |-> now, reasons |-> reasons[m]] \in Removal
    BY <1>3, <1>4, <1>6 DEF Removal
  <2> QED
    BY <1>4, <2>1, <2>2 DEF PartialMap
<1>10. Len(plan.events) \in Nat
  BY PlanReads
<1> HIDE DEF removals, event
<1>11. /\ PlanOK(new) /\ new.events = Append(plan.events, event)
       /\ new.members = plan.members /\ new.removals = removals
       /\ LastEvent(new) = event
  BY <1>1, <1>8, <1>9, EventAdded
<1>12. DOMAIN removals = DOMAIN plan.removals \union leaving
  BY DEF removals
<1>13. Eligible(new) = held \ leaving
  BY <1>11, <1>12 DEF Eligible, held
<1>14. event.type = type /\ event.state = IF leaving = {} THEN LastEvent(plan).state ELSE type
  BY DEF event
<1>15. event.state = IF leaving = {} THEN LastEvent(plan).state
                     ELSE IF held \ leaving = {} THEN "invalidated" ELSE "reduced"
  <2> HIDE DEF leaving, remaining
  <2> QED
    BY <1>5, <1>14
<1> HIDE DEF leaving, new, type
<1>16. \E e \in Event : /\ new.events = Append(plan.events, e)
                        /\ e.type \in {"revalidated", "reduced", "invalidated"}
  BY <1>7, <1>8, <1>11, <1>14
<1>17. leaving \in SUBSET held
  BY <1>4
<1> QED
  BY <1>11, <1>13, <1>15, <1>16, <1>17 DEF new, held

(* Cancelled, a plan has one event more and holds what it held.            *)
LEMMA CancellationPrepared ==
    ASSUME NEW plan, PlanOK(plan), NEW now \in Times
    PROVE  LET new == PreparedCancellation(plan, now)
           IN  /\ PlanOK(new)
               /\ \E event \in Event : /\ new.events = Append(plan.events, event)
                                       /\ event.type = "cancelled"
               /\ Eligible(new) = Eligible(plan)
               /\ LastEvent(new).state = "cancelled"
<1> DEFINE event == [type |-> "cancelled", at |-> now, map |-> 0, removed |-> 0,
                     state |-> "cancelled", remaining |-> Cardinality(Eligible(plan))]
           new == PreparedCancellation(plan, now)
<1>1. event \in Event
  BY HeldIsFinite DEF PlanOK, Event, PlanStates
<1>2. new = WithEvent(plan, event, plan.removals)
  BY DEF PreparedCancellation
<1>3. event.type = "cancelled" /\ event.state = "cancelled"
  OBVIOUS
<1> HIDE DEF event
<1>4. /\ PlanOK(new) /\ new.events = Append(plan.events, event)
      /\ new.members = plan.members /\ new.removals = plan.removals
      /\ LastEvent(new) = event
  <2>1. PartialMap(plan.removals, Messages, Removal)
    BY DEF PlanOK, PlanTypeOK
  <2> HIDE DEF new
  <2> QED
    BY <1>1, <1>2, <2>1, EventAdded
<1>5. Eligible(new) = Eligible(plan)
  <2> HIDE DEF new
  <2> QED
    BY <1>4 DEF Eligible
<1> QED
  BY <1>1, <1>3, <1>4, <1>5

-----------------------------------------------------------------------------
(* One transaction. *)

Closing(kind) ==
    IF kind = "revalidate" THEN {"revalidated", "reduced", "invalidated"} ELSE {"cancelled"}

(* What a command that is accepted writes: a new plan, or one that is there *)
(* with one event more.                                                     *)
Creates(i, id, plan) ==
    /\ sent[i].kind = "create" /\ id = NewPlanId
    /\ Len(plan.events) = 1 /\ LastEvent(plan).type = "created"
Continues(i, id, plan) ==
    /\ sent[i].kind \in {"revalidate", "cancel"} /\ id = sent[i].plan /\ id \in DOMAIN plans
    /\ \E e \in Event : plan.events = Append(plans[id].events, e) /\ e.type \in Closing(sent[i].kind)

Accepted(i, id, plan) ==
    /\ i \in DOMAIN sent /\ sent[i].id \notin DOMAIN receipts /\ ~ Lost(sent[i])
    /\ PlanOK(plan)
    /\ Creates(i, id, plan) \/ Continues(i, id, plan)

(* A command that was sent is one of three.                                *)
LEMMA SentReads ==
    ASSUME TypeOK, ListsOK, NEW i \in DOMAIN sent
    PROVE  /\ sent[i] \in Composed /\ sent[i].id \in CommandIds
           /\ sent[i].kind \in {"create", "revalidate", "cancel"}
           /\ DOMAIN sent = 1 .. Len(sent) /\ Len(sent) \in Nat
<1>1. sent[i] \in Composed /\ DOMAIN sent = 1 .. Len(sent) /\ Len(sent) \in Nat
  BY DEF ListsOK
<1> QED
  BY <1>1 DEF Composed

(* What a transaction makes of the plans, and the lengths of their ledgers. *)
PlanWritten(id, plan) ==
    /\ DOMAIN plans' = DOMAIN plans \union {id} /\ plans'[id] = plan
    /\ \A p \in DOMAIN plans : p # id => plans'[p] = plans[p]

LedgerGrows(id, plan) ==
    /\ LastEvent(plan) = plan.events[Len(plan.events)]
    /\ Len(plan.events) \in Nat \ {0}
    /\ id \in DOMAIN plans => Len(plan.events) = Len(plans[id].events) + 1
    /\ id \notin DOMAIN plans => Len(plan.events) = 1

EventsAreKept ==
    \A p \in DOMAIN plans : \A r \in 1 .. Len(plans[p].events) :
        r \in 1 .. Len(plans'[p].events) /\ plans'[p].events[r] = plans[p].events[r]

(* The plans and their rows after a transaction.                           *)
LEMMA PlansAfter ==
    ASSUME LedgerInv, NEW i, NEW id, NEW plan, Accepted(i, id, plan), Persist(i, id, plan)
    PROVE  PlanWritten(id, plan) /\ LedgerGrows(id, plan) /\ EventsAreKept /\ RowsAgree'
<1>1. /\ plans' = [p \in DOMAIN plans \union {id} |-> IF p = id THEN plan ELSE plans[p]]
      /\ rows' = [p \in DOMAIN rows \union {id} |-> IF p = id THEN Aggregate(plan) ELSE rows[p]]
  BY DEF Persist, Written
<1>2. PlanWritten(id, plan)
  BY <1>1 DEF PlanWritten
<1>3. PlanOK(plan) /\ \A p \in DOMAIN plans : PlanOK(plans[p])
  BY DEF LedgerInv, RowsAgree, Accepted
<1>4. /\ Len(plan.events) \in Nat \ {0} /\ plan.events \in Seq(Event)
      /\ \A p \in DOMAIN plans : /\ plans[p].events \in Seq(Event)
                                 /\ Len(plans[p].events) \in Nat \ {0}
  BY <1>3, PlanReads
<1>5. RowsAgree'
  BY <1>1, <1>3 DEF LedgerInv, RowsAgree
<1>6. LastEvent(plan) = plan.events[Len(plan.events)]
  BY DEF LastEvent
<1>7. CASE Continues(i, id, plan)
  <2>1. PICK e \in Event : plan.events = Append(plans[id].events, e)
    BY <1>7 DEF Continues
  <2>2. /\ id \in DOMAIN plans
        /\ Len(plan.events) = Len(plans[id].events) + 1
        /\ \A r \in 1 .. Len(plans[id].events) :
              r \in 1 .. Len(plan.events) /\ plan.events[r] = plans[id].events[r]
    BY <1>4, <1>7, <2>1 DEF Continues
  <2> QED
    BY <1>2, <1>4, <1>5, <1>6, <2>2 DEF PlanWritten, LedgerGrows, EventsAreKept
<1>8. CASE Creates(i, id, plan)
  <2>1. id \notin DOMAIN plans /\ Len(plan.events) = 1
    BY <1>8 DEF Creates, NewPlanId, LedgerInv, TypeOK, ListsOK
  <2> QED
    BY <1>2, <1>4, <1>5, <1>6, <2>1 DEF PlanWritten, LedgerGrows, EventsAreKept
<1> QED
  BY <1>7, <1>8 DEF Accepted

(* The receipts after a transaction: one more, of an event that had none.  *)
ReceiptWritten(i, id, plan) ==
    /\ DOMAIN receipts' = DOMAIN receipts \union {sent[i].id}
    /\ receipts'[sent[i].id] = [command |-> sent[i], plan |-> id, revision |-> Len(plan.events),
                                removed |-> LastEvent(plan).removed]
    /\ \A k \in DOMAIN receipts : k # sent[i].id /\ receipts'[k] = receipts[k]

EventIsNew(id, plan) ==
    \A k \in DOMAIN receipts : /\ receipts[k].plan \in DOMAIN plans
                               /\ ~ IsOf(receipts[k], id, Len(plan.events))

LEMMA ReceiptsAfter ==
    ASSUME LedgerInv, NEW i, NEW id, NEW plan, Accepted(i, id, plan), Persist(i, id, plan)
    PROVE  ReceiptWritten(i, id, plan) /\ EventIsNew(id, plan)
<1>1. receipts' = [k \in DOMAIN receipts \union {sent[i].id} |->
                     IF k = sent[i].id
                     THEN [command |-> sent[i], plan |-> id, revision |-> Len(plan.events),
                           removed |-> LastEvent(plan).removed]
                     ELSE receipts[k]]
  BY DEF Persist, Written
<1>2. sent[i].id \notin DOMAIN receipts
  BY DEF Accepted
<1>3. ASSUME NEW k \in DOMAIN receipts
      PROVE  receipts[k].plan \in DOMAIN plans /\ ~ IsOf(receipts[k], id, Len(plan.events))
  <2>1. /\ receipts[k].plan \in DOMAIN plans
        /\ receipts[k].revision \in 1 .. rows[receipts[k].plan].revision
    BY DEF LedgerInv, ReceiptsReplay, ReceiptIsSound
  <2>2. rows[receipts[k].plan].revision = Len(plans[receipts[k].plan].events)
    BY <2>1, PlanReads DEF LedgerInv, RowsAgree
  <2>3. Len(plans[receipts[k].plan].events) \in Nat
    BY <2>1, PlanReads DEF LedgerInv, RowsAgree
  <2>4. /\ Len(plan.events) \in Nat
        /\ id \in DOMAIN plans => Len(plan.events) = Len(plans[id].events) + 1
    BY PlansAfter DEF LedgerGrows
  <2> QED
    BY <2>1, <2>2, <2>3, <2>4 DEF IsOf
<1> QED
  BY <1>1, <1>2, <1>3 DEF ReceiptWritten, EventIsNew

(* What a receipt must find in the plan it names.                          *)
BorneOutBy(receipt, plan) ==
    /\ receipt.revision \in 1 .. Len(plan.events)
    /\ LET event == plan.events[receipt.revision]
       IN  CASE receipt.command.kind = "create" -> receipt.revision = 1 /\ event.type = "created"
             [] receipt.command.kind = "revalidate" ->
                   /\ event.type \in {"revalidated", "reduced", "invalidated"}
                   /\ receipt.removed = event.removed
             [] receipt.command.kind = "cancel" -> event.type = "cancelled"

ReceiptsBorneOut ==
    \A id \in DOMAIN receipts : /\ receipts[id].plan \in DOMAIN plans
                                /\ BorneOutBy(receipts[id], plans[receipts[id].plan])

(* As the rows repeat the ledger, believing a receipt is finding this.     *)
LEMMA BelievedIsBorneOut == RowsAgree => (ReceiptsReplay <=> CatalogIsSound /\ ReceiptsBorneOut)
<1> SUFFICES ASSUME RowsAgree PROVE ReceiptsReplay <=> CatalogIsSound /\ ReceiptsBorneOut
  OBVIOUS
<1>1. \A p \in DOMAIN plans : rows[p].revision = Len(plans[p].events)
  BY DEF RowsAgree, Aggregate
<1>2. ASSUME NEW receipt
      PROVE  ReceiptIsSound(receipt) <=> /\ receipt.plan \in DOMAIN plans
                                         /\ BorneOutBy(receipt, plans[receipt.plan])
  <2>1. CASE receipt.plan \notin DOMAIN plans
    BY <2>1 DEF ReceiptIsSound
  <2>2. CASE receipt.plan \in DOMAIN plans
    <3>1. rows[receipt.plan].revision = Len(plans[receipt.plan].events)
      BY <1>1, <2>2
    <3> QED
      BY <2>2, <3>1 DEF ReceiptIsSound, BorneOutBy
  <2> QED
    BY <2>1, <2>2
<1> QED
  BY <1>2 DEF ReceiptsReplay, ReceiptsBorneOut

(* A receipt that is believed names a plan and an event of it.             *)
ReceiptsHaveKeys ==
    \A id \in DOMAIN receipts :
        /\ receipts[id].plan \in DOMAIN plans
        /\ receipts[id].revision \in DOMAIN plans[receipts[id].plan].events

LEMMA BelievedHasKeys == RowsAgree /\ ReceiptsReplay => ReceiptsHaveKeys
<1> SUFFICES ASSUME RowsAgree, ReceiptsReplay, NEW id \in DOMAIN receipts
             PROVE  /\ receipts[id].plan \in DOMAIN plans
                    /\ receipts[id].revision \in DOMAIN plans[receipts[id].plan].events
  BY DEF ReceiptsHaveKeys
<1> DEFINE plan == plans[receipts[id].plan]
<1>1. receipts[id].plan \in DOMAIN plans /\ BorneOutBy(receipts[id], plan)
  BY BelievedIsBorneOut DEF ReceiptsBorneOut
<1>2. DOMAIN plan.events = 1 .. Len(plan.events)
  BY <1>1, PlanReads DEF RowsAgree
<1> QED
  BY <1>1, <1>2 DEF BorneOutBy

(* The last event of the plan bears out the receipt that came with it.     *)
LEMMA NewReceiptBorneOut ==
    ASSUME LedgerInv, NEW i, NEW id, NEW plan, Accepted(i, id, plan),
           NEW r, r.command = sent[i], r.revision = Len(plan.events),
           r.removed = LastEvent(plan).removed
    PROVE  BorneOutBy(r, plan)
<1>1. /\ Len(plan.events) \in Nat \ {0}
      /\ LastEvent(plan) = plan.events[Len(plan.events)]
  BY PlanReads DEF Accepted, LastEvent
<1>2. CASE Creates(i, id, plan)
  BY <1>1, <1>2 DEF Creates, BorneOutBy
<1>3. CASE Continues(i, id, plan)
  <2>1. PICK e \in Event : /\ plan.events = Append(plans[id].events, e)
                           /\ e.type \in Closing(sent[i].kind)
    BY <1>3 DEF Continues
  <2>2. plans[id].events \in Seq(Event)
    BY <1>3, PlanReads DEF Continues, LedgerInv, RowsAgree
  <2>3. LastEvent(plan) = e
    BY <2>1, <2>2 DEF LastEvent
  <2>4. LastEvent(plan).type \in Closing(sent[i].kind)
    BY <2>1, <2>3
  <2>5. sent[i].kind \in {"revalidate", "cancel"}
    BY <1>3 DEF Continues
  <2>6. Len(plan.events) \in 1 .. Len(plan.events) /\ r.revision = Len(plan.events)
    BY <1>1
  <2>7. CASE sent[i].kind = "revalidate"
    BY <1>1, <2>4, <2>6, <2>7 DEF BorneOutBy, Closing
  <2>8. CASE sent[i].kind = "cancel"
    BY <1>1, <2>4, <2>6, <2>8 DEF BorneOutBy, Closing
  <2> QED
    BY <2>5, <2>7, <2>8
<1> QED
  BY <1>2, <1>3 DEF Accepted

(* Every receipt goes on being borne out.                                  *)
LEMMA ReceiptsStaySound ==
    ASSUME LedgerInv, NEW i, NEW id, NEW plan, Accepted(i, id, plan), Persist(i, id, plan)
    PROVE  ReceiptsReplay'
<1>0. ReceiptWritten(i, id, plan)
  BY ReceiptsAfter
<1>1. CatalogIsSound'
  BY DEF Persist, Written, CatalogIsSound, LedgerInv, TypeOK
<1>2. RowsAgree'
  BY PlansAfter
<1>3. ReceiptsBorneOut
  BY BelievedIsBorneOut DEF LedgerInv
<1>4. ASSUME NEW k \in DOMAIN receipts'
      PROVE  receipts'[k].plan \in DOMAIN plans' /\ BorneOutBy(receipts'[k], plans'[receipts'[k].plan])
  <2>1. CASE k = sent[i].id
    <3>1. receipts'[k] = [command |-> sent[i], plan |-> id, revision |-> Len(plan.events),
                          removed |-> LastEvent(plan).removed]
      BY <1>0, <2>1 DEF ReceiptWritten
    <3>2. id \in DOMAIN plans' /\ plans'[id] = plan
      BY PlansAfter DEF PlanWritten
    <3>3. BorneOutBy(receipts'[k], plan)
      BY <3>1, NewReceiptBorneOut
    <3> QED
      BY <3>1, <3>2, <3>3
  <2>2. CASE k # sent[i].id
    <3>1. k \in DOMAIN receipts /\ receipts'[k] = receipts[k]
      BY <1>0, <2>2 DEF ReceiptWritten
    <3> DEFINE r == receipts[k]
    <3>2. r.plan \in DOMAIN plans /\ BorneOutBy(r, plans[r.plan])
      BY <1>3, <3>1 DEF ReceiptsBorneOut
    <3> HIDE DEF r
    <3>3. r.revision \in 1 .. Len(plans[r.plan].events)
      BY <3>2 DEF BorneOutBy
    <3>4. /\ r.plan \in DOMAIN plans' /\ r.revision \in 1 .. Len(plans'[r.plan].events)
          /\ plans'[r.plan].events[r.revision] = plans[r.plan].events[r.revision]
      <4>1. PlanWritten(id, plan) /\ EventsAreKept
        BY PlansAfter
      <4> QED
        BY <3>2, <3>3, <4>1 DEF PlanWritten, EventsAreKept
    <3>5. BorneOutBy(r, plans'[r.plan])
      BY <3>2, <3>4 DEF BorneOutBy
    <3> QED
      BY <3>1, <3>4, <3>5 DEF r
  <2> QED
    BY <2>1, <2>2
<1>5. ReceiptsBorneOut'
  BY <1>4 DEF ReceiptsBorneOut
<1> QED
  BY <1>1, <1>2, <1>5, BelievedIsBorneOut, PTL

(* A transaction leaves each event with one receipt.                       *)
LEMMA EventsStayReceipted ==
    ASSUME LedgerInv, NEW i, NEW id, NEW plan, Accepted(i, id, plan), Persist(i, id, plan)
    PROVE  EventsHaveReceipts'
<1>1. /\ ReceiptWritten(i, id, plan) /\ EventIsNew(id, plan)
      /\ PlanWritten(id, plan) /\ LedgerGrows(id, plan) /\ EventsAreKept
      /\ RowsAgree /\ RowsAgree'
  BY ReceiptsAfter, PlansAfter DEF LedgerInv
<1>2. IsFiniteSet(DOMAIN receipts) /\ sent[i].id \notin DOMAIN receipts
  BY DEF LedgerInv, EventsHaveReceipts, Accepted
<1>3. IsFiniteSet(DOMAIN receipts') /\ catalogRevision' = Cardinality(DOMAIN receipts')
  <2>1. /\ IsFiniteSet(DOMAIN receipts \union {sent[i].id})
        /\ Cardinality(DOMAIN receipts \union {sent[i].id}) = Cardinality(DOMAIN receipts) + 1
    BY <1>2, FS_AddElement
  <2>2. catalogRevision' = catalogRevision + 1
    BY DEF Persist, Written
  <2> QED
    BY <1>1, <2>1, <2>2 DEF ReceiptWritten, LedgerInv, EventsHaveReceipts
<1>4. ASSUME NEW p \in DOMAIN plans', NEW r \in DOMAIN plans'[p].events
      PROVE  \E k \in DOMAIN receipts' :
                IsOf(receipts'[k], p, r) /\ \A j \in DOMAIN receipts' : IsOf(receipts'[j], p, r) => j = k
  <2>1. CASE p = id /\ r = Len(plan.events)
    <3>1. IsOf(receipts'[sent[i].id], p, r)
      BY <1>1, <2>1 DEF ReceiptWritten, IsOf, Persist, Written
    <3>2. \A j \in DOMAIN receipts : ~ IsOf(receipts'[j], p, r)
      BY <1>1, <2>1 DEF ReceiptWritten, IsOf, EventIsNew
    <3> QED
      BY <1>1, <3>1, <3>2 DEF ReceiptWritten
  <2>2. CASE ~ (p = id /\ r = Len(plan.events))
    <3>1. p \in DOMAIN plans /\ r \in DOMAIN plans[p].events
      <4>1. CASE p # id
        BY <1>1, <4>1 DEF PlanWritten
      <4>2. CASE p = id
        <5>1. plans'[p] = plan /\ r \in 1 .. Len(plan.events) /\ r # Len(plan.events)
          BY <1>1, <2>2, <4>2, PlanReads DEF PlanWritten, Accepted
        <5>2. p \in DOMAIN plans /\ r \in 1 .. Len(plans[p].events)
          BY <1>1, <4>2, <5>1 DEF LedgerGrows
        <5>3. plans[p].events \in Seq(Event)
          BY <1>1, <5>2, PlanReads DEF RowsAgree
        <5> QED
          BY <5>2, <5>3
      <4> QED
        BY <4>1, <4>2
    <3>2. PICK k \in DOMAIN receipts :
             IsOf(receipts[k], p, r) /\ \A j \in DOMAIN receipts : IsOf(receipts[j], p, r) => j = k
      BY <3>1 DEF LedgerInv, EventsHaveReceipts
    <3>3. \A j \in DOMAIN receipts : IsOf(receipts'[j], p, r) <=> IsOf(receipts[j], p, r)
      BY <1>1 DEF ReceiptWritten, IsOf
    <3>4. ~ IsOf(receipts'[sent[i].id], p, r)
      BY <1>1, <2>2 DEF ReceiptWritten, IsOf, Persist, Written
    <3>5. DOMAIN receipts' = DOMAIN receipts \union {sent[i].id}
      BY <1>1 DEF ReceiptWritten
    <3> QED
      BY <3>2, <3>3, <3>4, <3>5
  <2> QED
    BY <2>1, <2>2
<1> QED
  BY <1>3, <1>4 DEF EventsHaveReceipts, IsOf

(* What was done stays done, and what is done now was not done before.     *)
LEMMA DoneStaysDone ==
    ASSUME LedgerInv, NEW i, NEW id, NEW plan, Accepted(i, id, plan), Persist(i, id, plan)
    PROVE  ExecutedOnce' /\ ExecutedAreDone' /\ ReceiptsNameTheirPlan'
<1>1. ReceiptWritten(i, id, plan) /\ PlanWritten(id, plan)
  BY ReceiptsAfter, PlansAfter
<1>2. /\ executed' = Append(executed, i) /\ executed \in Seq(Nat)
      /\ Len(executed) \in Nat /\ DOMAIN executed = 1 .. Len(executed)
      /\ DOMAIN executed' = 1 .. (Len(executed) + 1)
      /\ \A n \in 1 .. Len(executed) : executed'[n] = executed[n]
      /\ executed'[Len(executed) + 1] = i
  BY DEF Persist, Written, LedgerInv, ListsOK
<1>3. sent' = sent /\ maps' = maps /\ account' = account
  BY DEF Persist, Written
<1>4. i \in DOMAIN sent /\ sent[i].id \notin DOMAIN receipts /\ ~ Lost(sent[i])
  BY DEF Accepted
<1>5. \A n \in DOMAIN executed : executed[n] # i
  BY <1>4 DEF LedgerInv, ExecutedAreDone, HasReceipt
<1>6. ExecutedOnce'
  BY <1>2, <1>5 DEF LedgerInv, ExecutedOnce
<1>7. ReceiptsNameTheirPlan'
  <2>1. sent[i].kind # "create" => id = sent[i].plan
    BY DEF Accepted, Creates, Continues
  <2> QED
    BY <1>1, <2>1 DEF ReceiptWritten, LedgerInv, ReceiptsNameTheirPlan
<1>8. ASSUME NEW n \in DOMAIN executed'
      PROVE  (HasReceipt(sent[executed[n]]) \/ Lost(sent[executed[n]]))'
  <2>1. CASE n = Len(executed) + 1
    <3>1. executed'[n] = i /\ sent'[executed'[n]] = sent[i]
      BY <1>2, <1>3, <2>1
    <3> QED
      BY <1>1, <3>1 DEF HasReceipt, ReceiptWritten
  <2>2. CASE n # Len(executed) + 1
    <3> DEFINE c == sent[executed[n]]
    <3>1. n \in DOMAIN executed /\ executed'[n] = executed[n]
      BY <1>2, <2>2
    <3>2. executed[n] \in DOMAIN sent /\ sent'[executed'[n]] = c
      BY <1>3, <3>1 DEF LedgerInv, TypeOK
    <3> HIDE DEF c
    <3>3. CASE HasReceipt(c)
      <4>1. c.id \in DOMAIN receipts' /\ receipts'[c.id] = receipts[c.id]
        BY <1>1, <3>3 DEF HasReceipt, ReceiptWritten
      <4> QED
        BY <3>2, <3>3, <4>1 DEF HasReceipt
    <3>4. CASE Lost(c)
      <4>1. CASE c.kind = "create"
        BY <1>3, <3>2, <3>4, <4>1 DEF Lost, mapRevision
      <4>2. CASE c.kind # "create"
        <5>1. c.plan \notin DOMAIN plans /\ c.plan <= Len(executed)
          BY <3>4, <4>2 DEF Lost
        <5>2. c \in Composed
          BY <3>2 DEF LedgerInv, ListsOK, c
        <5>3. c.plan \in Nat
          BY <4>2, <5>2 DEF Composed
        <5>4. c.plan # id
          BY <1>2, <5>1, <5>3 DEF Accepted, Creates, Continues, NewPlanId
        <5>5. c.plan \notin DOMAIN plans'
          BY <1>1, <5>1, <5>4 DEF PlanWritten
        <5>6. Len(executed') = Len(executed) + 1
          BY <1>2
        <5>7. c.plan <= Len(executed')
          BY <1>2, <5>1, <5>3, <5>6
        <5> QED
          BY <3>2, <4>2, <5>5, <5>7 DEF Lost
      <4> QED
        BY <4>1, <4>2
    <3> QED
      BY <3>1, <3>3, <3>4 DEF LedgerInv, ExecutedAreDone, c
  <2> QED
    BY <2>1, <2>2
<1> QED
  BY <1>6, <1>7, <1>8 DEF ExecutedAreDone

(* A transaction preserves the invariant.                                  *)
LEMMA TransactionKeeps ==
    ASSUME LedgerInv, NEW i, NEW id, NEW plan, Accepted(i, id, plan), Persist(i, id, plan)
    PROVE  LedgerInv'
<1>1. /\ ReceiptWritten(i, id, plan) /\ PlanWritten(id, plan) /\ RowsAgree'
      /\ executed' = Append(executed, i) /\ UNCHANGED <<account, maps, sent>>
      /\ catalogRevision' = catalogRevision + 1
  BY ReceiptsAfter, PlansAfter DEF Persist, Written
<1>2. /\ executed \in Seq(Nat) /\ i \in Nat /\ i \in DOMAIN sent /\ sent \in Seq(Composed)
      /\ Len(executed') = Len(executed) + 1 /\ executed' \in Seq(Nat)
      /\ DOMAIN executed' = 1 .. (Len(executed) + 1)
      /\ \A n \in DOMAIN executed' : executed'[n] \in DOMAIN sent
  BY <1>1 DEF LedgerInv, ListsOK, TypeOK, Accepted
<1>3. ListsOK'
  BY <1>1, <1>2 DEF LedgerInv, ListsOK, mapRevision
<1>4. \A p \in DOMAIN plans' : p \in 1 .. Len(executed') /\ PlanTypeOK(plans'[p])
  <2>1. \A p \in DOMAIN plans : p \in 1 .. Len(executed) /\ PlanTypeOK(plans[p])
    BY DEF LedgerInv, TypeOK
  <2>2. id \in 1 .. Len(executed') /\ PlanTypeOK(plan)
    BY <1>2, <2>1 DEF Accepted, Creates, Continues, NewPlanId, PlanOK
  <2> QED
    BY <1>1, <1>2, <2>1, <2>2 DEF PlanWritten
<1>5. PartialMap(rows', DOMAIN plans', Row)
  <2>1. \A p \in DOMAIN plans' : PlanOK(plans'[p]) /\ rows'[p] = Aggregate(plans'[p])
    BY <1>1 DEF RowsAgree
  <2>2. \A p \in DOMAIN plans' : rows'[p] \in Row
    BY <2>1, PlanReads
  <2>3. rows' \in [DOMAIN rows' -> Row] /\ DOMAIN rows' = DOMAIN plans'
    <3>1. rows' = [p \in DOMAIN rows' |-> rows'[p]]
      BY DEF Persist, Written
    <3>2. DOMAIN rows' = DOMAIN plans'
      BY <1>1 DEF RowsAgree
    <3> QED
      BY <2>2, <3>1, <3>2
  <2> QED
    BY <2>3 DEF PartialMap
<1>6. \A k \in DOMAIN receipts' : /\ k \in CommandIds
                                  /\ receipts'[k].command \in {sent[j] : j \in DOMAIN sent}
  BY <1>1, <1>2 DEF ReceiptWritten, LedgerInv, TypeOK
<1>7. ReceiptsReplay'
  BY ReceiptsStaySound
<1>8. ReceiptsHaveKeys'
  BY <1>1, <1>7, BelievedHasKeys, PTL
<1>9. TypeOK'
  BY <1>1, <1>2, <1>4, <1>5, <1>6, <1>8 DEF LedgerInv, TypeOK, ReceiptsHaveKeys
<1> QED
  BY <1>1, <1>3, <1>7, <1>9, EventsStayReceipted, DoneStaysDone DEF LedgerInv

-----------------------------------------------------------------------------
(* The steps. *)

(* A command that is accepted has no receipt, is about the map or a plan   *)
(* that is there, and none of these comes back once it is gone.            *)
LEMMA AcceptedIsNew ==
    ASSUME LedgerInv, NEW i \in DOMAIN sent, NEW now \in Times, Outcome(sent[i], now) = "accepted"
    PROVE  /\ sent[i].id \notin DOMAIN receipts /\ ~ Lost(sent[i])
           /\ sent[i].kind = "create" => sent[i].request.targets \subseteq Catalog(composition)
           /\ sent[i].kind \in {"revalidate", "cancel"} =>
                 /\ sent[i].plan \in DOMAIN plans
                 /\ LastEvent(plans[sent[i].plan]).state \notin {"cancelled", "invalidated"}
<1> DEFINE c == sent[i]
<1>1. c.kind \in {"create", "revalidate", "cancel"} /\ c \in Composed
  BY SentReads DEF LedgerInv
<1> HIDE DEF c
<1>2. c.id \notin DOMAIN receipts
  BY DEF Outcome, c
<1>3. CASE c.kind = "create"
  <2>1. CreationOutcome(c, now) = "accepted"
    BY <1>2, <1>3 DEF Outcome, c
  <2>2. MapOutcome(c) = "accepted" /\ c.request.targets \subseteq Catalog(composition)
    BY <2>1 DEF CreationOutcome
  <2>3. account = "completed" /\ c.map = mapRevision
    BY <2>2 DEF MapOutcome, LedgerInv, TypeOK
  <2>4. mapRevision \in Nat
    BY MapReads DEF LedgerInv
  <2> QED
    BY <1>2, <1>3, <2>2, <2>3, <2>4 DEF Lost, c
<1>4. CASE c.kind \in {"revalidate", "cancel"}
  <2>1. PlanOutcome(c, now) = "accepted"
    BY <1>2, <1>4 DEF Outcome, RevalidationOutcome, CancellationOutcome, c
  <2>2. /\ c.plan \in DOMAIN plans
        /\ effective_plan_state(plans[c.plan], now) \notin {"cancelled", "invalidated"}
    BY <2>1 DEF PlanOutcome
  <2>3. LastEvent(plans[c.plan]).state \notin {"cancelled", "invalidated"}
    BY <2>2 DEF effective_plan_state
  <2> QED
    BY <1>2, <1>4, <2>2, <2>3 DEF Lost, c
<1> QED
  BY <1>1, <1>3, <1>4 DEF c

(* The three commands, as transactions.                                    *)
LEMMA CreateTransacts ==
    ASSUME LedgerInv, NEW i \in DOMAIN sent, NEW now \in Times, create_cleanup_plan(i, now)
    PROVE  LET plan == PreparedCreation(sent[i], now)
           IN  Accepted(i, NewPlanId, plan) /\ Persist(i, NewPlanId, plan)
<1> DEFINE plan == PreparedCreation(sent[i], now)
<1>1. /\ sent[i].kind = "create" /\ Outcome(sent[i], now) = "accepted"
      /\ Persist(i, NewPlanId, plan)
  BY DEF create_cleanup_plan
<1>2. /\ sent[i].id \notin DOMAIN receipts /\ ~ Lost(sent[i])
      /\ sent[i].request.targets \subseteq Catalog(composition)
  BY <1>1, AcceptedIsNew
<1>3. PlanOK(plan) /\ Len(plan.events) = 1 /\ LastEvent(plan).type = "created"
  BY <1>2, CreationPrepared DEF LedgerInv
<1> HIDE DEF plan
<1>4. Accepted(i, NewPlanId, plan)
  BY <1>1, <1>2, <1>3 DEF Accepted, Creates
<1> QED
  BY <1>1, <1>4 DEF plan

LEMMA RevalidateTransacts ==
    ASSUME LedgerInv, NEW i \in DOMAIN sent, NEW now \in Times, revalidate_cleanup_plan(i, now)
    PROVE  LET plan == PreparedRevalidation(plans[sent[i].plan], now)
           IN  Accepted(i, sent[i].plan, plan) /\ Persist(i, sent[i].plan, plan)
<1> DEFINE plan == PreparedRevalidation(plans[sent[i].plan], now)
<1>1. /\ sent[i].kind = "revalidate" /\ Outcome(sent[i], now) = "accepted"
      /\ Persist(i, sent[i].plan, plan)
  BY DEF revalidate_cleanup_plan
<1>2. /\ sent[i].id \notin DOMAIN receipts /\ ~ Lost(sent[i])
      /\ sent[i].plan \in DOMAIN plans
  BY <1>1, AcceptedIsNew
<1>3. PlanOK(plans[sent[i].plan])
  BY <1>2 DEF LedgerInv, RowsAgree
<1>4. /\ PlanOK(plan)
      /\ \E e \in Event : /\ plan.events = Append(plans[sent[i].plan].events, e)
                          /\ e.type \in {"revalidated", "reduced", "invalidated"}
  BY <1>3, RevalidationPrepared DEF LedgerInv
<1> HIDE DEF plan
<1>5. Accepted(i, sent[i].plan, plan)
  BY <1>1, <1>2, <1>4 DEF Accepted, Continues, Closing
<1> QED
  BY <1>1, <1>5 DEF plan

LEMMA CancelTransacts ==
    ASSUME LedgerInv, NEW i \in DOMAIN sent, NEW now \in Times, cancel_cleanup_plan(i, now)
    PROVE  LET plan == PreparedCancellation(plans[sent[i].plan], now)
           IN  Accepted(i, sent[i].plan, plan) /\ Persist(i, sent[i].plan, plan)
<1> DEFINE plan == PreparedCancellation(plans[sent[i].plan], now)
<1>1. /\ sent[i].kind = "cancel" /\ Outcome(sent[i], now) = "accepted"
      /\ Persist(i, sent[i].plan, plan)
  BY DEF cancel_cleanup_plan
<1>2. /\ sent[i].id \notin DOMAIN receipts /\ ~ Lost(sent[i])
      /\ sent[i].plan \in DOMAIN plans
  BY <1>1, AcceptedIsNew
<1>3. PlanOK(plans[sent[i].plan])
  BY <1>2 DEF LedgerInv, RowsAgree
<1>4. /\ PlanOK(plan)
      /\ \E e \in Event : /\ plan.events = Append(plans[sent[i].plan].events, e)
                          /\ e.type = "cancelled"
  BY <1>3, CancellationPrepared DEF LedgerInv
<1> HIDE DEF plan
<1>5. Accepted(i, sent[i].plan, plan)
  BY <1>1, <1>2, <1>4 DEF Accepted, Continues, Closing
<1> QED
  BY <1>1, <1>5 DEF plan

(* A step that leaves the tables alone leaves alone what is said of them.  *)
LEMMA TablesKeep ==
    ASSUME LedgerInv, UNCHANGED tableVars
    PROVE  RowsAgree' /\ ReceiptsReplay' /\ EventsHaveReceipts' /\ ReceiptsNameTheirPlan'
<1>1. plans' = plans /\ rows' = rows /\ receipts' = receipts /\ catalogRevision' = catalogRevision
  BY DEF tableVars
<1>2. RowsAgree'
  BY <1>1 DEF LedgerInv, RowsAgree
<1>3. ReceiptsBorneOut' /\ CatalogIsSound'
  BY <1>1, BelievedIsBorneOut DEF LedgerInv, ReceiptsBorneOut, CatalogIsSound
<1>4. ReceiptsReplay'
  BY <1>2, <1>3, BelievedIsBorneOut, PTL
<1>5. EventsHaveReceipts' /\ ReceiptsNameTheirPlan'
  BY <1>1 DEF LedgerInv, EventsHaveReceipts, ReceiptsNameTheirPlan
<1> QED
  BY <1>2, <1>4, <1>5

(* A client composes a command.                                            *)
LEMMA ComposeKeeps ==
    ASSUME LedgerInv, NEW c \in Composed, c.kind = "create" => c.map <= mapRevision, Compose(c)
    PROVE  LedgerInv'
<1>1. /\ sent' = Append(sent, c) /\ Len(sent) < MaxCommands
      /\ UNCHANGED <<account, maps, tableVars, executed>>
  BY DEF Compose
<1>2. RowsAgree' /\ ReceiptsReplay' /\ EventsHaveReceipts' /\ ReceiptsNameTheirPlan'
  BY <1>1, TablesKeep
<1>3. /\ sent \in Seq(Composed) /\ sent' \in Seq(Composed) /\ Len(sent) \in Nat
      /\ Len(sent') = Len(sent) + 1
      /\ DOMAIN sent = 1 .. Len(sent) /\ DOMAIN sent' = 1 .. (Len(sent) + 1)
      /\ \A j \in DOMAIN sent : j \in DOMAIN sent' /\ sent'[j] = sent[j]
      /\ sent'[Len(sent) + 1] = c
  BY <1>1 DEF LedgerInv, ListsOK
<1>4. ListsOK'
  <2>1. \A j \in DOMAIN sent' : sent'[j].kind = "create" => sent'[j].map <= mapRevision
    BY <1>3 DEF LedgerInv, ListsOK
  <2>2. Len(sent') <= MaxCommands
    BY <1>1, <1>3, LedgerAssumption
  <2> QED
    BY <1>1, <1>3, <2>1, <2>2 DEF LedgerInv, ListsOK, mapRevision
<1>5. TypeOK'
  <2>1. c.id \in CommandIds
    BY DEF Composed
  <2>2. \A j \in DOMAIN sent' : sent'[j].id \in CommandIds
    BY <1>3, <2>1 DEF LedgerInv, TypeOK
  <2>3. \A k \in DOMAIN receipts : receipts[k].command \in {sent'[j] : j \in DOMAIN sent'}
    BY <1>3 DEF LedgerInv, TypeOK
  <2>4. \A n \in DOMAIN executed : executed[n] \in DOMAIN sent'
    BY <1>3 DEF LedgerInv, TypeOK
  <2> QED
    BY <1>1, <2>2, <2>3, <2>4 DEF LedgerInv, TypeOK, tableVars
<1>6. ExecutedOnce' /\ ExecutedAreDone'
  <2>1. \A n \in DOMAIN executed : sent'[executed[n]] = sent[executed[n]]
    BY <1>3 DEF LedgerInv, TypeOK
  <2>2. ASSUME NEW n \in DOMAIN executed
        PROVE  (HasReceipt(sent[executed[n]]) \/ Lost(sent[executed[n]]))'
    BY <1>1, <2>1 DEF LedgerInv, ExecutedAreDone, HasReceipt, Lost, mapRevision, tableVars
  <2> QED
    BY <1>1, <2>2 DEF LedgerInv, ExecutedOnce, ExecutedAreDone
<1> QED
  BY <1>2, <1>4, <1>5, <1>6 DEF LedgerInv

(* The map moves to another one.                                           *)
LEMMA MapStepKeeps ==
    ASSUME LedgerInv, NEW comp \in Compositions, maps' = Append(maps, comp),
           account' = "completed", UNCHANGED <<tableVars, sent, executed>>
    PROVE  LedgerInv'
<1>1. RowsAgree' /\ ReceiptsReplay' /\ EventsHaveReceipts' /\ ReceiptsNameTheirPlan'
  BY TablesKeep
<1>2. /\ maps \in Seq(Compositions) /\ maps' \in Seq(Compositions) /\ maps' # <<>>
      /\ Len(maps) \in Nat /\ Len(maps') = Len(maps) + 1
      /\ DOMAIN maps' = 1 .. (Len(maps) + 1) /\ \A n \in DOMAIN maps' : maps'[n] \in Compositions
  BY DEF LedgerInv, ListsOK
<1>3. ASSUME NEW j \in DOMAIN sent, sent[j].kind = "create"
      PROVE  sent[j].map <= Len(maps) /\ sent[j].map \in Nat
  <2>1. sent[j] \in Composed
    BY DEF LedgerInv, ListsOK
  <2> QED
    BY <1>3, <2>1 DEF LedgerInv, ListsOK, mapRevision, Composed
<1>4. ListsOK'
  BY <1>2, <1>3 DEF LedgerInv, ListsOK, mapRevision
<1>5. TypeOK'
  BY <1>2, LedgerAssumption DEF LedgerInv, TypeOK, tableVars
<1>6. ASSUME NEW n \in DOMAIN executed
      PROVE  (HasReceipt(sent[executed[n]]) \/ Lost(sent[executed[n]]))'
  <2>1. executed[n] \in DOMAIN sent
    BY DEF LedgerInv, TypeOK
  <2>2. sent[executed[n]].kind = "create" => sent[executed[n]].map < Len(maps')
    BY <1>2, <1>3, <2>1
  <2>3. HasReceipt(sent[executed[n]]) \/ Lost(sent[executed[n]])
    BY DEF LedgerInv, ExecutedAreDone
  <2> QED
    BY <2>2, <2>3 DEF HasReceipt, Lost, mapRevision, tableVars
<1> QED
  BY <1>1, <1>4, <1>5, <1>6 DEF LedgerInv, ExecutedOnce, ExecutedAreDone

(* A scan begins.                                                          *)
LEMMA ScanBeginsKeeps == ASSUME LedgerInv, ScanBegins PROVE LedgerInv'
<1>1. account' = "scanning" /\ UNCHANGED <<maps, tableVars, sent, executed>>
  BY DEF ScanBegins
<1>2. RowsAgree' /\ ReceiptsReplay' /\ EventsHaveReceipts' /\ ReceiptsNameTheirPlan'
  BY <1>1, TablesKeep
<1>3. TypeOK' /\ ListsOK' /\ ExecutedOnce'
  BY <1>1 DEF LedgerInv, TypeOK, ListsOK, ExecutedOnce, mapRevision, tableVars
<1>4. ASSUME NEW n \in DOMAIN executed
      PROVE  (HasReceipt(sent[executed[n]]) \/ Lost(sent[executed[n]]))'
  <2>1. HasReceipt(sent[executed[n]]) \/ Lost(sent[executed[n]])
    BY DEF LedgerInv, ExecutedAreDone
  <2> QED
    BY <1>1, <2>1 DEF HasReceipt, Lost, tableVars
<1> QED
  BY <1>1, <1>2, <1>3, <1>4 DEF LedgerInv, ExecutedAreDone

(* The account is deleted, and its plans and receipts are lost.            *)
LEMMA DeletionKeeps == ASSUME LedgerInv, delete_account_index PROVE LedgerInv'
<1>1. /\ account' = "absent" /\ plans' = <<>> /\ rows' = <<>> /\ receipts' = <<>>
      /\ catalogRevision' = 0 /\ UNCHANGED <<maps, sent, executed>>
  BY DEF delete_account_index
<1>2. RowsAgree' /\ ReceiptsReplay' /\ ReceiptsNameTheirPlan'
  BY <1>1 DEF RowsAgree, ReceiptsReplay, CatalogIsSound, ReceiptsNameTheirPlan
<1>3. EventsHaveReceipts'
  <2>1. DOMAIN receipts' = {}
    BY <1>1
  <2> QED
    BY <1>1, <2>1, FS_EmptySet DEF EventsHaveReceipts
<1>4. TypeOK' /\ ListsOK' /\ ExecutedOnce'
  BY <1>1 DEF LedgerInv, TypeOK, ListsOK, ExecutedOnce, mapRevision, PartialMap
<1>5. ASSUME NEW n \in DOMAIN executed PROVE Lost(sent[executed[n]])'
  <2> DEFINE c == sent[executed[n]]
  <2>1. HasReceipt(c) \/ Lost(c)
    BY DEF LedgerInv, ExecutedAreDone
  <2>2. sent'[executed'[n]] = c
    BY <1>1
  <2> HIDE DEF c
  <2>3. ASSUME c.kind # "create" PROVE c.plan <= Len(executed)
    <3>1. ASSUME HasReceipt(c) PROVE c.plan <= Len(executed)
      <4>1. c.id \in DOMAIN receipts /\ receipts[c.id].command = c
        BY <3>1 DEF HasReceipt
      <4>2. receipts[c.id].plan = c.plan
        BY <2>3, <4>1 DEF LedgerInv, ReceiptsNameTheirPlan
      <4>3. c.plan \in DOMAIN plans
        BY <4>1, <4>2 DEF LedgerInv, ReceiptsReplay, ReceiptIsSound
      <4>4. c.plan \in 1 .. Len(executed)
        BY <4>3 DEF LedgerInv, TypeOK
      <4>5. Len(executed) \in Nat
        BY DEF LedgerInv, ListsOK
      <4> QED
        BY <4>4, <4>5
    <3> QED
      BY <2>1, <2>3, <3>1 DEF Lost
  <2> QED
    BY <1>1, <2>2, <2>3 DEF Lost
<1> QED
  BY <1>1, <1>2, <1>3, <1>4, <1>5 DEF LedgerInv, ExecutedAreDone

(* A client composes what it has read.                                     *)
LEMMA ClientKeeps == ASSUME LedgerInv, Client PROVE LedgerInv'
<1>1. mapRevision \in Nat
  BY MapReads DEF LedgerInv
<1>2. ASSUME NEW id \in CommandIds, NEW request \in Requests, ComposeCreate(id, request)
      PROVE  LedgerInv'
  <2> DEFINE c == [id |-> id, kind |-> "create", map |-> mapRevision, request |-> request]
  <2>1. c \in Composed /\ (c.kind = "create" => c.map <= mapRevision) /\ Compose(c)
    BY <1>1, <1>2 DEF ComposeCreate, Composed
  <2> HIDE DEF c
  <2> QED
    BY <2>1, ComposeKeeps
<1>3. ASSUME NEW p \in DOMAIN plans PROVE p \in Nat /\ rows[p].revision \in Nat
  <2>1. rows[p] = Aggregate(plans[p]) /\ PlanOK(plans[p])
    BY DEF LedgerInv, RowsAgree
  <2>2. rows[p].revision \in Nat
    BY <2>1, PlanReads
  <2> QED
    BY <2>2 DEF LedgerInv, TypeOK, ListsOK
<1>4. ASSUME NEW id \in CommandIds, NEW p \in DOMAIN plans, ComposeRevalidate(id, p)
      PROVE  LedgerInv'
  <2> DEFINE c == [id |-> id, kind |-> "revalidate", map |-> mapRevision, plan |-> p,
                   revision |-> rows[p].revision]
  <2>1. c \in Composed /\ c.kind # "create" /\ Compose(c)
    BY <1>1, <1>3, <1>4 DEF ComposeRevalidate, Composed
  <2> HIDE DEF c
  <2> QED
    BY <2>1, ComposeKeeps
<1>5. ASSUME NEW id \in CommandIds, NEW p \in DOMAIN plans, ComposeCancel(id, p)
      PROVE  LedgerInv'
  <2> DEFINE c == [id |-> id, kind |-> "cancel", plan |-> p, revision |-> rows[p].revision]
  <2>1. c \in Composed /\ c.kind # "create" /\ Compose(c)
    BY <1>3, <1>5 DEF ComposeCancel, Composed
  <2> HIDE DEF c
  <2> QED
    BY <2>1, ComposeKeeps
<1> QED
  BY <1>2, <1>4, <1>5 DEF Client

(* A step that changes nothing.                                            *)
LEMMA StutterKeeps == ASSUME LedgerInv, UNCHANGED vars PROVE LedgerInv'
<1>1. RowsAgree' /\ ReceiptsReplay' /\ EventsHaveReceipts' /\ ReceiptsNameTheirPlan'
  BY TablesKeep DEF vars
<1>2. /\ TypeOK' /\ ListsOK' /\ ExecutedOnce' /\ ExecutedAreDone'
  BY DEF vars, tableVars, LedgerInv, TypeOK, ListsOK, ExecutedOnce, ExecutedAreDone, HasReceipt,
         Lost, mapRevision
<1> QED
  BY <1>1, <1>2 DEF LedgerInv

-----------------------------------------------------------------------------
(* The invariant holds, and with it the properties it is made of.          *)
THEOREM LedgerCorrect == Spec => []LedgerInv
<1>1. Init => LedgerInv
  <2> SUFFICES ASSUME Init PROVE LedgerInv
    OBVIOUS
  <2>1. PICK comp \in Compositions : maps = <<comp>>
    BY DEF Init
  <2>2. /\ account = "completed" /\ plans = <<>> /\ rows = <<>> /\ receipts = <<>>
        /\ catalogRevision = 0 /\ sent = <<>> /\ executed = <<>>
    BY DEF Init
  <2>3. DOMAIN plans = {} /\ DOMAIN rows = {} /\ DOMAIN receipts = {} /\ DOMAIN sent = {}
        /\ DOMAIN executed = {}
    BY <2>2
  <2>4. IsComposition(comp) /\ DOMAIN maps = {1} /\ maps[1] = comp
    BY <2>1, LedgerAssumption
  <2>5. PartialMap(rows, DOMAIN plans, Row)
    BY <2>2, <2>3 DEF PartialMap
  <2>6. TypeOK
    BY <2>2, <2>3, <2>4, <2>5 DEF TypeOK
  <2>7. ListsOK
    BY <2>1, <2>2, <2>3, LedgerAssumption DEF ListsOK
  <2>8. EventsHaveReceipts
    BY <2>2, <2>3, FS_EmptySet DEF EventsHaveReceipts
  <2> QED
    BY <2>2, <2>3, <2>6, <2>7, <2>8
       DEF LedgerInv, RowsAgree, ReceiptsReplay, CatalogIsSound, ReceiptsNameTheirPlan,
           ExecutedOnce, ExecutedAreDone
<1>2. LedgerInv /\ [Next]_vars => LedgerInv'
  <2> SUFFICES ASSUME LedgerInv, [Next]_vars PROVE LedgerInv'
    OBVIOUS
  <2>1. CASE Client
    BY <2>1, ClientKeeps
  <2>2. CASE Index
    <3>1. ASSUME NEW comp \in Compositions, MapMoves(comp) \/ ScanEnds(comp) PROVE LedgerInv'
      <4>1. /\ maps' = Append(maps, comp) /\ account' = "completed"
            /\ UNCHANGED <<tableVars, sent, executed>>
        BY <3>1 DEF MapMoves, ScanEnds
      <4> QED
        BY <4>1, MapStepKeeps
    <3> QED
      BY <2>2, <3>1, ScanBeginsKeeps, DeletionKeeps DEF Index
  <2>3. ASSUME NEW i \in DOMAIN sent, NEW now \in Times, Command(i, now) PROVE LedgerInv'
    <3>1. CASE create_cleanup_plan(i, now)
      BY <3>1, CreateTransacts, TransactionKeeps
    <3>2. CASE revalidate_cleanup_plan(i, now)
      BY <3>2, RevalidateTransacts, TransactionKeeps
    <3>3. CASE cancel_cleanup_plan(i, now)
      BY <3>3, CancelTransacts, TransactionKeeps
    <3>4. CASE Answer(i, now)
      BY <3>4, StutterKeeps DEF Answer
    <3> QED
      BY <2>3, <3>1, <3>2, <3>3, <3>4 DEF Command
  <2>4. CASE UNCHANGED vars
    BY <2>4, StutterKeeps
  <2> QED
    BY <2>1, <2>2, <2>3, <2>4 DEF Next
<1> QED
  BY <1>1, <1>2, PTL DEF Spec

(* Every variable keeps its type.                                          *)
THEOREM TypeCorrect == Spec => []TypeOK
<1>1. LedgerInv => TypeOK
  BY DEF LedgerInv
<1> QED
  BY <1>1, LedgerCorrect, PTL

(* A command sent again is answered as it was answered (ReceiptsReplay).   *)
THEOREM ReplayCorrect == Spec => []ReceiptsReplay
<1>1. LedgerInv => ReceiptsReplay
  BY DEF LedgerInv
<1> QED
  BY <1>1, LedgerCorrect, PTL

(* No command is carried out twice, whatever was deleted in between.       *)
THEOREM ExecutionCorrect == Spec => []ExecutedOnce
<1>1. LedgerInv => ExecutedOnce
  BY DEF LedgerInv
<1> QED
  BY <1>1, LedgerCorrect, PTL

(* Each event was written by one command, and each command counts.         *)
THEOREM ReceiptsCorrect == Spec => []OneReceiptPerEvent
<1>1. LedgerInv => OneReceiptPerEvent
  <2> SUFFICES ASSUME LedgerInv PROVE OneReceiptPerEvent
    OBVIOUS
  <2>1. ASSUME NEW p \in DOMAIN plans, NEW r \in DOMAIN plans[p].events
        PROVE  Cardinality({id \in DOMAIN receipts :
                              receipts[id].plan = p /\ receipts[id].revision = r}) = 1
    <3>1. PICK k \in DOMAIN receipts :
             IsOf(receipts[k], p, r) /\ \A j \in DOMAIN receipts : IsOf(receipts[j], p, r) => j = k
      BY DEF LedgerInv, EventsHaveReceipts
    <3>2. {id \in DOMAIN receipts : receipts[id].plan = p /\ receipts[id].revision = r} = {k}
      BY <3>1 DEF IsOf
    <3> QED
      BY <3>2, FS_Singleton
  <2> QED
    BY <2>1 DEF OneReceiptPerEvent, LedgerInv, EventsHaveReceipts
<1> QED
  BY <1>1, LedgerCorrect, PTL

-----------------------------------------------------------------------------
(* The ledger keeps the promise of CleanupPlanPromise. *)
State == [p \in DOMAIN plans |-> LastEvent(plans[p]).state]
Held == [p \in DOMAIN plans |-> Eligible(plans[p])]

(* Commands are carried out once, so there are no more of them than these. *)
LEMMA OncePerCommand ==
    ASSUME LedgerInv, NEW T, IsFiniteSet(T), \A n \in DOMAIN executed : executed[n] \in T
    PROVE  Len(executed) <= Cardinality(T) /\ Len(executed) \in Nat
<1>1. Len(executed) \in Nat /\ DOMAIN executed = 1 .. Len(executed)
      /\ executed \in [1 .. Len(executed) -> T]
  BY DEF LedgerInv, ListsOK
<1>2. executed \in Injection(1 .. Len(executed), T)
  BY <1>1 DEF LedgerInv, ExecutedOnce, Injection, IsInjective
<1>3. Cardinality(1 .. Len(executed)) <= Cardinality(T)
  BY <1>2, FS_Injection
<1>4. Cardinality(1 .. Len(executed)) = Len(executed)
  <2>1. Cardinality(1 .. Len(executed)) = IF 1 > Len(executed) THEN 0 ELSE Len(executed) - 1 + 1
    BY <1>1, FS_Interval
  <2> QED
    BY <1>1, <2>1
<1> QED
  BY <1>1, <1>3, <1>4

(* Every plan has one of the identifiers of the promise, and so has a new one. *)
LEMMA PlanIdsSuffice ==
    ASSUME LedgerInv
    PROVE  /\ DOMAIN plans \subseteq 1 .. MaxCommands
           /\ \A i, id, plan : Accepted(i, id, plan) => id \in 1 .. MaxCommands
<1>1. /\ DOMAIN sent = 1 .. Len(sent) /\ Len(sent) \in Nat /\ Len(sent) <= MaxCommands
      /\ MaxCommands \in Nat
      /\ \A n \in DOMAIN executed : executed[n] \in DOMAIN sent
  BY LedgerAssumption DEF LedgerInv, ListsOK, TypeOK
<1>2. IsFiniteSet(DOMAIN sent) /\ Cardinality(DOMAIN sent) = Len(sent)
  <2> DEFINE n == Len(sent)
  <2>0. n \in Nat
    BY <1>1
  <2> HIDE DEF n
  <2>1. Cardinality(1 .. n) = IF 1 > n THEN 0 ELSE n - 1 + 1
    BY <2>0, FS_Interval
  <2>2. IsFiniteSet(1 .. n)
    BY <2>0, FS_Interval
  <2> QED
    BY <1>1, <2>0, <2>1, <2>2 DEF n
<1>3. Len(executed) <= Len(sent) /\ Len(executed) \in Nat
  BY <1>1, <1>2, OncePerCommand
<1>4. DOMAIN plans \subseteq 1 .. MaxCommands
  BY <1>1, <1>3 DEF LedgerInv, TypeOK
<1>5. ASSUME NEW i, NEW id, NEW plan, Accepted(i, id, plan) PROVE id \in 1 .. MaxCommands
  <2>1. CASE Continues(i, id, plan)
    BY <1>4, <2>1 DEF Continues
  <2>2. CASE Creates(i, id, plan)
    <3>1. i \in DOMAIN sent /\ \A n \in DOMAIN executed : executed[n] # i
      BY <1>5 DEF Accepted, LedgerInv, ExecutedAreDone, HasReceipt
    <3>2. IsFiniteSet(DOMAIN sent \ {i}) /\ Cardinality(DOMAIN sent \ {i}) = Len(sent) - 1
      BY <1>2, <3>1, FS_RemoveElement
    <3>3. \A n \in DOMAIN executed : executed[n] \in DOMAIN sent \ {i}
      BY <1>1, <3>1
    <3>4. Len(executed) <= Len(sent) - 1
      BY <3>2, <3>3, OncePerCommand
    <3>5. id = Len(executed) + 1
      BY <2>2 DEF Creates, NewPlanId
    <3> QED
      BY <1>1, <1>3, <3>4, <3>5
  <2> QED
    BY <1>5, <2>1, <2>2 DEF Accepted
<1> QED
  BY <1>4, <1>5

(* What a transaction does to the state and the messages of the plans.     *)
PromiseMoves(id, plan) ==
    /\ State' = [p \in DOMAIN State \union {id} |->
                   IF p = id THEN LastEvent(plan).state ELSE State[p]]
    /\ Held' = [p \in DOMAIN State \union {id} |-> IF p = id THEN Eligible(plan) ELSE Held[p]]

LEMMA PromiseReads ==
    ASSUME LedgerInv, NEW i, NEW id, NEW plan, Accepted(i, id, plan), Persist(i, id, plan)
    PROVE  PromiseMoves(id, plan)
<1>1. PlanWritten(id, plan)
  BY PlansAfter
<1>2. \A p \in DOMAIN plans' : plans'[p] = IF p = id THEN plan ELSE plans[p]
  BY <1>1 DEF PlanWritten
<1> QED
  BY <1>1, <1>2 DEF PromiseMoves, State, Held, PlanWritten, LastEvent, Eligible

(* A command closes an open plan, takes messages from it, or makes one.    *)
LEMMA CommandKeepsPromise ==
    ASSUME LedgerInv, NEW i \in DOMAIN sent, NEW now \in Times, Command(i, now)
    PROVE  Promise!Next \/ UNCHANGED <<State, Held>>
<1>1. CASE Answer(i, now)
  BY <1>1 DEF Answer, vars, tableVars, State, Held, LastEvent, Eligible
<1>2. CASE create_cleanup_plan(i, now)
  <2> DEFINE plan == PreparedCreation(sent[i], now)
  <2>1. Accepted(i, NewPlanId, plan) /\ Persist(i, NewPlanId, plan)
    BY <1>2, CreateTransacts
  <2>2. /\ plan.removals = <<>> /\ PlanOK(plan)
        /\ LastEvent(plan).state = IF Selected(plan.members) = {} THEN "invalidated" ELSE "frozen"
    <3>1. sent[i].request.targets \subseteq Catalog(composition)
      BY <1>2, AcceptedIsNew DEF create_cleanup_plan
    <3> QED
      BY <3>1, CreationPrepared DEF LedgerInv
  <2> HIDE DEF plan
  <2>3. Eligible(plan) = Selected(plan.members)
    BY <2>2 DEF Eligible
  <2>4. Eligible(plan) \in SUBSET Messages
    BY <2>2, HeldIsFinite DEF PlanOK
  <2>5. NewPlanId \in 1 .. MaxCommands /\ NewPlanId \notin DOMAIN plans
    BY <2>1, PlanIdsSuffice DEF LedgerInv, TypeOK, NewPlanId, ListsOK
  <2>6. Promise!Freeze(NewPlanId, Eligible(plan))
    <3>1. /\ State' = [p \in DOMAIN State \union {NewPlanId} |->
                         IF p = NewPlanId THEN LastEvent(plan).state ELSE State[p]]
          /\ Held' = [p \in DOMAIN State \union {NewPlanId} |->
                        IF p = NewPlanId THEN Eligible(plan) ELSE Held[p]]
      <4>1. PromiseMoves(NewPlanId, plan)
        BY <2>1, PromiseReads
      <4> QED
        BY <4>1 DEF PromiseMoves
    <3>2. DOMAIN State = DOMAIN plans
      BY DEF State
    <3>3. [p \in DOMAIN State \union {NewPlanId} |->
             IF p = NewPlanId THEN LastEvent(plan).state ELSE State[p]]
          = [p \in DOMAIN State \union {NewPlanId} |->
               IF p # NewPlanId THEN State[p]
               ELSE IF Eligible(plan) = {} THEN "invalidated" ELSE "frozen"]
      BY <2>2, <2>3
    <3> QED
      BY <2>5, <3>1, <3>2, <3>3 DEF Promise!Freeze, State, Held
  <2> QED
    BY <2>4, <2>5, <2>6 DEF Promise!Next
<1>3. CASE revalidate_cleanup_plan(i, now)
  <2> DEFINE id == sent[i].plan
             plan == PreparedRevalidation(plans[id], now)
  <2>1. Accepted(i, id, plan) /\ Persist(i, id, plan)
    BY <1>3, RevalidateTransacts
  <2>2. id \in DOMAIN plans /\ LastEvent(plans[id]).state \notin {"cancelled", "invalidated"}
    BY <1>3, AcceptedIsNew DEF revalidate_cleanup_plan
  <2>3. PlanOK(plans[id])
    BY <2>2 DEF LedgerInv, RowsAgree
  <2>4. PICK leaving \in SUBSET Eligible(plans[id]) :
           /\ Eligible(plan) = Eligible(plans[id]) \ leaving
           /\ LastEvent(plan).state =
                IF leaving = {} THEN LastEvent(plans[id]).state
                ELSE IF Eligible(plans[id]) \ leaving = {} THEN "invalidated" ELSE "reduced"
    BY <2>3, RevalidationPrepared DEF LedgerInv
  <2> HIDE DEF plan, id
  <2>5. DOMAIN State = DOMAIN plans /\ DOMAIN Held = DOMAIN plans
        /\ State[id] = LastEvent(plans[id]).state /\ Held[id] = Eligible(plans[id])
        /\ State = [p \in DOMAIN State |-> State[p]] /\ Held = [p \in DOMAIN State |-> Held[p]]
    BY <2>2 DEF State, Held
  <2>6. DOMAIN State \union {id} = DOMAIN State
    BY <2>2, <2>5
  <2>7. /\ State' = [p \in DOMAIN State |-> IF p = id THEN LastEvent(plan).state ELSE State[p]]
        /\ Held' = [p \in DOMAIN State |-> IF p = id THEN Eligible(plan) ELSE Held[p]]
    <3>1. PromiseMoves(id, plan)
      BY <2>1, PromiseReads
    <3> QED
      BY <2>6, <3>1 DEF PromiseMoves
  <2>8. State[id] \in {"frozen", "reduced"}
    <3>1. LastEvent(plans[id]).state \in PlanStates
      BY <2>3, PlanReads DEF Event
    <3> QED
      BY <2>2, <2>5, <3>1 DEF PlanStates
  <2>9. CASE leaving = {}
    BY <2>4, <2>5, <2>7, <2>9
  <2>10. CASE leaving # {}
    <3>1. /\ Eligible(plan) \subseteq Held[id] /\ Eligible(plan) # Held[id]
          /\ LastEvent(plan).state = IF Eligible(plan) = {} THEN "invalidated" ELSE "reduced"
      BY <2>4, <2>5, <2>10
    <3>2. State' = [State EXCEPT ![id] = IF Eligible(plan) = {} THEN "invalidated" ELSE "reduced"]
          /\ Held' = [Held EXCEPT ![id] = Eligible(plan)]
      BY <2>2, <2>5, <2>7, <3>1
    <3>3. Promise!Reduce(id, Eligible(plan))
      BY <2>2, <2>5, <2>8, <3>1, <3>2 DEF Promise!Reduce, Promise!Open, State, Held
    <3>4. Eligible(plan) \in SUBSET Messages
      BY <2>3, <2>5, <3>1, HeldIsFinite DEF PlanOK
    <3>5. id \in 1 .. MaxCommands
      BY <2>1, PlanIdsSuffice
    <3> QED
      BY <3>3, <3>4, <3>5 DEF Promise!Next
  <2> QED
    BY <2>9, <2>10
<1>4. CASE cancel_cleanup_plan(i, now)
  <2> DEFINE id == sent[i].plan
             plan == PreparedCancellation(plans[id], now)
  <2>1. Accepted(i, id, plan) /\ Persist(i, id, plan)
    BY <1>4, CancelTransacts
  <2>2. id \in DOMAIN plans /\ LastEvent(plans[id]).state \notin {"cancelled", "invalidated"}
    BY <1>4, AcceptedIsNew DEF cancel_cleanup_plan
  <2>3. PlanOK(plans[id])
    BY <2>2 DEF LedgerInv, RowsAgree
  <2>4. Eligible(plan) = Eligible(plans[id]) /\ LastEvent(plan).state = "cancelled"
    BY <2>3, CancellationPrepared
  <2> HIDE DEF plan, id
  <2>5. DOMAIN State = DOMAIN plans /\ DOMAIN Held = DOMAIN plans
        /\ State[id] = LastEvent(plans[id]).state /\ Held[id] = Eligible(plans[id])
        /\ State = [p \in DOMAIN State |-> State[p]] /\ Held = [p \in DOMAIN State |-> Held[p]]
    BY <2>2 DEF State, Held
  <2>6. DOMAIN State \union {id} = DOMAIN State
    BY <2>2, <2>5
  <2>7. /\ State' = [p \in DOMAIN State |-> IF p = id THEN LastEvent(plan).state ELSE State[p]]
        /\ Held' = [p \in DOMAIN State |-> IF p = id THEN Eligible(plan) ELSE Held[p]]
    <3>1. PromiseMoves(id, plan)
      BY <2>1, PromiseReads
    <3> QED
      BY <2>6, <3>1 DEF PromiseMoves
  <2>8. State[id] \in {"frozen", "reduced"}
    <3>1. LastEvent(plans[id]).state \in PlanStates
      BY <2>3, PlanReads DEF Event
    <3> QED
      BY <2>2, <2>5, <3>1 DEF PlanStates
  <2>9. State' = [State EXCEPT ![id] = "cancelled"] /\ Held' = Held
    BY <2>2, <2>4, <2>5, <2>7
  <2>10. Promise!Cancel(id)
    BY <2>2, <2>5, <2>8, <2>9 DEF Promise!Cancel, Promise!Open, State, Held
  <2>11. id \in 1 .. MaxCommands
    BY <2>1, PlanIdsSuffice
  <2> QED
    BY <2>10, <2>11 DEF Promise!Next
<1> QED
  BY <1>1, <1>2, <1>3, <1>4 DEF Command

(* The ledger implements the promise: a plan only loses messages, is closed *)
(* once, and disappears with its account only (PlanPromise).                *)
THEOREM PromiseCorrect == Spec => PlanPromise
<1>1. Init => Promise!Init
  <2> SUFFICES ASSUME Init PROVE Promise!Init
    OBVIOUS
  <2>1. plans = <<>> /\ DOMAIN plans = {}
    BY DEF Init
  <2> QED
    BY <2>1 DEF Promise!Init
<1>2. LedgerInv /\ [Next]_vars => [Promise!Next]_(Promise!promiseVars)
  <2> SUFFICES ASSUME LedgerInv, [Next]_vars PROVE Promise!Next \/ UNCHANGED <<State, Held>>
    BY DEF Promise!promiseVars, State, Held
  <2>1. CASE UNCHANGED plans
    BY <2>1 DEF State, Held, LastEvent, Eligible
  <2>2. CASE delete_account_index
    <3>1. plans' = <<>> /\ DOMAIN plans' = {}
      BY <2>2 DEF delete_account_index
    <3>2. Promise!DeleteAccount
      BY <3>1 DEF Promise!DeleteAccount
    <3> QED
      BY <3>2 DEF Promise!Next
  <2>3. CASE Client \/ (Index /\ ~ delete_account_index) \/ UNCHANGED vars
    <3>1. UNCHANGED plans
      BY <2>3 DEF Client, Index, ComposeCreate, ComposeRevalidate, ComposeCancel, Compose,
                  MapMoves, ScanEnds, ScanBegins, vars, tableVars
    <3> QED
      BY <2>1, <3>1
  <2>4. CASE \E i \in DOMAIN sent, now \in Times : Command(i, now)
    BY <2>4, CommandKeepsPromise
  <2> QED
    BY <2>2, <2>3, <2>4 DEF Next
<1> QED
  BY <1>1, <1>2, LedgerCorrect, PTL DEF Spec, PlanPromise, Promise!Spec

-----------------------------------------------------------------------------
(* What a plan holds is what a new plan would select. *)

(* The event of a plan that last looked at a map; what followed only       *)
(* cancelled.                                                              *)
LooksLast(events, r) ==
    /\ r \in DOMAIN events /\ events[r].type # "cancelled"
    /\ \A k \in DOMAIN events : k > r => events[k].type = "cancelled"

Fresh(plan, seen) ==
    \E r \in DOMAIN plan.events :
        /\ LooksLast(plan.events, r) /\ plan.events[r].map \in DOMAIN seen
        /\ Eligible(plan) \subseteq FreshSelection(seen[plan.events[r].map], plan.selection)

FreshPlans == \A p \in DOMAIN plans : Fresh(plans[p], maps)

(* A message for which a map gives no reason to leave would be selected.   *)
LEMMA NoReasonIsSelected ==
    ASSUME NEW comp, NEW sel, NEW m, RemovalReasons(comp, sel, m) = {}
    PROVE  m \in FreshSelection(comp, sel)
<1> DEFINE universe == Universe(comp, DOMAIN sel.targets)
           base == BaseReasons(comp, m, sel)
           changed == base \union {r \in {"scope_changed"} : m \notin universe}
                           \union {r \in {"protection_changed"} : comp[m].protection # {}}
<1>1. RemovalReasons(comp, sel, m)
        = IF ~ StructuralTargetsAreCurrent(comp, sel.targets) THEN {"scope_changed"}
          ELSE IF m \notin DOMAIN comp THEN {"missing_after_creation"}
          ELSE IF changed = {} /\ m \notin QuotaAllowed(comp, universe, sel) THEN {"keep_latest"}
          ELSE changed
  BY DEF RemovalReasons
<1> HIDE DEF changed
<1>2. changed = {} /\ m \in QuotaAllowed(comp, universe, sel)
  BY <1>1
<1>3. m \in universe /\ base = {}
  BY <1>2 DEF changed
<1> QED
  BY <1>2, <1>3 DEF FreshSelection, CreationReasons

(* A new plan holds what its selection selects.                            *)
LEMMA CreationIsFresh ==
    ASSUME TypeOK, ListsOK, NEW c, NEW now
    PROVE  Fresh(PreparedCreation(c, now), maps)
<1> DEFINE plan == PreparedCreation(c, now)
<1>1. /\ plan.removals = <<>> /\ Len(plan.events) = 1 /\ DOMAIN plan.events = {1}
      /\ plan.events[1].type = "created" /\ plan.events[1].map = mapRevision
      /\ plan.members = FrozenMembers(plan.selection)
  BY DEF PreparedCreation
<1>2. mapRevision \in DOMAIN maps /\ composition = maps[mapRevision]
  BY MapReads DEF composition
<1> HIDE DEF plan
<1>3. Eligible(plan) \subseteq FreshSelection(composition, plan.selection)
  BY <1>1 DEF Eligible, Selected, FrozenMembers, FreshSelection
<1>4. LooksLast(plan.events, 1)
  BY <1>1 DEF LooksLast
<1> QED
  BY <1>1, <1>2, <1>3, <1>4 DEF Fresh, plan

(* A plan that was compared with the map holds what it would select of it. *)
LEMMA RevalidationIsFresh ==
    ASSUME TypeOK, ListsOK, NEW plan, PlanOK(plan), NEW now
    PROVE  Fresh(PreparedRevalidation(plan, now), maps)
<1> DEFINE held == Eligible(plan)
           reasons == [m \in held |-> RemovalReasons(composition, plan.selection, m)]
           leaving == {m \in held : reasons[m] # {}}
           remaining == Cardinality(held) - Cardinality(leaving)
           type == IF leaving = {} THEN "revalidated"
                   ELSE IF remaining > 0 THEN "reduced" ELSE "invalidated"
           event == [type |-> type, at |-> now, map |-> mapRevision,
                     removed |-> Cardinality(leaving),
                     state |-> IF leaving = {} THEN LastEvent(plan).state ELSE type,
                     remaining |-> remaining]
           removals == [m \in DOMAIN plan.removals \union leaving |->
                          IF m \in leaving
                          THEN [revision |-> Len(plan.events) + 1, at |-> now, reasons |-> reasons[m]]
                          ELSE plan.removals[m]]
           new == PreparedRevalidation(plan, now)
<1>1. new = WithEvent(plan, event, removals)
  BY DEF PreparedRevalidation
<1>2. type # "cancelled" /\ event.type = type /\ event.map = mapRevision
  OBVIOUS
<1>3. mapRevision \in DOMAIN maps /\ composition = maps[mapRevision]
  BY MapReads DEF composition
<1>4. DOMAIN removals = DOMAIN plan.removals \union leaving
  OBVIOUS
<1>5. \A m \in held \ leaving : m \in FreshSelection(composition, plan.selection)
  BY NoReasonIsSelected
<1>6. plan.events \in Seq(Event)
  BY PlanReads
<1> HIDE DEF new, event, removals, leaving, type
<1>7. /\ new.events = Append(plan.events, event) /\ new.members = plan.members
      /\ new.removals = removals /\ new.selection = plan.selection
  BY <1>1 DEF WithEvent, PlanOK, PlanShape
<1>8. Eligible(new) = held \ leaving
  BY <1>4, <1>7 DEF Eligible
<1>9. /\ DOMAIN new.events = 1 .. (Len(plan.events) + 1)
      /\ new.events[Len(plan.events) + 1] = event
      /\ Len(plan.events) \in Nat
  BY <1>6, <1>7
<1>10. LooksLast(new.events, Len(plan.events) + 1)
  BY <1>2, <1>9 DEF LooksLast
<1> QED
  BY <1>2, <1>3, <1>5, <1>7, <1>8, <1>9, <1>10 DEF Fresh, new, held

(* A plan that is cancelled holds what it held.                            *)
LEMMA CancellationIsFresh ==
    ASSUME NEW plan, PlanOK(plan), NEW now, Fresh(plan, maps)
    PROVE  Fresh(PreparedCancellation(plan, now), maps)
<1> DEFINE event == [type |-> "cancelled", at |-> now, map |-> 0, removed |-> 0,
                     state |-> "cancelled", remaining |-> Cardinality(Eligible(plan))]
           new == PreparedCancellation(plan, now)
<1>1. new = WithEvent(plan, event, plan.removals) /\ event.type = "cancelled"
  BY DEF PreparedCancellation
<1> HIDE DEF new, event
<1>2. /\ new.events = Append(plan.events, event) /\ new.members = plan.members
      /\ new.removals = plan.removals /\ new.selection = plan.selection
  BY <1>1 DEF WithEvent, PlanOK, PlanShape
<1>3. Eligible(new) = Eligible(plan)
  BY <1>2 DEF Eligible
<1>4. /\ plan.events \in Seq(Event) /\ Len(plan.events) \in Nat
      /\ DOMAIN plan.events = 1 .. Len(plan.events)
      /\ DOMAIN new.events = 1 .. (Len(plan.events) + 1)
      /\ \A r \in DOMAIN plan.events : new.events[r] = plan.events[r]
      /\ new.events[Len(plan.events) + 1] = event
  BY <1>2, PlanReads
<1>5. PICK r \in DOMAIN plan.events :
         /\ LooksLast(plan.events, r) /\ plan.events[r].map \in DOMAIN maps
         /\ Eligible(plan) \subseteq FreshSelection(maps[plan.events[r].map], plan.selection)
  BY DEF Fresh
<1>6. LooksLast(new.events, r) /\ r \in DOMAIN new.events /\ new.events[r] = plan.events[r]
  BY <1>1, <1>4, <1>5 DEF LooksLast
<1> QED
  BY <1>2, <1>3, <1>5, <1>6 DEF Fresh, new

(* The maps that were seen stay as they were.                              *)
LEMMA FreshStaysFresh ==
    ASSUME NEW plan, NEW comp, Fresh(plan, maps), maps \in Seq(Compositions), comp \in Compositions
    PROVE  Fresh(plan, Append(maps, comp))
<1>1. \A n \in DOMAIN maps : n \in DOMAIN Append(maps, comp) /\ Append(maps, comp)[n] = maps[n]
  OBVIOUS
<1> QED
  BY <1>1 DEF Fresh

(* The last event that looked at a map is the one the property speaks of.  *)
LEMMA FreshIsEligible ==
    ASSUME LedgerInv, FreshPlans
    PROVE  EligibleIsFresh
<1> SUFFICES ASSUME NEW p \in DOMAIN plans
             PROVE  Eligible(plans[p]) \subseteq FreshSelection(LastLookedAt(plans[p]), plans[p].selection)
  BY DEF EligibleIsFresh
<1> DEFINE events == plans[p].events
           looked == {r \in DOMAIN events : events[r].type # "cancelled"}
           last == CHOOSE r \in looked : \A k \in looked : k <= r
<1>1. PICK r \in DOMAIN events :
         /\ LooksLast(events, r)
         /\ Eligible(plans[p]) \subseteq FreshSelection(maps[events[r].map], plans[p].selection)
  BY DEF FreshPlans, Fresh
<1>2. DOMAIN events \subseteq Nat
  BY PlanReads DEF LedgerInv, RowsAgree
<1> HIDE DEF events
<1>3. r \in looked /\ \A k \in looked : k <= r
  BY <1>1, <1>2 DEF LooksLast
<1>4. last \in looked /\ \A k \in looked : k <= last
  BY <1>3
<1>5. last = r
  <2>1. last <= r /\ r <= last /\ last \in Nat /\ r \in Nat
    BY <1>2, <1>3, <1>4
  <2> HIDE DEF last
  <2> QED
    BY <2>1
<1>6. LastLookedAt(plans[p]) = maps[events[last].map]
  BY DEF LastLookedAt, events
<1> QED
  BY <1>1, <1>5, <1>6

(* Every step keeps the plans fresh.                                       *)
LEMMA FreshStep == ASSUME LedgerInv, FreshPlans, [Next]_vars PROVE FreshPlans'
<1>1. ASSUME NEW i, NEW id, NEW plan, Accepted(i, id, plan), Persist(i, id, plan), Fresh(plan, maps)
      PROVE  FreshPlans'
  <2>1. PlanWritten(id, plan) /\ maps' = maps
    BY <1>1, PlansAfter DEF Persist, Written
  <2>2. \A p \in DOMAIN plans' : Fresh(plans'[p], maps)
    BY <1>1, <2>1 DEF PlanWritten, FreshPlans
  <2>3. \A p \in DOMAIN plans' : Fresh(plans'[p], maps')
    BY <2>1, <2>2
  <2> QED
    BY <2>3 DEF FreshPlans, Fresh, Eligible
<1>2. ASSUME UNCHANGED plans, \A p \in DOMAIN plans : Fresh(plans[p], maps') PROVE FreshPlans'
  <2>1. \A p \in DOMAIN plans' : Fresh(plans'[p], maps')
    BY <1>2
  <2> QED
    BY <2>1 DEF FreshPlans, Fresh, Eligible
<1>3. CASE Client \/ ScanBegins \/ UNCHANGED vars
  <2>1. UNCHANGED plans /\ maps' = maps
    BY <1>3 DEF Client, ComposeCreate, ComposeRevalidate, ComposeCancel, Compose, ScanBegins, vars,
                tableVars
  <2> QED
    BY <1>2, <2>1 DEF FreshPlans
<1>4. ASSUME NEW comp \in Compositions, MapMoves(comp) \/ ScanEnds(comp) PROVE FreshPlans'
  <2>1. UNCHANGED plans /\ maps' = Append(maps, comp) /\ maps \in Seq(Compositions)
    BY <1>4 DEF MapMoves, ScanEnds, tableVars, LedgerInv, ListsOK
  <2>2. \A p \in DOMAIN plans : Fresh(plans[p], Append(maps, comp))
    BY <2>1, FreshStaysFresh DEF FreshPlans
  <2> QED
    BY <1>2, <2>1, <2>2
<1>5. CASE delete_account_index
  BY <1>5 DEF delete_account_index, FreshPlans
<1>6. ASSUME NEW i \in DOMAIN sent, NEW now \in Times, Command(i, now) PROVE FreshPlans'
  <2>1. CASE create_cleanup_plan(i, now)
    <3>1. Fresh(PreparedCreation(sent[i], now), maps)
      BY CreationIsFresh DEF LedgerInv
    <3> QED
      BY <1>1, <2>1, <3>1, CreateTransacts
  <2>2. CASE revalidate_cleanup_plan(i, now)
    <3>1. PlanOK(plans[sent[i].plan])
      BY <2>2, AcceptedIsNew DEF revalidate_cleanup_plan, LedgerInv, RowsAgree
    <3>2. Fresh(PreparedRevalidation(plans[sent[i].plan], now), maps)
      BY <3>1, RevalidationIsFresh DEF LedgerInv
    <3> QED
      BY <1>1, <2>2, <3>2, RevalidateTransacts
  <2>3. CASE cancel_cleanup_plan(i, now)
    <3>1. PlanOK(plans[sent[i].plan]) /\ Fresh(plans[sent[i].plan], maps)
      BY <2>3, AcceptedIsNew DEF cancel_cleanup_plan, LedgerInv, RowsAgree, FreshPlans
    <3>2. Fresh(PreparedCancellation(plans[sent[i].plan], now), maps)
      BY <3>1, CancellationIsFresh
    <3> QED
      BY <1>1, <2>3, <3>2, CancelTransacts
  <2>4. CASE Answer(i, now)
    BY <1>3, <2>4 DEF Answer
  <2> QED
    BY <1>6, <2>1, <2>2, <2>3, <2>4 DEF Command
<1> QED
  BY <1>3, <1>4, <1>5, <1>6 DEF Next, Index

(* What a plan still holds, a new plan with its selection would have       *)
(* selected on the map it was last compared with (EligibleIsFresh).        *)
THEOREM FreshCorrect == Spec => []EligibleIsFresh
<1>1. Init => FreshPlans
  <2> SUFFICES ASSUME Init PROVE FreshPlans
    OBVIOUS
  <2>1. DOMAIN plans = {}
    BY DEF Init
  <2> QED
    BY <2>1 DEF FreshPlans
<1>2. LedgerInv /\ FreshPlans /\ [Next]_vars => FreshPlans'
  BY FreshStep
<1>3. LedgerInv /\ FreshPlans => EligibleIsFresh
  BY FreshIsEligible
<1> QED
  BY <1>1, <1>2, <1>3, LedgerCorrect, PTL DEF Spec
=============================================================================
