-------------------------- MODULE CleanupPlanLedger --------------------------
(***************************************************************************)
(* The ledger of cleanup plans of one account (repository.py 4905-5416 and *)
(* cleanup_plan_domain.py 762-1077). A client composes commands from what  *)
(* it has read and may send each one any number of times, in any order; a  *)
(* command is one transaction. Meanwhile scans, policies and the user      *)
(* change the map, and the clock may say anything.                         *)
(***************************************************************************)
EXTENDS CleanupRules, Sequences

CONSTANTS
    Compositions,  \* what the map may come to be
    Requests,      \* what a client may ask a plan for
    CommandIds,    \* the identifiers a client gives its commands
    Times,         \* what the clock may say
    MaxMaps,       \* bounds the changes of the map
    MaxCommands    \* bounds the commands that are composed

ASSUME LedgerAssumption ==
    /\ \A comp \in Compositions : IsComposition(comp)
    /\ Times \subseteq Int
    /\ MaxMaps \in Nat
    /\ MaxCommands \in Nat

(* A request names at least one target (CreateCleanupPlanCommand,           *)
(* cleanup_plan_model.py 577).                                              *)
ASSUME RequestsAssumption == \A request \in Requests : request.targets # {}

VARIABLES
    account,          \* "absent", "scanning", "completed": the account and its checkpoint
    maps,             \* every map so far; the revision of a map is its place
    plans,            \* the plans and their ledgers of events and removals, by plan_id
    rows,             \* the columns of cleanup_plans that repeat what the ledger says
    receipts,         \* cleanup_plan_requests, by command_id
    catalogRevision,  \* cleanup_plan_catalog_state
    sent,             \* the commands composed so far, which may still arrive
    executed          \* history: the commands that were carried out, in order

tableVars == <<plans, rows, receipts, catalogRevision>>
vars == <<account, maps, tableVars, sent, executed>>

-----------------------------------------------------------------------------
mapRevision == Len(maps)
composition == maps[mapRevision]

Validity == Day  \* CLEANUP_PLAN_VALIDITY_SECONDS
ExpiresAt(plan) == plan.createdAt + Validity

(* Selected when the plan was created and not removed since. *)
Selected(members) == {m \in DOMAIN members : members[m] = {}}
Eligible(plan) == Selected(plan.members) \ DOMAIN plan.removals

LastEvent(plan) == plan.events[Len(plan.events)]

effective_plan_state(plan, now) ==
    IF LastEvent(plan).state \notin {"cancelled", "invalidated"} /\ now >= ExpiresAt(plan)
    THEN "expired"
    ELSE LastEvent(plan).state

Aggregate(plan) ==
    [revision |-> Len(plan.events), state |-> LastEvent(plan).state,
     eligible |-> Cardinality(Eligible(plan))]

-----------------------------------------------------------------------------
(* The plan a request makes of the present map. *)
Selection(request, now) ==
    [targets |-> TargetSnapshots(composition, request.targets),
     period |-> ResolveTemporalFilter(request.period, now),
     readState |-> request.readState,
     excludedLabels |-> request.excludedLabels,
     keepLatest |-> request.keepLatest]

FrozenMembers(sel) ==
    LET universe == Universe(composition, DOMAIN sel.targets)
    IN  [m \in universe |-> CreationReasons(composition, universe, sel, m)]

PreparedCreation(c, now) ==
    LET sel == Selection(c.request, now)
        members == FrozenMembers(sel)
        count == Cardinality(Selected(members))
        created == [type |-> "created", at |-> now, map |-> mapRevision, removed |-> 0,
                    state |-> IF count = 0 THEN "invalidated" ELSE "frozen",
                    remaining |-> count]
    IN  [selection |-> sel, createdAt |-> now, members |-> members, removals |-> <<>>,
         events |-> <<created>>]

WithEvent(plan, event, removals) ==
    [plan EXCEPT !.events = Append(@, event), !.removals = removals]

(* The plan against the present map: members may only leave it. *)
PreparedRevalidation(plan, now) ==
    LET reasons == [m \in Eligible(plan) |-> RemovalReasons(composition, plan.selection, m)]
        leaving == {m \in Eligible(plan) : reasons[m] # {}}
        remaining == Cardinality(Eligible(plan)) - Cardinality(leaving)
        type == IF leaving = {} THEN "revalidated"
                ELSE IF remaining > 0 THEN "reduced" ELSE "invalidated"
        event == [type |-> type, at |-> now, map |-> mapRevision,
                  removed |-> Cardinality(leaving),
                  state |-> IF leaving = {} THEN LastEvent(plan).state ELSE type,
                  remaining |-> remaining]
    IN  WithEvent(plan, event,
            [m \in DOMAIN plan.removals \union leaving |->
               IF m \in leaving
               THEN [revision |-> Len(plan.events) + 1, at |-> now, reasons |-> reasons[m]]
               ELSE plan.removals[m]])

PreparedCancellation(plan, now) ==
    WithEvent(plan,
        [type |-> "cancelled", at |-> now, map |-> 0, removed |-> 0, state |-> "cancelled",
         remaining |-> Cardinality(Eligible(plan))],
        plan.removals)

-----------------------------------------------------------------------------
(***************************************************************************)
(* What a plan is checked for whenever it is built, to be written or after *)
(* it was read: CleanupPlanEvent, CleanupPlanMember, its removal and       *)
(* PersistedCleanupPlan. A plan that fails it can never be read again.     *)
(***************************************************************************)
EventIsValid(e) ==
    CASE e.type = "created" ->
            /\ e.removed = 0
            /\ e.state = IF e.remaining > 0 THEN "frozen" ELSE "invalidated"
      [] e.type = "revalidated" ->
            e.state \in {"frozen", "reduced"} /\ e.removed = 0 /\ e.remaining > 0
      [] e.type = "reduced" -> e.state = "reduced" /\ e.removed > 0 /\ e.remaining > 0
      [] e.type = "invalidated" -> e.state = "invalidated" /\ e.removed > 0 /\ e.remaining = 0
      [] e.type = "cancelled" -> e.state = "cancelled" /\ e.removed = 0 /\ e.remaining > 0

FollowsInLedger(earlier, later) ==
    /\ earlier.state \notin {"cancelled", "invalidated"}
    /\ later.at >= earlier.at
    /\ later.type # "created"
    /\ later.type = "revalidated" => later.state = earlier.state
    /\ later.remaining = earlier.remaining - later.removed

RemovalReasonsAreValid(reasons) ==
    /\ reasons # {}
    /\ "missing_after_creation" \in reasons => reasons = {"missing_after_creation"}
    /\ reasons \intersect Protections # {} <=> "protection_changed" \in reasons

EventsAreValid(plan) ==
    /\ plan.events[1].type = "created"
    /\ plan.events[1].at = plan.createdAt
    /\ \A r \in DOMAIN plan.events :
          /\ EventIsValid(plan.events[r])
          /\ plan.events[r].at \in plan.createdAt .. ExpiresAt(plan) - 1
          /\ r > 1 => FollowsInLedger(plan.events[r - 1], plan.events[r])

RemovalsAreValid(plan) ==
    /\ \A m \in DOMAIN plan.removals :
          LET removal == plan.removals[m]
          IN  /\ m \in Selected(plan.members)
              /\ removal.revision \in 2 .. Len(plan.events)
              /\ removal.at = plan.events[removal.revision].at
              /\ RemovalReasonsAreValid(removal.reasons)
    /\ \A r \in DOMAIN plan.events :
          plan.events[r].removed
             = Cardinality({m \in DOMAIN plan.removals : plan.removals[m].revision = r})

StateIsValid(plan) ==
    LET eligible == Cardinality(Eligible(plan))
    IN  /\ plan.events[1].remaining = Cardinality(Selected(plan.members))
        /\ LastEvent(plan).remaining = eligible
        /\ LastEvent(plan).state = "frozen" => DOMAIN plan.removals = {}
        /\ LastEvent(plan).state = "reduced" => DOMAIN plan.removals # {} /\ eligible > 0
        /\ LastEvent(plan).state = "invalidated" => eligible = 0

PersistedCleanupPlanIsValid(plan) ==
    /\ DOMAIN plan.members # {}
    /\ \A m \in DOMAIN plan.members :
          plan.members[m] \intersect
             {"missing_after_creation", "scope_changed", "protection_changed"} = {}
    /\ EventsAreValid(plan)
    /\ RemovalsAreValid(plan)
    /\ StateIsValid(plan)

(* _cleanup_plan_conn: what is read has to be valid, and agree with its row. *)
Loads(p) == PersistedCleanupPlanIsValid(plans[p]) /\ rows[p] = Aggregate(plans[p])

-----------------------------------------------------------------------------
(* Mistake: only the receipt of the last event is believed. *)
ReceiptIsSound_Latest(receipt) ==
    receipt.plan \in DOMAIN plans /\ receipt.revision = rows[receipt.plan].revision

(* _cleanup_plan_replay_conn: a receipt is believed only if the ledger bears it out. *)
ReceiptIsSound(receipt) ==
    /\ receipt.plan \in DOMAIN plans
    /\ receipt.revision \in 1 .. rows[receipt.plan].revision
    /\ LET event == plans[receipt.plan].events[receipt.revision]
       IN  CASE receipt.command.kind = "create" -> receipt.revision = 1 /\ event.type = "created"
             [] receipt.command.kind = "revalidate" ->
                   /\ event.type \in {"revalidated", "reduced", "invalidated"}
                   /\ receipt.removed = event.removed
             [] receipt.command.kind = "cancel" -> event.type = "cancelled"

CatalogIsSound == catalogRevision = 0 => DOMAIN plans = {}

(* Mistake: the command does not say which map it is about. *)
MapOutcome_AnyMap(c) ==
    CASE account = "absent" -> "account_unavailable"
      [] account = "scanning" -> "inventory_incomplete"
      [] account = "completed" -> "accepted"

MapOutcome(c) ==
    CASE account = "absent" -> "account_unavailable"
      [] account = "scanning" -> "inventory_incomplete"
      [] account = "completed" ->
            IF c.map # mapRevision THEN "map_revision_conflict" ELSE "accepted"

CreationOutcome(c, now) ==
    IF MapOutcome(c) # "accepted" THEN MapOutcome(c)
    ELSE IF ~ c.request.targets \subseteq Catalog(composition) THEN "target_not_found"
    ELSE IF ~ c.request.excludedLabels \subseteq LabelCatalog(composition)
         THEN "unsupported_target"
    ELSE IF ~ PersistedCleanupPlanIsValid(PreparedCreation(c, now)) THEN "invalid_request"
    ELSE "accepted"

(* The checks that a revalidation and a cancellation share. *)
PlanOutcome(c, now) ==
    IF c.plan \notin DOMAIN plans THEN "plan_not_found"
    ELSE IF ~ Loads(c.plan) THEN "study_unavailable"
    ELSE IF effective_plan_state(plans[c.plan], now) = "expired" THEN "plan_expired"
    ELSE IF effective_plan_state(plans[c.plan], now) \in {"cancelled", "invalidated"}
         THEN "invalid_transition"
    ELSE IF c.revision # Len(plans[c.plan].events) THEN "plan_revision_conflict"
    ELSE "accepted"

(* Preparing the plan with one event more raises when the result is not valid. *)
RevalidationOutcome(c, now) ==
    IF PlanOutcome(c, now) # "accepted" THEN PlanOutcome(c, now)
    ELSE IF MapOutcome(c) # "accepted" THEN MapOutcome(c)
    ELSE IF ~ PersistedCleanupPlanIsValid(PreparedRevalidation(plans[c.plan], now))
         THEN "study_unavailable"
    ELSE "accepted"

CancellationOutcome(c, now) ==
    IF PlanOutcome(c, now) # "accepted" THEN PlanOutcome(c, now)
    ELSE IF ~ PersistedCleanupPlanIsValid(PreparedCancellation(plans[c.plan], now))
         THEN "study_unavailable"
    ELSE "accepted"

(* What a command that arrives when the clock says now is answered. *)
Outcome(c, now) ==
    IF c.id \in DOMAIN receipts
    THEN IF receipts[c.id].command # c THEN "command_id_conflict"
         ELSE IF ReceiptIsSound(receipts[c.id]) /\ CatalogIsSound THEN "replayed"
         ELSE "study_unavailable"
    ELSE IF ~ CatalogIsSound THEN "study_unavailable"
    ELSE CASE c.kind = "create" -> CreationOutcome(c, now)
           [] c.kind = "revalidate" -> RevalidationOutcome(c, now)
           [] c.kind = "cancel" -> CancellationOutcome(c, now)

-----------------------------------------------------------------------------
(* What a transaction writes: the plan, its row and its receipt, the revision of the listing. *)
Written(i, id, plan, revision) ==
    /\ plans' = [p \in DOMAIN plans \union {id} |-> IF p = id THEN plan ELSE plans[p]]
    /\ rows' = [p \in DOMAIN rows \union {id} |-> IF p = id THEN Aggregate(plan) ELSE rows[p]]
    /\ receipts' =
          [k \in DOMAIN receipts \union {sent[i].id} |->
             IF k = sent[i].id
             THEN [command |-> sent[i], plan |-> id, revision |-> Len(plan.events),
                   removed |-> LastEvent(plan).removed]
             ELSE receipts[k]]
    /\ catalogRevision' = revision
    /\ executed' = Append(executed, i)
    /\ UNCHANGED <<account, maps, sent>>

(* Mistake: only the first command moves the revision of the listing. *)
Persist_NoAdvance(i, id, plan) ==
    Written(i, id, plan, IF catalogRevision = 0 THEN 1 ELSE catalogRevision)

(* Mistake: the removals are not written. *)
Persist_NoRemovals(i, id, plan) ==
    Written(i, id, [plan EXCEPT !.removals = <<>>], catalogRevision + 1)

(* Every command that is carried out moves the revision of the listing. *)
Persist(i, id, plan) == Written(i, id, plan, catalogRevision + 1)

(* The uuid of a new plan: a number that was not used before. *)
NewPlanId == Len(executed) + 1

create_cleanup_plan(i, now) ==
    /\ sent[i].kind = "create"
    /\ Outcome(sent[i], now) = "accepted"
    /\ Persist(i, NewPlanId, PreparedCreation(sent[i], now))

revalidate_cleanup_plan(i, now) ==
    /\ sent[i].kind = "revalidate"
    /\ Outcome(sent[i], now) = "accepted"
    /\ Persist(i, sent[i].plan, PreparedRevalidation(plans[sent[i].plan], now))

cancel_cleanup_plan(i, now) ==
    /\ sent[i].kind = "cancel"
    /\ Outcome(sent[i], now) = "accepted"
    /\ Persist(i, sent[i].plan, PreparedCancellation(plans[sent[i].plan], now))

(* A replay or a refusal only reads; so does a transaction that is rolled back. *)
Answer(i, now) ==
    /\ Outcome(sent[i], now) # "accepted"
    /\ UNCHANGED vars

Command(i, now) ==
    \/ create_cleanup_plan(i, now)
    \/ revalidate_cleanup_plan(i, now)
    \/ cancel_cleanup_plan(i, now)
    \/ Answer(i, now)

-----------------------------------------------------------------------------
(* A client composes a command from the revisions it has just read. *)
Compose(c) ==
    /\ Len(sent) < MaxCommands
    /\ c \notin {sent[i] : i \in DOMAIN sent}
    /\ sent' = Append(sent, c)
    /\ UNCHANGED <<account, maps, tableVars, executed>>

ComposeCreate(id, request) ==
    /\ account = "completed"
    /\ Compose([id |-> id, kind |-> "create", map |-> mapRevision, request |-> request])

ComposeRevalidate(id, p) ==
    /\ account = "completed"
    /\ Compose([id |-> id, kind |-> "revalidate", map |-> mapRevision, plan |-> p,
                revision |-> rows[p].revision])

ComposeCancel(id, p) ==
    Compose([id |-> id, kind |-> "cancel", plan |-> p, revision |-> rows[p].revision])

Client ==
    \E id \in CommandIds :
        \/ \E request \in Requests : ComposeCreate(id, request)
        \/ \E p \in DOMAIN plans : ComposeRevalidate(id, p) \/ ComposeCancel(id, p)

(* A policy is recorded or undone, or messages are taken out of the index. *)
MapMoves(comp) ==
    /\ account = "completed"
    /\ mapRevision < MaxMaps
    /\ maps' = Append(maps, comp)
    /\ UNCHANGED <<account, tableVars, sent, executed>>

ScanBegins ==
    /\ account # "scanning"
    /\ account' = "scanning"
    /\ UNCHANGED <<maps, tableVars, sent, executed>>

ScanEnds(comp) ==
    /\ account = "scanning"
    /\ mapRevision < MaxMaps
    /\ account' = "completed"
    /\ maps' = Append(maps, comp)
    /\ UNCHANGED <<tableVars, sent, executed>>

(* Mistake: no foreign key ties the receipts to their plan, and they stay. *)
delete_account_index_KeepsReceipts ==
    /\ account # "absent"
    /\ account' = "absent"
    /\ plans' = <<>>
    /\ rows' = <<>>
    /\ catalogRevision' = 0
    /\ UNCHANGED <<maps, receipts, sent, executed>>

(* Everything that hangs from the account goes with it. *)
delete_account_index ==
    /\ account # "absent"
    /\ account' = "absent"
    /\ plans' = <<>>
    /\ rows' = <<>>
    /\ receipts' = <<>>
    /\ catalogRevision' = 0
    /\ UNCHANGED <<maps, sent, executed>>

Index ==
    \/ \E comp \in Compositions : MapMoves(comp) \/ ScanEnds(comp)
    \/ ScanBegins
    \/ delete_account_index

Init ==
    /\ account = "completed"
    /\ \E comp \in Compositions : maps = <<comp>>
    /\ plans = <<>>
    /\ rows = <<>>
    /\ receipts = <<>>
    /\ catalogRevision = 0
    /\ sent = <<>>
    /\ executed = <<>>

Next ==
    \/ Client
    \/ Index
    \/ \E i \in DOMAIN sent, now \in Times : Command(i, now)

Spec == Init /\ [][Next]_vars

-----------------------------------------------------------------------------
PlanStates == {"frozen", "reduced", "invalidated", "cancelled"}
Event ==
    [type : {"created", "revalidated", "reduced", "invalidated", "cancelled"}, at : Times,
     map : Nat, removed : Nat, state : PlanStates, remaining : Nat]
Removal == [revision : Nat, at : Times, reasons : SUBSET Reasons]
Row == [revision : Nat, state : PlanStates, eligible : Nat]

PlanTypeOK(plan) ==
    /\ PartialMap(plan.selection.targets, Targets, SUBSET Senders)
    /\ plan.createdAt \in Times
    /\ PartialMap(plan.members, Messages, SUBSET Reasons)
    /\ PartialMap(plan.removals, Messages, Removal)
    /\ plan.events \in Seq(Event)

(***************************************************************************)
(* Every variable keeps its type; a row belongs to a plan, and a receipt   *)
(* to a plan and an event of it that are there, as the foreign keys of     *)
(* cleanup_plan_requests say (repository.py 1410-1415).                    *)
(***************************************************************************)
TypeOK ==
    /\ account \in {"absent", "scanning", "completed"}
    /\ \A n \in DOMAIN maps : IsComposition(maps[n])
    /\ \A p \in DOMAIN plans : p \in 1 .. Len(executed) /\ PlanTypeOK(plans[p])
    /\ PartialMap(rows, DOMAIN plans, Row)
    /\ \A id \in DOMAIN receipts :
          /\ id \in CommandIds
          /\ receipts[id].command \in {sent[i] : i \in DOMAIN sent}
          /\ receipts[id].plan \in DOMAIN plans
          /\ receipts[id].revision \in DOMAIN plans[receipts[id].plan].events
    /\ catalogRevision \in Nat
    /\ \A i \in DOMAIN sent : sent[i].id \in CommandIds
    /\ \A n \in DOMAIN executed : executed[n] \in DOMAIN sent

(***************************************************************************)
(* A command whose answer was lost can be sent again, at any later time,   *)
(* and is answered what it was answered: the ledger it refers to goes on   *)
(* bearing out its receipt.                                                *)
(***************************************************************************)
ReceiptsReplay ==
    CatalogIsSound /\ \A id \in DOMAIN receipts : ReceiptIsSound(receipts[id])

(***************************************************************************)
(* Receipts, events and the revision of the listing count the same thing:  *)
(* each event of each plan was written by exactly one command.             *)
(***************************************************************************)
OneReceiptPerEvent ==
    /\ catalogRevision = Cardinality(DOMAIN receipts)
    /\ \A p \in DOMAIN plans : \A r \in DOMAIN plans[p].events :
          Cardinality({id \in DOMAIN receipts :
                         receipts[id].plan = p /\ receipts[id].revision = r}) = 1

(***************************************************************************)
(* However often and however late a command arrives, it is carried out at  *)
(* most once: also when its account, and with it the receipt, was deleted  *)
(* and the mailbox indexed again in between.                               *)
(***************************************************************************)
ExecutedOnce ==
    \A m, n \in DOMAIN executed : executed[m] = executed[n] => m = n

(***************************************************************************)
(* What a plan still holds is part of what a new plan with its selection   *)
(* would have selected on the map it was last compared with: nothing that  *)
(* was protected, outside its filters or beyond its quota there.           *)
(***************************************************************************)
LastLookedAt(plan) ==
    LET looked == {r \in DOMAIN plan.events : plan.events[r].type # "cancelled"}
    IN  maps[plan.events[CHOOSE r \in looked : \A k \in looked : k <= r].map]

FreshSelection(comp, sel) ==
    LET universe == Universe(comp, DOMAIN sel.targets)
    IN  {m \in universe : CreationReasons(comp, universe, sel, m) = {}}

EligibleIsFresh ==
    \A p \in DOMAIN plans :
        Eligible(plans[p]) \subseteq FreshSelection(LastLookedAt(plans[p]), plans[p].selection)

(***************************************************************************)
(* A command is refused for a reason a client can understand: nothing that *)
(* the commands write, whatever maps they saw, makes a plan that its own   *)
(* loader refuses, or that cannot be taken one event further. The one      *)
(* exception is a clock that went back behind the last event of the plan:  *)
(* then the transaction raises and is rolled back.                         *)
(***************************************************************************)
UnavailableOnlyByTheClock ==
    \A i \in DOMAIN sent, now \in Times :
        Outcome(sent[i], now) \in {"study_unavailable", "invalid_request"} =>
            /\ sent[i].kind # "create"
            /\ now < LastEvent(plans[sent[i].plan]).at

(* The ledger keeps the promise of a cleanup plan. *)
Promise == INSTANCE CleanupPlanPromise WITH
    PlanIds <- 1 .. MaxCommands,
    state <- [p \in DOMAIN plans |-> LastEvent(plans[p]).state],
    eligible <- [p \in DOMAIN plans |-> Eligible(plans[p])]

PlanPromise == Promise!Spec

(***************************************************************************)
(* What the client says of a message with reason keep_latest: kept, as one *)
(* of the latest of its flow (frontend/src/study/presenters.ts 73).        *)
(***************************************************************************)
KeptAreTheLatest ==
    \A p \in DOMAIN plans : \A m \in DOMAIN plans[p].members :
        plans[p].members[m] = {"keep_latest"} =>
            LET comp == maps[plans[p].events[1].map]
                sel == plans[p].selection
            IN  LatestInFlow(comp, Candidates(comp, Universe(comp, DOMAIN sel.targets), sel), m,
                             sel.keepLatest)

=============================================================================
