----------------------------- MODULE CleanupRules -----------------------------
(***************************************************************************)
(* What a cleanup plan selects: the pure functions of                      *)
(* cleanup_plan_domain.py over one composition of the map. A composition   *)
(* says, for each message in the index, what the classification and the    *)
(* policies in force make of it.                                           *)
(***************************************************************************)
EXTENDS Integers, FiniteSets

CONSTANTS
    Messages,     \* provider_message_ids, numbered in their order
    Senders,      \* sender addresses
    Sources,      \* effective sources
    Flows,        \* effective flows
    Labels,       \* the system labels a plan may exclude
    Protections,  \* the reasons for which the policies keep a message out of any plan
    NoAddress,    \* what stands for the address of a message without one
    Sender,       \* the address of each message
    ReceivedAt,   \* when each message was received
    FlowSource,   \* the source of each flow
    Day           \* how long a day is

ASSUME RulesAssumption ==
    /\ Messages \subseteq Nat
    /\ IsFiniteSet(Messages)
    /\ NoAddress \notin Senders
    /\ Sender \in [Messages -> Senders \union {NoAddress}]
    /\ ReceivedAt \in [Messages -> Int]
    /\ FlowSource \in [Flows -> Sources]
    /\ Day \in Nat \ {0}

(* The reasons the plan itself finds, which no protection bears the name of *)
(* (CleanupExclusionReason, cleanup_plan_model.py 158).                     *)
PlanReasons ==
    {"outside_date", "read_state_mismatch", "excluded_label", "keep_latest",
     "missing_after_creation", "scope_changed", "protection_changed"}

ASSUME ReasonsAssumption == Protections \intersect PlanReasons = {}

Photo == [flow : Flows, unread : BOOLEAN, labels : SUBSET Labels, protection : SUBSET Protections]

(* A map holds a photo of some of the messages. *)
PartialMap(f, domain, range) == DOMAIN f \subseteq domain /\ f \in [DOMAIN f -> range]
IsComposition(comp) == PartialMap(comp, Messages, Photo)

Reasons == Protections \union PlanReasons

-----------------------------------------------------------------------------

(* The targets a plan may name, and the messages each one takes. *)
Targets ==
    [kind : {"source"}, id : Sources] \union [kind : {"flow"}, id : Flows]
        \union [kind : {"sender"}, id : Senders]

TargetedBy(comp, target, m) ==
    CASE target.kind = "source" -> FlowSource[comp[m].flow] = target.id
      [] target.kind = "flow" -> comp[m].flow = target.id
      [] target.kind = "sender" -> Sender[m] = target.id

InTarget(comp, target) == {m \in DOMAIN comp : TargetedBy(comp, target, m)}

(* A target is offered while the index holds a message of it. *)
Catalog(comp) == {target \in Targets : InTarget(comp, target) # {}}
LabelCatalog(comp) == UNION {comp[m].labels : m \in DOMAIN comp}

(* What identifies a source, and each flow of it: the addresses it is known by. *)
SourceAddresses(comp, source) ==
    {Sender[m] : m \in {n \in DOMAIN comp : FlowSource[comp[n].flow] = source}} \ {NoAddress}

SelectorFingerprint(comp, target) ==
    CASE target.kind = "source" -> SourceAddresses(comp, target.id)
      [] target.kind = "flow" -> SourceAddresses(comp, FlowSource[target.id])
      [] target.kind = "sender" -> {}

TargetSnapshots(comp, targets) == [target \in targets |-> SelectorFingerprint(comp, target)]

(* An address may have no message left; a source or a flow has to be the one it was. *)
StructuralTargetsAreCurrent(comp, snapshots) ==
    \A target \in DOMAIN snapshots :
        target.kind # "sender" =>
            /\ target \in Catalog(comp)
            /\ SelectorFingerprint(comp, target) = snapshots[target]

Universe(comp, targets) == UNION {InTarget(comp, target) : target \in targets}

-----------------------------------------------------------------------------

(***************************************************************************)
(* A request asks for a period: everything, what was received before a     *)
(* date, between two dates, or at least so many days ago. The dates are    *)
(* midnights of the mailbox's time zone, fixed when the plan is created.   *)
(***************************************************************************)
Midnight(day) == day * Day

ResolveTemporalFilter(requested, now) ==
    CASE requested.kind = "all" -> [from |-> {}, before |-> {}]
      [] requested.kind = "before_date" -> [from |-> {}, before |-> {Midnight(requested.before)}]
      [] requested.kind = "date_range" ->
            [from |-> {Midnight(requested.from)}, before |-> {Midnight(requested.before)}]
      [] requested.kind = "older_than_days" ->
            [from |-> {}, before |-> {Midnight((now \div Day) - requested.days)}]

InPeriod(m, period) ==
    /\ \A lower \in period.from : ReceivedAt[m] >= lower
    /\ \A upper \in period.before : ReceivedAt[m] < upper

(* What keeps a message of the universe out, before the quota is looked at. *)
BaseReasons(comp, m, sel) ==
    comp[m].protection
        \union {r \in {"outside_date"} : ~ InPeriod(m, sel.period)}
        \union {r \in {"read_state_mismatch"} :
                  sel.readState # "any" /\ (sel.readState = "unread") # comp[m].unread}
        \union {r \in {"excluded_label"} : comp[m].labels \intersect sel.excludedLabels # {}}

Candidates(comp, universe, sel) == {m \in universe : BaseReasons(comp, m, sel) = {}}

(* The order of a flow's candidates: received_at DESC, provider_message_id ASC. *)
ComesBefore(m, n) ==
    \/ ReceivedAt[m] > ReceivedAt[n]
    \/ ReceivedAt[m] = ReceivedAt[n] /\ m < n

LatestInFlow(comp, candidates, m, n) ==
    Cardinality({k \in candidates : comp[k].flow = comp[m].flow /\ ComesBefore(k, m)}) < n

QuotaAllowed(comp, universe, sel) ==
    LET candidates == Candidates(comp, universe, sel)
    IN  {m \in candidates :
           sel.keepLatest = 0 \/ LatestInFlow(comp, candidates, m, sel.keepLatest)}

(* The reasons that are empty for what a new plan selects. *)
CreationReasons(comp, universe, sel, m) ==
    IF BaseReasons(comp, m, sel) = {} /\ m \notin QuotaAllowed(comp, universe, sel)
    THEN {"keep_latest"}
    ELSE BaseReasons(comp, m, sel)

(* Mistake: a later composition is not asked about the quota. *)
RemovalReasons_NoQuota(comp, sel, m) ==
    IF ~ StructuralTargetsAreCurrent(comp, sel.targets) THEN {"scope_changed"}
    ELSE IF m \notin DOMAIN comp THEN {"missing_after_creation"}
    ELSE BaseReasons(comp, m, sel)
           \union {r \in {"scope_changed"} : m \notin Universe(comp, DOMAIN sel.targets)}
           \union {r \in {"protection_changed"} : comp[m].protection # {}}

(* Mistake: a protection does not count as a change of protection. *)
RemovalReasons_NoChange(comp, sel, m) ==
    IF ~ StructuralTargetsAreCurrent(comp, sel.targets) THEN {"scope_changed"}
    ELSE IF m \notin DOMAIN comp THEN {"missing_after_creation"}
    ELSE BaseReasons(comp, m, sel)

(* The reasons for which a later composition takes a message out of a plan. *)
RemovalReasons(comp, sel, m) ==
    LET universe == Universe(comp, DOMAIN sel.targets)
        base == BaseReasons(comp, m, sel)
        changed ==
            base \union {r \in {"scope_changed"} : m \notin universe}
                 \union {r \in {"protection_changed"} : comp[m].protection # {}}
    IN  IF ~ StructuralTargetsAreCurrent(comp, sel.targets) THEN {"scope_changed"}
        ELSE IF m \notin DOMAIN comp THEN {"missing_after_creation"}
        ELSE IF changed = {} /\ m \notin QuotaAllowed(comp, universe, sel) THEN {"keep_latest"}
        ELSE changed

=============================================================================
