----------------------------- MODULE PolicyMemory -----------------------------
(***************************************************************************)
(* The memory of local policies of one account: an append-only log of      *)
(* decisions and undos (repository.py 1829-3760), written over two paths.  *)
(* Through the map API (map_api.py 1352-1455) a decision is prepared on    *)
(* the map a client saw and one transaction checks that nothing of it has  *)
(* moved, writes the event and a receipt; the direct path of the           *)
(* repository checks the revision of the log only and writes no receipt.   *)
(* A client may send a command any number of times, late or never; scans   *)
(* classify the messages anew, and the account may be deleted, meanwhile.  *)
(* That only synthetic accounts may be written to (map_api.py) is no part  *)
(* of the protocol and is left out.                                        *)
(***************************************************************************)
EXTENDS PolicyRules, Sequences

CONSTANTS
    Maps,         \* what the index and its classification may come to be
    CommandIds,   \* the identifiers clients give their commands
    DecisionIds,  \* the identifiers clients give the decisions they make
    Names,        \* the pairs of them that clients use
    Paths,        \* the paths in use: a subset of {"map", "local"}
    Kinds,        \* the kinds of decision clients make
    Protectable,  \* what they protect: of "source", "flow", "message", "sender"
    MaxCommands,  \* bounds the commands that are composed
    MaxPending    \* bounds those of them that were not carried out

ASSUME MemoryAssumption ==
    /\ \A map \in Maps : IsMap(map)
    /\ Paths \subseteq {"map", "local"}
    /\ Kinds \subseteq CorrectionFields \union {"merge", "partition", "protect"}
    /\ Protectable \subseteq {"source", "flow", "message", "sender"}
    /\ MaxCommands \in Nat
    /\ MaxPending \in Nat
    /\ Names \subseteq CommandIds \X DecisionIds

VARIABLES
    account,   \* whether the account is in the index
    map,       \* its messages, as they are classified
    log,       \* local_policy_events with their anchors and relations
    inForce,   \* what the replay of the log gives: the decisions in force
    receipts,  \* map_policy_requests, by command_id
    sent       \* the commands composed so far, which may still arrive

vars == <<account, map, log, inForce, receipts, sent>>

-----------------------------------------------------------------------------
(***************************************************************************)
(* The log. An event is a command and, for a decision, its anchors; its    *)
(* revision is its place. A decision names those it supersedes, an undo    *)
(* the decision it takes back.                                             *)
(***************************************************************************)
IsDecision(command) == command.body.kind # "undo"
Undo(decision) == [kind |-> "undo", decision |-> decision]

EventsOf(events) == {events[i] : i \in DOMAIN events}
Decisions(events) == {e \in EventsOf(events) : IsDecision(e.command)}
Recorded(events) == {e.command.decision : e \in Decisions(events)}
Undone(events) == {e.command.decision : e \in EventsOf(events) \ Decisions(events)}

DecisionEvent(events, d) == CHOOSE e \in Decisions(events) : e.command.decision = d
Supersedes(events, d) == DecisionEvent(events, d).command.supersedes

AfterEvent_NoRevival(active, events, event) ==
    LET c == event.command
    IN  IF IsDecision(c) THEN (active \ c.supersedes) \union {c.decision}
        ELSE active \ {c.decision}

(* The body of the loop that replays the log: the decisions in force after  *)
(* one more event. Taking a decision back puts in force again those it      *)
(* superseded, unless they were undone or another one supersedes them.      *)
AfterEvent(active, events, event) ==
    LET c == event.command
        rest == active \ {c.decision}
    IN  IF IsDecision(c) THEN (active \ c.supersedes) \union {c.decision}
        ELSE rest \union {d \in Supersedes(events, c.decision) :
                            /\ d \notin Undone(events) \union {c.decision}
                            /\ \A other \in rest : d \notin Supersedes(events, other)}

(* What the replay refuses as INVALID_INPUT.                                *)
Replays(active, events, event) ==
    LET c == event.command
    IN  IF IsDecision(c) THEN c.decision \notin Recorded(events) /\ c.supersedes \subseteq active
        ELSE c.decision \in active

PolicyOf(e) ==
    [decision |-> e.command.decision, supersedes |-> e.command.supersedes,
     body |-> e.command.body, anchors |-> e.anchors]

ActivePolicies(events, active) ==
    {PolicyOf(e) : e \in {x \in Decisions(events) : x.command.decision \in active}}

policies == ActivePolicies(log, inForce)
policyRevision == Len(log)

(* A digest of the rows, the checkpoint and the whole log. What a new       *)
(* checkpoint alone changes is left out: a command it refuses may as well   *)
(* never have arrived.                                                      *)
inputRevision == [map |-> map, log |-> log]

View == ApplyLocalPolicies(map, policies)

-----------------------------------------------------------------------------
(* What a client may decide about the effective sources and flows it sees.  *)
Groupings(anchors) ==
    {gs \in SUBSET SUBSET anchors :
        /\ Cardinality(gs) > 1 /\ UNION gs = anchors /\ {} \notin gs
        /\ \A g, h \in gs : g = h \/ g \intersect h = {}}

SenderAnchors(e) == {[kind |-> "sender", of |-> map.sender[m]] : m \in e.messages}
FlowAnchors(e) == {[kind |-> "flow_anchor", of |-> FlowOf(map, m)] : m \in e.messages}

ProtectionTargets(kind, view) ==
    CASE kind = "source" -> {e.selector : e \in view.sources}
      [] kind = "flow" -> {f.selector : f \in view.flows}
      [] kind = "message" -> {[kind |-> "message", of |-> m] : m \in map.rows}
      [] kind = "sender" -> {[kind |-> "sender", of |-> map.sender[m]] : m \in map.rows}

Bodies(view) ==
    LET automatic == {e \in view.sources : e.selector.kind = "automatic"}
        selectors == {e.selector : e \in view.sources}
    IN  {Correction(f, s) : f \in SourceFields, s \in selectors}
        \union {Correction(f, x.selector) : f \in FlowFields, x \in view.flows}
        \union {MergeSources({e.selector : e \in es}) :
                  es \in {x \in SUBSET automatic : Cardinality(x) > 1}}
        \union (UNION {{PartitionSource(e.selector, gs) :
                          gs \in Groupings(SenderAnchors(e)) \union Groupings(FlowAnchors(e))} :
                        e \in automatic})
        \union {ProtectTarget(s) : s \in UNION {ProtectionTargets(kind, view) : kind \in Protectable}}

ViewWithout(supersedes) == ApplyLocalPolicies(map, Remaining(policies, supersedes))

Command(id, decision, body, supersedes) ==
    [id |-> id, decision |-> decision, body |-> body, supersedes |-> supersedes,
     expected |-> policyRevision]

(* _policy_command and prepare_policy_decision: a decision that cannot be   *)
(* prepared goes no further. The map API looks its targets up among the     *)
(* sources and flows as they are; a direct caller may name any of the view  *)
(* that is left of what it replaces.                                        *)
BodiesOffered(path, view, supersedes) ==
    {body \in Bodies(IF path = "map" THEN View ELSE view) :
        /\ body.kind \in Kinds
        /\ PreparePolicyOutcome(map, view, policies, body, supersedes) = "prepared"}

MayCompose ==
    /\ account
    /\ Cardinality(sent) < MaxCommands
    /\ Cardinality({c \in sent : \A e \in EventsOf(log) : e.command # c.command}) < MaxPending

Send(path, command, anchors) ==
    /\ sent' = sent \union {[path |-> path, command |-> command, anchors |-> anchors,
                             seen |-> inputRevision]}
    /\ UNCHANGED <<account, map, log, inForce, receipts>>

ComposeDecision(path, supersedes) ==
    /\ MayCompose
    /\ \E view \in {ViewWithout(supersedes)} :
       \E body \in BodiesOffered(path, view, supersedes) :
       \E anchors \in {PreparedAnchors(map, view, body)}, name \in Names :
          Send(path, Command(name[1], name[2], body, supersedes), anchors)

ComposeUndo(path, id, decision) ==
    /\ MayCompose
    /\ decision \in inForce
    /\ Send(path, Command(id, decision, Undo(decision), {}), {})

-----------------------------------------------------------------------------
(* One transaction of the repository. *)
EventFor(id) == {e \in EventsOf(log) : e.command.id = id}

(* The command and what it was asked on, as the receipt remembers them.     *)
Fingerprint(c) == [command |-> c.command, seen |-> c.seen]

ReplayOutcome_ReceiptsOnly(c) ==
    IF c.path = "map"
    THEN IF c.command.id \notin DOMAIN receipts THEN "none"
         ELSE IF receipts[c.command.id] = Fingerprint(c) THEN "replayed"
         ELSE "command_id_conflict"
    ELSE IF EventFor(c.command.id) = {} THEN "none" ELSE "replayed"

(* _map_policy_replay_conn, _policy_event_for_command_conn.                 *)
ReplayOutcome(c) ==
    IF c.path = "map"
    THEN IF c.command.id \in DOMAIN receipts
         THEN CASE EventFor(c.command.id) = {} -> "receipt_corrupt"
                [] receipts[c.command.id] = Fingerprint(c) -> "replayed"
                [] OTHER -> "command_id_conflict"
         ELSE IF EventFor(c.command.id) = {} THEN "none" ELSE "command_id_conflict"
    ELSE IF EventFor(c.command.id) = {} THEN "none"
         ELSE IF \A e \in EventFor(c.command.id) : e.command = c.command
         THEN "replayed" ELSE "command_id_conflict"

SnapshotOutcome_AnyMap(c) ==
    IF c.path = "map" /\ ~account THEN "map_unavailable" ELSE "ok"

(* record_map_policy, undo_map_policy: the map and the log the caller saw.  *)
SnapshotOutcome(c) ==
    IF c.path = "local" THEN "ok"
    ELSE IF ~account THEN "map_unavailable"
    ELSE IF c.seen # inputRevision \/ c.command.expected # policyRevision THEN "map_revision_conflict"
    ELSE "ok"

(* _record_policy_conn.                                                     *)
RecordOutcome(c) ==
    IF ~account THEN "target_not_found"
    ELSE IF c.command.expected # policyRevision THEN "revision_conflict"
    ELSE IF c.command.decision \in Recorded(log) THEN "invalid_transition"
    ELSE IF ~PreparedIsCompatible([body |-> c.command.body, anchors |-> c.anchors,
                                   supersedes |-> c.command.supersedes], policies)
    THEN "policy_conflict" ELSE "recorded"

UndoOutcome_AnyDecision(c) ==
    IF c.command.expected # policyRevision THEN "revision_conflict"
    ELSE IF ~account \/ c.command.decision \notin Recorded(log) THEN "invalid_transition" ELSE "recorded"

(* _undo_policy_conn.                                                       *)
UndoOutcome(c) ==
    IF c.command.expected # policyRevision THEN "revision_conflict"
    ELSE IF ~account \/ c.command.decision \notin inForce THEN "invalid_transition"
    ELSE "recorded"

Outcome_RevisionsFirst(c) ==
    IF SnapshotOutcome(c) # "ok" THEN SnapshotOutcome(c)
    ELSE IF ReplayOutcome(c) # "none" THEN ReplayOutcome(c)
    ELSE IF IsDecision(c.command) THEN RecordOutcome(c) ELSE UndoOutcome(c)

Outcome(c) ==
    IF ReplayOutcome(c) # "none" THEN ReplayOutcome(c)
    ELSE IF SnapshotOutcome(c) # "ok" THEN SnapshotOutcome(c)
    ELSE IF IsDecision(c.command) THEN RecordOutcome(c) ELSE UndoOutcome(c)

Written_NoAnchors(c) ==
    LET event == [command |-> c.command, anchors |-> {}]
    IN  /\ log' = Append(log, event)
        /\ inForce' = AfterEvent(inForce, log, event)
        /\ receipts' = IF c.path = "local" THEN receipts
                       ELSE [id \in DOMAIN receipts \union {c.command.id} |->
                               IF id = c.command.id THEN Fingerprint(c) ELSE receipts[id]]

(* The event, its anchors and relations, and the receipt, or nothing.       *)
Written(c) ==
    LET event == [command |-> c.command, anchors |-> c.anchors]
    IN  /\ log' = Append(log, event)
        /\ inForce' = AfterEvent(inForce, log, event)
        /\ receipts' = IF c.path = "local" THEN receipts
                       ELSE [id \in DOMAIN receipts \union {c.command.id} |->
                               IF id = c.command.id THEN Fingerprint(c) ELSE receipts[id]]

Deliver(c) ==
    /\ Outcome(c) = "recorded"
    /\ Written(c)
    /\ UNCHANGED <<account, map, sent>>

(* A scan classifies anew what it has written.                              *)
Scan(new) ==
    /\ account' = TRUE
    /\ map' = new
    /\ UNCHANGED <<log, inForce, receipts, sent>>

DeleteAccount_KeepsReceipts ==
    /\ account
    /\ account' = FALSE
    /\ log' = <<>> /\ inForce' = {}
    /\ UNCHANGED <<map, receipts, sent>>

(* delete_account_index: the rows of every table go with the account.       *)
DeleteAccount ==
    /\ account
    /\ account' = FALSE
    /\ log' = <<>> /\ inForce' = {} /\ receipts' = <<>>
    /\ UNCHANGED <<map, sent>>

-----------------------------------------------------------------------------
Init ==
    /\ account = TRUE
    /\ map \in Maps
    /\ log = <<>>
    /\ inForce = {}
    /\ receipts = <<>>
    /\ sent = {}

Next ==
    \/ \E path \in Paths, supersedes \in SUBSET inForce : ComposeDecision(path, supersedes)
    \/ \E path \in Paths, id \in CommandIds, d \in inForce : ComposeUndo(path, id, d)
    \/ \E c \in sent : Deliver(c)
    \/ \E new \in Maps : Scan(new)
    \/ DeleteAccount

Spec == Init /\ [][Next]_vars

-----------------------------------------------------------------------------
(* Every variable has its shape, and the log is of sent commands.           *)
TypeOK ==
    /\ account \in BOOLEAN
    /\ map \in Maps
    /\ inForce \subseteq DecisionIds
    /\ EventsOf(log) \subseteq {[command |-> c.command, anchors |-> c.anchors] : c \in sent}
    /\ \A c \in sent : /\ c.path \in {"map", "local"}
                       /\ c.command.id \in CommandIds
                       /\ c.command.decision \in DecisionIds
                       /\ c.command.supersedes \subseteq DecisionIds
    /\ DOMAIN receipts \subseteq CommandIds

(* The decisions in force are those recorded that were neither taken back  *)
(* nor superseded by one that was not, whatever the order in which they    *)
(* replaced, undid and revived one another (_active_policies_from_events). *)
InForceAfter(events) ==
    {d \in Recorded(events) \ Undone(events) :
        \A e \in Decisions(events) :
            d \in e.command.supersedes => e.command.decision \in Undone(events)}

InForceIsDeclared == inForce = InForceAfter(log)

(* Taking back the decision just made leaves in force exactly what was in  *)
(* force before it, whatever it replaced.                                  *)
UndoRestores ==
    LET last == log[Len(log)]
    IN  log # <<>> /\ IsDecision(last.command) =>
            AfterEvent(inForce, log, [command |-> Command("", last.command.decision,
                                                          Undo(last.command.decision), {}),
                                      anchors |-> {}])
            = InForceAfter(SubSeq(log, 1, Len(log) - 1))

(* A log the repository wrote always replays: an event that made it refuse *)
(* the log would make every later read of the map fail.                    *)
LogReplays ==
    [][Len(log') > Len(log) => Replays(inForce, log, log'[Len(log')])]_vars

(* A command is carried out once, however often and over whichever path it *)
(* arrives (policy_events.command_id, _map_policy_replay_conn).            *)
ExecutedOnce ==
    \A i, j \in DOMAIN log : log[i].command.id = log[j].command.id => i = j

(* A receipt is of an event of the log with the very command it was given  *)
(* for: a retry is answered as the first time, and never as corrupt.       *)
ReceiptsTellTheLog ==
    \A id \in DOMAIN receipts : \E e \in EventsOf(log) :
        e.command = receipts[id].command /\ e.command.id = id

(* A command that was carried out is answered as carried out whenever it   *)
(* arrives again over its path, whatever was decided, undone or classified *)
(* since, until the account goes: record_map_policy and undo_map_policy    *)
(* look for it before they compare any revision.                           *)
RetryIsReplayed ==
    [][\A c \in sent : (Deliver(c) \/ Outcome(c) = "replayed") /\ account'
                          => Outcome(c)' = "replayed"]_vars

(* Whatever is in force and however the messages are classified anew, the  *)
(* decisions apply without error, every message is in one effective source *)
(* and one effective flow, and none of these is empty: what the map itself *)
(* requires to be shown at all (PolicyApplicationResult, MapProjection).   *)
ViewIsComplete ==
    LET view == View
    IN  /\ view.valid
        /\ \A x \in view.sources \union view.flows : x.messages # {}
        /\ \A m \in map.rows :
              /\ Cardinality({e \in view.sources : m \in e.messages}) = 1
              /\ Cardinality({f \in view.flows : m \in f.messages}) = 1

(* The decisions that the map path would record now, and the view after.   *)
Recordable == {c \in sent : c.path = "map" /\ IsDecision(c.command) /\ Outcome(c) = "recorded"}
ViewAfter(c) ==
    ApplyLocalPolicies(map, Remaining(policies, c.command.supersedes) \union
                            {PolicyOf([command |-> c.command, anchors |-> c.anchors])})

(* A decision recorded through the map is recorded as the user saw it: its *)
(* anchors are those it would be given at the moment it is written.        *)
RecordedAsSeen ==
    \A c \in Recordable :
        c.anchors = PreparedAnchors(map, ViewWithout(c.command.supersedes), c.command.body)

(* A decision recorded through the map takes effect at once: it binds to   *)
(* what it names and stands in conflict with nothing.                      *)
RecordedApplies ==
    \A c \in Recordable : Applies(BindingOf(ViewAfter(c), c.command.decision))

Covers(sel, m) ==
    CASE sel.kind = "message" -> m = sel.of
      [] sel.kind = "sender" -> map.sender[m] = sel.of
      [] sel.kind \in {"automatic", "merged"} -> map.sender[m] \in UNION sel.sources
      [] sel.kind = "partition_group" ->
            \E a \in sel.part : a.kind = "sender" /\ map.sender[m] = a.of
      [] OTHER -> FALSE

(* A message whose sender or source a user protected stays protected while *)
(* the decision is in force, wherever new classifications, merges and      *)
(* partitions put it: what cannot be bound protects whatever it may mean.  *)
ProtectionFollowsTheMessage ==
    LET view == View
    IN  \A p \in policies : p.body.kind = "protect" =>
           \A m \in map.rows : Covers(p.body.target, m) => m \in view.protected

(* A decision about a merged source or a part of one applies only while    *)
(* the very merge or partition it was made on is in force, even if another *)
(* decision builds the same source again.                                  *)
ContextGoneIsNotApplied ==
    LET view == View
    IN  \A p \in policies : Applies(BindingOf(view, p.decision)) =>
           \A a \in p.anchors : a.structural \subseteq inForce

(* docs/contracts/LOCAL_POLICY_MEMORY_V1.md:166: a decision that conflicts  *)
(* with one that stays does not reach the repository, it is refused when it *)
(* is prepared. FALSE: the repository compares the automatic sources behind *)
(* the targets, which two groups of a partition share.                      *)
PreparedIsRecorded ==
    \A c \in sent : c.path = "map" /\ c.seen = inputRevision => Outcome(c) # "policy_conflict"

Promise == INSTANCE PolicyPromise WITH
    decisions <- {[decision |-> e.command.decision, supersedes |-> e.command.supersedes]
                    : e \in Decisions(log)},
    undone <- Undone(log)

(* The log keeps the promise of the decisions in force.                    *)
KeepsThePromise == Promise!Spec
=============================================================================
