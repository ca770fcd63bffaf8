----------------------------- MODULE PolicyRules -----------------------------
(***************************************************************************)
(* What a local policy decision means on a map (policy_domain.py and the   *)
(* checks repository.py repeats before it writes): which effective sources *)
(* and flows the decisions in force make of an automatic classification,   *)
(* how a decision that was anchored to an older map binds to this one, and *)
(* which new decisions are refused. Pure operators, no state.              *)
(*                                                                         *)
(* An automatic source is the set of the anchors of its descriptor: sender *)
(* addresses, or the one message of an isolated source. The identifiers    *)
(* the code derives from descriptors and selectors by hashing are the      *)
(* descriptors and selectors themselves. Partition anchors are senders and *)
(* flows; the third kind, a message without sender, is alone in its source *)
(* and so never in a partition of it. Labels bind as senders do, by the    *)
(* messages that carry them, and are left out with the wording of names,   *)
(* the confidence and the evidence.                                        *)
(***************************************************************************)
EXTENDS FiniteSets, Integers

-----------------------------------------------------------------------------
(* A map: the rows of the index and what the classification made of them.   *)
IsMap(map) ==
    /\ DOMAIN map.sender = map.rows
    /\ DOMAIN map.flow = map.rows
    /\ DOMAIN map.thread = map.rows
    /\ map.guarded \subseteq map.rows
    /\ IsFiniteSet(map.rows)
    /\ {} \notin map.sources
    /\ \A S, T \in map.sources : S = T \/ S \intersect T = {}
    /\ UNION map.sources = {map.sender[m] : m \in map.rows}
    /\ \A m \in map.rows : map.flow[m].source \in map.sources
                          /\ map.sender[m] \in map.flow[m].source

(* A flow is its automatic source and a key, which stands for the list or   *)
(* sender, and the intention, of its messages.                              *)
FlowOf(map, m) == map.flow[m]
SourceOf(map, m) == map.flow[m].source

-----------------------------------------------------------------------------
(* Selectors of effective sources and flows. *)
Automatic(S) == [kind |-> "automatic", sources |-> {S}, part |-> {}]
Merged(participants) ==
    [kind |-> "merged", sources |-> UNION {p.sources : p \in participants}, part |-> {}]
PartitionGroup(target, anchors) ==
    [kind |-> "partition_group", sources |-> target.sources, part |-> anchors]
FlowSelector(flow, within) == [kind |-> "flow", flow |-> flow, within |-> within]

IsSourceSelector(sel) == sel.kind \in {"automatic", "merged", "partition_group"}

DescriptorsShareAnchor(S, T) == S \intersect T # {}
AnyShareAnchor(Ss, Ts) == \E S \in Ss, T \in Ts : DescriptorsShareAnchor(S, T)
FlowsShareAnchor(f, g) == f.key = g.key /\ DescriptorsShareAnchor(f.source, g.source)

AnchorMessages(map, anchor, allowed) ==
    {m \in allowed : \/ anchor.kind = "sender" /\ map.sender[m] = anchor.of
                     \/ anchor.kind = "flow_anchor" /\ FlowOf(map, m) = anchor.of}

(* Every message falls under one anchor, and every group has a message.     *)
GroupsResolve(map, groups, messages) ==
    /\ \A m \in messages :
          Cardinality({a \in UNION groups : m \in AnchorMessages(map, a, messages)}) = 1
    /\ \A g \in groups : \E a \in g : AnchorMessages(map, a, messages) # {}

-----------------------------------------------------------------------------
(* Effective sources and flows, and what a selector may bind to. *)
BaselineSources(map) ==
    {[selector |-> Automatic(S), structural |-> {},
      messages |-> {m \in map.rows : map.sender[m] \in S}] : S \in map.sources}

FlowsOf(map, sources) ==
    UNION {{[selector |-> FlowSelector(f, e.selector), structural |-> e.structural,
             messages |-> {m \in e.messages : FlowOf(map, m) = f}]
            : f \in {FlowOf(map, m) : m \in e.messages}} : e \in sources}

SourceCandidate(map, e) ==
    [effective |-> {e.selector}, sources |-> e.selector.sources,
     flows |-> {FlowOf(map, m) : m \in e.messages},
     structural |-> e.structural, messages |-> e.messages]

(* The sources of a flow are all those of the effective source it is in.    *)
FlowCandidate(f) ==
    [effective |-> {f.selector}, sources |-> f.selector.within.sources,
     flows |-> {f.selector.flow}, structural |-> f.structural, messages |-> f.messages]

MergeCandidates(cs) ==
    [effective |-> UNION {c.effective : c \in cs}, sources |-> UNION {c.sources : c \in cs},
     flows |-> UNION {c.flows : c \in cs}, structural |-> UNION {c.structural : c \in cs},
     messages |-> UNION {c.messages : c \in cs}]

Bound(status, candidate) == [status |-> status, candidate |-> candidate]

StatusForExactAnchor_NoContext(anchor, c) ==
    IF anchor.sources = c.sources /\ anchor.flows = c.flows THEN "exact" ELSE "rebound"

StatusForExactAnchor(anchor, c) ==
    IF anchor.structural # c.structural THEN "needs_review"
    ELSE IF anchor.sources = c.sources /\ anchor.flows = c.flows THEN "exact"
    ELSE "rebound"

Resolve_NoFallback(anchor, exact, fallbacks) ==
    IF exact = {} THEN Bound("orphaned", MergeCandidates({}))
    ELSE Bound(StatusForExactAnchor(anchor, MergeCandidates(exact)), MergeCandidates(exact))

(* exact and fallbacks are sets of candidates; exact has at most one.       *)
Resolve(anchor, exact, fallbacks) ==
    LET c == MergeCandidates(IF exact # {} THEN exact ELSE fallbacks)
    IN  IF exact # {} THEN Bound(StatusForExactAnchor(anchor, c), c)
        ELSE IF fallbacks = {} THEN Bound("orphaned", c)
        ELSE IF anchor.structural # c.structural \/ Cardinality(fallbacks) = 1
        THEN Bound("needs_review", c)
        ELSE Bound("ambiguous", c)

ResolveSourceAnchor(map, anchor, sources) ==
    Resolve(anchor,
        {SourceCandidate(map, e) : e \in {x \in sources : x.selector = anchor.selector}},
        {SourceCandidate(map, e) :
            e \in {x \in sources : AnyShareAnchor(anchor.selector.sources, x.selector.sources)}})

ResolveFlowAnchor(anchor, flows) ==
    LET flow == anchor.selector.flow
        same == {f \in flows : FlowsShareAnchor(flow, f.selector.flow)}
        near == {f \in flows : DescriptorsShareAnchor(flow.source, f.selector.flow.source)}
    IN  Resolve(anchor,
            {FlowCandidate(f) : f \in {x \in flows : x.selector = anchor.selector}},
            {FlowCandidate(f) : f \in IF same # {} THEN same ELSE near})

DirectMessages(map, selector) ==
    {m \in map.rows : \/ selector.kind = "message" /\ m = selector.of
                      \/ selector.kind = "sender" /\ map.sender[m] = selector.of}

MessagesCandidate(map, sources, flows, messages) ==
    LET holders == {x \in sources \union flows : x.messages \intersect messages # {}}
    IN  [effective |-> {x.selector : x \in holders},
         sources |-> {SourceOf(map, m) : m \in messages},
         flows |-> {FlowOf(map, m) : m \in messages},
         structural |-> UNION {x.structural : x \in holders}, messages |-> messages]

ResolveTargetAnchor(map, anchor, sources, flows) ==
    IF IsSourceSelector(anchor.selector) THEN ResolveSourceAnchor(map, anchor, sources)
    ELSE IF anchor.selector.kind = "flow" THEN ResolveFlowAnchor(anchor, flows)
    ELSE LET messages == DirectMessages(map, anchor.selector)
         IN  Bound(IF messages = {} THEN "orphaned" ELSE "exact",
                   MessagesCandidate(map, sources, flows, messages))

-----------------------------------------------------------------------------
(***************************************************************************)
(* Commands: a correction or a protection of a target, a merge of automatic*)
(* sources, a partition of one into groups of anchors. A policy is such a  *)
(* command with the anchors that were observed when it was prepared.       *)
(***************************************************************************)
Correction(field, target) == [kind |-> field, target |-> target]
MergeSources(participants) == [kind |-> "merge", participants |-> participants]
PartitionSource(target, groups) ==
    [kind |-> "partition", participants |-> {target}, groups |-> groups]
ProtectTarget(target) == [kind |-> "protect", target |-> target]

SourceFields == {"source_display_name", "source_rubro"}
FlowFields == {"flow_display_name", "flow_intention"}
CorrectionFields == SourceFields \union FlowFields
IsStructural(body) == body.kind \in {"merge", "partition"}

StructuralDescriptors(body) ==
    IF IsStructural(body) THEN UNION {p.sources : p \in body.participants} ELSE {}

StructuresShareAnchor(body, other) ==
    AnyShareAnchor(StructuralDescriptors(body), StructuralDescriptors(other))

Created(body) ==
    IF body.kind = "merge" THEN {Merged(body.participants)}
    ELSE {PartitionGroup(target, g) : target \in body.participants, g \in body.groups}

CombinedStatus(statuses) ==
    IF "ambiguous" \in statuses THEN "ambiguous"
    ELSE IF statuses = {"orphaned"} THEN "orphaned"
    ELSE IF statuses \intersect {"needs_review", "orphaned"} # {} THEN "needs_review"
    ELSE IF "rebound" \in statuses THEN "rebound"
    ELSE "exact"

Applies(binding) == binding.status \in {"exact", "rebound"}

ParticipantAnchors(policy) == {a \in policy.anchors : IsSourceSelector(a.selector)}

MergeBinding(map, policy, base) ==
    LET resolved == {ResolveSourceAnchor(map, a, base) : a \in ParticipantAnchors(policy)}
    IN  Bound(CombinedStatus({r.status : r \in resolved}),
              MergeCandidates({r.candidate : r \in resolved}))

MemberStatus(map, member, messages) ==
    LET current == AnchorMessages(map, member.selector, messages)
    IN  IF current = {} THEN "needs_review"
        ELSE IF /\ member.sources = {SourceOf(map, m) : m \in current}
                /\ member.flows = {FlowOf(map, m) : m \in current}
        THEN "exact" ELSE "rebound"

PartitionBinding_NoCoverage(map, policy, base) ==
    ResolveSourceAnchor(map, CHOOSE a \in ParticipantAnchors(policy) : TRUE, base)

PartitionBinding(map, policy, base) ==
    LET anchor == CHOOSE a \in ParticipantAnchors(policy) : TRUE
        target == ResolveSourceAnchor(map, anchor, base)
        messages == target.candidate.messages
        members == policy.anchors \ ParticipantAnchors(policy)
        status == CombinedStatus({target.status} \union
                                 {MemberStatus(map, a, messages) : a \in members})
    IN  IF ~Applies(target) THEN target
        ELSE IF ~GroupsResolve(map, policy.body.groups, messages)
        THEN Bound("needs_review", target.candidate)
        ELSE Bound(status, target.candidate)

StructuralBinding(map, policy, base) ==
    IF policy.body.kind = "merge"
    THEN MergeBinding(map, policy, base)
    ELSE PartitionBinding(map, policy, base)

BindingTo(policy, resolved) ==
    [policy |-> policy, status |-> resolved.status, candidate |-> resolved.candidate]

Overlap(b, c) == b.candidate.messages \intersect c.candidate.messages # {}

StructuresClash(b, c) == StructuresShareAnchor(b.policy.body, c.policy.body) \/ Overlap(b, c)

CorrectionsClash(b, c) ==
    /\ b.policy.body.kind \in CorrectionFields
    /\ b.policy.body.kind = c.policy.body.kind
    /\ Overlap(b, c)

InConflict(binding) == [binding EXCEPT !.status = "conflict"]

MarkStructuralConflicts(bindings) ==
    {IF \E c \in bindings \ {b} : StructuresClash(b, c) THEN InConflict(b) ELSE b : b \in bindings}

MarkCorrectionConflicts(bindings) ==
    {IF \E c \in bindings \ {b} : CorrectionsClash(b, c) THEN InConflict(b) ELSE b : b \in bindings}

StructuralBindings(map, structural) ==
    LET base == BaselineSources(map)
    IN  MarkStructuralConflicts({BindingTo(p, StructuralBinding(map, p, base)) : p \in structural})

OtherBindings(map, others, sources, flows) ==
    MarkCorrectionConflicts(
        {BindingTo(p, ResolveTargetAnchor(map, CHOOSE a \in p.anchors : TRUE, sources, flows))
         : p \in others})

-----------------------------------------------------------------------------
(* What a structural policy that applies puts in place of its participants. *)
MergedSource(map, policy, base) ==
    [selector |-> Merged(policy.body.participants), structural |-> {policy.decision},
     messages |-> UNION {e.messages : e \in {x \in base : x.selector \in policy.body.participants}}]

GroupSources(map, policy, base) ==
    {[selector |-> PartitionGroup(t.selector, g), structural |-> {policy.decision},
      messages |-> UNION {AnchorMessages(map, a, t.messages) : a \in g}]
     : t \in {x \in base : x.selector \in policy.body.participants}, g \in policy.body.groups}

Consumed(applied) == UNION {p.body.participants : p \in applied}

(* Applying one finds its participants still there, and its groups whole.   *)
StructureApplies(map, applied, base) ==
    /\ Consumed(applied) \subseteq {e.selector : e \in base}
    /\ \A p, q \in applied : p = q \/ p.body.participants \intersect q.body.participants = {}
    /\ \A p \in applied, e \in base :
          p.body.kind = "partition" /\ e.selector \in p.body.participants =>
             GroupsResolve(map, p.body.groups, e.messages)

ApplyStructure(map, applied, base) ==
    {e \in base : e.selector \notin Consumed(applied)}
    \union {MergedSource(map, p, base) : p \in {x \in applied : x.body.kind = "merge"}}
    \union UNION {GroupSources(map, p, base) :
                    p \in {x \in applied : x.body.kind = "partition"}}

(* A conversation with one protected message is protected whole.            *)
WithConversations(map, messages) ==
    {m \in map.rows : \E n \in messages : map.thread[m] = map.thread[n]}

(* The intention a user gives a flow is taken to be one that protects it.   *)
ProtectingKinds == {"protect", "flow_intention"}

Pending(bindings) == {b \in bindings : b.status \in {"needs_review", "ambiguous", "conflict"}}
MessagesOf(bindings) == UNION {b.candidate.messages : b \in bindings}

(* What the user protects, and whatever a decision that needs attention may *)
(* have been about, each before its conversation is protected with it.      *)
ProtectedAlone(map, bindings) ==
    map.guarded \union MessagesOf(Pending(bindings)) \union
    MessagesOf({b \in bindings : b.policy.body.kind \in ProtectingKinds /\ Applies(b)})

Protected(map, bindings) == WithConversations(map, ProtectedAlone(map, bindings))

Mixed(map, messages) ==
    WithConversations(map, messages) \intersect WithConversations(map, map.rows \ messages)

(* To be looked at by the user: also a conversation that is mixed before    *)
(* the decisions, or with them.                                             *)
ReviewRequired(map, bindings) ==
    MessagesOf(Pending(bindings)) \union Mixed(map, map.guarded)
    \union (Mixed(map, ProtectedAlone(map, bindings)) \ WithConversations(map, map.guarded))

(* A correction that applies finds the source or flow it names.             *)
CorrectionsApply(bindings, sources, flows) ==
    \A b \in bindings : b.policy.body.kind \in CorrectionFields /\ Applies(b) =>
        b.policy.body.target \in {x.selector : x \in sources \union flows}

ApplyLocalPolicies(map, policies) ==
    LET structural == {p \in policies : IsStructural(p.body)}
        base == BaselineSources(map)
        bound == StructuralBindings(map, structural)
        applied == {b.policy : b \in {x \in bound : Applies(x)}}
        sources == ApplyStructure(map, applied, base)
        flows == FlowsOf(map, sources)
        bindings == bound \union OtherBindings(map, policies \ structural, sources, flows)
    IN  [valid |-> /\ StructureApplies(map, applied, base)
                   /\ CorrectionsApply(bindings, sources, flows),
         sources |-> sources, flows |-> flows, bindings |-> bindings,
         protected |-> Protected(map, bindings),
         review_required |-> ReviewRequired(map, bindings)]

BindingOf(view, decision) == CHOOSE b \in view.bindings : b.policy.decision = decision

-----------------------------------------------------------------------------
(***************************************************************************)
(* Preparing a decision: on the view the policies that stay would give.    *)
(***************************************************************************)
SelectorsShareAnchor(sel, other) ==
    \/ sel = other
    \/ /\ IsSourceSelector(sel) /\ IsSourceSelector(other)
       /\ AnyShareAnchor(sel.sources, other.sources)
    \/ /\ sel.kind = "flow" /\ other.kind = "flow"
       /\ FlowsShareAnchor(sel.flow, other.flow)

SupersedesCompatible(body, current) ==
    IF IsStructural(body) THEN IsStructural(current) /\ StructuresShareAnchor(body, current)
    ELSE IF body.kind = "protect" THEN current.kind = "protect" /\ current.target = body.target
    ELSE /\ body.kind = current.kind
         /\ SelectorsShareAnchor(body.target, current.target)

Remaining(policies, supersedes) == {p \in policies : p.decision \notin supersedes}

SupersedesInForce(body, supersedes, policies) ==
    \A d \in supersedes :
        \E p \in policies : p.decision = d /\ SupersedesCompatible(body, p.body)

(* The effective sources, flows or messages a decision is about.            *)
TargetsOf(map, view, body) ==
    IF IsStructural(body) THEN {e \in view.sources : e.selector \in body.participants}
    ELSE IF body.target.kind \in {"message", "sender"}
    THEN {x \in view.sources \union view.flows :
            x.messages \intersect DirectMessages(map, body.target) # {}}
    ELSE {x \in view.sources \union view.flows : x.selector = body.target}

TargetFound(map, view, body) ==
    IF IsStructural(body)
    THEN body.participants \subseteq {e.selector : e \in view.sources}
    ELSE TargetsOf(map, view, body) # {}

(* The decisions that stay and stand against a new one.                     *)
RemainingConflicts(view, remaining, body, targets) ==
    LET Touches(p) == BindingOf(view, p.decision).candidate.effective \intersect targets # {}
    IN  \E p \in remaining :
          \/ /\ IsStructural(body) /\ IsStructural(p.body)
             /\ StructuresShareAnchor(body, p.body) \/ Touches(p)
          \/ body.kind \in CorrectionFields /\ p.body.kind = body.kind /\ Touches(p)

(* view is what the policies that stay make of the map.                     *)
PreparePolicyOutcome(map, view, policies, body, supersedes) ==
    LET remaining == Remaining(policies, supersedes)
        targets == TargetsOf(map, view, body)
    IN  IF ~SupersedesInForce(body, supersedes, policies) THEN "policy_conflict"
        ELSE IF ~TargetFound(map, view, body)
        THEN IF IsStructural(body) /\ RemainingConflicts(view, remaining, body, {})
             THEN "policy_conflict" ELSE "target_not_found"
        ELSE IF body.kind = "partition" /\ \E t \in targets :
                   \/ ~GroupsResolve(map, body.groups, t.messages)
                   \/ \E a \in UNION body.groups : AnchorMessages(map, a, t.messages) = {}
        THEN "invalid_input"
        ELSE IF RemainingConflicts(view, remaining, body, {t.selector : t \in targets})
        THEN "policy_conflict" ELSE "prepared"

Observed(map, selector, structural, messages) ==
    [selector |-> selector, structural |-> structural,
     sources |-> {SourceOf(map, m) : m \in messages},
     flows |-> {FlowOf(map, m) : m \in messages}]

PreparedAnchors_TargetOnly(map, view, body) ==
    {Observed(map, t.selector, t.structural, t.messages) : t \in TargetsOf(map, view, body)}

PreparedAnchors(map, view, body) ==
    LET targets == TargetsOf(map, view, body)
    IN  IF body.kind = "protect" /\ body.target.kind \in {"message", "sender"}
        THEN {Observed(map, body.target, {}, DirectMessages(map, body.target))}
        ELSE {Observed(map, t.selector, t.structural, t.messages) : t \in targets}
             \union IF body.kind # "partition" THEN {}
                    ELSE {Observed(map, a, {}, AnchorMessages(map, a, t.messages)) :
                            t \in targets, a \in UNION body.groups}

-----------------------------------------------------------------------------
(***************************************************************************)
(* What the repository checks again before it writes: selectors only, it   *)
(* does not classify.                                                      *)
(***************************************************************************)
ContextIsSound(anchor, remaining) ==
    LET source == IF anchor.selector.kind = "flow"
                  THEN anchor.selector.within ELSE anchor.selector
        creators == {p.decision : p \in {q \in remaining :
                                            IsStructural(q.body) /\ source \in Created(q.body)}}
    IN  CASE ~IsSourceSelector(source) -> anchor.structural = {}
          [] source.kind = "automatic" ->
               /\ anchor.structural = {}
               /\ \A p \in remaining :
                     ~AnyShareAnchor(source.sources, StructuralDescriptors(p.body))
          [] OTHER -> Cardinality(creators) = 1 /\ anchor.structural = creators

PreparedIsCompatible_AnySupersedes(prepared, policies) ==
    LET remaining == Remaining(policies, prepared.supersedes)
    IN  /\ \A a \in prepared.anchors : ContextIsSound(a, remaining)
        /\ \A p \in remaining : ~StructuresShareAnchor(prepared.body, p.body)

PreparedIsCompatible(prepared, policies) ==
    LET body == prepared.body
        remaining == Remaining(policies, prepared.supersedes)
        Same(p) == \E a \in prepared.anchors, b \in p.anchors : a.selector = b.selector
    IN  /\ SupersedesInForce(body, prepared.supersedes, policies)
        /\ \A a \in prepared.anchors : ContextIsSound(a, remaining)
        /\ \A p \in remaining : ~StructuresShareAnchor(body, p.body)
        /\ \A p \in remaining :
              body.kind \in CorrectionFields /\ p.body.kind = body.kind =>
                 ~SelectorsShareAnchor(p.body.target, body.target) /\ ~Same(p)
=============================================================================
