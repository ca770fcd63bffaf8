---------------------------- MODULE MapProjection ----------------------------
(***************************************************************************)
(* What is shown of the memory: the map with its counters and the history  *)
(* of the decisions (map_composition.py), and the checks both make on      *)
(* themselves (map_model.py). One that fails is COMPOSITION_MISMATCH: the  *)
(* user is left without a map, and so without the means to undo. Reading   *)
(* changes no state. Names, sizes, dates, evidence, and the order of lists *)
(* are left out.                                                           *)
(***************************************************************************)
EXTENDS PolicyMemory, FiniteSetsExt

Counters == {"messages", "protected", "review_required"}

Counts(view, messages) ==
    [messages |-> Cardinality(messages),
     protected |-> Cardinality(messages \intersect view.protected),
     review_required |-> Cardinality(messages \intersect view.review_required)]

FlowProjection(view, f) ==
    [id |-> f.selector, source_id |-> f.selector.within, counts |-> Counts(view, f.messages)]

SourceProjection(view, e) ==
    [id |-> e.selector, counts |-> Counts(view, e.messages),
     flows |-> {FlowProjection(view, f) : f \in {x \in view.flows : x.selector.within = e.selector}}]

Summary(view) ==
    [counts |-> Counts(view, map.rows), source_count |-> Cardinality(view.sources),
     flow_count |-> Cardinality(view.flows)]

(* The decisions the user is told have not been applied as they stand.      *)
PolicyReview(view) ==
    {[decision |-> b.policy.decision, status |-> b.status, current |-> b.candidate.effective] :
        b \in {x \in view.bindings : ~Applies(x)}}

Projection(view) ==
    [summary |-> Summary(view), policy_review |-> PolicyReview(view),
     sources |-> {SourceProjection(view, e) : e \in view.sources},
     map_revision |-> inputRevision]

-----------------------------------------------------------------------------
TotalOf(c, parts) == MapThenSumSet(LAMBDA p : p.counts[c], parts)
TotalFlows(sources) == MapThenSumSet(LAMBDA s : Cardinality(s.flows), sources)

CountersCover(whole, parts) ==
    \A c \in Counters : /\ whole.counts[c] <= whole.counts.messages
                        /\ TotalOf(c, parts) = whole.counts[c]

FlowIsValid(f) == f.counts.messages > 0

SourceIsValid(s) ==
    /\ s.counts.messages > 0
    /\ CountersCover(s, s.flows)
    /\ \A f \in s.flows : FlowIsValid(f) /\ f.source_id = s.id

ProjectionIsValid(p) ==
    /\ \A s, t \in p.sources : s.id = t.id => s = t
    /\ \A s \in p.sources : SourceIsValid(s)
    /\ CountersCover(p.summary, p.sources)
    /\ p.summary.source_count = Cardinality(p.sources)
    /\ p.summary.flow_count = TotalFlows(p.sources)
    /\ \A b, c \in p.policy_review : b.decision = c.decision => b = c

-----------------------------------------------------------------------------
(* An event as the history shows it: what it was about when it was made,    *)
(* and what it is about now.                                                *)
HistoryEntry(view, e) ==
    LET active == IsDecision(e.command) /\ e.command.decision \in inForce
    IN  [command |-> e.command, active |-> active, undoable |-> active,
         observed |-> {a.selector : a \in e.anchors},
         binding |-> IF active THEN {BindingOf(view, e.command.decision).status} ELSE {}]

DecisionHistory(view) == [i \in DOMAIN log |-> HistoryEntry(view, log[i])]

EntryIsValid(entry) ==
    LET body == entry.command.body
        sources == {s \in entry.observed : IsSourceSelector(s)}
    IN  CASE body.kind = "undo" -> entry.binding = {} /\ ~entry.active
          [] body.kind = "merge" -> Cardinality(sources) > 1
          [] body.kind = "partition" ->
               /\ Cardinality(sources) = 1
               /\ \A g \in body.groups : g \intersect entry.observed # {}
          [] OTHER -> Cardinality(entry.observed) = 1

-----------------------------------------------------------------------------
(* The map is never refused by its own checks: after any decisions, undos, *)
(* scans and replays its counters agree, it has no empty part, and the     *)
(* history of every decision ever made can be told.                        *)
MapIsShown ==
    LET view == View
        history == DecisionHistory(view)
    IN  account => /\ view.valid
                   /\ ProjectionIsValid(Projection(view))
                   /\ \A i \in DOMAIN history : EntryIsValid(history[i])
=============================================================================
