--------------------------- MODULE MC_CleanupPlans ---------------------------
(***************************************************************************)
(* Three messages, two flows of a source and a source of its own, for TLC. *)
(* Messages 1 and 2 were received together; 3 is later, and its address is *)
(* one that the source of the others did not have.                         *)
(***************************************************************************)
EXTENDS CleanupPlanLedger, TLC

CONSTANTS shop, other, orders, offers, notes, alice, bob, inbox, security, k1, k2, k3

MCSender == <<alice, alice, bob>>
MCReceivedAt == <<1, 1, 3>>
MCFlowSource == (orders :> shop) @@ (offers :> shop) @@ (notes :> other)

Read(f) == [flow |-> f, unread |-> FALSE, labels |-> {}, protection |-> {}]

(* What may become of the two messages of a flow. *)
Calm == <<Read(orders), Read(orders)>>
Protected == <<[Read(orders) EXCEPT !.protection = {security}], Read(orders)>>
Labelled == <<[Read(orders) EXCEPT !.labels = {inbox}], [Read(orders) EXCEPT !.unread = TRUE]>>
Moved == <<Read(orders), Read(offers)>>
Shrunk == 2 :> Read(orders)
NewAddress == Calm @@ (3 :> Read(orders))
Elsewhere == Calm @@ (3 :> Read(notes))
OthersOnly == 3 :> Read(notes)
MCCompositions ==
    {Calm, Protected, Labelled, Moved, Shrunk, NewAddress, Elsewhere, OthersOnly}
MCFewCompositions == {Calm, Protected, OthersOnly}

(* One request of each kind of target, period, filter and quota. *)
WholeSource ==
    [targets |-> {[kind |-> "source", id |-> shop]}, period |-> [kind |-> "all"],
     readState |-> "any", excludedLabels |-> {}, keepLatest |-> 0]
LatestOfFlow ==
    [targets |-> {[kind |-> "flow", id |-> orders]}, period |-> [kind |-> "older_than_days", days |-> 1],
     readState |-> "read", excludedLabels |-> {}, keepLatest |-> 1]
BySender ==
    [targets |-> {[kind |-> "sender", id |-> alice]},
     period |-> [kind |-> "date_range", from |-> 0, before |-> 1],
     readState |-> "any", excludedLabels |-> {inbox}, keepLatest |-> 0]
Mixed ==
    [targets |-> {[kind |-> "sender", id |-> bob], [kind |-> "sender", id |-> alice]},
     period |-> [kind |-> "before_date", before |-> 2],
     readState |-> "unread", excludedLabels |-> {}, keepLatest |-> 1]
MCRequests == {WholeSource, LatestOfFlow, BySender, Mixed}
MCFewRequests == {WholeSource}

(* One map to begin with is enough: it changes before the first command, too. *)
MCInit == Init /\ composition = Calm
MCSpec == MCInit /\ [][Next]_vars

CommandSymmetry == Permutations(CommandIds)

=============================================================================
