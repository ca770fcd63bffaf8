---------------------------- MODULE PolicyPromise ----------------------------
(***************************************************************************)
(* What the memory of local policies promises of the decisions in force    *)
(* (docs/contracts/LOCAL_POLICY_MEMORY_V1.md, section 6): a decision may   *)
(* replace decisions in force, is in force until it is replaced or taken   *)
(* back, and taking it back restores what only it had replaced.            *)
(***************************************************************************)
CONSTANTS DecisionIds

VARIABLES
    decisions,  \* every decision recorded, with those it replaces
    undone      \* those that were taken back

vars == <<decisions, undone>>

Ids == {e.decision : e \in decisions}

(* Neither taken back nor replaced by a decision that was not.             *)
InForce ==
    {d \in Ids \ undone :
        \A e \in decisions : d \in e.supersedes => e.decision \in undone}

Init == decisions = {} /\ undone = {}

Record(d, S) ==
    /\ d \notin Ids
    /\ S \subseteq InForce
    /\ decisions' = decisions \union {[decision |-> d, supersedes |-> S]}
    /\ UNCHANGED undone

TakeBack(d) ==
    /\ d \in InForce
    /\ undone' = undone \union {d}
    /\ UNCHANGED decisions

Forget == decisions' = {} /\ undone' = {}

Next ==
    \/ \E d \in DecisionIds, S \in SUBSET DecisionIds : Record(d, S)
    \/ \E d \in DecisionIds : TakeBack(d)
    \/ Forget

Spec == Init /\ [][Next]_vars
=============================================================================
