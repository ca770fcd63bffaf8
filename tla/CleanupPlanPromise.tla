-------------------------- MODULE CleanupPlanPromise --------------------------
(***************************************************************************)
(* What a cleanup plan promises whoever is going to rely on it: from the   *)
(* moment it is frozen it only loses messages, it is closed once and for   *)
(* all, and nothing but the deletion of its account makes it disappear.    *)
(***************************************************************************)
CONSTANTS PlanIds, Messages

VARIABLES
    state,    \* of each plan that exists
    eligible  \* the messages each plan still holds

promiseVars == <<state, eligible>>

Open(p) == p \in DOMAIN state /\ state[p] \in {"frozen", "reduced"}

Init ==
    /\ state = <<>>
    /\ eligible = <<>>

(* A plan that selects nothing is closed from the start. *)
Freeze(p, chosen) ==
    /\ p \notin DOMAIN state
    /\ state' = [q \in DOMAIN state \union {p} |->
                   IF q # p THEN state[q]
                   ELSE IF chosen = {} THEN "invalidated" ELSE "frozen"]
    /\ eligible' = [q \in DOMAIN state \union {p} |-> IF q = p THEN chosen ELSE eligible[q]]

Reduce(p, kept) ==
    /\ Open(p)
    /\ kept \subseteq eligible[p]
    /\ kept # eligible[p]
    /\ eligible' = [eligible EXCEPT ![p] = kept]
    /\ state' = [state EXCEPT ![p] = IF kept = {} THEN "invalidated" ELSE "reduced"]

Cancel(p) ==
    /\ Open(p)
    /\ state' = [state EXCEPT ![p] = "cancelled"]
    /\ UNCHANGED eligible

DeleteAccount ==
    /\ state' = <<>>
    /\ eligible' = <<>>

Next ==
    \/ \E p \in PlanIds :
          \/ \E chosen \in SUBSET Messages : Freeze(p, chosen) \/ Reduce(p, chosen)
          \/ Cancel(p)
    \/ DeleteAccount

Spec == Init /\ [][Next]_promiseVars

=============================================================================
