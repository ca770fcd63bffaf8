--------------------------- MODULE SessionLifecycle ---------------------------
(***************************************************************************)
(* What the Gmail session promises about each account_key: it stands for   *)
(* one verified address from the moment it is stored, a revocation that    *)
(* was recorded is final, and a key that was forgotten never comes back.   *)
(* Nothing else happens to a key, whatever fails or crashes.               *)
(***************************************************************************)
CONSTANTS Keys, Addresses, NoAddress

VARIABLES
    status,  \* of each key: "unused", "held", "revoked" or "forgotten"
    owner    \* the address each key stands for

lifecycleVars == <<status, owner>>

Init ==
    /\ status = [k \in Keys |-> "unused"]
    /\ owner = [k \in Keys |-> NoAddress]

Authorize(k, a) ==
    /\ status[k] = "unused"
    /\ status' = [status EXCEPT ![k] = "held"]
    /\ owner' = [owner EXCEPT ![k] = a]

Revoke(k) ==
    /\ status[k] = "held"
    /\ status' = [status EXCEPT ![k] = "revoked"]
    /\ UNCHANGED owner

Forget(k) ==
    /\ status[k] \in {"held", "revoked"}
    /\ status' = [status EXCEPT ![k] = "forgotten"]
    /\ owner' = [owner EXCEPT ![k] = NoAddress]

Next ==
    \E k \in Keys :
        \/ \E a \in Addresses : Authorize(k, a)
        \/ Revoke(k)
        \/ Forget(k)

Spec == Init /\ [][Next]_lifecycleVars

=============================================================================
