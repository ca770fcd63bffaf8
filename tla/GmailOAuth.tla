------------------------------ MODULE GmailOAuth ------------------------------
(***************************************************************************)
(* The authorization service behind OAuthTransportPort and                 *)
(* GmailProfilePort of src/mailmap/oauth_session.py, and the clock.  The   *)
(* service is outside the repository: what is stated here is what          *)
(* SecureGmailSession calls it for and what the doubles of the tests       *)
(* answer.                                                                 *)
(*                                                                         *)
(* A grant is what a user gave the program once: all tokens obtained from  *)
(* it stand and fall together.                                             *)
(***************************************************************************)
EXTENDS Naturals

CONSTANTS
    Grants,
    Addresses,
    Owner,      \* of each grant: the address of the account that gave it
    None,
    MaxTime     \* bound on the clock

ASSUME OAuthAssumption ==
    /\ Owner \in [Grants -> Addresses]
    /\ None \notin Grants \cup Addresses
    /\ MaxTime \in Nat

VARIABLES
    grants,  \* of each grant: "none" yet, "live" or "revoked"
    now      \* ClockPort.now

serviceVars == <<grants, now>>

\* access and refresh: the grants behind access_token and refresh_token; scope
\* "metadata": the permitted scope and no other; expires: the moment from which
\* the access token is of no use.
CredentialBundle == [access: Grants, refresh: Grants \cup {None},
                     scope: {"metadata", "other"}, expires: Nat]

ServiceTypeOK ==
    /\ grants \in [Grants -> {"none", "live", "revoked"}]
    /\ now \in Nat

ServiceInit ==
    /\ grants = [g \in Grants |-> "none"]
    /\ now = 0

Tick ==
    /\ now < MaxTime
    /\ now' = now + 1
    /\ UNCHANGED grants

\* The user withdraws a grant in the account's own settings.
UserRevokes(g) ==
    /\ grants[g] = "live"
    /\ grants' = [grants EXCEPT ![g] = "revoked"]
    /\ UNCHANGED now

ServiceNext == Tick \/ \E g \in Grants : UserRevokes(g)

-----------------------------------------------------------------------------
(* Remote calls.                                                           *)

\* The credentials an answer may carry for a grant: the refresh token is not
\* always repeated, and the scope and the expiry are the service's.
Answers(g) == [access: {g}, refresh: {g, None}, scope: {"metadata", "other"},
               expires: {now, now + 1}]

\* exchange_code: the code becomes a grant.
exchange_code(g) ==
    /\ grants[g] = "none"
    /\ grants' = [grants EXCEPT ![g] = "live"]
    /\ UNCHANGED now

\* revoke: the token's grant ends.
revoke(g) ==
    /\ grants' = [grants EXCEPT ![g] = "revoked"]
    /\ UNCHANGED now

=============================================================================
