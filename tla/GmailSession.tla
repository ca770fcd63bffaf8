----------------------------- MODULE GmailSession -----------------------------
(***************************************************************************)
(* SecureGmailSession (src/mailmap/oauth_session.py) over the secret store *)
(* (windows_secret_store.py).  Every remote call and every write of the    *)
(* store is a step of its own: the process may die between any two of      *)
(* them, the clock moves, and the user may withdraw a grant meanwhile.     *)
(* What the object keeps in memory goes with the process; the store stays. *)
(*                                                                         *)
(* The operations of one object run one after the other; nothing in the    *)
(* repository calls them from two threads.                                 *)
(***************************************************************************)
EXTENDS GmailOAuth, Sequences, FiniteSets

CONSTANTS
    Keys,         \* account keys, drawn at random by uuid4
    Ttl,          \* authorization_ttl
    ReplayMemory, \* length of _consumed_state_digests
    MaxAttempts   \* bound on the number of authorizations prepared

ASSUME SessionAssumption ==
    /\ None \notin Keys
    /\ Ttl \in Nat \ {0}
    /\ ReplayMemory \in Nat \ {0}
    /\ MaxAttempts \in Nat

VARIABLES
    store,     \* of each account_key: its StoredSessionRecord (durable)
    pending,   \* _pending
    consumed,  \* _consumed_state_digests
    snapshots, \* _active_snapshots
    pc,        \* the next thing the running operation does
    op,        \* the locals of the running operation
    revocation,\* the last RevocationResult
    prepared,  \* history: how many authorizations were prepared
    booted,    \* history: how many of them before this process started
    exchanges, \* history: the states whose code was exchanged, in order
    used       \* history: the account keys that were ever stored

memoryVars == <<pending, consumed, snapshots>>
historyVars == <<prepared, booted, exchanges, used>>
vars == <<serviceVars, store, memoryVars, pc, op, revocation, historyVars>>

\* The state of an attempt is a random value: the number of the attempt.
PendingAttempt == [state: Nat, expires: Nat, expected: Addresses \cup {None}]
NoAttempt == [state |-> 0, expires |-> 0, expected |-> None]

StoredSessionRecord ==
    [address: Addresses, credentials: CredentialBundle, revoked: BOOLEAN]

ASSUME RecordAssumption == None \notin StoredSessionRecord \cup CredentialBundle

Stored(k) == store[k] # None

SessionStates == {"disconnected", "connected", "refresh_required", "revoked",
                  "scope_mismatch", "account_mismatch", "failed"}

\* key: the session worked on; attempt: the authorization being completed;
\* credentials: what the service has just answered.
Operations == [key: Keys \cup {None}, attempt: PendingAttempt,
               credentials: CredentialBundle \cup {None}]
NoOperation == [key |-> None, attempt |-> NoAttempt, credentials |-> None]

Steps == {"idle", "exchange", "identify", "create", "refresh", "reidentify",
          "update", "revoke", "mark_revoked"}

RevocationResults == [key: Keys \cup {None}, remote_revoked: BOOLEAN]
NoRevocation == [key |-> None, remote_revoked |-> FALSE]

TypeOK ==
    /\ ServiceTypeOK
    /\ store \in [Keys -> StoredSessionRecord \cup {None}]
    /\ pending \in PendingAttempt
    /\ consumed \in Seq(Nat) /\ Len(consumed) <= ReplayMemory
    /\ snapshots \in [Keys -> SessionStates]
    /\ pc \in Steps
    /\ op \in Operations
    /\ revocation \in RevocationResults
    /\ prepared \in Nat
    /\ booted \in 0..prepared
    /\ exchanges \in Seq(Nat)
    /\ used \in SUBSET Keys

NewProcess ==
    [pending |-> NoAttempt, consumed |-> <<>>,
     snapshots |-> [k \in Keys |-> "disconnected"]]

Init ==
    /\ ServiceInit
    /\ store = [k \in Keys |-> None]
    /\ pending = NewProcess.pending
    /\ consumed = NewProcess.consumed
    /\ snapshots = NewProcess.snapshots
    /\ pc = "idle"
    /\ op = NoOperation
    /\ revocation = NoRevocation
    /\ prepared = 0
    /\ booted = 0
    /\ exchanges = <<>>
    /\ used = {}

Finish == pc' = "idle" /\ op' = NoOperation

_set_snapshot(k, state) == snapshots' = [snapshots EXCEPT ![k] = state]

\* Mistake: the file is emptied before it is written.
_save_record_InPlace(k, record) ==
    \E written \in {record, None} : store' = [store EXCEPT ![k] = written]

\* The store replaces a record as a whole, or keeps the one it had.
_save_record(k, record) == store' = [store EXCEPT ![k] = record]

-----------------------------------------------------------------------------
(* Preparing an authorization.                                             *)

\* Mistake: there is room for one state more.
Remembering_OneMore(state) ==
    LET all == Append(consumed, state)
    IN  IF Len(all) > ReplayMemory + 1 THEN Tail(all) ELSE all

\* _remember_consumed_state: the oldest state is forgotten when there is no room.
Remembering(state) ==
    LET all == Append(consumed, state)
    IN  IF Len(all) > ReplayMemory THEN Tail(all) ELSE all

\* Mistake: the state of the attempt that is superseded is not remembered.
prepare_authorization_Forgets(expected) ==
    /\ pc = "idle"
    /\ prepared < MaxAttempts
    /\ prepared' = prepared + 1
    /\ pending' = [state |-> prepared + 1, expires |-> now + Ttl, expected |-> expected]
    /\ UNCHANGED <<serviceVars, store, consumed, snapshots, pc, op, revocation,
                   booted, exchanges, used>>

\* A new attempt supersedes the pending one.
prepare_authorization(expected) ==
    /\ pc = "idle"
    /\ prepared < MaxAttempts
    /\ prepared' = prepared + 1
    /\ pending' = [state |-> prepared + 1, expires |-> now + Ttl, expected |-> expected]
    /\ consumed' = IF pending = NoAttempt THEN consumed ELSE Remembering(pending.state)
    /\ UNCHANGED <<serviceVars, store, snapshots, pc, op, revocation,
                   booted, exchanges, used>>

\* Mistake: the attempt stays pending.
_consume_attempt_StaysPending ==
    /\ pending # NoAttempt
    /\ consumed' = Remembering(pending.state)
    /\ UNCHANGED pending

_consume_attempt ==
    /\ pending # NoAttempt
    /\ consumed' = Remembering(pending.state)
    /\ pending' = NoAttempt

\* Shown too late; in time, it only opens the browser.
present_authorization ==
    /\ pc = "idle"
    /\ pending # NoAttempt
    /\ now >= pending.expires
    /\ _consume_attempt
    /\ UNCHANGED <<serviceVars, store, snapshots, pc, op, revocation, historyVars>>

-----------------------------------------------------------------------------
(* Completing an authorization.                                            *)

\* How a callback that is not for the pending attempt is refused.
CallbackError(state) ==
    IF \E i \in 1..Len(consumed) : consumed[i] = state THEN "callback_replayed"
    ELSE IF pending = NoAttempt THEN "no_pending_authorization"
    ELSE "state_mismatch"

\* The callback of the pending attempt uses it up, whatever comes of it: it may be
\* late, or carry an error.
complete_authorization(carriesCode) ==
    /\ pc = "idle"
    /\ _consume_attempt
    /\ IF now < pending.expires /\ carriesCode
         THEN pc' = "exchange" /\ op' = [NoOperation EXCEPT !.attempt = pending]
         ELSE UNCHANGED <<pc, op>>
    /\ UNCHANGED <<serviceVars, store, snapshots, revocation, historyVars>>

\* The code is exchanged; a wider scope or an expiry in the past ends it there.
ExchangeCode(g) ==
    /\ pc = "exchange"
    /\ exchange_code(g)
    /\ exchanges' = Append(exchanges, op.attempt.state)
    /\ \E credentials \in Answers(g) :
         IF credentials.scope = "metadata" /\ credentials.expires > now
           THEN pc' = "identify" /\ op' = [op EXCEPT !.credentials = credentials]
           ELSE Finish
    /\ UNCHANGED <<store, memoryVars, revocation, prepared, booted, used>>

\* No answer: the code may have been exchanged all the same.
ExchangeFails ==
    /\ pc = "exchange"
    /\ UNCHANGED serviceVars \/ \E g \in Grants : exchange_code(g)
    /\ exchanges' = Append(exchanges, op.attempt.state)
    /\ Finish
    /\ UNCHANGED <<store, memoryVars, revocation, prepared, booted, used>>

\* The account that gave the grant must be the expected one, if there is one.
_verified_address ==
    /\ pc = "identify"
    /\ IF op.attempt.expected \in {None, Owner[op.credentials.access]}
         THEN pc' = "create" /\ UNCHANGED op
         ELSE Finish
    /\ UNCHANGED <<serviceVars, store, memoryVars, revocation, historyVars>>

\* The first record of a new account key.
CreateSession(k) ==
    /\ pc = "create"
    /\ k \notin used
    /\ _save_record(k, [address |-> Owner[op.credentials.access],
                        credentials |-> op.credentials, revoked |-> FALSE])
    /\ _set_snapshot(k, "connected")
    /\ used' = used \cup {k}
    /\ Finish
    /\ UNCHANGED <<serviceVars, pending, consumed, revocation, prepared, booted, exchanges>>

\* PROFILE_FAILED, RANDOM_SOURCE_INVALID, STORE_FAILED.
AuthorizationFails ==
    /\ pc \in {"identify", "create"}
    /\ Finish
    /\ UNCHANGED <<serviceVars, store, memoryVars, revocation, historyVars>>

-----------------------------------------------------------------------------
(* Restoring and refreshing.                                               *)

SessionStateOf(record) ==
    IF record = None THEN "disconnected"
    ELSE IF record.credentials.scope # "metadata" THEN "scope_mismatch"
    ELSE IF record.revoked THEN "revoked"
    ELSE IF record.credentials.expires <= now THEN "refresh_required"
    ELSE "connected"

restore_session(k) ==
    /\ pc = "idle"
    /\ _set_snapshot(k, SessionStateOf(store[k]))
    /\ UNCHANGED <<serviceVars, store, pending, consumed, pc, op, revocation, historyVars>>

Active(k) ==
    Stored(k) /\ store[k].credentials.scope = "metadata" /\ ~store[k].revoked

\* Mistake: a revoked session is refreshed like any other.
refresh_session_Revoked(k) ==
    /\ pc = "idle"
    /\ IF Stored(k) /\ store[k].credentials.refresh # None
         THEN /\ pc' = "refresh"
              /\ op' = [NoOperation EXCEPT !.key = k]
              /\ UNCHANGED snapshots
         ELSE /\ _set_snapshot(k, IF Active(k) THEN "refresh_required"
                                  ELSE SessionStateOf(store[k]))
              /\ UNCHANGED <<pc, op>>
    /\ UNCHANGED <<serviceVars, store, pending, consumed, revocation, historyVars>>

\* Without a record, a refresh token or a session to refresh, nothing is asked.
refresh_session(k) ==
    /\ pc = "idle"
    /\ IF Active(k) /\ store[k].credentials.refresh # None
         THEN /\ pc' = "refresh"
              /\ op' = [NoOperation EXCEPT !.key = k]
              /\ UNCHANGED snapshots
         ELSE /\ _set_snapshot(k, IF Active(k) THEN "refresh_required"
                                  ELSE SessionStateOf(store[k]))
              /\ UNCHANGED <<pc, op>>
    /\ UNCHANGED <<serviceVars, store, pending, consumed, revocation, historyVars>>

\* Mistake: the refresh token is the one of the answer, or none.
KeepingRefreshToken_Drops(old, new) == new

\* The service does not repeat a refresh token that stays valid.
KeepingRefreshToken(old, new) ==
    IF new.refresh = None THEN [new EXCEPT !.refresh = old.refresh] ELSE new

\* What the service answers need not be for the same account.
RemoteRefresh(g) ==
    /\ pc = "refresh"
    /\ grants[g] = "live"
    /\ \E refreshed \in Answers(g) :
         IF refreshed.scope = "metadata" /\ refreshed.expires > now
           THEN /\ pc' = "reidentify"
                /\ op' = [op EXCEPT !.credentials =
                            KeepingRefreshToken(store[op.key].credentials, refreshed)]
                /\ UNCHANGED snapshots
           ELSE /\ _set_snapshot(op.key, IF refreshed.scope # "metadata"
                                         THEN "scope_mismatch" ELSE "refresh_required")
                /\ Finish
    /\ UNCHANGED <<serviceVars, store, pending, consumed, revocation, historyVars>>

\* Mistake: the address is not compared.
ReverifyAddress_Trusts ==
    /\ pc = "reidentify"
    /\ pc' = "update" /\ UNCHANGED <<op, snapshots>>
    /\ UNCHANGED <<serviceVars, store, pending, consumed, revocation, historyVars>>

ReverifyAddress ==
    /\ pc = "reidentify"
    /\ IF Owner[op.credentials.access] = store[op.key].address
         THEN pc' = "update" /\ UNCHANGED <<op, snapshots>>
         ELSE _set_snapshot(op.key, "account_mismatch") /\ Finish
    /\ UNCHANGED <<serviceVars, store, pending, consumed, revocation, historyVars>>

UpdateSession ==
    /\ pc = "update"
    /\ _save_record(op.key, [store[op.key] EXCEPT !.credentials = op.credentials])
    /\ _set_snapshot(op.key, "connected")
    /\ Finish
    /\ UNCHANGED <<serviceVars, pending, consumed, revocation, historyVars>>

\* REFRESH_FAILED; PROFILE_FAILED and STORE_FAILED.
RefreshFails ==
    /\ pc \in {"refresh", "reidentify", "update"}
    /\ _set_snapshot(op.key, IF pc = "refresh" THEN "refresh_required" ELSE "failed")
    /\ Finish
    /\ UNCHANGED <<serviceVars, store, pending, consumed, revocation, historyVars>>

-----------------------------------------------------------------------------
(* Ending a session.                                                       *)

disconnect_local(k) ==
    /\ pc = "idle"
    /\ _set_snapshot(k, "disconnected")
    /\ UNCHANGED <<serviceVars, store, pending, consumed, pc, op, revocation, historyVars>>

\* The grant the program would revoke: that of the refresh token if there is one.
TokenToRevoke(credentials) ==
    IF credentials.refresh # None THEN credentials.refresh ELSE credentials.access

revoke_remote(k) ==
    /\ pc = "idle"
    /\ IF Stored(k) /\ ~store[k].revoked
         THEN /\ pc' = "revoke"
              /\ op' = [NoOperation EXCEPT !.key = k]
              /\ UNCHANGED revocation
         ELSE /\ revocation' = [key |-> k, remote_revoked |-> Stored(k)]
              /\ UNCHANGED <<pc, op>>
    /\ UNCHANGED <<serviceVars, store, memoryVars, historyVars>>

RemoteRevoke ==
    /\ pc = "revoke"
    /\ revoke(TokenToRevoke(store[op.key].credentials))
    /\ pc' = "mark_revoked"
    /\ UNCHANGED <<op, store, memoryVars, revocation, historyVars>>

\* Mistake: any answer counts as a success.
RevocationFails_AnyAnswer ==
    /\ pc = "revoke"
    /\ pc' = "mark_revoked"
    /\ UNCHANGED <<serviceVars, op, store, memoryVars, revocation, historyVars>>

\* Refused, or no answer: the grant may have ended all the same.
RevocationFails ==
    /\ pc = "revoke"
    /\ UNCHANGED serviceVars \/ revoke(TokenToRevoke(store[op.key].credentials))
    /\ _set_snapshot(op.key, IF store[op.key].credentials.expires <= now
                             THEN "refresh_required" ELSE "connected")
    /\ revocation' = [key |-> op.key, remote_revoked |-> FALSE]
    /\ Finish
    /\ UNCHANGED <<store, pending, consumed, historyVars>>

MarkRevoked ==
    /\ pc = "mark_revoked"
    /\ _save_record(op.key, [store[op.key] EXCEPT !.revoked = TRUE])
    /\ _set_snapshot(op.key, "revoked")
    /\ revocation' = [key |-> op.key, remote_revoked |-> TRUE]
    /\ Finish
    /\ UNCHANGED <<serviceVars, pending, consumed, historyVars>>

\* Mistake: the error of the store is swallowed and the session still looks in use.
MarkRevokedFails_Unnoticed ==
    /\ pc = "mark_revoked"
    /\ revocation' = [key |-> op.key, remote_revoked |-> TRUE]
    /\ Finish
    /\ UNCHANGED <<serviceVars, store, memoryVars, historyVars>>

MarkRevokedFails ==
    /\ pc = "mark_revoked"
    /\ _set_snapshot(op.key, "failed")
    /\ revocation' = [key |-> op.key, remote_revoked |-> TRUE]
    /\ Finish
    /\ UNCHANGED <<serviceVars, store, pending, consumed, historyVars>>

forget_local(k) ==
    /\ pc = "idle"
    /\ store' = [store EXCEPT ![k] = None]
    /\ _set_snapshot(k, "disconnected")
    /\ UNCHANGED <<serviceVars, pending, consumed, pc, op, revocation, historyVars>>

-----------------------------------------------------------------------------

\* The process ends between two steps and another one starts.
Crash ==
    /\ pending' = NewProcess.pending
    /\ consumed' = NewProcess.consumed
    /\ snapshots' = NewProcess.snapshots
    /\ revocation' = NoRevocation
    /\ booted' = prepared
    /\ Finish
    /\ UNCHANGED <<serviceVars, store, prepared, exchanges, used>>

ServiceChanges ==
    /\ ServiceNext
    /\ UNCHANGED <<store, memoryVars, pc, op, revocation, historyVars>>

Authorize ==
    \/ \E expected \in Addresses \cup {None} : prepare_authorization(expected)
    \/ present_authorization
    \/ \E carriesCode \in BOOLEAN : complete_authorization(carriesCode)
    \/ \E g \in Grants : ExchangeCode(g)
    \/ ExchangeFails
    \/ _verified_address
    \/ \E k \in Keys : CreateSession(k)
    \/ AuthorizationFails

Refresh ==
    \/ \E k \in Keys : refresh_session(k)
    \/ \E g \in Grants : RemoteRefresh(g)
    \/ ReverifyAddress \/ UpdateSession \/ RefreshFails

Revoke ==
    \/ \E k \in Keys : revoke_remote(k)
    \/ RemoteRevoke \/ RevocationFails \/ MarkRevoked \/ MarkRevokedFails

Next ==
    \/ Authorize
    \/ Refresh
    \/ Revoke
    \/ \E k \in Keys : restore_session(k) \/ disconnect_local(k) \/ forget_local(k)
    \/ Crash
    \/ ServiceChanges

Spec == Init /\ [][Next]_vars

-----------------------------------------------------------------------------
(* Properties.                                                             *)

\* What is stored for a key is of the account that was verified, both tokens, and
\* has the permitted scope and no other, after any number of refreshes
\* (_require_exact_scope, _verified_address and the comparison in refresh_session).
StoredIdentity ==
    \A k \in Keys : Stored(k) =>
        LET credentials == store[k].credentials IN
        /\ credentials.scope = "metadata"
        /\ Owner[credentials.access] = store[k].address
        /\ credentials.refresh # None => Owner[credentials.refresh] = store[k].address

\* A code is exchanged at most once, and never one of an attempt that a later one
\* superseded, in this process or after a restart (complete_authorization).
ExchangedOnce ==
    \A i, j \in 1..Len(exchanges) : i < j => exchanges[i] < exchanges[j]

\* The attempts of this process that are over.
Finished == {s \in booted + 1..prepared : s # pending.state}

\* A callback that comes again is recognised, as long as fewer attempts than
\* _consumed_state_digests has room for were finished since; and none is called
\* a replay that is not.
ReplaysRecognised ==
    \A s \in 1..prepared :
        /\ s \in Finished /\ Cardinality({r \in Finished : r > s}) < ReplayMemory
             => CallbackError(s) = "callback_replayed"
        /\ CallbackError(s) = "callback_replayed" => s \in Finished

\* A session is recorded, or reported, as revoked only once the service has ended
\* the grant behind it (revoke_remote).
RevokedIsRevoked ==
    \A k \in Keys :
        Stored(k) /\ (store[k].revoked \/ snapshots[k] = "revoked")
            => grants[TokenToRevoke(store[k].credentials)] = "revoked"

\* docs/contracts/GMAIL_SESSION_V1.md:145: a remote failure is never declared a
\* success.  And a success is never hidden: once the service has ended the grant,
\* the call tells so even if the record cannot be marked, and the session is shown
\* as revoked when it was marked and as failed when it was not.
RevocationIsTrue ==
    [][/\ revocation'.remote_revoked /\ revocation' # revocation
            => grants'[TokenToRevoke(store'[revocation'.key].credentials)] = "revoked"
       /\ pc = "mark_revoked" /\ pc' = "idle" /\ ~Crash
            => /\ revocation' = [key |-> op.key, remote_revoked |-> TRUE]
               /\ snapshots'[op.key] = IF store'[op.key].revoked THEN "revoked" ELSE "failed"]_vars

\* A session in use has a record behind it: one that was not forgotten and is not
\* marked as revoked, whatever the operations did since the snapshot was taken.
SnapshotIsBacked ==
    \A k \in Keys :
        /\ snapshots[k] # "disconnected" => Stored(k)
        /\ snapshots[k] \in {"connected", "refresh_required"} => ~store[k].revoked

\* Only forget_local loses the token that a revocation needs.
RefreshTokenKept ==
    [][\A k \in Keys :
         Stored(k) /\ store[k].credentials.refresh # None =>
            \/ Stored(k)' /\ store'[k].credentials.refresh # None
            \/ forget_local(k)]_vars

\* What the store, and having been in it, say of each account key.
KeyStatus ==
    [k \in Keys |->
        IF k \notin used THEN "unused"
        ELSE IF ~Stored(k) THEN "forgotten"
        ELSE IF store[k].revoked THEN "revoked" ELSE "held"]
KeyOwner == [k \in Keys |-> IF Stored(k) THEN store[k].address ELSE None]

Lifecycle == INSTANCE SessionLifecycle WITH
    NoAddress <- None, status <- KeyStatus, owner <- KeyOwner

\* An account key means one address and one life, through every failure.
ImplementsLifecycle == Lifecycle!Spec

=============================================================================
