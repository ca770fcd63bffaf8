------------------------ MODULE GmailSessionInvariant ------------------------
(***************************************************************************)
(* The inductive invariant behind the properties of GmailSession: what a   *)
(* running operation may rely on between its steps.                        *)
(***************************************************************************)
EXTENDS GmailSession

\* The number of the last attempt that is over.
LastFinished == IF pending = NoAttempt THEN prepared ELSE prepared - 1

\* The pending attempt is the last one prepared, and this process prepared it.
PendingIsNewest ==
    pending # NoAttempt => pending.state = prepared /\ booted < prepared

\* The last of the numbers first + 1 .. last, in order: as many as there is room
\* for.
LastOnes(states, first, last) ==
    /\ Len(states) = IF last - first < ReplayMemory THEN last - first ELSE ReplayMemory
    /\ \A i \in 1..Len(states) : states[i] = last - Len(states) + i

\* The states remembered are those of the last attempts that are over.
ConsumedInOrder == LastOnes(consumed, booted, LastFinished)

\* No attempt that may still be exchanged was exchanged before.
ExchangesSound ==
    /\ ExchangedOnce
    /\ \A i \in 1..Len(exchanges) : exchanges[i] <= LastFinished
    /\ pc = "exchange" => /\ pending = NoAttempt
                          /\ op.attempt.state = prepared
                          /\ \A i \in 1..Len(exchanges) : exchanges[i] < prepared

\* Credentials that were just received have the permitted scope.
CreateSound ==
    pc \in {"identify", "create"} =>
        /\ op.credentials # None
        /\ op.credentials.scope = "metadata"
        /\ op.credentials.refresh \in {None, op.credentials.access}

\* The session that is refreshed or revoked stays as it was loaded.
RefreshSound ==
    /\ pc \in {"refresh", "reidentify", "update"} =>
         /\ op.key # None
         /\ Active(op.key)
         /\ store[op.key].credentials.refresh # None
    /\ pc \in {"reidentify", "update"} =>
         /\ op.credentials # None
         /\ op.credentials.scope = "metadata"
         /\ op.credentials.refresh \in
              {op.credentials.access, store[op.key].credentials.refresh}
    /\ pc = "update" => Owner[op.credentials.access] = store[op.key].address

RevokeSound ==
    /\ pc \in {"revoke", "mark_revoked"} =>
         op.key # None /\ Stored(op.key) /\ ~store[op.key].revoked
    /\ pc = "mark_revoked" =>
         grants[TokenToRevoke(store[op.key].credentials)] = "revoked"

StoredWasUsed == \A k \in Keys : Stored(k) => k \in used

SessionInv ==
    /\ TypeOK
    /\ PendingIsNewest
    /\ ConsumedInOrder
    /\ ExchangesSound
    /\ CreateSound
    /\ RefreshSound
    /\ RevokeSound
    /\ StoredWasUsed
    /\ StoredIdentity
    /\ RevokedIsRevoked
    /\ SnapshotIsBacked

=============================================================================
