-------------------------- MODULE GmailSessionProofs --------------------------
(***************************************************************************)
(* The properties of GmailSession hold for every set of accounts, grants   *)
(* and account keys, every lifetime of an authorization, every length of   *)
(* the replay memory and every bound on clock and attempts.  SessionInv is *)
(* inductive; each lemma below takes some of its conjuncts through every   *)
(* action.                                                                 *)
(***************************************************************************)
EXTENDS GmailSessionInvariant, TLAPS, FiniteSetTheorems

USE OAuthAssumption, SessionAssumption, RecordAssumption

-----------------------------------------------------------------------------
(* Helpers.                                                                *)

\* The memory of used states keeps its type and its bound.
LEMMA RememberingType ==
    ASSUME consumed \in Seq(Nat), Len(consumed) <= ReplayMemory, NEW s \in Nat
    PROVE  /\ Remembering(s) \in Seq(Nat)
           /\ Len(Remembering(s)) <= ReplayMemory
  BY DEF Remembering

\* What the service answers is a CredentialBundle.
LEMMA AnswersType ==
    ASSUME NEW g \in Grants, now \in Nat
    PROVE  Answers(g) \subseteq CredentialBundle
  BY DEF Answers, CredentialBundle

\* And stays one when the old refresh token is kept.
LEMMA KeepingType ==
    ASSUME NEW old \in CredentialBundle, NEW new \in CredentialBundle
    PROVE  KeepingRefreshToken(old, new) \in CredentialBundle
  BY DEF KeepingRefreshToken, CredentialBundle

\* The locals an operation starts from, and what a received answer adds to them.
LEMMA OperationType ==
    /\ NoOperation \in Operations
    /\ \A k \in Keys : [NoOperation EXCEPT !.key = k] \in Operations
    /\ \A a \in PendingAttempt : [NoOperation EXCEPT !.attempt = a] \in Operations
    /\ \A o \in Operations, c \in CredentialBundle :
         [o EXCEPT !.credentials = c] \in Operations
  BY DEF Operations, NoOperation, PendingAttempt, NoAttempt

\* The fields of a record, and the records the operations make of it.
LEMMA RecordType ==
    /\ \A a \in Addresses, c \in CredentialBundle, b \in BOOLEAN :
         [address |-> a, credentials |-> c, revoked |-> b] \in StoredSessionRecord
    /\ \A r \in StoredSessionRecord, c \in CredentialBundle :
         [r EXCEPT !.credentials = c] \in StoredSessionRecord
    /\ \A r \in StoredSessionRecord : [r EXCEPT !.revoked = TRUE] \in StoredSessionRecord
    /\ \A r \in StoredSessionRecord :
         r.credentials \in CredentialBundle /\ r.address \in Addresses
    /\ \A c \in CredentialBundle : c.access \in Grants
    /\ \A o \in Operations :
         /\ o.key \in Keys \cup {None}
         /\ o.credentials \in CredentialBundle \cup {None}
         /\ o.attempt \in PendingAttempt
  BY DEF StoredSessionRecord, Operations, CredentialBundle

\* Forgetting the oldest state keeps the last ones, in order.
LEMMA RememberingOrder ==
    ASSUME consumed \in Seq(Nat), NEW first \in Nat, NEW last \in Nat, first <= last,
           LastOnes(consumed, first, last)
    PROVE  LastOnes(Remembering(last + 1), first, last + 1)
<1> DEFINE longer == Append(consumed, last + 1)
<1>1. Len(consumed) \in Nat
  OBVIOUS
<1>2. /\ Len(longer) = Len(consumed) + 1
      /\ \A i \in 1..Len(longer) : longer[i] = last - Len(consumed) + i
  <2>1. /\ Len(longer) = Len(consumed) + 1
        /\ longer[Len(consumed) + 1] = last + 1
        /\ \A i \in 1..Len(consumed) : longer[i] = consumed[i]
    OBVIOUS
  <2> QED
    BY <1>1, <2>1 DEF LastOnes
<1>3. longer \in Seq(Nat)
  OBVIOUS
<1>4. Remembering(last + 1) = IF Len(longer) > ReplayMemory THEN Tail(longer) ELSE longer
  BY DEF Remembering
<1>5. CASE Len(longer) > ReplayMemory
  <2>1. Len(consumed) = ReplayMemory
    BY <1>1, <1>2, <1>5 DEF LastOnes
  <2>2. /\ Len(Tail(longer)) = ReplayMemory
        /\ \A i \in 1..Len(Tail(longer)) : Tail(longer)[i] = longer[i + 1]
    BY <1>2, <1>3, <1>5, <2>1
  <2> HIDE DEF longer
  <2>3. \A i \in 1..ReplayMemory : i + 1 \in 1..Len(longer)
    BY <1>2, <2>1
  <2>4. \A i \in 1..Len(Tail(longer)) : Tail(longer)[i] = last + 1 - ReplayMemory + i
    BY <1>2, <2>1, <2>2, <2>3
  <2> QED
    <3> DEFINE shorter == Tail(longer)
    <3>1. last - first >= ReplayMemory
      BY <2>1 DEF LastOnes
    <3>2. /\ Len(shorter) = ReplayMemory
          /\ \A i \in 1..Len(shorter) : shorter[i] = last + 1 - Len(shorter) + i
      BY <2>2, <2>4
    <3> HIDE DEF shorter
    <3>3. LastOnes(shorter, first, last + 1)
      BY <3>1, <3>2 DEF LastOnes
    <3> QED
      BY <1>4, <1>5, <3>3 DEF shorter
<1>6. CASE ~(Len(longer) > ReplayMemory)
  <2> HIDE DEF longer
  <2>1. Len(consumed) = last - first
    BY <1>1, <1>2, <1>6 DEF LastOnes
  <2> QED
    <3>1. LastOnes(longer, first, last + 1)
      BY <1>1, <1>2, <1>6, <2>1 DEF LastOnes
    <3> QED
      BY <1>4, <1>6, <3>1
<1> QED
  BY <1>5, <1>6

\* A later state keeps the exchanged ones in order.
LEMMA AppendInOrder ==
    ASSUME exchanges \in Seq(Nat), ExchangedOnce, NEW s \in Nat,
           \A i \in 1..Len(exchanges) : exchanges[i] < s
    PROVE  LET longer == Append(exchanges, s)
           IN  /\ \A i, j \in 1..Len(longer) : i < j => longer[i] < longer[j]
               /\ \A i \in 1..Len(longer) : longer[i] <= s
  BY DEF ExchangedOnce

\* No grant comes back to life.
LEMMA RevokedForGood ==
    ASSUME SessionInv, [Next]_vars
    PROVE  \A g \in Grants : grants[g] = "revoked" => grants'[g] = "revoked"
<1> USE DEF SessionInv, TypeOK, ServiceTypeOK, serviceVars
<1>1. CASE Authorize
  <2>1. \A g \in Grants : exchange_code(g) => \A h \in Grants :
            grants[h] = "revoked" => grants'[h] = "revoked"
    BY DEF exchange_code
  <2> QED
    BY <1>1, <2>1 DEF Authorize, prepare_authorization, present_authorization,
       complete_authorization, ExchangeCode, ExchangeFails, _verified_address,
       CreateSession, AuthorizationFails
<1>2. CASE Refresh
  BY <1>2 DEF Refresh, refresh_session, RemoteRefresh, ReverifyAddress,
     UpdateSession, RefreshFails
<1>3. CASE Revoke
  <2>1. \A g : revoke(g) => \A h \in Grants :
            grants[h] = "revoked" => grants'[h] = "revoked"
    BY DEF revoke
  <2> QED
    BY <1>3, <2>1 DEF Revoke, revoke_remote, RemoteRevoke, RevocationFails,
       MarkRevoked, MarkRevokedFails
<1>4. CASE \E k \in Keys : restore_session(k) \/ disconnect_local(k) \/ forget_local(k)
  BY <1>4 DEF restore_session, disconnect_local, forget_local
<1>5. CASE Crash
  BY <1>5 DEF Crash
<1>6. CASE ServiceChanges
  BY <1>6 DEF ServiceChanges, ServiceNext, Tick, UserRevokes
<1>7. CASE UNCHANGED vars
  BY <1>7 DEF vars
<1> QED
  BY <1>1, <1>2, <1>3, <1>4, <1>5, <1>6, <1>7 DEF Next

-----------------------------------------------------------------------------
(* The inductive invariant.                                                *)

\* It holds at the start.
LEMMA InitInv == Init => SessionInv
<1>1. Init => TypeOK
  BY DEF Init, ServiceInit, NewProcess, TypeOK, ServiceTypeOK, Operations,
         NoOperation, NoAttempt, PendingAttempt, Steps, SessionStates,
         RevocationResults, NoRevocation
<1>2. Init => PendingIsNewest /\ ConsumedInOrder /\ ExchangesSound
  BY DEF Init, NewProcess, PendingIsNewest, ConsumedInOrder, ExchangesSound,
         ExchangedOnce, LastFinished, LastOnes
<1>3. Init => CreateSound /\ RefreshSound /\ RevokeSound /\ StoredWasUsed
  BY DEF Init, NewProcess, CreateSound, RefreshSound, RevokeSound, StoredWasUsed, Stored
<1>4. Init => StoredIdentity /\ RevokedIsRevoked /\ SnapshotIsBacked
  BY DEF Init, NewProcess, StoredIdentity, RevokedIsRevoked, SnapshotIsBacked, Stored
<1> QED
  BY <1>1, <1>2, <1>3, <1>4 DEF SessionInv

\* The service keeps its type.
LEMMA ServiceTypeStep ==
    ASSUME SessionInv, [Next]_vars
    PROVE  ServiceTypeOK'
<1> USE DEF SessionInv, TypeOK, ServiceTypeOK, serviceVars, memoryVars,
      historyVars
<1>1. ASSUME NEW expected \in Addresses \cup {None}, prepare_authorization(expected)
      PROVE  ServiceTypeOK'
  BY <1>1 DEF prepare_authorization
<1>2. CASE present_authorization
  BY <1>2 DEF present_authorization, _consume_attempt
<1>3. ASSUME NEW carriesCode \in BOOLEAN, complete_authorization(carriesCode)
      PROVE  ServiceTypeOK'
  BY <1>3 DEF complete_authorization, _consume_attempt
<1>4. ASSUME NEW g \in Grants, ExchangeCode(g)
      PROVE  ServiceTypeOK'
  BY <1>4 DEF ExchangeCode, exchange_code, Finish
<1>5. CASE ExchangeFails
  <2>1. \A g \in Grants : exchange_code(g) => ServiceTypeOK'
    BY DEF exchange_code
  <2> QED
    BY <1>5, <2>1 DEF ExchangeFails
<1>6. CASE _verified_address
  BY <1>6 DEF _verified_address, Finish
<1>7. ASSUME NEW k \in Keys, CreateSession(k)
      PROVE  ServiceTypeOK'
  BY <1>7 DEF CreateSession, _save_record, _set_snapshot, Finish
<1>8. CASE AuthorizationFails
  BY <1>8 DEF AuthorizationFails, Finish
<1>9. ASSUME NEW k \in Keys, refresh_session(k)
      PROVE  ServiceTypeOK'
  BY <1>9 DEF refresh_session, SessionStateOf, _set_snapshot
<1>10. ASSUME NEW g \in Grants, RemoteRefresh(g)
      PROVE  ServiceTypeOK'
  BY <1>10 DEF RemoteRefresh, _set_snapshot, Finish
<1>11. CASE ReverifyAddress
  BY <1>11 DEF ReverifyAddress, _set_snapshot, Finish
<1>12. CASE UpdateSession
  BY <1>12 DEF UpdateSession, _save_record, _set_snapshot, Finish
<1>13. CASE RefreshFails
  BY <1>13 DEF RefreshFails, _set_snapshot, Finish
<1>14. ASSUME NEW k \in Keys, revoke_remote(k)
      PROVE  ServiceTypeOK'
  BY <1>14 DEF revoke_remote
<1>15. CASE RemoteRevoke
  BY <1>15 DEF RemoteRevoke, revoke
<1>16. CASE RevocationFails
  <2>1. \A g : revoke(g) => ServiceTypeOK'
    BY DEF revoke
  <2> QED
    BY <1>16, <2>1 DEF RevocationFails
<1>17. CASE MarkRevoked
  BY <1>17 DEF MarkRevoked, _save_record, _set_snapshot, Finish
<1>18. CASE MarkRevokedFails
  BY <1>18 DEF MarkRevokedFails, _set_snapshot, Finish
<1>19. ASSUME NEW k \in Keys, restore_session(k)
      PROVE  ServiceTypeOK'
  BY <1>19 DEF restore_session, SessionStateOf, _set_snapshot
<1>20. ASSUME NEW k \in Keys, disconnect_local(k)
      PROVE  ServiceTypeOK'
  BY <1>20 DEF disconnect_local, _set_snapshot
<1>21. ASSUME NEW k \in Keys, forget_local(k)
      PROVE  ServiceTypeOK'
  BY <1>21 DEF forget_local, _set_snapshot
<1>22. CASE Crash
  BY <1>22 DEF Crash, NewProcess, Finish
<1>23. CASE ServiceChanges
  <2>1. Tick => ServiceTypeOK'
    BY DEF Tick
  <2>2. \A g \in Grants : UserRevokes(g) => ServiceTypeOK'
    BY DEF UserRevokes
  <2> QED
    BY <1>23, <2>1, <2>2 DEF ServiceChanges, ServiceNext
<1>24. CASE UNCHANGED vars
  BY <1>24 DEF vars
<1> QED
  BY <1>1, <1>2, <1>3, <1>4, <1>5, <1>6, <1>7, <1>8, <1>9, <1>10, <1>11, <1>12,
      <1>13, <1>14, <1>15, <1>16, <1>17, <1>18, <1>19, <1>20, <1>21, <1>22, <1>23,
      <1>24 DEF Next, Authorize, Refresh, Revoke

\* The part of TypeOK that needs nothing of the records.
ScalarsOK ==
    /\ pending \in PendingAttempt
    /\ consumed \in Seq(Nat) /\ Len(consumed) <= ReplayMemory
    /\ snapshots \in [Keys -> SessionStates]
    /\ pc \in Steps
    /\ revocation \in RevocationResults
    /\ prepared \in Nat
    /\ booted \in 0..prepared
    /\ exchanges \in Seq(Nat)
    /\ used \in SUBSET Keys

\* So does what the object keeps in memory, and what is known of its history.
LEMMA ScalarTypeStep ==
    ASSUME SessionInv, [Next]_vars
    PROVE  ScalarsOK'
<1> USE DEF SessionInv, ScalarsOK, TypeOK, ServiceTypeOK, serviceVars, memoryVars,
      historyVars, PendingAttempt, NoAttempt, SessionStates, Steps,
      RevocationResults, NoRevocation, Active, Stored, CreateSound, RefreshSound,
      RevokeSound
<1>1. ASSUME NEW expected \in Addresses \cup {None}, prepare_authorization(expected)
      PROVE  ScalarsOK'
  <2>1. pending' \in PendingAttempt
    BY <1>1 DEF prepare_authorization
  <2>2. consumed' \in Seq(Nat) /\ Len(consumed') <= ReplayMemory
    BY <1>1, RememberingType DEF prepare_authorization
  <2> QED
    BY <1>1, <2>1, <2>2 DEF prepare_authorization
<1>2. CASE present_authorization
  BY <1>2, RememberingType DEF present_authorization, _consume_attempt
<1>3. ASSUME NEW carriesCode \in BOOLEAN, complete_authorization(carriesCode)
      PROVE  ScalarsOK'
  BY <1>3, RememberingType DEF complete_authorization, _consume_attempt
<1>4. ASSUME NEW g \in Grants, ExchangeCode(g)
      PROVE  ScalarsOK'
  BY <1>4, RecordType DEF ExchangeCode, exchange_code, Finish
<1>5. CASE ExchangeFails
  BY <1>5, RecordType DEF ExchangeFails, exchange_code, Finish
<1>6. CASE _verified_address
  BY <1>6, RecordType DEF _verified_address, Finish
<1>7. ASSUME NEW k \in Keys, CreateSession(k)
      PROVE  ScalarsOK'
  BY <1>7, RecordType DEF CreateSession, _save_record, _set_snapshot, Finish
<1>8. CASE AuthorizationFails
  BY <1>8, RecordType DEF AuthorizationFails, Finish
<1>9. ASSUME NEW k \in Keys, refresh_session(k)
      PROVE  ScalarsOK'
  BY <1>9, RecordType DEF refresh_session, SessionStateOf, _set_snapshot
<1>10. ASSUME NEW g \in Grants, RemoteRefresh(g)
      PROVE  ScalarsOK'
  BY <1>10, RecordType DEF RemoteRefresh, _set_snapshot, Finish
<1>11. CASE ReverifyAddress
  BY <1>11, RecordType DEF ReverifyAddress, _set_snapshot, Finish
<1>12. CASE UpdateSession
  BY <1>12, RecordType DEF UpdateSession, _save_record, _set_snapshot, Finish
<1>13. CASE RefreshFails
  BY <1>13, RecordType DEF RefreshFails, _set_snapshot, Finish
<1>14. ASSUME NEW k \in Keys, revoke_remote(k)
      PROVE  ScalarsOK'
  <2>1. revocation' = revocation \/ \E b \in BOOLEAN : revocation' = [key |-> k, remote_revoked |-> b]
    <3>1. CASE Stored(k)
      BY <1>14, <3>1 DEF revoke_remote
    <3>2. CASE ~Stored(k)
      BY <1>14, <3>2 DEF revoke_remote
    <3> QED
      BY <3>1, <3>2
  <2>3. revocation' \in RevocationResults
    BY <2>1
  <2> QED
    BY <1>14, <2>3 DEF revoke_remote
<1>15. CASE RemoteRevoke
  BY <1>15, RecordType DEF RemoteRevoke, revoke
<1>16. CASE RevocationFails
  BY <1>16, RecordType DEF RevocationFails, revoke, _set_snapshot, Finish
<1>17. CASE MarkRevoked
  BY <1>17, RecordType DEF MarkRevoked, _save_record, _set_snapshot, Finish
<1>18. CASE MarkRevokedFails
  BY <1>18, RecordType DEF MarkRevokedFails, _set_snapshot, Finish
<1>19. ASSUME NEW k \in Keys, restore_session(k)
      PROVE  ScalarsOK'
  BY <1>19, RecordType DEF restore_session, SessionStateOf, _set_snapshot
<1>20. ASSUME NEW k \in Keys, disconnect_local(k)
      PROVE  ScalarsOK'
  BY <1>20, RecordType DEF disconnect_local, _set_snapshot
<1>21. ASSUME NEW k \in Keys, forget_local(k)
      PROVE  ScalarsOK'
  BY <1>21, RecordType DEF forget_local, _set_snapshot
<1>22. CASE Crash
  BY <1>22, RecordType DEF Crash, NewProcess, Finish
<1>23. CASE ServiceChanges
  BY <1>23, RecordType DEF ServiceChanges, ServiceNext, Tick, UserRevokes
<1>24. CASE UNCHANGED vars
  BY <1>24, RecordType DEF vars
<1> QED
  BY <1>1, <1>2, <1>3, <1>4, <1>5, <1>6, <1>7, <1>8, <1>9, <1>10, <1>11, <1>12,
      <1>13, <1>14, <1>15, <1>16, <1>17, <1>18, <1>19, <1>20, <1>21, <1>22, <1>23,
      <1>24 DEF Next, Authorize, Refresh, Revoke

\* And so do the store and the locals of the operation.
LEMMA RecordTypeStep ==
    ASSUME SessionInv, [Next]_vars
    PROVE  (store \in [Keys -> StoredSessionRecord \cup {None}] /\ op \in Operations)'
<1> USE DEF SessionInv, TypeOK, ServiceTypeOK, serviceVars, memoryVars,
      historyVars, Active, Stored, CreateSound, RefreshSound, RevokeSound
<1>1. ASSUME NEW expected \in Addresses \cup {None}, prepare_authorization(expected)
      PROVE  (store \in [Keys -> StoredSessionRecord \cup {None}] /\ op \in Operations)'
  BY <1>1, RecordType, OperationType DEF prepare_authorization
<1>2. CASE present_authorization
  BY <1>2, RecordType, OperationType DEF present_authorization, _consume_attempt
<1>3. ASSUME NEW carriesCode \in BOOLEAN, complete_authorization(carriesCode)
      PROVE  (store \in [Keys -> StoredSessionRecord \cup {None}] /\ op \in Operations)'
  BY <1>3, RecordType, OperationType DEF complete_authorization, _consume_attempt
<1>4. ASSUME NEW g \in Grants, ExchangeCode(g)
      PROVE  (store \in [Keys -> StoredSessionRecord \cup {None}] /\ op \in Operations)'
  BY <1>4, AnswersType, OperationType DEF ExchangeCode, Finish
<1>5. CASE ExchangeFails
  BY <1>5, RecordType, OperationType DEF ExchangeFails, exchange_code, Finish
<1>6. CASE _verified_address
  BY <1>6, RecordType, OperationType DEF _verified_address, Finish
<1>7. ASSUME NEW k \in Keys, CreateSession(k)
      PROVE  (store \in [Keys -> StoredSessionRecord \cup {None}] /\ op \in Operations)'
  BY <1>7, RecordType, OperationType DEF CreateSession, _save_record,
      _set_snapshot, Finish
<1>8. CASE AuthorizationFails
  BY <1>8, RecordType, OperationType DEF AuthorizationFails, Finish
<1>9. ASSUME NEW k \in Keys, refresh_session(k)
      PROVE  (store \in [Keys -> StoredSessionRecord \cup {None}] /\ op \in Operations)'
  BY <1>9, RecordType, OperationType DEF refresh_session, SessionStateOf,
      _set_snapshot
<1>10. ASSUME NEW g \in Grants, RemoteRefresh(g)
      PROVE  (store \in [Keys -> StoredSessionRecord \cup {None}] /\ op \in Operations)'
  BY <1>10, AnswersType, KeepingType, RecordType, OperationType
     DEF RemoteRefresh, Finish
<1>11. CASE ReverifyAddress
  BY <1>11, RecordType, OperationType DEF ReverifyAddress, _set_snapshot, Finish
<1>12. CASE UpdateSession
  BY <1>12, RecordType, OperationType DEF UpdateSession, _save_record,
      _set_snapshot, Finish
<1>13. CASE RefreshFails
  BY <1>13, RecordType, OperationType DEF RefreshFails, _set_snapshot, Finish
<1>14. ASSUME NEW k \in Keys, revoke_remote(k)
      PROVE  (store \in [Keys -> StoredSessionRecord \cup {None}] /\ op \in Operations)'
  BY <1>14, RecordType, OperationType DEF revoke_remote
<1>15. CASE RemoteRevoke
  BY <1>15, RecordType, OperationType DEF RemoteRevoke, revoke
<1>16. CASE RevocationFails
  BY <1>16, RecordType, OperationType DEF RevocationFails, revoke, _set_snapshot,
      Finish
<1>17. CASE MarkRevoked
  BY <1>17, RecordType, OperationType DEF MarkRevoked, _save_record,
      _set_snapshot, Finish
<1>18. CASE MarkRevokedFails
  BY <1>18, RecordType, OperationType DEF MarkRevokedFails, _set_snapshot, Finish
<1>19. ASSUME NEW k \in Keys, restore_session(k)
      PROVE  (store \in [Keys -> StoredSessionRecord \cup {None}] /\ op \in Operations)'
  BY <1>19, RecordType, OperationType DEF restore_session, SessionStateOf,
      _set_snapshot
<1>20. ASSUME NEW k \in Keys, disconnect_local(k)
      PROVE  (store \in [Keys -> StoredSessionRecord \cup {None}] /\ op \in Operations)'
  BY <1>20, RecordType, OperationType DEF disconnect_local, _set_snapshot
<1>21. ASSUME NEW k \in Keys, forget_local(k)
      PROVE  (store \in [Keys -> StoredSessionRecord \cup {None}] /\ op \in Operations)'
  BY <1>21, RecordType, OperationType DEF forget_local, _set_snapshot
<1>22. CASE Crash
  BY <1>22, RecordType, OperationType DEF Crash, NewProcess, Finish
<1>23. CASE ServiceChanges
  BY <1>23, RecordType, OperationType DEF ServiceChanges, ServiceNext, Tick,
      UserRevokes
<1>24. CASE UNCHANGED vars
  BY <1>24, RecordType, OperationType DEF vars
<1> QED
  BY <1>1, <1>2, <1>3, <1>4, <1>5, <1>6, <1>7, <1>8, <1>9, <1>10, <1>11, <1>12,
      <1>13, <1>14, <1>15, <1>16, <1>17, <1>18, <1>19, <1>20, <1>21, <1>22, <1>23,
      <1>24 DEF Next, Authorize, Refresh, Revoke

\* When the pending attempt is over its state is the newest one remembered.
LEMMA ConsumingOrder ==
    ASSUME SessionInv, pending # NoAttempt
    PROVE  LastOnes(Remembering(prepared), booted, prepared)
<1> DEFINE last == prepared - 1
<1>1. /\ prepared \in Nat
      /\ booted \in Nat
      /\ booted < prepared
      /\ consumed \in Seq(Nat)
  BY DEF SessionInv, TypeOK, ServiceTypeOK, PendingIsNewest
<1>2. /\ last \in Nat
      /\ booted <= last
      /\ last + 1 = prepared
  BY <1>1
<1>3. LastFinished = last
  BY DEF LastFinished
<1>4. LastOnes(consumed, booted, last)
  BY <1>3 DEF SessionInv, ConsumedInOrder
<1> HIDE DEF last
<1>5. LastOnes(Remembering(last + 1), booted, last + 1)
  BY <1>1, <1>2, <1>4, RememberingOrder
<1> QED
  BY <1>2, <1>5

\* Attempts are used up in order, each once.
LEMMA AttemptStep ==
    ASSUME SessionInv, [Next]_vars
    PROVE  (PendingIsNewest /\ ConsumedInOrder /\ ExchangesSound)'
<1> USE DEF SessionInv, TypeOK, ServiceTypeOK, serviceVars, memoryVars,
      historyVars, PendingIsNewest, ConsumedInOrder, ExchangesSound,
      ExchangedOnce, LastFinished
<1>1. ASSUME NEW expected \in Addresses \cup {None}, prepare_authorization(expected)
      PROVE  (PendingIsNewest /\ ConsumedInOrder /\ ExchangesSound)'
  <2>1. CASE pending = NoAttempt
    <3>1. /\ pending' # NoAttempt
          /\ pending'.state = prepared + 1
          /\ prepared' = prepared + 1
          /\ pc' # "exchange"
          /\ UNCHANGED <<consumed, booted, exchanges>>
      BY <1>1, <2>1 DEF prepare_authorization, NoAttempt
    <3> QED
      BY <2>1, <3>1
  <2>2. CASE pending # NoAttempt
    <3>1. /\ pending' # NoAttempt
          /\ pending'.state = prepared + 1
          /\ prepared' = prepared + 1
          /\ pc' # "exchange"
          /\ consumed' = Remembering(prepared)
          /\ UNCHANGED <<booted, exchanges>>
      BY <1>1, <2>2 DEF prepare_authorization, NoAttempt
    <3>2. LastOnes(consumed', booted, prepared)
      BY <2>2, <3>1, ConsumingOrder
    <3> QED
      BY <2>2, <3>1, <3>2
  <2> QED
    BY <2>1, <2>2
<1>2. CASE present_authorization
  <2>1. /\ pending # NoAttempt
        /\ pending' = NoAttempt
        /\ consumed' = Remembering(prepared)
        /\ pc' # "exchange"
        /\ UNCHANGED <<prepared, booted, exchanges>>
    BY <1>2 DEF present_authorization, _consume_attempt
  <2>2. LastOnes(consumed', booted, prepared)
    BY <2>1, ConsumingOrder
  <2> QED
    BY <2>1, <2>2
<1>3. ASSUME NEW carriesCode \in BOOLEAN, complete_authorization(carriesCode)
      PROVE  (PendingIsNewest /\ ConsumedInOrder /\ ExchangesSound)'
  <2>1. /\ pending # NoAttempt
        /\ pending' = NoAttempt
        /\ consumed' = Remembering(prepared)
        /\ pc' = "exchange" => op'.attempt.state = prepared
        /\ UNCHANGED <<prepared, booted, exchanges>>
    BY <1>3 DEF complete_authorization, _consume_attempt, NoOperation
  <2>2. LastOnes(consumed', booted, prepared)
    BY <2>1, ConsumingOrder
  <2>3. \A i \in 1..Len(exchanges) : exchanges[i] \in Nat /\ exchanges[i] < prepared
    BY <2>1
  <2> QED
    BY <2>1, <2>2, <2>3
<1>4. ASSUME NEW g \in Grants, ExchangeCode(g)
      PROVE  (PendingIsNewest /\ ConsumedInOrder /\ ExchangesSound)'
  <2>1. /\ exchanges' = Append(exchanges, prepared)
        /\ \A i \in 1..Len(exchanges) : exchanges[i] < prepared
        /\ pending = NoAttempt
        /\ pc' # "exchange"
        /\ UNCHANGED <<pending, consumed, prepared, booted>>
    BY <1>4 DEF ExchangeCode, Finish
  <2>2. /\ \A i, j \in 1..Len(exchanges') : i < j => exchanges'[i] < exchanges'[j]
        /\ \A i \in 1..Len(exchanges') : exchanges'[i] <= prepared
    BY <2>1, AppendInOrder
  <2> QED
    BY <2>1, <2>2
<1>5. CASE ExchangeFails
  <2>1. /\ exchanges' = Append(exchanges, prepared)
        /\ \A i \in 1..Len(exchanges) : exchanges[i] < prepared
        /\ pending = NoAttempt
        /\ pc' # "exchange"
        /\ UNCHANGED <<pending, consumed, prepared, booted>>
    BY <1>5 DEF ExchangeFails, Finish
  <2>2. /\ \A i, j \in 1..Len(exchanges') : i < j => exchanges'[i] < exchanges'[j]
        /\ \A i \in 1..Len(exchanges') : exchanges'[i] <= prepared
    BY <2>1, AppendInOrder
  <2> QED
    BY <2>1, <2>2
<1>6. CASE _verified_address
  BY <1>6 DEF _verified_address, Finish
<1>7. ASSUME NEW k \in Keys, CreateSession(k)
      PROVE  (PendingIsNewest /\ ConsumedInOrder /\ ExchangesSound)'
  BY <1>7 DEF CreateSession, _save_record, _set_snapshot, Finish
<1>8. CASE AuthorizationFails
  BY <1>8 DEF AuthorizationFails, Finish
<1>9. ASSUME NEW k \in Keys, refresh_session(k)
      PROVE  (PendingIsNewest /\ ConsumedInOrder /\ ExchangesSound)'
  BY <1>9 DEF refresh_session, SessionStateOf, _set_snapshot
<1>10. ASSUME NEW g \in Grants, RemoteRefresh(g)
      PROVE  (PendingIsNewest /\ ConsumedInOrder /\ ExchangesSound)'
  BY <1>10 DEF RemoteRefresh, _set_snapshot, Finish
<1>11. CASE ReverifyAddress
  BY <1>11 DEF ReverifyAddress, _set_snapshot, Finish
<1>12. CASE UpdateSession
  BY <1>12 DEF UpdateSession, _save_record, _set_snapshot, Finish
<1>13. CASE RefreshFails
  BY <1>13 DEF RefreshFails, _set_snapshot, Finish
<1>14. ASSUME NEW k \in Keys, revoke_remote(k)
      PROVE  (PendingIsNewest /\ ConsumedInOrder /\ ExchangesSound)'
  BY <1>14 DEF revoke_remote
<1>15. CASE RemoteRevoke
  BY <1>15 DEF RemoteRevoke, revoke
<1>16. CASE RevocationFails
  BY <1>16 DEF RevocationFails, revoke, _set_snapshot, Finish
<1>17. CASE MarkRevoked
  BY <1>17 DEF MarkRevoked, _save_record, _set_snapshot, Finish
<1>18. CASE MarkRevokedFails
  BY <1>18 DEF MarkRevokedFails, _set_snapshot, Finish
<1>19. ASSUME NEW k \in Keys, restore_session(k)
      PROVE  (PendingIsNewest /\ ConsumedInOrder /\ ExchangesSound)'
  BY <1>19 DEF restore_session, SessionStateOf, _set_snapshot
<1>20. ASSUME NEW k \in Keys, disconnect_local(k)
      PROVE  (PendingIsNewest /\ ConsumedInOrder /\ ExchangesSound)'
  BY <1>20 DEF disconnect_local, _set_snapshot
<1>21. ASSUME NEW k \in Keys, forget_local(k)
      PROVE  (PendingIsNewest /\ ConsumedInOrder /\ ExchangesSound)'
  BY <1>21 DEF forget_local, _set_snapshot
<1>22. CASE Crash
  BY <1>22 DEF Crash, NewProcess, Finish, LastOnes
<1>23. CASE ServiceChanges
  BY <1>23 DEF ServiceChanges, ServiceNext, Tick, UserRevokes
<1>24. CASE UNCHANGED vars
  BY <1>24 DEF vars
<1> QED
  BY <1>1, <1>2, <1>3, <1>4, <1>5, <1>6, <1>7, <1>8, <1>9, <1>10, <1>11, <1>12,
      <1>13, <1>14, <1>15, <1>16, <1>17, <1>18, <1>19, <1>20, <1>21, <1>22, <1>23,
      <1>24 DEF Next, Authorize, Refresh, Revoke

\* A running operation may rely on what it has checked.
LEMMA OperationStep ==
    ASSUME SessionInv, [Next]_vars
    PROVE  (CreateSound /\ RefreshSound /\ RevokeSound)'
<1> USE DEF SessionInv, TypeOK, ServiceTypeOK, serviceVars, memoryVars,
      historyVars, CreateSound, RefreshSound, RevokeSound, Active, Stored,
      TokenToRevoke
<1>1. ASSUME NEW expected \in Addresses \cup {None}, prepare_authorization(expected)
      PROVE  (CreateSound /\ RefreshSound /\ RevokeSound)'
  BY <1>1, RecordType DEF prepare_authorization
<1>2. CASE present_authorization
  BY <1>2, RecordType DEF present_authorization, _consume_attempt
<1>3. ASSUME NEW carriesCode \in BOOLEAN, complete_authorization(carriesCode)
      PROVE  (CreateSound /\ RefreshSound /\ RevokeSound)'
  BY <1>3, RecordType DEF complete_authorization, _consume_attempt
<1>4. ASSUME NEW g \in Grants, ExchangeCode(g)
      PROVE  (CreateSound /\ RefreshSound /\ RevokeSound)'
  <2>1. PICK credentials \in Answers(g) :
          \/ /\ credentials.scope = "metadata"
             /\ pc' = "identify"
             /\ op' = [op EXCEPT !.credentials = credentials]
          \/ pc' = "idle"
    BY <1>4 DEF ExchangeCode, Finish
  <2>2. /\ credentials \in CredentialBundle
        /\ credentials.refresh \in {None, credentials.access}
    BY AnswersType DEF Answers
  <2> QED
    BY <1>4, <2>1, <2>2 DEF ExchangeCode, Operations
<1>5. CASE ExchangeFails
  BY <1>5, RecordType DEF ExchangeFails, exchange_code, Finish
<1>6. CASE _verified_address
  BY <1>6, RecordType DEF _verified_address, Finish
<1>7. ASSUME NEW k \in Keys, CreateSession(k)
      PROVE  (CreateSound /\ RefreshSound /\ RevokeSound)'
  BY <1>7, RecordType DEF CreateSession, _save_record, _set_snapshot, Finish
<1>8. CASE AuthorizationFails
  BY <1>8, RecordType DEF AuthorizationFails, Finish
<1>9. ASSUME NEW k \in Keys, refresh_session(k)
      PROVE  (CreateSound /\ RefreshSound /\ RevokeSound)'
  BY <1>9, RecordType DEF refresh_session, NoOperation
<1>10. ASSUME NEW g \in Grants, RemoteRefresh(g)
      PROVE  (CreateSound /\ RefreshSound /\ RevokeSound)'
  <2>1. PICK refreshed \in Answers(g) :
          IF refreshed.scope = "metadata" /\ refreshed.expires > now
            THEN /\ pc' = "reidentify"
                 /\ op' = [op EXCEPT !.credentials =
                             KeepingRefreshToken(store[op.key].credentials, refreshed)]
            ELSE pc' = "idle"
    BY <1>10 DEF RemoteRefresh, Finish
  <2>2. /\ refreshed \in CredentialBundle
        /\ refreshed.access = g
        /\ refreshed.refresh \in {g, None}
    BY AnswersType DEF Answers
  <2>3. LET kept == KeepingRefreshToken(store[op.key].credentials, refreshed)
        IN  /\ kept \in CredentialBundle
            /\ kept.scope = refreshed.scope
            /\ kept.refresh \in {kept.access, store[op.key].credentials.refresh}
    BY <1>10, <2>2, RecordType, KeepingType
       DEF RemoteRefresh, KeepingRefreshToken, CredentialBundle
  <2>4. UNCHANGED store
    BY <1>10 DEF RemoteRefresh
  <2> QED
    BY <1>10, <2>1, <2>3, <2>4, RecordType DEF RemoteRefresh, Operations
<1>11. CASE ReverifyAddress
  BY <1>11, RecordType DEF ReverifyAddress, _set_snapshot, Finish
<1>12. CASE UpdateSession
  BY <1>12, RecordType DEF UpdateSession, _save_record, _set_snapshot, Finish
<1>13. CASE RefreshFails
  BY <1>13, RecordType DEF RefreshFails, _set_snapshot, Finish
<1>14. ASSUME NEW k \in Keys, revoke_remote(k)
      PROVE  (CreateSound /\ RefreshSound /\ RevokeSound)'
  BY <1>14, RecordType DEF revoke_remote, NoOperation
<1>15. CASE RemoteRevoke
  <2>1. TokenToRevoke(store[op.key].credentials) \in Grants
    BY <1>15, RecordType DEF RemoteRevoke, CredentialBundle
  <2> QED
    BY <1>15, <2>1, RecordType DEF RemoteRevoke, revoke
<1>16. CASE RevocationFails
  BY <1>16, RecordType DEF RevocationFails, revoke, _set_snapshot, Finish
<1>17. CASE MarkRevoked
  BY <1>17, RecordType DEF MarkRevoked, _save_record, _set_snapshot, Finish
<1>18. CASE MarkRevokedFails
  BY <1>18, RecordType DEF MarkRevokedFails, _set_snapshot, Finish
<1>19. ASSUME NEW k \in Keys, restore_session(k)
      PROVE  (CreateSound /\ RefreshSound /\ RevokeSound)'
  BY <1>19, RecordType DEF restore_session, SessionStateOf, _set_snapshot
<1>20. ASSUME NEW k \in Keys, disconnect_local(k)
      PROVE  (CreateSound /\ RefreshSound /\ RevokeSound)'
  BY <1>20, RecordType DEF disconnect_local, _set_snapshot
<1>21. ASSUME NEW k \in Keys, forget_local(k)
      PROVE  (CreateSound /\ RefreshSound /\ RevokeSound)'
  BY <1>21, RecordType DEF forget_local, _set_snapshot
<1>22. CASE Crash
  BY <1>22, RecordType DEF Crash, NewProcess, Finish
<1>23. CASE ServiceChanges
  <2>1. pc = "mark_revoked" => TokenToRevoke(store[op.key].credentials) \in Grants
    BY RecordType DEF CredentialBundle
  <2>2. UNCHANGED <<store, pc, op>>
    BY <1>23 DEF ServiceChanges
  <2> QED
    BY <2>1, <2>2, RevokedForGood
<1>24. CASE UNCHANGED vars
  BY <1>24, RecordType DEF vars
<1> QED
  BY <1>1, <1>2, <1>3, <1>4, <1>5, <1>6, <1>7, <1>8, <1>9, <1>10, <1>11, <1>12,
      <1>13, <1>14, <1>15, <1>16, <1>17, <1>18, <1>19, <1>20, <1>21, <1>22, <1>23,
      <1>24 DEF Next, Authorize, Refresh, Revoke

\* What is stored is of one account.
LEMMA IdentityStep ==
    ASSUME SessionInv, [Next]_vars
    PROVE  (StoredWasUsed /\ StoredIdentity)'
<1> USE DEF SessionInv, TypeOK, ServiceTypeOK, serviceVars, memoryVars,
      historyVars, StoredWasUsed, StoredIdentity, Stored, Active, CreateSound,
      RefreshSound, RevokeSound
<1>1. ASSUME NEW expected \in Addresses \cup {None}, prepare_authorization(expected)
      PROVE  (StoredWasUsed /\ StoredIdentity)'
  BY <1>1, RecordType DEF prepare_authorization
<1>2. CASE present_authorization
  BY <1>2, RecordType DEF present_authorization, _consume_attempt
<1>3. ASSUME NEW carriesCode \in BOOLEAN, complete_authorization(carriesCode)
      PROVE  (StoredWasUsed /\ StoredIdentity)'
  BY <1>3, RecordType DEF complete_authorization, _consume_attempt
<1>4. ASSUME NEW g \in Grants, ExchangeCode(g)
      PROVE  (StoredWasUsed /\ StoredIdentity)'
  BY <1>4, RecordType DEF ExchangeCode, exchange_code, Finish
<1>5. CASE ExchangeFails
  BY <1>5, RecordType DEF ExchangeFails, exchange_code, Finish
<1>6. CASE _verified_address
  BY <1>6, RecordType DEF _verified_address, Finish
<1>7. ASSUME NEW k \in Keys, CreateSession(k)
      PROVE  (StoredWasUsed /\ StoredIdentity)'
  BY <1>7, RecordType DEF CreateSession, _save_record, _set_snapshot, Finish
<1>8. CASE AuthorizationFails
  BY <1>8, RecordType DEF AuthorizationFails, Finish
<1>9. ASSUME NEW k \in Keys, refresh_session(k)
      PROVE  (StoredWasUsed /\ StoredIdentity)'
  BY <1>9, RecordType DEF refresh_session, SessionStateOf, _set_snapshot
<1>10. ASSUME NEW g \in Grants, RemoteRefresh(g)
      PROVE  (StoredWasUsed /\ StoredIdentity)'
  BY <1>10, RecordType DEF RemoteRefresh, _set_snapshot, Finish
<1>11. CASE ReverifyAddress
  BY <1>11, RecordType DEF ReverifyAddress, _set_snapshot, Finish
<1>12. CASE UpdateSession
  BY <1>12, RecordType DEF UpdateSession, _save_record, _set_snapshot, Finish
<1>13. CASE RefreshFails
  BY <1>13, RecordType DEF RefreshFails, _set_snapshot, Finish
<1>14. ASSUME NEW k \in Keys, revoke_remote(k)
      PROVE  (StoredWasUsed /\ StoredIdentity)'
  BY <1>14, RecordType DEF revoke_remote
<1>15. CASE RemoteRevoke
  BY <1>15, RecordType DEF RemoteRevoke, revoke
<1>16. CASE RevocationFails
  BY <1>16, RecordType DEF RevocationFails, revoke, _set_snapshot, Finish
<1>17. CASE MarkRevoked
  BY <1>17, RecordType DEF MarkRevoked, _save_record, _set_snapshot, Finish
<1>18. CASE MarkRevokedFails
  BY <1>18, RecordType DEF MarkRevokedFails, _set_snapshot, Finish
<1>19. ASSUME NEW k \in Keys, restore_session(k)
      PROVE  (StoredWasUsed /\ StoredIdentity)'
  BY <1>19, RecordType DEF restore_session, SessionStateOf, _set_snapshot
<1>20. ASSUME NEW k \in Keys, disconnect_local(k)
      PROVE  (StoredWasUsed /\ StoredIdentity)'
  BY <1>20, RecordType DEF disconnect_local, _set_snapshot
<1>21. ASSUME NEW k \in Keys, forget_local(k)
      PROVE  (StoredWasUsed /\ StoredIdentity)'
  BY <1>21, RecordType DEF forget_local, _set_snapshot
<1>22. CASE Crash
  BY <1>22, RecordType DEF Crash, NewProcess, Finish
<1>23. CASE ServiceChanges
  BY <1>23, RecordType DEF ServiceChanges, ServiceNext, Tick, UserRevokes
<1>24. CASE UNCHANGED vars
  BY <1>24, RecordType DEF vars
<1> QED
  BY <1>1, <1>2, <1>3, <1>4, <1>5, <1>6, <1>7, <1>8, <1>9, <1>10, <1>11, <1>12,
      <1>13, <1>14, <1>15, <1>16, <1>17, <1>18, <1>19, <1>20, <1>21, <1>22, <1>23,
      <1>24 DEF Next, Authorize, Refresh, Revoke

\* What is called revoked is revoked.
LEMMA RevokedStep ==
    ASSUME SessionInv, [Next]_vars
    PROVE  RevokedIsRevoked'
<1> USE DEF SessionInv, TypeOK, ServiceTypeOK, serviceVars, memoryVars,
      historyVars, RevokedIsRevoked, Stored, Active, CreateSound, RefreshSound,
      RevokeSound, TokenToRevoke
<1>1. ASSUME NEW expected \in Addresses \cup {None}, prepare_authorization(expected)
      PROVE  RevokedIsRevoked'
  BY <1>1, RecordType DEF prepare_authorization
<1>2. CASE present_authorization
  BY <1>2, RecordType DEF present_authorization, _consume_attempt
<1>3. ASSUME NEW carriesCode \in BOOLEAN, complete_authorization(carriesCode)
      PROVE  RevokedIsRevoked'
  BY <1>3, RecordType DEF complete_authorization, _consume_attempt
<1>4. ASSUME NEW g \in Grants, ExchangeCode(g)
      PROVE  RevokedIsRevoked'
  BY <1>4, RecordType DEF ExchangeCode, exchange_code, Finish
<1>5. CASE ExchangeFails
  <2>1. \A k \in Keys : Stored(k) => TokenToRevoke(store[k].credentials) \in Grants
    BY RecordType DEF CredentialBundle
  <2>2. UNCHANGED <<store, snapshots>>
    BY <1>5 DEF ExchangeFails
  <2> QED
    BY <2>1, <2>2, RevokedForGood
<1>6. CASE _verified_address
  BY <1>6, RecordType DEF _verified_address, Finish
<1>7. ASSUME NEW k \in Keys, CreateSession(k)
      PROVE  RevokedIsRevoked'
  BY <1>7, RecordType DEF CreateSession, _save_record, _set_snapshot, Finish
<1>8. CASE AuthorizationFails
  BY <1>8, RecordType DEF AuthorizationFails, Finish
<1>9. ASSUME NEW k \in Keys, refresh_session(k)
      PROVE  RevokedIsRevoked'
  BY <1>9, RecordType DEF refresh_session, SessionStateOf, _set_snapshot
<1>10. ASSUME NEW g \in Grants, RemoteRefresh(g)
      PROVE  RevokedIsRevoked'
  BY <1>10, RecordType DEF RemoteRefresh, _set_snapshot, Finish
<1>11. CASE ReverifyAddress
  BY <1>11, RecordType DEF ReverifyAddress, _set_snapshot, Finish
<1>12. CASE UpdateSession
  BY <1>12, RecordType DEF UpdateSession, _save_record, _set_snapshot, Finish
<1>13. CASE RefreshFails
  BY <1>13, RecordType DEF RefreshFails, _set_snapshot, Finish
<1>14. ASSUME NEW k \in Keys, revoke_remote(k)
      PROVE  RevokedIsRevoked'
  BY <1>14, RecordType DEF revoke_remote
<1>15. CASE RemoteRevoke
  BY <1>15, RecordType DEF RemoteRevoke, revoke
<1>16. CASE RevocationFails
  <2>1. \A k \in Keys : Stored(k) => TokenToRevoke(store[k].credentials) \in Grants
    BY RecordType DEF CredentialBundle
  <2>2. /\ UNCHANGED store
        /\ \A k \in Keys : snapshots'[k] = "revoked" => snapshots[k] = "revoked"
    BY <1>16 DEF RevocationFails, _set_snapshot
  <2> QED
    BY <2>1, <2>2, RevokedForGood
<1>17. CASE MarkRevoked
  BY <1>17, RecordType DEF MarkRevoked, _save_record, _set_snapshot, Finish
<1>18. CASE MarkRevokedFails
  BY <1>18, RecordType DEF MarkRevokedFails, _set_snapshot, Finish
<1>19. ASSUME NEW k \in Keys, restore_session(k)
      PROVE  RevokedIsRevoked'
  BY <1>19, RecordType DEF restore_session, SessionStateOf, _set_snapshot
<1>20. ASSUME NEW k \in Keys, disconnect_local(k)
      PROVE  RevokedIsRevoked'
  BY <1>20, RecordType DEF disconnect_local, _set_snapshot
<1>21. ASSUME NEW k \in Keys, forget_local(k)
      PROVE  RevokedIsRevoked'
  BY <1>21, RecordType DEF forget_local, _set_snapshot
<1>22. CASE Crash
  BY <1>22, RecordType DEF Crash, NewProcess, Finish
<1>23. CASE ServiceChanges
  <2>1. \A k \in Keys : Stored(k) => TokenToRevoke(store[k].credentials) \in Grants
    BY RecordType DEF CredentialBundle
  <2>2. UNCHANGED <<store, snapshots>>
    BY <1>23 DEF ServiceChanges
  <2> QED
    BY <2>1, <2>2, RevokedForGood
<1>24. CASE UNCHANGED vars
  BY <1>24, RecordType DEF vars
<1> QED
  BY <1>1, <1>2, <1>3, <1>4, <1>5, <1>6, <1>7, <1>8, <1>9, <1>10, <1>11, <1>12,
      <1>13, <1>14, <1>15, <1>16, <1>17, <1>18, <1>19, <1>20, <1>21, <1>22, <1>23,
      <1>24 DEF Next, Authorize, Refresh, Revoke

\* A session in use has a record behind it.
LEMMA SnapshotStep ==
    ASSUME SessionInv, [Next]_vars
    PROVE  SnapshotIsBacked'
<1> USE DEF SessionInv, TypeOK, ServiceTypeOK, serviceVars, memoryVars,
      historyVars, SnapshotIsBacked, Stored, Active, CreateSound, RefreshSound,
      RevokeSound, SessionStates
<1>1. ASSUME NEW expected \in Addresses \cup {None}, prepare_authorization(expected)
      PROVE  SnapshotIsBacked'
  BY <1>1, RecordType DEF prepare_authorization
<1>2. CASE present_authorization
  BY <1>2, RecordType DEF present_authorization, _consume_attempt
<1>3. ASSUME NEW carriesCode \in BOOLEAN, complete_authorization(carriesCode)
      PROVE  SnapshotIsBacked'
  BY <1>3, RecordType DEF complete_authorization, _consume_attempt
<1>4. ASSUME NEW g \in Grants, ExchangeCode(g)
      PROVE  SnapshotIsBacked'
  BY <1>4, RecordType DEF ExchangeCode, exchange_code, Finish
<1>5. CASE ExchangeFails
  BY <1>5, RecordType DEF ExchangeFails, exchange_code, Finish
<1>6. CASE _verified_address
  BY <1>6, RecordType DEF _verified_address, Finish
<1>7. ASSUME NEW k \in Keys, CreateSession(k)
      PROVE  SnapshotIsBacked'
  <2> DEFINE record == [address |-> Owner[op.credentials.access],
                        credentials |-> op.credentials, revoked |-> FALSE]
  <2>1. store'[k] # None /\ store'[k].revoked = FALSE
    <3>1. op.credentials \in CredentialBundle
      BY <1>7, RecordType DEF CreateSession
    <3>2. record \in StoredSessionRecord
      BY <3>1, RecordType
    <3>3. store'[k] = record
      BY <1>7 DEF CreateSession, _save_record
    <3>4. record.revoked = FALSE
      OBVIOUS
    <3> HIDE DEF record
    <3> QED
      BY <3>2, <3>3, <3>4
  <2>2. \A j \in Keys \ {k} : store'[j] = store[j] /\ snapshots'[j] = snapshots[j]
    BY <1>7 DEF CreateSession, _save_record, _set_snapshot
  <2> QED
    BY <2>1, <2>2
<1>8. CASE AuthorizationFails
  BY <1>8, RecordType DEF AuthorizationFails, Finish
<1>9. ASSUME NEW k \in Keys, refresh_session(k)
      PROVE  SnapshotIsBacked'
  BY <1>9, RecordType DEF refresh_session, SessionStateOf, _set_snapshot
<1>10. ASSUME NEW g \in Grants, RemoteRefresh(g)
      PROVE  SnapshotIsBacked'
  BY <1>10, RecordType DEF RemoteRefresh, _set_snapshot, Finish
<1>11. CASE ReverifyAddress
  BY <1>11, RecordType DEF ReverifyAddress, _set_snapshot, Finish
<1>12. CASE UpdateSession
  BY <1>12, RecordType DEF UpdateSession, _save_record, _set_snapshot, Finish
<1>13. CASE RefreshFails
  BY <1>13, RecordType DEF RefreshFails, _set_snapshot, Finish
<1>14. ASSUME NEW k \in Keys, revoke_remote(k)
      PROVE  SnapshotIsBacked'
  BY <1>14, RecordType DEF revoke_remote
<1>15. CASE RemoteRevoke
  BY <1>15, RecordType DEF RemoteRevoke, revoke
<1>16. CASE RevocationFails
  BY <1>16, RecordType DEF RevocationFails, revoke, _set_snapshot, Finish
<1>17. CASE MarkRevoked
  BY <1>17, RecordType DEF MarkRevoked, _save_record, _set_snapshot, Finish
<1>18. CASE MarkRevokedFails
  BY <1>18, RecordType DEF MarkRevokedFails, _set_snapshot, Finish
<1>19. ASSUME NEW k \in Keys, restore_session(k)
      PROVE  SnapshotIsBacked'
  BY <1>19, RecordType DEF restore_session, SessionStateOf, _set_snapshot
<1>20. ASSUME NEW k \in Keys, disconnect_local(k)
      PROVE  SnapshotIsBacked'
  BY <1>20, RecordType DEF disconnect_local, _set_snapshot
<1>21. ASSUME NEW k \in Keys, forget_local(k)
      PROVE  SnapshotIsBacked'
  BY <1>21, RecordType DEF forget_local, _set_snapshot
<1>22. CASE Crash
  BY <1>22, RecordType DEF Crash, NewProcess, Finish
<1>23. CASE ServiceChanges
  BY <1>23, RecordType DEF ServiceChanges, ServiceNext, Tick, UserRevokes
<1>24. CASE UNCHANGED vars
  BY <1>24, RecordType DEF vars
<1> QED
  BY <1>1, <1>2, <1>3, <1>4, <1>5, <1>6, <1>7, <1>8, <1>9, <1>10, <1>11, <1>12,
      <1>13, <1>14, <1>15, <1>16, <1>17, <1>18, <1>19, <1>20, <1>21, <1>22, <1>23,
      <1>24 DEF Next, Authorize, Refresh, Revoke


-----------------------------------------------------------------------------
(* The theorems.                                                           *)

\* SessionInv is an invariant: what an operation has checked stays so until its
\* next step, whatever the clock, the user and the service do (SecureGmailSession).
THEOREM SessionCorrect == Spec => []SessionInv
<1>1. SessionInv /\ [Next]_vars => SessionInv'
  BY ServiceTypeStep, ScalarTypeStep, RecordTypeStep, AttemptStep, OperationStep,
     IdentityStep, RevokedStep, SnapshotStep DEF SessionInv, TypeOK, ScalarsOK
<1> QED
  BY InitInv, <1>1, PTL DEF Spec

\* Every variable keeps its type, and the replay memory its bound.
THEOREM TypeCorrect == Spec => []TypeOK
<1>1. SessionInv => TypeOK
  BY DEF SessionInv
<1> QED
  BY SessionCorrect, <1>1, PTL

\* What is stored for a key is of the account that was verified, with the permitted
\* scope (complete_authorization, refresh_session).
THEOREM IdentityCorrect == Spec => []StoredIdentity
<1>1. SessionInv => StoredIdentity
  BY DEF SessionInv
<1> QED
  BY SessionCorrect, <1>1, PTL

\* No code is exchanged twice, nor after a later attempt (complete_authorization).
THEOREM ExchangeCorrect == Spec => []ExchangedOnce
<1>1. SessionInv => ExchangedOnce
  BY DEF SessionInv, ExchangesSound
<1> QED
  BY SessionCorrect, <1>1, PTL

\* What is recorded or reported as revoked is (revoke_remote).
THEOREM RevokedCorrect == Spec => []RevokedIsRevoked
<1>1. SessionInv => RevokedIsRevoked
  BY DEF SessionInv
<1> QED
  BY SessionCorrect, <1>1, PTL

\* A session in use has an unrevoked record behind it (current_snapshot).
THEOREM SnapshotCorrect == Spec => []SnapshotIsBacked
<1>1. SessionInv => SnapshotIsBacked
  BY DEF SessionInv
<1> QED
  BY SessionCorrect, <1>1, PTL

\* A callback that comes again is told from one that never belonged here, as far
\* back as the memory reaches (_was_consumed).
THEOREM ReplayCorrect == Spec => []ReplaysRecognised
<1>1. ASSUME SessionInv
      PROVE  ReplaysRecognised
  <2> DEFINE told(s) == \E i \in 1..Len(consumed) : consumed[i] = s
  <2>1. /\ consumed \in Seq(Nat) /\ Len(consumed) \in Nat
        /\ prepared \in Nat /\ booted \in Nat /\ booted <= prepared
        /\ LastFinished \in Nat /\ booted <= LastFinished /\ LastFinished <= prepared
    BY <1>1 DEF SessionInv, TypeOK, PendingIsNewest, LastFinished
  <2>2. Finished = booted + 1..LastFinished
    BY <1>1, <2>1 DEF SessionInv, TypeOK, PendingIsNewest, LastFinished, Finished,
                      NoAttempt
  <2>3. \A s \in 1..prepared : CallbackError(s) = "callback_replayed" <=> told(s)
    BY DEF CallbackError
  <2>4. /\ Len(consumed) = IF LastFinished - booted < ReplayMemory
                           THEN LastFinished - booted ELSE ReplayMemory
        /\ \A i \in 1..Len(consumed) : consumed[i] = LastFinished - Len(consumed) + i
    BY <1>1 DEF SessionInv, ConsumedInOrder, LastOnes
  <2>5. ASSUME NEW s \in Finished, Cardinality({r \in Finished : r > s}) < ReplayMemory
        PROVE  told(s)
    <3>1. {r \in Finished : r > s} = s + 1..LastFinished
      BY <2>1, <2>2
    <3>2. s + 1 \in Int /\ s \in Int /\ s <= LastFinished /\ booted < s
      BY <2>1, <2>2
    <3>3. Cardinality(s + 1..LastFinished) =
            IF s + 1 > LastFinished THEN 0 ELSE LastFinished - (s + 1) + 1
      BY <2>1, <3>2, FS_Interval
    <3>4. Cardinality(s + 1..LastFinished) < ReplayMemory
      BY <2>5, <3>1, Zenon
    <3>5. LastFinished - s < ReplayMemory
      BY <2>1, <3>2, <3>3, <3>4
    <3> DEFINE i == s - (LastFinished - Len(consumed))
    <3>6. i \in 1..Len(consumed)
      BY <2>1, <2>4, <3>2, <3>5
    <3>7. consumed[i] = LastFinished - Len(consumed) + i
      BY <2>4, <3>6
    <3>8. consumed[i] = s
      BY <2>1, <3>2, <3>6, <3>7
    <3> QED
      BY <3>6, <3>8
  <2>6. ASSUME NEW s \in 1..prepared, told(s)
        PROVE  s \in Finished
    BY <2>1, <2>2, <2>4, <2>6
  <2> QED
    BY <2>3, <2>5, <2>6 DEF ReplaysRecognised
<1> QED
  BY SessionCorrect, <1>1, PTL

\* What RevocationIsTrue says of a step.
ReportIsTrue ==
    revocation'.remote_revoked /\ revocation' # revocation
        => grants'[TokenToRevoke(store'[revocation'.key].credentials)] = "revoked"

ConfirmationIsTold ==
    pc = "mark_revoked" /\ pc' = "idle" /\ ~Crash
        => /\ revocation' = [key |-> op.key, remote_revoked |-> TRUE]
           /\ snapshots'[op.key] = IF store'[op.key].revoked THEN "revoked" ELSE "failed"

\* A revocation is reported as done only when it is.
LEMMA RevocationStep ==
    ASSUME SessionInv, [Next]_vars
    PROVE  ReportIsTrue
<1> USE DEF SessionInv, ReportIsTrue, TypeOK, ServiceTypeOK, serviceVars, memoryVars,
      historyVars
<1>1. ASSUME NEW expected \in Addresses \cup {None}, prepare_authorization(expected)
      PROVE  ReportIsTrue
  BY <1>1 DEF prepare_authorization
<1>2. CASE present_authorization
  BY <1>2 DEF present_authorization
<1>3. ASSUME NEW carriesCode \in BOOLEAN, complete_authorization(carriesCode)
      PROVE  ReportIsTrue
  BY <1>3 DEF complete_authorization
<1>4. ASSUME NEW g \in Grants, ExchangeCode(g)
      PROVE  ReportIsTrue
  BY <1>4 DEF ExchangeCode
<1>5. CASE ExchangeFails
  BY <1>5 DEF ExchangeFails
<1>6. CASE _verified_address
  BY <1>6 DEF _verified_address
<1>7. ASSUME NEW k \in Keys, CreateSession(k)
      PROVE  ReportIsTrue
  BY <1>7 DEF CreateSession
<1>8. CASE AuthorizationFails
  BY <1>8 DEF AuthorizationFails
<1>9. ASSUME NEW k \in Keys, refresh_session(k)
      PROVE  ReportIsTrue
  BY <1>9 DEF refresh_session
<1>10. ASSUME NEW g \in Grants, RemoteRefresh(g)
      PROVE  ReportIsTrue
  BY <1>10 DEF RemoteRefresh
<1>11. CASE ReverifyAddress
  BY <1>11 DEF ReverifyAddress
<1>12. CASE UpdateSession
  BY <1>12 DEF UpdateSession
<1>13. CASE RefreshFails
  BY <1>13 DEF RefreshFails
<1>14. ASSUME NEW k \in Keys, revoke_remote(k)
      PROVE  ReportIsTrue
  <2>1. CASE Stored(k) /\ ~store[k].revoked
    BY <1>14, <2>1 DEF revoke_remote
  <2>2. CASE Stored(k) /\ store[k].revoked
    BY <1>14, <2>2 DEF revoke_remote, RevokedIsRevoked
  <2>3. CASE ~Stored(k)
    BY <1>14, <2>3 DEF revoke_remote
  <2> QED
    BY <2>1, <2>2, <2>3
<1>15. CASE RemoteRevoke
  BY <1>15 DEF RemoteRevoke
<1>16. CASE RevocationFails
  BY <1>16 DEF RevocationFails
<1>17. CASE MarkRevoked
  <2>1. /\ op.key \in Keys
        /\ revocation'.key = op.key
        /\ store'[op.key].credentials = store[op.key].credentials
        /\ UNCHANGED grants
    BY <1>17, RecordType DEF MarkRevoked, _save_record, RevokeSound, Stored,
                            StoredSessionRecord
  <2> QED
    BY <1>17, <2>1 DEF MarkRevoked, RevokeSound
<1>18. CASE MarkRevokedFails
  BY <1>18 DEF MarkRevokedFails, RevokeSound
<1>19. ASSUME NEW k \in Keys, restore_session(k)
      PROVE  ReportIsTrue
  BY <1>19 DEF restore_session
<1>20. ASSUME NEW k \in Keys, disconnect_local(k)
      PROVE  ReportIsTrue
  BY <1>20 DEF disconnect_local
<1>21. ASSUME NEW k \in Keys, forget_local(k)
      PROVE  ReportIsTrue
  BY <1>21 DEF forget_local
<1>22. CASE Crash
  BY <1>22 DEF Crash, NoRevocation
<1>23. CASE ServiceChanges
  BY <1>23 DEF ServiceChanges
<1>24. CASE UNCHANGED vars
  BY <1>24 DEF vars
<1> QED
  BY <1>1, <1>2, <1>3, <1>4, <1>5, <1>6, <1>7, <1>8, <1>9, <1>10, <1>11, <1>12,
      <1>13, <1>14, <1>15, <1>16, <1>17, <1>18, <1>19, <1>20, <1>21, <1>22, <1>23,
      <1>24 DEF Next, Authorize, Refresh, Revoke

\* A revocation that the service confirmed ends with its mark in the record or with
\* a session that is shown as failed; no other step leaves the write.
LEMMA ConfirmationStep ==
    ASSUME SessionInv, [Next]_vars
    PROVE  ConfirmationIsTold
<1> SUFFICES ASSUME pc = "mark_revoked", pc' = "idle", ~Crash
             PROVE  /\ revocation' = [key |-> op.key, remote_revoked |-> TRUE]
                    /\ snapshots'[op.key] = IF store'[op.key].revoked THEN "revoked" ELSE "failed"
  BY DEF ConfirmationIsTold
<1>1. /\ op.key \in Keys /\ Stored(op.key) /\ ~store[op.key].revoked
      /\ store[op.key] \in StoredSessionRecord
      /\ DOMAIN store = Keys /\ DOMAIN snapshots = Keys
  <2>1. op.key \in Keys \cup {None} /\ op.key # None /\ Stored(op.key) /\ ~store[op.key].revoked
    BY DEF SessionInv, RevokeSound, TypeOK, Operations
  <2> QED
    BY <2>1 DEF SessionInv, TypeOK, Stored
<1>2. MarkRevoked \/ MarkRevokedFails
  <2>1. ~ServiceChanges /\ vars' # vars
    BY DEF ServiceChanges, vars
  <2>2. ~Authorize
    BY DEF Authorize, prepare_authorization, present_authorization, complete_authorization,
           ExchangeCode, ExchangeFails, _verified_address, CreateSession, AuthorizationFails
  <2>3. ~Refresh
    BY DEF Refresh, refresh_session, RemoteRefresh, ReverifyAddress, UpdateSession, RefreshFails
  <2>4. \A k \in Keys : ~restore_session(k) /\ ~disconnect_local(k) /\ ~forget_local(k)
    BY DEF restore_session, disconnect_local, forget_local
  <2>5. ~RemoteRevoke /\ ~RevocationFails /\ \A k \in Keys : ~revoke_remote(k)
    BY DEF RemoteRevoke, RevocationFails, revoke_remote
  <2> QED
    BY <2>1, <2>2, <2>3, <2>4, <2>5 DEF Next, Revoke
<1>3. CASE MarkRevoked
  BY <1>1, <1>3 DEF MarkRevoked, _save_record, _set_snapshot, StoredSessionRecord
<1>4. CASE MarkRevokedFails
  BY <1>1, <1>4 DEF MarkRevokedFails, _set_snapshot
<1> QED
  BY <1>2, <1>3, <1>4

\* No failure is reported as a success, and no success is hidden (revoke_remote, at
\* its three ways out and where it cannot mark the record).
THEOREM RevocationCorrect == Spec => RevocationIsTrue
<1>1. SessionInv /\ [Next]_vars =>
        [/\ revocation'.remote_revoked /\ revocation' # revocation
             => grants'[TokenToRevoke(store'[revocation'.key].credentials)] = "revoked"
         /\ pc = "mark_revoked" /\ pc' = "idle" /\ ~Crash
             => /\ revocation' = [key |-> op.key, remote_revoked |-> TRUE]
                /\ snapshots'[op.key] = IF store'[op.key].revoked THEN "revoked" ELSE "failed"]_vars
  BY RevocationStep, ConfirmationStep DEF ReportIsTrue, ConfirmationIsTold
<1> QED
  BY SessionCorrect, <1>1, PTL DEF Spec, RevocationIsTrue

\* What RefreshTokenKept says of a step.
TokensKept ==
    \A k \in Keys :
        Stored(k) /\ store[k].credentials.refresh # None =>
            \/ Stored(k)' /\ store'[k].credentials.refresh # None
            \/ forget_local(k)

\* A refresh token is lost only where it is meant to be.
LEMMA RefreshTokenStep ==
    ASSUME SessionInv, [Next]_vars
    PROVE  TokensKept
<1> USE DEF SessionInv, TokensKept, TypeOK, ServiceTypeOK, serviceVars, memoryVars,
      historyVars, Stored
<1>1. ASSUME NEW expected \in Addresses \cup {None}, prepare_authorization(expected)
      PROVE  TokensKept
  BY <1>1 DEF prepare_authorization
<1>2. CASE present_authorization
  BY <1>2 DEF present_authorization
<1>3. ASSUME NEW carriesCode \in BOOLEAN, complete_authorization(carriesCode)
      PROVE  TokensKept
  BY <1>3 DEF complete_authorization
<1>4. ASSUME NEW g \in Grants, ExchangeCode(g)
      PROVE  TokensKept
  BY <1>4 DEF ExchangeCode
<1>5. CASE ExchangeFails
  BY <1>5 DEF ExchangeFails
<1>6. CASE _verified_address
  BY <1>6 DEF _verified_address
<1>7. ASSUME NEW k \in Keys, CreateSession(k)
      PROVE  TokensKept
  BY <1>7 DEF CreateSession, _save_record, StoredWasUsed
<1>8. CASE AuthorizationFails
  BY <1>8 DEF AuthorizationFails
<1>9. ASSUME NEW k \in Keys, refresh_session(k)
      PROVE  TokensKept
  BY <1>9 DEF refresh_session
<1>10. ASSUME NEW g \in Grants, RemoteRefresh(g)
      PROVE  TokensKept
  BY <1>10 DEF RemoteRefresh
<1>11. CASE ReverifyAddress
  BY <1>11 DEF ReverifyAddress
<1>12. CASE UpdateSession
  <2>1. /\ op.key \in Keys
        /\ store[op.key] \in StoredSessionRecord
        /\ op.credentials.refresh # None
    BY <1>12, RecordType DEF UpdateSession, RefreshSound, Active, CredentialBundle
  <2>2. [store[op.key] EXCEPT !.credentials = op.credentials] \in StoredSessionRecord
    BY <1>12, <2>1, RecordType DEF UpdateSession, RefreshSound
  <2>3. [store[op.key] EXCEPT !.credentials = op.credentials].credentials = op.credentials
    BY <2>1 DEF StoredSessionRecord
  <2> QED
    BY <1>12, <2>1, <2>2, <2>3 DEF UpdateSession, _save_record
<1>13. CASE RefreshFails
  BY <1>13 DEF RefreshFails
<1>14. ASSUME NEW k \in Keys, revoke_remote(k)
      PROVE  TokensKept
  BY <1>14 DEF revoke_remote
<1>15. CASE RemoteRevoke
  BY <1>15 DEF RemoteRevoke
<1>16. CASE RevocationFails
  BY <1>16 DEF RevocationFails
<1>17. CASE MarkRevoked
  <2>1. op.key \in Keys /\ store[op.key] \in StoredSessionRecord
    BY <1>17, RecordType DEF MarkRevoked, RevokeSound
  <2>2. /\ [store[op.key] EXCEPT !.revoked = TRUE] \in StoredSessionRecord
        /\ [store[op.key] EXCEPT !.revoked = TRUE].credentials = store[op.key].credentials
    BY <2>1, RecordType DEF StoredSessionRecord
  <2> QED
    BY <1>17, <2>1, <2>2 DEF MarkRevoked, _save_record
<1>18. CASE MarkRevokedFails
  BY <1>18 DEF MarkRevokedFails
<1>19. ASSUME NEW k \in Keys, restore_session(k)
      PROVE  TokensKept
  BY <1>19 DEF restore_session
<1>20. ASSUME NEW k \in Keys, disconnect_local(k)
      PROVE  TokensKept
  BY <1>20 DEF disconnect_local
<1>21. ASSUME NEW k \in Keys, forget_local(k)
      PROVE  TokensKept
  <2>1. \A j \in Keys \ {k} : store'[j] = store[j]
    BY <1>21 DEF forget_local
  <2> QED
    BY <1>21, <2>1
<1>22. CASE Crash
  BY <1>22 DEF Crash
<1>23. CASE ServiceChanges
  BY <1>23 DEF ServiceChanges
<1>24. CASE UNCHANGED vars
  BY <1>24 DEF vars
<1> QED
  BY <1>1, <1>2, <1>3, <1>4, <1>5, <1>6, <1>7, <1>8, <1>9, <1>10, <1>11, <1>12,
      <1>13, <1>14, <1>15, <1>16, <1>17, <1>18, <1>19, <1>20, <1>21, <1>22, <1>23,
      <1>24 DEF Next, Authorize, Refresh, Revoke

\* Only forget_local loses the token that a revocation needs.
THEOREM RefreshTokenCorrect == Spec => RefreshTokenKept
<1>1. SessionInv /\ [Next]_vars =>
        [\A k \in Keys :
           Stored(k) /\ store[k].credentials.refresh # None =>
             \/ Stored(k)' /\ store'[k].credentials.refresh # None
             \/ forget_local(k)]_vars
  BY RefreshTokenStep DEF TokensKept
<1> QED
  BY SessionCorrect, <1>1, PTL DEF Spec, RefreshTokenKept

\* Every step of the session is one of the life of an account key, or none.
LEMMA LifecycleStep ==
    ASSUME SessionInv, [Next]_vars
    PROVE  [Lifecycle!Next]_(Lifecycle!lifecycleVars)
<1> USE DEF SessionInv
<1>0. /\ store \in [Keys -> StoredSessionRecord \cup {None}]
      /\ op \in Operations /\ used \in SUBSET Keys
  BY DEF TypeOK
<1>1. CASE store' = store /\ used' = used
  BY <1>1 DEF KeyStatus, KeyOwner, Stored, Lifecycle!lifecycleVars
<1>2. ASSUME NEW k \in Keys, CreateSession(k)
      PROVE  Lifecycle!Next
  <2> DEFINE address == Owner[op.credentials.access]
             record == [address |-> address, credentials |-> op.credentials,
                        revoked |-> FALSE]
  <2>1. address \in Addresses /\ record \in StoredSessionRecord /\ record # None
    <3>1. op.credentials \in CredentialBundle
      BY <1>0, <1>2, RecordType DEF CreateSession, CreateSound
    <3>2. address \in Addresses
      BY <3>1, RecordType
    <3>3. record \in StoredSessionRecord
      BY <3>1, <3>2 DEF StoredSessionRecord
    <3> QED
      BY <3>2, <3>3
  <2>2. store \in [Keys -> StoredSessionRecord \cup {None}] /\ used \in SUBSET Keys
    BY DEF TypeOK
  <2>3. store' = [store EXCEPT ![k] = record] /\ used' = used \cup {k} /\ k \notin used
    BY <1>2 DEF CreateSession, _save_record
  <2>4. Lifecycle!Authorize(k, address)
    <3>1. KeyStatus' = [KeyStatus EXCEPT ![k] = "held"]
      BY <2>1, <2>2, <2>3 DEF KeyStatus, Stored
    <3>2. KeyOwner' = [KeyOwner EXCEPT ![k] = address]
      BY <2>1, <2>2, <2>3 DEF KeyOwner, Stored
    <3> QED
      BY <2>3, <3>1, <3>2 DEF KeyStatus, Lifecycle!Authorize
  <2> QED
    BY <2>1, <2>4 DEF Lifecycle!Next
<1>3. CASE UpdateSession
  <2> DEFINE record == [store[op.key] EXCEPT !.credentials = op.credentials]
  <2>1. /\ op.key \in Keys /\ store[op.key] \in StoredSessionRecord
        /\ op.credentials \in CredentialBundle
    BY <1>0, <1>3, RecordType DEF UpdateSession, RefreshSound, Active, Stored
  <2>2. /\ record \in StoredSessionRecord /\ record # None
        /\ record.address = store[op.key].address
        /\ record.revoked = store[op.key].revoked
    BY <2>1, RecordType DEF StoredSessionRecord
  <2>3. store' = [store EXCEPT ![op.key] = record] /\ used' = used
    BY <1>3 DEF UpdateSession, _save_record, historyVars
  <2>4. store \in [Keys -> StoredSessionRecord \cup {None}] /\ Stored(op.key)
    BY <2>1, RecordType DEF TypeOK, Stored
  <2>5. KeyStatus' = KeyStatus /\ KeyOwner' = KeyOwner
    BY <2>1, <2>2, <2>3, <2>4 DEF KeyStatus, KeyOwner, Stored
  <2> QED
    BY <2>5 DEF Lifecycle!lifecycleVars
<1>4. CASE MarkRevoked
  <2> DEFINE record == [store[op.key] EXCEPT !.revoked = TRUE]
  <2>1. /\ op.key \in Keys /\ store[op.key] \in StoredSessionRecord
        /\ ~store[op.key].revoked
    BY <1>0, <1>4, RecordType DEF MarkRevoked, RevokeSound, Stored
  <2>2. /\ record \in StoredSessionRecord /\ record # None
        /\ record.address = store[op.key].address /\ record.revoked
    BY <2>1, RecordType DEF StoredSessionRecord
  <2>3. store' = [store EXCEPT ![op.key] = record] /\ used' = used
    BY <1>4 DEF MarkRevoked, _save_record, historyVars
  <2>4. /\ store \in [Keys -> StoredSessionRecord \cup {None}] /\ Stored(op.key)
        /\ op.key \in used
    BY <2>1, RecordType DEF TypeOK, Stored, StoredWasUsed
  <2>5. KeyStatus' = [KeyStatus EXCEPT ![op.key] = "revoked"]
    BY <2>1, <2>2, <2>3, <2>4 DEF KeyStatus, Stored
  <2>6. KeyOwner' = KeyOwner
    BY <2>1, <2>2, <2>3, <2>4 DEF KeyOwner, Stored
  <2>7. Lifecycle!Revoke(op.key)
    BY <2>1, <2>4, <2>5, <2>6 DEF KeyStatus, Lifecycle!Revoke
  <2> QED
    BY <2>1, <2>7 DEF Lifecycle!Next
<1>5. ASSUME NEW k \in Keys, forget_local(k)
      PROVE  Lifecycle!Next \/ (KeyStatus' = KeyStatus /\ KeyOwner' = KeyOwner)
  <2>1. store \in [Keys -> StoredSessionRecord \cup {None}]
    BY DEF TypeOK
  <2>2. store' = [store EXCEPT ![k] = None] /\ used' = used
    BY <1>5 DEF forget_local, historyVars
  <2>3. CASE Stored(k)
    <3>1. k \in used
      BY <2>3 DEF StoredWasUsed
    <3>2. KeyStatus' = [KeyStatus EXCEPT ![k] = "forgotten"]
      BY <2>1, <2>2, <3>1 DEF KeyStatus, Stored
    <3>3. KeyOwner' = [KeyOwner EXCEPT ![k] = None]
      BY <2>1, <2>2 DEF KeyOwner, Stored
    <3>4. Lifecycle!Forget(k)
      BY <2>3, <3>1, <3>2, <3>3 DEF KeyStatus, Lifecycle!Forget
    <3> QED
      BY <3>4 DEF Lifecycle!Next
  <2>4. CASE ~Stored(k)
    <3>1. store' = store
      BY <2>1, <2>2, <2>4 DEF Stored
    <3> QED
      BY <2>2, <3>1 DEF KeyStatus, KeyOwner, Stored
  <2> QED
    BY <2>3, <2>4
<1>6. CASE UNCHANGED vars
  BY <1>1, <1>6 DEF vars, historyVars
<1>7. CASE Authorize
  BY <1>1, <1>2, <1>7
     DEF Authorize, prepare_authorization, present_authorization,
         complete_authorization, ExchangeCode, ExchangeFails, _verified_address,
         AuthorizationFails, historyVars
<1>8. CASE Refresh
  BY <1>1, <1>3, <1>8
     DEF Refresh, refresh_session, RemoteRefresh, ReverifyAddress, RefreshFails,
         historyVars
<1>9. CASE Revoke
  BY <1>1, <1>4, <1>9
     DEF Revoke, revoke_remote, RemoteRevoke, RevocationFails, MarkRevokedFails,
         historyVars
<1>10. ASSUME NEW k \in Keys, restore_session(k) \/ disconnect_local(k)
       PROVE  store' = store /\ used' = used
  BY <1>10 DEF restore_session, disconnect_local, historyVars
<1>11. CASE Crash \/ ServiceChanges
  BY <1>1, <1>11 DEF Crash, ServiceChanges, historyVars
<1> QED
  BY <1>1, <1>5, <1>6, <1>7, <1>8, <1>9, <1>10, <1>11
     DEF Next, Lifecycle!lifecycleVars

\* An account key means one address and one life, through every failure: the
\* session implements SessionLifecycle.
THEOREM LifecycleCorrect == Spec => ImplementsLifecycle
<1>1. Init => Lifecycle!Init
  BY DEF Init, Lifecycle!Init, KeyStatus, KeyOwner, Stored
<1>2. SessionInv /\ [Next]_vars => [Lifecycle!Next]_(Lifecycle!lifecycleVars)
  BY LifecycleStep
<1> QED
  BY SessionCorrect, <1>1, <1>2, PTL DEF Spec, ImplementsLifecycle, Lifecycle!Spec

=============================================================================
