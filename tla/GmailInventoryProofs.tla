------------------------ MODULE GmailInventoryProofs ------------------------
(***************************************************************************)
(* Theorems about GmailInventory, for every mailbox size, history bound,   *)
(* set of scans and retry limit: every variable keeps its type, and the    *)
(* index never loses track of the mailbox.                                 *)
(***************************************************************************)
EXTENDS GmailInventoryInvariant, TLAPS, WellFoundedInduction

-----------------------------------------------------------------------------
(* Helpers.                                                                *)

LessThan == {pair \in Nat \X Nat : pair[1] < pair[2]}

LEMMA LessThanWellFounded == IsWellFoundedOn(LessThan, Nat)
  BY NatLessThanWellFounded DEF OpToRel, LessThan

\* A nonempty set of naturals has a least element.
LEMMA LeastExists ==
  ASSUME NEW S \in SUBSET Nat, S # {}
  PROVE  \E m \in S : \A n \in S : m <= n
<1>1. \E x \in S : \A y \in S : ~ (<<y, x>> \in LessThan)
  BY WFMin, LessThanWellFounded, Zenon
<1>2. \A x, y \in Nat : x < y => <<x, y>> \in LessThan
  BY DEF LessThan
<1>3. PICK x \in S : \A y \in S : ~ (<<y, x>> \in LessThan)
  BY <1>1
<1>4. \A y \in S : ~(y < x)
  BY <1>2, <1>3
<1>5. QED
  BY <1>4

\* The message whose metadata is read next is one of those still to be read.
LEMMA NextMessageInTodo ==
  ASSUME page \in Pages, page.todo # {}
  PROVE  NextMessage \in page.todo /\ NextMessage \in Messages
<1>1. page.todo \in SUBSET Nat /\ page.todo \in SUBSET Messages
  BY DEF Pages, Messages
<1>2. \E m \in page.todo : \A n \in page.todo : m <= n
  BY <1>1, LeastExists
<1>3. NextMessage \in page.todo
  BY <1>2 DEF NextMessage
<1>4. QED
  BY <1>1, <1>3

\* The changes and deletions that history records report are of messages.
LEMMA HistoryOfMessages ==
  ASSUME MailboxTypeOK, NEW first \in Nat, NEW last \in Nat,
         first >= 1, last <= Len(history)
  PROVE  /\ Changed(first, last) \in SUBSET Messages
         /\ Deleted(first, last) \in SUBSET Messages
<1>1. \A i \in first..last : history[i] \in HistoryRecord
  BY DEF MailboxTypeOK
<1>2. \A i \in first..last : history[i].msg \in Messages
  BY <1>1 DEF HistoryRecord
<1>3. QED
  BY <1>2 DEF Changed, Deleted

LEMMA SentinelsOK ==
  /\ NoRecords \in [Messages -> Placements]
  /\ NoPage \in Pages
  /\ NoCheckpoint \in SyncCheckpoint
  /\ NoResult \in Results
  /\ 0 \in Nat /\ 1 \in 1..RetryLimit
<1>1. NoRecords \in [Messages -> Placements]
  BY DEF NoRecords, Placements
<1>2. NoCursor \in Cursors
  BY DEF NoCursor, CursorAt, Cursors
<1>3. NoPage \in Pages
  BY <1>1, <1>2 DEF NoPage, Pages
<1>4. NoCheckpoint \in SyncCheckpoint
  BY <1>2 DEF NoCheckpoint, SyncCheckpoint, SyncStates, HistoryIds, NoHistoryId
<1>5. NoResult \in Results
  BY <1>4 DEF NoResult, Results, Outcomes
<1>6. QED
  BY <1>1, <1>3, <1>4, <1>5, RetryAssumption

\* While metadata is being read there is some left to read.
TypeInv == TypeOK /\ (pc = "metadata" => page.todo # {})

LEMMA InitTypeInv == Init => TypeInv
  BY SentinelsOK, RetryAssumption
  DEF Init, TypeInv, TypeOK, MailboxInit, MailboxTypeOK, RepositoryInit,
      RepositoryTypeOK, Places, Steps, RemoteSteps

-----------------------------------------------------------------------------
(* Type correctness.                                                       *)

\* A call that returns leaves nothing of itself behind.
LEMMA ReturnTypeInv ==
  ASSUME TypeOK, RepositoryTypeOK', NEW r \in Results, Return(r)
  PROVE  TypeInv'
BY SentinelsOK
DEF TypeInv, TypeOK, Return, mailboxVars, MailboxTypeOK, Steps, RemoteSteps

\* What the repository operations make of well-typed arguments.
LEMMA ApplyTypeOK ==
  ASSUME RepositoryTypeOK,
         NEW records \in [Messages -> Placements], NEW deleted \in SUBSET Messages,
         NEW c \in SyncCheckpoint, apply_index_page(records, deleted, c)
  PROVE  RepositoryTypeOK'
BY DEF RepositoryTypeOK, apply_index_page, Placements

LEMMA EmptyApplyTypeOK ==
  ASSUME RepositoryTypeOK, NEW c \in SyncCheckpoint,
         apply_index_page(NoRecords, {}, c)
  PROVE  RepositoryTypeOK'
BY SentinelsOK, ApplyTypeOK

LEMMA StartTypeOK ==
  ASSUME RepositoryTypeOK, NEW c \in SyncCheckpoint, start_full_index(c)
  PROVE  RepositoryTypeOK'
BY SentinelsOK DEF RepositoryTypeOK, start_full_index

LEMMA ResultOK ==
  ASSUME NEW outcome \in Outcomes, NEW stored \in BOOLEAN, NEW c \in SyncCheckpoint
  PROVE  InventoryResult(outcome, stored, c) \in Results
BY SentinelsOK DEF InventoryResult, Results

\* A checkpoint stays one when a field is replaced.
LEMMA StateReplaced ==
  ASSUME NEW c \in SyncCheckpoint, NEW state \in SyncStates
  PROVE  [c EXCEPT !.state = state] \in SyncCheckpoint
BY DEF SyncCheckpoint

LEMMA FieldsReplaced ==
  ASSUME NEW c \in SyncCheckpoint, NEW state \in SyncStates, NEW hist \in HistoryIds,
         NEW cursor \in Cursors
  PROVE  /\ [c EXCEPT !.state = state, !.hist = hist] \in SyncCheckpoint
         /\ [c EXCEPT !.state = state, !.cursor = cursor] \in SyncCheckpoint
         /\ [c EXCEPT !.state = state, !.cursor = cursor, !.hist = hist] \in SyncCheckpoint
BY DEF SyncCheckpoint

\* An action that stores the running checkpoint in a final state and returns.
LEMMA StoreAndReturnTypeInv ==
  ASSUME TypeOK, NEW c \in SyncCheckpoint, NEW outcome \in Outcomes,
         NEW stored \in BOOLEAN,
         apply_index_page(NoRecords, {}, c) \/ UNCHANGED repositoryVars,
         Return(InventoryResult(outcome, stored, c))
  PROVE  TypeInv'
<1>1. RepositoryTypeOK'
  <2>1. CASE apply_index_page(NoRecords, {}, c)
    BY <2>1, EmptyApplyTypeOK DEF TypeOK
  <2>2. CASE UNCHANGED repositoryVars
    BY <2>2 DEF TypeOK, RepositoryTypeOK, repositoryVars
  <2>3. QED
    BY <2>1, <2>2
<1>2. QED
  BY <1>1, ResultOK, ReturnTypeInv

LEMMA CursorsOK ==
  /\ NoCursor \in Cursors
  /\ \A mode \in {"full", "partial"} : FirstCursor(mode) \in Cursors
  /\ \A pos \in Nat : CursorAt("history", pos) \in Cursors
  /\ CursorAt("spam", 0) \in Cursors
BY DEF NoCursor, CursorAt, Cursors, FirstCursor, Phases

LEMMA StepAfterOK ==
  ASSUME NEW todo
  PROVE  /\ StepAfter(todo) \in Steps
         /\ StepAfter(todo) = "metadata" => todo # {}
BY DEF StepAfter, Steps, RemoteSteps

LEMMA NextTypeInv == TypeInv /\ [Next]_vars => TypeInv'
<1> SUFFICES ASSUME TypeInv, [Next]_vars
             PROVE  TypeInv'
  OBVIOUS
<1> USE DEF TypeInv
<1>a. /\ TypeOK /\ MailboxTypeOK /\ RepositoryTypeOK
      /\ call \in SyncCheckpoint /\ checkpoint \in SyncCheckpoint
      /\ page \in Pages /\ seen \in Nat
  BY DEF TypeOK, RepositoryTypeOK
<1>1. ASSUME NEW mode \in {"full", "partial"}, NEW id \in ScanIds, Begin(mode, id)
      PROVE  TypeInv'
  <2>1. call' \in SyncCheckpoint
    BY <1>1, CursorsOK
    DEF Begin, SyncCheckpoint, SyncStates, HistoryIds, NoHistoryId
  <2>2. QED
    BY <1>1, <2>1, SentinelsOK
    DEF Begin, TypeOK, mailboxVars, MailboxTypeOK, repositoryVars, RepositoryTypeOK,
        Steps, RemoteSteps
<1>2. CASE _profile
  <2>1. seen' \in Nat
    BY <1>2, <1>a DEF _profile, CurrentHistoryId, MailboxTypeOK
  <2>2. QED
    BY <1>2, <2>1, SentinelsOK
    DEF _profile, Continue, TypeOK, mailboxVars, MailboxTypeOK, repositoryVars,
        RepositoryTypeOK, Steps, RemoteSteps
<1>3. CASE _labels
  BY <1>3, SentinelsOK
  DEF _labels, Continue, TypeOK, mailboxVars, MailboxTypeOK, repositoryVars,
      RepositoryTypeOK, Steps, RemoteSteps
<1>4. CASE Open
  <2>1. CASE ResumeScan
    BY <2>1, <1>a, SentinelsOK
    DEF ResumeScan, Continue, TypeOK, mailboxVars, MailboxTypeOK, repositoryVars,
        RepositoryTypeOK, Steps, RemoteSteps
  <2>2. CASE AlreadyEnded
    <3>1. checkpoint.state \in Outcomes
      BY <2>2 DEF AlreadyEnded, Ended, Outcomes
    <3>2. QED
      BY <2>2, <3>1, <1>a, StoreAndReturnTypeInv DEF AlreadyEnded
  <2>3. CASE StartFull
    <3> DEFINE running == [call EXCEPT !.state = "running", !.hist = seen]
    <3>1. running \in SyncCheckpoint
      BY <1>a DEF SyncCheckpoint, SyncStates, HistoryIds
    <3>2. RepositoryTypeOK' /\ call' = running
      BY <2>3, <3>1, <1>a, StartTypeOK DEF StartFull
    <3>3. QED
      BY <2>3, <3>1, <3>2, SentinelsOK
      DEF StartFull, Continue, TypeOK, mailboxVars, MailboxTypeOK, Steps, RemoteSteps
  <2>4. CASE StartPartial
    <3> DEFINE running == [call EXCEPT !.state = "running", !.hist = checkpoint.hist]
    <3>1. running \in SyncCheckpoint
      BY <1>a DEF SyncCheckpoint, SyncStates
    <3>2. RepositoryTypeOK' /\ call' = running
      BY <2>4, <3>1, <1>a, EmptyApplyTypeOK DEF StartPartial
    <3>3. QED
      BY <2>4, <3>1, <3>2, SentinelsOK
      DEF StartPartial, Continue, TypeOK, mailboxVars, MailboxTypeOK, Steps, RemoteSteps
  <2>5. CASE RefuseCheckpoint
    BY <2>5, <1>a, StateReplaced, StoreAndReturnTypeInv
    DEF RefuseCheckpoint, SyncStates, Outcomes
  <2>6. QED
    BY <1>4, <2>1, <2>2, <2>3, <2>4, <2>5 DEF Open
<1>5. CASE ListMessages
  <2>1. PICK listed \in SUBSET Messages, last \in PageEnds :
          LET rest == {m \in listed : m > call.cursor.pos /\ m <= last}
              next == IF last <= NumMessages THEN [call.cursor EXCEPT !.pos = last]
                      ELSE IF call.cursor.phase = "normal" THEN CursorAt("spam", 0)
                      ELSE NoCursor
          IN  /\ page' = [NoPage EXCEPT !.todo = rest, !.next = next]
              /\ Continue(StepAfter(rest))
    BY <1>5 DEF ListMessages
  <2> DEFINE rest == {m \in listed : m > call.cursor.pos /\ m <= last}
             next == IF last <= NumMessages THEN [call.cursor EXCEPT !.pos = last]
                     ELSE IF call.cursor.phase = "normal" THEN CursorAt("spam", 0)
                     ELSE NoCursor
  <2>2. last \in Nat
    BY <1>a, MailboxAssumption DEF PageEnds, SyncCheckpoint, Cursors
  <2>3. next \in Cursors
    BY <1>a, <2>2, CursorsOK DEF SyncCheckpoint, Cursors
  <2>4. page' \in Pages /\ page'.todo = rest
    <3> HIDE DEF next
    <3>1. rest \in SUBSET Messages
      OBVIOUS
    <3> HIDE DEF rest
    <3>2. page' = [NoPage EXCEPT !.todo = rest, !.next = next]
      BY <2>1 DEF rest, next
    <3>3. QED
      BY <3>1, <3>2, <2>3, SentinelsOK DEF Pages
  <2>5. Continue(StepAfter(rest))
    BY <2>1
  <2> HIDE DEF rest, next
  <2>6. QED
    BY <1>5, <2>4, <2>5, StepAfterOK, SentinelsOK
    DEF ListMessages, Continue, TypeOK, mailboxVars, MailboxTypeOK, repositoryVars,
        RepositoryTypeOK
<1>6. CASE ListHistory
  <2>1. PICK last \in call.hist + call.cursor.pos..Len(history), more \in BOOLEAN :
          /\ IF more THEN last > call.hist + call.cursor.pos ELSE last = Len(history)
          /\ LET first == call.hist + call.cursor.pos + 1
                 deleted_ids == Deleted(first, last)
                 changed_ids == Changed(first, last) \ deleted_ids
             IN  /\ page' = [todo |-> changed_ids, fetched |-> NoRecords,
                             dropped |-> deleted_ids,
                             next |-> IF more
                                      THEN CursorAt("history", last - call.hist)
                                      ELSE NoCursor,
                             hist |-> CurrentHistoryId]
                 /\ Continue(StepAfter(changed_ids))
    BY <1>6 DEF ListHistory
  <2> DEFINE first == call.hist + call.cursor.pos + 1
             deleted_ids == Deleted(first, last)
             changed_ids == Changed(first, last) \ deleted_ids
             next == IF more THEN CursorAt("history", last - call.hist) ELSE NoCursor
  <2>2. call.hist \in Nat /\ call.cursor.pos \in Nat /\ Len(history) \in Nat
    <3>1. call.hist \in HistoryIds /\ call.hist >= floor /\ floor \in Nat
      BY <1>6, <1>a DEF ListHistory, SyncCheckpoint, MailboxTypeOK
    <3>2. QED
      BY <3>1, <1>a DEF HistoryIds, NoHistoryId, SyncCheckpoint, Cursors, MailboxTypeOK
  <2>3. first \in Nat /\ last \in Nat /\ first >= 1 /\ last <= Len(history)
        /\ last - call.hist \in Nat
    BY <2>2
  <2>4. deleted_ids \in SUBSET Messages /\ changed_ids \in SUBSET Messages
    BY <2>3, <1>a, HistoryOfMessages
  <2>5. next \in Cursors
    BY <2>3, CursorsOK
  <2> HIDE DEF deleted_ids, changed_ids, next
  <2>6. /\ page' = [todo |-> changed_ids, fetched |-> NoRecords, dropped |-> deleted_ids,
                    next |-> next, hist |-> CurrentHistoryId]
        /\ Continue(StepAfter(changed_ids))
    BY <2>1 DEF deleted_ids, changed_ids, next
  <2>7. page' \in Pages /\ page'.todo = changed_ids
    BY <2>2, <2>4, <2>5, <2>6, SentinelsOK DEF Pages, CurrentHistoryId
  <2>8. QED
    BY <1>6, <2>6, <2>7, StepAfterOK, SentinelsOK
    DEF ListHistory, Continue, TypeOK, mailboxVars, MailboxTypeOK, repositoryVars,
        RepositoryTypeOK
<1>7. CASE _HistoryExpired
  <2>1. [call EXCEPT !.state = "requires_full_resync", !.cursor = NoCursor]
          \in SyncCheckpoint
    BY <1>a, CursorsOK DEF SyncCheckpoint, SyncStates
  <2>2. QED
    BY <1>7, <2>1, <1>a, StoreAndReturnTypeInv DEF _HistoryExpired, Outcomes
<1>8. CASE _metadata
  <2>1. NextMessage \in Messages
    BY <1>8, <1>a, NextMessageInTodo DEF _metadata
  <2>2. Take(NextMessage) \in Pages
    <3>1. mailbox[NextMessage] \in Placements \/ mailbox[NextMessage] = "excluded"
      BY <1>8 DEF _metadata, Present, Placements
    <3>2. QED
      BY <2>1, <3>1, <1>a DEF Take, Pages
  <2> DEFINE rest == page.todo \ {NextMessage}
  <2>3. page' \in Pages /\ page'.todo = rest
    BY <1>8, <2>2, <1>a DEF _metadata, Pages
  <2>4. Continue(StepAfter(rest))
    BY <1>8 DEF _metadata
  <2> HIDE DEF rest
  <2>5. QED
    BY <1>8, <2>3, <2>4, StepAfterOK, SentinelsOK
    DEF _metadata, Continue, TypeOK, mailboxVars, MailboxTypeOK, repositoryVars,
        RepositoryTypeOK
<1>9. ASSUME NEW pauseRequested \in BOOLEAN, PersistPage(pauseRequested)
      PROVE  TypeInv'
  <2> DEFINE advanced == AdvancedCheckpoint(pauseRequested)
  <2>1. ConsolidatedHistoryId \in HistoryIds
    BY <1>a DEF ConsolidatedHistoryId, HistoryIds, Pages, SyncCheckpoint
  <2>2. advanced \in SyncCheckpoint /\ advanced.state \in {"completed", "paused", "running"}
    BY <2>1, <1>a DEF AdvancedCheckpoint, SyncCheckpoint, SyncStates, Pages
  <2> HIDE DEF advanced
  <2>3. apply_index_page(page.fetched, page.dropped, advanced)
    BY <1>9 DEF PersistPage, advanced
  <2>4. RepositoryTypeOK'
    BY <2>2, <2>3, <1>a, ApplyTypeOK DEF Pages
  <2>5. CASE advanced.state = "running"
    <3>1. /\ call' = advanced /\ page' = NoPage /\ Continue("list") /\ UNCHANGED seen
      BY <1>9, <2>5 DEF PersistPage, advanced
    <3>2. QED
      BY <2>2, <2>4, <3>1, SentinelsOK
      DEF Continue, TypeOK, mailboxVars, MailboxTypeOK, Steps, RemoteSteps
  <2>6. CASE advanced.state # "running"
    <3>1. Return(InventoryResult(advanced.state, TRUE, advanced))
      BY <1>9, <2>6 DEF PersistPage, advanced
    <3>2. advanced.state \in Outcomes
      BY <2>2, <2>6 DEF Outcomes
    <3>3. QED
      BY <2>2, <2>4, <3>1, <3>2, <1>a, ResultOK, ReturnTypeInv
  <2>7. QED
    BY <2>5, <2>6
<1>10. CASE Retry
  BY <1>10, RetryAssumption
  DEF Retry, TypeOK, mailboxVars, MailboxTypeOK, repositoryVars, RepositoryTypeOK,
      RemoteSteps
<1>11. CASE _failed_result
  BY <1>11, <1>a, StateReplaced, StoreAndReturnTypeInv
  DEF _failed_result, SyncStates, Outcomes
<1>12. CASE UnstoredFailure
  BY <1>12, <1>a, StateReplaced, StoreAndReturnTypeInv
  DEF UnstoredFailure, SyncStates, Outcomes
<1>13. CASE Cancel
  <2>1. persisted \in BOOLEAN /\ "cancelled" \in Outcomes
    BY DEF persisted, Outcomes
  <2>2. QED
    BY <1>13, <2>1, <1>a, StoreAndReturnTypeInv DEF Cancel
<1>14. CASE _paused_result
  <2>1. [call EXCEPT !.state = "paused"] \in SyncCheckpoint
    BY <1>a, StateReplaced DEF SyncStates
  <2>2. QED
    BY <1>14, <2>1, <1>a, StoreAndReturnTypeInv
    DEF _paused_result, identity_verified, Outcomes
<1>15. CASE Crash
  <2>1. RepositoryTypeOK'
    BY <1>15, <1>a DEF Crash, RepositoryTypeOK, repositoryVars
  <2>2. QED
    BY <1>15, <2>1, <1>a, SentinelsOK, ReturnTypeInv DEF Crash
<1>16. CASE DeleteAccountIndex
  BY <1>16, SentinelsOK
  DEF DeleteAccountIndex, delete_account_index, TypeOK, mailboxVars, MailboxTypeOK,
      RepositoryTypeOK, callVars
<1>17. ASSUME NEW m \in Messages, DeleteIndexedMessages({m})
       PROVE  TypeInv'
  BY <1>17
  DEF DeleteIndexedMessages, delete_indexed_messages, TypeOK, mailboxVars,
      MailboxTypeOK, RepositoryTypeOK, Placements, callVars
<1>18. CASE MailboxChanges
  <2>1. MailboxTypeOK'
    <3>1. ASSUME NEW m \in Messages, ChangePlace(m)
          PROVE  MailboxTypeOK'
      BY <3>1, <1>a DEF ChangePlace, MailboxTypeOK, Places, Present, HistoryRecord
    <3>2. ASSUME NEW m \in Messages, DeletePermanently(m)
          PROVE  MailboxTypeOK'
      BY <3>2, <1>a DEF DeletePermanently, MailboxTypeOK, Places, HistoryRecord
    <3>3. CASE ForgetHistory
      BY <3>3, <1>a DEF ForgetHistory, MailboxTypeOK
    <3>4. QED
      BY <1>18, <3>1, <3>2, <3>3 DEF MailboxChanges, MailboxNext
  <2>2. QED
    BY <1>18, <2>1
    DEF MailboxChanges, TypeOK, repositoryVars, RepositoryTypeOK, callVars
<1>19. CASE UNCHANGED vars
  BY <1>19
  DEF vars, TypeOK, mailboxVars, MailboxTypeOK, repositoryVars, RepositoryTypeOK, callVars
<1>20. ScanStep => TypeInv'
  BY <1>2, <1>3, <1>4, <1>5, <1>6, <1>7, <1>8, <1>9, <1>11 DEF ScanStep, MessageNotFound
<1>21. Interruption => TypeInv'
  BY <1>10, <1>11, <1>12, <1>13, <1>14, <1>15 DEF Interruption, RemoteFailure
<1>22. QED
  BY <1>1, <1>16, <1>17, <1>18, <1>19, <1>20, <1>21 DEF Next

\* Every value the model stores has the type the code declares for it, and a call
\* is at its metadata step only while some metadata is left to read.
THEOREM TypeCorrect == Spec => []TypeOK
<1>1. Spec => []TypeInv
  BY InitTypeInv, NextTypeInv, PTL DEF Spec
<1>2. TypeInv => TypeOK
  BY DEF TypeInv
<1>3. QED
  BY <1>1, <1>2, PTL

-----------------------------------------------------------------------------
(* Parts of the invariant that go together.                                *)

\* What is said of the index and the checkpoint in the database.
Stored ==
    /\ IsHistoryId(checkpoint.hist)
    /\ StoredCursor
    /\ CompletedIndexCovered
    /\ PartialCursorCovered
    /\ FullCursorCovered

\* What is said of the mailbox alone.
MailboxSound ==
    /\ floor <= Len(history)
    /\ \A i \in 1..Len(history) :
         history[i].kind = "deleted" => mailbox[history[i].msg] = "gone"

\* What is said of a call that has no page.
NoPageOpen ==
    /\ pc \notin {"metadata", "persist"}
    /\ CallSound
    /\ IsHistoryId(call.hist)
    /\ seen <= Len(history)
    /\ page.hist <= Len(history)

LEMMA NoPageCoverage == Stored /\ MailboxSound /\ NoPageOpen => CoverageInv
  BY DEF Stored, MailboxSound, NoPageOpen, CoverageInv, HistorySound, PartialPageSound,
         FullPageSound, PageOpen

LEMMA CoverageParts == CoverageInv => Stored /\ MailboxSound
  BY DEF Stored, MailboxSound, CoverageInv, HistorySound

LEMMA InitCoverage == Init => CoverageInv
<1> SUFFICES ASSUME Init PROVE CoverageInv
  OBVIOUS
<1>1. Len(history) = 0 /\ floor = 0 /\ checkpoint = NoCheckpoint /\ call = NoCheckpoint
      /\ page = NoPage /\ seen = 0 /\ pc = "idle"
  BY DEF Init, MailboxInit, RepositoryInit
<1>2. Stored
  BY <1>1 DEF Stored, IsHistoryId, StoredCursor, CursorFits, CompletedIndexCovered,
      PartialCursorCovered, FullCursorCovered, NoCheckpoint, HasHistoryId
<1>3. MailboxSound
  BY <1>1 DEF MailboxSound
<1>4. NoPageOpen
  BY <1>1 DEF NoPageOpen, CallSound, IsHistoryId, NoCheckpoint, NoPage
<1>5. QED
  BY <1>2, <1>3, <1>4, NoPageCoverage

-----------------------------------------------------------------------------
(* Steps that leave the mailbox alone.                                     *)

LEMMA MailboxSoundKept == MailboxSound /\ UNCHANGED mailboxVars => MailboxSound'
  BY DEF MailboxSound, mailboxVars

LEMMA StoredKept ==
  Stored /\ UNCHANGED mailboxVars /\ UNCHANGED repositoryVars => Stored'
<1> SUFFICES ASSUME Stored, UNCHANGED mailboxVars, UNCHANGED repositoryVars
             PROVE  Stored'
  OBVIOUS
<1>1. UNCHANGED <<mailbox, history, index, checkpoint, removedByHand>>
  BY DEF mailboxVars, repositoryVars
<1>2. QED
  BY <1>1
  DEF Stored, IsHistoryId, StoredCursor, CompletedIndexCovered, PartialCursorCovered,
      FullCursorCovered, UpToDate, ChangedAfter, ScannedSoFar

\* Nothing is left of a call that returned, so only the database counts.
LEMMA ReturnCoverage ==
  ASSUME TypeOK, MailboxSound, Stored', NEW r, Return(r)
  PROVE  CoverageInv'
<1>1. UNCHANGED mailboxVars /\ pc' = "idle" /\ call' = NoCheckpoint /\ seen' = 0
      /\ page' = NoPage /\ UNCHANGED history
  BY DEF Return, mailboxVars
<1>2. MailboxSound'
  BY <1>1, MailboxSoundKept
<1>3. Len(history) \in Nat
  BY DEF TypeOK, MailboxTypeOK
<1>4. NoPageOpen'
  BY <1>1, <1>3 DEF NoPageOpen, CallSound, IsHistoryId, NoCheckpoint, NoPage
<1>5. QED
  BY <1>2, <1>4, NoPageCoverage, PTL

-----------------------------------------------------------------------------
(* Writing the checkpoint alone.                                           *)

LEMMA EmptyApply ==
  ASSUME RepositoryTypeOK, NEW c, apply_index_page(NoRecords, {}, c)
  PROVE  UNCHANGED <<index, removedByHand>> /\ checkpoint' = c
BY DEF RepositoryTypeOK, apply_index_page, NoRecords

\* Storing the running checkpoint in another state that does not claim an end:
\* either it is the one already stored, or it has no history_id to vouch for.
LEMMA StoreCallKeeps ==
  ASSUME TypeOK, Stored, UNCHANGED mailboxVars, CallSound,
         pc \in {"labels", "list", "metadata"},
         NEW state, state # "completed",
         apply_index_page(NoRecords, {}, [call EXCEPT !.state = state])
  PROVE  Stored'
<1> DEFINE c == [call EXCEPT !.state = state]
<1>1. UNCHANGED <<index, removedByHand, mailbox, history>> /\ checkpoint' = c
  BY EmptyApply DEF mailboxVars, TypeOK
<1>2. c.state = state /\ c.hist = call.hist /\ c.cursor = call.cursor /\ c.mode = call.mode
      /\ call.mode \in {"full", "partial"}
  BY DEF TypeOK, SyncCheckpoint
<1> HIDE DEF c
<1>3. CASE pc = "labels"
  <2>1. call.hist = NoHistoryId /\ call.cursor = FirstCursor(call.mode)
    BY <1>3 DEF CallSound
  <2>2. CursorFits(c.mode, c.cursor)
    BY <1>2, <2>1 DEF CursorFits, FirstCursor, CursorAt
  <2>3. QED
    BY <1>1, <1>2, <2>1, <2>2
    DEF Stored, IsHistoryId, StoredCursor, CompletedIndexCovered, PartialCursorCovered,
        FullCursorCovered, HasHistoryId
<1>4. CASE pc \in {"list", "metadata"}
  <2>1. call = checkpoint
    BY <1>4 DEF CallSound
  <2>2. QED
    BY <1>1, <1>2, <2>1
    DEF Stored, IsHistoryId, StoredCursor, CompletedIndexCovered, PartialCursorCovered,
        FullCursorCovered, HasHistoryId, InProgress, UpToDate, ChangedAfter, ScannedSoFar,
        CursorFits
<1>5. QED
  BY <1>3, <1>4

-----------------------------------------------------------------------------
(* The changes of the mailbox.                                             *)

\* A change adds one record to the history, about the message that changed.
MailboxMoves(m) ==
    /\ m \in Messages
    /\ \E record \in HistoryRecord :
         /\ history' = Append(history, record)
         /\ record.msg = m
         /\ record.kind = "deleted" => mailbox'[m] = "gone"
    /\ mailbox[m] # "gone"
    /\ \A n \in Messages \ {m} : mailbox'[n] = mailbox[n]
    /\ UNCHANGED floor

LEMMA ChangeMoves ==
  ASSUME MailboxTypeOK, NEW m \in Messages, ChangePlace(m) \/ DeletePermanently(m)
  PROVE  MailboxMoves(m)
<1>1. CASE ChangePlace(m)
  <2> DEFINE record == [msg |-> m, kind |-> "changed"]
  <2>1. record \in HistoryRecord /\ record.msg = m /\ record.kind # "deleted"
    BY DEF HistoryRecord
  <2>2. history' = Append(history, record) /\ UNCHANGED floor /\ mailbox[m] # "gone"
        /\ \A n \in Messages \ {m} : mailbox'[n] = mailbox[n]
    BY <1>1 DEF ChangePlace, MailboxTypeOK
  <2>3. QED
    BY <2>1, <2>2 DEF MailboxMoves
<1>2. CASE DeletePermanently(m)
  <2> DEFINE record == [msg |-> m, kind |-> "deleted"]
  <2>1. record \in HistoryRecord /\ record.msg = m
    BY DEF HistoryRecord
  <2>2. history' = Append(history, record) /\ UNCHANGED floor /\ mailbox[m] # "gone"
        /\ mailbox'[m] = "gone"
        /\ \A n \in Messages \ {m} : mailbox'[n] = mailbox[n]
    BY <1>2 DEF DeletePermanently, MailboxTypeOK, Present
  <2>3. QED
    BY <2>1, <2>2 DEF MailboxMoves
<1>3. QED
  BY <1>1, <1>2

\* The history grows at its end: nothing that changed after h is forgotten, and
\* what moved has changed after every historyId there was.
LEMMA MovesHistory ==
  ASSUME MailboxTypeOK, NEW m, MailboxMoves(m)
  PROVE  /\ Len(history) \in Nat /\ Len(history') = Len(history) + 1
         /\ \A i \in 1..Len(history) : history'[i] = history[i]
         /\ \A n \in Messages, h \in Int :
              ChangedAfter(n, h) => ChangedAfter(n, h)'
         /\ \A h \in Int : h <= Len(history) => ChangedAfter(m, h)'
<1>1. PICK record \in HistoryRecord : history' = Append(history, record) /\ record.msg = m
  BY DEF MailboxMoves
<1>2. Len(history) \in Nat /\ Len(history') = Len(history) + 1
      /\ history'[Len(history) + 1] = record
      /\ \A i \in 1..Len(history) : history'[i] = history[i]
  BY <1>1 DEF MailboxTypeOK
<1>3. ASSUME NEW n \in Messages, NEW h \in Int, ChangedAfter(n, h)
      PROVE  ChangedAfter(n, h)'
  BY <1>2, <1>3 DEF ChangedAfter
<1>4. ASSUME NEW h \in Int, h <= Len(history)
      PROVE  ChangedAfter(m, h)'
  <2>1. Len(history) + 1 \in 1..Len(history') /\ Len(history) + 1 > h
    BY <1>2, <1>4
  <2>2. QED
    BY <1>1, <1>2, <2>1 DEF ChangedAfter
<1>5. QED
  BY <1>2, <1>3, <1>4

LEMMA MovesSound ==
  ASSUME MailboxTypeOK, MailboxSound, NEW m, MailboxMoves(m)
  PROVE  MailboxSound'
<1>1. PICK record \in HistoryRecord :
        /\ history' = Append(history, record) /\ record.msg = m
        /\ record.kind = "deleted" => mailbox'[m] = "gone"
  BY DEF MailboxMoves
<1>a. \A i \in 1..Len(history) : history[i].msg \in Messages
  <2>1. \A i \in 1..Len(history) : history[i] \in HistoryRecord
    BY DEF MailboxTypeOK
  <2>2. QED
    BY <2>1 DEF HistoryRecord
<1>b. /\ Len(history) \in Nat /\ Len(history') = Len(history) + 1
      /\ history'[Len(history) + 1] = record
      /\ \A i \in 1..Len(history) : history'[i] = history[i]
  BY <1>1 DEF MailboxTypeOK
<1>2. /\ Len(history) \in Nat /\ Len(history') = Len(history) + 1
      /\ history'[Len(history) + 1] = record
      /\ \A i \in 1..Len(history) : history'[i] = history[i] /\ history[i].msg \in Messages
  BY <1>a, <1>b
<1>3. ASSUME NEW i \in 1..Len(history'), history'[i].kind = "deleted"
      PROVE  mailbox'[history'[i].msg] = "gone"
  <2>1. CASE i = Len(history) + 1
    BY <1>1, <1>2, <1>3, <2>1
  <2>2. CASE i \in 1..Len(history)
    <3>1. history[i].msg \in Messages /\ mailbox[history[i].msg] = "gone"
      BY <1>2, <1>3, <2>2 DEF MailboxSound
    <3>2. history[i].msg # m
      BY <3>1 DEF MailboxMoves
    <3>3. mailbox'[history[i].msg] = "gone"
      BY <3>1, <3>2 DEF MailboxMoves
    <3>4. QED
      BY <1>2, <2>2, <3>3
  <2>3. QED
    BY <1>2, <2>1, <2>2
<1>4. floor' <= Len(history')
  BY <1>2 DEF MailboxSound, MailboxMoves, MailboxTypeOK
<1>5. QED
  BY <1>3, <1>4 DEF MailboxSound

LEMMA MovesUpToDate ==
  ASSUME MailboxTypeOK, NEW m, MailboxMoves(m),
         UNCHANGED <<index, removedByHand>>,
         NEW n \in Messages, NEW h \in Int, h <= Len(history), UpToDate(n, h)
  PROVE  UpToDate(n, h)'
<1>1. CASE n = m
  BY <1>1, MovesHistory DEF UpToDate
<1>2. CASE n # m
  BY <1>2, MovesHistory DEF UpToDate, MailboxMoves
<1>3. QED
  BY <1>1, <1>2

LEMMA MovesStored ==
  ASSUME TypeOK, Stored, NEW m, MailboxMoves(m), UNCHANGED repositoryVars
  PROVE  Stored'
<1>1. UNCHANGED <<index, checkpoint, removedByHand>>
  BY DEF repositoryVars
<1>2. MailboxTypeOK /\ Len(history) \in Nat /\ Len(history') = Len(history) + 1
  BY MovesHistory DEF TypeOK
<1>a. ASSUME HasHistoryId(checkpoint)
      PROVE  checkpoint.hist \in Nat /\ checkpoint.hist <= Len(history)
  BY <1>a, <1>2 DEF Stored, IsHistoryId, HasHistoryId
<1>3. IsHistoryId(checkpoint.hist)' /\ StoredCursor'
  <2>1. HasHistoryId(checkpoint) => checkpoint.hist + checkpoint.cursor.pos \in Int
    BY <1>a DEF TypeOK, RepositoryTypeOK, SyncCheckpoint, Cursors
  <2>2. QED
    BY <1>1, <1>2, <2>1
    DEF Stored, IsHistoryId, StoredCursor, CursorFits, HasHistoryId, InProgress
<1>4. CompletedIndexCovered'
  <2> SUFFICES ASSUME checkpoint.state = "completed", HasHistoryId(checkpoint),
                      NEW n \in Messages
               PROVE  UpToDate(n, checkpoint.hist)'
    BY <1>1 DEF CompletedIndexCovered, HasHistoryId
  <2>1. UpToDate(n, checkpoint.hist)
    BY DEF Stored, CompletedIndexCovered
  <2> DEFINE h == checkpoint.hist
  <2>2. h \in Int /\ h <= Len(history) /\ UpToDate(n, h) /\ h' = h
    BY <1>1, <1>a, <2>1
  <2>3. QED
    BY <1>1, <1>2, <2>2, MovesUpToDate
<1>5. PartialCursorCovered'
  <2> SUFFICES ASSUME checkpoint.mode = "partial", HasHistoryId(checkpoint),
                      InProgress(checkpoint), NEW n \in Messages
               PROVE  UpToDate(n, checkpoint.hist + checkpoint.cursor.pos)'
    BY <1>1 DEF PartialCursorCovered, HasHistoryId, InProgress
  <2> DEFINE h == checkpoint.hist + checkpoint.cursor.pos
  <2>1. h \in Int /\ UpToDate(n, h) /\ h' = h
    BY <1>1, <1>a DEF Stored, PartialCursorCovered, TypeOK, RepositoryTypeOK,
        SyncCheckpoint, Cursors
  <2>2. h <= Len(history)
    BY DEF Stored, StoredCursor
  <2>3. QED
    BY <1>1, <1>2, <2>1, <2>2, MovesUpToDate
<1>6. FullCursorCovered'
  <2> SUFFICES ASSUME checkpoint.mode = "full", HasHistoryId(checkpoint),
                      InProgress(checkpoint), NEW n \in Messages
               PROVE  \/ index'[n] = ScannedSoFar(n, checkpoint.cursor)'
                      \/ n \in removedByHand'
                      \/ ChangedAfter(n, checkpoint.hist)'
    BY <1>1 DEF FullCursorCovered, HasHistoryId, InProgress
  <2>1. \/ index[n] = ScannedSoFar(n, checkpoint.cursor)
        \/ n \in removedByHand
        \/ ChangedAfter(n, checkpoint.hist)
    BY DEF Stored, FullCursorCovered
  <2> DEFINE h == checkpoint.hist
  <2>2. h \in Int /\ h <= Len(history) /\ h' = h
    BY <1>1, <1>a
  <2>3. CASE n = m
    BY <1>2, <2>2, <2>3, MovesHistory
  <2>4. CASE n # m
    <3>1. mailbox'[n] = mailbox[n]
      BY <2>4 DEF MailboxMoves
    <3>2. ChangedAfter(n, h) => ChangedAfter(n, h)'
      BY <1>2, <2>2, MovesHistory
    <3>3. QED
      BY <1>1, <2>1, <2>2, <3>1, <3>2 DEF ScannedSoFar
  <2>5. QED
    BY <2>3, <2>4
<1>7. QED
  BY <1>3, <1>4, <1>5, <1>6 DEF Stored

\* What a call knows of its page survives the changes of the mailbox.
LEMMA MovesPage ==
  ASSUME TypeOK, CoverageInv, NEW m, MailboxMoves(m),
         UNCHANGED <<repositoryVars, pc, callVars>>
  PROVE  PartialPageSound' /\ FullPageSound'
<1>1. UNCHANGED <<index, checkpoint, removedByHand, pc, call, page>>
  BY DEF repositoryVars, callVars
<1>2. MailboxTypeOK /\ Len(history) \in Nat /\ Len(history') = Len(history) + 1
      /\ page \in Pages /\ call \in SyncCheckpoint
  BY MovesHistory DEF TypeOK
<1>3. PartialPageSound'
  <2> SUFFICES ASSUME PageOpen("partial")
               PROVE  PartialPageSound'
    BY <1>1 DEF PartialPageSound, PageOpen
  <2> DEFINE h == PageLimit
  <2>1. CursorFits("partial", page.next) /\ h <= Len(history)
    BY DEF CoverageInv, PartialPageSound
  <2>2. h \in Int /\ h' = h
    <3>1. call.hist \in Int /\ page.hist \in Int /\ page.next.pos \in Int
      BY <1>2 DEF Pages, SyncCheckpoint, Cursors, HistoryIds, NoHistoryId
    <3>2. QED
      BY <1>1, <3>1 DEF PageLimit
  <2>3. ASSUME NEW n \in Messages \ page.todo
        PROVE  (\/ ChangedAfter(n, h)
                \/ page.fetched[n] # "none" /\ page.fetched[n] = mailbox[n]
                \/ /\ page.fetched[n] = "none"
                   /\ n \in page.dropped
                   /\ Recorded(mailbox[n]) = "none"
                \/ /\ page.fetched[n] = "none"
                   /\ n \notin page.dropped
                   /\ UpToDate(n, h))'
    <3> HIDE DEF h
    <3>1. CASE n = m
      BY <1>2, <2>1, <2>2, <3>1, MovesHistory
    <3>2. CASE n # m
      <4>1. mailbox'[n] = mailbox[n]
        BY <3>2 DEF MailboxMoves
      <4>2. ChangedAfter(n, h) => ChangedAfter(n, h)'
        BY <1>2, <2>2, MovesHistory
      <4>3. UpToDate(n, h) => UpToDate(n, h)'
        BY <1>1, <1>2, <2>1, <2>2, MovesUpToDate
      <4>4. \/ ChangedAfter(n, h)
            \/ page.fetched[n] # "none" /\ page.fetched[n] = mailbox[n]
            \/ /\ page.fetched[n] = "none"
               /\ n \in page.dropped
               /\ Recorded(mailbox[n]) = "none"
            \/ /\ page.fetched[n] = "none"
               /\ n \notin page.dropped
               /\ UpToDate(n, h)
        BY DEF h, CoverageInv, PartialPageSound
      <4>5. QED
        BY <1>1, <4>1, <4>2, <4>3, <4>4 DEF Recorded
    <3>3. QED
      BY <3>1, <3>2
  <2>4. h' <= Len(history')
    BY <1>2, <2>1, <2>2
  <2>5. CursorFits("partial", page.next)'
    BY <1>1, <2>1 DEF CursorFits
  <2>6. (\A n \in page.todo : page.fetched[n] = "none")'
    BY <1>1 DEF CoverageInv, PartialPageSound
  <2>7. QED
    BY <1>1, <2>3, <2>4, <2>5, <2>6 DEF PartialPageSound
<1>4. FullPageSound'
  <2> SUFFICES ASSUME PageOpen("full")
               PROVE  FullPageSound'
    BY <1>1 DEF FullPageSound, PageOpen
  <2>1. /\ CursorFits("full", page.next)'
        /\ (call.cursor.phase = "normal" =>
             page.next.phase = "normal" \/ page.next = CursorAt("spam", 0))'
        /\ (page.dropped = {})'
    BY <1>1 DEF CoverageInv, FullPageSound, CursorFits, CursorAt
  <2>2. ASSUME HasHistoryId(call), NEW n \in Messages
        PROVE  (\/ ChangedAfter(n, call.hist)
                \/ /\ n \in page.todo
                   /\ Recorded(mailbox[n]) = Target(n)
                   /\ page.fetched[n] = "none"
                   /\ mailbox[n] = "excluded" => index[n] = "none" \/ n \in removedByHand
                \/ /\ n \notin page.todo
                   /\ page.fetched[n] # "none"
                   /\ page.fetched[n] = Target(n)
                \/ /\ n \notin page.todo
                   /\ page.fetched[n] = "none"
                   /\ index[n] = Target(n) \/ n \in removedByHand)'
    <3> DEFINE h == call.hist
    <3>1. h \in Int /\ h <= Len(history) /\ h' = h
      BY <1>1, <1>2, <2>2 DEF CoverageInv, HistorySound, IsHistoryId, HasHistoryId
    <3>2. CASE n = m
      BY <1>2, <3>1, <3>2, MovesHistory
    <3>3. CASE n # m
      <4>1. mailbox'[n] = mailbox[n]
        BY <3>3 DEF MailboxMoves
      <4>2. ChangedAfter(n, h) => ChangedAfter(n, h)'
        BY <1>2, <3>1, MovesHistory
      <4>3. Target(n)' = Target(n)
        BY <1>1, <4>1 DEF Target, Recorded, ScannedSoFar
      <4>4. \/ ChangedAfter(n, h)
            \/ /\ n \in page.todo
               /\ Recorded(mailbox[n]) = Target(n)
               /\ page.fetched[n] = "none"
               /\ mailbox[n] = "excluded" => index[n] = "none" \/ n \in removedByHand
            \/ /\ n \notin page.todo
               /\ page.fetched[n] # "none"
               /\ page.fetched[n] = Target(n)
            \/ /\ n \notin page.todo
               /\ page.fetched[n] = "none"
               /\ index[n] = Target(n) \/ n \in removedByHand
        BY <2>2 DEF CoverageInv, FullPageSound
      <4>5. QED
        BY <1>1, <4>1, <4>2, <4>3, <4>4 DEF Recorded
    <3>4. QED
      BY <3>2, <3>3
  <2>3. QED
    BY <1>1, <2>1, <2>2 DEF FullPageSound, HasHistoryId
<1>5. QED
  BY <1>3, <1>4

LEMMA MailboxChangesCoverage ==
  ASSUME TypeOK, CoverageInv, MailboxChanges
  PROVE  CoverageInv'
<1>1. UNCHANGED <<repositoryVars, pc, callVars>>
  BY DEF MailboxChanges
<1>2. UNCHANGED <<index, checkpoint, removedByHand, pc, call, seen, page>>
  BY <1>1 DEF repositoryVars, callVars
<1>3. MailboxTypeOK /\ Stored /\ MailboxSound /\ Len(history) \in Nat
  BY CoverageParts DEF TypeOK, MailboxTypeOK
<1>4. ASSUME NEW m \in Messages, ChangePlace(m) \/ DeletePermanently(m)
      PROVE  CoverageInv'
  <2>1. MailboxMoves(m)
    BY <1>3, <1>4, ChangeMoves
  <2>2. Stored' /\ MailboxSound' /\ Len(history') = Len(history) + 1
    BY <1>1, <1>3, <2>1, MovesStored, MovesSound, MovesHistory
  <2>3. PartialPageSound' /\ FullPageSound'
    BY <1>1, <2>1, MovesPage
  <2>4. HistorySound'
    BY <1>2, <1>3, <2>2
    DEF CoverageInv, HistorySound, IsHistoryId, MailboxSound, Stored, TypeOK, Pages
  <2>5. CallSound'
    BY <1>2 DEF CoverageInv, CallSound, InProgress, HasHistoryId
  <2>6. QED
    BY <2>2, <2>3, <2>4, <2>5 DEF CoverageInv, Stored
<1>5. CASE ForgetHistory
  <2>1. UNCHANGED <<mailbox, history>> /\ floor' = Len(history)
    BY <1>5 DEF ForgetHistory
  <2>2. HistorySound'
    BY <1>2, <1>3, <2>1 DEF CoverageInv, HistorySound, IsHistoryId
  <2>3. StoredCursor' /\ CompletedIndexCovered' /\ PartialCursorCovered' /\ FullCursorCovered'
    BY <1>2, <2>1
    DEF CoverageInv, StoredCursor, CompletedIndexCovered, PartialCursorCovered,
        FullCursorCovered, UpToDate, ChangedAfter, ScannedSoFar
  <2>4. CallSound'
    BY <1>2 DEF CoverageInv, CallSound, InProgress, HasHistoryId
  <2>5. PartialPageSound'
    BY <1>2, <2>1 DEF CoverageInv, PartialPageSound, PageOpen, PageLimit, UpToDate, ChangedAfter
  <2>6. FullPageSound'
    BY <1>2, <2>1
    DEF CoverageInv, FullPageSound, PageOpen, Target, ScannedSoFar, ChangedAfter
  <2>7. QED
    BY <2>2, <2>3, <2>4, <2>5, <2>6 DEF CoverageInv
<1>6. QED
  BY <1>4, <1>5 DEF MailboxChanges, MailboxNext

-----------------------------------------------------------------------------
(* Reading a page.                                                         *)

\* Every change after h up to last is reported as a change or as a deletion.
LEMMA HistoryReports ==
  ASSUME MailboxTypeOK, NEW h \in Nat, NEW last \in Nat, last <= Len(history),
         NEW m, ChangedAfter(m, h), ~ChangedAfter(m, last)
  PROVE  m \in Changed(h + 1, last) \cup Deleted(h + 1, last)
<1>1. PICK i \in 1..Len(history) : i > h /\ history[i].msg = m
  BY DEF ChangedAfter
<1>2. i \in h + 1..last
  BY <1>1 DEF ChangedAfter, MailboxTypeOK
<1>3. history[i].kind \in {"changed", "deleted"}
  <2>1. history[i] \in HistoryRecord
    BY DEF MailboxTypeOK
  <2>2. QED
    BY <2>1 DEF HistoryRecord
<1>4. QED
  BY <1>1, <1>2, <1>3 DEF Changed, Deleted

\* What is reported as deleted is gone.
LEMMA DeletedIsGone ==
  ASSUME MailboxTypeOK, MailboxSound, NEW first \in Nat, NEW last \in Nat,
         first >= 1, last <= Len(history), NEW m \in Deleted(first, last)
  PROVE  mailbox[m] = "gone"
<1>1. PICK i \in first..last : history[i].kind = "deleted" /\ history[i].msg = m
  BY DEF Deleted
<1>2. i \in 1..Len(history)
  BY DEF MailboxTypeOK
<1>3. QED
  BY <1>1, <1>2 DEF MailboxSound

LEMMA ListHistoryCoverage ==
  ASSUME TypeOK, CoverageInv, ListHistory
  PROVE  CoverageInv'
<1>a. /\ MailboxTypeOK /\ call \in SyncCheckpoint /\ Stored /\ MailboxSound /\ CallSound
      /\ seen <= Len(history) /\ call = checkpoint /\ call.mode = "partial"
      /\ HasHistoryId(call) /\ InProgress(call)
  BY CoverageParts
  DEF TypeOK, CoverageInv, HistorySound, CallSound, ListHistory
<1>1. PICK last \in call.hist + call.cursor.pos..Len(history), more \in BOOLEAN :
        /\ IF more THEN last > call.hist + call.cursor.pos ELSE last = Len(history)
        /\ LET first == call.hist + call.cursor.pos + 1
               deleted_ids == Deleted(first, last)
               changed_ids == Changed(first, last) \ deleted_ids
           IN  /\ page' = [todo |-> changed_ids, fetched |-> NoRecords,
                           dropped |-> deleted_ids,
                           next |-> IF more
                                    THEN CursorAt("history", last - call.hist)
                                    ELSE NoCursor,
                           hist |-> CurrentHistoryId]
               /\ Continue(StepAfter(changed_ids))
  BY DEF ListHistory
<1> DEFINE h == call.hist + call.cursor.pos
           deleted_ids == Deleted(h + 1, last)
           changed_ids == Changed(h + 1, last) \ deleted_ids
           next == IF more THEN CursorAt("history", last - call.hist) ELSE NoCursor
<1>2. /\ call.hist \in Nat /\ call.hist <= Len(history) /\ call.cursor.pos \in Nat
      /\ Len(history) \in Nat
  BY <1>a
  DEF Stored, IsHistoryId, HasHistoryId, SyncCheckpoint, Cursors, MailboxTypeOK
<1>3. h \in Nat /\ last \in Nat /\ h + 1 \in Nat /\ h + 1 >= 1 /\ last <= Len(history)
      /\ h <= last
  BY <1>2
<1>4. UNCHANGED <<mailbox, history, floor, index, checkpoint, removedByHand, call, seen>>
  BY <1>1 DEF ListHistory, Continue, mailboxVars, repositoryVars
<1> HIDE DEF deleted_ids, changed_ids, next
<1>5. /\ page' = [todo |-> changed_ids, fetched |-> NoRecords, dropped |-> deleted_ids,
                  next |-> next, hist |-> Len(history)]
      /\ pc' = StepAfter(changed_ids)
  BY <1>1 DEF deleted_ids, changed_ids, next, Continue, CurrentHistoryId
<1>6. /\ page'.todo = changed_ids /\ page'.fetched = NoRecords
      /\ page'.dropped = deleted_ids /\ page'.next = next /\ page'.hist = Len(history)
  BY <1>5
<1>7. PageLimit' = last
  <2>1. CASE more
    <3>1. next = CursorAt("history", last - call.hist) /\ next # NoCursor
          /\ next.pos = last - call.hist
      BY <2>1 DEF next, CursorAt, NoCursor
    <3>2. QED
      BY <1>2, <1>3, <1>4, <1>6, <3>1 DEF PageLimit
  <2>2. CASE ~more
    <3>1. next = NoCursor /\ last = Len(history)
      BY <1>1, <2>2 DEF next
    <3>2. QED
      BY <1>6, <3>1 DEF PageLimit
  <2>3. QED
    BY <2>1, <2>2
<1>8. CursorFits("partial", next)
  BY DEF CursorFits, next, CursorAt
<1>9. ASSUME NEW m \in Messages \ changed_ids
      PROVE  \/ ChangedAfter(m, last)
             \/ m \in deleted_ids /\ Recorded(mailbox[m]) = "none"
             \/ m \notin deleted_ids /\ UpToDate(m, last)
  <2>1. CASE m \in deleted_ids
    <3>1. mailbox[m] = "gone"
      BY <1>a, <1>3, <2>1, DeletedIsGone DEF deleted_ids
    <3>2. QED
      BY <2>1, <3>1 DEF Recorded
  <2>2. CASE m \notin deleted_ids /\ ~ChangedAfter(m, last)
    <3>1. m \notin Changed(h + 1, last) \cup Deleted(h + 1, last)
      BY <1>9, <2>2 DEF deleted_ids, changed_ids
    <3>2. ~ChangedAfter(m, h)
      BY <1>a, <1>3, <2>2, <3>1, HistoryReports
    <3>3. UpToDate(m, h)
      BY <1>a DEF Stored, PartialCursorCovered
    <3>4. QED
      BY <2>2, <3>2, <3>3 DEF UpToDate
  <2>3. QED
    BY <2>1, <2>2
<1>10. PartialPageSound'
  <2>1. CursorFits("partial", page.next)' /\ PageLimit' <= Len(history')
    BY <1>3, <1>4, <1>6, <1>7, <1>8 DEF CursorFits
  <2>a. \A m \in page'.todo : page'.fetched[m] = "none"
    <3>1. changed_ids \in SUBSET Messages
      BY <1>a, <1>3, HistoryOfMessages DEF changed_ids
    <3>2. QED
      BY <1>6, <3>1 DEF NoRecords
  <2>2. ASSUME NEW m \in Messages \ page'.todo
        PROVE  (\/ ChangedAfter(m, PageLimit)
                \/ page.fetched[m] # "none" /\ page.fetched[m] = mailbox[m]
                \/ /\ page.fetched[m] = "none"
                   /\ m \in page.dropped
                   /\ Recorded(mailbox[m]) = "none"
                \/ /\ page.fetched[m] = "none"
                   /\ m \notin page.dropped
                   /\ UpToDate(m, PageLimit))'
    <3>1. page'.fetched[m] = "none"
      BY <1>6 DEF NoRecords
    <3>2. \/ ChangedAfter(m, last)
          \/ m \in deleted_ids /\ Recorded(mailbox[m]) = "none"
          \/ m \notin deleted_ids /\ UpToDate(m, last)
      BY <1>6, <1>9
    <3>3. (ChangedAfter(m, last) => ChangedAfter(m, PageLimit)')
          /\ (UpToDate(m, last) => UpToDate(m, PageLimit)')
          /\ Recorded(mailbox[m])' = Recorded(mailbox[m])
      BY <1>4, <1>7 DEF UpToDate, ChangedAfter, Recorded
    <3>4. QED
      BY <1>6, <3>1, <3>2, <3>3
  <2>3. QED
    BY <2>1, <2>a, <2>2 DEF PartialPageSound
<1>11. FullPageSound'
  BY <1>a, <1>4 DEF FullPageSound, PageOpen
<1>12. CallSound'
  BY <1>a, <1>4, <1>5, <1>6 DEF CallSound, StepAfter, HasHistoryId, InProgress
<1>13. Stored' /\ MailboxSound'
  <2>1. UNCHANGED mailboxVars /\ UNCHANGED repositoryVars
    BY <1>4 DEF mailboxVars, repositoryVars
  <2>2. QED
    BY <2>1, <1>a, StoredKept, MailboxSoundKept
<1>14. HistorySound'
  BY <1>a, <1>2, <1>4, <1>6, <1>13
  DEF HistorySound, MailboxSound, Stored, IsHistoryId, HasHistoryId
<1>15. QED
  BY <1>10, <1>11, <1>12, <1>13, <1>14 DEF CoverageInv, Stored

LEMMA ListMessagesCoverage ==
  ASSUME TypeOK, CoverageInv, ListMessages
  PROVE  CoverageInv'
<1>a. /\ MailboxTypeOK /\ call \in SyncCheckpoint /\ Stored /\ MailboxSound /\ CallSound
      /\ seen <= Len(history) /\ call = checkpoint /\ call.mode = "full"
      /\ InProgress(call)
  BY CoverageParts
  DEF TypeOK, CoverageInv, HistorySound, CallSound, ListMessages
<1>1. PICK listed \in SUBSET Messages, last \in PageEnds :
        /\ IsListing(call.cursor.phase, listed)
        /\ LET rest == {m \in listed : m > call.cursor.pos /\ m <= last}
               next == IF last <= NumMessages THEN [call.cursor EXCEPT !.pos = last]
                       ELSE IF call.cursor.phase = "normal" THEN CursorAt("spam", 0)
                       ELSE NoCursor
           IN  /\ page' = [NoPage EXCEPT !.todo = rest, !.next = next]
               /\ Continue(StepAfter(rest))
  BY DEF ListMessages
<1> DEFINE phase == call.cursor.phase
           pos == call.cursor.pos
           rest == {m \in listed : m > pos /\ m <= last}
           next == IF last <= NumMessages THEN [call.cursor EXCEPT !.pos = last]
                   ELSE IF phase = "normal" THEN CursorAt("spam", 0)
                   ELSE NoCursor
<1>2. /\ pos \in Nat /\ last \in Nat /\ Len(history) \in Nat /\ phase \in {"normal", "spam"}
      /\ call.cursor = [phase |-> phase, pos |-> pos]
  BY <1>a, MailboxAssumption
  DEF SyncCheckpoint, Cursors, PageEnds, MailboxTypeOK, Stored, StoredCursor, CursorFits,
      InProgress
<1>3. UNCHANGED <<mailbox, history, floor, index, checkpoint, removedByHand, call, seen>>
  BY <1>1 DEF ListMessages, Continue, mailboxVars, repositoryVars
<1>4. /\ page' = [NoPage EXCEPT !.todo = rest, !.next = next]
      /\ pc' = StepAfter(rest)
  BY <1>1 DEF Continue
<1>5. /\ page'.todo = rest /\ page'.fetched = NoRecords /\ page'.dropped = {}
      /\ page'.next = next /\ page'.hist = 0
  <2> HIDE DEF rest, next
  <2>1. QED
    BY <1>4 DEF NoPage
<1>6. \/ /\ last <= NumMessages
         /\ next = [phase |-> phase, pos |-> last] /\ next # NoCursor
      \/ /\ last > NumMessages /\ phase = "normal"
         /\ next = [phase |-> "spam", pos |-> 0] /\ next # NoCursor
      \/ last > NumMessages /\ phase = "spam" /\ next = NoCursor
  BY <1>2, MailboxAssumption DEF CursorAt, NoCursor
<1> HIDE DEF next
<1>7. CursorFits("full", next) /\ (phase = "normal" =>
        next.phase = "normal" \/ next = CursorAt("spam", 0))
  BY <1>2, <1>6 DEF CursorFits, CursorAt
<1> DEFINE target(m) == IF next = NoCursor THEN Recorded(mailbox[m]) ELSE ScannedSoFar(m, next)
<1>8. ASSUME NEW m \in Messages
      PROVE  Target(m)' = target(m) /\ page'.fetched[m] = "none" /\ m \in Nat /\ m >= 1
             /\ m <= NumMessages
  BY <1>3, <1>5, MailboxAssumption DEF Target, ScannedSoFar, Recorded, NoRecords, Messages
<1>9. ASSUME NEW m \in Messages, m \in rest
      PROVE  /\ Recorded(mailbox[m]) = target(m)
             /\ mailbox[m] = "excluded" => ScannedSoFar(m, call.cursor) = "none"
  <2>1. mailbox[m] = "excluded" \/ mailbox[m] = IF phase = "spam" THEN "spam" ELSE "inbox"
    BY <1>1, <1>9 DEF IsListing
  <2>2. CASE mailbox[m] = "excluded"
    BY <2>2 DEF Recorded, ScannedSoFar
  <2>3. CASE phase = "normal" /\ mailbox[m] = "inbox"
    BY <1>6, <1>9, <2>3 DEF Recorded, ScannedSoFar
  <2>4. CASE phase = "spam" /\ mailbox[m] = "spam"
    BY <1>6, <1>9, <2>4 DEF Recorded, ScannedSoFar
  <2>5. QED
    BY <1>2, <2>1, <2>2, <2>3, <2>4
<1>10. ASSUME NEW m \in Messages, m \notin rest
       PROVE  ScannedSoFar(m, call.cursor) = target(m)
  <2>1. m \in Nat /\ m >= 1 /\ m <= NumMessages
    BY <1>8
  <2>2. mailbox[m] = (IF phase = "spam" THEN "spam" ELSE "inbox") => m <= pos \/ m > last
    <3>1. mailbox[m] = (IF phase = "spam" THEN "spam" ELSE "inbox") => m \in listed
      BY <1>1 DEF IsListing
    <3>2. QED
      BY <1>2, <1>10, <2>1, <3>1
  <2>3. pos <= last
    BY <1>2, MailboxAssumption DEF PageEnds
  <2>4. CASE last <= NumMessages /\ next = [phase |-> phase, pos |-> last] /\ next # NoCursor
    <3>1. CASE phase = "normal"
      BY <1>2, <2>1, <2>2, <2>3, <2>4, <3>1 DEF ScannedSoFar
    <3>2. CASE phase = "spam"
      BY <1>2, <2>1, <2>2, <2>3, <2>4, <3>2 DEF ScannedSoFar
    <3>3. QED
      BY <1>2, <3>1, <3>2
  <2>5. CASE /\ last > NumMessages /\ phase = "normal"
             /\ next = [phase |-> "spam", pos |-> 0] /\ next # NoCursor
    BY <1>2, <2>1, <2>2, <2>5, MailboxAssumption DEF ScannedSoFar
  <2>6. CASE last > NumMessages /\ phase = "spam" /\ next = NoCursor
    BY <1>2, <2>1, <2>2, <2>6, MailboxAssumption DEF ScannedSoFar, Recorded
  <2>7. QED
    BY <1>6, <2>4, <2>5, <2>6
<1> HIDE DEF target
<1>11. FullPageSound'
  <2>1. /\ CursorFits("full", page.next)'
        /\ (call.cursor.phase = "normal" =>
             page.next.phase = "normal" \/ page.next = CursorAt("spam", 0))'
        /\ (page.dropped = {})'
    BY <1>3, <1>5, <1>7 DEF CursorFits, CursorAt
  <2>2. ASSUME HasHistoryId(call), NEW m \in Messages
        PROVE  (\/ ChangedAfter(m, call.hist)
                \/ /\ m \in page.todo
                   /\ Recorded(mailbox[m]) = Target(m)
                   /\ page.fetched[m] = "none"
                   /\ mailbox[m] = "excluded" => index[m] = "none" \/ m \in removedByHand
                \/ /\ m \notin page.todo
                   /\ page.fetched[m] # "none"
                   /\ page.fetched[m] = Target(m)
                \/ /\ m \notin page.todo
                   /\ page.fetched[m] = "none"
                   /\ index[m] = Target(m) \/ m \in removedByHand)'
    <3>1. ChangedAfter(m, call.hist)' <=> ChangedAfter(m, call.hist)
      BY <1>3 DEF ChangedAfter
    <3>2. \/ index[m] = ScannedSoFar(m, call.cursor)
          \/ m \in removedByHand
          \/ ChangedAfter(m, call.hist)
      BY <1>a, <2>2 DEF Stored, FullCursorCovered
    <3>3. Recorded(mailbox[m])' = Recorded(mailbox[m])
      BY <1>3 DEF Recorded
    <3> HIDE DEF rest
    <3>4. CASE m \in rest
      BY <1>3, <1>5, <1>8, <1>9, <3>1, <3>2, <3>3, <3>4
    <3>5. CASE m \notin rest
      BY <1>3, <1>5, <1>8, <1>10, <3>1, <3>2, <3>5
    <3>6. QED
      BY <3>4, <3>5
  <2>3. QED
    BY <1>3, <2>1, <2>2 DEF FullPageSound, HasHistoryId
<1>12. PartialPageSound'
  BY <1>a, <1>3 DEF PartialPageSound, PageOpen
<1>13. CallSound'
  <2> HIDE DEF rest
  <2>1. QED
    BY <1>a, <1>3, <1>4, <1>5 DEF CallSound, StepAfter, HasHistoryId, InProgress
<1>14. Stored' /\ MailboxSound'
  <2>1. UNCHANGED mailboxVars /\ UNCHANGED repositoryVars
    BY <1>3 DEF mailboxVars, repositoryVars
  <2>2. QED
    BY <2>1, <1>a, StoredKept, MailboxSoundKept
<1>15. HistorySound'
  BY <1>a, <1>2, <1>3, <1>5, <1>14
  DEF HistorySound, MailboxSound, Stored, IsHistoryId
<1>16. QED
  BY <1>11, <1>12, <1>13, <1>14, <1>15 DEF CoverageInv, Stored

LEMMA MetadataCoverage ==
  ASSUME TypeInv, CoverageInv, _metadata
  PROVE  CoverageInv'
<1> DEFINE msg == NextMessage
           place == mailbox[msg]
           rest == page.todo \ {msg}
<1>a. /\ TypeOK /\ page \in Pages /\ call \in SyncCheckpoint /\ Stored /\ MailboxSound
      /\ CallSound /\ HistorySound /\ call = checkpoint /\ InProgress(call)
      /\ pc = "metadata" /\ call.mode \in {"full", "partial"}
  BY CoverageParts
  DEF TypeInv, TypeOK, CoverageInv, CallSound, _metadata, SyncCheckpoint
<1>1. msg \in page.todo /\ msg \in Messages /\ place \in {"inbox", "spam", "excluded"}
  <2>1. page.todo # {}
    BY <1>a DEF TypeInv
  <2>2. QED
    BY <1>a, <2>1, NextMessageInTodo DEF _metadata, Present
<1>2. UNCHANGED <<mailbox, history, floor, index, checkpoint, removedByHand, call, seen>>
      /\ pc' = StepAfter(rest) /\ page' = [Take(msg) EXCEPT !.todo = rest]
  BY DEF _metadata, Continue, mailboxVars, repositoryVars
<1> HIDE DEF msg
<1>3. /\ page'.todo = rest /\ page'.next = page.next /\ page'.hist = page.hist
      /\ \A n \in Messages \ {msg} :
           page'.fetched[n] = page.fetched[n] /\ (n \in page'.dropped <=> n \in page.dropped)
  BY <1>1, <1>2, <1>a DEF Take, Pages
<1>4. call.mode = "partial" =>
        \/ /\ place = "excluded" /\ page'.fetched[msg] = page.fetched[msg]
           /\ msg \in page'.dropped
        \/ place # "excluded" /\ page'.fetched[msg] = place
  BY <1>1, <1>2, <1>a DEF Take, Pages
<1>5. call.mode = "full" =>
        /\ page'.dropped = page.dropped
        /\ \/ place = "excluded" /\ page'.fetched[msg] = page.fetched[msg]
           \/ /\ place = "spam" /\ call.cursor.phase = "normal"
              /\ page'.fetched[msg] = page.fetched[msg]
           \/ place # "excluded" /\ page'.fetched[msg] = place
  BY <1>1, <1>2, <1>a DEF Take, Pages
<1>6. PartialPageSound'
  <2> SUFFICES ASSUME call.mode = "partial"
               PROVE  PartialPageSound'
    BY <1>2 DEF PartialPageSound, PageOpen
  <2>1. /\ CursorFits("partial", page.next)
        /\ PageLimit <= Len(history)
        /\ \A m \in page.todo : page.fetched[m] = "none"
    BY <1>a DEF CoverageInv, PartialPageSound, PageOpen
  <2>2. PageLimit' = PageLimit
    BY <1>2, <1>3 DEF PageLimit
  <2>3. CursorFits("partial", page.next)' /\ PageLimit' <= Len(history')
    BY <1>2, <1>3, <2>1, <2>2 DEF CursorFits
  <2>4. \A m \in page'.todo : page'.fetched[m] = "none"
    BY <1>a, <1>3, <2>1 DEF Pages
  <2>5. ASSUME NEW n \in Messages \ page'.todo
        PROVE  (\/ ChangedAfter(n, PageLimit)
                \/ page.fetched[n] # "none" /\ page.fetched[n] = mailbox[n]
                \/ /\ page.fetched[n] = "none"
                   /\ n \in page.dropped
                   /\ Recorded(mailbox[n]) = "none"
                \/ /\ page.fetched[n] = "none"
                   /\ n \notin page.dropped
                   /\ UpToDate(n, PageLimit))'
    <3>1. CASE n = msg
      BY <1>1, <1>2, <1>4, <2>1, <3>1 DEF Recorded
    <3>2. CASE n # msg
      <4>1. n \in Messages \ page.todo
        BY <1>3, <2>5, <3>2
      <4>2. \/ ChangedAfter(n, PageLimit)
            \/ page.fetched[n] # "none" /\ page.fetched[n] = mailbox[n]
            \/ /\ page.fetched[n] = "none"
               /\ n \in page.dropped
               /\ Recorded(mailbox[n]) = "none"
            \/ /\ page.fetched[n] = "none"
               /\ n \notin page.dropped
               /\ UpToDate(n, PageLimit)
        BY <1>a, <4>1 DEF CoverageInv, PartialPageSound, PageOpen
      <4>3. (ChangedAfter(n, PageLimit) => ChangedAfter(n, PageLimit)')
            /\ (UpToDate(n, PageLimit) => UpToDate(n, PageLimit)')
            /\ Recorded(mailbox[n])' = Recorded(mailbox[n])
        BY <1>2, <2>2 DEF UpToDate, ChangedAfter, Recorded
      <4>4. QED
        BY <1>2, <1>3, <3>2, <4>2, <4>3
    <3>3. QED
      BY <3>1, <3>2
  <2>6. QED
    BY <2>3, <2>4, <2>5 DEF PartialPageSound
<1>7. FullPageSound'
  <2> SUFFICES ASSUME call.mode = "full"
               PROVE  FullPageSound'
    BY <1>2 DEF FullPageSound, PageOpen
  <2>1. /\ CursorFits("full", page.next)
        /\ call.cursor.phase = "normal" =>
             page.next.phase = "normal" \/ page.next = CursorAt("spam", 0)
        /\ page.dropped = {}
    BY <1>a DEF CoverageInv, FullPageSound, PageOpen
  <2>2. /\ CursorFits("full", page.next)'
        /\ (call.cursor.phase = "normal" =>
             page.next.phase = "normal" \/ page.next = CursorAt("spam", 0))'
        /\ (page.dropped = {})'
    BY <1>2, <1>3, <1>5, <2>1 DEF CursorFits, CursorAt
  <2>3. ASSUME HasHistoryId(call), NEW n \in Messages
        PROVE  (\/ ChangedAfter(n, call.hist)
                \/ /\ n \in page.todo
                   /\ Recorded(mailbox[n]) = Target(n)
                   /\ page.fetched[n] = "none"
                   /\ mailbox[n] = "excluded" => index[n] = "none" \/ n \in removedByHand
                \/ /\ n \notin page.todo
                   /\ page.fetched[n] # "none"
                   /\ page.fetched[n] = Target(n)
                \/ /\ n \notin page.todo
                   /\ page.fetched[n] = "none"
                   /\ index[n] = Target(n) \/ n \in removedByHand)'
    <3>1. \/ ChangedAfter(n, call.hist)
          \/ /\ n \in page.todo
             /\ Recorded(mailbox[n]) = Target(n)
             /\ page.fetched[n] = "none"
             /\ mailbox[n] = "excluded" => index[n] = "none" \/ n \in removedByHand
          \/ /\ n \notin page.todo
             /\ page.fetched[n] # "none"
             /\ page.fetched[n] = Target(n)
          \/ /\ n \notin page.todo
             /\ page.fetched[n] = "none"
             /\ index[n] = Target(n) \/ n \in removedByHand
      BY <1>a, <2>3 DEF CoverageInv, FullPageSound, PageOpen
    <3>2. /\ ChangedAfter(n, call.hist) => ChangedAfter(n, call.hist)'
          /\ Target(n)' = Target(n)
          /\ Recorded(mailbox[n])' = Recorded(mailbox[n])
      BY <1>2, <1>3 DEF ChangedAfter, Target, ScannedSoFar, Recorded
    <3>3. CASE n = msg /\ ~ChangedAfter(n, call.hist)
      <4>1. /\ Recorded(place) = Target(n) /\ page.fetched[n] = "none"
            /\ place = "excluded" => index[n] = "none" \/ n \in removedByHand
        BY <1>1, <3>1, <3>3
      <4>2. n \notin page'.todo
        BY <1>3, <3>3
      <4>3. CASE place = "excluded"
        BY <1>2, <1>5, <3>2, <3>3, <4>1, <4>2, <4>3 DEF Recorded
      <4>4. CASE place = "spam" /\ call.cursor.phase = "normal"
        <5>1. page.next # NoCursor
          BY <2>1, <4>4 DEF NoCursor, CursorAt
        <5>2. Target(n) # "spam"
          BY <1>1, <2>1, <3>3, <4>4, <5>1, MailboxAssumption
          DEF Target, ScannedSoFar, CursorAt, Messages
        <5>3. QED
          BY <4>1, <4>4, <5>2 DEF Recorded
      <4>5. CASE place # "excluded" /\ ~(place = "spam" /\ call.cursor.phase = "normal")
        <5>1. page'.fetched[n] = place /\ Recorded(place) = place /\ place # "none"
          BY <1>1, <1>5, <3>3, <4>5 DEF Recorded
        <5>2. QED
          BY <3>2, <4>1, <4>2, <5>1
      <4>6. QED
        BY <4>3, <4>4, <4>5
    <3>4. CASE n # msg
      BY <1>2, <1>3, <3>1, <3>2, <3>4
    <3>5. QED
      BY <3>2, <3>3, <3>4
  <2>4. QED
    BY <1>2, <2>2, <2>3 DEF FullPageSound, HasHistoryId
<1>8. CallSound'
  BY <1>a, <1>2, <1>3 DEF CallSound, StepAfter, HasHistoryId, InProgress
<1>9. Stored' /\ MailboxSound'
  <2>1. UNCHANGED mailboxVars /\ UNCHANGED repositoryVars
    BY <1>2 DEF mailboxVars, repositoryVars
  <2>2. QED
    BY <2>1, <1>a, StoredKept, MailboxSoundKept
<1>10. HistorySound'
  BY <1>a, <1>2, <1>3, <1>9 DEF HistorySound, MailboxSound, Stored, IsHistoryId
<1>11. QED
  BY <1>6, <1>7, <1>8, <1>9, <1>10 DEF CoverageInv, Stored

-----------------------------------------------------------------------------
(* Storing a page.                                                         *)

LEMMA PersistStored ==
  ASSUME TypeOK, CoverageInv, NEW pauseRequested \in BOOLEAN, PersistPage(pauseRequested)
  PROVE  Stored'
<1> DEFINE advanced == AdvancedCheckpoint(pauseRequested)
<1>a. /\ call \in SyncCheckpoint /\ page \in Pages /\ Stored /\ CallSound
      /\ HistorySound /\ call = checkpoint /\ InProgress(call) /\ page.todo = {}
      /\ pc = "persist" /\ call.mode \in {"full", "partial"} /\ Len(history) \in Nat
  BY CoverageParts
  DEF TypeOK, MailboxTypeOK, CoverageInv, CallSound, PersistPage, SyncCheckpoint
<1>1. UNCHANGED <<mailbox, history>> /\ apply_index_page(page.fetched, page.dropped, advanced)
  BY DEF PersistPage, Continue, Return, mailboxVars
<1>2. /\ advanced.cursor = page.next /\ advanced.mode = call.mode
      /\ advanced.hist = ConsolidatedHistoryId
      /\ advanced.state = "completed" <=> page.next = NoCursor
  BY <1>a DEF AdvancedCheckpoint, LastPage, SyncCheckpoint
<1> HIDE DEF advanced
<1>3. /\ checkpoint' = advanced
      /\ \A m \in Messages :
           /\ page.fetched[m] # "none" => index'[m] = page.fetched[m]
           /\ page.fetched[m] = "none" /\ m \in page.dropped => index'[m] = "none"
           /\ page.fetched[m] = "none" /\ m \notin page.dropped => index'[m] = index[m]
           /\ m \in removedByHand /\ page.fetched[m] = "none" /\ m \notin page.dropped
                => m \in removedByHand'
  BY <1>1 DEF apply_index_page
<1>4. CASE call.mode = "partial"
  <2>1. /\ CursorFits("partial", page.next) /\ PageLimit <= Len(history)
        /\ \A m \in Messages :
             \/ ChangedAfter(m, PageLimit)
             \/ page.fetched[m] # "none" /\ page.fetched[m] = mailbox[m]
             \/ /\ page.fetched[m] = "none"
                /\ m \in page.dropped
                /\ Recorded(mailbox[m]) = "none"
             \/ /\ page.fetched[m] = "none"
                /\ m \notin page.dropped
                /\ UpToDate(m, PageLimit)
    BY <1>a, <1>4 DEF CoverageInv, PartialPageSound, PageOpen
  <2>2. ASSUME NEW m \in Messages
        PROVE  \/ index'[m] = Recorded(mailbox[m])
               \/ m \in removedByHand'
               \/ ChangedAfter(m, PageLimit)
    <3>1. page.fetched[m] \in {"none", "inbox", "spam"}
      BY <1>a DEF Pages, Placements
    <3>2. QED
      BY <1>3, <2>1, <3>1 DEF Recorded, UpToDate
  <2>3. HasHistoryId(call) /\ call.hist \in Nat /\ call.hist <= Len(history)
    BY <1>a, <1>4 DEF CallSound, HasHistoryId, HistorySound, IsHistoryId
  <2>4. CASE page.next = NoCursor
    <3>1. PageLimit = page.hist /\ advanced.hist = page.hist /\ advanced.state = "completed"
          /\ ~InProgress(advanced)
      BY <1>2, <1>4, <2>4 DEF PageLimit, ConsolidatedHistoryId, LastPage, InProgress
    <3>2. page.hist \in Nat /\ page.hist <= Len(history)
      BY <1>a DEF Pages, HistorySound
    <3>3. \A m \in Messages : UpToDate(m, checkpoint.hist)'
      BY <1>1, <1>3, <2>2, <3>1 DEF UpToDate, ChangedAfter, Recorded
    <3>4. QED
      BY <1>1, <1>2, <1>3, <1>4, <2>1, <3>1, <3>2, <3>3
      DEF Stored, IsHistoryId, StoredCursor, CompletedIndexCovered, PartialCursorCovered,
          FullCursorCovered, InProgress, CursorFits
  <2>5. CASE page.next # NoCursor
    <3>1. PageLimit = call.hist + page.next.pos /\ advanced.hist = call.hist
          /\ advanced.state # "completed" /\ InProgress(advanced)
      BY <1>2, <1>4, <2>5 DEF PageLimit, ConsolidatedHistoryId, LastPage, InProgress
    <3>2. \A m \in Messages : UpToDate(m, checkpoint.hist + checkpoint.cursor.pos)'
      BY <1>1, <1>2, <1>3, <2>2, <3>1 DEF UpToDate, ChangedAfter, Recorded
    <3>3. QED
      BY <1>1, <1>2, <1>3, <1>4, <2>1, <2>3, <3>1, <3>2
      DEF Stored, IsHistoryId, StoredCursor, CompletedIndexCovered, PartialCursorCovered,
          FullCursorCovered, InProgress, CursorFits
  <2>6. QED
    BY <2>4, <2>5
<1>5. CASE call.mode = "full"
  <2>1. /\ CursorFits("full", page.next) /\ page.dropped = {}
        /\ HasHistoryId(call) => \A m \in Messages :
             \/ ChangedAfter(m, call.hist)
             \/ page.fetched[m] # "none" /\ page.fetched[m] = Target(m)
             \/ page.fetched[m] = "none" /\ (index[m] = Target(m) \/ m \in removedByHand)
    BY <1>a, <1>5 DEF CoverageInv, FullPageSound, PageOpen
  <2>2. advanced.hist = call.hist /\ IsHistoryId(call.hist)
    BY <1>a, <1>2, <1>5 DEF ConsolidatedHistoryId, HistorySound
  <2>3. ASSUME HasHistoryId(call), NEW m \in Messages
        PROVE  \/ ChangedAfter(m, call.hist)
               \/ index'[m] = Target(m)
               \/ m \in removedByHand'
    BY <1>3, <2>1, <2>3
  <2>4. CASE page.next = NoCursor
    <3>1. \A m \in Messages : Target(m) = Recorded(mailbox[m])
      BY <2>4 DEF Target
    <3>2. HasHistoryId(call) => \A m \in Messages : UpToDate(m, checkpoint.hist)'
      BY <1>1, <1>3, <2>2, <2>3, <3>1 DEF UpToDate, ChangedAfter
    <3>3. QED
      BY <1>1, <1>2, <1>3, <1>5, <2>1, <2>2, <2>4, <3>2
      DEF Stored, IsHistoryId, StoredCursor, CompletedIndexCovered, PartialCursorCovered,
          FullCursorCovered, InProgress, HasHistoryId, CursorFits
  <2>5. CASE page.next # NoCursor
    <3>1. \A m \in Messages : Target(m) = ScannedSoFar(m, page.next)
      BY <2>5 DEF Target
    <3>2. HasHistoryId(call) => \A m \in Messages :
            \/ index'[m] = ScannedSoFar(m, checkpoint.cursor)'
            \/ m \in removedByHand'
            \/ ChangedAfter(m, checkpoint.hist)'
      BY <1>1, <1>2, <1>3, <2>2, <2>3, <3>1 DEF ScannedSoFar, ChangedAfter
    <3>3. QED
      BY <1>1, <1>2, <1>3, <1>5, <2>1, <2>2, <2>5, <3>2
      DEF Stored, IsHistoryId, StoredCursor, CompletedIndexCovered, PartialCursorCovered,
          FullCursorCovered, InProgress, HasHistoryId, CursorFits
  <2>6. QED
    BY <2>4, <2>5
<1>6. QED
  BY <1>a, <1>4, <1>5

LEMMA PersistCoverage ==
  ASSUME TypeOK, CoverageInv, NEW pauseRequested \in BOOLEAN, PersistPage(pauseRequested)
  PROVE  CoverageInv'
<1> DEFINE advanced == AdvancedCheckpoint(pauseRequested)
<1>1. Stored' /\ MailboxSound
  BY PersistStored, CoverageParts
<1>2. CASE advanced.state # "running"
  <2>1. Return(InventoryResult(advanced.state, TRUE, advanced))
    BY <1>2 DEF PersistPage
  <2> HIDE DEF advanced
  <2>2. QED
    BY <1>1, <2>1, ReturnCoverage
<1>3. CASE advanced.state = "running"
  <2>1. /\ UNCHANGED mailboxVars /\ UNCHANGED seen /\ pc' = "list" /\ page' = NoPage
        /\ call' = advanced /\ checkpoint' = advanced
    BY <1>3 DEF PersistPage, Continue, apply_index_page
  <2>2. /\ call \in SyncCheckpoint /\ HistorySound /\ CallSound /\ Len(history) \in Nat
        /\ pc = "persist"
    BY DEF TypeOK, MailboxTypeOK, CoverageInv, PersistPage
  <2>3. advanced.cursor # NoCursor /\ advanced.mode = call.mode /\ advanced.hist = call.hist
    BY <1>3, <2>2
    DEF AdvancedCheckpoint, ConsolidatedHistoryId, LastPage, SyncCheckpoint
  <2> HIDE DEF advanced
  <2>4. MailboxSound'
    BY <1>1, <2>1, MailboxSoundKept
  <2>5. NoPageOpen'
    <3>1. UNCHANGED history
      BY <2>1 DEF mailboxVars
    <3>2. CallSound'
      BY <2>1, <2>2, <2>3 DEF CallSound, InProgress, HasHistoryId
    <3>3. QED
      BY <2>1, <2>2, <2>3, <3>1, <3>2
      DEF NoPageOpen, NoPage, HistorySound, IsHistoryId
  <2>6. QED
    BY <1>1, <2>4, <2>5, NoPageCoverage, PTL
<1>4. QED
  BY <1>2, <1>3

-----------------------------------------------------------------------------
(* Every step.                                                             *)

\* A step to a call without a page that leaves the database alone.
LEMMA QuietCoverage ==
  ASSUME CoverageInv, UNCHANGED mailboxVars, UNCHANGED repositoryVars, NoPageOpen'
  PROVE  CoverageInv'
<1>1. Stored' /\ MailboxSound'
  BY CoverageParts, StoredKept, MailboxSoundKept
<1>2. QED
  BY <1>1, NoPageCoverage, PTL

\* A step that changes nothing the invariant is about.
LEMMA SameCoverage ==
  ASSUME CoverageInv, UNCHANGED <<mailboxVars, repositoryVars, pc, call, seen, page>>
  PROVE  CoverageInv'
<1>1. UNCHANGED <<mailbox, history, floor, index, checkpoint, removedByHand>>
  BY DEF mailboxVars, repositoryVars
<1>2. Stored' /\ MailboxSound'
  BY CoverageParts, StoredKept, MailboxSoundKept
<1>3. HistorySound' /\ CallSound'
  BY <1>1
  DEF CoverageInv, HistorySound, IsHistoryId, CallSound, InProgress, HasHistoryId
<1>4. PartialPageSound'
  BY <1>1
  DEF CoverageInv, PartialPageSound, PageOpen, PageLimit, UpToDate, ChangedAfter, CursorFits
<1>5. FullPageSound'
  BY <1>1
  DEF CoverageInv, FullPageSound, PageOpen, Target, ScannedSoFar, ChangedAfter, CursorFits,
      HasHistoryId
<1>6. QED
  BY <1>2, <1>3, <1>4, <1>5 DEF CoverageInv, Stored

LEMMA OpenCoverage ==
  ASSUME TypeInv, CoverageInv, Open
  PROVE  CoverageInv'
<1>a. /\ TypeOK /\ RepositoryTypeOK /\ call \in SyncCheckpoint /\ Stored /\ MailboxSound
      /\ CallSound /\ HistorySound /\ Len(history) \in Nat
  BY CoverageParts DEF TypeInv, TypeOK, MailboxTypeOK, CoverageInv
<1>b. call.hist = NoHistoryId /\ call.cursor = FirstCursor(call.mode)
  <2>1. pc = "open"
    BY DEF Open, ResumeScan, AlreadyEnded, StartFull, StartPartial, RefuseCheckpoint
  <2>2. QED
    BY <1>a, <2>1 DEF CallSound
<1>1. CASE ResumeScan
  <2>1. /\ UNCHANGED mailboxVars /\ UNCHANGED repositoryVars /\ pc' = "list"
        /\ call' = checkpoint /\ seen' = 0 /\ UNCHANGED page
        /\ checkpoint.cursor # NoCursor /\ checkpoint.mode = call.mode
        /\ call.mode = "partial" => checkpoint.hist # NoHistoryId
    BY <1>1 DEF ResumeScan, Continue
  <2>2. UNCHANGED <<history, checkpoint>>
    BY <2>1 DEF mailboxVars, repositoryVars
  <2>3. NoPageOpen'
    BY <1>a, <2>1, <2>2
    DEF NoPageOpen, CallSound, HistorySound, Stored, IsHistoryId, InProgress, HasHistoryId
  <2>4. QED
    BY <2>1, <2>3, QuietCoverage
<1>2. CASE AlreadyEnded
  <2>1. UNCHANGED mailboxVars /\ UNCHANGED repositoryVars
    BY <1>2 DEF AlreadyEnded, Return
  <2>2. QED
    BY <1>a, <1>2, <2>1, StoredKept, ReturnCoverage DEF AlreadyEnded
<1>3. CASE RefuseCheckpoint
  <2>1. UNCHANGED mailboxVars /\ UNCHANGED repositoryVars
    BY <1>3 DEF RefuseCheckpoint, Return
  <2>2. QED
    BY <1>a, <1>3, <2>1, StoredKept, ReturnCoverage DEF RefuseCheckpoint
<1>4. CASE StartFull
  <2> DEFINE running == [call EXCEPT !.state = "running", !.hist = seen]
  <2>1. /\ UNCHANGED mailboxVars /\ pc' = "list" /\ call' = running /\ seen' = 0
        /\ UNCHANGED page /\ call.mode = "full"
        /\ index' = NoRecords /\ checkpoint' = running
    BY <1>4 DEF StartFull, start_full_index, Continue
  <2>2. /\ running.state = "running" /\ running.hist = seen /\ running.mode = "full"
        /\ running.cursor = [phase |-> "normal", pos |-> 0] /\ seen \in Nat
        /\ seen <= Len(history)
    BY <1>a, <1>b, <2>1
    DEF SyncCheckpoint, FirstCursor, CursorAt, TypeOK, HistorySound
  <2> HIDE DEF running
  <2>3. UNCHANGED <<mailbox, history>>
    BY <2>1 DEF mailboxVars
  <2>4. running.cursor # NoCursor
    BY <2>2 DEF NoCursor, CursorAt
  <2>5. \A m \in Messages : index'[m] = ScannedSoFar(m, checkpoint.cursor)'
    <3>1. \A m \in Messages : ~(m <= 0)
      BY MailboxAssumption DEF Messages
    <3>2. QED
      BY <2>1, <2>2, <3>1 DEF ScannedSoFar, NoRecords
  <2>6. Stored'
    BY <1>a, <2>1, <2>2, <2>3, <2>5
    DEF Stored, IsHistoryId, StoredCursor, CursorFits, CompletedIndexCovered,
        PartialCursorCovered, FullCursorCovered
  <2>7. MailboxSound'
    BY <1>a, <2>1, MailboxSoundKept
  <2>8. NoPageOpen'
    BY <1>a, <2>1, <2>2, <2>3, <2>4
    DEF NoPageOpen, CallSound, HistorySound, IsHistoryId, InProgress, HasHistoryId
  <2>9. QED
    BY <2>6, <2>7, <2>8, NoPageCoverage, PTL
<1>5. CASE StartPartial
  <2> DEFINE running == [call EXCEPT !.state = "running", !.hist = checkpoint.hist]
  <2>1. /\ UNCHANGED mailboxVars /\ pc' = "list" /\ call' = running
        /\ UNCHANGED <<seen, page>> /\ call.mode = "partial"
        /\ checkpoint.state = "completed" /\ checkpoint.hist # NoHistoryId
        /\ apply_index_page(NoRecords, {}, running)
    BY <1>5 DEF StartPartial, Consolidated, Continue
  <2>2. /\ running.state = "running" /\ running.hist = checkpoint.hist
        /\ running.mode = "partial" /\ running.cursor = [phase |-> "history", pos |-> 0]
    BY <1>a, <1>b, <2>1 DEF SyncCheckpoint, FirstCursor, CursorAt
  <2> HIDE DEF running
  <2>3. UNCHANGED <<index, removedByHand, mailbox, history>> /\ checkpoint' = running
    BY <1>a, <2>1, EmptyApply DEF mailboxVars
  <2>4. running.cursor # NoCursor /\ running.hist \in Nat /\ running.hist <= Len(history)
        /\ running.hist + running.cursor.pos = checkpoint.hist
    BY <1>a, <2>1, <2>2 DEF NoCursor, CursorAt, Stored, IsHistoryId
  <2>5. \A m \in Messages : UpToDate(m, checkpoint.hist)
    BY <1>a, <2>1 DEF Stored, CompletedIndexCovered, HasHistoryId
  <2>6. \A m \in Messages : UpToDate(m, checkpoint.hist + checkpoint.cursor.pos)'
    BY <2>3, <2>4, <2>5 DEF UpToDate, ChangedAfter
  <2>7. Stored'
    BY <1>a, <2>2, <2>3, <2>4, <2>6
    DEF Stored, IsHistoryId, StoredCursor, CursorFits, CompletedIndexCovered,
        PartialCursorCovered, FullCursorCovered
  <2>8. MailboxSound'
    BY <1>a, <2>1, MailboxSoundKept
  <2>9. NoPageOpen'
    BY <1>a, <2>1, <2>2, <2>3, <2>4
    DEF NoPageOpen, CallSound, HistorySound, IsHistoryId, InProgress, HasHistoryId, NoHistoryId
  <2>10. QED
    BY <2>7, <2>8, <2>9, NoPageCoverage, PTL
<1>6. QED
  BY <1>1, <1>2, <1>3, <1>4, <1>5 DEF Open

\* Pausing and failing store the checkpoint of the call, and return.
LEMMA StoppedCoverage ==
  ASSUME TypeInv, CoverageInv,
         _paused_result \/ (pc \in RemoteSteps /\ _failed_result)
  PROVE  CoverageInv'
<1>a. TypeOK /\ Stored /\ MailboxSound /\ CallSound /\ pc \in RemoteSteps
  BY CoverageParts DEF TypeInv, CoverageInv, _paused_result
<1>1. UNCHANGED mailboxVars /\ \E r : Return(r)
  BY DEF _paused_result, _failed_result, Return
<1>2. \/ UNCHANGED repositoryVars
      \/ /\ pc \in {"labels", "list", "metadata"}
         /\ \E state \in {"paused", "failed"} :
              apply_index_page(NoRecords, {}, [call EXCEPT !.state = state])
  BY <1>a DEF _paused_result, _failed_result, identity_verified, RemoteSteps
<1>3. Stored'
  BY <1>a, <1>1, <1>2, StoredKept, StoreCallKeeps
<1>4. QED
  BY <1>a, <1>1, <1>3, ReturnCoverage

LEMMA HistoryExpiredCoverage ==
  ASSUME TypeInv, CoverageInv, _HistoryExpired
  PROVE  CoverageInv'
<1> DEFINE resync == [call EXCEPT !.state = "requires_full_resync", !.cursor = NoCursor]
<1>a. TypeOK /\ Stored /\ MailboxSound /\ CallSound /\ call \in SyncCheckpoint
      /\ pc = "list" /\ call = checkpoint
  BY CoverageParts DEF TypeInv, TypeOK, CoverageInv, CallSound, _HistoryExpired
<1>1. UNCHANGED mailboxVars
      /\ Return(InventoryResult("requires_full_resync", TRUE, resync))
      /\ apply_index_page(NoRecords, {}, resync)
  BY DEF _HistoryExpired, Return
<1>2. resync.state = "requires_full_resync" /\ resync.cursor = NoCursor
      /\ resync.hist = checkpoint.hist
  BY <1>a DEF SyncCheckpoint
<1> HIDE DEF resync
<1>3. UNCHANGED <<history>> /\ checkpoint' = resync
  BY <1>1 DEF mailboxVars, apply_index_page
<1>4. Stored'
  BY <1>a, <1>2, <1>3
  DEF Stored, IsHistoryId, StoredCursor, CursorFits, CompletedIndexCovered,
      PartialCursorCovered, FullCursorCovered, InProgress
<1>5. QED
  BY <1>a, <1>1, <1>4, ReturnCoverage

\* Between two calls a user takes records out of the index, or all of it.
LEMMA DeletionCoverage ==
  ASSUME TypeInv, CoverageInv,
         DeleteAccountIndex \/ \E m \in Messages : DeleteIndexedMessages({m})
  PROVE  CoverageInv'
<1>a. TypeOK /\ Stored /\ MailboxSound /\ HistorySound /\ pc = "idle"
      /\ UNCHANGED mailboxVars /\ UNCHANGED <<pc, call, seen, page, mailbox, history>>
  BY CoverageParts
  DEF TypeInv, CoverageInv, DeleteAccountIndex, DeleteIndexedMessages, callVars, mailboxVars
<1>1. NoPageOpen' /\ MailboxSound'
  <2>1. NoPageOpen'
    BY <1>a DEF NoPageOpen, CallSound, HistorySound, IsHistoryId
  <2>2. QED
    BY <1>a, <2>1, MailboxSoundKept
<1>2. Stored'
  <2>1. CASE DeleteAccountIndex
    BY <2>1
    DEF DeleteAccountIndex, delete_account_index, NoCheckpoint, Stored, IsHistoryId,
        StoredCursor, CursorFits, CompletedIndexCovered, PartialCursorCovered,
        FullCursorCovered, HasHistoryId
  <2>2. ASSUME NEW m \in Messages, DeleteIndexedMessages({m})
        PROVE  Stored'
    <3>1. /\ checkpoint' = checkpoint
          /\ \A n \in Messages : n # m => index'[n] = index[n]
          /\ index'[m] = index[m] \/ m \in removedByHand'
          /\ \A n \in removedByHand : n \in removedByHand'
      BY <2>2, <1>a
      DEF DeleteIndexedMessages, delete_indexed_messages, TypeOK, RepositoryTypeOK
    <3>2. \A n \in Messages : index'[n] = index[n] \/ n \in removedByHand'
      BY <3>1
    <3>3. QED
      BY <1>a, <3>1, <3>2
      DEF Stored, IsHistoryId, StoredCursor, CursorFits, CompletedIndexCovered,
          PartialCursorCovered, FullCursorCovered, UpToDate, ChangedAfter, ScannedSoFar,
          InProgress, HasHistoryId
  <2>3. QED
    BY <2>1, <2>2
<1>3. QED
  BY <1>1, <1>2, NoPageCoverage, PTL

LEMMA NextCoverage == TypeInv /\ CoverageInv /\ [Next]_vars => CoverageInv'
<1> SUFFICES ASSUME TypeInv, CoverageInv, [Next]_vars
             PROVE  CoverageInv'
  OBVIOUS
<1>a. TypeOK /\ Stored /\ MailboxSound /\ HistorySound /\ CallSound /\ Len(history) \in Nat
      /\ call \in SyncCheckpoint
  BY CoverageParts DEF TypeInv, TypeOK, MailboxTypeOK, CoverageInv
<1>1. ASSUME NEW mode \in {"full", "partial"}, NEW id \in ScanIds, Begin(mode, id)
      PROVE  CoverageInv'
  <2>1. /\ UNCHANGED mailboxVars /\ UNCHANGED repositoryVars /\ pc' = "profile"
        /\ UNCHANGED <<seen, page>>
        /\ call' = [scan |-> id, mode |-> mode, state |-> "not_started",
                    cursor |-> FirstCursor(mode), hist |-> NoHistoryId]
    BY <1>1 DEF Begin
  <2>2. NoPageOpen'
    BY <1>a, <2>1
    DEF NoPageOpen, CallSound, HistorySound, IsHistoryId, mailboxVars
  <2>3. QED
    BY <2>1, <2>2, QuietCoverage
<1>2. CASE _profile
  <2>1. /\ UNCHANGED mailboxVars /\ UNCHANGED repositoryVars /\ pc' = "labels"
        /\ UNCHANGED <<call, page>> /\ pc = "profile"
        /\ seen' = Len(history) \/ seen' = seen
    BY <1>2 DEF _profile, Continue, CurrentHistoryId
  <2>2. NoPageOpen'
    BY <1>a, <2>1
    DEF NoPageOpen, CallSound, HistorySound, IsHistoryId, mailboxVars
  <2>3. QED
    BY <2>1, <2>2, QuietCoverage
<1>3. CASE _labels
  <2>1. /\ UNCHANGED mailboxVars /\ UNCHANGED repositoryVars /\ pc' = "open"
        /\ UNCHANGED <<call, seen, page>> /\ pc = "labels"
    BY <1>3 DEF _labels, Continue
  <2>2. NoPageOpen'
    BY <1>a, <2>1
    DEF NoPageOpen, CallSound, HistorySound, IsHistoryId, mailboxVars
  <2>3. QED
    BY <2>1, <2>2, QuietCoverage
<1>4. CASE Open
  BY <1>4, OpenCoverage
<1>5. CASE ListMessages
  BY <1>a, <1>5, ListMessagesCoverage
<1>6. CASE ListHistory
  BY <1>a, <1>6, ListHistoryCoverage
<1>7. CASE _HistoryExpired
  BY <1>7, HistoryExpiredCoverage
<1>8. CASE _metadata
  BY <1>8, MetadataCoverage
<1>9. ASSUME NEW pauseRequested \in BOOLEAN, PersistPage(pauseRequested)
      PROVE  CoverageInv'
  BY <1>a, <1>9, PersistCoverage
<1>10. CASE Retry
  <2>1. UNCHANGED <<mailboxVars, repositoryVars, pc, call, seen, page>>
    BY <1>10 DEF Retry
  <2>2. QED
    BY <2>1, SameCoverage
<1>11. CASE MessageNotFound \/ RemoteFailure \/ _paused_result
  BY <1>11, StoppedCoverage DEF MessageNotFound, NotFound, RemoteFailure, RemoteSteps
<1>12. CASE UnstoredFailure \/ Cancel \/ Crash
  <2>1. UNCHANGED mailboxVars /\ UNCHANGED repositoryVars /\ \E r : Return(r)
    BY <1>12 DEF UnstoredFailure, Cancel, Crash, Return
  <2>2. QED
    BY <1>a, <2>1, StoredKept, ReturnCoverage
<1>13. CASE DeleteAccountIndex \/ \E m \in Messages : DeleteIndexedMessages({m})
  BY <1>13, DeletionCoverage
<1>14. CASE MailboxChanges
  BY <1>a, <1>14, MailboxChangesCoverage
<1>15. CASE UNCHANGED vars
  <2>1. UNCHANGED <<mailboxVars, repositoryVars, pc, call, seen, page>>
    BY <1>15 DEF vars, callVars
  <2>2. QED
    BY <2>1, SameCoverage
<1>16. ScanStep => CoverageInv'
  BY <1>2, <1>3, <1>4, <1>5, <1>6, <1>7, <1>8, <1>9, <1>11 DEF ScanStep
<1>17. Interruption => CoverageInv'
  BY <1>10, <1>11, <1>12 DEF Interruption
<1>18. QED
  BY <1>1, <1>13, <1>14, <1>15, <1>16, <1>17 DEF Next

-----------------------------------------------------------------------------
(* The theorems.                                                           *)

\* The invariant as a whole, of which the next three are parts: what is said of the
\* stored checkpoint and what a running call knows of its page support each other.
THEOREM CoverageCorrect == Spec => []CoverageInv
<1>1. Spec => [](TypeInv /\ CoverageInv)
  BY InitTypeInv, NextTypeInv, InitCoverage, NextCoverage, PTL DEF Spec
<1>2. QED
  BY <1>1, PTL

\* Whatever the mailbox does between two requests and however the scans before it
\* were interrupted and resumed, when a checkpoint says completed, every message on
\* which the index is wrong has a change that the next partial scan will be told of.
THEOREM CompletedCorrect == Spec => []CompletedIndexCovered
<1>1. CoverageInv => CompletedIndexCovered
  BY DEF CoverageInv
<1>2. QED
  BY <1>1, CoverageCorrect, PTL

\* An interrupted partial scan has applied every change before its cursor.
THEOREM PartialCorrect == Spec => []PartialCursorCovered
<1>1. CoverageInv => PartialCursorCovered
  BY DEF CoverageInv
<1>2. QED
  BY <1>1, CoverageCorrect, PTL

\* An interrupted full scan has the records of what is before its cursor, and
\* nothing of the earlier index after it.
THEOREM FullCorrect == Spec => []FullCursorCovered
<1>1. CoverageInv => FullCursorCovered
  BY DEF CoverageInv
<1>2. QED
  BY <1>1, CoverageCorrect, PTL

=============================================================================
