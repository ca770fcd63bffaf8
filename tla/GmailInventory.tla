---------------------------- MODULE GmailInventory ----------------------------
(***************************************************************************)
(* One caller of GmailReadonlyInventory (src/mailmap/gmail_inventory.py)   *)
(* scanning a mailbox that changes meanwhile, into an index that outlives  *)
(* the calls.  Each remote request of scan_full and scan_partial is a step *)
(* of its own, because the mailbox moves between any two of them; each     *)
(* transaction of the index is one step.  A call may be cancelled, paused, *)
(* fail, or die with its process at every step.                            *)
(***************************************************************************)
EXTENDS IndexRepository

CONSTANT RetryLimit  \* GMAIL_RETRY_ATTEMPT_LIMIT

ASSUME RetryAssumption == RetryLimit \in Nat \ {0}

VARIABLES
    pc,       \* the next thing the running call does
    attempt,  \* which attempt of the pending remote request this is
    call,     \* the local variable `checkpoint` of the running call
    seen,     \* profile.history_id, until a full scan has stored it
    page,     \* the page being worked on
    result    \* the InventoryResult of the last call that returned

callVars == <<attempt, call, seen, page>>
vars == <<mailboxVars, repositoryVars, pc, callVars, result>>

\* todo: messages whose metadata is still to be read; fetched: the records so
\* far; dropped: deleted_ids; next: the cursor after the page (NoCursor when it
\* is the last one); hist: page.history_id.
Pages == [todo: SUBSET Messages, fetched: [Messages -> Placements],
          dropped: SUBSET Messages, next: Cursors, hist: Nat]
NoPage == [todo |-> {}, fetched |-> NoRecords, dropped |-> {},
           next |-> NoCursor, hist |-> 0]

Outcomes == {"none", "completed", "paused", "cancelled", "failed",
             "requires_full_resync"}
Results == [outcome: Outcomes, persisted: BOOLEAN, checkpoint: SyncCheckpoint]
NoResult == [outcome |-> "none", persisted |-> FALSE, checkpoint |-> NoCheckpoint]
\* A checkpoint that was not stored says nothing about the index: it is not kept.
InventoryResult(outcome, stored, c) ==
    [outcome |-> outcome, persisted |-> stored,
     checkpoint |-> IF stored THEN c ELSE NoCheckpoint]

RemoteSteps == {"profile", "labels", "list", "metadata"}
Steps == {"idle", "open", "persist"} \cup RemoteSteps

TypeOK ==
    /\ MailboxTypeOK
    /\ RepositoryTypeOK
    /\ pc \in Steps
    /\ attempt \in 1..RetryLimit
    /\ call \in SyncCheckpoint
    /\ seen \in Nat
    /\ page \in Pages
    /\ result \in Results

Init ==
    /\ MailboxInit
    /\ RepositoryInit
    /\ pc = "idle"
    /\ attempt = 1
    /\ call = NoCheckpoint
    /\ seen = 0
    /\ page = NoPage
    /\ result = NoResult

\* The labels and the checkpoint are checked only once the profile was seen.
identity_verified == pc \notin {"idle", "profile"}
\* Mistake: true as soon as the stored checkpoint was looked up.
persisted_TooEarly == pc \notin {"idle", "profile", "labels"}

\* The local `persisted`: the checkpoint in `call` is the one in the index.
persisted == pc \in {"list", "metadata", "persist"}

Return(r) ==
    /\ pc' = "idle"
    /\ attempt' = 1
    /\ call' = NoCheckpoint
    /\ seen' = 0
    /\ page' = NoPage
    /\ result' = r
    /\ UNCHANGED mailboxVars

\* An answer arrived: the next request starts with its first attempt.
Continue(step) ==
    /\ pc' = step
    /\ attempt' = 1
    /\ UNCHANGED <<mailboxVars, result>>

-----------------------------------------------------------------------------
(* Starting a call, up to the first page.                                  *)

FirstCursor(mode) == CursorAt(IF mode = "full" THEN "normal" ELSE "history", 0)

Begin(mode, id) ==
    /\ pc = "idle"
    /\ call' = [scan |-> id, mode |-> mode, state |-> "not_started",
                cursor |-> FirstCursor(mode), hist |-> NoHistoryId]
    /\ pc' = "profile"
    /\ result' = NoResult
    /\ UNCHANGED <<mailboxVars, repositoryVars, attempt, seen, page>>

\* Mistake: the profile is answered from a cache that an earlier call filled.
_profile_Cached ==
    /\ pc = "profile"
    /\ IF call.mode = "full" THEN seen' \in 0..CurrentHistoryId ELSE UNCHANGED seen
    /\ Continue("labels")
    /\ UNCHANGED <<repositoryVars, call, page>>

_profile ==
    /\ pc = "profile"
    /\ seen' = IF call.mode = "full" THEN CurrentHistoryId ELSE seen
    /\ Continue("labels")
    /\ UNCHANGED <<repositoryVars, call, page>>

_labels ==
    /\ pc = "labels"
    /\ Continue("open")
    /\ UNCHANGED <<repositoryVars, call, seen, page>>

Resumable == {"not_started", "running", "paused", "failed"}
Resumes == checkpoint.scan = call.scan

\* Mistake: the pages start again from the first.
ResumeScan_FromTheStart ==
    /\ pc = "open"
    /\ Resumes
    /\ checkpoint.mode = call.mode
    /\ call.mode = "partial" => checkpoint.hist # NoHistoryId
    /\ checkpoint.state \in Resumable
    /\ checkpoint.cursor # NoCursor
    /\ call' = [checkpoint EXCEPT !.cursor = FirstCursor(call.mode)]
    /\ seen' = 0
    /\ Continue("list")
    /\ UNCHANGED <<repositoryVars, page>>

\* The stored checkpoint belongs to this scan and has work left.
ResumeScan ==
    /\ pc = "open"
    /\ Resumes
    /\ checkpoint.mode = call.mode
    /\ call.mode = "partial" => checkpoint.hist # NoHistoryId
    /\ checkpoint.state \in Resumable
    /\ checkpoint.cursor # NoCursor
    /\ call' = checkpoint
    /\ seen' = 0
    /\ Continue("list")
    /\ UNCHANGED <<repositoryVars, page>>

Ended(mode) ==
    {"completed"} \cup IF mode = "partial" THEN {"requires_full_resync"} ELSE {}

\* The stored checkpoint says that this scan has already ended.
AlreadyEnded ==
    /\ pc = "open"
    /\ Resumes
    /\ checkpoint.mode = call.mode
    /\ call.mode = "partial" => checkpoint.hist # NoHistoryId
    /\ checkpoint.state \in Ended(call.mode)
    /\ Return(InventoryResult(checkpoint.state, TRUE, checkpoint))
    /\ UNCHANGED repositoryVars

\* Mistake: the earlier index is left in place.
StartFull_KeepsIndex ==
    /\ pc = "open"
    /\ call.mode = "full"
    /\ ~Resumes
    /\ LET running == [call EXCEPT !.state = "running", !.hist = seen]
       IN  apply_index_page(NoRecords, {}, running) /\ call' = running
    /\ seen' = 0
    /\ Continue("list")
    /\ UNCHANGED page

\* A new full scan: the earlier index goes.
StartFull ==
    /\ pc = "open"
    /\ call.mode = "full"
    /\ ~Resumes
    /\ LET running == [call EXCEPT !.state = "running", !.hist = seen]
       IN  start_full_index(running) /\ call' = running
    /\ seen' = 0
    /\ Continue("list")
    /\ UNCHANGED page

\* What a partial scan can start from.
Consolidated == checkpoint.state = "completed" /\ checkpoint.hist # NoHistoryId

StartPartial ==
    /\ pc = "open"
    /\ call.mode = "partial"
    /\ ~Resumes
    /\ Consolidated
    /\ LET running == [call EXCEPT !.state = "running", !.hist = checkpoint.hist]
       IN  apply_index_page(NoRecords, {}, running) /\ call' = running
    /\ Continue("list")
    /\ UNCHANGED <<seen, page>>

\* CHECKPOINT_INVALID and CHECKPOINT_MISSING end the call and are not stored.
RefuseCheckpoint ==
    /\ pc = "open"
    /\ \/ /\ Resumes
          /\ \/ checkpoint.mode # call.mode
             \/ call.mode = "partial" /\ checkpoint.hist = NoHistoryId
             \/ checkpoint.state \notin Resumable \cup Ended(call.mode)
             \/ checkpoint.state \in Resumable /\ checkpoint.cursor = NoCursor
       \/ /\ ~Resumes
          /\ call.mode = "partial"
          /\ ~Consolidated
    /\ Return(InventoryResult("failed", FALSE, [call EXCEPT !.state = "failed"]))
    /\ UNCHANGED repositoryVars

-----------------------------------------------------------------------------
(* The loop over the pages.                                                *)

StepAfter(todo) == IF todo = {} THEN "persist" ELSE "metadata"

\* Mistake: a page that hands back the token it was asked for is accepted.
PageEnds_NoProgress == call.cursor.pos..NumMessages + 1

\* The position a page of messages.list may reach; NumMessages + 1 is the end.
PageEnds == call.cursor.pos + 1..NumMessages + 1

\* One page of messages.list: up to some position, with a token for the rest, or
\* to the end.  The end of the normal phase is the start of the Spam phase.
ListMessages ==
    /\ pc = "list"
    /\ call.mode = "full"
    /\ \E listed \in SUBSET Messages, last \in PageEnds :
         /\ IsListing(call.cursor.phase, listed)
         /\ LET rest == {m \in listed : m > call.cursor.pos /\ m <= last}
                next == IF last <= NumMessages THEN [call.cursor EXCEPT !.pos = last]
                        ELSE IF call.cursor.phase = "normal" THEN CursorAt("spam", 0)
                        ELSE NoCursor
            IN  /\ page' = [NoPage EXCEPT !.todo = rest, !.next = next]
                /\ Continue(StepAfter(rest))
    /\ UNCHANGED <<repositoryVars, call, seen>>

\* One page of history.list.
ListHistory ==
    /\ pc = "list"
    /\ call.mode = "partial"
    /\ call.hist >= floor
    /\ \E last \in call.hist + call.cursor.pos..Len(history), more \in BOOLEAN :
         /\ IF more THEN last > call.hist + call.cursor.pos ELSE last = Len(history)
         /\ LET first == call.hist + call.cursor.pos + 1
                deleted_ids == Deleted(first, last)
                changed_ids == Changed(first, last) \ deleted_ids
            IN  /\ page' = [todo |-> changed_ids, fetched |-> NoRecords,
                            dropped |-> deleted_ids,
                            next |-> IF more
                                     THEN CursorAt("history", last - call.hist)
                                     ELSE NoCursor,
                            hist |-> CurrentHistoryId]
                /\ Continue(StepAfter(changed_ids))
    /\ UNCHANGED <<repositoryVars, call, seen>>

\* The service no longer has the history the scan starts from.
_HistoryExpired ==
    /\ pc = "list"
    /\ call.mode = "partial"
    /\ call.hist < floor
    /\ LET resync == [call EXCEPT !.state = "requires_full_resync",
                                  !.cursor = NoCursor]
       IN  /\ apply_index_page(NoRecords, {}, resync)
           /\ Return(InventoryResult("requires_full_resync", TRUE, resync))

NextMessage == CHOOSE m \in page.todo : \A n \in page.todo : m <= n

\* Mistake: a message that moved to an excluded place keeps its record.
Take_KeepsExcluded(m) ==
    LET place == mailbox[m] IN
    IF \/ place = "excluded"
       \/ call.mode = "full" /\ call.cursor.phase = "normal" /\ place = "spam"
      THEN page
      ELSE [page EXCEPT !.fetched[m] = place]

\* What the scan makes of the metadata of m.
Take(m) ==
    LET place == mailbox[m] IN
    IF place = "excluded"
      THEN [page EXCEPT !.dropped = IF call.mode = "partial" THEN @ \cup {m} ELSE @]
      ELSE IF call.mode = "full" /\ call.cursor.phase = "normal" /\ place = "spam"
             THEN page
             ELSE [page EXCEPT !.fetched[m] = place]

_metadata ==
    /\ pc = "metadata"
    /\ mailbox[NextMessage] \in Present
    /\ LET rest == page.todo \ {NextMessage}
       IN  /\ page' = [Take(NextMessage) EXCEPT !.todo = rest]
           /\ Continue(StepAfter(rest))
    /\ UNCHANGED <<repositoryVars, call, seen>>

LastPage == page.next = NoCursor

\* Mistake: a full scan, too, takes the history_id of the moment it ends.
ConsolidatedHistoryId_AtTheEnd == IF LastPage THEN CurrentHistoryId ELSE call.hist

\* Only the last page of a partial scan moves the history_id.
ConsolidatedHistoryId ==
    IF LastPage /\ call.mode = "partial" THEN page.hist ELSE call.hist

AdvancedCheckpoint(pauseRequested) ==
    [call EXCEPT !.state = IF LastPage THEN "completed"
                           ELSE IF pauseRequested THEN "paused" ELSE "running",
                 !.cursor = page.next,
                 !.hist = ConsolidatedHistoryId]

\* Records, deletions and the advanced checkpoint go in together.
PersistPage(pauseRequested) ==
    /\ pc = "persist"
    /\ LET advanced == AdvancedCheckpoint(pauseRequested)
       IN  /\ apply_index_page(page.fetched, page.dropped, advanced)
           /\ IF advanced.state = "running"
                THEN /\ call' = advanced
                     /\ page' = NoPage
                     /\ Continue("list")
                     /\ UNCHANGED seen
                ELSE Return(InventoryResult(advanced.state, TRUE, advanced))

-----------------------------------------------------------------------------
(* The ways a call ends early.                                             *)

\* Mistake: one attempt more than the limit.
Retry_OnceMore ==
    /\ pc \in RemoteSteps
    /\ attempt <= RetryLimit
    /\ attempt' = attempt + 1
    /\ UNCHANGED <<mailboxVars, repositoryVars, pc, call, seen, page, result>>

\* A transient error with attempts left: the request is repeated.
Retry ==
    /\ pc \in RemoteSteps
    /\ attempt < RetryLimit
    /\ attempt' = attempt + 1
    /\ UNCHANGED <<mailboxVars, repositoryVars, pc, call, seen, page, result>>

\* An error is stored with the checkpoint, once the identity was verified.
_failed_result ==
    LET failed == [call EXCEPT !.state = "failed"] IN
    /\ identity_verified
    /\ apply_index_page(NoRecords, {}, failed)
    /\ Return(InventoryResult("failed", TRUE, failed))

\* The message was deleted since its page was read: its metadata is a 404.
NotFound == pc = "metadata" /\ mailbox[NextMessage] = "gone"

\* Mistake: the page is asked for again instead of ending the call.
MessageNotFound_SamePage ==
    /\ NotFound
    /\ page' = NoPage
    /\ Continue("list")
    /\ UNCHANGED <<repositoryVars, call, seen>>

MessageNotFound ==
    /\ NotFound
    /\ _failed_result

\* Transient errors up to the last attempt, or an error not worth repeating.
RemoteFailure ==
    /\ pc \in RemoteSteps
    /\ ~NotFound
    /\ _failed_result

\* Errors the code does not store: a failure before the identity is verified, a
\* failing clock or control callback, a transaction that did not go through.
UnstoredFailure ==
    /\ pc # "idle"
    /\ Return(InventoryResult("failed", FALSE, [call EXCEPT !.state = "failed"]))
    /\ UNCHANGED repositoryVars

\* The flag is read before every request and before every write.  Cancelled while
\* it stores an error, a call does not claim its checkpoint.
Cancel ==
    /\ pc # "idle"
    /\ pc = "open" => ~Resumes /\ (call.mode = "partial" => Consolidated)
    /\ \E claimed \in {persisted, FALSE} :
         Return(InventoryResult("cancelled", claimed, call))
    /\ UNCHANGED repositoryVars

_paused_result ==
    LET paused == [call EXCEPT !.state = "paused"] IN
    /\ pc \in RemoteSteps
    /\ IF identity_verified
         THEN apply_index_page(NoRecords, {}, paused)
         ELSE UNCHANGED repositoryVars
    /\ Return(InventoryResult("paused", identity_verified, paused))

\* The process dies: its local variables are gone, the database is not.
Crash ==
    /\ pc # "idle"
    /\ Return(NoResult)
    /\ UNCHANGED repositoryVars

-----------------------------------------------------------------------------
(* Other users of the index, between two calls.                            *)

DeleteAccountIndex ==
    /\ pc = "idle"
    /\ checkpoint # NoCheckpoint
    /\ delete_account_index
    /\ UNCHANGED <<mailboxVars, pc, callVars, result>>

DeleteIndexedMessages(ids) ==
    /\ pc = "idle"
    /\ delete_indexed_messages(ids)
    /\ UNCHANGED <<mailboxVars, pc, callVars, result>>

MailboxChanges ==
    /\ MailboxNext
    /\ UNCHANGED <<repositoryVars, pc, callVars, result>>

Open ==
    ResumeScan \/ AlreadyEnded \/ StartFull \/ StartPartial \/ RefuseCheckpoint

ScanStep ==
    \/ _profile \/ _labels \/ Open
    \/ ListMessages \/ ListHistory \/ _HistoryExpired
    \/ _metadata \/ MessageNotFound
    \/ \E pauseRequested \in BOOLEAN : PersistPage(pauseRequested)

Interruption ==
    Retry \/ RemoteFailure \/ UnstoredFailure \/ Cancel \/ _paused_result \/ Crash

Next ==
    \/ \E mode \in {"full", "partial"}, id \in ScanIds : Begin(mode, id)
    \/ ScanStep
    \/ Interruption
    \/ DeleteAccountIndex
    \/ \E m \in Messages : DeleteIndexedMessages({m})
    \/ MailboxChanges

Spec == Init /\ [][Next]_vars

-----------------------------------------------------------------------------
(* Safety.                                                                 *)

\* What an index that is up to date holds for a message in this place.
Recorded(place) == IF place \in {"inbox", "spam"} THEN place ELSE "none"

ChangedAfter(m, h) == \E i \in 1..Len(history) : i > h /\ history[i].msg = m

\* The index is right about m, or a partial scan from h will be told to look.
\* What a user took out by hand is nobody's to bring back.
UpToDate(m, h) ==
    \/ index[m] = Recorded(mailbox[m])
    \/ m \in removedByHand
    \/ ChangedAfter(m, h)

HasHistoryId(c) == c.hist # NoHistoryId
InProgress(c) == c.cursor # NoCursor

\* A completed checkpoint can be trusted: every message on which the index and
\* the mailbox differ has a change after history_id, so the next partial scan
\* cannot miss it.  Nothing the mailbox did between two requests, and no crash,
\* failure, pause or resumption of any scan before it, is lost (scan_full takes
\* history_id from the profile it read first, scan_partial from its last page).
CompletedIndexCovered ==
    checkpoint.state = "completed" /\ HasHistoryId(checkpoint) =>
        \A m \in Messages : UpToDate(m, checkpoint.hist)

\* A partial scan that was interrupted anywhere has applied exactly the changes
\* its cursor says it has: whoever resumes from it skips none (each page and its
\* cursor go in with one apply_index_page).
PartialCursorCovered ==
    checkpoint.mode = "partial" /\ HasHistoryId(checkpoint) /\ InProgress(checkpoint) =>
        \A m \in Messages : UpToDate(m, checkpoint.hist + checkpoint.cursor.pos)

\* The record a full scan has for m by the time its cursor is at c, if m stays
\* where it is.
ScannedSoFar(m, c) ==
    IF \/ mailbox[m] = "inbox" /\ (c.phase = "spam" \/ m <= c.pos)
       \/ mailbox[m] = "spam" /\ c.phase = "spam" /\ m <= c.pos
    THEN mailbox[m] ELSE "none"

\* A full scan that was interrupted anywhere has replaced the earlier index: a
\* message that did not change since the scan read the profile has a record if
\* its page was listed, and none left over from before if it was not.
FullCursorCovered ==
    checkpoint.mode = "full" /\ HasHistoryId(checkpoint) /\ InProgress(checkpoint) =>
        \A m \in Messages :
            \/ index[m] = ScannedSoFar(m, checkpoint.cursor)
            \/ m \in removedByHand
            \/ ChangedAfter(m, checkpoint.hist)

\* The history_id on which partial scans build never goes back: not when a full
\* scan replaces the index, nor when a scan that began long ago is resumed and
\* completes (start_full_index and the last page of scan_partial set it).
HistoryIdNeverGoesBack ==
    [][HasHistoryId(checkpoint) /\ HasHistoryId(checkpoint)'
         => checkpoint'.hist >= checkpoint.hist]_vars

\* How far a cursor is into its scan.
Position(c) ==
    CASE c.phase = "none" -> 2 * (NumMessages + 1) + MaxHistory
      [] c.phase = "spam" -> NumMessages + 1 + c.pos
      [] OTHER -> c.pos

\* Within one scan the stored cursor never goes back, however the scan is
\* interrupted and resumed, except when a call stops at its request for the
\* labels: scan_full and scan_partial read the stored checkpoint only after it,
\* and until then `checkpoint` is one that starts from nothing.
CursorNeverGoesBack ==
    [][checkpoint'.scan = checkpoint.scan /\ pc # "labels"
         => Position(checkpoint'.cursor) >= Position(checkpoint.cursor)]_vars

\* checkpoint_persisted tells the truth: when a call returns it, whichever way it
\* ended, the checkpoint it returns is the one the index holds.
ResultTellsTheIndex ==
    [][pc # "idle" /\ pc' = "idle" /\ result'.persisted
         => checkpoint' = result'.checkpoint]_vars

-----------------------------------------------------------------------------
(* What the contracts say and the code does not do.                        *)

\* docs/contracts/GMAIL_READONLY_INVENTORY_V1.md:78: a full scan with a new
\* scan_id replaces the index at the moment its checkpoint replaces the old one.
NewFullScanReplacesIndex ==
    [][checkpoint'.scan # checkpoint.scan /\ checkpoint'.scan # NoScan
         /\ checkpoint'.mode = "full"
         => index' = NoRecords]_vars

\* docs/contracts/INDEX_PERSISTENCE_V1.md:230: an interrupted scan can go on from
\* the checkpoint it left.  A partial scan that had a completed index to start
\* from leaves, when it is paused or fails, a history_id to start from again.
InterruptedPartialCanContinue ==
    [][/\ checkpoint.state = "completed" /\ HasHistoryId(checkpoint)
       /\ checkpoint'.mode = "partial" /\ checkpoint'.state \in {"paused", "failed"}
       => HasHistoryId(checkpoint')]_vars

-----------------------------------------------------------------------------
(* Liveness.                                                               *)

\* A request is answered or times out, a transaction commits or fails: a call
\* never stops halfway.  Its caller keeps resuming what is not finished.
Resume ==
    /\ checkpoint.state \in Resumable
    /\ checkpoint.scan # NoScan
    /\ Begin(checkpoint.mode, checkpoint.scan)

FairSpec == Spec /\ WF_vars(ScanStep) /\ SF_vars(Resume)

\* From some time on nothing interrupts or pauses the scans.
Undisturbed == <>[][~Interruption /\ result'.outcome # "paused"]_vars

\* Every call returns: the attempts at a request are bounded (_remote) and the
\* pages come to an end, even if the mailbox changes all the while.
CallReturns == (pc # "idle") ~> (pc = "idle")

Unfinished(mode) ==
    /\ checkpoint.mode = mode
    /\ checkpoint.scan # NoScan
    /\ checkpoint.state \in Resumable
    /\ mode = "partial" => HasHistoryId(checkpoint)

\* A full scan that is resumed until it ends does end, whatever interrupted it and
\* whatever was deleted between its listing and its metadata: the next call lists
\* the page again, without the deleted message.
FullScanEnds == Undisturbed => (Unfinished("full") ~> ~Unfinished("full"))

\* docs/contracts/GMAIL_READONLY_INVENTORY_V1.md:98-101: a partial scan takes what
\* was deleted out of the index, so one that is resumed until it ends, ends.
PartialScanEnds == Undisturbed => (Unfinished("partial") ~> ~Unfinished("partial"))

=============================================================================
