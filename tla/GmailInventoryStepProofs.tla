----------------------- MODULE GmailInventoryStepProofs -----------------------
(***************************************************************************)
(* What no step of GmailInventory may do to the stored checkpoint, for     *)
(* every mailbox size, history bound, set of scans and retry limit: take   *)
(* the history_id back, take a cursor back within its scan, or report a    *)
(* checkpoint that is not the stored one.                                  *)
(***************************************************************************)
EXTENDS GmailInventoryProofs

-----------------------------------------------------------------------------
(* The invariant: what is ahead of the stored checkpoint stays ahead.      *)

\* A cursor is within the pages there can be.
Bounded(c) ==
    /\ c.phase \in {"normal", "spam"} => c.pos <= NumMessages
    /\ c.phase = "history" => c.pos <= MaxHistory

\* The profile a new full scan starts from is no older than the index.
ProfileAhead ==
    pc \in {"labels", "open"} /\ call.mode = "full" => checkpoint.hist <= seen

\* The page a call works on is past the cursor it was listed with.
PageAhead ==
    pc \in {"metadata", "persist"} =>
        /\ Bounded(page.next)
        /\ Position(page.next) >= Position(call.cursor)
        /\ call.mode = "partial" => page.hist >= call.hist

AheadInv ==
    /\ Len(history) <= MaxHistory
    /\ Bounded(checkpoint.cursor)
    /\ ProfileAhead
    /\ PageAhead

\* All that is known of a state.
StepInv == TypeInv /\ CoverageInv /\ AheadInv

LEMMA InitAhead == Init => AheadInv
<1> SUFFICES ASSUME Init PROVE AheadInv
  OBVIOUS
<1>1. history = <<>> /\ checkpoint = NoCheckpoint /\ pc = "idle"
  BY DEF Init, MailboxInit, RepositoryInit
<1>2. QED
  BY <1>1, MailboxAssumption
  DEF AheadInv, Bounded, ProfileAhead, PageAhead, NoCheckpoint, NoCursor, CursorAt

LEMMA PositionOf ==
  ASSUME NEW c \in Cursors
  PROVE  /\ Position(c) \in Int
         /\ c.phase = "none" => Position(c) = 2 * (NumMessages + 1) + MaxHistory
         /\ c.phase = "spam" => Position(c) = NumMessages + 1 + c.pos
         /\ c.phase \in {"normal", "history"} => Position(c) = c.pos
         /\ Bounded(c) => Position(c) <= 2 * (NumMessages + 1) + MaxHistory
BY MailboxAssumption DEF Position, Cursors, Phases, Bounded

LEMMA NoCursorLast ==
  ASSUME NEW c \in Cursors, Bounded(c)
  PROVE  Bounded(NoCursor) /\ Position(NoCursor) >= Position(c)
<1>1. NoCursor \in Cursors /\ NoCursor.phase = "none"
  BY DEF NoCursor, CursorAt, Cursors
<1>2. Bounded(NoCursor)
  BY <1>1 DEF Bounded
<1>3. QED
  BY <1>1, <1>2, PositionOf, MailboxAssumption

-----------------------------------------------------------------------------
(* What each kind of step stores.                                          *)

\* What holds of a step that writes the checkpoint c in place of the stored one.
StoresAhead(c) ==
    /\ Bounded(c.cursor)
    /\ HasHistoryId(checkpoint) /\ HasHistoryId(c) => c.hist >= checkpoint.hist
    /\ c.scan = checkpoint.scan /\ pc # "labels" =>
         Position(c.cursor) >= Position(checkpoint.cursor)

\* What the three properties say of one step.
HistoryStep ==
    HasHistoryId(checkpoint) /\ HasHistoryId(checkpoint)'
      => checkpoint'.hist >= checkpoint.hist
CursorStep ==
    checkpoint'.scan = checkpoint.scan /\ pc # "labels"
      => Position(checkpoint'.cursor) >= Position(checkpoint.cursor)
ReturnStep ==
    pc # "idle" /\ pc' = "idle" /\ result'.persisted
      => checkpoint' = result'.checkpoint

SoundStep == HistoryStep /\ CursorStep /\ ReturnStep

LEMMA StoreIsSound ==
  ASSUME NEW c, checkpoint' = c, StoresAhead(c)
  PROVE  HistoryStep /\ CursorStep
BY DEF StoresAhead, HistoryStep, CursorStep, HasHistoryId

LEMMA StoredAhead ==
  ASSUME StepInv PROVE StoresAhead(checkpoint)
<1>1. checkpoint \in SyncCheckpoint /\ checkpoint.cursor \in Cursors
      /\ checkpoint.hist \in HistoryIds
  BY DEF StepInv, TypeInv, TypeOK, RepositoryTypeOK, SyncCheckpoint
<1>2. Position(checkpoint.cursor) \in Int
  BY <1>1, PositionOf
<1>3. QED
  BY <1>1, <1>2 DEF StoresAhead, StepInv, AheadInv, HasHistoryId, HistoryIds, NoHistoryId

\* The running checkpoint in another state.
LEMMA CallAhead ==
  ASSUME StepInv, pc \in {"labels", "list", "metadata", "persist"}, NEW state
  PROVE  StoresAhead([call EXCEPT !.state = state])
<1> DEFINE c == [call EXCEPT !.state = state]
<1>1. c.scan = call.scan /\ c.hist = call.hist /\ c.cursor = call.cursor
      /\ call.mode \in {"full", "partial"}
  BY DEF StepInv, TypeInv, TypeOK, SyncCheckpoint
<1> HIDE DEF c
<1>2. CASE pc = "labels"
  <2>1. call.hist = NoHistoryId /\ call.cursor = FirstCursor(call.mode)
    BY <1>2 DEF StepInv, CoverageInv, CallSound
  <2>2. Bounded(c.cursor)
    BY <1>1, <2>1, MailboxAssumption DEF Bounded, FirstCursor, CursorAt
  <2>3. StoresAhead(c)
    BY <1>1, <1>2, <2>1, <2>2 DEF StoresAhead, HasHistoryId
  <2>4. QED
    BY <2>3 DEF c
<1>3. CASE pc # "labels"
  <2>1. call = checkpoint
    BY <1>3 DEF StepInv, CoverageInv, CallSound
  <2>2. StoresAhead(c)
    BY <1>1, <2>1, StoredAhead DEF StoresAhead, HasHistoryId
  <2>3. QED
    BY <2>2 DEF c
<1>4. QED
  BY <1>2, <1>3

\* A step that returns or leaves no page and no checked profile behind.
LEMMA QuietAhead ==
  ASSUME StepInv, UNCHANGED history, NEW c, checkpoint' = c, StoresAhead(c),
         pc' \notin {"labels", "open", "metadata", "persist"}
  PROVE  AheadInv'
BY DEF StepInv, AheadInv, ProfileAhead, PageAhead, StoresAhead, Bounded

LEMMA ResultTells ==
  ASSUME NEW outcome, NEW stored \in BOOLEAN, NEW c,
         stored => checkpoint' = c, Return(InventoryResult(outcome, stored, c))
  PROVE  ReturnStep
BY DEF ReturnStep, Return, InventoryResult

\* A call that stores c and returns it, or stores nothing and claims nothing.
LEMMA StoreAndReturnAhead ==
  ASSUME StepInv, UNCHANGED history, NEW outcome, NEW stored \in BOOLEAN, NEW c,
         Return(InventoryResult(outcome, stored, c)),
         stored => checkpoint' = c, StoresAhead(checkpoint'),
         checkpoint' = c \/ UNCHANGED checkpoint
  PROVE  AheadInv' /\ SoundStep
<1>1. pc' = "idle"
  BY DEF Return
<1>2. ReturnStep
  BY ResultTells
<1>3. PICK d : checkpoint' = d /\ StoresAhead(d)
  OBVIOUS
<1>4. AheadInv'
  BY <1>1, <1>3, QuietAhead
<1>5. QED
  BY <1>2, <1>3, <1>4, StoreIsSound DEF SoundStep

\* A step inside a call that stores nothing and returns nothing.
LEMMA UnstoredStep ==
  ASSUME StepInv, UNCHANGED checkpoint, pc = "idle" \/ pc' # "idle"
  PROVE  SoundStep
BY StoredAhead, StoreIsSound DEF SoundStep, ReturnStep

-----------------------------------------------------------------------------
(* The steps up to the first page.                                         *)

LEMMA BeginAhead ==
  ASSUME StepInv, NEW mode, NEW id, Begin(mode, id)
  PROVE  AheadInv' /\ SoundStep
<1>1. UNCHANGED <<history, checkpoint>> /\ pc = "idle" /\ pc' = "profile"
  BY DEF Begin, mailboxVars, repositoryVars
<1>2. QED
  BY <1>1, StoredAhead, QuietAhead, UnstoredStep

LEMMA ProfileStepAhead ==
  ASSUME StepInv, _profile
  PROVE  AheadInv' /\ SoundStep
<1>1. UNCHANGED <<history, checkpoint, call>> /\ pc' = "labels"
      /\ (call.mode = "full" => seen' = Len(history))
  BY DEF _profile, Continue, mailboxVars, repositoryVars, CurrentHistoryId
<1>2. checkpoint.hist <= Len(history)
  BY DEF StepInv, CoverageInv, HistorySound, IsHistoryId, NoHistoryId, TypeInv, TypeOK,
         MailboxTypeOK
<1>3. AheadInv'
  BY <1>1, <1>2 DEF StepInv, AheadInv, ProfileAhead, PageAhead, Bounded
<1>4. QED
  BY <1>1, <1>3, UnstoredStep

LEMMA LabelsAhead ==
  ASSUME StepInv, _labels
  PROVE  AheadInv' /\ SoundStep
<1>1. UNCHANGED <<history, checkpoint, call, seen>> /\ pc = "labels" /\ pc' = "open"
  BY DEF _labels, Continue, mailboxVars, repositoryVars
<1>2. AheadInv'
  BY <1>1 DEF StepInv, AheadInv, ProfileAhead, PageAhead, Bounded
<1>3. QED
  BY <1>1, <1>2, UnstoredStep

\* The first cursor of a scan is a bounded one.
LEMMA FirstBounded ==
  \A mode : Bounded(FirstCursor(mode))
BY MailboxAssumption DEF Bounded, FirstCursor, CursorAt

LEMMA StartFullAhead ==
  ASSUME StepInv, StartFull
  PROVE  AheadInv' /\ SoundStep
<1> DEFINE c == [call EXCEPT !.state = "running", !.hist = seen]
<1>1. checkpoint' = c /\ pc = "open" /\ pc' = "list" /\ UNCHANGED history
      /\ call.mode = "full" /\ checkpoint.scan # call.scan
  BY DEF StartFull, start_full_index, Continue, mailboxVars, Resumes
<1>2. c.scan = call.scan /\ c.hist = seen /\ c.cursor = FirstCursor("full")
  BY <1>1 DEF StepInv, TypeInv, TypeOK, SyncCheckpoint, CoverageInv, CallSound
<1> HIDE DEF c
<1>3. seen >= checkpoint.hist
  BY <1>1 DEF StepInv, AheadInv, ProfileAhead, TypeInv, TypeOK, RepositoryTypeOK,
              SyncCheckpoint, HistoryIds, NoHistoryId
<1>4. StoresAhead(c)
  BY <1>1, <1>2, <1>3, FirstBounded DEF StoresAhead
<1>5. AheadInv'
  BY <1>1, <1>4, QuietAhead
<1>6. QED
  BY <1>1, <1>4, <1>5, StoreIsSound DEF SoundStep, ReturnStep

LEMMA StartPartialAhead ==
  ASSUME StepInv, StartPartial
  PROVE  AheadInv' /\ SoundStep
<1> DEFINE c == [call EXCEPT !.state = "running", !.hist = checkpoint.hist]
<1>1. checkpoint' = c /\ pc = "open" /\ pc' = "list" /\ UNCHANGED history
      /\ call.mode = "partial" /\ checkpoint.scan # call.scan
  BY DEF StartPartial, apply_index_page, Continue, mailboxVars, Resumes
<1>2. c.scan = call.scan /\ c.hist = checkpoint.hist /\ c.cursor = FirstCursor("partial")
      /\ checkpoint.hist \in HistoryIds
  BY <1>1 DEF StepInv, TypeInv, TypeOK, RepositoryTypeOK, SyncCheckpoint, CoverageInv,
              CallSound
<1> HIDE DEF c
<1>3. StoresAhead(c)
  BY <1>1, <1>2, FirstBounded DEF StoresAhead, HistoryIds, NoHistoryId
<1>4. AheadInv'
  BY <1>1, <1>3, QuietAhead
<1>5. QED
  BY <1>1, <1>3, <1>4, StoreIsSound DEF SoundStep, ReturnStep

LEMMA OpenAhead ==
  ASSUME StepInv, Open
  PROVE  AheadInv' /\ SoundStep
<1>1. CASE ResumeScan
  <2>1. UNCHANGED <<history, checkpoint>> /\ pc' = "list"
    BY <1>1 DEF ResumeScan, Continue, mailboxVars, repositoryVars
  <2>2. QED
    BY <2>1, StoredAhead, QuietAhead, UnstoredStep
<1>2. CASE AlreadyEnded
  <2>1. UNCHANGED checkpoint
        /\ Return(InventoryResult(checkpoint.state, TRUE, checkpoint))
    BY <1>2 DEF AlreadyEnded, repositoryVars
  <2>2. UNCHANGED history
    BY <2>1 DEF Return, mailboxVars
  <2>3. QED
    BY <2>1, <2>2, StoredAhead, StoreAndReturnAhead
<1>3. CASE RefuseCheckpoint
  <2>1. UNCHANGED checkpoint
        /\ Return(InventoryResult("failed", FALSE, [call EXCEPT !.state = "failed"]))
    BY <1>3 DEF RefuseCheckpoint, repositoryVars
  <2>2. UNCHANGED history
    BY <2>1 DEF Return, mailboxVars
  <2>3. QED
    BY <2>1, <2>2, StoredAhead, StoreAndReturnAhead
<1>4. QED
  BY <1>1, <1>2, <1>3, StartFullAhead, StartPartialAhead DEF Open

-----------------------------------------------------------------------------
(* The pages.                                                              *)

\* What a page must be for the cursor to move forward over it.
NextAhead(next) == Bounded(next) /\ Position(next) >= Position(call.cursor)

\* A new page over which the cursor will move forward.
LEMMA PageStep ==
  ASSUME StepInv, UNCHANGED <<history, checkpoint, call>>,
         pc' \in {"metadata", "persist"}, NextAhead(page'.next),
         call.mode = "partial" => page'.hist >= call.hist
  PROVE  AheadInv' /\ SoundStep
<1>1. AheadInv'
  BY DEF StepInv, AheadInv, ProfileAhead, PageAhead, NextAhead, Bounded, Position
<1>2. QED
  BY <1>1, UnstoredStep

LEMMA PageStarts ==
  ASSUME NEW todo, NEW step, step = StepAfter(todo)
  PROVE  step \in {"metadata", "persist"}
BY DEF StepAfter

\* The cursors of a call that asks for a page.
LEMMA ListedCursor ==
  ASSUME StepInv, pc \in {"list", "metadata", "persist"}
  PROVE  /\ call = checkpoint
         /\ call.cursor \in Cursors
         /\ Bounded(call.cursor)
         /\ call.cursor.phase \in IF call.mode = "full" THEN {"normal", "spam"} ELSE {"history"}
         /\ call.mode = "partial" => call.hist \in Nat
BY DEF StepInv, AheadInv, TypeInv, TypeOK, RepositoryTypeOK, SyncCheckpoint, CoverageInv,
       CallSound, StoredCursor, CursorFits, InProgress, HasHistoryId, HistoryIds

LEMMA ListMessagesAhead ==
  ASSUME StepInv, ListMessages
  PROVE  AheadInv' /\ SoundStep
<1>1. pc = "list" /\ call.mode = "full" /\ UNCHANGED <<history, checkpoint, call>>
  BY DEF ListMessages, Continue, mailboxVars, repositoryVars
<1>2. PICK listed \in SUBSET Messages, last \in PageEnds :
         LET rest == {m \in listed : m > call.cursor.pos /\ m <= last}
             next == IF last <= NumMessages THEN [call.cursor EXCEPT !.pos = last]
                     ELSE IF call.cursor.phase = "normal" THEN CursorAt("spam", 0)
                     ELSE NoCursor
         IN  page' = [NoPage EXCEPT !.todo = rest, !.next = next]
             /\ Continue(StepAfter(rest))
  BY DEF ListMessages
<1> DEFINE rest == {m \in listed : m > call.cursor.pos /\ m <= last}
           further == [call.cursor EXCEPT !.pos = last]
           next == IF last <= NumMessages THEN further
                   ELSE IF call.cursor.phase = "normal" THEN CursorAt("spam", 0)
                   ELSE NoCursor
<1>3. page'.next = next /\ pc' = StepAfter(rest)
  BY <1>2 DEF Continue, NoPage
<1>4. pc' \in {"metadata", "persist"}
  BY <1>3, PageStarts
<1>5. call.cursor \in Cursors /\ Bounded(call.cursor) /\ call.cursor.phase \in {"normal", "spam"}
      /\ call.cursor.pos \in Nat
  BY <1>1, ListedCursor DEF Cursors
<1>6. last \in Nat /\ last > call.cursor.pos
  BY <1>5, MailboxAssumption DEF PageEnds
<1>7. NextAhead(next)
  <2>1. CASE last <= NumMessages
    <3>1. further \in Cursors /\ further.phase = call.cursor.phase /\ further.pos = last
      BY <1>5, <1>6 DEF Cursors
    <3> HIDE DEF further
    <3>2. Bounded(further)
      BY <1>5, <2>1, <3>1 DEF Bounded
    <3>3. Position(further) >= Position(call.cursor)
      BY <1>5, <1>6, <3>1, PositionOf, MailboxAssumption DEF Position
    <3>4. QED
      BY <2>1, <3>2, <3>3 DEF NextAhead
  <2>2. CASE ~(last <= NumMessages) /\ call.cursor.phase = "normal"
    <3>1. next = CursorAt("spam", 0)
      BY <2>2
    <3>2. Bounded(next) /\ Position(next) = NumMessages + 1
      BY <3>1, MailboxAssumption DEF CursorAt, Bounded, Position
    <3>3. Position(call.cursor) = call.cursor.pos /\ call.cursor.pos <= NumMessages
      BY <1>5, <2>2, PositionOf DEF Bounded
    <3>4. QED
      BY <1>5, <3>2, <3>3, MailboxAssumption DEF NextAhead
  <2>3. CASE ~(last <= NumMessages) /\ call.cursor.phase # "normal"
    <3>1. next = NoCursor
      BY <2>3
    <3>2. QED
      BY <1>5, <3>1, NoCursorLast DEF NextAhead
  <2>4. QED
    BY <2>1, <2>2, <2>3
<1>8. QED
  BY <1>1, <1>3, <1>4, <1>7, PageStep

LEMMA ListHistoryAhead ==
  ASSUME StepInv, ListHistory
  PROVE  AheadInv' /\ SoundStep
<1>1. pc = "list" /\ call.mode = "partial" /\ UNCHANGED <<history, checkpoint, call>>
  BY DEF ListHistory, Continue, mailboxVars, repositoryVars
<1>2. PICK last \in call.hist + call.cursor.pos..Len(history), more \in BOOLEAN :
         /\ page'.next = IF more THEN CursorAt("history", last - call.hist) ELSE NoCursor
         /\ page'.hist = Len(history)
         /\ pc' \in {"metadata", "persist"}
  BY DEF ListHistory, Continue, CurrentHistoryId, StepAfter
<1>3. call.cursor \in Cursors /\ Bounded(call.cursor) /\ call.cursor.phase = "history"
      /\ call.cursor.pos \in Nat /\ call.hist \in Nat /\ Len(history) \in Nat
  BY <1>1, ListedCursor DEF Cursors, StepInv, TypeInv, TypeOK, MailboxTypeOK
<1>4. call.hist <= Len(history) /\ Len(history) <= MaxHistory
  BY <1>3 DEF StepInv, AheadInv, CoverageInv, HistorySound, IsHistoryId, NoHistoryId
<1>5. NextAhead(page'.next)
  <2>1. CASE more
    <3> DEFINE next == CursorAt("history", last - call.hist)
    <3>1. next \in Cursors /\ next.phase = "history" /\ next.pos = last - call.hist
      BY <1>2, <1>3 DEF CursorAt, Cursors, Phases
    <3> HIDE DEF next
    <3>2. next.pos >= call.cursor.pos /\ next.pos <= MaxHistory
      BY <1>2, <1>3, <1>4, <3>1, MailboxAssumption
    <3>3. Bounded(next) /\ Position(next) >= Position(call.cursor)
      BY <1>3, <3>1, <3>2, PositionOf DEF Bounded
    <3>4. page'.next = next
      BY <1>2, <2>1 DEF next
    <3>5. QED
      BY <3>3, <3>4 DEF NextAhead
  <2>2. CASE ~more
    BY <1>2, <1>3, <2>2, NoCursorLast DEF NextAhead
  <2>3. QED
    BY <2>1, <2>2
<1>6. QED
  BY <1>1, <1>2, <1>4, <1>5, PageStep

LEMMA MetadataAhead ==
  ASSUME StepInv, _metadata
  PROVE  AheadInv' /\ SoundStep
<1>1. pc = "metadata" /\ UNCHANGED <<history, checkpoint, call>>
  BY DEF _metadata, Continue, mailboxVars, repositoryVars
<1>2. page'.next = page.next /\ page'.hist = page.hist /\ pc' \in {"metadata", "persist"}
  BY DEF _metadata, Continue, StepAfter, Take, StepInv, TypeInv, TypeOK, Pages
<1>3. QED
  BY <1>1, <1>2, PageStep DEF StepInv, AheadInv, PageAhead, NextAhead

\* The checkpoint a page leaves is ahead of the one it was listed with.
LEMMA PersistAhead ==
  ASSUME StepInv, NEW pauseRequested \in BOOLEAN, PersistPage(pauseRequested)
  PROVE  AheadInv' /\ SoundStep
<1> DEFINE c == AdvancedCheckpoint(pauseRequested)
<1>1. checkpoint' = c /\ UNCHANGED history /\ pc' \in {"list", "idle"}
      /\ (pc' = "idle" => Return(InventoryResult(c.state, TRUE, c)))
  BY DEF PersistPage, apply_index_page, Continue, Return, mailboxVars
<1>2. c.scan = call.scan /\ c.hist = ConsolidatedHistoryId /\ c.cursor = page.next
      /\ call.mode \in {"full", "partial"}
  BY DEF AdvancedCheckpoint, StepInv, TypeInv, TypeOK, SyncCheckpoint
<1> HIDE DEF c
<1>3. pc = "persist" /\ call = checkpoint /\ call.hist \in HistoryIds /\ page.hist \in Nat
  BY DEF PersistPage, StepInv, CoverageInv, CallSound, TypeInv, TypeOK, SyncCheckpoint, Pages
<1>4. NextAhead(page.next) /\ (call.mode = "partial" => page.hist >= call.hist)
  BY <1>3 DEF StepInv, AheadInv, PageAhead, NextAhead
<1>5. StoresAhead(c)
  BY <1>2, <1>3, <1>4
  DEF StoresAhead, NextAhead, ConsolidatedHistoryId, HistoryIds, NoHistoryId
<1>6. AheadInv'
  BY <1>1, <1>5, QuietAhead
<1>7. ReturnStep
  <2>1. CASE pc' = "idle"
    BY <1>1, <2>1, ResultTells
  <2>2. CASE pc' # "idle"
    BY <2>2 DEF ReturnStep
  <2>3. QED
    BY <2>1, <2>2
<1>8. QED
  BY <1>1, <1>5, <1>6, <1>7, StoreIsSound DEF SoundStep

-----------------------------------------------------------------------------
(* The ways a call ends early, and who else uses the index.                *)

LEMMA HistoryExpiredAhead ==
  ASSUME StepInv, _HistoryExpired
  PROVE  AheadInv' /\ SoundStep
<1> DEFINE c == [call EXCEPT !.state = "requires_full_resync", !.cursor = NoCursor]
<1>1. checkpoint' = c /\ UNCHANGED history /\ pc = "list"
      /\ Return(InventoryResult("requires_full_resync", TRUE, c))
  BY DEF _HistoryExpired, apply_index_page, Return, mailboxVars
<1>2. c.scan = call.scan /\ c.hist = call.hist /\ c.cursor = NoCursor
  BY DEF StepInv, TypeInv, TypeOK, SyncCheckpoint
<1> HIDE DEF c
<1>3. call = checkpoint /\ call.cursor \in Cursors /\ Bounded(call.cursor)
      /\ call.hist \in HistoryIds
  BY <1>1, ListedCursor DEF StepInv, TypeInv, TypeOK, SyncCheckpoint
<1>4. StoresAhead(c)
  BY <1>2, <1>3, NoCursorLast DEF StoresAhead, HistoryIds, NoHistoryId
<1>5. QED
  BY <1>1, <1>4, StoreAndReturnAhead

\* A call that is stopped once its identity was verified stores its checkpoint.
LEMMA StoppedAhead ==
  ASSUME StepInv, MessageNotFound \/ RemoteFailure \/ _paused_result
  PROVE  AheadInv' /\ SoundStep
<1>1. CASE MessageNotFound \/ RemoteFailure
  <2> DEFINE c == [call EXCEPT !.state = "failed"]
  <2>1. pc \in {"labels", "list", "metadata"} /\ UNCHANGED history /\ checkpoint' = c
        /\ Return(InventoryResult("failed", TRUE, c))
    BY <1>1
    DEF MessageNotFound, NotFound, RemoteFailure, RemoteSteps, _failed_result,
        identity_verified, apply_index_page, Return, mailboxVars
  <2>2. StoresAhead(c)
    BY <2>1, CallAhead
  <2> HIDE DEF c
  <2>3. QED
    BY <2>1, <2>2, StoreAndReturnAhead
<1>2. CASE _paused_result
  <2> DEFINE c == [call EXCEPT !.state = "paused"]
  <2>1. UNCHANGED history /\ Return(InventoryResult("paused", identity_verified, c))
    BY <1>2 DEF _paused_result, Return, mailboxVars
  <2>2. identity_verified \in BOOLEAN
    BY DEF identity_verified
  <2>3. CASE identity_verified
    <3>1. checkpoint' = c /\ pc \in {"labels", "list", "metadata"}
      BY <1>2, <2>3 DEF _paused_result, apply_index_page, RemoteSteps, identity_verified
    <3>2. StoresAhead(c)
      BY <3>1, CallAhead
    <3> HIDE DEF c
    <3>3. QED
      BY <2>1, <2>2, <3>1, <3>2, StoreAndReturnAhead
  <2>4. CASE ~identity_verified
    <3>1. UNCHANGED checkpoint
      BY <1>2, <2>4 DEF _paused_result, repositoryVars
    <3> HIDE DEF c
    <3>2. QED
      BY <2>1, <2>2, <2>4, <3>1, StoredAhead, StoreAndReturnAhead
  <2>5. QED
    BY <2>3, <2>4
<1>3. QED
  BY <1>1, <1>2

LEMMA CancelAhead ==
  ASSUME StepInv, Cancel
  PROVE  AheadInv' /\ SoundStep
<1>1. \/ Return(InventoryResult("cancelled", persisted, call))
      \/ Return(InventoryResult("cancelled", FALSE, call))
  BY DEF Cancel
<1>2. persisted \in BOOLEAN /\ (persisted => pc \in {"list", "metadata", "persist"})
  BY DEF persisted
<1>3. UNCHANGED <<history, checkpoint>>
  BY <1>1 DEF Cancel, Return, mailboxVars, repositoryVars
<1>4. persisted => checkpoint' = call
  BY <1>2, <1>3, ListedCursor
<1>5. StoresAhead(checkpoint')
  BY <1>3, StoredAhead
<1>6. CASE Return(InventoryResult("cancelled", persisted, call))
  BY <1>2, <1>3, <1>4, <1>5, <1>6, StoreAndReturnAhead
<1>7. CASE Return(InventoryResult("cancelled", FALSE, call))
  BY <1>3, <1>5, <1>7, StoreAndReturnAhead
<1>8. QED
  BY <1>1, <1>6, <1>7

LEMMA UnstoredFailureAhead ==
  ASSUME StepInv, UnstoredFailure \/ Crash
  PROVE  AheadInv' /\ SoundStep
<1>1. UNCHANGED <<history, checkpoint>> /\ pc' = "idle" /\ ~result'.persisted
  BY DEF UnstoredFailure, Crash, Return, InventoryResult, NoResult, mailboxVars,
         repositoryVars
<1>2. AheadInv' /\ HistoryStep /\ CursorStep
  BY <1>1, StoredAhead, QuietAhead, StoreIsSound
<1>3. QED
  BY <1>1, <1>2 DEF SoundStep, ReturnStep

LEMMA RetryAhead ==
  ASSUME StepInv, Retry \/ UNCHANGED vars
  PROVE  AheadInv' /\ SoundStep
<1>1. UNCHANGED <<history, checkpoint, pc, call, seen, page>>
  BY DEF Retry, vars, mailboxVars, repositoryVars, callVars
<1>2. AheadInv'
  BY <1>1 DEF StepInv, AheadInv, ProfileAhead, PageAhead, Bounded, Position
<1>3. QED
  BY <1>1, <1>2, UnstoredStep

LEMMA DeletionAhead ==
  ASSUME StepInv, DeleteAccountIndex \/ \E m \in Messages : DeleteIndexedMessages({m})
  PROVE  AheadInv' /\ SoundStep
<1>1. pc = "idle" /\ pc' = "idle" /\ UNCHANGED history
      /\ checkpoint' \in {NoCheckpoint, checkpoint}
  BY DEF DeleteAccountIndex, delete_account_index, DeleteIndexedMessages,
         delete_indexed_messages, mailboxVars
<1>2. checkpoint.cursor \in Cursors /\ Bounded(checkpoint.cursor)
  BY DEF StepInv, TypeInv, TypeOK, RepositoryTypeOK, SyncCheckpoint, AheadInv
<1>3. StoresAhead(NoCheckpoint)
  BY <1>2, NoCursorLast DEF StoresAhead, NoCheckpoint, HasHistoryId
<1>4. PICK c : checkpoint' = c /\ StoresAhead(c)
  BY <1>1, <1>3, StoredAhead
<1>5. QED
  BY <1>1, <1>4, QuietAhead, StoreIsSound DEF SoundStep, ReturnStep

LEMMA MailboxAhead ==
  ASSUME StepInv, MailboxChanges
  PROVE  AheadInv' /\ SoundStep
<1>1. UNCHANGED <<checkpoint, pc, call, seen, page>>
  BY DEF MailboxChanges, repositoryVars, callVars
<1>2. Len(history') <= MaxHistory
  <2>1. Len(history) \in Nat /\ Len(history) <= MaxHistory
    BY DEF StepInv, AheadInv, TypeInv, TypeOK, MailboxTypeOK
  <2>2. CASE ForgetHistory
    BY <2>1, <2>2 DEF ForgetHistory
  <2>3. ASSUME NEW m \in Messages, ChangePlace(m) \/ DeletePermanently(m)
        PROVE  Len(history') <= MaxHistory
    <3>1. Len(history) < MaxHistory
      BY <2>3 DEF ChangePlace, DeletePermanently
    <3>2. PICK record \in HistoryRecord : history' = Append(history, record)
      BY <2>3, ChangeMoves DEF MailboxMoves, StepInv, TypeInv, TypeOK
    <3>3. Len(history') = Len(history) + 1
      BY <3>2 DEF StepInv, TypeInv, TypeOK, MailboxTypeOK
    <3>4. QED
      BY <2>1, <3>1, <3>3, MailboxAssumption
  <2>4. QED
    BY <2>2, <2>3 DEF MailboxChanges, MailboxNext
<1>3. AheadInv'
  BY <1>1, <1>2 DEF StepInv, AheadInv, ProfileAhead, PageAhead, Bounded, Position
<1>4. QED
  BY <1>1, <1>3, UnstoredStep

-----------------------------------------------------------------------------
(* Every step.                                                             *)

LEMMA NextAheadSound == StepInv /\ [Next]_vars => AheadInv' /\ SoundStep
<1> SUFFICES ASSUME StepInv, [Next]_vars
             PROVE  AheadInv' /\ SoundStep
  OBVIOUS
<1>1. CASE \E mode \in {"full", "partial"}, id \in ScanIds : Begin(mode, id)
  BY <1>1, BeginAhead
<1>2. CASE ScanStep
  BY <1>2, ProfileStepAhead, LabelsAhead, OpenAhead, ListMessagesAhead, ListHistoryAhead,
     HistoryExpiredAhead, MetadataAhead, StoppedAhead, PersistAhead DEF ScanStep
<1>3. CASE Interruption
  BY <1>3, RetryAhead, StoppedAhead, UnstoredFailureAhead, CancelAhead DEF Interruption
<1>4. CASE DeleteAccountIndex \/ \E m \in Messages : DeleteIndexedMessages({m})
  BY <1>4, DeletionAhead
<1>5. CASE MailboxChanges
  BY <1>5, MailboxAhead
<1>6. CASE UNCHANGED vars
  BY <1>6, RetryAhead
<1>7. QED
  BY <1>1, <1>2, <1>3, <1>4, <1>5, <1>6 DEF Next

LEMMA StepInvCorrect == Spec => []StepInv
<1>1. Init => StepInv
  BY InitTypeInv, InitCoverage, InitAhead DEF StepInv
<1>2. StepInv /\ [Next]_vars => StepInv'
  <2>1. StepInv => TypeInv /\ CoverageInv /\ AheadInv
    BY DEF StepInv
  <2>2. TypeInv /\ CoverageInv /\ AheadInv => StepInv
    BY DEF StepInv
  <2>3. QED
    BY <2>1, <2>2, NextTypeInv, NextCoverage, NextAheadSound, PTL
<1>3. QED
  BY <1>1, <1>2, PTL DEF Spec

\* The history_id from which partial scans go on never goes back, whichever scan is
\* started, resumed or completed, and whatever happens to it on the way.
THEOREM HistoryIdCorrect == Spec => HistoryIdNeverGoesBack
<1>1. StepInv /\ [Next]_vars =>
        [HasHistoryId(checkpoint) /\ HasHistoryId(checkpoint)'
           => checkpoint'.hist >= checkpoint.hist]_vars
  BY NextAheadSound DEF SoundStep, HistoryStep
<1>2. QED
  BY <1>1, StepInvCorrect, PTL DEF Spec, HistoryIdNeverGoesBack

\* Within one scan the stored cursor never goes back, except when a call stops at its
\* request for the labels, before it has read the stored checkpoint.
THEOREM CursorCorrect == Spec => CursorNeverGoesBack
<1>1. StepInv /\ [Next]_vars =>
        [checkpoint'.scan = checkpoint.scan /\ pc # "labels"
           => Position(checkpoint'.cursor) >= Position(checkpoint.cursor)]_vars
  BY NextAheadSound DEF SoundStep, CursorStep
<1>2. QED
  BY <1>1, StepInvCorrect, PTL DEF Spec, CursorNeverGoesBack

\* A call that reports its checkpoint as persisted reports the one the index holds.
THEOREM ResultCorrect == Spec => ResultTellsTheIndex
<1>1. StepInv /\ [Next]_vars =>
        [pc # "idle" /\ pc' = "idle" /\ result'.persisted
           => checkpoint' = result'.checkpoint]_vars
  BY NextAheadSound DEF SoundStep, ReturnStep
<1>2. QED
  BY <1>1, StepInvCorrect, PTL DEF Spec, ResultTellsTheIndex

=============================================================================
