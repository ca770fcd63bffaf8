----------------------- MODULE GmailInventoryInvariant -----------------------
(***************************************************************************)
(* The inductive invariant from which the coverage of the index follows:   *)
(* besides what CompletedIndexCovered, PartialCursorCovered and            *)
(* FullCursorCovered say of the stored checkpoint, it says what a running   *)
(* call knows of the page it has not stored yet.                           *)
(***************************************************************************)
EXTENDS GmailInventory

IsHistoryId(h) == h = NoHistoryId \/ h \in 0..Len(history)

\* A deleted message is gone for good, and no history_id is ahead of the history.
HistorySound ==
    /\ floor <= Len(history)
    /\ \A i \in 1..Len(history) :
         history[i].kind = "deleted" => mailbox[history[i].msg] = "gone"
    /\ IsHistoryId(checkpoint.hist)
    /\ IsHistoryId(call.hist)
    /\ seen <= Len(history)
    /\ page.hist <= Len(history)

\* A cursor belongs to the mode of its scan.
CursorFits(mode, c) ==
    \/ c = NoCursor
    \/ c.phase \in IF mode = "full" THEN {"normal", "spam"} ELSE {"history"}

\* And it is not ahead of the history.
StoredCursor ==
    /\ CursorFits(checkpoint.mode, checkpoint.cursor)
    /\ checkpoint.mode = "partial" /\ HasHistoryId(checkpoint) /\ InProgress(checkpoint) =>
         checkpoint.hist + checkpoint.cursor.pos <= Len(history)

\* Up to the first page the call has a checkpoint of its own; from then on it is
\* the stored one, because nobody else writes it.
CallSound ==
    /\ pc \in {"profile", "labels", "open"} =>
         /\ call.state = "not_started"
         /\ call.hist = NoHistoryId
         /\ call.cursor = FirstCursor(call.mode)
    /\ pc \in {"list", "metadata", "persist"} =>
         /\ call = checkpoint
         /\ InProgress(call)
         /\ call.mode = "partial" => HasHistoryId(call)
    /\ pc = "metadata" => page.todo # {}
    /\ pc = "persist" => page.todo = {}

PageOpen(mode) == pc \in {"metadata", "persist"} /\ call.mode = mode

\* The historyId up to which the changes are consumed once the page is stored.
PageLimit ==
    IF page.next = NoCursor THEN page.hist ELSE call.hist + page.next.pos

\* What a partial scan knows of a message while it works on a page.
PartialPageSound ==
    PageOpen("partial") =>
        /\ CursorFits("partial", page.next)
        /\ PageLimit <= Len(history)
        /\ \A m \in page.todo : page.fetched[m] = "none"
        /\ \A m \in Messages \ page.todo :
             \/ ChangedAfter(m, PageLimit)
             \/ page.fetched[m] # "none" /\ page.fetched[m] = mailbox[m]
             \/ /\ page.fetched[m] = "none"
                /\ m \in page.dropped
                /\ Recorded(mailbox[m]) = "none"
             \/ /\ page.fetched[m] = "none"
                /\ m \notin page.dropped
                /\ UpToDate(m, PageLimit)

\* The record an unchanged message has once the page of a full scan is stored.
Target(m) ==
    IF page.next = NoCursor THEN Recorded(mailbox[m]) ELSE ScannedSoFar(m, page.next)

\* What a full scan knows of a message while it works on a page.
FullPageSound ==
    PageOpen("full") =>
        /\ CursorFits("full", page.next)
        /\ call.cursor.phase = "normal" =>
             page.next.phase = "normal" \/ page.next = CursorAt("spam", 0)
        /\ page.dropped = {}
        /\ HasHistoryId(call) => \A m \in Messages :
             \/ ChangedAfter(m, call.hist)
             \/ /\ m \in page.todo
                /\ Recorded(mailbox[m]) = Target(m)
                /\ page.fetched[m] = "none"
                /\ mailbox[m] = "excluded" => index[m] = "none" \/ m \in removedByHand
             \/ /\ m \notin page.todo
                /\ page.fetched[m] # "none"
                /\ page.fetched[m] = Target(m)
             \/ /\ m \notin page.todo
                /\ page.fetched[m] = "none"
                /\ index[m] = Target(m) \/ m \in removedByHand

\* Every scan, interrupted or not, leaves an index that the next one can build on.
CoverageInv ==
    /\ HistorySound
    /\ StoredCursor
    /\ CallSound
    /\ PartialPageSound
    /\ FullPageSound
    /\ CompletedIndexCovered
    /\ PartialCursorCovered
    /\ FullCursorCovered

=============================================================================
