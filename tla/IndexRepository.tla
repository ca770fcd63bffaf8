--------------------------- MODULE IndexRepository ---------------------------
(***************************************************************************)
(* The local index of one account: tables indexed_messages and             *)
(* sync_checkpoints of src/mailmap/repository.py.  Each operator is one     *)
(* operation of Repository, and so one SQLite transaction: it takes effect *)
(* as a whole, or an exception rolls it back and nothing of it remains     *)
(* (_connect), in which case the caller takes no step of this module.      *)
(*                                                                         *)
(* Of a record the index keeps where the message was when it was read.     *)
(***************************************************************************)
EXTENDS GmailMailbox, Integers

CONSTANTS ScanIds, NoScan

ASSUME ScanIdAssumption == NoScan \notin ScanIds

VARIABLES
    index,       \* the record of each message, "none" when there is none
    checkpoint,  \* the one checkpoint row of the account
    removedByHand \* history variable: what delete_indexed_messages took out

repositoryVars == <<index, checkpoint, removedByHand>>

Placements == {"none", "inbox", "spam"}
NoRecords == [m \in Messages |-> "none"]

\* history_id and page_token are optional columns.
NoHistoryId == -1
HistoryIds == Nat \cup {NoHistoryId}

\* A full cursor names the phase and the position already listed; a partial one
\* how many history records after history_id are consumed.  Position 0 stands
\* for the cursor of a phase without a token; NoCursor for page_token = None.
Phases == {"normal", "spam", "history"}
Cursors == [phase: Phases \cup {"none"}, pos: Nat]
CursorAt(phase, pos) == [phase |-> phase, pos |-> pos]
NoCursor == CursorAt("none", 0)

SyncStates == {"not_started", "running", "paused", "completed",
               "requires_full_resync", "failed"}

SyncCheckpoint == [scan: ScanIds \cup {NoScan}, mode: {"full", "partial"},
                   state: SyncStates, cursor: Cursors, hist: HistoryIds]

\* The account has no checkpoint row.
NoCheckpoint == [scan |-> NoScan, mode |-> "full", state |-> "not_started",
                 cursor |-> NoCursor, hist |-> NoHistoryId]

RepositoryTypeOK ==
    /\ index \in [Messages -> Placements]
    /\ checkpoint \in SyncCheckpoint
    /\ removedByHand \in SUBSET Messages

RepositoryInit ==
    /\ index = NoRecords
    /\ checkpoint = NoCheckpoint
    /\ removedByHand = {}

\* Mistake: what was deleted keeps its record.
apply_index_page_KeepsDeleted(records, deleted, newCheckpoint) ==
    /\ \A m \in deleted : records[m] = "none"
    /\ index' = [m \in Messages |->
                   IF records[m] # "none" THEN records[m] ELSE index[m]]
    /\ checkpoint' = newCheckpoint
    /\ removedByHand' = {m \in removedByHand \ deleted : records[m] = "none"}

\* Deletions, upserts and the checkpoint together.  A message that is both
\* updated and deleted is refused before anything is written.
apply_index_page(records, deleted, newCheckpoint) ==
    /\ \A m \in deleted : records[m] = "none"
    /\ index' = [m \in Messages |->
                   IF records[m] # "none" THEN records[m]
                   ELSE IF m \in deleted THEN "none" ELSE index[m]]
    /\ checkpoint' = newCheckpoint
    /\ removedByHand' = {m \in removedByHand \ deleted : records[m] = "none"}

\* A new full scan replaces the index and the checkpoint together.
start_full_index(newCheckpoint) ==
    /\ index' = NoRecords
    /\ checkpoint' = newCheckpoint
    /\ removedByHand' = {}

\* The account row goes, and by cascade its messages and its checkpoint.
delete_account_index ==
    /\ index' = NoRecords
    /\ checkpoint' = NoCheckpoint
    /\ removedByHand' = {}

\* Records are taken out and the checkpoint is left as it is.
delete_indexed_messages(ids) ==
    /\ index' = [m \in Messages |-> IF m \in ids THEN "none" ELSE index[m]]
    /\ removedByHand' = removedByHand \cup {m \in ids : index[m] # "none"}
    /\ UNCHANGED checkpoint

=============================================================================
