---------------------------- MODULE GmailMailbox ----------------------------
(***************************************************************************)
(* The Gmail mailbox that src/mailmap/gmail_inventory.py reads.  The       *)
(* service is outside the repository: what is stated here is what the      *)
(* requests of gmail_inventory_model.py and the synthetic transports of    *)
(* the tests rely on.                                                      *)
(*                                                                         *)
(* A message is a number, and the numbers give the order in which          *)
(* messages.list returns messages.  Of a message's labels only the system  *)
(* place matters to the inventory: ordinary mail, Spam, or one of the      *)
(* excluded places (SENT, DRAFT, TRASH).  Every change of a message adds   *)
(* one record to the history, and a historyId is the length the history    *)
(* had when it was read.                                                   *)
(***************************************************************************)
EXTENDS Naturals, Sequences

CONSTANTS
    NumMessages,  \* how many message IDs the mailbox can ever hold
    MaxHistory    \* bound on the length of the history

ASSUME MailboxAssumption == NumMessages \in Nat /\ MaxHistory \in Nat

VARIABLES
    mailbox,  \* where each message is now
    history,  \* the changes, oldest first
    floor     \* the oldest historyId that history.list still accepts

mailboxVars == <<mailbox, history, floor>>

Messages == 1..NumMessages

\* "unborn": not received yet; "gone": permanently deleted.
Places == {"unborn", "inbox", "spam", "excluded", "gone"}
Present == {"inbox", "spam", "excluded"}

HistoryRecord == [msg: Messages, kind: {"changed", "deleted"}]

MailboxTypeOK ==
    /\ mailbox \in [Messages -> Places]
    /\ history \in Seq(HistoryRecord)
    /\ floor \in Nat

MailboxInit ==
    /\ mailbox \in [Messages -> {"unborn", "inbox", "spam"}]
    /\ history = <<>>
    /\ floor = 0

-----------------------------------------------------------------------------
(* What happens to the mailbox while the program is not looking.           *)

\* A message arrives, or an existing one changes place (a label change).
ChangePlace(m) ==
    /\ Len(history) < MaxHistory
    /\ mailbox[m] # "gone"
    /\ \E p \in Present \ {mailbox[m]} : mailbox' = [mailbox EXCEPT ![m] = p]
    /\ history' = Append(history, [msg |-> m, kind |-> "changed"])
    /\ UNCHANGED floor

\* A message is deleted for good.
DeletePermanently(m) ==
    /\ Len(history) < MaxHistory
    /\ mailbox[m] \in Present
    /\ mailbox' = [mailbox EXCEPT ![m] = "gone"]
    /\ history' = Append(history, [msg |-> m, kind |-> "deleted"])
    /\ UNCHANGED floor

\* The service forgets its oldest history records.
ForgetHistory ==
    /\ floor < Len(history)
    /\ floor' = Len(history)
    /\ UNCHANGED <<mailbox, history>>

MailboxNext ==
    \/ \E m \in Messages : ChangePlace(m) \/ DeletePermanently(m)
    \/ ForgetHistory

-----------------------------------------------------------------------------
(* What a read returns.                                                    *)

CurrentHistoryId == Len(history)

\* A request without Spam and Trash returns ordinary mail and, of the excluded
\* places, what is not in Trash; a Spam request returns Spam and, of the
\* excluded places, what also carries the SPAM label.
IsListing(phase, listed) ==
    LET wanted == {m \in Messages :
                     mailbox[m] = IF phase = "spam" THEN "spam" ELSE "inbox"}
    IN  /\ wanted \subseteq listed
        /\ listed \subseteq wanted \cup {m \in Messages : mailbox[m] = "excluded"}

\* The history records in positions first .. last, by kind.
Changed(first, last) ==
    {history[i].msg : i \in {j \in first..last : history[j].kind = "changed"}}
Deleted(first, last) ==
    {history[i].msg : i \in {j \in first..last : history[j].kind = "deleted"}}

=============================================================================
