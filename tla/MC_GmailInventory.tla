-------------------------- MODULE MC_GmailInventory --------------------------
(***************************************************************************)
(* A small mailbox and a few scans, for TLC.                               *)
(***************************************************************************)
EXTENDS GmailInventoryInvariant, TLC

\* Scan identifiers are only compared for equality.
ScanSymmetry == Permutations(ScanIds)

\* Of the initial mailboxes, one with a message in each phase of a full scan, and
\* one with a message that has not been received yet.
MCInit ==
    /\ Init
    /\ mailbox \in {<<"inbox", "spam">>, <<"unborn", "inbox">>}

MCSpec == MCInit /\ [][Next]_vars

=============================================================================
