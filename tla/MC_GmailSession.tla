--------------------------- MODULE MC_GmailSession ---------------------------
(***************************************************************************)
(* Two grants of one account and one of another, for TLC.                  *)
(***************************************************************************)
EXTENDS GmailSessionInvariant, TLC

CONSTANTS alice, bob, g1, g2, g3, k1, k2

MCOwner == [g \in Grants |-> IF g \in {g1, g2} THEN alice ELSE bob]

\* The account keys are interchangeable, and so are the two grants of one account.
SessionSymmetry ==
    {p @@ q : p \in Permutations({g1, g2}), q \in Permutations(Keys)}

=============================================================================
