------------------------------ MODULE MCQrTabs ------------------------------
(* Small instances of QrTabs for TLC.                                      *)
EXTENDS QrTabs, TLC

CONSTANTS r1, r2, p1, p2

\* Two rounds that cost the same; the discount is on one of them.
MCPrice == [r \in Rounds |-> 2]
MCOffer == {r1}

\* Nothing names or orders pages.
MCSymmetry == Permutations({p1, p2})
=============================================================================
