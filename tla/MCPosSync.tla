----------------------------- MODULE MCPosSync -----------------------------
(* Small instances of PosSync for TLC.                                    *)
EXTENDS PosSync, TLC

CONSTANTS tA, tB, l1, l2, m1, m2

\* Neither the tills, the lines nor the payments are named or ordered.
MCSymmetry == {f @@ g @@ h : f \in Permutations({tA, tB}), g \in Permutations({l1, l2}),
                             h \in Permutations({m1, m2})}
=============================================================================
