---------------------------- MODULE MCXcanFrame -----------------------------
(* Values for the instances of XcanFrame: fewer payloads than descriptors,  *)
(* so that either can run out first.                                        *)
EXTENDS XcanFrame, TLC
CONSTANTS f1, f2, f3, f4, p1, p2, p3
MCFrames == {f1, f2, f3, f4}
MCPayloads == {p1, p2, p3}
Symmetry == Permutations(MCFrames) \cup Permutations(MCPayloads)
=============================================================================
