------------------------------- MODULE MCBuffer -------------------------------
(* Instances of Buffer.tla for TLC.                                          *)
EXTENDS Buffer, TLC

CONSTANTS t1, t2                     \* tasks
CONSTANTS k1, k2, k3, k4             \* blocks

MCTask == {t1, t2}
FourBlocks == {k1, k2, k3, k4}
MCSymmetry == Permutations(MCTask) \union Permutations(FourBlocks)
=============================================================================
