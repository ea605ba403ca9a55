------------------------------- MODULE MCInode -------------------------------
(* An instance of Inode.tla for TLC.                                         *)
EXTENDS Inode, TLC

CONSTANTS t1, t2     \* tasks
CONSTANTS s1, s2, s3 \* slots
CONSTANTS b1, b2     \* blocks
CONSTANTS n1, n2, n3 \* names: one more than entries, so that a name may find no room

MCTask == {t1, t2}
MCSlot == {s1, s2, s3}
MCBlock == {b1, b2}
MCName == {n1, n2, n3}
MCSymmetry ==
  Permutations(MCTask) \union Permutations(MCSlot) \union Permutations(MCBlock)
    \union Permutations(MCName)
=============================================================================
