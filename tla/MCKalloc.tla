------------------------------ MODULE MCKalloc ------------------------------
(* Words of two bytes, four second-level lists, blocks below 64 bytes.     *)
EXTENDS Kalloc, TLC
MCJunkFlags == {[free |-> b, prev_free |-> b] : b \in BOOLEAN}
MCPoolSizes == {9, 41}    \* too small for a pool, and enough for four blocks
MCSizes == {1, 18, 64}    \* the smallest block, a rounded size class, too large
MCAligns == {2, 8}
MCResizes == {5, 11, 19}
Symmetry == Permutations(Cpus)
=============================================================================
