----------------------------- MODULE MCPhysMem ------------------------------
(* Instances of PhysMem.  Pages of 2 bytes keep the bitmap, 1 bit per      *)
(* frame, at a size comparable to a page, as 4096-byte pages do for real   *)
(* memory sizes.                                                           *)
EXTENDS PhysMem

Entry(b, l, u) == [base |-> b, length |-> l, usable |-> u]

(* Frame 0 usable but too small for the 4-byte bitmap; the bitmap fills    *)
(* frames 2 and 3; frames 4, 5 and 31 complete the pool.                   *)
AlignedMap == <<Entry(0, 2, TRUE), Entry(2, 2, FALSE), Entry(4, 8, TRUE),
                Entry(12, 50, FALSE), Entry(62, 2, TRUE)>>

(* 24 frames: the 3-byte bitmap ends in the middle of frame 2.             *)
TailMap == <<Entry(0, 2, FALSE), Entry(2, 10, TRUE),
             Entry(12, 32, FALSE), Entry(44, 4, TRUE)>>

(* Frames 2, 3 and 5, 6 free, 4 reserved; the bitmap fills frame 1.        *)
HoleMap == <<Entry(0, 2, FALSE), Entry(2, 6, TRUE), Entry(8, 2, FALSE),
             Entry(10, 4, TRUE), Entry(14, 16, FALSE), Entry(30, 2, TRUE)>>
=============================================================================
