----------------------------- MODULE PhysBitmap -----------------------------
(***************************************************************************)
(* The frame bitmap of sys/vm/vm_phys.c as pure operators: what            *)
(* vm_phys_init builds from the boot loader's memory map, the setting of a *)
(* range of bits, and the frame the scan of __vm_phys_alloc settles on.    *)
(*                                                                         *)
(* Addresses are bytes, a frame number is an address / PAGESIZE.  A bit of *)
(* the bitmap is TRUE when the frame is allocated.                         *)
(***************************************************************************)
EXTENDS Integers, Sequences, FiniteSets, FiniteSetsExt

CONSTANTS PAGESIZE,   \* bytes per frame
          MemMap      \* the memory map: records of base, length, usable

ASSUME PageAssumption  == PAGESIZE \in Nat \ {0}
ASSUME MapAssumption   == MemMap \in Seq([base : Nat, length : Nat, usable : BOOLEAN])
-----------------------------------------------------------------------------
(* vm_phys_init: from the memory map to the bitmap.                        *)

Usable == {i \in DOMAIN MemMap : MemMap[i].usable}

End(i) == MemMap[i].base + MemMap[i].length

(* vm_probe: the end of the highest usable entry and the bitmap's length   *)
(* in bytes; both divisions truncate.                                      *)
highest_usable == Max({End(i) : i \in Usable} \cup {0})

max_index == highest_usable \div PAGESIZE

bitmap_size == max_index \div 8

Frames == 0 .. max_index - 1

(* Frames bitmap_set_range touches for a range of bytes.                   *)
FrameSpan(start, end) ==
  (start \div PAGESIZE) .. ((end + PAGESIZE - 1) \div PAGESIZE - 1)

(* vm_alloc_bitmap: the bitmap lies at the start of the first usable entry *)
(* that can hold it, and the entry shrinks; with no such entry it panics.  *)
Fits(i) == i \in Usable /\ MemMap[i].length >= bitmap_size

ASSUME BitmapFits == \E i \in DOMAIN MemMap : Fits(i)

BitmapEntry == CHOOSE i \in DOMAIN MemMap : Fits(i) /\ \A j \in 1 .. i - 1 : ~Fits(j)

bitmap_base == MemMap[BitmapEntry].base

(* EntryStart with the entry that holds the bitmap not shrunk.             *)
EntryStart_Whole(i) == MemMap[i].base

EntryStart(i) == IF i = BitmapEntry THEN MemMap[i].base + bitmap_size
                                    ELSE MemMap[i].base

(* vm_fill_bitmap: the frames whose bits are cleared.                      *)
Populated == UNION {FrameSpan(EntryStart(i), End(i)) : i \in Usable}

(* memset sets every bit of the bitmap's bitmap_size bytes, vm_fill_bitmap *)
(* clears those of the usable entries.  A bit past the last byte is memory *)
(* that nothing initialised.                                               *)
NoBit == {f \in Frames : f >= 8 * bitmap_size}

InitialBitmaps ==
  {[f \in Frames |-> f \notin Populated /\ (f \in NoBit => junk[f])] :
     junk \in [NoBit -> BOOLEAN]}

bitmap_set_range(b, start, end, alloc) ==
  [f \in DOMAIN b |-> IF f \in FrameSpan(start, end) THEN alloc ELSE b[f]]
-----------------------------------------------------------------------------
(* __vm_phys_alloc's scan.  last_index is 0 whenever it runs: the variable *)
(* is initialised to 0 and only ever assigned 0.                           *)

FreeIn(b) == {f \in DOMAIN b : ~b[f]}

(* The loop breaks at the frame that makes frames_found reach n; the       *)
(* counter is not reset by a used frame.  Without such a frame the loop    *)
(* ends behind the last one.                                               *)
LoopEnd(b, n) ==
  IF Cardinality(FreeIn(b)) >= n
    THEN CHOOSE f \in FreeIn(b) : Cardinality({g \in FreeIn(b) : g <= f}) = n
    ELSE max_index - 1

(* index_start when the loop is left, as a set: the first frame of the run *)
(* of free frames that ends where the loop ended, or nothing for -1.       *)
IndexStart(b, n) ==
  LET f == LoopEnd(b, n)
  IN  {s \in FreeIn(b) : s <= f /\ s .. f \subseteq FreeIn(b) /\ s - 1 \notin FreeIn(b)}
=============================================================================
