------------------------------ MODULE PhysMem -------------------------------
(***************************************************************************)
(* The physical frame allocator, sys/vm/vm_phys.c: vm_phys_alloc and       *)
(* vm_phys_free called by several threads under bitmap_lock, on the bitmap *)
(* vm_phys_init left (PhysBitmap).  The lock is the abstract one of        *)
(* LockSpec, which Spinlock implements; the scan of the bitmap and the     *)
(* setting of the bits are separate steps, so that what the lock protects  *)
(* can go wrong.                                                           *)
(***************************************************************************)
EXTENDS PhysBitmap

CONSTANTS Threads,    \* callers of the allocator
          None,       \* "nobody": bitmap_lock is free
          Counts      \* run lengths the callers ask for

ASSUME CountAssumption == Counts \subseteq Nat \ {0}
ASSUME NoneAssumption  == None \notin Threads
-----------------------------------------------------------------------------
VARIABLES bitmap,    \* bitmap[f]: is frame f marked allocated?
          owner,     \* the thread that holds bitmap_lock, or None
          pc,        \* where each thread is
          count,     \* count[t]: the argument of t's current call
          base,      \* base[t]: argument of vm_phys_free, result of the scan;
                     \* a frame number, 0 also for "none"
          found,     \* found[t]: did the scan leave index_start >= 0 ?
          tries,     \* tries[t]: calls of __vm_phys_alloc so far in this call
          held       \* held[t]: the runs <<base, count>> t owns

vars == <<bitmap, owner, pc, count, base, found, tries, held>>

Locations == {"out", "lock_alloc", "scan", "mark", "unlock_alloc",
              "lock_free", "clear", "unlock_free"}

TypeOK ==
  /\ bitmap \in [Frames -> BOOLEAN]
  /\ owner \in Threads \cup {None}
  /\ pc \in [Threads -> Locations]
  /\ count \in [Threads -> Nat]
  /\ base \in [Threads -> Nat]
  /\ found \in [Threads -> BOOLEAN]
  /\ tries \in [Threads -> 0 .. 2]
  /\ held \in [Threads -> SUBSET (Nat \X Nat)]

Init ==
  /\ bitmap \in InitialBitmaps
  /\ owner = None
  /\ pc = [t \in Threads |-> "out"]
  /\ count = [t \in Threads |-> 0]
  /\ base = [t \in Threads |-> 0]
  /\ found = [t \in Threads |-> FALSE]
  /\ tries = [t \in Threads |-> 0]
  /\ held = [t \in Threads |-> {}]

bitmap_lock == INSTANCE LockSpec

Goto(t, l) == pc' = [pc EXCEPT ![t] = l]

(* vm_phys_alloc(n) is called.                                             *)
CallAlloc(t, n) ==
  /\ pc[t] = "out"
  /\ count' = [count EXCEPT ![t] = n]
  /\ tries' = [tries EXCEPT ![t] = 0]
  /\ Goto(t, "lock_alloc")
  /\ UNCHANGED <<bitmap, owner, base, found, held>>

(* vm_phys_free(b, n) is called with a run the caller owns.                *)
CallFree(t, b, n) ==
  /\ pc[t] = "out" /\ <<b, n>> \in held[t]
  /\ base' = [base EXCEPT ![t] = b]
  /\ count' = [count EXCEPT ![t] = n]
  /\ held' = [held EXCEPT ![t] = @ \ {<<b, n>>}]
  /\ Goto(t, "lock_free")
  /\ UNCHANGED <<bitmap, owner, found, tries>>

(* Lock that does not wait for the lock.                                   *)
Lock_Unchecked(t) ==
  /\ owner' = t
  /\ \/ pc[t] = "lock_alloc" /\ Goto(t, "scan")
     \/ pc[t] = "lock_free" /\ Goto(t, "clear")
  /\ UNCHANGED <<bitmap, count, base, found, tries, held>>

(* mu_spinlock_acq(&bitmap_lock, 0).                                       *)
Lock(t) ==
  /\ bitmap_lock!Acquire(t)
  /\ \/ pc[t] = "lock_alloc" /\ Goto(t, "scan")
     \/ pc[t] = "lock_free" /\ Goto(t, "clear")
  /\ UNCHANGED <<bitmap, count, base, found, tries, held>>

(* The loop of __vm_phys_alloc: reads the bitmap, writes nothing shared.   *)
Scan(t) ==
  /\ pc[t] = "scan"
  /\ LET start == IndexStart(bitmap, count[t])
     IN  /\ found' = [found EXCEPT ![t] = start # {}]
         /\ base' = [base EXCEPT ![t] = IF start # {} THEN CHOOSE s \in start : TRUE ELSE 0]
  /\ Goto(t, "mark")
  /\ UNCHANGED <<bitmap, owner, count, tries, held>>

(* bitmap_set_range on the run that was found.                             *)
MarkRange(t) ==
  bitmap' = IF found[t]
              THEN bitmap_set_range(bitmap, base[t] * PAGESIZE,
                                    (base[t] + count[t]) * PAGESIZE, TRUE)
              ELSE bitmap

(* Mark with other retries than one: none, and one after another.          *)
Mark_NoRetry(t) ==
  /\ pc[t] = "mark" /\ MarkRange(t)
  /\ tries' = [tries EXCEPT ![t] = @ + 1]
  /\ Goto(t, "unlock_alloc")
  /\ UNCHANGED <<owner, count, base, found, held>>

Mark_Forever(t) ==
  /\ pc[t] = "mark" /\ MarkRange(t)
  /\ Goto(t, IF base[t] = 0 THEN "scan" ELSE "unlock_alloc")
  /\ UNCHANGED <<owner, count, base, found, tries, held>>

(* The rest of __vm_phys_alloc, and vm_phys_alloc's test of its result:    *)
(* address 0 - no run, or the run that starts at frame 0 - is tried again, *)
(* once.                                                                   *)
Mark(t) ==
  /\ pc[t] = "mark" /\ MarkRange(t)
  /\ tries' = [tries EXCEPT ![t] = @ + 1]
  /\ Goto(t, IF base[t] = 0 /\ tries[t] = 0 THEN "scan" ELSE "unlock_alloc")
  /\ UNCHANGED <<owner, count, base, found, held>>

(* mu_spinlock_rel, and the return to a caller that owns what it got.      *)
ReturnAlloc(t) ==
  /\ pc[t] = "unlock_alloc"
  /\ owner' = None
  /\ held' = IF base[t] = 0 THEN held
             ELSE [held EXCEPT ![t] = @ \cup {<<base[t], count[t]>>}]
  /\ Goto(t, "out")
  /\ UNCHANGED <<bitmap, count, base, found, tries>>

(* vm_phys_free under the lock, for n frames.                              *)
ClearRange(t, n) ==
  /\ pc[t] = "clear"
  /\ bitmap' = bitmap_set_range(bitmap, base[t] * PAGESIZE,
                                (base[t] + n) * PAGESIZE, FALSE)
  /\ Goto(t, "unlock_free")
  /\ UNCHANGED <<owner, count, base, found, tries, held>>

(* Clear of one frame too few, and of one too many.                        *)
Clear_Short(t) == ClearRange(t, count[t] - 1)

Clear_Long(t) == ClearRange(t, count[t] + 1)

Clear(t) == ClearRange(t, count[t])

ReturnFree(t) ==
  /\ pc[t] = "unlock_free"
  /\ owner' = None
  /\ Goto(t, "out")
  /\ UNCHANGED <<bitmap, count, base, found, tries, held>>

Step(t) == \/ Lock(t) \/ Scan(t) \/ Mark(t) \/ ReturnAlloc(t)
           \/ Clear(t) \/ ReturnFree(t)

Next == \E t \in Threads :
          \/ \E n \in Counts : CallAlloc(t, n)
          \/ \E r \in held[t] : CallFree(t, r[1], r[2])
          \/ Step(t)

Spec == Init /\ [][Next]_vars

(* A thread inside the allocator keeps executing.  Nothing more is assumed *)
(* of the spin lock than that somebody gets it.                            *)
FairSpec == Spec /\ \A t \in Threads : WF_vars(Step(t))
-----------------------------------------------------------------------------
(* Properties.                                                             *)

Run(b, n) == b .. b + n - 1

(* A call that has marked its run but not returned, and one that is about  *)
(* to clear it, own the run as much as a caller outside does.              *)
InTransit(t) ==
  IF (pc[t] = "unlock_alloc" /\ base[t] # 0) \/ pc[t] \in {"lock_free", "clear"}
    THEN {<<base[t], count[t]>>} ELSE {}

Owned(t) == held[t] \cup InTransit(t)

FramesOf(t) == UNION {Run(r[1], r[2]) : r \in Owned(t)}

(* NoSharedFrame: no frame is in two runs that are out at the same time,   *)
(* whichever callers allocated, freed and re-allocated in between, and no  *)
(* call is given a run its own caller already has.                         *)
NoSharedFrame ==
  /\ \A s, t \in Threads : \A r \in Owned(s), q \in Owned(t) :
       s # t \/ r # q => Run(r[1], r[2]) \cap Run(q[1], q[2]) = {}
  /\ \A t \in Threads : held[t] \cap InTransit(t) = {}

(* NoFrameLost: a frame vm_fill_bitmap put in the pool is free or owned;   *)
(* allocating and freeing in any order loses none but frame 0, which       *)
(* vm_phys_alloc marks and then mistakes for a failure.                    *)
NoFrameLost ==
  \A f \in Populated \ {0} :
    f \in FreeIn(bitmap) \/ \E t \in Threads : f \in FramesOf(t)

(* NullMeansExhausted: vm_phys_alloc(1) returns 0 only when no frame is    *)
(* left, its retry after taking frame 0 included.                          *)
NullMeansExhausted ==
  \A t \in Threads :
    pc[t] = "unlock_alloc" /\ count[t] = 1 /\ base[t] = 0 => FreeIn(bitmap) = {}

(* The frames a caller may use: inside usable memory as the boot loader    *)
(* reported it, and holding no byte of the bitmap.                         *)
UsableFrames ==
  {f \in Frames :
     /\ \E i \in Usable : /\ MemMap[i].base <= f * PAGESIZE
                          /\ (f + 1) * PAGESIZE <= End(i)
     /\ f \notin FrameSpan(bitmap_base, bitmap_base + bitmap_size)}

(* vm_probe and vm_alloc_bitmap round nothing up: the page the bitmap ends *)
(* in, when it does not end with a page, and the frames it has no bit for. *)
TailPage == IF bitmap_size % PAGESIZE = 0 THEN {}
            ELSE {(bitmap_base + bitmap_size) \div PAGESIZE}

(* GrantsUsable: whoever owns a frame may use it - it is usable memory and *)
(* holds no part of the bitmap - but for the two places vm_probe and       *)
(* vm_alloc_bitmap leave open: the page the bitmap ends in, and the frames *)
(* past its last bit.  (What such an owner then writes over the bitmap is  *)
(* outside the model.)                                                     *)
GrantsUsable ==
  \A t \in Threads : FramesOf(t) \subseteq UsableFrames \cup TailPage \cup NoBit

(* BitmapNotGranted: vm_fill_bitmap is to "Populate bitmap entries based   *)
(* on what is free and what is not": a page that holds a part of the       *)
(* bitmap is not free, so no caller gets it.                               *)
BitmapNotGranted ==
  \A t \in Threads :
    FramesOf(t) \cap FrameSpan(bitmap_base, bitmap_base + bitmap_size) = {}

(* HolderReturns: a call that got bitmap_lock gives it back and returns:   *)
(* the retry after address 0 is made once, not until it succeeds.          *)
HolderReturns == \A t \in Threads : (owner = t) ~> (pc[t] = "out")

Abs == INSTANCE FrameAlloc WITH
         Pool  <- {FreeIn(b) : b \in InitialBitmaps},
         free  <- FreeIn(bitmap),
         owned <- [t \in Threads |-> FramesOf(t)]

(* AllocImplemented: for single frames, the bitmap under its lock is the   *)
(* abstract frame allocator; the steps that take effect are Mark and Clear. *)
AllocImplemented == Abs!Spec
-----------------------------------------------------------------------------
(* The inductive invariants: TypeInv for every run length, SingleInv for   *)
(* NoSharedFrame when every caller asks for one frame, Counts = {1}.       *)

(* Retry: __vm_phys_alloc is about to be called for the second time at     *)
(* most, so a call leaves it after two.                                    *)
Retry ==
  \A t \in Threads : pc[t] \in {"lock_alloc", "scan", "mark"} => tries[t] \in {0, 1}

(* Locked: exactly the owner of bitmap_lock is between its acquisition and *)
(* its release.                                                            *)
Locked ==
  \A t \in Threads :
    pc[t] \in {"scan", "mark", "unlock_alloc", "clear", "unlock_free"} <=> owner = t

(* Singles: every run in the hands of a caller is one frame, never frame 0. *)
Singles ==
  \A t \in Threads :
    /\ \A r \in held[t] : r[2] = 1 /\ r[1] # 0
    /\ pc[t] \notin {"out", "unlock_free"} => count[t] = 1
    /\ pc[t] \in {"lock_free", "clear"} => base[t] # 0

(* ScanFresh: what the scan found is still free when it is marked.         *)
ScanFresh ==
  \A t \in Threads : pc[t] = "mark" =>
    IF found[t] THEN base[t] \in FreeIn(bitmap) ELSE base[t] = 0

(* OwnedMarked: a frame somebody owns is marked allocated, so no scan      *)
(* finds it.                                                               *)
OwnedMarked ==
  \A t \in Threads : \A r \in Owned(t) : r[1] \notin FreeIn(bitmap)

(* OneOwner: a run belongs to one caller, once.                            *)
OneOwner ==
  /\ \A s, t \in Threads : s # t => Owned(s) \cap Owned(t) = {}
  /\ \A t \in Threads : held[t] \cap InTransit(t) = {}

TypeInv == TypeOK /\ Retry

SingleInv == TypeInv /\ Locked /\ Singles /\ ScanFresh
             /\ OwnedMarked /\ OneOwner
=============================================================================
