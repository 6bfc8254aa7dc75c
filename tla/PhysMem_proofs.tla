--------------------------- MODULE PhysMem_proofs ---------------------------
(***************************************************************************)
(* Proofs about the physical frame allocator, for any memory map, page     *)
(* size and set of threads.                                                *)
(***************************************************************************)
EXTENDS PhysMem, PhysScan, FiniteSetTheorems, WellFoundedInduction, TLAPS

(* The frames of the bitmap are natural numbers.                           *)
LEMMA FramesNat == Frames \subseteq Nat
BY DEF Frames

(* A byte range that covers whole frames touches exactly those frames:     *)
(* vm_phys_free(base, 1) and the marking of one found frame both change    *)
(* the bit of that frame and no other.                                     *)
LEMMA OneFrameSpan ==
  ASSUME NEW f \in Nat
  PROVE  FrameSpan(f * PAGESIZE, (f + 1) * PAGESIZE) = {f}
<1> DEFINE P == PAGESIZE
<1>1. P \in Nat /\ P > 0
  BY PageAssumption
<1> HIDE DEF P
<1>2. (f * P) \div P = f
  BY <1>1
<1>3. ((f + 1) * P + P - 1) \div P = f + 1
  BY <1>1
<1>4. f .. (f + 1 - 1) = {f}
  OBVIOUS
<1> QED
  BY <1>2, <1>3, <1>4 DEF FrameSpan, P

(* Whatever run length it is asked for, the scan ends at a free frame or   *)
(* at none.                                                                *)
LEMMA ScanFindsFree ==
  ASSUME NEW b, NEW n PROVE IndexStart(b, n) \subseteq FreeIn(b)
BY DEF IndexStart

LEMMA SetRangeType ==
  ASSUME NEW b \in [Frames -> BOOLEAN], NEW x, NEW y, NEW v \in BOOLEAN
  PROVE  bitmap_set_range(b, x, y, v) \in [Frames -> BOOLEAN]
BY DEF bitmap_set_range
-----------------------------------------------------------------------------
(* Typing, for every run length.                                           *)

LEMMA InitTypeInv == Init => TypeInv
<1> SUFFICES ASSUME Init PROVE TypeInv
  OBVIOUS
<1>1. PICK junk \in [NoBit -> BOOLEAN] :
        bitmap = [f \in Frames |-> f \notin Populated /\ (f \in NoBit => junk[f])]
  BY DEF Init, InitialBitmaps
<1>2. \A f \in Frames : (f \notin Populated /\ (f \in NoBit => junk[f])) \in BOOLEAN
  OBVIOUS
<1>3. bitmap \in [Frames -> BOOLEAN]
  BY <1>1, <1>2
<1> QED
  BY <1>3 DEF Init, TypeInv, TypeOK, Retry, Locations

LEMMA NextTypeInv == TypeInv /\ [Next]_vars => TypeInv'
<1> SUFFICES ASSUME TypeInv, [Next]_vars PROVE TypeInv'
  OBVIOUS
<1> USE DEF TypeInv, TypeOK, Retry, Locations, Goto
<1>1. ASSUME NEW t \in Threads, NEW n \in Counts, CallAlloc(t, n) PROVE TypeInv'
  BY <1>1, CountAssumption DEF CallAlloc
<1>2. ASSUME NEW t \in Threads, NEW r \in held[t], CallFree(t, r[1], r[2])
      PROVE  TypeInv'
  BY <1>2 DEF CallFree
<1>3. ASSUME NEW t \in Threads, Lock(t) PROVE TypeInv'
  BY <1>3 DEF Lock, bitmap_lock!Acquire
<1>4. ASSUME NEW t \in Threads, Scan(t) PROVE TypeInv'
  <2>1. base' \in [Threads -> Nat]
    BY <1>4, ScanFindsFree, FramesNat DEF Scan, FreeIn
  <2>2. found' \in [Threads -> BOOLEAN]
    BY <1>4 DEF Scan
  <2> QED
    BY <1>4, <2>1, <2>2 DEF Scan
<1>5. ASSUME NEW t \in Threads, Mark(t) PROVE TypeInv'
  <2>1. bitmap' \in [Frames -> BOOLEAN]
    BY <1>5, SetRangeType DEF Mark, MarkRange
  <2>2. tries[t] \in {0, 1}
    BY <1>5 DEF Mark
  <2> QED
    BY <1>5, <2>1, <2>2 DEF Mark
<1>6. ASSUME NEW t \in Threads, ReturnAlloc(t) PROVE TypeInv'
  BY <1>6 DEF ReturnAlloc
<1>7. ASSUME NEW t \in Threads, Clear(t) PROVE TypeInv'
  BY <1>7, SetRangeType DEF Clear, ClearRange
<1>8. ASSUME NEW t \in Threads, ReturnFree(t) PROVE TypeInv'
  BY <1>8 DEF ReturnFree
<1>9. CASE UNCHANGED vars
  BY <1>9 DEF vars
<1> QED
  BY <1>1, <1>2, <1>3, <1>4, <1>5, <1>6, <1>7, <1>8, <1>9 DEF Next, Step

(* Typing of the allocator for every run length: the bitmap stays a bitmap *)
(* of the frames vm_probe counted, and vm_phys_alloc tries at most twice.  *)
THEOREM TypeCorrect == Spec => []TypeOK
<1>1. TypeInv => TypeOK
  BY DEF TypeInv
<1> QED
  BY InitTypeInv, NextTypeInv, <1>1, PTL DEF Spec
-----------------------------------------------------------------------------
(* Exclusive ownership of single frames.                                   *)

LEMMA InitSingleInv == Init => SingleInv
<1> SUFFICES ASSUME Init PROVE SingleInv
  OBVIOUS
<1>1. TypeInv
  BY InitTypeInv
<1>2. \A t \in Threads : pc[t] = "out" /\ held[t] = {} /\ owner # t
  BY NoneAssumption DEF Init
<1> QED
  BY <1>1, <1>2
  DEF SingleInv, Locked, Singles, ScanFresh, OwnedMarked, OneOwner, Owned, InTransit

(* Only the owner of bitmap_lock is inside, and it leaves as it releases.  *)
LEMMA NextLocked == TypeOK /\ Locked /\ [Next]_vars => Locked'
<1> SUFFICES ASSUME TypeOK, Locked, [Next]_vars PROVE Locked'
  OBVIOUS
<1> USE NoneAssumption DEF TypeOK, Locked, Goto
<1>1. ASSUME NEW t \in Threads, NEW n \in Counts, CallAlloc(t, n) PROVE Locked'
  BY <1>1 DEF CallAlloc
<1>2. ASSUME NEW t \in Threads, NEW r \in held[t], CallFree(t, r[1], r[2])
      PROVE  Locked'
  BY <1>2 DEF CallFree
<1>3. ASSUME NEW t \in Threads, Lock(t) PROVE Locked'
  BY <1>3 DEF Lock, bitmap_lock!Acquire
<1>4. ASSUME NEW t \in Threads, Scan(t) PROVE Locked'
  BY <1>4 DEF Scan
<1>5. ASSUME NEW t \in Threads, Mark(t) PROVE Locked'
  BY <1>5 DEF Mark
<1>6. ASSUME NEW t \in Threads, ReturnAlloc(t) PROVE Locked'
  BY <1>6 DEF ReturnAlloc
<1>7. ASSUME NEW t \in Threads, Clear(t) PROVE Locked'
  BY <1>7 DEF Clear, ClearRange
<1>8. ASSUME NEW t \in Threads, ReturnFree(t) PROVE Locked'
  BY <1>8 DEF ReturnFree
<1>9. CASE UNCHANGED vars
  BY <1>9 DEF vars
<1> QED
  BY <1>1, <1>2, <1>3, <1>4, <1>5, <1>6, <1>7, <1>8, <1>9 DEF Next, Step

(* With Counts = {1} every run stays one frame and is never frame 0.       *)
LEMMA NextSingles == ASSUME Counts = {1}
                     PROVE  TypeOK /\ Singles /\ [Next]_vars => Singles'
<1> SUFFICES ASSUME TypeOK, Singles, [Next]_vars PROVE Singles'
  OBVIOUS
<1> USE DEF TypeOK, Singles, Goto
<1>1. ASSUME NEW t \in Threads, NEW n \in Counts, CallAlloc(t, n) PROVE Singles'
  BY <1>1 DEF CallAlloc
<1>2. ASSUME NEW t \in Threads, NEW r \in held[t], CallFree(t, r[1], r[2])
      PROVE  Singles'
  BY <1>2 DEF CallFree
<1>3. ASSUME NEW t \in Threads, Lock(t) PROVE Singles'
  BY <1>3 DEF Lock
<1>4. ASSUME NEW t \in Threads, Scan(t) PROVE Singles'
  BY <1>4 DEF Scan
<1>5. ASSUME NEW t \in Threads, Mark(t) PROVE Singles'
  BY <1>5 DEF Mark
<1>6. ASSUME NEW t \in Threads, ReturnAlloc(t) PROVE Singles'
  BY <1>6 DEF ReturnAlloc
<1>7. ASSUME NEW t \in Threads, Clear(t) PROVE Singles'
  BY <1>7 DEF Clear, ClearRange
<1>8. ASSUME NEW t \in Threads, ReturnFree(t) PROVE Singles'
  BY <1>8 DEF ReturnFree
<1>9. CASE UNCHANGED vars
  BY <1>9 DEF vars
<1> QED
  BY <1>1, <1>2, <1>3, <1>4, <1>5, <1>6, <1>7, <1>8, <1>9 DEF Next, Step

(* The rest of the invariant.  Only Mark and Clear change who owns what or *)
(* the bitmap; the others move a run between a call and its caller.        *)
LEMMA NextOwned ==
  ASSUME Counts = {1}
  PROVE  SingleInv /\ [Next]_vars => (ScanFresh /\ OwnedMarked /\ OneOwner)'
<1> SUFFICES ASSUME SingleInv, [Next]_vars
             PROVE  (ScanFresh /\ OwnedMarked /\ OneOwner)'
  OBVIOUS
<1>0. TypeOK /\ Locked /\ Singles /\ ScanFresh /\ OwnedMarked /\ OneOwner
  BY DEF SingleInv, TypeInv
<1> USE <1>0 DEF TypeOK, Goto
<1>a. ASSUME bitmap' = bitmap,
             \A t \in Threads : Owned(t)' = Owned(t),
             \A t \in Threads : held'[t] \cap InTransit(t)' = {}
      PROVE  OwnedMarked' /\ OneOwner'
  BY <1>a DEF OwnedMarked, OneOwner
<1>b. ASSUME bitmap' = bitmap,
             \A t \in Threads : pc'[t] = "mark"
               => pc[t] = "mark" /\ found'[t] = found[t] /\ base'[t] = base[t]
      PROVE  ScanFresh'
  BY <1>b DEF ScanFresh
<1>1. ASSUME NEW t \in Threads, NEW n \in Counts, CallAlloc(t, n)
      PROVE  (ScanFresh /\ OwnedMarked /\ OneOwner)'
  <2>1. \A s \in Threads : InTransit(s)' = InTransit(s)
    BY <1>1, NextSingles DEF CallAlloc, InTransit
  <2> QED
    BY <1>1, <2>1, <1>a, <1>b DEF CallAlloc, Owned, OneOwner
<1>2. ASSUME NEW t \in Threads, NEW r \in held[t], CallFree(t, r[1], r[2])
      PROVE  (ScanFresh /\ OwnedMarked /\ OneOwner)'
  <2>1. r = <<r[1], r[2]>>
    OBVIOUS
  <2>2. \A s \in Threads \ {t} : held'[s] = held[s] /\ InTransit(s)' = InTransit(s)
    BY <1>2 DEF CallFree, InTransit
  <2>3. /\ held'[t] = held[t] \ {r}
        /\ InTransit(t)' = {r}
        /\ InTransit(t) = {}
    BY <1>2, <2>1 DEF CallFree, InTransit
  <2> QED
    BY <1>2, <2>2, <2>3, <1>a, <1>b DEF CallFree, Owned, OneOwner
<1>3. ASSUME NEW t \in Threads, Lock(t)
      PROVE  (ScanFresh /\ OwnedMarked /\ OneOwner)'
  <2>1. \A s \in Threads : InTransit(s)' = InTransit(s)
    BY <1>3 DEF Lock, InTransit
  <2> QED
    BY <1>3, <2>1, <1>a, <1>b DEF Lock, Owned, OneOwner
<1>4. ASSUME NEW t \in Threads, Scan(t)
      PROVE  (ScanFresh /\ OwnedMarked /\ OneOwner)'
  <2>1. \A s \in Threads : InTransit(s)' = InTransit(s)
    BY <1>4 DEF Scan, InTransit
  <2>2. OwnedMarked' /\ OneOwner'
    BY <1>4, <2>1, <1>a DEF Scan, Owned, OneOwner
  <2>3. found'[t] => base'[t] \in FreeIn(bitmap)
    BY <1>4, ScanFindsFree DEF Scan
  <2>4. ~found'[t] => base'[t] = 0
    BY <1>4 DEF Scan
  <2>5. ScanFresh'
    BY <1>4, <2>3, <2>4 DEF Scan, ScanFresh
  <2> QED
    BY <2>2, <2>5
<1>5. ASSUME NEW t \in Threads, Mark(t)
      PROVE  (ScanFresh /\ OwnedMarked /\ OneOwner)'
  <2>1. count[t] = 1 /\ base[t] \in Nat
    BY <1>5 DEF Mark, Singles
  <2>2. bitmap' = IF found[t] THEN [f \in Frames |-> IF f = base[t] THEN TRUE ELSE bitmap[f]]
                              ELSE bitmap
    BY <1>5, <2>1, OneFrameSpan DEF Mark, MarkRange, bitmap_set_range
  <2>3. FreeIn(bitmap)' \subseteq FreeIn(bitmap)
    BY <2>2 DEF FreeIn
  <2>4. \A s \in Threads \ {t} : pc'[s] # "mark" /\ InTransit(s)' = InTransit(s)
    BY <1>5 DEF Mark, Locked, InTransit
  <2>4a. \A s \in Threads \ {t} : Owned(s)' = Owned(s)
    BY <1>5, <2>4 DEF Mark, Owned
  <2>5. pc'[t] # "mark"
    BY <1>5 DEF Mark
  <2>6. ScanFresh'
    BY <2>4, <2>5 DEF ScanFresh
  <2>7. CASE pc'[t] = "unlock_alloc" /\ base[t] # 0
    <3>1. /\ InTransit(t)' = {<<base[t], 1>>}
          /\ InTransit(t) = {}
          /\ held'[t] = held[t]
      BY <1>5, <2>1, <2>7 DEF Mark, InTransit
    <3>2. base[t] \in FreeIn(bitmap) /\ base[t] \notin FreeIn(bitmap')
      BY <1>5, <2>2, <2>7 DEF Mark, ScanFresh, FreeIn
    <3>3. \A s \in Threads : <<base[t], 1>> \notin Owned(s)
      BY <3>2 DEF OwnedMarked
    <3>4. Owned(t)' = Owned(t) \cup {<<base[t], 1>>}
      BY <3>1 DEF Owned
    <3>5. OwnedMarked'
      BY <2>3, <2>4a, <3>2, <3>4 DEF OwnedMarked
    <3>6. \A s, u \in Threads : s # u => Owned(s)' \cap Owned(u)' = {}
      BY <2>4a, <3>3, <3>4 DEF OneOwner
    <3>7. \A s \in Threads : held'[s] \cap InTransit(s)' = {}
      BY <1>5, <2>4, <3>1, <3>3 DEF Mark, Owned, OneOwner
    <3> QED
      BY <2>6, <3>5, <3>6, <3>7 DEF OneOwner
  <2>8. CASE ~(pc'[t] = "unlock_alloc" /\ base[t] # 0)
    <3>1. InTransit(t)' = {} /\ InTransit(t) = {} /\ held' = held
      BY <1>5, <2>8 DEF Mark, InTransit
    <3>2. Owned(t)' = Owned(t)
      BY <3>1 DEF Owned
    <3>3. OwnedMarked'
      BY <2>3, <2>4a, <3>2 DEF OwnedMarked
    <3>4. OneOwner'
      BY <2>4, <2>4a, <3>1, <3>2 DEF OneOwner
    <3> QED
      BY <2>6, <3>3, <3>4
  <2> QED
    BY <2>7, <2>8
<1>6. ASSUME NEW t \in Threads, ReturnAlloc(t)
      PROVE  (ScanFresh /\ OwnedMarked /\ OneOwner)'
  <2>1. \A s \in Threads \ {t} : held'[s] = held[s] /\ InTransit(s)' = InTransit(s)
    BY <1>6 DEF ReturnAlloc, InTransit
  <2>2. InTransit(t)' = {} /\ held'[t] = Owned(t)
    BY <1>6 DEF ReturnAlloc, InTransit, Owned
  <2> QED
    BY <1>6, <2>1, <2>2, <1>a, <1>b DEF ReturnAlloc, Owned, OneOwner
<1>7. ASSUME NEW t \in Threads, Clear(t)
      PROVE  (ScanFresh /\ OwnedMarked /\ OneOwner)'
  <2>1. count[t] = 1 /\ base[t] \in Nat
    BY <1>7 DEF Clear, ClearRange, Singles
  <2>2. bitmap' = [f \in Frames |-> IF f = base[t] THEN FALSE ELSE bitmap[f]]
    BY <1>7, <2>1, OneFrameSpan DEF Clear, ClearRange, bitmap_set_range
  <2>3. /\ InTransit(t) = {<<base[t], 1>>}
        /\ InTransit(t)' = {}
        /\ held' = held
    BY <1>7, <2>1 DEF Clear, ClearRange, InTransit
  <2>4. \A s \in Threads \ {t} : pc'[s] # "mark" /\ InTransit(s)' = InTransit(s)
    BY <1>7 DEF Clear, ClearRange, Locked, InTransit
  <2>5. \A s \in Threads : Owned(s)' \subseteq Owned(s)
    BY <2>3, <2>4 DEF Owned
  <2>6. \A s \in Threads : <<base[t], 1>> \notin Owned(s)'
    BY <2>3, <2>4 DEF Owned, OneOwner
  <2>7. \A s \in Threads : \A r \in Owned(s)' : r[1] # base[t]
    <3> SUFFICES ASSUME NEW s \in Threads, NEW r \in Owned(s)' PROVE r[1] # base[t]
      OBVIOUS
    <3>1. r \in Owned(s)
      BY <2>5
    <3>2. r \in Nat \X Nat /\ r[2] = 1
      BY <3>1, <1>7, <2>1 DEF Owned, InTransit, Singles
    <3> QED
      BY <2>6, <3>2
  <2>8. OwnedMarked'
    BY <2>2, <2>5, <2>7 DEF OwnedMarked, FreeIn
  <2>9. ScanFresh'
    BY <1>7, <2>4 DEF Clear, ClearRange, ScanFresh
  <2>10. OneOwner'
    BY <2>3, <2>4, <2>5 DEF OneOwner
  <2> QED
    BY <2>8, <2>9, <2>10
<1>8. ASSUME NEW t \in Threads, ReturnFree(t)
      PROVE  (ScanFresh /\ OwnedMarked /\ OneOwner)'
  <2>1. \A s \in Threads : InTransit(s)' = InTransit(s)
    BY <1>8 DEF ReturnFree, InTransit
  <2> QED
    BY <1>8, <2>1, <1>a, <1>b DEF ReturnFree, Owned, OneOwner
<1>9. CASE UNCHANGED vars
  BY <1>9 DEF vars, ScanFresh, OwnedMarked, OneOwner, Owned, InTransit
<1> QED
  BY <1>1, <1>2, <1>3, <1>4, <1>5, <1>6, <1>7, <1>8, <1>9 DEF Next, Step

LEMMA NextSingleInv == ASSUME Counts = {1}
                       PROVE  SingleInv /\ [Next]_vars => SingleInv'
BY NextTypeInv, NextLocked, NextSingles, NextOwned DEF SingleInv, TypeInv

(* Two runs of one frame that share a frame are the same run.              *)
LEMMA SingleInvImplies == SingleInv => NoSharedFrame
<1> SUFFICES ASSUME SingleInv PROVE NoSharedFrame
  OBVIOUS
<1>0. TypeOK /\ Singles /\ OneOwner
  BY DEF SingleInv, TypeInv
<1>1. \A t \in Threads : \A r \in Owned(t) : r \in Nat \X Nat /\ r[2] = 1
  BY <1>0 DEF Owned, InTransit, Singles, TypeOK
<1>2. \A b \in Nat : Run(b, 1) = {b}
  BY DEF Run
<1>3. ASSUME NEW s \in Threads, NEW t \in Threads,
             NEW r \in Owned(s), NEW q \in Owned(t), s # t \/ r # q
      PROVE  Run(r[1], r[2]) \cap Run(q[1], q[2]) = {}
  <2>1. r # q
    BY <1>0, <1>3 DEF OneOwner
  <2>2. r[1] # q[1]
    BY <1>1, <2>1
  <2> QED
    BY <1>1, <1>2, <2>2
<1> QED
  BY <1>0, <1>3 DEF NoSharedFrame, OneOwner

(* As long as every caller asks for one frame, vm_phys_alloc never gives a *)
(* frame to a second owner, for any memory map, page size and number of    *)
(* threads.  (For runs of frames it does: run phys_runs.)                  *)
THEOREM ExclusiveFrames ==
  ASSUME Counts = {1}
  PROVE  Spec => []NoSharedFrame
BY InitSingleInv, NextSingleInv, SingleInvImplies, PTL DEF Spec
-----------------------------------------------------------------------------
(* Least and greatest elements.                                            *)

LEMMA LeastNat ==
  ASSUME NEW T, T \subseteq Nat, T # {} PROVE \E x \in T : \A y \in T : x <= y
<1>1. PICK x \in T : \A y \in T : ~(<<y, x>> \in OpToRel(<, Nat))
  BY NatLessThanWellFounded, WFMin
<1>2. \A y \in T : ~(y < x)
  BY <1>1 DEF OpToRel
<1> QED
  BY <1>2

(* Finitely many numbers have a bound: by induction on how many they are,  *)
(* as the least n for which it fails.                                      *)
LEMMA Bounded ==
  ASSUME NEW n \in Nat, NEW f \in [1 .. n -> Nat] PROVE \E b \in Nat : \A i \in 1 .. n : f[i] <= b
<1> DEFINE Good(m) == \A g \in [1 .. m -> Nat] : \E b \in Nat : \A i \in 1 .. m : g[i] <= b
           Bad == {m \in Nat : ~Good(m)}
<1>1. SUFFICES ASSUME Bad # {} PROVE FALSE
  OBVIOUS
<1>2. PICK m \in Bad : \A k \in Bad : m <= k
  BY <1>1, LeastNat
<1>3. PICK g \in [1 .. m -> Nat] : ~\E b \in Nat : \A i \in 1 .. m : g[i] <= b
  OBVIOUS
<1>4. m \in Nat /\ m # 0
  BY <1>3
<1>5. m - 1 \in Nat /\ Good(m - 1)
  <2>1. m - 1 \in Nat /\ ~(m <= m - 1)
    BY <1>4
  <2>2. m - 1 \notin Bad
    BY <1>2, <2>1
  <2> QED
    BY <2>1, <2>2
<1> DEFINE h == [i \in 1 .. m - 1 |-> g[i]]
<1>6. \A x \in Nat : Good(x) => \A k \in [1 .. x -> Nat] : \E b \in Nat : \A i \in 1 .. x : k[i] <= b
  OBVIOUS
<1> HIDE DEF Good, Bad
<1>7. h \in [1 .. m - 1 -> Nat] /\ \A i \in 1 .. m - 1 : h[i] = g[i]
  BY <1>4
<1> HIDE DEF h
<1>8. PICK b \in Nat : \A i \in 1 .. m - 1 : h[i] <= b
  BY <1>5, <1>7, <1>6
<1>9. g[m] \in Nat /\ \A i \in 1 .. m : g[i] \in Nat
  BY <1>4
<1>10. b + g[m] \in Nat /\ b + g[m] >= b /\ b + g[m] >= g[m]
  BY <1>9
<1>11. ASSUME NEW i \in 1 .. m PROVE g[i] <= b + g[m]
  <2>1. CASE i = m
    BY <1>10, <2>1
  <2>2. CASE i # m
    <3>1. i \in 1 .. m - 1
      BY <1>4, <2>2
    <3>2. g[i] <= b /\ g[i] \in Nat
      BY <1>7, <1>8, <1>9, <3>1
    <3> QED
      BY <1>9, <3>2
  <2> QED
    BY <2>1, <2>2
<1> QED
  BY <1>3, <1>10, <1>11

LEMMA GreatestNat ==
  ASSUME NEW S, S \subseteq Nat, S # {}, NEW b \in Nat, \A x \in S : x <= b
  PROVE  \E x \in S : \A y \in S : x >= y
<1> DEFINE T == {c \in Nat : \A x \in S : x <= c}
<1>1. PICK c \in T : \A d \in T : c <= d
  <2>1. T \subseteq Nat /\ b \in T
    OBVIOUS
  <2> QED
    BY <2>1, LeastNat
<1>2. c \in S
  <2>1. SUFFICES ASSUME c \notin S PROVE FALSE
    OBVIOUS
  <2>2. PICK x \in S : TRUE
    OBVIOUS
  <2>3. c - 1 \in Nat
    BY <2>1, <2>2
  <2>4. c - 1 \in T
    BY <2>1, <2>3
  <2> QED
    BY <1>1, <2>4
<1> QED
  BY <1>2

LEMMA SeqElement == ASSUME NEW X, NEW s \in Seq(X), NEW i \in 1 .. Len(s) PROVE s[i] \in X
OBVIOUS

(* vm_probe's highest_usable is a number and no usable entry ends above it. *)
LEMMA HighestFacts ==
  /\ highest_usable \in Nat /\ max_index \in Nat
  /\ \A i \in Usable : End(i) \in Nat /\ End(i) <= highest_usable
  /\ highest_usable = 0 \/ \E i \in Usable : highest_usable = End(i)
<1> DEFINE S == {End(i) : i \in Usable} \cup {0}
           n == Len(MemMap)
           f == [i \in 1 .. n |-> End(i)]
<1>1. n \in Nat /\ DOMAIN MemMap = 1 .. n /\ Usable \subseteq 1 .. n
  BY MapAssumption DEF Usable
<1>2. ASSUME NEW i \in 1 .. n PROVE End(i) \in Nat
  <2>1. MemMap[i] \in [base : Nat, length : Nat, usable : BOOLEAN]
    BY MapAssumption, SeqElement
  <2>2. MemMap[i].base \in Nat /\ MemMap[i].length \in Nat
    BY <2>1
  <2> QED
    BY <2>2 DEF End
<1>3. f \in [1 .. n -> Nat] /\ \A i \in 1 .. n : f[i] = End(i)
  BY <1>2
<1> HIDE DEF n, f
<1>4. PICK b \in Nat : \A i \in 1 .. n : f[i] <= b
  BY <1>1, <1>3, Bounded
<1>5. S \subseteq Nat /\ S # {} /\ \A x \in S : x <= b
  BY <1>1, <1>2, <1>3, <1>4
<1>6. \E x \in S : \A y \in S : x >= y
  BY <1>5, GreatestNat
<1>7. highest_usable = CHOOSE x \in S : \A y \in S : x >= y
  BY DEF highest_usable, Max
<1>8. highest_usable \in S /\ \A y \in S : highest_usable >= y
  BY <1>6, <1>7
<1>9. highest_usable \in Nat /\ \A i \in Usable : End(i) \in Nat /\ End(i) <= highest_usable
  BY <1>1, <1>2, <1>5, <1>8
<1>10. max_index \in Nat
  BY <1>9, PageAssumption DEF max_index
<1> QED
  BY <1>8, <1>9, <1>10

(* A scan for one frame finds one if there is one.                         *)
LEMMA ScanFindsOne ==
  ASSUME NEW b \in [Frames -> BOOLEAN], FreeIn(b) # {}
  PROVE  IndexStart(b, 1) # {}
<1> DEFINE F == FreeIn(b)
<1>1. F \subseteq Nat /\ F \subseteq Frames
  BY FramesNat DEF FreeIn
<1>2. IsFiniteSet(Frames)
  BY HighestFacts, FS_Interval DEF Frames
<1>3. IsFiniteSet(F) /\ Cardinality(F) \in Nat /\ Cardinality(F) # 0
  BY <1>1, <1>2, FS_Subset, FS_CardinalityType, FS_EmptySet
<1>4. PICK x \in F : \A y \in F : x <= y
  BY <1>1, LeastNat
<1>5. {g \in F : g <= x} = {x}
  BY <1>1, <1>4
<1>6. Cardinality({g \in F : g <= x}) = 1
  BY <1>5, FS_Singleton
<1>7. \E f \in F : Cardinality({g \in F : g <= f}) = 1
  BY <1>6
<1>8. LoopEnd(b, 1) = CHOOSE f \in F : Cardinality({g \in F : g <= f}) = 1
  BY <1>3, SMTT(30) DEF LoopEnd
<1> DEFINE e == LoopEnd(b, 1)
<1>9. e \in F /\ Cardinality({g \in F : g <= e}) = 1
  BY <1>7, <1>8
<1> HIDE DEF e
<1>10. IsFiniteSet({g \in F : g <= e})
  BY <1>3, FS_Subset
<1>11. PICK z : {g \in F : g <= e} = {z}
  BY <1>9, <1>10, FS_Singleton
<1>12. e \in Nat /\ e \in {g \in F : g <= e}
  BY <1>1, <1>9
<1>13. \A g \in F : g <= e => g = e
  BY <1>11, <1>12
<1>14. e - 1 \notin F /\ e .. e \subseteq F
  BY <1>9, <1>12, <1>13
<1>15. e \in IndexStart(b, 1)
  BY <1>9, <1>12, <1>14 DEF IndexStart, e
<1> QED
  BY <1>15
-----------------------------------------------------------------------------
(* A null pointer means that memory is exhausted, for every run length the *)
(* other callers ask for.                                                  *)

(* What a call for one frame knows of the bitmap while it holds the lock.  *)
Known(t) ==
  /\ pc[t] = "lock_alloc" => tries[t] = 0
  /\ pc[t] = "mark" /\ found[t] => base[t] \in FreeIn(bitmap)
  /\ pc[t] = "mark" /\ ~found[t] => base[t] = 0
  /\ pc[t] = "mark" /\ ~found[t] /\ count[t] = 1 => FreeIn(bitmap) = {}
  /\ pc[t] \in {"scan", "mark"} /\ tries[t] = 1 /\ count[t] = 1 => 0 \notin FreeIn(bitmap)
  /\ pc[t] = "unlock_alloc" /\ base[t] = 0 /\ count[t] = 1 => FreeIn(bitmap) = {}

KnownInv == TypeInv /\ Locked /\ \A t \in Threads : Known(t)

LEMMA InitKnown == Init => KnownInv
<1> SUFFICES ASSUME Init PROVE KnownInv
  OBVIOUS
<1>1. TypeInv
  BY InitTypeInv
<1>2. \A t \in Threads : pc[t] = "out" /\ owner # t
  BY NoneAssumption DEF Init
<1> QED
  BY <1>1, <1>2 DEF KnownInv, Locked, Known

LEMMA NextKnown == KnownInv /\ [Next]_vars => KnownInv'
<1> SUFFICES ASSUME KnownInv, [Next]_vars PROVE KnownInv'
  OBVIOUS
<1>0. TypeInv /\ TypeOK /\ Locked /\ \A t \in Threads : Known(t)
  BY DEF KnownInv, TypeInv
<1>1. TypeInv' /\ Locked'
  BY <1>0, NextTypeInv, NextLocked
<1>2. /\ bitmap \in [Frames -> BOOLEAN] /\ pc \in [Threads -> Locations] /\ count \in [Threads -> Nat]
      /\ base \in [Threads -> Nat] /\ found \in [Threads -> BOOLEAN] /\ tries \in [Threads -> 0 .. 2]
  BY <1>0 DEF TypeOK
<1> USE <1>0, <1>2 DEF Goto
<1>a. ASSUME NEW s \in Threads, bitmap' = bitmap, pc'[s] = pc[s], found'[s] = found[s],
             base'[s] = base[s], count'[s] = count[s], tries'[s] = tries[s]
      PROVE  Known(s)'
  BY <1>a DEF Known
<1>b. ASSUME NEW s \in Threads, pc'[s] \notin {"scan", "mark", "unlock_alloc"},
             pc'[s] = "lock_alloc" => tries'[s] = 0
      PROVE  Known(s)'
  BY <1>b DEF Known
<1>c. ASSUME NEW t \in Threads, \A s \in Threads \ {t} : Known(s)', Known(t)' PROVE KnownInv'
  BY <1>1, <1>c DEF KnownInv
<1>3. ASSUME NEW t \in Threads, NEW n \in Counts, CallAlloc(t, n) PROVE KnownInv'
  <2>1. \A s \in Threads \ {t} : Known(s)'
    BY <1>3, <1>a DEF CallAlloc
  <2>2. pc'[t] = "lock_alloc" /\ tries'[t] = 0
    BY <1>3 DEF CallAlloc
  <2> QED
    BY <1>b, <1>c, <2>1, <2>2
<1>4. ASSUME NEW t \in Threads, NEW r \in held[t], CallFree(t, r[1], r[2]) PROVE KnownInv'
  <2>1. \A s \in Threads \ {t} : Known(s)'
    BY <1>4, <1>a DEF CallFree
  <2>2. pc'[t] = "lock_free"
    BY <1>4 DEF CallFree
  <2> QED
    BY <1>b, <1>c, <2>1, <2>2
<1>5. ASSUME NEW t \in Threads, Lock(t) PROVE KnownInv'
  <2>1. \A s \in Threads \ {t} : Known(s)'
    BY <1>5, <1>a DEF Lock
  <2>2. Known(t)'
    <3>1. CASE pc[t] = "lock_alloc"
      BY <1>5, <3>1 DEF Lock, Known
    <3>2. CASE pc[t] = "lock_free"
      BY <1>5, <3>2 DEF Lock, Known
    <3> QED
      BY <1>5, <3>1, <3>2 DEF Lock
  <2> QED
    BY <1>c, <2>1, <2>2
<1>6. ASSUME NEW t \in Threads, Scan(t) PROVE KnownInv'
  <2>1. \A s \in Threads \ {t} : Known(s)'
    BY <1>6, <1>a DEF Scan
  <2>2. pc'[t] = "mark" /\ bitmap' = bitmap /\ count' = count /\ tries' = tries /\ pc[t] = "scan"
    BY <1>6 DEF Scan
  <2>3. /\ found'[t] <=> IndexStart(bitmap, count[t]) # {}
        /\ found'[t] => base'[t] \in IndexStart(bitmap, count[t])
        /\ ~found'[t] => base'[t] = 0
    BY <1>6 DEF Scan
  <2>4. found'[t] => base'[t] \in FreeIn(bitmap)
    BY <2>3, ScanFindsFree
  <2>5. ~found'[t] /\ count[t] = 1 => FreeIn(bitmap) = {}
    BY <2>3, ScanFindsOne
  <2>6. Known(t)'
    BY <2>2, <2>3, <2>4, <2>5 DEF Known
  <2> QED
    BY <1>c, <2>1, <2>6
<1>7. ASSUME NEW t \in Threads, Mark(t) PROVE KnownInv'
  <2>1. \A s \in Threads \ {t} : Known(s)'
    <3>1. \A s \in Threads \ {t} : /\ pc'[s] \notin {"scan", "mark", "unlock_alloc"}
                                   /\ pc'[s] = pc[s] /\ tries'[s] = tries[s]
      BY <1>7 DEF Mark, Locked
    <3>2. \A s \in Threads \ {t} : pc'[s] = "lock_alloc" => tries'[s] = 0
      BY <3>1 DEF Known
    <3> QED
      BY <1>b, <3>1, <3>2
  <2>2. /\ pc[t] = "mark" /\ tries'[t] = tries[t] + 1 /\ base' = base /\ count' = count
        /\ pc'[t] = IF base[t] = 0 /\ tries[t] = 0 THEN "scan" ELSE "unlock_alloc"
    BY <1>7 DEF Mark
  <2>3. tries[t] \in {0, 1}
    BY <2>2 DEF TypeInv, Retry
  <2>4. ~found[t] => bitmap' = bitmap
    BY <1>7 DEF Mark, MarkRange
  <2>5. count[t] = 1 /\ found[t] /\ base[t] = 0 => 0 \notin FreeIn(bitmap')
    <3> SUFFICES ASSUME count[t] = 1, found[t], base[t] = 0 PROVE 0 \notin FreeIn(bitmap')
      OBVIOUS
    <3>1. FrameSpan(base[t] * PAGESIZE, (base[t] + count[t]) * PAGESIZE) = {0}
      BY OneFrameSpan
    <3> QED
      BY <1>7, <3>1 DEF Mark, MarkRange, bitmap_set_range, FreeIn
  <2>6. Known(t)'
    <3>1. CASE pc'[t] = "scan"
      <4>1. count'[t] = 1 => 0 \notin FreeIn(bitmap')
        BY <2>2, <2>4, <2>5, <3>1 DEF Known
      <4> QED
        BY <3>1, <4>1 DEF Known
    <3>2. CASE pc'[t] = "unlock_alloc"
      <4>1. base'[t] = 0 /\ count'[t] = 1 => FreeIn(bitmap') = {}
        BY <2>2, <2>3, <2>4, <3>2 DEF Known
      <4> QED
        BY <3>2, <4>1 DEF Known
    <3> QED
      BY <2>2, <3>1, <3>2
  <2> QED
    BY <1>c, <2>1, <2>6
<1>8. ASSUME NEW t \in Threads, ReturnAlloc(t) PROVE KnownInv'
  <2>1. \A s \in Threads \ {t} : Known(s)'
    BY <1>8, <1>a DEF ReturnAlloc
  <2>2. pc'[t] = "out"
    BY <1>8 DEF ReturnAlloc
  <2> QED
    BY <1>b, <1>c, <2>1, <2>2
<1>9. ASSUME NEW t \in Threads, Clear(t) PROVE KnownInv'
  <2>1. \A s \in Threads : pc'[s] \notin {"scan", "mark", "unlock_alloc"}
    BY <1>9 DEF Clear, ClearRange, Locked
  <2>2. \A s \in Threads : pc'[s] = "lock_alloc" => tries'[s] = 0
    BY <1>9 DEF Clear, ClearRange, Known
  <2> QED
    BY <1>b, <1>c, <2>1, <2>2
<1>10. ASSUME NEW t \in Threads, ReturnFree(t) PROVE KnownInv'
  <2>1. \A s \in Threads \ {t} : Known(s)'
    BY <1>10, <1>a DEF ReturnFree
  <2>2. pc'[t] = "out"
    BY <1>10 DEF ReturnFree
  <2> QED
    BY <1>b, <1>c, <2>1, <2>2
<1>11. CASE UNCHANGED vars
  BY <1>1, <1>11, <1>a DEF vars, KnownInv
<1> QED
  BY <1>3, <1>4, <1>5, <1>6, <1>7, <1>8, <1>9, <1>10, <1>11 DEF Next, Step

(* NullIsExhausted: vm_phys_alloc(1) returns a null pointer only when no   *)
(* frame is free, for any memory map, page size and number of threads and  *)
(* whatever lengths the other calls ask for: the one retry is enough for   *)
(* the frame 0 that the first try took and then held for a failure.        *)
THEOREM NullIsExhausted == Spec => []NullMeansExhausted
<1>1. KnownInv => NullMeansExhausted
  BY DEF KnownInv, Known, NullMeansExhausted
<1> QED
  BY InitKnown, NextKnown, <1>1, PTL DEF Spec
-----------------------------------------------------------------------------
(* The effects of a step on the free frames and the owners, when every     *)
(* caller asks for one frame.                                              *)

Quiet == FreeIn(bitmap') = FreeIn(bitmap) /\ \A s \in Threads : Owned(s)' = Owned(s)

Took(t, f) == /\ f \in FreeIn(bitmap) /\ f # 0 /\ FreeIn(bitmap') = FreeIn(bitmap) \ {f}
              /\ Owned(t)' = Owned(t) \cup {<<f, 1>>}
              /\ \A s \in Threads \ {t} : Owned(s)' = Owned(s)

LostZero == /\ 0 \in FreeIn(bitmap) /\ FreeIn(bitmap') = FreeIn(bitmap) \ {0}
            /\ \A s \in Threads : Owned(s)' = Owned(s)

Gave(t, f) == /\ <<f, 1>> \in Owned(t) /\ FreeIn(bitmap') = FreeIn(bitmap) \cup ({f} \cap Frames)
              /\ Owned(t)' = Owned(t) \ {<<f, 1>>}
              /\ \A s \in Threads \ {t} : Owned(s)' = Owned(s)

Effect == \/ Quiet \/ LostZero
          \/ \E t \in Threads, f \in Nat : Took(t, f) \/ Gave(t, f)

LEMMA NextEffect ==
  ASSUME Counts = {1}, SingleInv, [Next]_vars PROVE Effect
<1>0. TypeOK /\ Locked /\ Singles /\ ScanFresh /\ OwnedMarked /\ OneOwner
  BY DEF SingleInv, TypeInv
<1> USE <1>0 DEF TypeOK, Goto
<1>a. ASSUME bitmap' = bitmap, \A s \in Threads : Owned(s)' = Owned(s) PROVE Effect
  BY <1>a DEF Effect, Quiet
<1>1. ASSUME NEW t \in Threads, NEW n \in Counts, CallAlloc(t, n) PROVE Effect
  <2>1. \A s \in Threads : InTransit(s)' = InTransit(s)
    BY <1>1 DEF CallAlloc, InTransit
  <2> QED
    BY <1>1, <2>1, <1>a DEF CallAlloc, Owned
<1>2. ASSUME NEW t \in Threads, NEW r \in held[t], CallFree(t, r[1], r[2]) PROVE Effect
  <2>1. r = <<r[1], r[2]>>
    OBVIOUS
  <2>2. \A s \in Threads \ {t} : held'[s] = held[s] /\ InTransit(s)' = InTransit(s)
    BY <1>2 DEF CallFree, InTransit
  <2>3. held'[t] = held[t] \ {r} /\ InTransit(t)' = {r} /\ InTransit(t) = {}
    BY <1>2, <2>1 DEF CallFree, InTransit
  <2> QED
    BY <1>2, <2>2, <2>3, <1>a DEF CallFree, Owned
<1>3. ASSUME NEW t \in Threads, Lock(t) PROVE Effect
  <2>1. \A s \in Threads : InTransit(s)' = InTransit(s)
    BY <1>3 DEF Lock, InTransit
  <2> QED
    BY <1>3, <2>1, <1>a DEF Lock, Owned
<1>4. ASSUME NEW t \in Threads, Scan(t) PROVE Effect
  <2>1. \A s \in Threads : InTransit(s)' = InTransit(s)
    BY <1>4 DEF Scan, InTransit
  <2> QED
    BY <1>4, <2>1, <1>a DEF Scan, Owned
<1>5. ASSUME NEW t \in Threads, Mark(t) PROVE Effect
  <2>1. count[t] = 1 /\ base[t] \in Nat /\ held' = held
    BY <1>5 DEF Mark, Singles
  <2>2. bitmap' = IF found[t] THEN [f \in Frames |-> IF f = base[t] THEN TRUE ELSE bitmap[f]]
                              ELSE bitmap
    BY <1>5, <2>1, OneFrameSpan DEF Mark, MarkRange, bitmap_set_range
  <2>3. \A s \in Threads \ {t} : Owned(s)' = Owned(s)
    BY <1>5 DEF Mark, Owned, InTransit
  <2>4. InTransit(t) = {}
    BY <1>5 DEF Mark, InTransit
  <2>5. found[t] => base[t] \in FreeIn(bitmap) /\ FreeIn(bitmap') = FreeIn(bitmap) \ {base[t]}
    BY <1>5, <2>2 DEF Mark, ScanFresh, FreeIn
  <2>6. CASE ~found[t]
    <3>1. base[t] = 0 /\ bitmap' = bitmap
      BY <1>5, <2>2, <2>6 DEF Mark, ScanFresh
    <3>2. InTransit(t)' = {}
      BY <1>5, <3>1 DEF Mark, InTransit
    <3> QED
      BY <1>a, <2>1, <2>3, <2>4, <3>1, <3>2 DEF Owned
  <2>7. CASE found[t] /\ base[t] = 0
    <3>1. InTransit(t)' = {}
      BY <1>5, <2>7 DEF Mark, InTransit
    <3>2. \A s \in Threads : Owned(s)' = Owned(s)
      BY <2>1, <2>3, <2>4, <3>1 DEF Owned
    <3> QED
      BY <2>5, <2>7, <3>2 DEF Effect, LostZero
  <2>8. CASE found[t] /\ base[t] # 0
    <3>1. InTransit(t)' = {<<base[t], 1>>}
      BY <1>5, <2>1, <2>8 DEF Mark, InTransit
    <3>2. Owned(t)' = Owned(t) \cup {<<base[t], 1>>}
      BY <2>1, <2>4, <3>1 DEF Owned
    <3>3. Took(t, base[t])
      BY <2>3, <2>5, <2>8, <3>2 DEF Took
    <3> QED
      BY <2>1, <3>3 DEF Effect
  <2> QED
    BY <2>6, <2>7, <2>8
<1>6. ASSUME NEW t \in Threads, ReturnAlloc(t) PROVE Effect
  <2>1. \A s \in Threads \ {t} : held'[s] = held[s] /\ InTransit(s)' = InTransit(s)
    BY <1>6 DEF ReturnAlloc, InTransit
  <2>2. InTransit(t)' = {} /\ held'[t] = Owned(t)
    BY <1>6 DEF ReturnAlloc, InTransit, Owned
  <2> QED
    BY <1>6, <2>1, <2>2, <1>a DEF ReturnAlloc, Owned
<1>7. ASSUME NEW t \in Threads, Clear(t) PROVE Effect
  <2>1. count[t] = 1 /\ base[t] \in Nat /\ held' = held
    BY <1>7 DEF Clear, ClearRange, Singles
  <2>2. bitmap' = [f \in Frames |-> IF f = base[t] THEN FALSE ELSE bitmap[f]]
    BY <1>7, <2>1, OneFrameSpan DEF Clear, ClearRange, bitmap_set_range
  <2>3. InTransit(t) = {<<base[t], 1>>} /\ InTransit(t)' = {}
    BY <1>7, <2>1 DEF Clear, ClearRange, InTransit
  <2>4. \A s \in Threads \ {t} : Owned(s)' = Owned(s)
    BY <1>7 DEF Clear, ClearRange, Owned, InTransit
  <2>5. <<base[t], 1>> \in Owned(t) /\ Owned(t)' = Owned(t) \ {<<base[t], 1>>}
    BY <2>1, <2>3 DEF Owned, OneOwner
  <2>6. FreeIn(bitmap') = FreeIn(bitmap) \cup ({base[t]} \cap Frames)
    BY <2>2 DEF FreeIn
  <2>7. Gave(t, base[t])
    BY <2>4, <2>5, <2>6 DEF Gave
  <2> QED
    BY <2>1, <2>7 DEF Effect
<1>8. ASSUME NEW t \in Threads, ReturnFree(t) PROVE Effect
  <2>1. \A s \in Threads : InTransit(s)' = InTransit(s)
    BY <1>8 DEF ReturnFree, InTransit
  <2> QED
    BY <1>8, <2>1, <1>a DEF ReturnFree, Owned
<1>9. CASE UNCHANGED vars
  BY <1>9, <1>a DEF vars, Owned, InTransit
<1> QED
  BY <1>1, <1>2, <1>3, <1>4, <1>5, <1>6, <1>7, <1>8, <1>9 DEF Next, Step

(* In single frames.                                                       *)
OwnedBy(t) == {r[1] : r \in Owned(t)}

LEMMA SingleFrames ==
  ASSUME SingleInv, NEW t \in Threads
  PROVE  FramesOf(t) = OwnedBy(t) /\ \A r \in Owned(t) : r \in Nat \X Nat /\ r = <<r[1], 1>>
<1>0. TypeOK /\ Singles
  BY DEF SingleInv, TypeInv
<1>1. \A r \in Owned(t) : r \in Nat \X Nat /\ r[2] = 1
  BY <1>0 DEF Owned, InTransit, Singles, TypeOK
<1>2. \A r \in Owned(t) : Run(r[1], r[2]) = {r[1]}
  BY <1>1 DEF Run
<1>3. FramesOf(t) = OwnedBy(t)
  BY <1>2 DEF FramesOf, OwnedBy
<1>4. \A r \in Owned(t) : r = <<r[1], 1>>
  BY <1>1
<1> QED
  BY <1>1, <1>3, <1>4

LEMMA EffectFrames ==
  ASSUME Counts = {1}, SingleInv, [Next]_vars
  PROVE  \/ /\ FreeIn(bitmap') = FreeIn(bitmap)
            /\ \A s \in Threads : OwnedBy(s)' = OwnedBy(s)
         \/ /\ 0 \in FreeIn(bitmap) /\ FreeIn(bitmap') = FreeIn(bitmap) \ {0}
            /\ \A s \in Threads : OwnedBy(s)' = OwnedBy(s)
         \/ \E t \in Threads, f \in Nat \ {0} :
              /\ f \in FreeIn(bitmap) /\ FreeIn(bitmap') = FreeIn(bitmap) \ {f}
              /\ OwnedBy(t)' = OwnedBy(t) \cup {f}
              /\ \A s \in Threads \ {t} : OwnedBy(s)' = OwnedBy(s)
         \/ \E t \in Threads, f \in Nat :
              /\ f \in OwnedBy(t) /\ FreeIn(bitmap') = FreeIn(bitmap) \cup ({f} \cap Frames)
              /\ OwnedBy(t)' = OwnedBy(t) \ {f}
              /\ \A s \in Threads \ {t} : OwnedBy(s)' = OwnedBy(s)
<1>1. Effect
  BY NextEffect
<1>2. CASE Quiet
  BY <1>2 DEF Quiet, OwnedBy
<1>3. CASE LostZero
  BY <1>3 DEF LostZero, OwnedBy
<1>4. ASSUME NEW t \in Threads, NEW f \in Nat, Took(t, f)
      PROVE  /\ f # 0 /\ f \in FreeIn(bitmap) /\ FreeIn(bitmap') = FreeIn(bitmap) \ {f}
             /\ OwnedBy(t)' = OwnedBy(t) \cup {f}
             /\ \A s \in Threads \ {t} : OwnedBy(s)' = OwnedBy(s)
  <2>1. OwnedBy(t)' = OwnedBy(t) \cup {f}
    <3>1. PICK old, new : old = Owned(t) /\ new = Owned(t)'
      OBVIOUS
    <3>2. new = old \cup {<<f, 1>>}
      BY <1>4, <3>1 DEF Took
    <3>3. <<f, 1>>[1] = f
      OBVIOUS
    <3>4. {r[1] : r \in new} = {r[1] : r \in old} \cup {f}
      BY <3>2, <3>3, Zenon
    <3> QED
      BY <3>1, <3>4 DEF OwnedBy
  <2> QED
    BY <1>4, <2>1 DEF Took, OwnedBy
<1>5. ASSUME NEW t \in Threads, NEW f \in Nat, Gave(t, f)
      PROVE  /\ f \in OwnedBy(t) /\ FreeIn(bitmap') = FreeIn(bitmap) \cup ({f} \cap Frames)
             /\ OwnedBy(t)' = OwnedBy(t) \ {f}
             /\ \A s \in Threads \ {t} : OwnedBy(s)' = OwnedBy(s)
  <2>1. \A r \in Owned(t) : r = <<r[1], 1>>
    BY SingleFrames
  <2>2. <<f, 1>> \in Owned(t) /\ Owned(t)' = Owned(t) \ {<<f, 1>>}
    BY <1>5 DEF Gave
  <2>3. f \in OwnedBy(t)
    BY <2>2 DEF OwnedBy
  <2>4. \A r \in Owned(t)' : r \in Owned(t) /\ r[1] # f
    BY <2>1, <2>2
  <2>5. \A r \in Owned(t) : r[1] # f => r \in Owned(t)'
    BY <2>1, <2>2
  <2>6. OwnedBy(t)' = OwnedBy(t) \ {f}
    BY <2>4, <2>5 DEF OwnedBy
  <2> QED
    BY <1>5, <2>3, <2>6 DEF Gave, OwnedBy
<1> QED
  BY <1>1, <1>2, <1>3, <1>4, <1>5 DEF Effect

(* Owned frames have a bit.                                                *)
FrameInv == SingleInv /\ \A t \in Threads : OwnedBy(t) \subseteq Frames

LEMMA InitFrame == Init => FrameInv /\ \A t \in Threads : OwnedBy(t) = {}
<1> SUFFICES ASSUME Init PROVE FrameInv /\ \A t \in Threads : OwnedBy(t) = {}
  OBVIOUS
<1>1. \A t \in Threads : Owned(t) = {}
  BY DEF Init, Owned, InTransit
<1>2. \A t \in Threads : OwnedBy(t) = {}
  BY <1>1 DEF OwnedBy
<1> QED
  BY <1>2, InitSingleInv DEF FrameInv

LEMMA NextFrame == ASSUME Counts = {1} PROVE FrameInv /\ [Next]_vars => FrameInv'
<1> SUFFICES ASSUME FrameInv, [Next]_vars PROVE FrameInv'
  OBVIOUS
<1>1. SingleInv /\ \A t \in Threads : OwnedBy(t) \subseteq Frames
  BY DEF FrameInv
<1>2. SingleInv'
  BY <1>1, NextSingleInv
<1>3. FreeIn(bitmap) \subseteq Frames
  BY <1>1 DEF SingleInv, TypeInv, TypeOK, FreeIn
<1>4. \A t \in Threads : OwnedBy(t)' \subseteq Frames
  BY <1>1, <1>3, EffectFrames
<1> QED
  BY <1>2, <1>4 DEF FrameInv

(* AllocRefined: for single frames the bitmap under its lock implements    *)
(* the abstract frame allocator, for any memory map, page size and number  *)
(* of threads: Mark is the allocation (or the loss of frame 0), Clear the  *)
(* release, and no other step of vm_phys_alloc or vm_phys_free is visible. *)
THEOREM AllocRefined == ASSUME Counts = {1} PROVE Spec => AllocImplemented
<1>1. Init => Abs!Init
  <2> SUFFICES ASSUME Init PROVE Abs!Init
    OBVIOUS
  <2>1. \A t \in Threads : FramesOf(t) = {}
    BY InitFrame, SingleFrames DEF FrameInv
  <2> QED
    BY <2>1 DEF Init, Abs!Init
<1>2. FrameInv /\ FrameInv' /\ [Next]_vars => [Abs!Next]_(Abs!vars)
  <2> SUFFICES ASSUME FrameInv, FrameInv', [Next]_vars PROVE [Abs!Next]_(Abs!vars)
    OBVIOUS
  <2>1. \A t \in Threads : FramesOf(t) = OwnedBy(t) /\ FramesOf(t)' = OwnedBy(t)'
    <3>1. \A t \in Threads : FramesOf(t) = OwnedBy(t)
      BY SingleFrames DEF FrameInv
    <3>2. SingleInv'
      BY DEF FrameInv
    <3>3. \A t \in Threads : FramesOf(t)' = OwnedBy(t)'
      <4>1. TypeOK' /\ Singles'
        BY <3>2 DEF SingleInv, TypeInv
      <4>2. ASSUME NEW t \in Threads PROVE \A r \in Owned(t)' : r \in Nat \X Nat /\ r[2] = 1
        BY <4>1 DEF Owned, InTransit, Singles, TypeOK
      <4>3. ASSUME NEW t \in Threads PROVE \A r \in Owned(t)' : Run(r[1], r[2]) = {r[1]}
        BY <4>2 DEF Run
      <4> QED
        BY <4>3 DEF FramesOf, OwnedBy
    <3> QED
      BY <3>1, <3>3
  <2> DEFINE w == [t \in Threads |-> FramesOf(t)]
             v == [t \in Threads |-> FramesOf(t)']
  <2>2. \A t \in Threads : w[t] = OwnedBy(t) /\ v[t] = OwnedBy(t)'
    BY <2>1
  <2>3. ASSUME \A s \in Threads : OwnedBy(s)' = OwnedBy(s),
               \/ FreeIn(bitmap') = FreeIn(bitmap)
               \/ 0 \in FreeIn(bitmap) /\ FreeIn(bitmap') = FreeIn(bitmap) \ {0}
        PROVE  [Abs!Next]_(Abs!vars)
    <3>1. v = w
      BY <2>2, <2>3
    <3>2. CASE FreeIn(bitmap') = FreeIn(bitmap)
      BY <3>1, <3>2 DEF Abs!vars
    <3>3. CASE 0 \in FreeIn(bitmap) /\ FreeIn(bitmap') = FreeIn(bitmap) \ {0}
      BY <3>1, <3>3 DEF Abs!Next, Abs!DropFrameZero
    <3> QED
      BY <2>3, <3>2, <3>3
  <2>4. ASSUME NEW t \in Threads, NEW f \in Nat \ {0},
               f \in FreeIn(bitmap), FreeIn(bitmap') = FreeIn(bitmap) \ {f},
               OwnedBy(t)' = OwnedBy(t) \cup {f},
               \A s \in Threads \ {t} : OwnedBy(s)' = OwnedBy(s)
        PROVE  Abs!Next
    <3>1. v = [w EXCEPT ![t] = @ \cup {f}]
      BY <2>2, <2>4
    <3>2. Abs!Alloc(t)
      BY <2>4, <3>1 DEF Abs!Alloc
    <3> QED
      BY <3>2 DEF Abs!Next
  <2>5. ASSUME NEW t \in Threads, NEW f \in Nat,
               f \in OwnedBy(t), FreeIn(bitmap') = FreeIn(bitmap) \cup ({f} \cap Frames),
               OwnedBy(t)' = OwnedBy(t) \ {f},
               \A s \in Threads \ {t} : OwnedBy(s)' = OwnedBy(s)
        PROVE  Abs!Next
    <3>1. v = [w EXCEPT ![t] = @ \ {f}]
      BY <2>2, <2>5
    <3>2. f \in w[t] /\ FreeIn(bitmap') = FreeIn(bitmap) \cup {f}
      BY <2>2, <2>5 DEF FrameInv
    <3>3. Abs!Free(t)
      BY <3>1, <3>2 DEF Abs!Free
    <3> QED
      BY <3>3 DEF Abs!Next
  <2> QED
    BY <2>3, <2>4, <2>5, EffectFrames DEF FrameInv
<1> QED
  BY InitFrame, NextFrame, <1>1, <1>2, PTL DEF Spec, AllocImplemented, Abs!Spec
-----------------------------------------------------------------------------
(* Whole pages.  The boot loader aligns the usable entries to pages and    *)
(* keeps them apart.                                                       *)

Aligned == \A i \in Usable : MemMap[i].base % PAGESIZE = 0 /\ MemMap[i].length % PAGESIZE = 0

Apart == \A i, j \in Usable : i # j => End(i) <= MemMap[j].base \/ End(j) <= MemMap[i].base

LEMMA Multiple ==
  ASSUME NEW x \in Nat, NEW p \in Nat, p > 0, x % p = 0 PROVE \E k \in Nat : x = k * p
<1>1. x \div p \in Nat
  OBVIOUS
<1>2. x = p * (x \div p) + (x % p)
  OBVIOUS
<1>3. PICK k \in Nat : k = x \div p
  BY <1>1
<1>4. x = p * k
  BY <1>2, <1>3
<1> QED
  BY <1>4

LEMMA SumMultiple ==
  ASSUME NEW j \in Nat, NEW k \in Nat, NEW p \in Nat PROVE j * p + k * p = (j + k) * p
OBVIOUS

LEMMA Times == ASSUME NEW j \in Nat, NEW k \in Nat, NEW p \in Nat, p > 0
               PROVE  /\ j * p \in Nat /\ (j <= k <=> j * p <= k * p)
                      /\ (j < k <=> (j + 1) * p <= k * p)
<1>1. j * p \in Nat /\ k * p \in Nat
  OBVIOUS
<1>2. j <= k => j * p <= k * p
  OBVIOUS
<1>3. k < j => k * p < j * p
  OBVIOUS
<1>4. j + 1 <= k => (j + 1) * p <= k * p
  OBVIOUS
<1>5. k < j + 1 => k * p < (j + 1) * p
  OBVIOUS
<1>6. (j + 1) * p \in Nat
  OBVIOUS
<1> QED
  BY <1>1, <1>2, <1>3, <1>4, <1>5, <1>6

LEMMA WholeSpan ==
  ASSUME NEW j \in Nat, NEW k \in Nat
  PROVE  FrameSpan(j * PAGESIZE, k * PAGESIZE) = j .. k - 1
<1> DEFINE P == PAGESIZE
<1>1. P \in Nat /\ P > 0
  BY PageAssumption
<1> HIDE DEF P
<1>2. (j * P) \div P = j
  BY <1>1
<1>3. (k * P + P - 1) \div P = k
  BY <1>1
<1> QED
  BY <1>2, <1>3 DEF FrameSpan, P

LEMMA EntryFacts ==
  /\ bitmap_size \in Nat /\ BitmapEntry \in Usable /\ MemMap[BitmapEntry].length >= bitmap_size
  /\ \A i \in Usable : MemMap[i].base \in Nat /\ MemMap[i].length \in Nat /\ EntryStart(i) \in Nat
<1>1. bitmap_size \in Nat
  BY HighestFacts DEF bitmap_size
<1>2. ASSUME NEW i \in Usable PROVE MemMap[i].base \in Nat /\ MemMap[i].length \in Nat
  <2>1. i \in 1 .. Len(MemMap)
    BY MapAssumption DEF Usable
  <2>2. MemMap[i] \in [base : Nat, length : Nat, usable : BOOLEAN]
    BY <2>1, MapAssumption, SeqElement
  <2> QED
    BY <2>2
<1> DEFINE T == {i \in DOMAIN MemMap : Fits(i)}
<1>3. T \subseteq Nat /\ T # {}
  BY MapAssumption, BitmapFits
<1>4. PICK x \in T : \A y \in T : x <= y
  BY <1>3, LeastNat
<1>5. \A j \in 1 .. x - 1 : ~Fits(j)
  <2>1. x \in Nat
    BY <1>3
  <2>2. \A j \in 1 .. x - 1 : j \notin T
    BY <1>4, <2>1
  <2> QED
    BY <2>1, <2>2, MapAssumption DEF Fits, Usable
<1>6. BitmapEntry \in DOMAIN MemMap /\ Fits(BitmapEntry)
  BY <1>4, <1>5 DEF BitmapEntry
<1>7. BitmapEntry \in Usable /\ MemMap[BitmapEntry].length >= bitmap_size
  BY <1>6 DEF Fits
<1> QED
  BY <1>1, <1>2, <1>7 DEF EntryStart

LEMMA EntryPages ==
  ASSUME Aligned, NEW i \in Usable
  PROVE  \E j, k \in Nat : /\ MemMap[i].base = j * PAGESIZE /\ End(i) = k * PAGESIZE
                           /\ j <= k /\ k <= max_index
<1>1. PAGESIZE \in Nat /\ PAGESIZE > 0
  BY PageAssumption
<1>2. ASSUME NEW e \in Usable
      PROVE  \E j, k \in Nat : MemMap[e].base = j * PAGESIZE /\ End(e) = k * PAGESIZE /\ j <= k
  <2>1. PICK j \in Nat : MemMap[e].base = j * PAGESIZE
    BY <1>1, EntryFacts, Multiple DEF Aligned
  <2>2. PICK n \in Nat : MemMap[e].length = n * PAGESIZE
    BY <1>1, EntryFacts, Multiple DEF Aligned
  <2>3. End(e) = (j + n) * PAGESIZE
    BY <1>1, <2>1, <2>2, SumMultiple DEF End
  <2>4. j + n \in Nat /\ j <= j + n
    OBVIOUS
  <2> QED
    BY <2>1, <2>3, <2>4
<1>3. PICK h \in Nat : highest_usable = h * PAGESIZE
  <2>1. CASE highest_usable = 0
    BY <1>1, <2>1
  <2>2. CASE highest_usable # 0
    BY <1>2, <2>2, HighestFacts
  <2> QED
    BY <2>1, <2>2
<1>4. max_index = h
  <2> DEFINE P == PAGESIZE
  <2> HIDE DEF P
  <2>1. P \in Nat /\ P > 0
    BY <1>1 DEF P
  <2>2. (h * P) \div P = h
    BY <2>1
  <2> QED
    BY <1>3, <2>2 DEF max_index, P
<1>5. PICK j \in Nat, k \in Nat : MemMap[i].base = j * PAGESIZE /\ End(i) = k * PAGESIZE /\ j <= k
  BY <1>2
<1>6. k <= h
  BY <1>1, <1>3, <1>5, Times, HighestFacts
<1> QED
  BY <1>4, <1>5, <1>6

LEMMA PopulatedFrames == ASSUME Aligned PROVE Populated \subseteq Frames
<1> SUFFICES ASSUME NEW i \in Usable, NEW f \in FrameSpan(EntryStart(i), End(i)) PROVE f \in Frames
  BY DEF Populated
<1>1. PICK k \in Nat : End(i) = k * PAGESIZE /\ k <= max_index
  BY EntryPages
<1> DEFINE P == PAGESIZE
<1>2. P \in Nat /\ P > 0
  BY PageAssumption
<1> HIDE DEF P
<1>3. (k * P + P - 1) \div P = k
  BY <1>2
<1>4. EntryStart(i) \in Nat
  BY EntryFacts
<1>5. EntryStart(i) \div P \in Nat
  BY <1>2, <1>4
<1>6. f \in (EntryStart(i) \div P) .. k - 1
  BY <1>1, <1>3 DEF FrameSpan, P
<1> QED
  BY <1>1, <1>5, <1>6, HighestFacts DEF Frames

LostInv == /\ FrameInv
           /\ \A f \in Populated \ {0} : f \in FreeIn(bitmap) \/ \E t \in Threads : f \in OwnedBy(t)

LEMMA NextLost == ASSUME Counts = {1} PROVE LostInv /\ [Next]_vars => LostInv'
<1> SUFFICES ASSUME LostInv, [Next]_vars PROVE LostInv'
  OBVIOUS
<1>1. FrameInv /\ FrameInv' /\ SingleInv
  BY NextFrame DEF LostInv, FrameInv
<1>2. SUFFICES ASSUME NEW f \in Populated \ {0}
               PROVE  f \in FreeIn(bitmap') \/ \E t \in Threads : f \in OwnedBy(t)'
  BY <1>1 DEF LostInv
<1>3. f \in FreeIn(bitmap) \/ \E t \in Threads : f \in OwnedBy(t)
  BY DEF LostInv
<1>4. \A t \in Threads : OwnedBy(t) \subseteq Frames
  BY <1>1 DEF FrameInv
<1> QED
  BY <1>1, <1>3, <1>4, EffectFrames

(* FramesKept: as long as every caller asks for one frame, a frame that    *)
(* vm_fill_bitmap put in the pool is free or somebody's for ever, frame 0  *)
(* apart, for every memory map whose usable entries are whole pages, as    *)
(* the boot loader's are.                                                  *)
THEOREM FramesKept ==
  ASSUME Counts = {1}, Aligned
  PROVE  Spec => []NoFrameLost
<1>1. Init => LostInv
  <2> SUFFICES ASSUME Init PROVE LostInv
    OBVIOUS
  <2>1. PICK junk : bitmap = [f \in Frames |-> f \notin Populated /\ (f \in NoBit => junk[f])]
    BY DEF Init, InitialBitmaps
  <2>2. \A f \in Populated : f \in DOMAIN bitmap /\ ~bitmap[f]
    BY <2>1, PopulatedFrames
  <2> QED
    BY <2>2, InitFrame DEF LostInv, FreeIn
<1>2. LostInv => NoFrameLost
  BY SingleFrames DEF LostInv, FrameInv, NoFrameLost
<1> QED
  BY <1>1, <1>2, NextLost, PTL DEF Spec

(* A division splits into a whole number of pages and a rest.              *)
LEMMA Rest ==
  ASSUME NEW x \in Nat, NEW p \in Nat, p > 0
  PROVE  \E k, r \in Nat : x = k * p + r /\ r < p /\ r = x % p
<1>1. x \div p \in Nat /\ x % p \in Nat /\ x % p < p
  OBVIOUS
<1>2. x = p * (x \div p) + (x % p)
  OBVIOUS
<1>3. PICK k \in Nat, r \in Nat : k = x \div p /\ r = x % p
  BY <1>1
<1>4. x = p * k + r
  BY <1>2, <1>3
<1>5. x = k * p + r /\ r < p /\ r = x % p
  BY <1>1, <1>3, <1>4
<1> QED
  BY <1>5

(* The frames of a range that ends with a page, the page it begins in      *)
(* included.                                                               *)
LEMMA BrokenSpan ==
  ASSUME NEW j \in Nat, NEW k \in Nat, NEW r \in Nat, r < PAGESIZE
  PROVE  /\ FrameSpan(j * PAGESIZE + r, k * PAGESIZE) = j .. k - 1
         /\ (j * PAGESIZE + r) \div PAGESIZE = j
<1> DEFINE P == PAGESIZE
<1>1. P \in Nat /\ P > 0 /\ r < P
  BY PageAssumption
<1> HIDE DEF P
<1>2. (j * P + r) \div P = j
  BY <1>1
<1>3. (k * P + P - 1) \div P = k
  BY <1>1
<1> QED
  BY <1>2, <1>3 DEF FrameSpan, P

(* The last frame of a range, when it begins with a page.                  *)
LEMMA SpanEnd ==
  ASSUME NEW j \in Nat, NEW k \in Nat, NEW r \in Nat, r < PAGESIZE
  PROVE  /\ r = 0 => FrameSpan(j * PAGESIZE, k * PAGESIZE + r) = j .. k - 1
         /\ r > 0 => FrameSpan(j * PAGESIZE, k * PAGESIZE + r) = j .. k
<1> DEFINE P == PAGESIZE
<1>1. P \in Nat /\ P > 0 /\ r < P
  BY PageAssumption
<1> HIDE DEF P
<1>2. (j * P) \div P = j
  BY <1>1
<1>3. r = 0 => (k * P + r + P - 1) \div P = k
  BY <1>1
<1>4. r > 0 => (k * P + r + P - 1) \div P = k + 1
  <2>1. ASSUME r > 0 PROVE k * P + r + P - 1 = (k + 1) * P + (r - 1) /\ r - 1 \in 0 .. P - 1
    BY <1>1, <2>1
  <2>2. \A q \in 0 .. P - 1 : ((k + 1) * P + q) \div P = k + 1
    BY <1>1
  <2> QED
    BY <2>1, <2>2
<1> QED
  BY <1>2, <1>3, <1>4 DEF FrameSpan, P

(* Whatever the sizes, the frames of the pool are usable, the page the     *)
(* bitmap ends in and the frames without a bit apart.                      *)
LEMMA PoolUsable ==
  ASSUME Aligned, Apart
  PROVE  Populated \cup NoBit \subseteq UsableFrames \cup TailPage \cup NoBit
<1> DEFINE B == BitmapEntry
<1>1. PAGESIZE \in Nat /\ PAGESIZE > 0 /\ max_index \in Nat
  BY PageAssumption, HighestFacts
<1>3. PICK s \in Nat, r \in Nat :
        bitmap_size = s * PAGESIZE + r /\ r < PAGESIZE /\ r = bitmap_size % PAGESIZE
  BY <1>1, EntryFacts, Rest
<1>4. B \in Usable /\ MemMap[B].length >= bitmap_size
  BY EntryFacts
<1>5. PICK c \in Nat, e \in Nat : MemMap[B].base = c * PAGESIZE /\ End(B) = e * PAGESIZE
  BY <1>4, EntryPages
<1>6. MemMap[B].base + bitmap_size = (c + s) * PAGESIZE + r /\ c + s \in Nat
  <2>1. c * PAGESIZE + s * PAGESIZE = (c + s) * PAGESIZE
    BY <1>1, SumMultiple
  <2>2. c * PAGESIZE \in Nat /\ s * PAGESIZE \in Nat
    BY <1>1
  <2> QED
    BY <1>3, <1>5, <2>1, <2>2
<1>7. c + s <= e /\ (r > 0 => c + s < e)
  <2>1. (c + s) * PAGESIZE + r <= e * PAGESIZE
    BY <1>4, <1>5, <1>6, EntryFacts DEF End
  <2>2. (c + s) * PAGESIZE \in Nat /\ e * PAGESIZE \in Nat
    BY <1>1
  <2>3. (c + s) * PAGESIZE <= e * PAGESIZE
    BY <2>1, <2>2
  <2>4. c + s <= e
    BY <1>1, <1>6, <2>3, Times
  <2>5. c + s = e => r = 0
    BY <2>1, <2>2
  <2> QED
    BY <1>6, <2>4, <2>5
<1>8. /\ r = 0 => FrameSpan(bitmap_base, bitmap_base + bitmap_size) = c .. c + s - 1
      /\ r > 0 => FrameSpan(bitmap_base, bitmap_base + bitmap_size) = c .. c + s
      /\ r > 0 => TailPage = {c + s}
  BY <1>3, <1>5, <1>6, SpanEnd, BrokenSpan DEF bitmap_base, TailPage
<1>9. ASSUME NEW i \in Usable, NEW f \in FrameSpan(EntryStart(i), End(i))
      PROVE  f \in UsableFrames \cup TailPage
  <2>1. PICK j \in Nat, k \in Nat : /\ MemMap[i].base = j * PAGESIZE /\ End(i) = k * PAGESIZE
                                    /\ j <= k /\ k <= max_index
    BY EntryPages
  <2>2. ASSUME f \in Nat, j <= f, f < k,
               f \notin FrameSpan(bitmap_base, bitmap_base + bitmap_size)
        PROVE  f \in UsableFrames
    <3>1. f \in Frames
      BY <1>1, <2>1, <2>2 DEF Frames
    <3>2. j * PAGESIZE <= f * PAGESIZE /\ (f + 1) * PAGESIZE <= k * PAGESIZE
      BY <1>1, <2>2, Times
    <3> QED
      BY <2>1, <2>2, <3>1, <3>2 DEF UsableFrames
  <2>3. CASE i = B
    <3>1. EntryStart(i) = (c + s) * PAGESIZE + r
      BY <1>6, <2>3 DEF EntryStart
    <3>2. f \in c + s .. k - 1
      BY <1>3, <1>6, <2>1, <3>1, BrokenSpan
    <3>3. j <= c
      <4>1. j * PAGESIZE = c * PAGESIZE
        BY <1>5, <2>1, <2>3
      <4> QED
        BY <1>1, <4>1, Times
    <3>4. f \in Nat /\ j <= f /\ f < k
      BY <1>6, <3>2, <3>3
    <3>5. CASE f = c + s /\ r > 0
      BY <1>8, <3>5
    <3>6. CASE f > c + s \/ r = 0
      BY <1>3, <1>6, <1>8, <2>2, <3>2, <3>4, <3>6
    <3> QED
      BY <1>3, <1>6, <3>2, <3>5, <3>6
  <2>4. CASE i # B
    <3>1. EntryStart(i) = j * PAGESIZE
      BY <2>1, <2>4 DEF EntryStart
    <3>2. k <= c \/ e <= j
      <4>1. k * PAGESIZE <= c * PAGESIZE \/ e * PAGESIZE <= j * PAGESIZE
        BY <1>4, <1>5, <2>1, <2>4 DEF Apart
      <4> QED
        BY <1>1, <4>1, Times
    <3>3. f \in j .. k - 1
      BY <2>1, <3>1, WholeSpan
    <3>4. f \notin FrameSpan(bitmap_base, bitmap_base + bitmap_size)
      BY <1>3, <1>6, <1>7, <1>8, <3>2, <3>3
    <3> QED
      BY <2>2, <3>3, <3>4
  <2> QED
    BY <2>3, <2>4
<1> QED
  BY <1>9 DEF Populated

GrantInv == /\ FrameInv /\ FreeIn(bitmap) \subseteq Populated \cup NoBit
            /\ \A t \in Threads : OwnedBy(t) \subseteq Populated \cup NoBit

(* FramesUsable: as long as every caller asks for one frame, a frame in    *)
(* anybody's hands is usable memory and holds no part of the bitmap, or it *)
(* is the page the bitmap ends in or a frame past its last bit - for every *)
(* map whose usable entries are whole pages and apart, as the boot         *)
(* loader's are, and every size of the bitmap.                             *)
THEOREM FramesUsable ==
  ASSUME Counts = {1}, Aligned, Apart
  PROVE  Spec => []GrantsUsable
<1>1. Init => GrantInv
  <2> SUFFICES ASSUME Init PROVE GrantInv
    OBVIOUS
  <2>1. PICK junk : bitmap = [f \in Frames |-> f \notin Populated /\ (f \in NoBit => junk[f])]
    BY DEF Init, InitialBitmaps
  <2>2. FreeIn(bitmap) \subseteq Populated \cup NoBit
    BY <2>1 DEF FreeIn
  <2> QED
    BY <2>2, InitFrame DEF GrantInv
<1>2. GrantInv /\ [Next]_vars => GrantInv'
  <2> SUFFICES ASSUME GrantInv, [Next]_vars PROVE GrantInv'
    OBVIOUS
  <2>1. FrameInv /\ FrameInv' /\ SingleInv
    BY NextFrame DEF GrantInv, FrameInv
  <2>2. /\ FreeIn(bitmap) \subseteq Populated \cup NoBit
        /\ \A t \in Threads : OwnedBy(t) \subseteq Populated \cup NoBit
    BY DEF GrantInv
  <2>3. FreeIn(bitmap') \subseteq Populated \cup NoBit
    BY <2>1, <2>2, EffectFrames
  <2>4. \A t \in Threads : OwnedBy(t)' \subseteq Populated \cup NoBit
    BY <2>1, <2>2, EffectFrames
  <2> QED
    BY <2>1, <2>3, <2>4 DEF GrantInv
<1>3. GrantInv => GrantsUsable
  BY PoolUsable, SingleFrames DEF GrantInv, FrameInv, GrantsUsable
<1> QED
  BY <1>1, <1>2, <1>3, PTL DEF Spec

-----------------------------------------------------------------------------
(* The scan of __vm_phys_alloc, iteration by iteration (PhysScan).         *)

FreeBelow(b, k) == {f \in FreeIn(b) : f < k}

(* s is the first frame of the run of free frames that ends with frame e.  *)
OpensRun(b, s, e) == s \in FreeIn(b) /\ s <= e /\ s .. e \subseteq FreeIn(b) /\ s - 1 \notin FreeIn(b)

(* The inductive invariant: frames_found counts the free frames passed,    *)
(* index_start opens the run that ends at the last frame passed, or is -1, *)
(* and the loop goes on for as long as too few were found.                 *)
ScanInv ==
  /\ bits \in [Frames -> BOOLEAN]
  /\ wanted \in Nat \ {0}
  /\ index \in 0 .. max_index
  /\ frames_found = Cardinality(FreeBelow(bits, index))
  /\ IF index - 1 \in FreeIn(bits) THEN OpensRun(bits, index_start, index - 1)
                                   ELSE index_start = -1
  /\ ~done => frames_found < wanted
  /\ done => \/ frames_found = wanted /\ index - 1 \in FreeIn(bits)
             \/ frames_found < wanted /\ index = max_index

LEMMA FreeFinite ==
  ASSUME NEW b \in [Frames -> BOOLEAN]
  PROVE  /\ FreeIn(b) \subseteq Frames /\ IsFiniteSet(FreeIn(b)) /\ Cardinality(FreeIn(b)) \in Nat
         /\ \A k : /\ IsFiniteSet(FreeBelow(b, k)) /\ Cardinality(FreeBelow(b, k)) \in Nat
                   /\ Cardinality(FreeBelow(b, k)) <= Cardinality(FreeIn(b))
<1>1. FreeIn(b) \subseteq Frames
  BY DEF FreeIn
<1>2. IsFiniteSet(Frames)
  BY HighestFacts, FS_Interval DEF Frames
<1>3. IsFiniteSet(FreeIn(b))
  BY <1>1, <1>2, FS_Subset
<1>4. \A k : FreeBelow(b, k) \subseteq FreeIn(b)
  BY DEF FreeBelow
<1> QED
  BY <1>1, <1>3, <1>4, FS_Subset, FS_CardinalityType

(* Passing one frame adds it to the free frames passed if it is free.      *)
LEMMA FreeBelowStep ==
  ASSUME NEW b \in [Frames -> BOOLEAN], NEW k \in Frames
  PROVE  Cardinality(FreeBelow(b, k + 1)) =
           IF b[k] THEN Cardinality(FreeBelow(b, k)) ELSE Cardinality(FreeBelow(b, k)) + 1
<1>1. FreeIn(b) \subseteq Nat /\ k \in Nat /\ (k \in FreeIn(b) <=> ~b[k])
  BY FramesNat DEF FreeIn
<1>2. CASE b[k]
  <2>1. \A f \in FreeIn(b) : f < k + 1 <=> f < k
    BY <1>1, <1>2
  <2>2. FreeBelow(b, k + 1) = FreeBelow(b, k)
    BY <2>1 DEF FreeBelow
  <2> QED
    BY <1>2, <2>2
<1>3. CASE ~b[k]
  <2>1. FreeBelow(b, k + 1) = FreeBelow(b, k) \cup {k} /\ k \notin FreeBelow(b, k)
    BY <1>1, <1>3 DEF FreeBelow
  <2> QED
    BY <1>3, <2>1, FreeFinite, FS_AddElement
<1> QED
  BY <1>2, <1>3

(* The frame that brings the count of free frames to n is the only one, so *)
(* LoopEnd is where the loop breaks.                                       *)
LEMMA LoopEndIs ==
  ASSUME NEW b \in [Frames -> BOOLEAN], NEW n \in Nat, NEW e \in FreeIn(b),
         Cardinality(FreeBelow(b, e + 1)) = n
  PROVE  LoopEnd(b, n) = e
<1>1. FreeIn(b) \subseteq Nat
  BY FreeFinite, FramesNat
<1>2. ASSUME NEW f \in FreeIn(b) PROVE {g \in FreeIn(b) : g <= f} = FreeBelow(b, f + 1)
  BY <1>1 DEF FreeBelow
<1>3. ASSUME NEW f \in FreeIn(b), NEW g \in FreeIn(b), f < g
      PROVE  Cardinality(FreeBelow(b, f + 1)) # Cardinality(FreeBelow(b, g + 1))
  <2>1. FreeBelow(b, f + 1) \subseteq FreeBelow(b, g + 1) /\ g \in FreeBelow(b, g + 1) /\ g \notin FreeBelow(b, f + 1)
    BY <1>1, <1>3 DEF FreeBelow
  <2>2. IsFiniteSet(FreeBelow(b, g + 1))
    BY FreeFinite
  <2> QED
    BY <2>1, <2>2, FS_Subset
<1>4. \A f \in FreeIn(b) : Cardinality({g \in FreeIn(b) : g <= f}) = n <=> f = e
  <2> TAKE f \in FreeIn(b)
  <2>1. f < e \/ f = e \/ e < f
    BY <1>1
  <2> QED
    BY <1>2, <1>3, <2>1
<1>5. Cardinality(FreeIn(b)) >= n
  BY FreeFinite
<1>6. (CHOOSE f \in FreeIn(b) : Cardinality({g \in FreeIn(b) : g <= f}) = n) = e
  BY <1>4
<1> QED
  BY <1>5, <1>6 DEF LoopEnd

LEMMA InitScan == ScanInit => ScanInv
<1> SUFFICES ASSUME ScanInit PROVE ScanInv
  OBVIOUS
<1>1. bits \in [Frames -> BOOLEAN] /\ wanted \in Nat \ {0} /\ max_index \in Nat
  BY MaxCountAssumption, HighestFacts DEF ScanInit
<1>2. FreeIn(bits) \subseteq Nat
  BY <1>1, FreeFinite, FramesNat
<1>3. FreeBelow(bits, 0) = {}
  BY <1>2 DEF FreeBelow
<1>4. Cardinality(FreeBelow(bits, 0)) = 0
  BY <1>3, FS_EmptySet
<1>5. 0 - 1 \notin FreeIn(bits)
  BY <1>2
<1>6. index = 0 /\ frames_found = 0 /\ index_start = -1 /\ done = FALSE
  BY DEF ScanInit
<1>7. 0 \in 0 .. max_index /\ 0 < wanted
  BY <1>1
<1> QED
  BY <1>1, <1>4, <1>5, <1>6, <1>7 DEF ScanInv

LEMMA NextScan == ScanInv /\ [ScanNext]_scanVars => ScanInv'
<1> SUFFICES ASSUME ScanInv, [ScanNext]_scanVars PROVE ScanInv'
  OBVIOUS
<1>m. max_index \in Nat /\ FreeIn(bits) \subseteq Nat
  BY HighestFacts, FreeFinite, FramesNat DEF ScanInv
<1>1. CASE Iterate
  <2>1. index \in Frames /\ index \in Nat /\ index' = index + 1 /\ bits' = bits /\ wanted' = wanted /\ ~done
    BY <1>1, <1>m DEF Iterate, ScanInv, Frames
  <2>2. bits \in [Frames -> BOOLEAN] /\ (index \in FreeIn(bits) <=> ~bits[index])
    BY <2>1 DEF ScanInv, FreeIn
  <2>3. Cardinality(FreeBelow(bits, index + 1)) = IF bits[index] THEN frames_found ELSE frames_found + 1
    BY <2>1, <2>2, FreeBelowStep DEF ScanInv
  <2>4. frames_found \in Nat /\ frames_found < wanted /\ wanted \in Nat
    BY <2>1, FreeFinite DEF ScanInv
  <2>5. index' \in 0 .. max_index /\ index' - 1 = index
    BY <1>1, <1>m, <2>1 DEF Iterate
  <2>6. CASE bits[index]
    BY <1>1, <2>1, <2>2, <2>3, <2>4, <2>5, <2>6 DEF Iterate, ScanInv
  <2>7. CASE ~bits[index]
    <3>1. OpensRun(bits, index_start', index)
      <4>1. CASE index - 1 \in FreeIn(bits)
        <5>1. OpensRun(bits, index_start, index - 1) /\ index_start \in Nat
          BY <1>m, <4>1 DEF ScanInv, OpensRun
        <5>2. index_start' = index_start
          BY <1>1, <2>7, <5>1 DEF Iterate
        <5>3. index_start .. index = (index_start .. index - 1) \cup {index}
          BY <2>1, <5>1 DEF OpensRun
        <5> QED
          BY <2>1, <2>2, <2>7, <5>1, <5>2, <5>3 DEF OpensRun
      <4>2. CASE index - 1 \notin FreeIn(bits)
        <5>1. index_start' = index
          BY <1>1, <2>7, <4>2 DEF Iterate, ScanInv
        <5>2. index .. index = {index}
          BY <2>1
        <5> QED
          BY <2>1, <2>2, <2>7, <4>2, <5>1, <5>2 DEF OpensRun
      <4> QED
        BY <4>1, <4>2
    <3>2. frames_found' = frames_found + 1 /\ done' = (frames_found + 1 >= wanted)
      BY <1>1, <2>7 DEF Iterate
    <3>3. (~done' => frames_found' < wanted) /\ (done' => frames_found' = wanted)
      <4>1. CASE frames_found + 1 >= wanted
        <5>1. done'
          BY <3>2, <4>1
        <5> QED
          BY <2>4, <3>2, <4>1, <5>1
      <4>2. CASE ~(frames_found + 1 >= wanted)
        <5>1. ~done'
          BY <3>2, <4>2
        <5> QED
          BY <2>4, <3>2, <4>2, <5>1
      <4> QED
        BY <4>1, <4>2
    <3> QED
      BY <2>1, <2>2, <2>3, <2>5, <2>7, <3>1, <3>2, <3>3 DEF ScanInv
  <2> QED
    BY <2>6, <2>7
<1>2. CASE Finish
  BY <1>2, <1>m DEF Finish, ScanInv
<1>3. CASE UNCHANGED scanVars
  BY <1>3 DEF scanVars, ScanInv
<1> QED
  BY <1>1, <1>2, <1>3 DEF ScanNext

(* The closed form is the loop's result.                                   *)
LEMMA ScanInvImplies == ScanInv => ScanIsIndexStart
<1> SUFFICES ASSUME ScanInv, done PROVE IndexStart(bits, wanted) = {index_start} \ {-1}
  BY DEF ScanIsIndexStart
<1>m. max_index \in Nat /\ FreeIn(bits) \subseteq Nat /\ bits \in [Frames -> BOOLEAN]
  BY HighestFacts, FreeFinite, FramesNat DEF ScanInv
<1>1. LoopEnd(bits, wanted) = index - 1
  <2>1. CASE frames_found = wanted /\ index - 1 \in FreeIn(bits)
    <3>1. (index - 1) + 1 = index
      BY <1>m DEF ScanInv
    <3> QED
      BY <1>m, <2>1, <3>1, LoopEndIs DEF ScanInv
  <2>2. CASE frames_found < wanted /\ index = max_index
    <3>1. FreeBelow(bits, index) = FreeIn(bits)
      BY <1>m, <2>2, FreeFinite DEF FreeBelow, Frames
    <3>2. ~(Cardinality(FreeIn(bits)) >= wanted)
      BY <1>m, <2>2, <3>1, FreeFinite DEF ScanInv
    <3> QED
      BY <2>2, <3>2 DEF LoopEnd
  <2> QED
    BY <2>1, <2>2 DEF ScanInv
<1>2. IndexStart(bits, wanted) = {s \in FreeIn(bits) : OpensRun(bits, s, index - 1)}
  BY <1>1 DEF IndexStart, OpensRun
<1>3. CASE index - 1 \in FreeIn(bits)
  <2>1. OpensRun(bits, index_start, index - 1) /\ index_start # -1
    BY <1>3, <1>m DEF ScanInv, OpensRun
  <2>2. ASSUME NEW s \in Nat, NEW r \in Nat, OpensRun(bits, s, index - 1), OpensRun(bits, r, index - 1), s < r
        PROVE  FALSE
    <3>1. r - 1 \in s .. index - 1
      BY <1>m, <2>2 DEF ScanInv, OpensRun
    <3> QED
      BY <2>2, <3>1 DEF OpensRun
  <2>3. \A s \in FreeIn(bits) : OpensRun(bits, s, index - 1) => s = index_start
    <3> SUFFICES ASSUME NEW s \in FreeIn(bits), OpensRun(bits, s, index - 1) PROVE s = index_start
      OBVIOUS
    <3>1. s \in Nat /\ index_start \in Nat
      BY <1>m, <2>1 DEF OpensRun
    <3>2. ~(s < index_start) /\ ~(index_start < s)
      BY <2>1, <2>2, <3>1
    <3> QED
      BY <3>1, <3>2
  <2> QED
    BY <1>2, <2>1, <2>3 DEF OpensRun
<1>4. CASE index - 1 \notin FreeIn(bits)
  <2>1. index_start = -1 /\ index - 1 \in Int
    BY <1>4, <1>m DEF ScanInv
  <2>2. \A s \in FreeIn(bits) : ~OpensRun(bits, s, index - 1)
    BY <1>4, <1>m, <2>1 DEF OpensRun
  <2> QED
    BY <1>2, <2>1, <2>2
<1> QED
  BY <1>3, <1>4

(* The loop of __vm_phys_alloc, left by its break or at the end of the     *)
(* bitmap, has in index_start what the closed form says, on every bitmap   *)
(* of every memory map and for every count: PhysMem, which takes the       *)
(* closed form for the loop, takes nothing else.                           *)
THEOREM ScanExact == ScanSpec => []ScanIsIndexStart
<1>1. ScanSpec => []ScanInv
  BY InitScan, NextScan, PTL DEF ScanSpec
<1> QED
  BY <1>1, ScanInvImplies, PTL
=============================================================================
