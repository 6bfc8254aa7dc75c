--------------------------- MODULE Kalloc_proofs ---------------------------
(***************************************************************************)
(* Proofs about the kernel heap, for any word, number of lists, pool, and  *)
(* sequence of calls by any number of processors.                          *)
(***************************************************************************)
EXTENDS Kalloc, FiniteSetTheorems, WellFoundedInduction, TLAPS

(* Physical blocks.  A block starts where a header has a size; from the    *)
(* first block to the sentinel each one begins where the one before ends.  *)
Mult == {n \in Nat : n % ALIGN_SIZE = 0}

Starts(h) == {b \in Addr : h.size[b] # 0}

Used(h) == Starts(h) \ h.free

HeapType(h) ==
  h \in [size : [Addr -> Mult], free : SUBSET Addr, prev_free : SUBSET Addr,
         prev_phys : [Addr -> Addr], next_link : [Addr -> Addr], prev_link : [Addr -> Addr],
         blocks : [Lists -> Addr], fl_bitmap : SUBSET (0 .. FL_INDEX_COUNT - 1),
         sl_bitmap : [0 .. FL_INDEX_COUNT - 1 -> SUBSET (0 .. SL_INDEX_COUNT - 1)],
         sound : BOOLEAN]

Phys(h, end) ==
  /\ First \in Starts(h) /\ First \notin h.prev_free
  /\ end \in Addr /\ end < First + block_size_max + block_header_overhead
  /\ \A b \in Starts(h) :
       /\ First <= b /\ h.size[b] >= block_size_min
       /\ block_next(h, b) \in Starts(h) \cup {end} /\ block_next(h, b) <= end
  /\ \A b, c \in Starts(h) : b < c => block_next(h, b) <= c
  /\ \A c \in (Starts(h) \ {First}) \cup {end} : \E b \in Starts(h) : block_next(h, b) = c

(* A block knows the one before it if that is free.                        *)
Flags(h) ==
  /\ h.free \subseteq Starts(h)
  /\ \A b \in Starts(h) :
       /\ block_next(h, b) \in h.prev_free <=> b \in h.free
       /\ b \in h.free => h.prev_phys[block_next(h, b)] = b

(* No two free blocks are neighbours unless one of them is x.              *)
Apart(h, x) == \A b \in h.free : block_next(h, b) \in h.free => x \in {b, block_next(h, b)}

(* The free lists hold the blocks of S, each in the list of its class and  *)
(* doubly linked, and the bitmaps say which lists have any.                *)
Class(h, b) == mapping_insert(h.size[b])

Links(h, S) ==
  /\ S \subseteq Addr \ {0}
  /\ \A l \in Lists : h.blocks[l] # 0 =>
       /\ h.blocks[l] \in S /\ Class(h, h.blocks[l]) = l /\ h.prev_link[h.blocks[l]] = 0
  /\ \A b \in S :
       /\ Class(h, b) \in Lists
       /\ h.prev_link[b] = 0 => h.blocks[Class(h, b)] = b
       /\ h.prev_link[b] # 0 => /\ h.prev_link[b] \in S /\ h.next_link[h.prev_link[b]] = b
                                /\ Class(h, h.prev_link[b]) = Class(h, b)
       /\ h.next_link[b] # 0 => /\ h.next_link[b] \in S /\ h.prev_link[h.next_link[b]] = b
                                /\ Class(h, h.next_link[b]) = Class(h, b)

Bitmaps(h) ==
  /\ \A l \in Lists : l[2] \in h.sl_bitmap[l[1]] <=> h.blocks[l] # 0
  /\ \A f \in 0 .. FL_INDEX_COUNT - 1 : f \in h.fl_bitmap <=> h.sl_bitmap[f] # {}

(* No list is a circle: its blocks can be numbered from its first one on.  *)
Ranked(h, S) ==
  \E rank \in [Addr -> Int], least \in Int :
    /\ \A a \in Addr : least <= rank[a]
    /\ \A b \in S : h.prev_link[b] # 0 => rank[h.prev_link[b]] < rank[b]

ListsOK(h, S) == Links(h, S) /\ Bitmaps(h) /\ Ranked(h, S)

(* A heap whose one pool ends at end, whose lists hold S, with no free     *)
(* neighbours but x.                                                       *)
Good(h, end, S, x) ==
  HeapType(h) /\ h.sound /\ Phys(h, end) /\ Flags(h) /\ Apart(h, x) /\ ListsOK(h, S)

(* A heap without a pool.                                                  *)
Bare(h) == HeapType(h) /\ h.sound /\ Starts(h) = {} /\ h.free = {} /\ ListsOK(h, {})

EndOf(bytes) == First + PoolBytes(bytes) + block_header_overhead
-----------------------------------------------------------------------------
(* The invariant.                                                          *)

Locations == {"idle", "alloc", "locate", "prepare", "free", "mark", "merge", "unlock"}

KallocType ==
  /\ lock \in Cpus \cup {None}
  /\ pc \in [Cpus -> Locations]
  /\ size \in [Cpus -> Nat]
  /\ block \in [Cpus -> Addr]
  /\ live \in [Addr -> Nat]

(* The free block that is in no list, because the holder of the lock has   *)
(* taken it or not yet put it back, and the one that may have a free       *)
(* neighbour.                                                              *)
Detached == IF lock # None /\ pc[lock] \in {"prepare", "merge"} THEN {block[lock]} \ {0} ELSE {}
Merging == IF lock # None /\ pc[lock] = "merge" THEN block[lock] ELSE 0

HeapInv ==
  IF pool = {} THEN Bare(heap)
  ELSE \E bytes \in PoolSizes :
         /\ bytes > 0 /\ pool = Mem .. Mem + bytes - 1
         /\ Good(heap, EndOf(bytes), heap.free \ Detached, Merging)

Holding == {c \in Cpus : pc[c] \in {"locate", "prepare", "mark", "merge", "unlock"}}
Exclusive == \A c \in Holding : lock = c

(* What is in use is what callers have and what they are giving back.      *)
Pending == {c \in Cpus : pc[c] \in {"free", "mark"}}
UsedExact == Used(heap) = Live \cup {block[c] : c \in Pending}
PendingApart ==
  /\ \A c \in Pending : block[c] \notin Live
  /\ \A c, d \in Pending : block[c] = block[d] => c = d
LiveFits == \A p \in Live : live[p] <= heap.size[p]

Adjusted(c) == adjust_request_size(size[c], ALIGN_SIZE)

Prepared ==
  \A c \in Cpus : pc[c] = "prepare" /\ block[c] # 0 =>
    block[c] \in heap.free /\ Adjusted(c) # 0 /\ Adjusted(c) <= heap.size[block[c]]
MergeReady == \A c \in Cpus : pc[c] = "merge" => block[c] \in heap.free

UseInv == Exclusive /\ UsedExact /\ PendingApart /\ LiveFits /\ Prepared /\ MergeReady

KallocInv == KallocType /\ HeapInv /\ UseInv
-----------------------------------------------------------------------------
(* Arithmetic: words, multiples of a word, addresses.                      *)

LEMMA Multiple ==
  ASSUME NEW x \in Nat, NEW p \in Nat, p > 0, x % p = 0 PROVE \E k \in Nat : x = k * p
<1>1. x \div p \in Nat
  OBVIOUS
<1>2. x = p * (x \div p) + (x % p)
  OBVIOUS
<1>3. PICK k \in Nat : k = x \div p
  BY <1>1
<1>4. x = p * k
  BY <1>2, <1>3
<1> QED
  BY <1>4

LEMMA Times ==
  ASSUME NEW j \in Nat, NEW k \in Nat, NEW p \in Nat, p > 0
  PROVE  /\ j * p \in Nat /\ (j <= k <=> j * p <= k * p)
         /\ (j < k <=> (j + 1) * p <= k * p) /\ (j * p) % p = 0
         /\ j * p + k * p = (j + k) * p /\ (j + 1) * p = j * p + p
<1>1. j * p \in Nat /\ k * p \in Nat /\ (j * p) % p = 0
  OBVIOUS
<1>2. j <= k => j * p <= k * p
  OBVIOUS
<1>3. k < j => k * p < j * p
  OBVIOUS
<1>4. j + 1 <= k => (j + 1) * p <= k * p
  OBVIOUS
<1>5. k < j + 1 => k * p < (j + 1) * p
  OBVIOUS
<1>6. (j + 1) * p \in Nat /\ j * p + k * p = (j + k) * p /\ (j + 1) * p = j * p + p
  OBVIOUS
<1> QED
  BY <1>1, <1>2, <1>3, <1>4, <1>5, <1>6

(* Powers of two within the width of an integer.                           *)
LEMMA Powers ==
  /\ \A i \in 0 .. FL_INDEX_MAX + 2 : 2^i \in Nat /\ 2^i >= 1 /\ 2^(i + 1) = 2 * 2^i
  /\ \A i, j \in 0 .. FL_INDEX_MAX + 2 : i + j <= FL_INDEX_MAX + 2 => 2^(i + j) = 2^i * 2^j
  /\ 2^0 = 1
<1>1. FL_INDEX_MAX \in Nat
  BY TlsfAssumption
<1>2. \A i \in 0 .. FL_INDEX_MAX + 2 : 2^i \in Nat \ {0} /\ 2^(i + 1) = 2 * 2^i
  BY PowerAssumption
<1>3. ASSUME NEW i \in 0 .. FL_INDEX_MAX + 2, NEW j \in 0 .. FL_INDEX_MAX + 2, i + j <= FL_INDEX_MAX + 2
      PROVE  2^(i + j) = 2^i * 2^j
  <2>1. j \in 0 .. FL_INDEX_MAX + 2 - i
    BY <1>1, <1>3
  <2> QED
    BY <2>1, PowerAssumption
<1>4. \A n \in Nat \ {0} : n >= 1
  OBVIOUS
<1> QED
  BY <1>2, <1>3, <1>4, PowerAssumption

LEMMA Words ==
  /\ ALIGN_SIZE \in Nat /\ ALIGN_SIZE >= 1
  /\ block_header_overhead = ALIGN_SIZE
  /\ block_size_min = 3 * ALIGN_SIZE /\ block_header_size = 4 * ALIGN_SIZE
  /\ SL_INDEX_COUNT \in Nat /\ SL_INDEX_COUNT >= 4
  /\ SMALL_BLOCK_SIZE = SL_INDEX_COUNT * ALIGN_SIZE
  /\ block_size_max \in Nat /\ block_size_max >= SMALL_BLOCK_SIZE
  /\ block_size_max >= 4 * ALIGN_SIZE
<1> DEFINE A == ALIGN_SIZE_LOG2
           S == SL_INDEX_COUNT_LOG2
           F == FL_INDEX_MAX
<1>1. A \in Nat /\ S \in Nat /\ F \in Nat /\ F >= S + A /\ S >= 2
  BY TlsfAssumption
<1>2. A \in 0 .. F + 2 /\ S \in 0 .. F + 2 /\ F \in 0 .. F + 2 /\ S + A \in 0 .. F + 2 /\ F - (S + A) \in 0 .. F + 2
      /\ S - 2 \in 0 .. F + 2 /\ 2 \in 0 .. F + 2 /\ 1 \in 0 .. F + 2 /\ 0 \in 0 .. F + 2
      /\ (S + A) + (F - (S + A)) = F /\ 2 + (S - 2) = S /\ 0 + 1 = 1 /\ 1 + 1 = 2
  BY <1>1
<1>3. 2^A \in Nat /\ 2^A >= 1 /\ 2^S \in Nat /\ 2^F \in Nat /\ 2^(S + A) \in Nat
      /\ 2^(F - (S + A)) \in Nat /\ 2^(F - (S + A)) >= 1 /\ 2^(S - 2) \in Nat /\ 2^(S - 2) >= 1
  BY <1>2, Powers
<1>4. 2^(S + A) = 2^S * 2^A /\ 2^F = 2^(S + A) * 2^(F - (S + A)) /\ 2^S = 2^2 * 2^(S - 2)
  <2>1. S + A <= F + 2 /\ (S + A) + (F - (S + A)) <= F + 2 /\ 2 + (S - 2) <= F + 2
    BY <1>1
  <2> QED
    BY <1>2, <2>1, Powers
<1>5. 2^2 = 4
  BY <1>2, Powers
<1> HIDE DEF A, S, F
<1>6. \A x, y \in Nat : y >= 1 => x * y >= x
  <2> SUFFICES ASSUME NEW x \in Nat, NEW y \in Nat, y >= 1 PROVE x * y >= x
    OBVIOUS
  <2>1. y - 1 \in Nat /\ x * y = x + x * (y - 1)
    OBVIOUS
  <2>2. x * (y - 1) \in Nat
    BY <2>1
  <2> QED
    BY <2>1, <2>2
<1>7. 2^S >= 4
  BY <1>3, <1>4, <1>5, <1>6
<1>8. 2^F >= 2^(S + A)
  BY <1>3, <1>4, <1>6
<1>9. 2^(S + A) >= 4 * 2^A
  BY <1>3, <1>4, <1>7, Times
<1>10. FL_INDEX_SHIFT = S + A /\ ALIGN_SIZE = 2^A /\ SL_INDEX_COUNT = 2^S /\ SMALL_BLOCK_SIZE = 2^(S + A)
       /\ block_size_max = 2^F
  BY DEF FL_INDEX_SHIFT, ALIGN_SIZE, SL_INDEX_COUNT, SMALL_BLOCK_SIZE, block_size_max, S, A, F
<1>11. ALIGN_SIZE \in Nat /\ ALIGN_SIZE >= 1
  BY <1>3, <1>10
<1>12. block_header_overhead = ALIGN_SIZE /\ block_header_size = 4 * ALIGN_SIZE
       /\ block_size_min = 4 * ALIGN_SIZE - ALIGN_SIZE
  BY DEF block_header_overhead, block_header_size, block_size_min
<1>13. block_size_min = 3 * ALIGN_SIZE
  BY <1>11, <1>12
<1> QED
  BY <1>3, <1>4, <1>7, <1>8, <1>9, <1>10, <1>11, <1>12, <1>13

LEMMA MultFacts ==
  /\ Mult \subseteq Nat /\ 0 \in Mult /\ ALIGN_SIZE \in Mult
  /\ \A m, n \in Mult : m + n \in Mult
  /\ \A m, n \in Mult : m >= n => m - n \in Mult
  /\ \A m, n \in Mult : m < n => m + ALIGN_SIZE <= n
  /\ \A k \in Nat : k * ALIGN_SIZE \in Mult
<1> DEFINE W == ALIGN_SIZE
<1>1. W \in Nat /\ W > 0
  BY Words
<1>m. Mult = {n \in Nat : n % W = 0}
  BY DEF Mult
<1> HIDE DEF W
<1>2. \A k \in Nat : k * W \in Mult
  BY <1>1, <1>m, Times
<1>3. \A m \in Mult : \E k \in Nat : m = k * W
  BY <1>1, <1>m, Multiple
<1>4. 0 \in Mult /\ W \in Mult
  <2>1. 0 * W = 0 /\ 1 * W = W
    BY <1>1
  <2> QED
    BY <1>2, <2>1
<1>5. ASSUME NEW m \in Mult, NEW n \in Mult PROVE m + n \in Mult /\ (m >= n => m - n \in Mult) /\ (m < n => m + W <= n)
  <2>1. PICK j \in Nat : m = j * W
    BY <1>3
  <2>2. PICK k \in Nat : n = k * W
    BY <1>3
  <2>3. m + n = (j + k) * W /\ j + k \in Nat
    BY <1>1, <2>1, <2>2
  <2>4. m < n => m + W <= n
    BY <1>1, <2>1, <2>2, Times
  <2>5. ASSUME m >= n PROVE m - n \in Mult
    <3>1. k <= j
      BY <1>1, <2>1, <2>2, <2>5, Times
    <3>2. j - k \in Nat /\ m - n = (j - k) * W
      BY <1>1, <2>1, <2>2, <3>1
    <3> QED
      BY <1>2, <3>2
  <2> QED
    BY <1>2, <2>3, <2>4, <2>5
<1> QED
  BY <1>m, <1>2, <1>4, <1>5 DEF W

LEMMA AddrFacts ==
  /\ Top \in Nat /\ Addr = {a \in Mult : a <= Top} /\ 0 \in Addr /\ Addr \subseteq Mult /\ Addr \subseteq Nat
  /\ IsFiniteSet(Addr)
<1>1. Top \in Nat
  BY TlsfAssumption
<1>2. Addr = {a \in Mult : a <= Top}
  BY <1>1 DEF Addr, Mult
<1>3. IsFiniteSet(0 .. Top) /\ Addr \subseteq 0 .. Top
  BY <1>1, FS_Interval DEF Addr
<1>4. IsFiniteSet(Addr)
  BY <1>3, FS_Subset
<1>5. 0 \in Addr /\ Addr \subseteq Mult
  BY <1>1, <1>2, MultFacts
<1>6. Addr \subseteq Nat
  BY <1>5, MultFacts
<1> QED
  BY <1>1, <1>2, <1>4, <1>5, <1>6

LEMMA LeastNat ==
  ASSUME NEW T, T \subseteq Nat, T # {} PROVE \E x \in T : \A y \in T : x <= y
<1>1. PICK x \in T : \A y \in T : ~(<<y, x>> \in OpToRel(<, Nat))
  BY NatLessThanWellFounded, WFMin
<1>2. \A y \in T : ~(y < x)
  BY <1>1 DEF OpToRel
<1> QED
  BY <1>2

LEMMA MinFacts == ASSUME NEW T, T \subseteq Nat, T # {} PROVE Min(T) \in T /\ \A i \in T : Min(T) <= i
BY LeastNat DEF Min

LEMMA MaxPair ==
  ASSUME NEW x \in Nat, NEW y \in Nat PROVE Max({x, y}) = IF x >= y THEN x ELSE y
<1> DEFINE m == IF x >= y THEN x ELSE y
<1>1. m \in {x, y} /\ \A z \in {x, y} : m >= z
  OBVIOUS
<1>2. \A z \in {x, y} : (\A t \in {x, y} : z >= t) => z = m
  OBVIOUS
<1> QED
  BY <1>1, <1>2 DEF Max
-----------------------------------------------------------------------------
(* Size classes.                                                           *)

LEMMA Division ==
  ASSUME NEW d \in Nat, d > 0, NEW x \in Nat
  PROVE  /\ x \div d \in Nat /\ (x + d) \div d = (x \div d) + 1
         /\ \A y \in Nat : x <= y => x \div d <= y \div d
         /\ \A k \in Nat : (k * d <= x => k <= x \div d) /\ (x < k * d => x \div d < k)
<1>1. PICK q \in Nat : q = x \div d
  OBVIOUS
<1>2. PICK r \in 0 .. d - 1 : x = q * d + r
  <2>1. x % d \in 0 .. d - 1 /\ x = d * (x \div d) + (x % d)
    OBVIOUS
  <2> QED
    BY <1>1, <2>1
<1>3. ASSUME NEW k \in Nat PROVE (k * d <= x => k <= q) /\ (x < k * d => q < k)
  <2>1. k * d \in Nat /\ q * d \in Nat /\ (q + 1) * d = q * d + d /\ q + 1 \in Nat
    BY Times
  <2>2. ASSUME k * d <= x PROVE k <= q
    <3>1. k * d < (q + 1) * d
      BY <1>2, <2>1, <2>2
    <3>2. ~(q + 1 <= k)
      BY <2>1, <3>1, Times
    <3> QED
      BY <3>2
  <2>3. ASSUME x < k * d PROVE q < k
    <3>1. q * d < k * d
      BY <1>2, <2>1, <2>3
    <3>2. ~(k <= q)
      BY <2>1, <3>1, Times
    <3> QED
      BY <3>2
  <2> QED
    BY <2>2, <2>3
<1>4. ASSUME NEW y \in Nat, x <= y PROVE x \div d <= y \div d
  <2>1. PICK p \in Nat : p = y \div d
    OBVIOUS
  <2>2. PICK t \in 0 .. d - 1 : y = p * d + t
    <3>1. y % d \in 0 .. d - 1 /\ y = d * (y \div d) + (y % d)
      OBVIOUS
    <3> QED
      BY <2>1, <3>1
  <2>3. (p + 1) * d = p * d + d /\ p + 1 \in Nat /\ p * d \in Nat
    BY Times
  <2>4. x < (p + 1) * d
    BY <1>4, <2>2, <2>3
  <2>5. q < p + 1
    BY <1>3, <2>3, <2>4
  <2> QED
    BY <1>1, <2>1, <2>5
<1>5. (x + d) \div d = (x \div d) + 1
  OBVIOUS
<1> QED
  BY <1>1, <1>3, <1>4, <1>5

LEMMA PowerMono ==
  ASSUME NEW i \in 0 .. FL_INDEX_MAX + 2, NEW j \in 0 .. FL_INDEX_MAX + 2, i <= j PROVE 2^i <= 2^j
<1>1. FL_INDEX_MAX \in Nat
  BY TlsfAssumption
<1>2. j - i \in 0 .. FL_INDEX_MAX + 2 /\ i + (j - i) = j /\ i + (j - i) <= FL_INDEX_MAX + 2
  BY <1>1
<1>3. 2^j = 2^i * 2^(j - i) /\ 2^(j - i) \in Nat /\ 2^(j - i) >= 1 /\ 2^i \in Nat /\ 2^i >= 1
  BY <1>2, Powers
<1>4. \A x, y \in Nat : x >= 1 /\ y >= 1 => 1 * x <= y * x
  BY Times
<1>5. 1 * 2^i = 2^i /\ 2^(j - i) * 2^i = 2^i * 2^(j - i)
  BY <1>3
<1>6. 1 * 2^i <= 2^(j - i) * 2^i
  BY <1>3, <1>4
<1> QED
  BY <1>3, <1>5, <1>6

FlsLimit == 2^(FL_INDEX_MAX + 2)

LEMMA Fls ==
  ASSUME NEW n \in Nat, n >= 1, n < FlsLimit
  PROVE  /\ tlsf_fls(n) \in 0 .. FL_INDEX_MAX + 1
         /\ 2^tlsf_fls(n) <= n /\ n < 2^(tlsf_fls(n) + 1)
<1> DEFINE F == FL_INDEX_MAX
           T == {i \in Nat : i <= F + 2 /\ n < 2^i}
<1>1. F \in Nat
  BY TlsfAssumption
<1>2. F + 2 \in T
  BY <1>1 DEF FlsLimit
<1>3. PICK i \in T : \A j \in T : i <= j
  <2>1. T # {} /\ T \subseteq Nat
    BY <1>2
  <2> QED
    BY <2>1, LeastNat
<1>4. i # 0
  BY Powers
<1>5. i - 1 \in 0 .. F + 1 /\ (i - 1) + 1 = i /\ i - 1 \in Nat /\ i - 1 <= F + 2 /\ ~(i <= i - 1)
  BY <1>1, <1>4
<1>6. i - 1 \notin T
  BY <1>3, <1>5
<1>7. ~(n < 2^(i - 1))
  BY <1>5, <1>6
<1>8. 2^(i - 1) \in Nat
  <2>1. i - 1 \in 0 .. FL_INDEX_MAX + 2
    BY <1>1, <1>5
  <2> QED
    BY <2>1, Powers
<1>9. 2^(i - 1) <= n /\ n < 2^((i - 1) + 1)
  BY <1>5, <1>7, <1>8
<1>10. \E j \in 0 .. FL_INDEX_MAX + 1 : 2^j <= n /\ n < 2^(j + 1)
  BY <1>5, <1>9
<1> QED
  BY <1>10 DEF tlsf_fls

(* The first level of the larger size is at least that of the smaller.     *)
LEMMA FlsMono ==
  ASSUME NEW m \in Nat, NEW n \in Nat, m >= 1, m <= n, n < FlsLimit
  PROVE  tlsf_fls(m) <= tlsf_fls(n)
<1>f. FL_INDEX_MAX \in Nat /\ FlsLimit \in Nat
  <2>1. FL_INDEX_MAX \in Nat
    BY TlsfAssumption
  <2>2. FL_INDEX_MAX + 2 \in 0 .. FL_INDEX_MAX + 2
    BY <2>1
  <2> QED
    BY <2>1, <2>2, Powers DEF FlsLimit
<1>1. PICK f : f = tlsf_fls(m)
  OBVIOUS
<1>2. PICK g : g = tlsf_fls(n)
  OBVIOUS
<1>3. f \in 0 .. FL_INDEX_MAX + 1 /\ 2^f <= m
  BY <1>1, <1>f, Fls
<1>4. g \in 0 .. FL_INDEX_MAX + 1 /\ n < 2^(g + 1)
  BY <1>2, <1>f, Fls
<1>5. ASSUME g < f PROVE FALSE
  <2>1. g + 1 \in 0 .. FL_INDEX_MAX + 2 /\ f \in 0 .. FL_INDEX_MAX + 2 /\ g + 1 <= f
    BY <1>3, <1>4, <1>5, <1>f
  <2>2. 2^(g + 1) <= 2^f /\ 2^(g + 1) \in Nat /\ 2^f \in Nat
    BY <2>1, PowerMono, Powers
  <2> QED
    BY <1>3, <1>4, <2>2
<1> QED
  BY <1>1, <1>2, <1>3, <1>4, <1>5

(* Lists in the order of search_suitable_block.                            *)
Below(k, l) == k[1] < l[1] \/ (k[1] = l[1] /\ k[2] < l[2])
UpTo(k, l) == k[1] < l[1] \/ (k[1] = l[1] /\ k[2] <= l[2])

(* What mapping_insert computes.  The lists of a first level at or above   *)
(* SMALL_BLOCK_SIZE are 2^width bytes wide.                                *)
LEMMA SmallClass ==
  ASSUME NEW n \in Nat, n < SMALL_BLOCK_SIZE
  PROVE  mapping_insert(n) = <<0, n \div ALIGN_SIZE>> /\ n \div ALIGN_SIZE \in 0 .. SL_INDEX_COUNT - 1
<1>1. SMALL_BLOCK_SIZE \div SL_INDEX_COUNT = ALIGN_SIZE
  BY Words
<1>2. n \div ALIGN_SIZE \in Nat /\ n \div ALIGN_SIZE < SL_INDEX_COUNT
  BY Words, Division
<1> QED
  BY <1>1, <1>2, Words DEF mapping_insert

LEMMA LargeClass ==
  ASSUME NEW n \in Nat, n >= SMALL_BLOCK_SIZE, n < FlsLimit
  PROVE  LET fl == tlsf_fls(n)
             w == 2^(fl - SL_INDEX_COUNT_LOG2)
         IN  /\ fl \in FL_INDEX_SHIFT .. FL_INDEX_MAX + 1 /\ FL_INDEX_SHIFT \in Nat
             /\ n < block_size_max => fl < FL_INDEX_MAX
             /\ w \in Nat /\ w > 0 /\ 2^fl = SL_INDEX_COUNT * w
             /\ SL_INDEX_COUNT * w <= n /\ n < (2 * SL_INDEX_COUNT) * w
             /\ n \div w \in SL_INDEX_COUNT .. 2 * SL_INDEX_COUNT - 1
             /\ mapping_insert(n) = <<fl - (FL_INDEX_SHIFT - 1), (n \div w) - SL_INDEX_COUNT>>
<1> DEFINE fl == tlsf_fls(n)
           S == SL_INDEX_COUNT_LOG2
           A == ALIGN_SIZE_LOG2
           F == FL_INDEX_MAX
<1>1. A \in Nat /\ S \in Nat /\ F \in Nat /\ F >= S + A /\ S >= 2 /\ FL_INDEX_SHIFT = S + A
  BY TlsfAssumption DEF FL_INDEX_SHIFT
<1>2. FlsLimit \in Nat /\ SMALL_BLOCK_SIZE = 2^(S + A) /\ block_size_max = 2^F /\ SL_INDEX_COUNT = 2^S
  <2>1. F + 2 \in 0 .. F + 2
    BY <1>1
  <2>2. 2^(F + 2) \in Nat
    BY <2>1, Powers
  <2> QED
    BY <2>2, <1>1 DEF FlsLimit, SMALL_BLOCK_SIZE, block_size_max, SL_INDEX_COUNT
<1>3. n >= 1 /\ SL_INDEX_COUNT \in Nat /\ SL_INDEX_COUNT >= 4 /\ SMALL_BLOCK_SIZE \in Nat
      /\ block_size_max \in Nat
  <2>1. \A x, y \in Nat : x >= 4 /\ y >= 1 => x * y >= 1 /\ x * y \in Nat
    BY Times
  <2> QED
    BY <2>1, Words
<1>4. fl \in 0 .. F + 1 /\ 2^fl <= n /\ n < 2^(fl + 1)
  BY <1>3, Fls
<1> HIDE DEF fl
<1>5. fl >= S + A
  <2> SUFFICES ASSUME fl < S + A PROVE FALSE
    BY <1>1, <1>4
  <2>1. fl + 1 \in 0 .. F + 2 /\ S + A \in 0 .. F + 2 /\ fl + 1 <= S + A
    BY <1>1, <1>4
  <2>2. 2^(fl + 1) <= 2^(S + A) /\ 2^(fl + 1) \in Nat
    BY <2>1, PowerMono, Powers
  <2> QED
    BY <1>2, <1>3, <1>4, <2>2
<1>6. ASSUME n < block_size_max PROVE fl < F
  <2> SUFFICES ASSUME F <= fl PROVE FALSE
    BY <1>1, <1>4
  <2>1. F \in 0 .. F + 2 /\ fl \in 0 .. F + 2
    BY <1>1, <1>4
  <2>2. 2^F <= 2^fl /\ 2^fl \in Nat
    BY <2>1, PowerMono, Powers
  <2> QED
    BY <1>2, <1>3, <1>4, <1>6, <2>2
<1>7. S \in 0 .. F + 2 /\ fl - S \in 0 .. F + 2 /\ S + (fl - S) = fl /\ fl <= F + 2 /\ fl \in 0 .. F + 2
  BY <1>1, <1>4, <1>5
<1> DEFINE w == 2^(fl - S)
<1>8. w \in Nat /\ w >= 1 /\ 2^fl = SL_INDEX_COUNT * w /\ 2^(fl + 1) = 2 * 2^fl
  BY <1>2, <1>7, Powers
<1>9. ~(n < SMALL_BLOCK_SIZE)
  BY <1>3
<1>10. mapping_insert(n) = <<fl - (FL_INDEX_SHIFT - 1), (n \div w) - SL_INDEX_COUNT>>
  BY <1>9 DEF mapping_insert, fl
<1> HIDE DEF w
<1>11. 2 * (SL_INDEX_COUNT * w) = (2 * SL_INDEX_COUNT) * w /\ 2 * SL_INDEX_COUNT \in Nat
  BY <1>3, <1>8
<1>12. SL_INDEX_COUNT * w <= n /\ n < (2 * SL_INDEX_COUNT) * w
  BY <1>4, <1>8, <1>11
<1>13. n \div w \in Nat /\ SL_INDEX_COUNT <= n \div w /\ n \div w < 2 * SL_INDEX_COUNT
  BY <1>3, <1>8, <1>11, <1>12, Division
<1>14. n \div w \in SL_INDEX_COUNT .. 2 * SL_INDEX_COUNT - 1
  BY <1>3, <1>13
<1>15. fl \in FL_INDEX_SHIFT .. F + 1 /\ FL_INDEX_SHIFT \in Nat
  BY <1>1, <1>4, <1>5
<1> QED
  BY <1>6, <1>8, <1>10, <1>12, <1>14, <1>15 DEF w, fl

LEMMA LimitFacts ==
  /\ FlsLimit \in Nat /\ FlsLimit = 4 * block_size_max /\ FL_INDEX_MAX \in Nat
  /\ FL_INDEX_COUNT \in Nat /\ FL_INDEX_COUNT >= 1 /\ FL_INDEX_COUNT = FL_INDEX_MAX - FL_INDEX_SHIFT + 1
  /\ FL_INDEX_SHIFT \in Nat
<1> DEFINE F == FL_INDEX_MAX
<1>1. F \in Nat /\ FL_INDEX_SHIFT \in Nat /\ F >= FL_INDEX_SHIFT
  BY TlsfAssumption DEF FL_INDEX_SHIFT
<1>2. F \in 0 .. F + 2 /\ F + 1 \in 0 .. F + 2 /\ (F + 1) + 1 = F + 2
  BY <1>1
<1>3. 2^(F + 1) = 2 * 2^F /\ 2^((F + 1) + 1) = 2 * 2^(F + 1) /\ 2^F \in Nat
  BY <1>2, Powers
<1>4. 2^(F + 2) = 4 * 2^F
  BY <1>2, <1>3
<1> QED
  BY <1>1, <1>3, <1>4 DEF FlsLimit, block_size_max, FL_INDEX_COUNT

LEMMA ClassType ==
  ASSUME NEW n \in Nat, n < block_size_max PROVE mapping_insert(n) \in Lists
<1>1. CASE n < SMALL_BLOCK_SIZE
  BY <1>1, SmallClass, LimitFacts, Words DEF Lists
<1>2. CASE ~(n < SMALL_BLOCK_SIZE)
  <2>1. SMALL_BLOCK_SIZE \in Nat /\ block_size_max \in Nat /\ SL_INDEX_COUNT \in Nat
    BY Words
  <2>2. n >= SMALL_BLOCK_SIZE /\ n < FlsLimit
    BY <1>2, <2>1, LimitFacts
  <2>3. PICK f : f = tlsf_fls(n)
    OBVIOUS
  <2>4. PICK q : q = n \div 2^(f - SL_INDEX_COUNT_LOG2)
    OBVIOUS
  <2>5. /\ f \in FL_INDEX_SHIFT .. FL_INDEX_MAX + 1 /\ f < FL_INDEX_MAX
        /\ q \in SL_INDEX_COUNT .. 2 * SL_INDEX_COUNT - 1
        /\ mapping_insert(n) = <<f - (FL_INDEX_SHIFT - 1), q - SL_INDEX_COUNT>>
    BY <2>2, <2>3, <2>4, LargeClass
  <2>6. f - (FL_INDEX_SHIFT - 1) \in 0 .. FL_INDEX_COUNT - 1 /\ q - SL_INDEX_COUNT \in 0 .. SL_INDEX_COUNT - 1
    BY <2>1, <2>5, LimitFacts
  <2> QED
    BY <2>5, <2>6 DEF Lists
<1> QED
  BY <1>1, <1>2

(* A larger size is in the same or a later list.                           *)
LEMMA ClassMono ==
  ASSUME NEW m \in Nat, NEW n \in Nat, m <= n, n < FlsLimit
  PROVE  UpTo(mapping_insert(m), mapping_insert(n))
<1>w. /\ SMALL_BLOCK_SIZE \in Nat /\ SL_INDEX_COUNT \in Nat /\ SL_INDEX_COUNT >= 4
      /\ ALIGN_SIZE \in Nat /\ ALIGN_SIZE >= 1 /\ SMALL_BLOCK_SIZE >= 1
  <2>1. \A x, y \in Nat : x >= 4 /\ y >= 1 => x * y >= 1 /\ x * y \in Nat
    BY Times
  <2> QED
    BY <2>1, Words
<1>1. CASE n < SMALL_BLOCK_SIZE
  <2>1. m < SMALL_BLOCK_SIZE
    BY <1>1, <1>w
  <2>2. m \div ALIGN_SIZE <= n \div ALIGN_SIZE
    BY <1>w, Division
  <2> QED
    BY <1>1, <2>1, <2>2, SmallClass DEF UpTo
<1>2. CASE n >= SMALL_BLOCK_SIZE
  <2>1. PICK f : f = tlsf_fls(n)
    OBVIOUS
  <2>2. PICK w : w = 2^(f - SL_INDEX_COUNT_LOG2)
    OBVIOUS
  <2>3. /\ f \in FL_INDEX_SHIFT .. FL_INDEX_MAX + 1 /\ w \in Nat /\ w > 0
        /\ mapping_insert(n) = <<f - (FL_INDEX_SHIFT - 1), (n \div w) - SL_INDEX_COUNT>>
    BY <1>2, <2>1, <2>2, LargeClass
  <2>4. CASE m < SMALL_BLOCK_SIZE
    <3>1. f - (FL_INDEX_SHIFT - 1) > 0
      BY <2>3, LimitFacts
    <3>2. mapping_insert(m) = <<0, m \div ALIGN_SIZE>>
      BY <2>4, SmallClass
    <3> QED
      BY <2>3, <3>1, <3>2 DEF UpTo
  <2>5. CASE m >= SMALL_BLOCK_SIZE
    <3>1. m < FlsLimit /\ m >= 1
      BY <1>w, <2>5, LimitFacts
    <3>2. PICK e : e = tlsf_fls(m)
      OBVIOUS
    <3>3. PICK v : v = 2^(e - SL_INDEX_COUNT_LOG2)
      OBVIOUS
    <3>4. /\ e \in FL_INDEX_SHIFT .. FL_INDEX_MAX + 1
          /\ mapping_insert(m) = <<e - (FL_INDEX_SHIFT - 1), (m \div v) - SL_INDEX_COUNT>>
      BY <2>5, <3>1, <3>2, <3>3, LargeClass
    <3>5. e <= f
      BY <2>1, <3>1, <3>2, FlsMono
    <3>6. CASE e = f
      <4>1. v = w
        BY <2>2, <3>3, <3>6
      <4>2. m \div w <= n \div w /\ m \div w \in Nat /\ n \div w \in Nat
        BY <2>3, Division
      <4>3. (m \div w) - SL_INDEX_COUNT <= (n \div w) - SL_INDEX_COUNT
        BY <1>w, <4>2
      <4> QED
        BY <2>3, <3>4, <3>6, <4>1, <4>3 DEF UpTo
    <3>7. CASE e # f
      <4>1. e - (FL_INDEX_SHIFT - 1) < f - (FL_INDEX_SHIFT - 1)
        BY <2>3, <3>4, <3>5, <3>7, LimitFacts
      <4> QED
        BY <2>3, <3>4, <4>1 DEF UpTo
    <3> QED
      BY <3>6, <3>7
  <2> QED
    BY <1>w, <2>4, <2>5
<1> QED
  BY <1>w, <1>1, <1>2

(* mapping_search rounds up: every block of the lists it points to is as   *)
(* large as the request, for sizes in whole words.                         *)
LEMMA SearchStrict ==
  ASSUME NEW s \in Mult, NEW n \in Mult, s < n, n < block_size_max
  PROVE  Below(mapping_insert(s), mapping_search(n))
<1>w. /\ SMALL_BLOCK_SIZE \in Nat /\ SL_INDEX_COUNT \in Nat /\ SL_INDEX_COUNT >= 4
      /\ ALIGN_SIZE \in Nat /\ ALIGN_SIZE >= 1 /\ s \in Nat /\ n \in Nat /\ block_size_max \in Nat
  BY Words, MultFacts
<1>1. CASE n < SMALL_BLOCK_SIZE
  <2>1. mapping_search(n) = mapping_insert(n)
    BY <1>1 DEF mapping_search
  <2>2. s + ALIGN_SIZE <= n /\ s + ALIGN_SIZE \in Nat
    BY <1>w, MultFacts
  <2>3. (s + ALIGN_SIZE) \div ALIGN_SIZE = (s \div ALIGN_SIZE) + 1 /\ s \div ALIGN_SIZE \in Nat
        /\ (s + ALIGN_SIZE) \div ALIGN_SIZE <= n \div ALIGN_SIZE
        /\ n \div ALIGN_SIZE \in Nat
    BY <1>w, <2>2, Division
  <2>4. s \div ALIGN_SIZE < n \div ALIGN_SIZE
    BY <2>3
  <2>5. s < SMALL_BLOCK_SIZE
    BY <1>1, <1>w
  <2> QED
    BY <1>1, <1>w, <2>1, <2>4, <2>5, SmallClass DEF Below
<1>2. CASE n >= SMALL_BLOCK_SIZE
  <2>1. PICK f : f = tlsf_fls(n)
    OBVIOUS
  <2>2. PICK w : w = 2^(f - SL_INDEX_COUNT_LOG2)
    OBVIOUS
  <2>l. n < FlsLimit
    BY <1>w, LimitFacts
  <2>3. /\ f \in FL_INDEX_SHIFT .. FL_INDEX_MAX + 1 /\ f < FL_INDEX_MAX /\ w \in Nat /\ w > 0
        /\ SL_INDEX_COUNT * w <= n
    BY <1>2, <1>w, <2>1, <2>2, <2>l, LargeClass
  <2>4. w <= n
    BY <1>w, <2>3
  <2>5. PICK r \in Nat : r = n + w - 1
    BY <1>w, <2>3
  <2>6. r >= n /\ r < FlsLimit /\ r >= SMALL_BLOCK_SIZE /\ s + w <= r
    BY <1>2, <1>w, <2>3, <2>4, <2>5, LimitFacts
  <2>7. mapping_search(n) = mapping_insert(r)
    <3>1. ~(n < SMALL_BLOCK_SIZE)
      BY <1>2, <1>w
    <3> QED
      BY <2>1, <2>2, <2>5, <3>1 DEF mapping_search
  <2>8. PICK g : g = tlsf_fls(r)
    OBVIOUS
  <2>9. PICK u : u = 2^(g - SL_INDEX_COUNT_LOG2)
    OBVIOUS
  <2>10. /\ g \in FL_INDEX_SHIFT .. FL_INDEX_MAX + 1 /\ u \in Nat /\ u > 0
         /\ mapping_insert(r) = <<g - (FL_INDEX_SHIFT - 1), (r \div u) - SL_INDEX_COUNT>>
    BY <2>6, <2>8, <2>9, LargeClass
  <2>11. CASE s < SMALL_BLOCK_SIZE
    <3>1. g - (FL_INDEX_SHIFT - 1) > 0
      BY <2>10, LimitFacts
    <3>2. mapping_insert(s) = <<0, s \div ALIGN_SIZE>>
      BY <1>w, <2>11, SmallClass
    <3> QED
      BY <2>7, <2>10, <3>1, <3>2 DEF Below
  <2>12. CASE s >= SMALL_BLOCK_SIZE
    <3>1. s < FlsLimit /\ s >= 1
      BY <1>w, <2>12, <2>l, LimitFacts, Words
    <3>2. PICK e : e = tlsf_fls(s)
      OBVIOUS
    <3>3. PICK v : v = 2^(e - SL_INDEX_COUNT_LOG2)
      OBVIOUS
    <3>4. /\ e \in FL_INDEX_SHIFT .. FL_INDEX_MAX + 1
          /\ mapping_insert(s) = <<e - (FL_INDEX_SHIFT - 1), (s \div v) - SL_INDEX_COUNT>>
      BY <1>w, <2>12, <3>1, <3>2, <3>3, LargeClass
    <3>5. e <= f
      BY <1>w, <2>1, <2>l, <3>1, <3>2, FlsMono
    <3>6. f <= g
      <4>1. n >= 1
        BY <1>w, <3>1
      <4> QED
        BY <1>w, <2>1, <2>6, <2>8, <4>1, FlsMono
    <3>7. CASE e = g
      <4>1. v = u /\ u = w
        BY <2>2, <2>3, <2>9, <2>10, <3>3, <3>4, <3>5, <3>6, <3>7
      <4>2. (s + w) \div w = (s \div w) + 1 /\ s \div w \in Nat /\ (s + w) \div w <= r \div w
            /\ r \div w \in Nat /\ s + w \in Nat
        BY <1>w, <2>3, <2>5, <2>6, Division
      <4>3. (s \div w) - SL_INDEX_COUNT < (r \div w) - SL_INDEX_COUNT
        BY <1>w, <4>2
      <4> QED
        BY <2>7, <2>10, <3>4, <3>7, <4>1, <4>3 DEF Below
    <3>8. CASE e # g
      <4>1. e - (FL_INDEX_SHIFT - 1) < g - (FL_INDEX_SHIFT - 1)
        BY <2>3, <2>10, <3>4, <3>5, <3>6, <3>8, LimitFacts
      <4> QED
        BY <2>7, <2>10, <3>4, <4>1 DEF Below
    <3> QED
      BY <3>7, <3>8
  <2> QED
    BY <1>w, <2>11, <2>12
<1> QED
  BY <1>w, <1>1, <1>2

(* And it rounds up by less than one part in SL_INDEX_COUNT.               *)
LEMMA SearchTight ==
  ASSUME NEW s \in Nat, NEW n \in Nat, s < block_size_max, n >= 1,
         s >= n + (IF n < SMALL_BLOCK_SIZE THEN 0 ELSE n \div SL_INDEX_COUNT)
  PROVE  UpTo(mapping_search(n), mapping_insert(s))
<1>w. /\ SMALL_BLOCK_SIZE \in Nat /\ SL_INDEX_COUNT \in Nat /\ SL_INDEX_COUNT >= 4
      /\ block_size_max \in Nat /\ s < FlsLimit
  BY Words, LimitFacts
<1>1. CASE n < SMALL_BLOCK_SIZE
  <2>1. mapping_search(n) = mapping_insert(n)
    BY <1>1 DEF mapping_search
  <2> QED
    BY <1>1, <1>w, <2>1, ClassMono
<1>2. CASE ~(n < SMALL_BLOCK_SIZE)
  <2>1. n \div SL_INDEX_COUNT \in Nat /\ s >= n + (n \div SL_INDEX_COUNT) /\ n < FlsLimit /\ n >= SMALL_BLOCK_SIZE
    BY <1>2, <1>w, Division, LimitFacts
  <2>2. PICK w : w = 2^(tlsf_fls(n) - SL_INDEX_COUNT_LOG2)
    OBVIOUS
  <2>3. w \in Nat /\ w > 0 /\ SL_INDEX_COUNT * w <= n
    BY <2>1, <2>2, LargeClass
  <2>4. w * SL_INDEX_COUNT <= n
    BY <1>w, <2>3
  <2>5. w <= n \div SL_INDEX_COUNT
    BY <1>w, <2>3, <2>4, Division
  <2>6. PICK r \in Nat : r = n + w - 1
    BY <2>3
  <2>7. r <= s
    BY <2>1, <2>3, <2>5, <2>6
  <2>8. mapping_search(n) = mapping_insert(r)
    BY <1>2, <2>2, <2>6 DEF mapping_search
  <2> QED
    BY <1>w, <2>7, <2>8, ClassMono
<1> QED
  BY <1>1, <1>2
-----------------------------------------------------------------------------
(* Free lists.                                                             *)

SamePhys(g, h) ==
  /\ g.size = h.size /\ g.free = h.free /\ g.prev_free = h.prev_free
  /\ g.prev_phys = h.prev_phys /\ g.sound = h.sound

SameLists(g, h) ==
  /\ g.next_link = h.next_link /\ g.prev_link = h.prev_link /\ g.blocks = h.blocks
  /\ g.fl_bitmap = h.fl_bitmap /\ g.sl_bitmap = h.sl_bitmap

(* An assertion that holds changes nothing.                                *)
LEMMA AssertTrue ==
  ASSUME NEW h, HeapType(h), h.sound, NEW P, P PROVE tlsf_assert(h, P) = h
BY DEF HeapType, tlsf_assert

LEMMA ListsFrame ==
  ASSUME NEW h, NEW g, NEW S, ListsOK(h, S), SameLists(g, h), \A b \in S : g.size[b] = h.size[b]
  PROVE  ListsOK(g, S)
<1>1. \A b \in S : Class(g, b) = Class(h, b)
  BY DEF Class
<1>2. Links(g, S)
  BY <1>1 DEF Links, ListsOK, SameLists
<1>3. Bitmaps(g)
  BY DEF Bitmaps, ListsOK, SameLists
<1>4. Ranked(g, S)
  BY DEF Ranked, ListsOK, SameLists
<1> QED
  BY <1>2, <1>3, <1>4 DEF ListsOK

(* remove_free_block takes a block out of its list.                        *)
Removed(g, h, b, l, n, p) ==
  /\ \A a \in Addr : g.next_link[a] = IF a = b THEN 0 ELSE IF a = p THEN (IF p = 0 THEN 0 ELSE n)
                                      ELSE h.next_link[a]
  /\ \A a \in Addr : g.prev_link[a] = IF a = b THEN 0 ELSE IF a = n THEN (IF n = 0 THEN 0 ELSE p)
                                      ELSE h.prev_link[a]
  /\ g.blocks = IF h.blocks[l] # b THEN h.blocks ELSE [h.blocks EXCEPT ![l] = n]
  /\ IF h.blocks[l] # b \/ n # 0
     THEN g.sl_bitmap = h.sl_bitmap /\ g.fl_bitmap = h.fl_bitmap
     ELSE /\ g.sl_bitmap = [h.sl_bitmap EXCEPT ![l[1]] = @ \ {l[2]}]
          /\ g.fl_bitmap = IF h.sl_bitmap[l[1]] \ {l[2]} = {} THEN h.fl_bitmap \ {l[1]} ELSE h.fl_bitmap

LEMMA RemoveFields ==
  ASSUME NEW h, HeapType(h), NEW S, Links(h, S), NEW b \in S,
         NEW l, l = Class(h, b), NEW g, g = remove_free_block(h, b, l),
         NEW n, n = h.next_link[b], NEW p, p = h.prev_link[b]
  PROVE  /\ HeapType(g) /\ SamePhys(g, h)
         /\ l \in Lists /\ b \in Addr /\ n \in Addr /\ p \in Addr
         /\ Removed(g, h, b, l, n, p)
<1>1. b \in Addr /\ l \in Lists /\ n \in Addr /\ p \in Addr /\ 0 \in Addr
  BY AddrFacts DEF Links, HeapType
<1>2. l[1] \in 0 .. FL_INDEX_COUNT - 1 /\ l[2] \in 0 .. SL_INDEX_COUNT - 1
  BY <1>1 DEF Lists
<1> DEFINE k == [Link(h, p, n) EXCEPT !.next_link[b] = 0, !.prev_link[b] = 0]
<1>3. /\ HeapType(k) /\ SamePhys(k, h) /\ k.blocks = h.blocks /\ k.sl_bitmap = h.sl_bitmap
      /\ k.fl_bitmap = h.fl_bitmap
  BY <1>1 DEF HeapType, SamePhys, Link
<1>4. /\ \A a \in Addr : k.next_link[a] = IF a = b THEN 0 ELSE IF a = p THEN (IF p = 0 THEN 0 ELSE n)
                                             ELSE h.next_link[a]
      /\ \A a \in Addr : k.prev_link[a] = IF a = b THEN 0 ELSE IF a = n THEN (IF n = 0 THEN 0 ELSE p)
                                             ELSE h.prev_link[a]
  BY <1>1 DEF HeapType, Link
<1>5. g = IF h.blocks[l] # b THEN k
          ELSE IF n # 0 THEN [k EXCEPT !.blocks[l] = n]
          ELSE [k EXCEPT !.blocks[l] = 0, !.sl_bitmap[l[1]] = h.sl_bitmap[l[1]] \ {l[2]},
                         !.fl_bitmap = IF h.sl_bitmap[l[1]] \ {l[2]} = {} THEN @ \ {l[1]} ELSE @]
  BY DEF remove_free_block
<1> HIDE DEF k
<1>6. CASE h.blocks[l] # b
  BY <1>1, <1>3, <1>4, <1>5, <1>6 DEF Removed
<1>7. CASE h.blocks[l] = b /\ n # 0
  <2>1. g = [k EXCEPT !.blocks[l] = n]
    BY <1>5, <1>7
  <2>2. /\ HeapType(g) /\ SamePhys(g, h) /\ g.next_link = k.next_link /\ g.prev_link = k.prev_link
        /\ g.sl_bitmap = h.sl_bitmap /\ g.fl_bitmap = h.fl_bitmap
        /\ g.blocks = [h.blocks EXCEPT ![l] = n]
    BY <1>1, <1>3, <2>1, SMTT(30) DEF HeapType, SamePhys
  <2> QED
    BY <1>1, <1>4, <1>7, <2>2 DEF Removed
<1>8. CASE h.blocks[l] = b /\ n = 0
  <2>0. PICK m \in SUBSET (0 .. SL_INDEX_COUNT - 1) : m = h.sl_bitmap[l[1]] \ {l[2]}
    BY <1>2 DEF HeapType
  <2>f. PICK e \in SUBSET (0 .. FL_INDEX_COUNT - 1) : e = IF m = {} THEN k.fl_bitmap \ {l[1]} ELSE k.fl_bitmap
    BY <1>3 DEF HeapType
  <2>1. g = [k EXCEPT !.blocks[l] = 0, !.sl_bitmap[l[1]] = m, !.fl_bitmap = e]
    BY <1>5, <1>8, <2>0, <2>f
  <2>2. /\ SamePhys(g, k) /\ g.next_link = k.next_link /\ g.prev_link = k.prev_link
        /\ g.sl_bitmap = [k.sl_bitmap EXCEPT ![l[1]] = m] /\ g.fl_bitmap = e
        /\ g.blocks = [k.blocks EXCEPT ![l] = 0]
    BY <1>3, <2>1 DEF HeapType, SamePhys
  <2>3. HeapType(g)
    <3>1. /\ [k.blocks EXCEPT ![l] = 0] \in [Lists -> Addr]
          /\ [k.sl_bitmap EXCEPT ![l[1]] = m] \in [0 .. FL_INDEX_COUNT - 1 -> SUBSET (0 .. SL_INDEX_COUNT - 1)]
      BY <1>1, <1>2, <1>3 DEF HeapType
    <3>2. PICK x \in [Lists -> Addr], y \in [0 .. FL_INDEX_COUNT - 1 -> SUBSET (0 .. SL_INDEX_COUNT - 1)] :
            x = [k.blocks EXCEPT ![l] = 0] /\ y = [k.sl_bitmap EXCEPT ![l[1]] = m]
      BY <3>1
    <3>3. g = [k EXCEPT !.blocks = x, !.sl_bitmap = y, !.fl_bitmap = e]
      BY <2>1, <3>2
    <3> QED
      BY <1>3, <3>3 DEF HeapType
  <2> QED
    BY <1>1, <1>3, <1>4, <1>8, <2>0, <2>f, <2>2, <2>3 DEF SamePhys, Removed
<1> QED
  BY <1>6, <1>7, <1>8

LEMMA RemoveOK ==
  ASSUME NEW h, HeapType(h), NEW S, ListsOK(h, S), NEW b \in S,
         NEW g, g = remove_free_block(h, b, Class(h, b))
  PROVE  HeapType(g) /\ SamePhys(g, h) /\ ListsOK(g, S \ {b})
<1> DEFINE T == S \ {b}
<1>1. PICK l : l = Class(h, b)
  OBVIOUS
<1>2. PICK n : n = h.next_link[b]
  OBVIOUS
<1>3. PICK p : p = h.prev_link[b]
  OBVIOUS
<1>l. Links(h, S) /\ Bitmaps(h) /\ Ranked(h, S)
  BY DEF ListsOK
<1>4. /\ HeapType(g) /\ SamePhys(g, h)
      /\ l \in Lists /\ b \in Addr /\ n \in Addr /\ p \in Addr
      /\ Removed(g, h, b, l, n, p)
  BY <1>1, <1>2, <1>3, <1>l, RemoveFields
<1> USE DEF Removed
<1>5. /\ S \subseteq Addr /\ 0 \notin S
      /\ \A m \in Lists : h.blocks[m] # 0 =>
           h.blocks[m] \in S /\ Class(h, h.blocks[m]) = m /\ h.prev_link[h.blocks[m]] = 0
      /\ \A c \in S :
           /\ Class(h, c) \in Lists
           /\ h.prev_link[c] = 0 => h.blocks[Class(h, c)] = c
           /\ h.prev_link[c] # 0 => /\ h.prev_link[c] \in S /\ h.next_link[h.prev_link[c]] = c
                                    /\ Class(h, h.prev_link[c]) = Class(h, c)
           /\ h.next_link[c] # 0 => /\ h.next_link[c] \in S /\ h.prev_link[h.next_link[c]] = c
                                    /\ Class(h, h.next_link[c]) = Class(h, c)
  BY <1>l DEF Links
<1>6. PICK rank \in [Addr -> Int], least \in Int :
        /\ \A a \in Addr : least <= rank[a]
        /\ \A c \in S : h.prev_link[c] # 0 => rank[h.prev_link[c]] < rank[c]
  BY <1>l DEF Ranked
<1>7. p # b /\ n # b
  <2>1. p = b => rank[b] < rank[b]
    BY <1>3, <1>5, <1>6, ZenonT(30)
  <2>2. ~(rank[b] < rank[b])
    BY <1>4, <1>6
  <2>3. n = b => p = b
    BY <1>2, <1>3, <1>5
  <2> QED
    BY <2>1, <2>2, <2>3
<1>8. \A c \in Addr : Class(g, c) = Class(h, c)
  BY <1>4 DEF Class, SamePhys
<1>9. p = 0 <=> h.blocks[l] = b
  BY <1>1, <1>3, <1>4, <1>5
<1>10. ASSUME NEW m \in Lists, g.blocks[m] # 0
       PROVE  g.blocks[m] \in T /\ Class(g, g.blocks[m]) = m /\ g.prev_link[g.blocks[m]] = 0
  <2>1. CASE m = l /\ h.blocks[l] = b
    <3>1. g.blocks[m] = n
      BY <1>4, <2>1 DEF HeapType
    <3> QED
      BY <1>1, <1>2, <1>4, <1>5, <1>7, <1>8, <1>9, <1>10, <2>1, <3>1
  <2>2. CASE ~(m = l /\ h.blocks[l] = b)
    <3>1. g.blocks[m] = h.blocks[m]
      BY <1>4, <2>2 DEF HeapType
    <3>2. h.blocks[m] # b
      BY <1>1, <1>5, <1>10, <2>2, <3>1
    <3>3. h.blocks[m] # n
      BY <1>2, <1>5, <1>10, <3>1
    <3> QED
      BY <1>4, <1>5, <1>8, <1>10, <3>1, <3>2, <3>3
  <2> QED
    BY <2>1, <2>2
<1>11. ASSUME NEW c \in T
       PROVE  /\ g.prev_link[c] = 0 => g.blocks[Class(g, c)] = c
              /\ g.prev_link[c] # 0 => /\ g.prev_link[c] \in T /\ g.next_link[g.prev_link[c]] = c
                                       /\ Class(g, g.prev_link[c]) = Class(g, c)
  <2>1. CASE c = n
    <3>1. g.prev_link[c] = p /\ Class(g, c) = l
      BY <1>1, <1>2, <1>4, <1>5, <1>8, <2>1
    <3>2. p = 0 => g.blocks[l] = n
      BY <1>4, <1>9 DEF HeapType
    <3>3. p # 0 => p \in T /\ g.next_link[p] = n /\ Class(g, p) = l
      BY <1>1, <1>3, <1>4, <1>5, <1>7, <1>8
    <3> QED
      BY <2>1, <3>1, <3>2, <3>3
  <2>2. CASE c # n
    <3>1. g.prev_link[c] = h.prev_link[c] /\ Class(g, c) = Class(h, c)
      BY <1>4, <1>5, <1>8, <2>2
    <3>2. ASSUME h.prev_link[c] = 0 PROVE g.blocks[Class(h, c)] = c
      BY <1>4, <1>5, <3>2 DEF HeapType
    <3>3. ASSUME h.prev_link[c] # 0
          PROVE  /\ h.prev_link[c] \in T /\ g.next_link[h.prev_link[c]] = c
                 /\ Class(g, h.prev_link[c]) = Class(h, c)
      <4>1. h.prev_link[c] # b
        BY <1>2, <1>5, <2>2, <3>3
      <4>2. h.prev_link[c] \in T /\ h.next_link[h.prev_link[c]] = c
        BY <1>5, <3>3, <4>1
      <4>3. h.prev_link[c] # p
        BY <1>3, <1>5, <3>3, <4>2
      <4> QED
        BY <1>4, <1>5, <1>8, <3>3, <4>1, <4>2, <4>3
    <3> QED
      BY <3>1, <3>2, <3>3
  <2> QED
    BY <2>1, <2>2
<1>12. ASSUME NEW c \in T, g.next_link[c] # 0
       PROVE  /\ g.next_link[c] \in T /\ g.prev_link[g.next_link[c]] = c
              /\ Class(g, g.next_link[c]) = Class(g, c)
  <2>1. CASE c = p
    BY <1>1, <1>2, <1>3, <1>4, <1>5, <1>7, <1>8, <1>12, <2>1
  <2>2. CASE c # p
    <3>1. g.next_link[c] = h.next_link[c]
      BY <1>4, <1>5, <2>2
    <3>2. h.next_link[c] # b
      BY <1>3, <1>5, <1>12, <2>2, <3>1
    <3>3. h.next_link[c] # n
      BY <1>2, <1>5, <1>12, <3>1
    <3> QED
      BY <1>4, <1>5, <1>8, <1>12, <3>1, <3>2, <3>3
  <2> QED
    BY <2>1, <2>2
<1>13. Links(g, T)
  BY <1>5, <1>8, <1>10, <1>11, <1>12 DEF Links
<1>14. Ranked(g, T)
  <2>1. ASSUME NEW c \in T, g.prev_link[c] # 0 PROVE rank[g.prev_link[c]] < rank[c]
    <3>1. CASE c = n
      <4>1. g.prev_link[c] = p /\ p # 0
        BY <1>4, <1>5, <2>1, <3>1
      <4>2. rank[p] < rank[b] /\ rank[b] < rank[n]
        BY <1>2, <1>3, <1>5, <1>6, <3>1, <4>1
      <4>3. rank[p] \in Int /\ rank[b] \in Int /\ rank[n] \in Int
        BY <1>4, <1>6
      <4> QED
        BY <3>1, <4>1, <4>2, <4>3
    <3>2. CASE c # n
      BY <1>4, <1>5, <1>6, <2>1, <3>2
    <3> QED
      BY <3>1, <3>2
  <2> QED
    BY <1>6, <2>1 DEF Ranked
<1>15. Bitmaps(g)
  <2>0. /\ h.blocks \in [Lists -> Addr] /\ h.sl_bitmap \in [0 .. FL_INDEX_COUNT - 1 -> SUBSET (0 .. SL_INDEX_COUNT - 1)]
        /\ l = <<l[1], l[2]>> /\ l[1] \in 0 .. FL_INDEX_COUNT - 1
    <3>1. /\ h.blocks \in [Lists -> Addr]
          /\ h.sl_bitmap \in [0 .. FL_INDEX_COUNT - 1 -> SUBSET (0 .. SL_INDEX_COUNT - 1)]
      BY DEF HeapType
    <3>2. l = <<l[1], l[2]>> /\ l[1] \in 0 .. FL_INDEX_COUNT - 1
      BY <1>4 DEF Lists
    <3> QED
      BY <3>1, <3>2
  <2>1. ASSUME NEW m \in Lists PROVE m[2] \in g.sl_bitmap[m[1]] <=> g.blocks[m] # 0
    <3>0. m = <<m[1], m[2]>> /\ m[1] \in 0 .. FL_INDEX_COUNT - 1
      BY DEF Lists
    <3>h. m[2] \in h.sl_bitmap[m[1]] <=> h.blocks[m] # 0
      BY <1>l DEF Bitmaps
    <3>1. CASE h.blocks[l] # b \/ n # 0
      <4>1. h.blocks[m] = g.blocks[m] \/ (m = l /\ h.blocks[m] = b /\ g.blocks[m] = n)
        BY <1>4, <2>0
      <4> QED
        BY <1>4, <1>5, <3>h, <3>1, <4>1
    <3>2. CASE ~(h.blocks[l] # b \/ n # 0)
      <4>1. g.blocks = [h.blocks EXCEPT ![l] = 0] /\ g.sl_bitmap = [h.sl_bitmap EXCEPT ![l[1]] = @ \ {l[2]}]
        BY <1>4, <3>2
      <4>2. CASE m = l
        BY <2>0, <4>1, <4>2
      <4>3. CASE m[1] = l[1] /\ m # l
        <5>1. m[2] # l[2]
          BY <2>0, <3>0, <4>3
        <5> QED
          BY <2>0, <3>0, <3>h, <4>1, <4>3, <5>1
      <4>4. CASE m[1] # l[1]
        BY <2>0, <3>0, <3>h, <4>1, <4>4
      <4> QED
        BY <4>2, <4>3, <4>4
    <3> QED
      BY <3>1, <3>2
  <2>2. ASSUME NEW f \in 0 .. FL_INDEX_COUNT - 1 PROVE f \in g.fl_bitmap <=> g.sl_bitmap[f] # {}
    <3>h. f \in h.fl_bitmap <=> h.sl_bitmap[f] # {}
      BY <1>l DEF Bitmaps
    <3>1. CASE h.blocks[l] # b \/ n # 0
      BY <1>4, <3>h, <3>1
    <3>2. CASE ~(h.blocks[l] # b \/ n # 0)
      <4>1. /\ g.sl_bitmap = [h.sl_bitmap EXCEPT ![l[1]] = @ \ {l[2]}]
            /\ g.fl_bitmap = IF h.sl_bitmap[l[1]] \ {l[2]} = {} THEN h.fl_bitmap \ {l[1]} ELSE h.fl_bitmap
        BY <1>4, <3>2
      <4>2. CASE f # l[1]
        BY <2>0, <3>h, <4>1, <4>2
      <4>3. CASE f = l[1]
        <5>1. g.sl_bitmap[f] = h.sl_bitmap[f] \ {l[2]}
          BY <2>0, <4>1, <4>3
        <5> QED
          BY <3>h, <4>1, <4>3, <5>1
      <4> QED
        BY <4>2, <4>3
    <3> QED
      BY <3>1, <3>2
  <2> QED
    BY <2>1, <2>2 DEF Bitmaps
<1> QED
  BY <1>4, <1>13, <1>14, <1>15 DEF ListsOK

(* insert_free_block puts a block at the head of its list.                 *)
Inserted(g, h, b, l, c) ==
  /\ \A a \in Addr : g.next_link[a] = IF a = b THEN c ELSE IF a = 0 THEN 0 ELSE h.next_link[a]
  /\ \A a \in Addr : g.prev_link[a] = IF a = c THEN (IF c = 0 THEN 0 ELSE b)
                                      ELSE IF a = b THEN 0 ELSE h.prev_link[a]
  /\ g.blocks = [h.blocks EXCEPT ![l] = b]
  /\ g.sl_bitmap = [h.sl_bitmap EXCEPT ![l[1]] = @ \cup {l[2]}]
  /\ g.fl_bitmap = h.fl_bitmap \cup {l[1]}

LEMMA InsertFields ==
  ASSUME NEW h, HeapType(h), h.sound, NEW b \in Addr \ {0},
         NEW l, l = Class(h, b), l \in Lists, NEW g, g = block_insert(h, b),
         NEW c, c = h.blocks[l]
  PROVE  HeapType(g) /\ SamePhys(g, h) /\ c \in Addr /\ Inserted(g, h, b, l, c)
<1>1. c \in Addr /\ 0 \in Addr /\ b \in Addr
  BY AddrFacts DEF HeapType
<1>2. l[1] \in 0 .. FL_INDEX_COUNT - 1 /\ l[2] \in 0 .. SL_INDEX_COUNT - 1
  BY DEF Lists
<1>3. tlsf_assert(h, b % ALIGN_SIZE = 0) = h
  <2>1. b % ALIGN_SIZE = 0
    BY DEF Addr
  <2> QED
    BY <2>1, AssertTrue
<1> DEFINE k == Link(Link(h, 0, b), b, c)
<1>4. /\ HeapType(k) /\ SamePhys(k, h) /\ k.blocks = h.blocks /\ k.sl_bitmap = h.sl_bitmap
      /\ k.fl_bitmap = h.fl_bitmap
  BY <1>1 DEF HeapType, SamePhys, Link
<1>5. /\ \A a \in Addr : k.next_link[a] = IF a = b THEN c ELSE IF a = 0 THEN 0 ELSE h.next_link[a]
      /\ \A a \in Addr : k.prev_link[a] = IF a = c THEN (IF c = 0 THEN 0 ELSE b)
                                          ELSE IF a = b THEN 0 ELSE h.prev_link[a]
  BY <1>1 DEF HeapType, Link
<1>6. g = [k EXCEPT !.blocks[l] = b, !.fl_bitmap = @ \cup {l[1]}, !.sl_bitmap[l[1]] = @ \cup {l[2]}]
  BY <1>3 DEF block_insert, insert_free_block, Class
<1> HIDE DEF k
<1>7. PICK x \in [Lists -> Addr], y \in [0 .. FL_INDEX_COUNT - 1 -> SUBSET (0 .. SL_INDEX_COUNT - 1)],
           e \in SUBSET (0 .. FL_INDEX_COUNT - 1) :
        /\ x = [k.blocks EXCEPT ![l] = b] /\ y = [k.sl_bitmap EXCEPT ![l[1]] = @ \cup {l[2]}]
        /\ e = k.fl_bitmap \cup {l[1]}
  <2>1. [k.blocks EXCEPT ![l] = b] \in [Lists -> Addr]
    BY <1>1, <1>4 DEF HeapType
  <2>2. [k.sl_bitmap EXCEPT ![l[1]] = @ \cup {l[2]}] \in [0 .. FL_INDEX_COUNT - 1 -> SUBSET (0 .. SL_INDEX_COUNT - 1)]
    BY <1>2, <1>4, ZenonT(30) DEF HeapType
  <2>3. k.fl_bitmap \cup {l[1]} \in SUBSET (0 .. FL_INDEX_COUNT - 1)
    BY <1>2, <1>4 DEF HeapType
  <2> QED
    BY <2>1, <2>2, <2>3
<1>8. g = [k EXCEPT !.blocks = x, !.fl_bitmap = e, !.sl_bitmap = y]
  BY <1>6, <1>7
<1>9. HeapType(g)
  BY <1>4, <1>8 DEF HeapType
<1>10. SamePhys(g, h) /\ g.blocks = x /\ g.fl_bitmap = e /\ g.sl_bitmap = y /\ g.next_link = k.next_link
       /\ g.prev_link = k.prev_link
  BY <1>4, <1>8 DEF HeapType, SamePhys
<1> QED
  BY <1>1, <1>4, <1>5, <1>7, <1>9, <1>10 DEF Inserted

LEMMA InsertOK ==
  ASSUME NEW h, HeapType(h), h.sound, NEW S, ListsOK(h, S), NEW b \in Addr \ {0}, b \notin S,
         Class(h, b) \in Lists, NEW g, g = block_insert(h, b)
  PROVE  HeapType(g) /\ SamePhys(g, h) /\ ListsOK(g, S \cup {b})
<1> DEFINE T == S \cup {b}
<1>1. PICK l : l = Class(h, b)
  OBVIOUS
<1>2. PICK c : c = h.blocks[l]
  OBVIOUS
<1>l. Links(h, S) /\ Bitmaps(h) /\ Ranked(h, S)
  BY DEF ListsOK
<1>4. HeapType(g) /\ SamePhys(g, h) /\ c \in Addr /\ Inserted(g, h, b, l, c) /\ l \in Lists /\ b \in Addr
  BY <1>1, <1>2, InsertFields
<1> USE DEF Inserted
<1>5. /\ S \subseteq Addr /\ 0 \notin S
      /\ \A m \in Lists : h.blocks[m] # 0 =>
           h.blocks[m] \in S /\ Class(h, h.blocks[m]) = m /\ h.prev_link[h.blocks[m]] = 0
      /\ \A d \in S :
           /\ Class(h, d) \in Lists
           /\ h.prev_link[d] = 0 => h.blocks[Class(h, d)] = d
           /\ h.prev_link[d] # 0 => /\ h.prev_link[d] \in S /\ h.next_link[h.prev_link[d]] = d
                                    /\ Class(h, h.prev_link[d]) = Class(h, d)
           /\ h.next_link[d] # 0 => /\ h.next_link[d] \in S /\ h.prev_link[h.next_link[d]] = d
                                    /\ Class(h, h.next_link[d]) = Class(h, d)
  BY <1>l DEF Links
<1>6. PICK rank \in [Addr -> Int], least \in Int :
        /\ \A a \in Addr : least <= rank[a]
        /\ \A d \in S : h.prev_link[d] # 0 => rank[h.prev_link[d]] < rank[d]
  BY <1>l DEF Ranked
<1>7. c # b /\ b # 0 /\ (c # 0 => c \in S /\ Class(h, c) = l /\ h.prev_link[c] = 0)
  BY <1>2, <1>4, <1>5
<1>8. \A d \in Addr : Class(g, d) = Class(h, d)
  BY <1>4 DEF Class, SamePhys
<1>9. h.blocks \in [Lists -> Addr] /\ h.sl_bitmap \in [0 .. FL_INDEX_COUNT - 1 -> SUBSET (0 .. SL_INDEX_COUNT - 1)]
  BY DEF HeapType
<1>10. ASSUME NEW m \in Lists, g.blocks[m] # 0
       PROVE  g.blocks[m] \in T /\ Class(g, g.blocks[m]) = m /\ g.prev_link[g.blocks[m]] = 0
  <2>1. CASE m = l
    BY <1>1, <1>4, <1>7, <1>8, <1>9, <2>1
  <2>2. CASE m # l
    <3>1. g.blocks[m] = h.blocks[m]
      BY <1>4, <1>9, <2>2
    <3>2. h.blocks[m] # c
      BY <1>5, <1>7, <1>10, <2>2, <3>1
    <3> QED
      BY <1>4, <1>5, <1>8, <1>10, <3>1, <3>2
  <2> QED
    BY <2>1, <2>2
<1>11. ASSUME NEW d \in T
       PROVE  /\ g.prev_link[d] = 0 => g.blocks[Class(g, d)] = d
              /\ g.prev_link[d] # 0 => /\ g.prev_link[d] \in T /\ g.next_link[g.prev_link[d]] = d
                                       /\ Class(g, g.prev_link[d]) = Class(g, d)
  <2>1. CASE d = b
    BY <1>1, <1>4, <1>7, <1>8, <1>9, <2>1
  <2>2. CASE d # b /\ d = c
    BY <1>1, <1>4, <1>5, <1>7, <1>8, <2>2
  <2>3. CASE d # b /\ d # c
    <3>1. g.prev_link[d] = h.prev_link[d] /\ d \in S
      BY <1>4, <1>5, <2>3
    <3>2. ASSUME h.prev_link[d] = 0 PROVE g.blocks[Class(h, d)] = d
      <4>1. Class(h, d) # l
        BY <1>2, <1>5, <2>3, <3>1, <3>2
      <4> QED
        BY <1>4, <1>5, <1>9, <3>1, <3>2, <4>1
    <3> QED
      BY <1>4, <1>5, <1>8, <3>1, <3>2
  <2> QED
    BY <2>1, <2>2, <2>3
<1>12. ASSUME NEW d \in T, g.next_link[d] # 0
       PROVE  /\ g.next_link[d] \in T /\ g.prev_link[g.next_link[d]] = d
              /\ Class(g, g.next_link[d]) = Class(g, d)
  <2>1. CASE d = b
    BY <1>1, <1>4, <1>7, <1>8, <1>12, <2>1
  <2>2. CASE d # b
    <3>1. g.next_link[d] = h.next_link[d] /\ d \in S
      BY <1>4, <1>5, <2>2
    <3>2. h.next_link[d] # c
      BY <1>5, <1>7, <1>12, <3>1
    <3> QED
      BY <1>4, <1>5, <1>8, <1>12, <3>1, <3>2
  <2> QED
    BY <2>1, <2>2
<1>13. Links(g, T)
  <2>1. \A d \in T : Class(g, d) \in Lists
    BY <1>1, <1>4, <1>5, <1>8
  <2>2. T \subseteq Addr \ {0}
    BY <1>5
  <2> QED
    BY <2>1, <2>2, <1>10, <1>11, <1>12 DEF Links
<1>14. Ranked(g, T)
  <2>a. least - 1 \in Int /\ rank \in [Addr -> Int]
    BY <1>6
  <2>b. [rank EXCEPT ![b] = least - 1] \in [Addr -> Int]
    BY <2>a
  <2>0. PICK new \in [Addr -> Int] : new = [rank EXCEPT ![b] = least - 1]
    BY <2>b
  <2>1. \A a \in Addr : least - 1 <= new[a] /\ (a # b => new[a] = rank[a] /\ least - 1 < new[a])
    BY <1>4, <1>6, <2>0
  <2>2. ASSUME NEW d \in T, g.prev_link[d] # 0 PROVE new[g.prev_link[d]] < new[d]
    <3>1. CASE d = c
      BY <1>4, <1>5, <1>7, <2>0, <2>1, <2>2, <3>1
    <3>2. CASE d # c
      <4>1. d # b /\ d \in S /\ g.prev_link[d] = h.prev_link[d]
        BY <1>4, <1>5, <2>2, <3>2
      <4>2. h.prev_link[d] \in S /\ h.prev_link[d] # b
        BY <1>5, <2>2, <4>1
      <4> QED
        BY <1>5, <1>6, <2>1, <2>2, <4>1, <4>2
    <3> QED
      BY <3>1, <3>2
  <2> QED
    BY <2>1, <2>2, <2>a DEF Ranked
<1>15. Bitmaps(g)
  <2>0. l = <<l[1], l[2]>> /\ l[1] \in 0 .. FL_INDEX_COUNT - 1
    BY <1>4 DEF Lists
  <2>s. /\ g.sl_bitmap[l[1]] = h.sl_bitmap[l[1]] \cup {l[2]}
        /\ \A f \in 0 .. FL_INDEX_COUNT - 1 : f # l[1] => g.sl_bitmap[f] = h.sl_bitmap[f]
    <3>1. PICK i, j : i = l[1] /\ j = l[2]
      OBVIOUS
    <3>2. g.sl_bitmap = [h.sl_bitmap EXCEPT ![i] = @ \cup {j}] /\ i \in 0 .. FL_INDEX_COUNT - 1
      BY <1>4, <2>0, <3>1
    <3>3. g.sl_bitmap[i] = h.sl_bitmap[i] \cup {j} /\ \A f \in 0 .. FL_INDEX_COUNT - 1 : f # i => g.sl_bitmap[f] = h.sl_bitmap[f]
      BY <1>9, <3>2
    <3> QED
      BY <3>1, <3>3
  <2>1. ASSUME NEW m \in Lists PROVE m[2] \in g.sl_bitmap[m[1]] <=> g.blocks[m] # 0
    <3>0. m = <<m[1], m[2]>> /\ m[1] \in 0 .. FL_INDEX_COUNT - 1
      BY DEF Lists
    <3>h. m[2] \in h.sl_bitmap[m[1]] <=> h.blocks[m] # 0
      BY <1>l DEF Bitmaps
    <3>1. CASE m = l
      BY <1>4, <1>7, <1>9, <2>s, <3>1
    <3>2. CASE m[1] = l[1] /\ m # l
      <4>1. m[2] # l[2]
        BY <2>0, <3>0, <3>2
      <4> QED
        BY <1>4, <1>9, <2>s, <3>0, <3>h, <3>2, <4>1
    <3>3. CASE m[1] # l[1]
      BY <1>4, <1>9, <2>s, <3>0, <3>h, <3>3
    <3> QED
      BY <3>1, <3>2, <3>3
  <2>2. ASSUME NEW f \in 0 .. FL_INDEX_COUNT - 1 PROVE f \in g.fl_bitmap <=> g.sl_bitmap[f] # {}
    <3>h. f \in h.fl_bitmap <=> h.sl_bitmap[f] # {}
      BY <1>l DEF Bitmaps
    <3>1. CASE f = l[1]
      <4>1. l[2] \in g.sl_bitmap[f]
        BY <2>s, <3>1
      <4> QED
        BY <1>4, <3>1, <4>1
    <3>2. CASE f # l[1]
      BY <1>4, <2>s, <3>h, <3>2
    <3> QED
      BY <3>1, <3>2
  <2> QED
    BY <2>1, <2>2 DEF Bitmaps
<1> QED
  BY <1>4, <1>13, <1>14, <1>15 DEF ListsOK
-----------------------------------------------------------------------------
(* Physical blocks.                                                        *)

LEMMA NextFacts ==
  ASSUME NEW h, HeapType(h), NEW end, Phys(h, end)
  PROVE  /\ \A b \in Starts(h) :
              /\ b \in Addr /\ b \in Nat /\ h.size[b] \in Mult /\ h.size[b] \in Nat
              /\ h.size[b] >= 3 * ALIGN_SIZE /\ h.size[b] < block_size_max
              /\ block_next(h, b) = b + h.size[b] + ALIGN_SIZE
              /\ block_next(h, b) \in Addr /\ block_next(h, b) \in Nat /\ b < block_next(h, b)
              /\ First <= b /\ block_next(h, b) <= end
              /\ block_next(h, b) # First /\ block_next(h, b) \in Starts(h) \cup {end}
         /\ \A b, c \in Starts(h) : block_next(h, b) = block_next(h, c) => b = c
         /\ \A b, c \in Starts(h) : b < c => block_next(h, b) <= c
         /\ 0 \notin Starts(h) /\ end \notin Starts(h) /\ end \in Addr /\ end \in Nat
         /\ First \in Starts(h) /\ First \notin h.prev_free
         /\ \A c \in (Starts(h) \ {First}) \cup {end} : \E b \in Starts(h) : block_next(h, b) = c
<1>1. ALIGN_SIZE \in Nat /\ ALIGN_SIZE >= 1 /\ block_header_overhead = ALIGN_SIZE /\ block_size_min = 3 * ALIGN_SIZE
      /\ block_size_max \in Nat
  BY Words
<1>2. First \in Nat /\ First > 0
  BY <1>1, KallocAssumption DEF First
<1>3. end \in Addr /\ end \in Nat /\ end < First + block_size_max + ALIGN_SIZE
  BY <1>1, AddrFacts DEF Phys
<1>4. ASSUME NEW b \in Starts(h)
      PROVE  /\ b \in Addr /\ b \in Nat /\ h.size[b] \in Mult /\ h.size[b] \in Nat
             /\ h.size[b] >= 3 * ALIGN_SIZE /\ h.size[b] < block_size_max
             /\ block_next(h, b) = b + h.size[b] + ALIGN_SIZE
             /\ block_next(h, b) \in Addr /\ block_next(h, b) \in Nat /\ b < block_next(h, b)
             /\ First <= b /\ block_next(h, b) <= end
             /\ block_next(h, b) # First /\ block_next(h, b) \in Starts(h) \cup {end}
  <2>1. b \in Addr /\ b \in Nat /\ h.size[b] \in Mult /\ h.size[b] \in Nat
    BY AddrFacts, MultFacts DEF Starts, HeapType
  <2>2. /\ First <= b /\ h.size[b] >= 3 * ALIGN_SIZE
        /\ block_next(h, b) \in Starts(h) \cup {end} /\ block_next(h, b) <= end
    BY <1>1 DEF Phys
  <2>3. block_next(h, b) = b + h.size[b] + ALIGN_SIZE
    BY <1>1 DEF block_next
  <2>4. block_next(h, b) \in Addr
    BY <1>3, <2>2 DEF Starts
  <2>5. block_next(h, b) \in Nat /\ b < block_next(h, b) /\ block_next(h, b) # First
    BY <1>1, <1>2, <2>1, <2>2, <2>3
  <2>6. h.size[b] < block_size_max
    BY <1>1, <1>2, <1>3, <2>1, <2>2, <2>3
  <2> QED
    BY <2>1, <2>2, <2>3, <2>4, <2>5, <2>6
<1>5. \A b, c \in Starts(h) : b < c => block_next(h, b) <= c
  BY DEF Phys
<1>6. ASSUME NEW b \in Starts(h), NEW c \in Starts(h), block_next(h, b) = block_next(h, c) PROVE b = c
  <2>1. b < c => FALSE
    BY <1>4, <1>5, <1>6
  <2>2. c < b => FALSE
    BY <1>4, <1>5, <1>6
  <2>3. b \in Nat /\ c \in Nat
    BY <1>4
  <2> QED
    BY <2>1, <2>2, <2>3
<1>7. 0 \notin Starts(h)
  BY <1>2, <1>4
<1>8. end \notin Starts(h)
  <2> SUFFICES ASSUME end \in Starts(h) PROVE FALSE
    OBVIOUS
  <2>1. end < block_next(h, end) /\ block_next(h, end) <= end /\ block_next(h, end) \in Nat
    BY <1>4
  <2> QED
    BY <1>3, <2>1
<1>9. \A c \in (Starts(h) \ {First}) \cup {end} : \E b \in Starts(h) : block_next(h, b) = c
  BY DEF Phys
<1> QED
  BY <1>3, <1>4, <1>5, <1>6, <1>7, <1>8, <1>9 DEF Phys

(* Cutting a block in two.                                                 *)
SplitOf(g, h, b, n, r) ==
  /\ g.size \in [Addr -> Mult] /\ g.size[b] = n /\ g.size[r] = h.size[b] - (n + ALIGN_SIZE)
  /\ \A a \in Addr \ {b, r} : g.size[a] = h.size[a]

LEMMA SplitPhys ==
  ASSUME NEW h, HeapType(h), NEW end, Phys(h, end), NEW b \in Starts(h),
         NEW n \in Mult, n >= 3 * ALIGN_SIZE, n + 4 * ALIGN_SIZE <= h.size[b],
         NEW r, r = b + n + ALIGN_SIZE, NEW g, SplitOf(g, h, b, n, r), First \notin g.prev_free
  PROVE  /\ Phys(g, end) /\ Starts(g) = Starts(h) \cup {r} /\ r \notin Starts(h) /\ r # end /\ r # First
         /\ r # b
         /\ block_next(g, b) = r /\ block_next(g, r) = block_next(h, b)
         /\ \A c \in Starts(h) \ {b} : block_next(g, c) = block_next(h, c)
<1>1. ALIGN_SIZE \in Nat /\ ALIGN_SIZE >= 1 /\ block_header_overhead = ALIGN_SIZE /\ block_size_min = 3 * ALIGN_SIZE
      /\ n \in Nat
  BY Words, MultFacts
<1>2. /\ b \in Addr /\ b \in Nat /\ h.size[b] \in Nat /\ h.size[b] \in Mult
      /\ block_next(h, b) = b + h.size[b] + ALIGN_SIZE /\ First <= b /\ block_next(h, b) <= end
      /\ end \in Nat /\ First \in Starts(h) /\ end \notin Starts(h)
  BY NextFacts
<1>3. r \in Nat /\ b < r /\ r + 4 * ALIGN_SIZE <= block_next(h, b)
  BY <1>1, <1>2
<1>4. r \notin Starts(h)
  <2> SUFFICES ASSUME r \in Starts(h) PROVE FALSE
    OBVIOUS
  <2>1. block_next(h, b) <= r
    BY <1>3, NextFacts
  <2> QED
    BY <1>1, <1>2, <1>3, <2>1
<1>5. First \in Nat /\ r # end /\ r # b /\ r # First
  BY <1>1, <1>2, <1>3, NextFacts
<1>6. r \in Addr
  <2>1. r \in Mult
    BY <1>2, MultFacts, AddrFacts
  <2>2. end <= Top /\ Top \in Nat
    BY AddrFacts, NextFacts
  <2>3. r <= Top
    BY <1>1, <1>2, <1>3, <2>2
  <2> QED
    BY <2>1, <2>3, AddrFacts
<1>7. g.size[r] >= 3 * ALIGN_SIZE /\ g.size[r] \in Nat /\ g.size[b] = n /\ g.size[r] = h.size[b] - (n + ALIGN_SIZE)
  BY <1>1, <1>2 DEF SplitOf
<1>8. Starts(g) = Starts(h) \cup {r}
  <2>1. g.size[r] # 0 /\ g.size[b] # 0
    BY <1>1, <1>7
  <2> QED
    BY <1>6, <2>1 DEF Starts, SplitOf
<1>9. block_next(g, b) = r /\ block_next(g, r) = block_next(h, b)
  <2>1. block_next(g, b) = b + g.size[b] + ALIGN_SIZE /\ block_next(g, r) = r + g.size[r] + ALIGN_SIZE
    BY <1>1 DEF block_next
  <2> QED
    BY <1>1, <1>2, <1>7, <2>1
<1>10. \A c \in Starts(h) \ {b} : block_next(g, c) = block_next(h, c) /\ g.size[c] = h.size[c]
  BY <1>4 DEF block_next, SplitOf, Starts
<1>11. ASSUME NEW c \in Starts(g)
       PROVE  /\ First <= c /\ g.size[c] >= block_size_min
              /\ block_next(g, c) \in Starts(g) \cup {end} /\ block_next(g, c) <= end
  <2>1. CASE c = b
    <3>1. r <= end
      BY <1>1, <1>2, <1>3
    <3> QED
      BY <1>1, <1>2, <1>7, <1>8, <1>9, <2>1, <3>1
  <2>2. CASE c = r
    <3>1. First <= r
      BY <1>2, <1>3, <1>5
    <3>2. block_next(h, b) \in Starts(h) \cup {end}
      BY NextFacts
    <3> QED
      BY <1>1, <1>2, <1>7, <1>8, <1>9, <2>2, <3>1, <3>2
  <2>3. CASE c # b /\ c # r
    BY <1>1, <1>8, <1>10, <2>3, NextFacts
  <2> QED
    BY <2>1, <2>2, <2>3
<1>12. ASSUME NEW c \in Starts(g), NEW d \in Starts(g), c < d PROVE block_next(g, c) <= d
  <2>1. CASE c = b
    <3>1. CASE d = r
      BY <1>3, <1>9, <2>1, <3>1
    <3>2. CASE d # r
      <4>1. d \in Starts(h) /\ block_next(h, b) <= d /\ d \in Nat
        BY <1>8, <1>12, <2>1, <3>2, NextFacts
      <4> QED
        BY <1>1, <1>2, <1>3, <1>9, <2>1, <4>1
    <3> QED
      BY <3>1, <3>2
  <2>2. CASE c = r
    <3>1. d \in Starts(h) /\ d \in Nat
      BY <1>3, <1>8, <1>12, <2>2, NextFacts
    <3>2. b < d
      BY <1>2, <1>3, <1>12, <2>2, <3>1
    <3> QED
      BY <1>9, <2>2, <3>1, <3>2, NextFacts, ZenonT(30)
  <2>3. CASE c # b /\ c # r
    <3>1. c \in Starts(h) /\ block_next(g, c) = block_next(h, c) /\ c \in Nat /\ block_next(h, c) \in Nat
      BY <1>8, <1>10, <2>3, NextFacts
    <3>2. CASE d = r
      <4>1. c < b
        <5>1. b < c => block_next(h, b) <= c
          BY <3>1, NextFacts
        <5> QED
          BY <1>1, <1>2, <1>3, <1>12, <2>3, <3>1, <3>2, <5>1
      <4>2. block_next(h, c) <= b
        BY <3>1, <4>1, NextFacts
      <4> QED
        BY <1>2, <1>3, <3>1, <3>2, <4>2
    <3>3. CASE d # r
      BY <1>8, <1>12, <3>1, <3>3, NextFacts
    <3> QED
      BY <3>2, <3>3
  <2> QED
    BY <2>1, <2>2, <2>3
<1>13. ASSUME NEW c \in (Starts(g) \ {First}) \cup {end} PROVE \E d \in Starts(g) : block_next(g, d) = c
  <2>1. CASE c = r
    BY <1>8, <1>9, <2>1
  <2>2. CASE c # r
    <3>1. PICK d \in Starts(h) : block_next(h, d) = c
      BY <1>8, <2>2, NextFacts
    <3> QED
      BY <1>8, <1>9, <1>10, <3>1
  <2> QED
    BY <2>1, <2>2
<1>14. First \in Starts(g) /\ end \in Addr /\ end < First + block_size_max + block_header_overhead
  BY <1>2, <1>8 DEF Phys
<1>15. Phys(g, end)
  BY <1>11, <1>12, <1>13, <1>14 DEF Phys
<1> QED
  BY <1>4, <1>5, <1>8, <1>9, <1>10, <1>15

(* Joining a block and the one behind it.                                  *)
JoinOf(g, h, b, c) ==
  /\ g.size[b] = h.size[b] + h.size[c] + ALIGN_SIZE /\ g.size[c] = 0
  /\ \A a \in Addr \ {b, c} : g.size[a] = h.size[a]

LEMMA JoinPhys ==
  ASSUME NEW h, HeapType(h), NEW end, Phys(h, end), NEW b \in Starts(h),
         NEW c \in Starts(h), c = block_next(h, b),
         NEW g, JoinOf(g, h, b, c), First \notin g.prev_free
  PROVE  /\ Phys(g, end) /\ Starts(g) = Starts(h) \ {c} /\ c # First /\ b # c
         /\ block_next(g, b) = block_next(h, c)
         /\ \A d \in Starts(h) \ {b, c} : block_next(g, d) = block_next(h, d)
<1>1. ALIGN_SIZE \in Nat /\ ALIGN_SIZE >= 1 /\ block_header_overhead = ALIGN_SIZE /\ block_size_min = 3 * ALIGN_SIZE
  BY Words
<1>2. /\ b \in Nat /\ h.size[b] \in Nat /\ h.size[b] >= 3 * ALIGN_SIZE /\ First <= b
      /\ c = b + h.size[b] + ALIGN_SIZE /\ c # First /\ b \in Addr
      /\ c \in Nat /\ h.size[c] \in Nat /\ block_next(h, c) = c + h.size[c] + ALIGN_SIZE
      /\ block_next(h, c) <= end /\ block_next(h, c) \in Starts(h) \cup {end} /\ end \in Nat
      /\ First \in Starts(h) /\ block_next(h, c) \in Nat /\ c < block_next(h, c)
  BY NextFacts
<1>3. b < c /\ b # c
  BY <1>1, <1>2
<1>4. /\ g.size[b] = h.size[b] + h.size[c] + ALIGN_SIZE /\ g.size[c] = 0
      /\ \A a \in Addr \ {b, c} : g.size[a] = h.size[a]
  BY DEF JoinOf
<1>5. g.size[b] \in Nat /\ g.size[b] >= 3 * ALIGN_SIZE /\ g.size[b] # 0
  BY <1>1, <1>2, <1>4
<1>6. Starts(g) = Starts(h) \ {c}
  BY <1>4, <1>5 DEF Starts
<1>7. block_next(g, b) = block_next(h, c)
  <2>1. block_next(g, b) = b + g.size[b] + ALIGN_SIZE
    BY <1>1 DEF block_next
  <2> QED
    BY <1>1, <1>2, <1>4, <2>1
<1>8. \A d \in Starts(h) \ {b, c} : block_next(g, d) = block_next(h, d) /\ g.size[d] = h.size[d]
  BY <1>4 DEF block_next, Starts
<1>9. \A d \in Starts(h) : block_next(h, d) = c => d = b
  BY NextFacts
<1>10. ASSUME NEW d \in Starts(g)
       PROVE  /\ First <= d /\ g.size[d] >= block_size_min
              /\ block_next(g, d) \in Starts(g) \cup {end} /\ block_next(g, d) <= end
  <2>1. CASE d = b
    <3>1. block_next(h, c) # c
      BY <1>2
    <3> QED
      BY <1>1, <1>2, <1>5, <1>6, <1>7, <2>1, <3>1
  <2>2. CASE d # b
    <3>1. d \in Starts(h) \ {b, c}
      BY <1>6, <2>2
    <3>2. block_next(g, d) = block_next(h, d) /\ block_next(h, d) # c /\ g.size[d] = h.size[d]
      BY <1>8, <1>9, <2>2, <3>1
    <3> QED
      BY <1>1, <1>6, <3>1, <3>2, NextFacts
  <2> QED
    BY <2>1, <2>2
<1>11. ASSUME NEW d \in Starts(g), NEW e \in Starts(g), d < e PROVE block_next(g, d) <= e
  <2>0. d \in Starts(h) /\ e \in Starts(h) /\ e # c /\ d # c /\ e \in Nat /\ d \in Nat
    BY <1>6, NextFacts
  <2>1. CASE d = b
    <3>1. block_next(h, b) <= e
      BY <1>11, <2>0, <2>1, NextFacts
    <3>2. c < e
      BY <1>2, <2>0, <3>1
    <3> QED
      BY <1>7, <2>0, <2>1, <3>2, NextFacts
  <2>2. CASE d # b
    BY <1>8, <1>11, <2>0, <2>2, NextFacts
  <2> QED
    BY <2>1, <2>2
<1>12. ASSUME NEW d \in (Starts(g) \ {First}) \cup {end} PROVE \E e \in Starts(g) : block_next(g, e) = d
  <2>1. PICK e \in Starts(h) : block_next(h, e) = d
    BY <1>6, NextFacts
  <2>2. CASE e = c
    BY <1>3, <1>6, <1>7, <2>1, <2>2
  <2>3. CASE e = b
    <3>1. d = c /\ d # end
      BY <2>1, <2>3, NextFacts
    <3> QED
      BY <1>6, <3>1
  <2>4. CASE e # b /\ e # c
    BY <1>6, <1>8, <2>1, <2>4
  <2> QED
    BY <2>2, <2>3, <2>4
<1>13. First \in Starts(g) /\ end \in Addr /\ end < First + block_size_max + block_header_overhead
  BY <1>2, <1>6 DEF Phys
<1>14. Phys(g, end)
  BY <1>10, <1>11, <1>12, <1>13 DEF Phys
<1> QED
  BY <1>2, <1>6, <1>7, <1>8, <1>14, <1>3

(* The fields that the physical operations change.                         *)
Marked(g, h, free, prev_free, x, p) ==
  /\ HeapType(g) /\ g.sound /\ SameLists(g, h) /\ g.size = h.size
  /\ g.free = free /\ g.prev_free = prev_free
  /\ \A a \in Addr : g.prev_phys[a] = IF a = x THEN p ELSE h.prev_phys[a]

LEMMA LinkFields ==
  ASSUME NEW h, HeapType(h), h.sound, NEW b \in Addr, h.size[b] # 0, NEW x, x = block_next(h, b), x \in Addr,
         NEW g, g = block_link_next(h, b)
  PROVE  Marked(g, h, h.free, h.prev_free, x, b)
<1>1. tlsf_assert(h, h.size[b] # 0) = h
  BY AssertTrue
<1>2. g = [h EXCEPT !.prev_phys[x] = b]
  BY <1>1 DEF block_link_next
<1>3. HeapType(g) /\ g.sound /\ SameLists(g, h) /\ g.size = h.size
      /\ g.free = h.free /\ g.prev_free = h.prev_free
  BY <1>2 DEF HeapType, SameLists
<1>4. \A a \in Addr : g.prev_phys[a] = IF a = x THEN b ELSE h.prev_phys[a]
  BY <1>2 DEF HeapType
<1> QED
  BY <1>3, <1>4 DEF Marked

LEMMA FreeFields ==
  ASSUME NEW h, HeapType(h), h.sound, NEW b \in Addr, h.size[b] # 0, NEW x, x = block_next(h, b), x \in Addr,
         NEW g, g = block_mark_as_free(h, b)
  PROVE  Marked(g, h, h.free \cup {b}, h.prev_free \cup {x}, x, b)
<1>1. PICK k : k = block_link_next(h, b)
  OBVIOUS
<1>2. g = [k EXCEPT !.prev_free = @ \cup {x}, !.free = @ \cup {b}]
  BY <1>1 DEF block_mark_as_free
<1>3. Marked(k, h, h.free, h.prev_free, x, b)
  BY <1>1, LinkFields
<1>4. HeapType(g)
  <2>1. HeapType(k) /\ k.free \cup {b} \in SUBSET Addr /\ k.prev_free \cup {x} \in SUBSET Addr
    BY <1>3 DEF HeapType, Marked
  <2>2. PICK u \in SUBSET Addr, v \in SUBSET Addr : u = k.free \cup {b} /\ v = k.prev_free \cup {x}
    BY <2>1
  <2>3. g = [k EXCEPT !.prev_free = v, !.free = u]
    BY <1>2, <2>2
  <2> QED
    BY <2>1, <2>3 DEF HeapType
<1> QED
  BY <1>2, <1>3, <1>4 DEF HeapType, SameLists, Marked

LEMMA UsedFields ==
  ASSUME NEW h, HeapType(h), h.sound, NEW b \in Addr, h.size[b] # 0, NEW x, x = block_next(h, b), x \in Addr,
         NEW g, g = block_mark_as_used(h, b)
  PROVE  Marked(g, h, h.free \ {b}, h.prev_free \ {x}, x, 0)
<1>1. tlsf_assert(h, h.size[b] # 0) = h
  BY AssertTrue
<1>2. 0 \in Addr
  BY AddrFacts
<1>3. g = [h EXCEPT !.prev_free = @ \ {x}, !.free = @ \ {b}, !.prev_phys[x] = 0]
  BY <1>1 DEF block_mark_as_used
<1>4. HeapType(g)
  <2>1. /\ h.free \ {b} \in SUBSET Addr /\ h.prev_free \ {x} \in SUBSET Addr
        /\ [h.prev_phys EXCEPT ![x] = 0] \in [Addr -> Addr]
    BY <1>2 DEF HeapType
  <2>2. PICK u \in SUBSET Addr, v \in SUBSET Addr, z \in [Addr -> Addr] :
          u = h.free \ {b} /\ v = h.prev_free \ {x} /\ z = [h.prev_phys EXCEPT ![x] = 0]
    BY <2>1
  <2>3. g = [h EXCEPT !.prev_free = v, !.free = u, !.prev_phys = z]
    BY <1>3, <2>2
  <2> QED
    BY <2>3 DEF HeapType
<1>5. \A a \in Addr : g.prev_phys[a] = IF a = x THEN 0 ELSE h.prev_phys[a]
  BY <1>2, <1>3 DEF HeapType
<1> QED
  BY <1>3, <1>4, <1>5 DEF HeapType, SameLists, Marked

(* block_split: the flags of the new block are junk until they are set.    *)
SplitDone(g, h, b, n, r, x) ==
  /\ SplitOf(g, h, b, n, r) /\ g.free = h.free \cup {r}
  /\ g.prev_free \ {r} = (h.prev_free \ {r}) \cup {x}
  /\ \A a \in Addr : g.prev_phys[a] = IF a = x THEN r ELSE h.prev_phys[a]

LEMMA SplitFields ==
  ASSUME NEW h, HeapType(h), h.sound, NEW b \in Addr, NEW n \in Mult, n >= 3 * ALIGN_SIZE,
         n + 4 * ALIGN_SIZE <= h.size[b], NEW r, r = b + n + ALIGN_SIZE, r \in Addr,
         NEW x, x = block_next(h, b), x \in Addr, NEW junk \in JunkFlags, NEW g, g = block_split(h, b, n, junk)
  PROVE  HeapType(g) /\ g.sound /\ SameLists(g, h) /\ SplitDone(g, h, b, n, r, x)
<1>1. ALIGN_SIZE \in Nat /\ ALIGN_SIZE >= 1 /\ block_header_overhead = ALIGN_SIZE /\ block_size_min = 3 * ALIGN_SIZE
      /\ n \in Nat /\ b \in Nat /\ h.size[b] \in Mult /\ h.size[b] \in Nat
  BY Words, MultFacts, AddrFacts DEF HeapType
<1>2. PICK m : m = h.size[b] - (n + ALIGN_SIZE)
  OBVIOUS
<1>3. m \in Mult /\ m >= 3 * ALIGN_SIZE /\ m \in Nat /\ m # 0 /\ r # b
  <2>0. n + ALIGN_SIZE \in Mult
    BY MultFacts
  <2>1. n + ALIGN_SIZE \in Mult /\ h.size[b] >= n + ALIGN_SIZE
    BY <1>1, <2>0
  <2> QED
    BY <1>1, <1>2, <2>1, MultFacts
<1>4. junk.free \in BOOLEAN /\ junk.prev_free \in BOOLEAN
  BY TlsfAssumption
<1> DEFINE k == SetFlags(h, r, junk)
<1>5. PICK u \in SUBSET Addr, v \in SUBSET Addr :
        /\ u = IF junk.free THEN h.free \cup {r} ELSE h.free \ {r}
        /\ v = IF junk.prev_free THEN h.prev_free \cup {r} ELSE h.prev_free \ {r}
  <2>1. h.free \in SUBSET Addr /\ h.prev_free \in SUBSET Addr
    BY DEF HeapType
  <2>2. /\ (IF junk.free THEN h.free \cup {r} ELSE h.free \ {r}) \in SUBSET Addr
        /\ (IF junk.prev_free THEN h.prev_free \cup {r} ELSE h.prev_free \ {r}) \in SUBSET Addr
    BY <2>1
  <2> QED
    BY <2>2
<1>6. k = [h EXCEPT !.free = u, !.prev_free = v]
  BY <1>5 DEF SetFlags
<1> HIDE DEF k
<1>7. /\ HeapType(k) /\ k.sound /\ SameLists(k, h) /\ k.size = h.size /\ k.free = u /\ k.prev_free = v
      /\ k.prev_phys = h.prev_phys
  BY <1>6 DEF HeapType, SameLists
<1> DEFINE s == [k EXCEPT !.size[r] = m, !.size[b] = n]
<1>8. /\ HeapType(s) /\ s.sound /\ SameLists(s, h) /\ s.free = u /\ s.prev_free = v
      /\ s.prev_phys = h.prev_phys /\ s.size = [h.size EXCEPT ![r] = m, ![b] = n]
  <2>1. PICK z \in [Addr -> Mult] : z = [h.size EXCEPT ![r] = m, ![b] = n]
    BY <1>3 DEF HeapType
  <2>2. s = [k EXCEPT !.size = z]
    BY <1>7, <2>1 DEF HeapType
  <2> HIDE DEF s
  <2> QED
    BY <1>7, <2>1, <2>2 DEF HeapType, SameLists
<1>9. tlsf_assert(s, r % ALIGN_SIZE = 0 /\ m >= block_size_min) = s
  <2>1. r % ALIGN_SIZE = 0 /\ m >= block_size_min
    BY <1>1, <1>3 DEF Addr
  <2> HIDE DEF s
  <2> QED
    BY <1>8, <2>1, AssertTrue
<1>10. Remaining(b, n) = r
  BY <1>1 DEF Remaining
<1>11. g = block_mark_as_free(s, r)
  BY <1>1, <1>2, <1>9, <1>10 DEF block_split, k
<1> HIDE DEF s
<1>12. SplitOf(s, h, b, n, r)
  <2>1. h.size \in [Addr -> Mult]
    BY DEF HeapType
  <2>2. s.size[b] = n /\ s.size[r] = m /\ \A a \in Addr \ {b, r} : s.size[a] = h.size[a]
    BY <1>3, <1>8, <2>1
  <2>3. s.size \in [Addr -> Mult]
    BY <1>8 DEF HeapType
  <2> QED
    BY <1>2, <2>2, <2>3 DEF SplitOf
<1>13. block_next(s, r) = x /\ s.size[r] # 0
  <2>1. block_next(s, r) = r + m + ALIGN_SIZE /\ x = b + h.size[b] + ALIGN_SIZE
    BY <1>1, <1>2, <1>12 DEF block_next, SplitOf
  <2> QED
    BY <1>1, <1>2, <1>3, <1>12, <2>1 DEF SplitOf
<1>14. Marked(g, s, s.free \cup {r}, s.prev_free \cup {x}, x, r)
  BY <1>8, <1>11, <1>13, FreeFields
<1>m. /\ HeapType(g) /\ g.sound /\ SameLists(g, s) /\ g.size = s.size
      /\ g.free = s.free \cup {r} /\ g.prev_free = s.prev_free \cup {x}
      /\ \A a \in Addr : g.prev_phys[a] = IF a = x THEN r ELSE s.prev_phys[a]
  BY <1>14 DEF Marked
<1>15. SameLists(g, h)
  BY <1>8, <1>m DEF SameLists
<1>16. g.free = h.free \cup {r} /\ g.prev_free \ {r} = (h.prev_free \ {r}) \cup {x}
  <2>1. x # r
    <3>1. x = b + h.size[b] + ALIGN_SIZE
      BY <1>1 DEF block_next
    <3> QED
      BY <1>1, <3>1
  <2> QED
    BY <1>4, <1>5, <1>8, <1>m, <2>1
<1>17. \A a \in Addr : g.prev_phys[a] = IF a = x THEN r ELSE h.prev_phys[a]
  BY <1>8, <1>m
<1> QED
  BY <1>12, <1>m, <1>15, <1>16, <1>17 DEF SplitDone, SplitOf

(* What the split leaves: the new block is free and knows the one before.  *)
SplitFlags(g, h, b, r, x) ==
  /\ g.free = h.free \cup {r} /\ g.prev_free \ {r} = (h.prev_free \ {r}) \cup {x}
  /\ r \in g.prev_free <=> b \in h.free
  /\ b \in h.free => g.prev_phys[r] = b
  /\ \A a \in Addr \ {r} : g.prev_phys[a] = IF a = x THEN r ELSE h.prev_phys[a]

LEMMA SplitOK ==
  ASSUME NEW h, HeapType(h), NEW end, Phys(h, end), Flags(h), NEW b \in Starts(h),
         NEW n \in Mult, n >= 3 * ALIGN_SIZE, n + 4 * ALIGN_SIZE <= h.size[b],
         NEW r, r = b + n + ALIGN_SIZE, NEW x, x = block_next(h, b),
         NEW g, SplitOf(g, h, b, n, r), SplitFlags(g, h, b, r, x)
  PROVE  /\ Phys(g, end) /\ Flags(g) /\ Starts(g) = Starts(h) \cup {r} /\ r \notin Starts(h)
         /\ block_next(g, b) = r /\ block_next(g, r) = x
         /\ Apart(h, 0) => Apart(g, r)
         /\ Apart(h, b) /\ x \notin h.free /\ b \in h.free => Apart(g, b)
<1>1. First \notin g.prev_free
  <2>1. First \notin h.prev_free /\ x # First /\ First <= b /\ b \in Nat /\ First \in Nat
    BY NextFacts
  <2>2. r # First
    BY <2>1, Words, MultFacts
  <2> QED
    BY <2>1, <2>2 DEF SplitFlags
<1>2. /\ Phys(g, end) /\ Starts(g) = Starts(h) \cup {r} /\ r \notin Starts(h) /\ r # end /\ r # First /\ r # b
      /\ block_next(g, b) = r /\ block_next(g, r) = x
      /\ \A c \in Starts(h) \ {b} : block_next(g, c) = block_next(h, c)
  BY <1>1, SplitPhys
<1>3. x \in Starts(h) \cup {end} /\ x # b /\ x \in Addr /\ 0 \notin Starts(h)
  BY NextFacts
<1>4. r # x /\ r \notin h.free
  BY <1>2, <1>3 DEF Flags
<1>5. \A c \in Starts(h) \ {b} : block_next(h, c) # x /\ block_next(h, c) # r /\ block_next(h, c) \in Addr
  BY <1>2, NextFacts
<1>6. h.free \subseteq Starts(h)
      /\ \A c \in Starts(h) :
           /\ block_next(h, c) \in h.prev_free <=> c \in h.free
           /\ c \in h.free => h.prev_phys[block_next(h, c)] = c
  BY DEF Flags
<1>7. ASSUME NEW c \in Starts(g)
      PROVE  /\ block_next(g, c) \in g.prev_free <=> c \in g.free
             /\ c \in g.free => g.prev_phys[block_next(g, c)] = c
  <2>1. CASE c = b
    BY <1>2, <2>1 DEF SplitFlags
  <2>2. CASE c = r
    BY <1>2, <1>3, <1>4, <2>2 DEF SplitFlags
  <2>3. CASE c # b /\ c # r
    <3>1. c \in Starts(h) \ {b} /\ block_next(g, c) = block_next(h, c)
      BY <1>2, <2>3
    <3> QED
      BY <1>5, <1>6, <2>3, <3>1 DEF SplitFlags
  <2> QED
    BY <2>1, <2>2, <2>3
<1>8. Flags(g)
  BY <1>2, <1>6, <1>7 DEF Flags, SplitFlags
<1>9. ASSUME NEW c \in g.free, block_next(g, c) \in g.free
      PROVE  c = b \/ (c = r /\ x \in h.free) \/ (c \in h.free \ {b} /\ block_next(g, c) = block_next(h, c)
                                                  /\ block_next(h, c) \in h.free)
  <2>1. CASE c = r
    BY <1>2, <1>4, <1>9, <2>1 DEF SplitFlags
  <2>2. CASE c # r
    <3>1. c \in h.free /\ c \in Starts(h)
      BY <1>6, <2>2 DEF SplitFlags
    <3> QED
      BY <1>2, <1>5, <1>9, <3>1 DEF SplitFlags
  <2> QED
    BY <2>1, <2>2
<1>10. ASSUME Apart(h, 0) PROVE Apart(g, r)
  <2>1. \A c \in h.free : block_next(h, c) \notin h.free
    BY <1>3, <1>6, <1>10 DEF Apart
  <2> QED
    BY <1>2, <1>9, <2>1 DEF Apart
<1>11. ASSUME Apart(h, b), x \notin h.free, b \in h.free PROVE Apart(g, b)
  BY <1>2, <1>9, <1>11 DEF Apart
<1> QED
  BY <1>2, <1>8, <1>10, <1>11

(* Marking a block.  Of b itself the flags may be wrong before.            *)
FlagsBut(h, b) ==
  /\ h.free \subseteq Starts(h)
  /\ \A c \in Starts(h) \ {b} :
       /\ block_next(h, c) \in h.prev_free <=> c \in h.free
       /\ c \in h.free => h.prev_phys[block_next(h, c)] = c

LEMMA MarkUsedOK ==
  ASSUME NEW h, HeapType(h), NEW end, Phys(h, end), NEW b \in Starts(h), FlagsBut(h, b), Apart(h, b),
         NEW x, x = block_next(h, b), NEW g, Marked(g, h, h.free \ {b}, h.prev_free \ {x}, x, 0)
  PROVE  Phys(g, end) /\ Flags(g) /\ Apart(g, 0) /\ Starts(g) = Starts(h)
<1>1. Starts(g) = Starts(h) /\ \A c \in Starts(h) : block_next(g, c) = block_next(h, c)
  BY DEF Marked, Starts, block_next
<1>2. Phys(g, end)
  BY <1>1 DEF Phys, Marked
<1>3. \A c \in Starts(h) \ {b} : block_next(h, c) # x
  BY NextFacts
<1>4. x \in Addr /\ \A c \in Starts(h) : block_next(h, c) \in Addr
  BY NextFacts
<1>5. Flags(g)
  BY <1>1, <1>3, <1>4 DEF Flags, FlagsBut, Marked
<1>6. Apart(g, 0)
  BY <1>1 DEF Apart, Marked, FlagsBut
<1> QED
  BY <1>1, <1>2, <1>5, <1>6

LEMMA MarkFreeOK ==
  ASSUME NEW h, HeapType(h), NEW end, Phys(h, end), Flags(h), NEW b \in Starts(h), Apart(h, 0),
         NEW x, x = block_next(h, b), NEW g, Marked(g, h, h.free \cup {b}, h.prev_free \cup {x}, x, b)
  PROVE  Phys(g, end) /\ Flags(g) /\ Apart(g, b) /\ Starts(g) = Starts(h)
<1>1. Starts(g) = Starts(h) /\ \A c \in Starts(h) : block_next(g, c) = block_next(h, c)
  BY DEF Marked, Starts, block_next
<1>2. Phys(g, end)
  <2>1. x # First
    BY NextFacts
  <2> QED
    BY <1>1, <2>1 DEF Phys, Marked
<1>3. \A c \in Starts(h) \ {b} : block_next(h, c) # x
  BY NextFacts
<1>4. x \in Addr /\ 0 \notin Starts(h) /\ \A c \in Starts(h) : block_next(h, c) \in Addr
  BY NextFacts
<1>5. Flags(g)
  BY <1>1, <1>3, <1>4 DEF Flags, Marked
<1>6. Apart(g, b)
  BY <1>1, <1>4 DEF Apart, Marked, Flags
<1> QED
  BY <1>1, <1>2, <1>5, <1>6

(* block_absorb: the header of c is dead, b reaches to the end of c.       *)
AbsorbDone(g, h, b, c, y) ==
  /\ JoinOf(g, h, b, c) /\ g.free = h.free \ {c} /\ g.prev_free = h.prev_free \ {c}
  /\ \A a \in Addr \ {c} : g.prev_phys[a] = IF a = y THEN b ELSE h.prev_phys[a]

LEMMA AbsorbFields ==
  ASSUME NEW h, HeapType(h), h.sound, NEW end, Phys(h, end), NEW b \in Starts(h), NEW c \in Starts(h),
         c = block_next(h, b), NEW y, y = block_next(h, c), NEW g, g = block_absorb(h, b, c)
  PROVE  HeapType(g) /\ g.sound /\ SameLists(g, h) /\ AbsorbDone(g, h, b, c, y)
<1>1. ALIGN_SIZE \in Nat /\ ALIGN_SIZE >= 1 /\ block_header_overhead = ALIGN_SIZE /\ ALIGN_SIZE \in Mult
  BY Words, MultFacts
<1>2. /\ b \in Addr /\ c \in Addr /\ y \in Addr /\ b \in Nat /\ h.size[b] \in Nat /\ h.size[c] \in Nat
      /\ h.size[b] \in Mult /\ h.size[c] \in Mult /\ h.size[b] # 0 /\ h.size[c] # 0
      /\ c = b + h.size[b] + ALIGN_SIZE /\ y = c + h.size[c] + ALIGN_SIZE /\ c \in Nat
  BY <1>1, NextFacts
<1>3. b # c /\ y # c /\ 0 \in Addr
  BY <1>1, <1>2, AddrFacts
<1>4. PICK m : m = h.size[b] + h.size[c] + ALIGN_SIZE
  OBVIOUS
<1>5. m \in Mult /\ m \in Nat /\ m # 0 /\ 0 \in Mult
  <2>1. h.size[b] + h.size[c] \in Mult
    BY <1>2, MultFacts
  <2>2. (h.size[b] + h.size[c]) + ALIGN_SIZE \in Mult /\ 0 \in Mult
    BY <1>1, <2>1, MultFacts
  <2> QED
    BY <1>1, <1>2, <1>4, <2>2
<1>6. tlsf_assert(h, h.size[b] # 0) = h
  BY <1>2, AssertTrue
<1> DEFINE k == [h EXCEPT !.size[b] = m, !.size[c] = 0, !.free = @ \ {c}, !.prev_free = @ \ {c}, !.prev_phys[c] = 0]
<1>7. g = block_link_next(k, b)
  <2>1. k = [h EXCEPT !.size[b] = @ + h.size[c] + block_header_overhead,
                      !.size[c] = 0, !.free = @ \ {c}, !.prev_free = @ \ {c}, !.prev_phys[c] = 0]
    BY <1>1, <1>4
  <2> QED
    BY <1>6, <2>1 DEF block_absorb
<1>8. PICK z \in [Addr -> Mult], u \in SUBSET Addr, v \in SUBSET Addr, q \in [Addr -> Addr] :
        /\ z = [h.size EXCEPT ![b] = m, ![c] = 0] /\ u = h.free \ {c} /\ v = h.prev_free \ {c}
        /\ q = [h.prev_phys EXCEPT ![c] = 0]
  <2>1. [h.size EXCEPT ![b] = m, ![c] = 0] \in [Addr -> Mult]
    BY <1>2, <1>5 DEF HeapType
  <2>2. h.free \ {c} \in SUBSET Addr /\ h.prev_free \ {c} \in SUBSET Addr
    BY DEF HeapType
  <2>3. [h.prev_phys EXCEPT ![c] = 0] \in [Addr -> Addr]
    BY <1>2, <1>3 DEF HeapType
  <2> QED
    BY <2>1, <2>2, <2>3
<1>9. k = [h EXCEPT !.size = z, !.free = u, !.prev_free = v, !.prev_phys = q]
  <2>1. [h EXCEPT !.size[b] = m, !.size[c] = 0] = [h EXCEPT !.size = z]
    BY <1>8 DEF HeapType
  <2>2. k = [[h EXCEPT !.size[b] = m, !.size[c] = 0] EXCEPT !.free = h.free \ {c}, !.prev_free = h.prev_free \ {c},
                                                           !.prev_phys = [h.prev_phys EXCEPT ![c] = 0]]
    BY DEF HeapType
  <2> QED
    BY <1>8, <2>1, <2>2
<1> HIDE DEF k
<1>10. HeapType(k)
  BY <1>9 DEF HeapType
<1>11. k.sound /\ SameLists(k, h) /\ k.size = z /\ k.free = u /\ k.prev_free = v /\ k.prev_phys = q
  BY <1>9 DEF HeapType, SameLists
<1>12. z[b] = m /\ z[c] = 0 /\ \A a \in Addr \ {b, c} : z[a] = h.size[a]
  BY <1>2, <1>3, <1>8 DEF HeapType
<1>13. block_next(k, b) = y
  <2>1. block_next(k, b) = b + m + ALIGN_SIZE
    BY <1>1, <1>11, <1>12 DEF block_next
  <2> QED
    BY <1>1, <1>2, <1>4, <2>1
<1>14. k.size[b] # 0
  BY <1>5, <1>11, <1>12
<1>15. Marked(g, k, k.free, k.prev_free, y, b)
  BY <1>2, <1>7, <1>10, <1>11, <1>13, <1>14, LinkFields
<1>16. JoinOf(g, h, b, c)
  BY <1>4, <1>11, <1>12, <1>15 DEF JoinOf, Marked
<1>17. \A a \in Addr \ {c} : q[a] = h.prev_phys[a]
  BY <1>8 DEF HeapType
<1> QED
  BY <1>8, <1>11, <1>15, <1>16, <1>17 DEF AbsorbDone, Marked, SameLists

LEMMA JoinOK ==
  ASSUME NEW h, HeapType(h), NEW end, Phys(h, end), Flags(h), NEW b \in Starts(h), NEW c \in h.free,
         c = block_next(h, b), NEW y, y = block_next(h, c), NEW g, AbsorbDone(g, h, b, c, y)
  PROVE  /\ Phys(g, end) /\ FlagsBut(g, b) /\ Starts(g) = Starts(h) \ {c} /\ b # c
         /\ block_next(g, b) = y
         /\ b \in h.free => Flags(g)
         /\ b \in h.free /\ Apart(h, c) => Apart(g, b)
         /\ (b \notin h.prev_free \/ b \notin h.free) /\ Apart(h, b) => Apart(g, 0)
<1>1. h.free \subseteq Starts(h) /\ c \in Starts(h) /\ 0 \notin Starts(h)
      /\ \A d \in Starts(h) :
           /\ block_next(h, d) \in h.prev_free <=> d \in h.free
           /\ d \in h.free => h.prev_phys[block_next(h, d)] = d
  BY NextFacts DEF Flags
<1>2. First \notin g.prev_free
  BY NextFacts DEF AbsorbDone
<1>3. /\ Phys(g, end) /\ Starts(g) = Starts(h) \ {c} /\ c # First /\ b # c
      /\ block_next(g, b) = y
      /\ \A d \in Starts(h) \ {b, c} : block_next(g, d) = block_next(h, d)
  BY <1>1, <1>2, JoinPhys DEF AbsorbDone
<1>4. \A d \in Starts(h) \ {b, c} : block_next(h, d) # c /\ block_next(h, d) # y /\ block_next(h, d) \in Addr
  BY <1>1, NextFacts
<1>5. y # c /\ y # b /\ y \in Addr
  <2>1. c < y /\ y \in Nat /\ c \in Nat /\ b < c /\ b \in Nat
    BY <1>1, NextFacts
  <2> QED
    BY <1>1, <2>1, NextFacts
<1>6. ASSUME NEW d \in Starts(g) \ {b}
      PROVE  /\ block_next(g, d) \in g.prev_free <=> d \in g.free
             /\ d \in g.free => g.prev_phys[block_next(g, d)] = d
  BY <1>1, <1>3, <1>4 DEF AbsorbDone
<1>7. FlagsBut(g, b)
  BY <1>1, <1>3, <1>6 DEF FlagsBut, AbsorbDone
<1>8. ASSUME b \in h.free PROVE Flags(g)
  <2>1. y \in g.prev_free /\ b \in g.free /\ g.prev_phys[y] = b
    BY <1>1, <1>3, <1>5, <1>8 DEF AbsorbDone
  <2> QED
    BY <1>3, <1>7, <2>1 DEF Flags, FlagsBut
<1>9. ASSUME NEW d \in g.free, block_next(g, d) \in g.free, d # b
      PROVE  d \in h.free \ {b, c} /\ block_next(h, d) \in h.free /\ block_next(h, d) # c
             /\ block_next(g, d) = block_next(h, d)
  BY <1>1, <1>3, <1>4, <1>9 DEF AbsorbDone
<1>10. ASSUME b \in h.free, Apart(h, c) PROVE Apart(g, b)
  BY <1>3, <1>9, <1>10 DEF Apart
<1>11. ASSUME b \notin h.prev_free \/ b \notin h.free, Apart(h, b) PROVE Apart(g, 0)
  <2>1. ASSUME NEW d \in g.free, block_next(g, d) \in g.free PROVE FALSE
    <3>1. CASE d = b
      <4>1. y \in h.free /\ c \in h.free
        BY <1>3, <2>1, <3>1 DEF AbsorbDone
      <4> QED
        BY <1>3, <1>5, <1>11, <4>1 DEF Apart
    <3>2. CASE d # b
      <4>1. d \in h.free \ {b, c} /\ block_next(h, d) \in h.free
        BY <1>9, <2>1, <3>2
      <4>2. block_next(h, d) = b
        BY <1>11, <3>2, <4>1 DEF Apart
      <4> QED
        BY <1>1, <1>11, <4>1, <4>2
    <3> QED
      BY <3>1, <3>2
  <2> QED
    BY <2>1 DEF Apart
<1> QED
  BY <1>3, <1>7, <1>8, <1>10, <1>11
-----------------------------------------------------------------------------
(* The operations on a heap.                                               *)

Kept(g, h, U) == \A c \in U : g.size[c] = h.size[c]

LEMMA PhysFrame ==
  ASSUME NEW h, NEW g, SamePhys(g, h), NEW end, NEW x
  PROVE  /\ Phys(h, end) => Phys(g, end)
         /\ Flags(h) => Flags(g)
         /\ Apart(h, x) => Apart(g, x)
         /\ Starts(g) = Starts(h) /\ Used(g) = Used(h) /\ \A c : block_next(g, c) = block_next(h, c)
<1>1. \A c : block_next(g, c) = block_next(h, c)
  BY DEF SamePhys, block_next
<1>2. Starts(g) = Starts(h) /\ Used(g) = Used(h)
  BY DEF SamePhys, Starts, Used
<1>3. Phys(h, end) => Phys(g, end)
  BY <1>1, <1>2 DEF Phys, SamePhys
<1>4. Flags(h) => Flags(g)
  BY <1>1, <1>2 DEF Flags, SamePhys
<1>5. Apart(h, x) => Apart(g, x)
  BY <1>1 DEF Apart, SamePhys
<1> QED
  BY <1>1, <1>2, <1>3, <1>4, <1>5

LEMMA RemoveGood ==
  ASSUME NEW h, NEW end, NEW S, NEW x, Good(h, end, S, x), NEW b \in S, NEW g, g = block_remove(h, b)
  PROVE  Good(g, end, S \ {b}, x) /\ SamePhys(g, h)
<1>1. HeapType(g) /\ SamePhys(g, h) /\ ListsOK(g, S \ {b})
  BY RemoveOK DEF Good, block_remove, Class
<1>2. Phys(g, end) /\ Flags(g) /\ Apart(g, x) /\ g.sound
  BY <1>1, PhysFrame DEF Good, SamePhys
<1> QED
  BY <1>1, <1>2 DEF Good

LEMMA InsertGood ==
  ASSUME NEW h, NEW end, NEW S, NEW x, Good(h, end, S, x), NEW b \in Starts(h), b \notin S,
         NEW g, g = block_insert(h, b)
  PROVE  Good(g, end, S \cup {b}, x) /\ SamePhys(g, h)
<1>1. b \in Addr \ {0} /\ h.size[b] \in Nat /\ h.size[b] < block_size_max
  BY NextFacts DEF Good
<1>2. Class(h, b) \in Lists
  BY <1>1, ClassType DEF Class
<1>3. HeapType(g) /\ SamePhys(g, h) /\ ListsOK(g, S \cup {b})
  BY <1>1, <1>2, InsertOK DEF Good
<1>4. Phys(g, end) /\ Flags(g) /\ Apart(g, x) /\ g.sound
  BY <1>3, PhysFrame DEF Good, SamePhys
<1> QED
  BY <1>3, <1>4 DEF Good

LEMMA MergeNextGood ==
  ASSUME NEW h, NEW end, NEW b, Good(h, end, h.free \ {b}, b), b \in h.free, b \notin h.prev_free,
         NEW g, g = block_merge_next(h, b)
  PROVE  /\ Good(g, end, g.free \ {b}, 0) /\ b \in g.free
         /\ Used(g) = Used(h) /\ Kept(g, h, Used(h))
<1>1. HeapType(h) /\ h.sound /\ Phys(h, end) /\ Flags(h) /\ Apart(h, b) /\ ListsOK(h, h.free \ {b})
  BY DEF Good
<1>2. b \in Starts(h) /\ h.size[b] # 0 /\ h.free \subseteq Starts(h)
  BY <1>1 DEF Flags, Starts
<1>3. PICK c : c = block_next(h, b)
  OBVIOUS
<1>4. tlsf_assert(h, h.size[b] # 0) = h
  BY <1>1, <1>2, AssertTrue
<1>5. CASE c \notin h.free
  <2>1. g = h
    BY <1>3, <1>4, <1>5 DEF block_merge_next
  <2>2. Apart(h, 0)
    <3>1. ASSUME NEW d \in h.free, block_next(h, d) \in h.free PROVE FALSE
      <4>1. block_next(h, d) = b
        BY <1>1, <1>3, <1>5, <3>1 DEF Apart
      <4> QED
        BY <1>1, <1>2, <3>1, <4>1 DEF Flags
    <3> QED
      BY <3>1 DEF Apart
  <2> QED
    BY <1>1, <2>1, <2>2 DEF Good, Kept
<1>6. CASE c \in h.free
  <2>1. PICK k : k = block_remove(h, c)
    OBVIOUS
  <2>2. c \in Starts(h) /\ c # b
    BY <1>1, <1>2, <1>3, <1>6, NextFacts
  <2>3. Good(k, end, (h.free \ {b}) \ {c}, b) /\ SamePhys(k, h)
    BY <1>6, <2>1, <2>2, RemoveGood
  <2>4. /\ HeapType(k) /\ k.sound /\ Phys(k, end) /\ Flags(k) /\ Apart(k, b) /\ ListsOK(k, (h.free \ {b}) \ {c})
        /\ Starts(k) = Starts(h) /\ c = block_next(k, b) /\ k.free = h.free /\ k.prev_free = h.prev_free
        /\ k.size = h.size
    <3>1. Starts(k) = Starts(h) /\ block_next(k, b) = block_next(h, b)
      BY <2>3, PhysFrame
    <3> QED
      BY <1>3, <2>3, <3>1 DEF Good, SamePhys
  <2>5. g = block_absorb(k, b, c)
    BY <1>3, <1>4, <1>6, <2>1 DEF block_merge_next
  <2>6. PICK y : y = block_next(k, c)
    OBVIOUS
  <2>7. HeapType(g) /\ g.sound /\ SameLists(g, k) /\ AbsorbDone(g, k, b, c, y)
    BY <1>2, <2>2, <2>4, <2>5, <2>6, AbsorbFields
  <2>8. Phys(g, end) /\ Flags(g) /\ Apart(g, 0) /\ Starts(g) = Starts(h) \ {c}
    BY <1>2, <1>6, <2>4, <2>6, <2>7, JoinOK
  <2>9. g.free = h.free \ {c} /\ \A a \in Addr \ {b, c} : g.size[a] = h.size[a]
    BY <2>4, <2>7 DEF AbsorbDone, JoinOf
  <2>10. h.free \subseteq Addr
    BY <1>1 DEF HeapType
  <2>11. ListsOK(g, (h.free \ {b}) \ {c})
    BY <2>4, <2>7, <2>9, <2>10, ListsFrame
  <2>12. (h.free \ {b}) \ {c} = g.free \ {b}
    BY <2>9
  <2>13. Used(g) = Used(h) /\ Kept(g, h, Used(h))
    BY <1>6, <2>8, <2>9 DEF Used, Kept, Starts
  <2> QED
    BY <2>2, <2>7, <2>8, <2>9, <2>11, <2>12, <2>13 DEF Good
<1> QED
  BY <1>5, <1>6

LEMMA MergePrevGood ==
  ASSUME NEW h, NEW end, NEW b, Good(h, end, h.free \ {b}, b), b \in h.free,
         NEW m, m = MergedBlock(h, b), NEW g, g = block_merge_prev(h, b)
  PROVE  /\ Good(g, end, g.free \ {m}, m) /\ m \in g.free /\ m \notin g.prev_free
         /\ Used(g) = Used(h) /\ Kept(g, h, Used(h))
<1>1. HeapType(h) /\ h.sound /\ Phys(h, end) /\ Flags(h) /\ Apart(h, b) /\ ListsOK(h, h.free \ {b})
  BY DEF Good
<1>2. b \in Starts(h) /\ h.size[b] # 0 /\ h.free \subseteq Starts(h)
  BY <1>1 DEF Flags, Starts
<1>3. CASE b \notin h.prev_free
  <2>1. g = h /\ m = b
    BY <1>3 DEF block_merge_prev, MergedBlock
  <2> QED
    BY <1>3, <2>1 DEF Kept
<1>4. CASE b \in h.prev_free
  <2>0. m = h.prev_phys[b]
    BY <1>4 DEF MergedBlock
  <2>1. PICK d \in Starts(h) : block_next(h, d) = b
    BY <1>1, <1>2, <1>4, NextFacts
  <2>2. d \in h.free /\ m = d
    BY <1>1, <1>4, <2>0, <2>1 DEF Flags
  <2>3. d # b /\ d # 0 /\ d \in Addr
    <3>1. d < block_next(h, d) /\ d \in Nat /\ d \in Addr /\ 0 \notin Starts(h)
      BY <1>1, <2>1, NextFacts
    <3> QED
      BY <2>1, <3>1
  <2>4. d \notin h.prev_free
    <3> SUFFICES ASSUME d \in h.prev_free PROVE FALSE
      OBVIOUS
    <3>1. d # First
      BY <1>1 DEF Phys
    <3>2. PICK e \in Starts(h) : block_next(h, e) = d
      BY <1>1, <2>1, <3>1, NextFacts
    <3>3. e \in h.free
      BY <1>1, <3>2 DEF Flags
    <3>4. b = e
      BY <1>1, <2>2, <2>3, <3>2, <3>3 DEF Apart
    <3>5. d < b /\ b < d /\ b \in Nat /\ d \in Nat
      BY <1>1, <1>2, <2>1, <3>2, <3>4, NextFacts
    <3> QED
      BY <3>5
  <2>5. tlsf_assert(h, h.prev_phys[b] # 0 /\ h.prev_phys[b] \in h.free) = h
    <3>1. h.prev_phys[b] # 0 /\ h.prev_phys[b] \in h.free
      BY <2>0, <2>2, <2>3
    <3> QED
      BY <1>1, <3>1, AssertTrue
  <2>6. PICK k : k = block_remove(h, d)
    OBVIOUS
  <2>7. Good(k, end, (h.free \ {b}) \ {d}, b) /\ SamePhys(k, h)
    BY <2>2, <2>3, <2>6, RemoveGood
  <2>8. /\ HeapType(k) /\ k.sound /\ Phys(k, end) /\ Flags(k) /\ Apart(k, b) /\ ListsOK(k, (h.free \ {b}) \ {d})
        /\ Starts(k) = Starts(h) /\ b = block_next(k, d) /\ k.free = h.free /\ k.prev_free = h.prev_free
        /\ k.size = h.size
    <3>1. Starts(k) = Starts(h) /\ block_next(k, d) = block_next(h, d)
      BY <2>7, PhysFrame
    <3> QED
      BY <2>1, <2>7, <3>1 DEF Good, SamePhys
  <2>9. g = block_absorb(k, d, b)
    BY <1>4, <2>0, <2>2, <2>5, <2>6 DEF block_merge_prev
  <2>10. PICK y : y = block_next(k, b)
    OBVIOUS
  <2>11. HeapType(g) /\ g.sound /\ SameLists(g, k) /\ AbsorbDone(g, k, d, b, y)
    BY <1>2, <2>8, <2>9, <2>10, AbsorbFields
  <2>12. Phys(g, end) /\ Flags(g) /\ Apart(g, d) /\ Starts(g) = Starts(h) \ {b}
    BY <2>2, <2>8, <2>10, <2>11, JoinOK
  <2>13. g.free = h.free \ {b} /\ g.prev_free = h.prev_free \ {b} /\ \A a \in Addr \ {b, d} : g.size[a] = h.size[a]
    BY <2>8, <2>11 DEF AbsorbDone, JoinOf
  <2>14. h.free \subseteq Addr
    BY <1>1 DEF HeapType
  <2>15. ListsOK(g, (h.free \ {b}) \ {d})
    BY <2>8, <2>11, <2>13, <2>14, ListsFrame
  <2>16. (h.free \ {b}) \ {d} = g.free \ {d}
    BY <2>13
  <2>17. Used(g) = Used(h) /\ Kept(g, h, Used(h))
    BY <2>2, <2>12, <2>13 DEF Used, Kept, Starts
  <2> QED
    BY <2>2, <2>3, <2>4, <2>11, <2>12, <2>13, <2>15, <2>16, <2>17 DEF Good
<1> QED
  BY <1>3, <1>4

(* Coalesce: the block that was given back and its free neighbours become  *)
(* one block in its list.                                                  *)
LEMMA CoalesceGood ==
  ASSUME NEW h, NEW end, NEW b, Good(h, end, h.free \ {b}, b), b \in h.free, NEW g, g = Coalesce(h, b)
  PROVE  Good(g, end, g.free, 0) /\ Used(g) = Used(h) /\ Kept(g, h, Used(h))
<1>1. PICK m : m = MergedBlock(h, b)
  OBVIOUS
<1>2. PICK j : j = block_merge_prev(h, b)
  OBVIOUS
<1>3. /\ Good(j, end, j.free \ {m}, m) /\ m \in j.free /\ m \notin j.prev_free
      /\ Used(j) = Used(h) /\ Kept(j, h, Used(h))
  BY <1>1, <1>2, MergePrevGood
<1>4. PICK k : k = block_merge_next(j, m)
  OBVIOUS
<1>5. Good(k, end, k.free \ {m}, 0) /\ m \in k.free /\ Used(k) = Used(j) /\ Kept(k, j, Used(j))
  BY <1>3, <1>4, MergeNextGood
<1>6. g = block_insert(k, m)
  BY <1>1, <1>2, <1>4 DEF Coalesce
<1>7. m \in Starts(k)
  BY <1>5 DEF Good, Flags
<1>8. Good(g, end, (k.free \ {m}) \cup {m}, 0) /\ SamePhys(g, k)
  BY <1>5, <1>6, <1>7, InsertGood
<1>9. (k.free \ {m}) \cup {m} = g.free
  BY <1>5, <1>8 DEF SamePhys
<1>10. Used(g) = Used(k)
  BY <1>8, PhysFrame
<1> QED
  BY <1>3, <1>5, <1>8, <1>9, <1>10 DEF Kept, SamePhys

(* A block that is cut in two.                                             *)
LEMMA CanSplit ==
  ASSUME NEW h, NEW b \in Starts(h), NEW end, HeapType(h), Phys(h, end), NEW n \in Mult
  PROVE  block_can_split(h, b, n) <=> n + 4 * ALIGN_SIZE <= h.size[b]
<1>1. h.size[b] \in Nat /\ n \in Nat /\ ALIGN_SIZE \in Nat /\ block_header_size = 4 * ALIGN_SIZE
  BY NextFacts, MultFacts, Words
<1> QED
  BY <1>1 DEF block_can_split

LEMMA RestAddr ==
  ASSUME NEW h, NEW b \in Starts(h), NEW end, HeapType(h), Phys(h, end), NEW n \in Mult, n + 4 * ALIGN_SIZE <= h.size[b],
         NEW r, r = b + n + ALIGN_SIZE
  PROVE  r \in Addr /\ r # b /\ r = Remaining(b, n)
<1>1. ALIGN_SIZE \in Nat /\ ALIGN_SIZE >= 1 /\ ALIGN_SIZE \in Mult /\ n \in Nat /\ block_header_overhead = ALIGN_SIZE
  BY Words, MultFacts
<1>2. b \in Addr /\ b \in Nat /\ b \in Mult /\ h.size[b] \in Nat /\ block_next(h, b) = b + h.size[b] + ALIGN_SIZE
      /\ block_next(h, b) <= end /\ end \in Nat /\ end <= Top /\ Top \in Nat
  BY NextFacts, AddrFacts
<1>3. b + n \in Mult
  BY <1>2, MultFacts
<1>4. (b + n) + ALIGN_SIZE \in Mult
  BY <1>1, <1>3, MultFacts
<1>5. r \in Mult /\ r <= Top /\ r # b
  BY <1>1, <1>2, <1>4
<1> QED
  BY <1>1, <1>5, AddrFacts DEF Remaining

(* What block_split and the flag it leaves open make of a heap.            *)
Cut(g, h, end, b, n, r) ==
  /\ HeapType(h) /\ Phys(h, end) /\ Flags(h) /\ b \in Starts(h)
  /\ n \in Mult /\ n >= 3 * ALIGN_SIZE /\ n + 4 * ALIGN_SIZE <= h.size[b] /\ r = b + n + ALIGN_SIZE
  /\ HeapType(g) /\ g.sound /\ SameLists(g, h)
  /\ SplitOf(g, h, b, n, r) /\ SplitFlags(g, h, b, r, block_next(h, b))

CutDone(g, h, end, b, n, r) ==
  /\ Apart(h, 0) => Good(g, end, h.free \ {b}, r)
  /\ Apart(h, b) /\ block_next(h, b) \notin h.free /\ b \in h.free => Good(g, end, h.free \ {b}, b)
  /\ Starts(g) = Starts(h) \cup {r} /\ r \notin h.free /\ r # b /\ g.free = h.free \cup {r}
  /\ block_next(g, b) = r /\ block_next(g, r) = block_next(h, b)
  /\ Used(g) = Used(h) /\ Kept(g, h, Used(h) \ {b}) /\ g.size[b] = n

LEMMA SplitGood ==
  ASSUME NEW h, NEW end, NEW b, NEW n, NEW r, NEW g, Cut(g, h, end, b, n, r), ListsOK(h, h.free \ {b})
  PROVE  CutDone(g, h, end, b, n, r)
<1>1. /\ HeapType(h) /\ Phys(h, end) /\ Flags(h) /\ b \in Starts(h)
      /\ n \in Mult /\ n >= 3 * ALIGN_SIZE /\ n + 4 * ALIGN_SIZE <= h.size[b] /\ r = b + n + ALIGN_SIZE
      /\ HeapType(g) /\ g.sound /\ SameLists(g, h)
      /\ SplitOf(g, h, b, n, r) /\ SplitFlags(g, h, b, r, block_next(h, b))
  BY DEF Cut
<1>2. /\ Phys(g, end) /\ Flags(g) /\ Starts(g) = Starts(h) \cup {r} /\ r \notin Starts(h)
      /\ block_next(g, b) = r /\ block_next(g, r) = block_next(h, b)
      /\ Apart(h, 0) => Apart(g, r)
      /\ Apart(h, b) /\ block_next(h, b) \notin h.free /\ b \in h.free => Apart(g, b)
  BY <1>1, SplitOK
<1>3. h.free \subseteq Starts(h) /\ r \notin h.free /\ r # b
  BY <1>1, <1>2 DEF Flags
<1>4. \A c \in Starts(h) \ {b} : g.size[c] = h.size[c]
  BY <1>1, <1>2 DEF SplitOf, Starts
<1>5. ListsOK(g, h.free \ {b})
  BY <1>1, <1>3, <1>4, ListsFrame
<1>6. g.free = h.free \cup {r} /\ g.size[b] = n
  BY <1>1 DEF SplitFlags, SplitOf
<1>7. Used(g) = Used(h) /\ Kept(g, h, Used(h) \ {b})
  BY <1>2, <1>3, <1>4, <1>6 DEF Used, Kept
<1> QED
  BY <1>1, <1>2, <1>3, <1>5, <1>6, <1>7 DEF Good, CutDone

LEMMA FlagField ==
  ASSUME NEW h, HeapType(h), h.sound, NEW u \in SUBSET Addr, NEW g, g = [h EXCEPT !.prev_free = u]
  PROVE  /\ HeapType(g) /\ g.sound /\ SameLists(g, h) /\ g.size = h.size /\ g.free = h.free
         /\ g.prev_free = u /\ g.prev_phys = h.prev_phys
<1>1. HeapType(g)
  BY DEF HeapType
<1> QED
  BY <1>1 DEF HeapType, SameLists

(* The two orders in which a free block is cut.                            *)
LEMMA CutFields ==
  ASSUME NEW h, NEW end, HeapType(h), h.sound, Phys(h, end), Flags(h), NEW b \in Starts(h), b \in h.free,
         NEW n \in Mult, n >= 3 * ALIGN_SIZE, n + 4 * ALIGN_SIZE <= h.size[b], NEW junk \in JunkFlags,
         NEW r, r = b + n + ALIGN_SIZE, NEW s, s = block_split(h, b, n, junk), NEW g,
         \/ g = [block_link_next(s, b) EXCEPT !.prev_free = @ \cup {r}]
         \/ g = block_link_next([s EXCEPT !.prev_free = @ \cup {r}], b)
  PROVE  Cut(g, h, end, b, n, r)
<1>1. r \in Addr /\ r # b
  BY RestAddr
<1>2. PICK x : x = block_next(h, b)
  OBVIOUS
<1>3. b \in Addr /\ x \in Addr
  BY <1>2, NextFacts
<1>4. HeapType(s) /\ s.sound /\ SameLists(s, h) /\ SplitDone(s, h, b, n, r, x)
  BY <1>1, <1>2, <1>3, SplitFields
<1>5. ALIGN_SIZE \in Nat /\ ALIGN_SIZE >= 1 /\ n \in Nat /\ n # 0 /\ block_header_overhead = ALIGN_SIZE
  BY Words, MultFacts
<1>6. s.size[b] = n /\ s.prev_free \subseteq Addr
  BY <1>4 DEF SplitDone, SplitOf, HeapType
<1>7. CASE g = [block_link_next(s, b) EXCEPT !.prev_free = @ \cup {r}]
  <2>1. PICK k : k = block_link_next(s, b)
    OBVIOUS
  <2>2. block_next(s, b) = r
    BY <1>5, <1>6 DEF block_next
  <2>3. Marked(k, s, s.free, s.prev_free, r, b)
    BY <1>1, <1>3, <1>4, <1>5, <1>6, <2>1, <2>2, LinkFields
  <2>4. PICK u \in SUBSET Addr : u = s.prev_free \cup {r}
    BY <1>1, <1>6
  <2>5. g = [k EXCEPT !.prev_free = u]
    BY <1>7, <2>1, <2>3, <2>4 DEF Marked
  <2>6. /\ HeapType(g) /\ g.sound /\ SameLists(g, k) /\ g.size = k.size /\ g.free = k.free
        /\ g.prev_free = u /\ g.prev_phys = k.prev_phys
    BY <2>3, <2>5, FlagField DEF Marked
  <2>7. SameLists(g, h) /\ SplitOf(g, h, b, n, r)
    BY <1>4, <2>3, <2>6 DEF Marked, SameLists, SplitOf, SplitDone
  <2>8. SplitFlags(g, h, b, r, x)
    BY <1>1, <1>4, <2>3, <2>4, <2>6 DEF Marked, SplitFlags, SplitDone
  <2> QED
    BY <1>2, <2>6, <2>7, <2>8 DEF Cut
<1>8. CASE g = block_link_next([s EXCEPT !.prev_free = @ \cup {r}], b)
  <2>4. PICK u \in SUBSET Addr : u = s.prev_free \cup {r}
    BY <1>1, <1>6
  <2>1. PICK k : k = [s EXCEPT !.prev_free = u]
    OBVIOUS
  <2>6. /\ HeapType(k) /\ k.sound /\ SameLists(k, s) /\ k.size = s.size /\ k.free = s.free
        /\ k.prev_free = u /\ k.prev_phys = s.prev_phys
    BY <1>4, <2>1, FlagField
  <2>2. block_next(k, b) = r /\ k.size[b] # 0
    BY <1>5, <1>6, <2>6 DEF block_next
  <2>5. g = block_link_next(k, b)
    BY <1>8, <2>1, <2>4
  <2>3. Marked(g, k, k.free, k.prev_free, r, b)
    BY <1>1, <1>3, <2>2, <2>5, <2>6, LinkFields
  <2>7. HeapType(g) /\ g.sound /\ SameLists(g, h) /\ SplitOf(g, h, b, n, r)
    BY <1>4, <2>3, <2>6 DEF Marked, SameLists, SplitOf, SplitDone
  <2>8. SplitFlags(g, h, b, r, x)
    BY <1>1, <1>4, <2>3, <2>4, <2>6 DEF Marked, SplitFlags, SplitDone
  <2> QED
    BY <1>2, <2>7, <2>8 DEF Cut
<1> QED
  BY <1>7, <1>8

(* block_trim_free keeps n bytes of a block that is out of its list.       *)
LEMMA TrimFreeGood ==
  ASSUME NEW h, NEW end, NEW b, Good(h, end, h.free \ {b}, b), b \in h.free, block_next(h, b) \notin h.free,
         NEW n \in Mult, n >= 3 * ALIGN_SIZE, n <= h.size[b], NEW junk \in JunkFlags,
         NEW g, g = block_trim_free(h, b, n, junk)
  PROVE  /\ Good(g, end, g.free \ {b}, b) /\ b \in g.free /\ g.size[b] >= n
         /\ Used(g) = Used(h) /\ Kept(g, h, Used(h))
<1>1. HeapType(h) /\ h.sound /\ Phys(h, end) /\ Flags(h) /\ ListsOK(h, h.free \ {b}) /\ Apart(h, b)
  BY DEF Good
<1>2. b \in Starts(h)
  BY <1>1 DEF Flags
<1>3. tlsf_assert(h, b \in h.free) = h
  BY <1>1, AssertTrue
<1>4. CASE ~ block_can_split(h, b, n)
  <2>1. g = h
    BY <1>3, <1>4 DEF block_trim_free
  <2> QED
    BY <2>1 DEF Kept
<1>5. CASE block_can_split(h, b, n)
  <2>1. n + 4 * ALIGN_SIZE <= h.size[b]
    BY <1>1, <1>2, <1>5, CanSplit
  <2>2. PICK r : r = b + n + ALIGN_SIZE
    OBVIOUS
  <2>3. r = Remaining(b, n) /\ r \in Addr /\ r # b
    BY <1>1, <1>2, <2>1, <2>2, RestAddr
  <2>4. PICK k : k = [block_link_next(block_split(h, b, n, junk), b) EXCEPT !.prev_free = @ \cup {r}]
    OBVIOUS
  <2>5. Cut(k, h, end, b, n, r)
    BY <1>1, <1>2, <2>1, <2>2, <2>4, CutFields
  <2>6. /\ Good(k, end, h.free \ {b}, b)
        /\ Starts(k) = Starts(h) \cup {r} /\ r \notin h.free /\ k.free = h.free \cup {r}
        /\ Used(k) = Used(h) /\ Kept(k, h, Used(h) \ {b}) /\ k.size[b] = n
    <3>1. CutDone(k, h, end, b, n, r)
      BY <1>1, <2>5, SplitGood
    <3> QED
      BY <1>1, <3>1 DEF CutDone
  <2>7. g = block_insert(k, r)
    BY <1>3, <1>5, <2>3, <2>4 DEF block_trim_free
  <2>8. Good(g, end, (h.free \ {b}) \cup {r}, b) /\ SamePhys(g, k)
    BY <2>6, <2>7, InsertGood
  <2>9. (h.free \ {b}) \cup {r} = g.free \ {b} /\ b \in g.free /\ g.size[b] >= n
    <3>1. g.free = h.free \cup {r} /\ g.size[b] = n /\ n \in Nat
      BY <2>6, <2>8, MultFacts DEF SamePhys
    <3> QED
      BY <2>3, <3>1
  <2>10. Used(g) = Used(h) /\ Kept(g, h, Used(h))
    <3>1. Used(g) = Used(k) /\ g.size = k.size
      BY <2>8, PhysFrame DEF SamePhys
    <3>2. b \notin Used(h)
      BY DEF Used
    <3> QED
      BY <2>6, <3>1, <3>2 DEF Kept
  <2> QED
    BY <2>8, <2>9, <2>10
<1> QED
  BY <1>4, <1>5

(* A free block that is out of its list, with no free block behind it.     *)
Loose(h, end, b) ==
  Good(h, end, h.free \ {b}, b) /\ b \in h.free /\ block_next(h, b) \notin h.free

(* block_prepare_used: the caller has b, with room for n bytes, and of     *)
(* the other blocks in use nothing changes.                                *)
Given(g, h, end, b, n) ==
  /\ Good(g, end, g.free, 0) /\ Used(g) = Used(h) \cup {b} /\ b \notin Used(h)
  /\ g.size[b] >= n /\ Kept(g, h, Used(h))

LEMMA PrepareGood ==
  ASSUME NEW h, NEW end, NEW b, Loose(h, end, b),
         NEW n \in Mult, n >= 3 * ALIGN_SIZE, n <= h.size[b], NEW junk \in JunkFlags,
         NEW g, g = block_prepare_used(h, b, n, junk)
  PROVE  Given(g[1], h, end, b, n) /\ g[2] = b
<1>1. HeapType(h) /\ h.sound /\ Phys(h, end) /\ Flags(h) /\ b \in h.free
  BY DEF Good, Loose
<1>2. b \in Starts(h) /\ b # 0 /\ n # 0
  <2>1. b \in Starts(h)
    BY <1>1 DEF Flags
  <2>2. n # 0
    BY Words, MultFacts
  <2> QED
    BY <1>1, <2>1, <2>2, NextFacts
<1>3. tlsf_assert(h, n # 0) = h
  BY <1>1, <1>2, AssertTrue
<1>4. PICK k : k = block_trim_free(h, b, n, junk)
  OBVIOUS
<1>5. /\ Good(k, end, k.free \ {b}, b) /\ b \in k.free /\ k.size[b] >= n
      /\ Used(k) = Used(h) /\ Kept(k, h, Used(h))
  BY <1>4, TrimFreeGood DEF Loose
<1>6. PICK u : u = block_mark_as_used(k, b)
  OBVIOUS
<1>7. g = <<u, b>>
  BY <1>2, <1>3, <1>4, <1>6 DEF block_prepare_used
<1>8. HeapType(k) /\ k.sound /\ Phys(k, end) /\ Flags(k) /\ Apart(k, b) /\ ListsOK(k, k.free \ {b}) /\ b \in Starts(k)
  BY <1>5 DEF Good, Flags
<1>9. PICK x : x = block_next(k, b)
  OBVIOUS
<1>10. b \in Addr /\ x \in Addr /\ k.size[b] # 0
  BY <1>8, <1>9, NextFacts DEF Starts
<1>11. Marked(u, k, k.free \ {b}, k.prev_free \ {x}, x, 0)
  BY <1>6, <1>8, <1>9, <1>10, UsedFields
<1>12. FlagsBut(k, b)
  BY <1>8 DEF Flags, FlagsBut
<1>13. Phys(u, end) /\ Flags(u) /\ Apart(u, 0) /\ Starts(u) = Starts(k)
  BY <1>8, <1>9, <1>11, <1>12, MarkUsedOK
<1>14. HeapType(u) /\ u.sound /\ SameLists(u, k) /\ u.size = k.size /\ u.free = k.free \ {b}
  BY <1>11 DEF Marked
<1>15. ListsOK(u, k.free \ {b})
  BY <1>8, <1>14, ListsFrame
<1>16. Good(u, end, u.free, 0)
  BY <1>13, <1>14, <1>15 DEF Good
<1>17. Used(u) = Used(k) \cup {b} /\ b \notin Used(h)
  BY <1>1, <1>8, <1>13, <1>14 DEF Used
<1>18. Given(u, h, end, b, n)
  BY <1>5, <1>14, <1>16, <1>17 DEF Given, Kept
<1> QED
  BY <1>7, <1>18

(* Where a search begins.                                                  *)
LEMMA SearchType ==
  ASSUME NEW n \in Nat, n >= 1, n < block_size_max
  PROVE  mapping_search(n)[1] \in Nat /\ mapping_search(n)[2] \in Nat
<1>w. /\ SMALL_BLOCK_SIZE \in Nat /\ SL_INDEX_COUNT \in Nat /\ SL_INDEX_COUNT >= 4 /\ block_size_max \in Nat
      /\ n < FlsLimit
  BY Words, LimitFacts
<1>1. CASE n < SMALL_BLOCK_SIZE
  BY <1>1, SmallClass DEF mapping_search
<1>2. CASE ~(n < SMALL_BLOCK_SIZE)
  <2>1. PICK w : w = 2^(tlsf_fls(n) - SL_INDEX_COUNT_LOG2)
    OBVIOUS
  <2>2. n >= SMALL_BLOCK_SIZE
    BY <1>2, <1>w
  <2>3. w \in Nat /\ w > 0 /\ SL_INDEX_COUNT * w <= n
    BY <1>w, <2>1, <2>2, LargeClass
  <2>4. w <= n
    BY <1>w, <2>3
  <2>5. PICK r \in Nat : r = n + w - 1
    BY <2>3
  <2>6. r < FlsLimit /\ r >= SMALL_BLOCK_SIZE
    BY <1>w, <2>2, <2>3, <2>4, <2>5, LimitFacts
  <2>7. mapping_search(n) = mapping_insert(r)
    BY <1>2, <2>1, <2>5 DEF mapping_search
  <2>8. PICK f : f = tlsf_fls(r)
    OBVIOUS
  <2>9. PICK q : q = r \div 2^(f - SL_INDEX_COUNT_LOG2)
    OBVIOUS
  <2>10. f \in FL_INDEX_SHIFT .. FL_INDEX_MAX + 1 /\ q \in SL_INDEX_COUNT .. 2 * SL_INDEX_COUNT - 1
         /\ mapping_insert(r) = <<f - (FL_INDEX_SHIFT - 1), q - SL_INDEX_COUNT>>
    BY <2>6, <2>8, <2>9, LargeClass
  <2>11. f - (FL_INDEX_SHIFT - 1) \in Nat /\ q - SL_INDEX_COUNT \in Nat
    BY <1>w, <2>10, LimitFacts
  <2> QED
    BY <2>7, <2>10, <2>11
<1> QED
  BY <1>1, <1>2

(* search_suitable_block finds a list that is not empty, at or after the   *)
(* one it starts from, unless there is none.                               *)
LEMMA SearchFound ==
  ASSUME NEW h, HeapType(h), Bitmaps(h), NEW list, list[1] \in 0 .. FL_INDEX_COUNT - 1, list[2] \in Nat,
         NEW found, found = search_suitable_block(h, list)
  PROVE  /\ found = {} \/ \E l \in Lists : found = {l} /\ h.blocks[l] # 0 /\ UpTo(list, l)
         /\ found = {} => \A l \in Lists : UpTo(list, l) => h.blocks[l] = 0
<1> DEFINE sl_map == {s \in h.sl_bitmap[list[1]] : s >= list[2]}
           fl_map == {f \in h.fl_bitmap : f > list[1]}
<1>1. /\ h.sl_bitmap[list[1]] \subseteq 0 .. SL_INDEX_COUNT - 1 /\ h.fl_bitmap \subseteq 0 .. FL_INDEX_COUNT - 1
      /\ \A f \in 0 .. FL_INDEX_COUNT - 1 : h.sl_bitmap[f] \subseteq 0 .. SL_INDEX_COUNT - 1
  BY DEF HeapType
<1>2. SL_INDEX_COUNT \in Nat /\ FL_INDEX_COUNT \in Nat
  BY Words, LimitFacts
<1>3. sl_map \subseteq Nat /\ fl_map \subseteq Nat
  BY <1>1, <1>2
<1>b. /\ \A l \in Lists : l[2] \in h.sl_bitmap[l[1]] <=> h.blocks[l] # 0
      /\ \A f \in 0 .. FL_INDEX_COUNT - 1 : f \in h.fl_bitmap <=> h.sl_bitmap[f] # {}
  BY DEF Bitmaps
<1>4. CASE sl_map # {}
  <2>1. found = {<<list[1], Min(sl_map)>>}
    BY <1>4 DEF search_suitable_block
  <2>2. Min(sl_map) \in sl_map
    BY <1>3, <1>4, MinFacts
  <2>3. PICK s : s = Min(sl_map)
    OBVIOUS
  <2>4. s \in h.sl_bitmap[list[1]] /\ s >= list[2] /\ s \in 0 .. SL_INDEX_COUNT - 1
    BY <1>1, <2>2, <2>3
  <2>5. PICK l : l = <<list[1], s>>
    OBVIOUS
  <2>6. l \in Lists /\ l[1] = list[1] /\ l[2] = s /\ found = {l}
    BY <2>1, <2>3, <2>4, <2>5 DEF Lists
  <2>7. h.blocks[l] # 0 /\ UpTo(list, l)
    BY <1>b, <2>4, <2>6 DEF UpTo
  <2> QED
    BY <2>6, <2>7
<1>5. CASE sl_map = {} /\ fl_map # {}
  <2>1. found = {<<Min(fl_map), Min(h.sl_bitmap[Min(fl_map)])>>}
    BY <1>5 DEF search_suitable_block
  <2>2. Min(fl_map) \in fl_map
    BY <1>3, <1>5, MinFacts
  <2>3. PICK f : f = Min(fl_map)
    OBVIOUS
  <2>4. f \in h.fl_bitmap /\ f > list[1] /\ f \in 0 .. FL_INDEX_COUNT - 1
    BY <1>1, <2>2, <2>3
  <2>5. h.sl_bitmap[f] # {} /\ h.sl_bitmap[f] \subseteq 0 .. SL_INDEX_COUNT - 1
    BY <1>1, <1>b, <2>4
  <2>6. h.sl_bitmap[f] \subseteq Nat
    BY <1>2, <2>5
  <2>7. PICK s : s = Min(h.sl_bitmap[f])
    OBVIOUS
  <2>8. s \in h.sl_bitmap[f] /\ s \in 0 .. SL_INDEX_COUNT - 1
    BY <2>5, <2>6, <2>7, MinFacts
  <2>9. PICK l : l = <<f, s>>
    OBVIOUS
  <2>10. l \in Lists /\ l[1] = f /\ l[2] = s /\ found = {l}
    BY <2>1, <2>3, <2>4, <2>7, <2>8, <2>9 DEF Lists
  <2>11. h.blocks[l] # 0 /\ UpTo(list, l)
    BY <1>b, <1>2, <2>4, <2>8, <2>10 DEF UpTo
  <2> QED
    BY <2>10, <2>11
<1>6. CASE sl_map = {} /\ fl_map = {}
  <2>1. found = {}
    BY <1>6 DEF search_suitable_block
  <2>2. ASSUME NEW l \in Lists, UpTo(list, l), h.blocks[l] # 0 PROVE FALSE
    <3>1. l[2] \in h.sl_bitmap[l[1]] /\ l[1] \in 0 .. FL_INDEX_COUNT - 1
      BY <1>b, <2>2 DEF Lists
    <3>2. l[1] \in h.fl_bitmap
      BY <1>b, <3>1
    <3>3. CASE list[1] < l[1]
      <4>1. l[1] \in fl_map
        BY <1>2, <3>1, <3>2, <3>3
      <4> QED
        BY <1>6, <4>1
    <3>4. CASE list[1] = l[1] /\ list[2] <= l[2]
      <4>1. l[2] \in sl_map
        BY <1>1, <1>2, <3>1, <3>4
      <4> QED
        BY <1>6, <4>1
    <3> QED
      BY <2>2, <3>3, <3>4 DEF UpTo
  <2> QED
    BY <2>1, <2>2
<1> QED
  BY <1>4, <1>5, <1>6

(* block_locate_free takes a block that is large enough out of its list.   *)
Located(h, end, n, result) ==
  \/ result = <<h, 0>>
  \/ \E g, b : /\ result = <<g, b>> /\ b # 0 /\ Loose(g, end, b) /\ Apart(g, 0) /\ SamePhys(g, h)
               /\ h.size[b] >= n

LEMMA LocateGood ==
  ASSUME NEW h, NEW end, Good(h, end, h.free, 0), NEW n \in Mult, n < block_size_max,
         NEW result, result = block_locate_free(h, n)
  PROVE  Located(h, end, n, result)
<1>1. HeapType(h) /\ h.sound /\ Phys(h, end) /\ Flags(h) /\ Apart(h, 0) /\ ListsOK(h, h.free)
  BY DEF Good
<1>2. Links(h, h.free) /\ Bitmaps(h)
  BY <1>1 DEF ListsOK
<1>3. PICK list : list = mapping_search(n)
  OBVIOUS
<1>4. PICK found : found = IF n = 0 \/ list[1] >= FL_INDEX_COUNT THEN {} ELSE search_suitable_block(h, list)
  OBVIOUS
<1>5. result = IF found = {} THEN <<h, 0>>
               ELSE LET l == CHOOSE l \in found : TRUE
                        b == h.blocks[l]
                    IN  <<remove_free_block(tlsf_assert(h, h.size[b] >= n), b, l), b>>
  BY <1>3, <1>4 DEF block_locate_free
<1>6. CASE found = {}
  BY <1>5, <1>6 DEF Located
<1>7. CASE found # {}
  <2>1. n # 0 /\ ~(list[1] >= FL_INDEX_COUNT) /\ found = search_suitable_block(h, list)
    BY <1>4, <1>7
  <2>2. n \in Nat /\ n >= 1
    BY <2>1, MultFacts
  <2>3. list[1] \in Nat /\ list[2] \in Nat
    BY <1>3, <2>2, SearchType
  <2>4. list[1] \in 0 .. FL_INDEX_COUNT - 1
    BY <2>1, <2>3, LimitFacts
  <2>5. PICK l \in Lists : found = {l} /\ h.blocks[l] # 0 /\ UpTo(list, l)
    BY <1>1, <1>2, <1>7, <2>1, <2>3, <2>4, SearchFound
  <2>6. PICK b : b = h.blocks[l]
    OBVIOUS
  <2>7. (CHOOSE k \in found : TRUE) = l
    BY <2>5
  <2>8. b \in h.free /\ Class(h, b) = l /\ b # 0
    BY <1>2, <2>5, <2>6 DEF Links
  <2>9. b \in Starts(h)
    BY <1>1, <2>8 DEF Flags
  <2>10. h.size[b] \in Mult /\ h.size[b] \in Nat /\ n \in Nat
    BY <1>1, <2>9, MultFacts, NextFacts
  <2>11. h.size[b] >= n
    <3> SUFFICES ASSUME h.size[b] < n PROVE FALSE
      BY <2>10
    <3>1. Below(l, list)
      BY <1>3, <2>8, <2>10, SearchStrict DEF Class
    <3>2. l[1] \in Nat /\ l[2] \in Nat
      BY Words, LimitFacts DEF Lists
    <3> QED
      BY <2>3, <2>5, <3>1, <3>2 DEF Below, UpTo
  <2>12. tlsf_assert(h, h.size[b] >= n) = h
    BY <1>1, <2>11, AssertTrue
  <2>13. PICK g : g = block_remove(h, b)
    OBVIOUS
  <2>14. result = <<g, b>>
    <3>1. g = remove_free_block(h, b, l)
      BY <2>8, <2>13 DEF block_remove, Class
    <3> QED
      BY <1>5, <1>7, <2>6, <2>7, <2>12, <3>1
  <2>15. Good(g, end, h.free \ {b}, 0) /\ SamePhys(g, h)
    BY <2>8, <2>13, RemoveGood
  <2>16. g.free = h.free /\ block_next(g, b) = block_next(h, b)
    BY <2>15, PhysFrame DEF SamePhys
  <2>17. block_next(h, b) \notin h.free
    <3>1. 0 \notin Starts(h) /\ h.free \subseteq Starts(h)
      BY <1>1, NextFacts DEF Flags
    <3> QED
      BY <1>1, <2>8, <3>1 DEF Apart
  <2>18. Apart(g, b)
    <3>1. Apart(g, 0) /\ Flags(g) /\ 0 \notin Starts(g)
      BY <2>15, NextFacts DEF Good
    <3> QED
      BY <3>1 DEF Apart, Flags
  <2>19. Loose(g, end, b)
    BY <2>8, <2>15, <2>16, <2>17, <2>18 DEF Loose, Good
  <2> QED
    BY <2>8, <2>11, <2>14, <2>15, <2>19 DEF Located, Good
<1> QED
  BY <1>6, <1>7

LEMMA LocateBare ==
  ASSUME NEW h, Bare(h), NEW n \in Mult, n < block_size_max
  PROVE  block_locate_free(h, n) = <<h, 0>>
<1>1. HeapType(h) /\ Links(h, {}) /\ Bitmaps(h)
  BY DEF Bare, ListsOK
<1>2. PICK list : list = mapping_search(n)
  OBVIOUS
<1>3. PICK found : found = IF n = 0 \/ list[1] >= FL_INDEX_COUNT THEN {} ELSE search_suitable_block(h, list)
  OBVIOUS
<1>4. found = {}
  <2> SUFFICES ASSUME found # {} PROVE FALSE
    OBVIOUS
  <2>1. n # 0 /\ ~(list[1] >= FL_INDEX_COUNT) /\ found = search_suitable_block(h, list)
    BY <1>3
  <2>2. n \in Nat /\ n >= 1
    BY <2>1, MultFacts
  <2>3. list[1] \in Nat /\ list[2] \in Nat
    BY <1>2, <2>2, SearchType
  <2>4. list[1] \in 0 .. FL_INDEX_COUNT - 1
    BY <2>1, <2>3, LimitFacts
  <2>5. PICK l \in Lists : found = {l} /\ h.blocks[l] # 0
    BY <1>1, <2>1, <2>3, <2>4, SearchFound
  <2> QED
    BY <1>1, <2>5 DEF Links
<1> QED
  BY <1>2, <1>3, <1>4 DEF block_locate_free

(* block_trim_used gives back what is behind the first n bytes of a block  *)
(* in use.                                                                 *)
Trimmed(g, h, end, b, n) ==
  /\ Good(g, end, g.free, 0) /\ Used(g) = Used(h) /\ Kept(g, h, Used(h) \ {b})
  /\ g.size[b] >= n

LEMMA TrimUsedGood ==
  ASSUME NEW h, NEW end, Good(h, end, h.free, 0), NEW b \in Used(h),
         NEW n \in Mult, n >= 3 * ALIGN_SIZE, n <= h.size[b], NEW junk \in JunkFlags,
         NEW g, g = block_trim_used(h, b, n, junk)
  PROVE  Trimmed(g, h, end, b, n)
<1>1. HeapType(h) /\ h.sound /\ Phys(h, end) /\ Flags(h) /\ Apart(h, 0) /\ ListsOK(h, h.free)
  BY DEF Good
<1>2. b \in Starts(h) /\ b \notin h.free /\ h.free \ {b} = h.free
  BY DEF Used
<1>3. tlsf_assert(h, b \notin h.free) = h
  BY <1>1, <1>2, AssertTrue
<1>4. CASE ~ block_can_split(h, b, n)
  <2>1. g = h
    BY <1>3, <1>4 DEF block_trim_used
  <2> QED
    BY <1>1, <2>1, MultFacts, NextFacts DEF Kept, Trimmed
<1>5. CASE block_can_split(h, b, n)
  <2>1. n + 4 * ALIGN_SIZE <= h.size[b]
    BY <1>1, <1>2, <1>5, CanSplit
  <2>2. PICK r : r = b + n + ALIGN_SIZE
    OBVIOUS
  <2>3. r = Remaining(b, n) /\ r \in Addr /\ r # b
    BY <1>1, <1>2, <2>1, <2>2, RestAddr
  <2>4. PICK s : s = block_split(h, b, n, junk)
    OBVIOUS
  <2>5. PICK x : x = block_next(h, b)
    OBVIOUS
  <2>6. b \in Addr /\ x \in Addr
    BY <1>1, <1>2, <2>5, NextFacts
  <2>7. HeapType(s) /\ s.sound /\ SameLists(s, h) /\ SplitDone(s, h, b, n, r, x)
    BY <1>1, <2>1, <2>2, <2>3, <2>4, <2>5, <2>6, SplitFields
  <2>8. PICK u \in SUBSET Addr : u = s.prev_free \ {r}
    BY <2>7 DEF HeapType
  <2>9. PICK k : k = [s EXCEPT !.prev_free = u]
    OBVIOUS
  <2>10. /\ HeapType(k) /\ k.sound /\ SameLists(k, s) /\ k.size = s.size /\ k.free = s.free
         /\ k.prev_free = u /\ k.prev_phys = s.prev_phys
    BY <2>7, <2>9, FlagField
  <2>11. SameLists(k, h) /\ SplitOf(k, h, b, n, r)
    BY <2>7, <2>10 DEF SameLists, SplitDone, SplitOf
  <2>12. SplitFlags(k, h, b, r, x)
    <3>1. x # r
      <4>1. h.size[b] \in Nat /\ b \in Nat /\ x = b + h.size[b] + ALIGN_SIZE /\ n \in Nat /\ ALIGN_SIZE \in Nat
            /\ ALIGN_SIZE >= 1
        BY <1>1, <1>2, <2>5, NextFacts, Words, MultFacts
      <4> QED
        BY <2>1, <2>2, <4>1
    <3> QED
      BY <1>2, <2>7, <2>8, <2>10, <3>1 DEF SplitDone, SplitFlags
  <2>13. Cut(k, h, end, b, n, r)
    BY <1>1, <1>2, <2>1, <2>2, <2>5, <2>10, <2>11, <2>12 DEF Cut
  <2>14. CutDone(k, h, end, b, n, r)
    BY <1>1, <1>2, <2>13, SplitGood
  <2>15. /\ Good(k, end, k.free \ {r}, r) /\ r \in k.free /\ r \notin k.prev_free /\ b \notin k.free
         /\ Used(k) = Used(h) /\ Kept(k, h, Used(h) \ {b}) /\ k.size[b] = n
    <3>1. k.free = h.free \cup {r} /\ r \notin h.free /\ r # b /\ Good(k, end, h.free, r)
      BY <1>1, <1>2, <2>14 DEF CutDone
    <3>2. k.free \ {r} = h.free
      BY <3>1
    <3> QED
      BY <1>2, <2>8, <2>10, <2>14, <3>1, <3>2 DEF CutDone
  <2>16. PICK m : m = block_merge_next(k, r)
    OBVIOUS
  <2>17. Good(m, end, m.free \ {r}, 0) /\ r \in m.free /\ Used(m) = Used(k) /\ Kept(m, k, Used(k))
    BY <2>15, <2>16, MergeNextGood
  <2>18. g = block_insert(m, r)
    BY <1>3, <1>5, <2>3, <2>4, <2>8, <2>9, <2>16 DEF block_trim_used
  <2>19. r \in Starts(m)
    BY <2>17 DEF Good, Flags
  <2>20. Good(g, end, (m.free \ {r}) \cup {r}, 0) /\ SamePhys(g, m)
    BY <2>17, <2>18, <2>19, InsertGood
  <2>21. (m.free \ {r}) \cup {r} = g.free /\ Used(g) = Used(m) /\ g.size = m.size
    BY <2>17, <2>20, PhysFrame DEF SamePhys
  <2>22. g.size[b] >= n
    <3>1. m.size[b] = n /\ n \in Nat
      BY <2>15, <2>17, MultFacts DEF Kept
    <3> QED
      BY <2>21, <3>1
  <2> QED
    BY <2>15, <2>17, <2>20, <2>21, <2>22 DEF Kept, Trimmed
<1> QED
  BY <1>4, <1>5

(* Sizes in whole words.                                                   *)
LEMMA AlignUp ==
  ASSUME NEW x \in Nat, NEW p \in Nat, p >= 1
  PROVE  /\ align_up(x, p) \in Nat /\ align_up(x, p) % p = 0
         /\ x <= align_up(x, p) /\ align_up(x, p) < x + p
<1>1. PICK q \in Nat : q = (x + p - 1) \div p
  <2>1. x + p - 1 \in Nat
    OBVIOUS
  <2> QED
    BY <2>1, Division
<1>2. PICK r \in 0 .. p - 1 : x + p - 1 = q * p + r
  <2>1. PICK t \in Nat : t = x + p - 1
    OBVIOUS
  <2>2. t % p \in 0 .. p - 1 /\ t = p * (t \div p) + (t % p)
    BY <2>1
  <2> QED
    BY <1>1, <2>1, <2>2
<1>3. align_up(x, p) = q * p
  BY <1>1 DEF align_up
<1>4. q * p \in Nat /\ (q * p) % p = 0
  BY Times
<1> QED
  BY <1>2, <1>3, <1>4

LEMMA AdjustFacts ==
  ASSUME NEW n \in Nat, NEW a, a = adjust_request_size(n, ALIGN_SIZE)
  PROVE  /\ a \in Mult /\ a \in Nat /\ a < block_size_max
         /\ a # 0 => a >= 3 * ALIGN_SIZE /\ a >= n
         /\ n # 0 /\ align_up(n, ALIGN_SIZE) < block_size_max => a # 0
<1>1. /\ ALIGN_SIZE \in Nat /\ ALIGN_SIZE >= 1 /\ block_size_min = 3 * ALIGN_SIZE /\ block_size_max \in Nat
      /\ block_size_max >= 4 * ALIGN_SIZE
  BY Words
<1>2. PICK u : u = align_up(n, ALIGN_SIZE)
  OBVIOUS
<1>3. u \in Nat /\ u \in Mult /\ n <= u
  BY <1>1, <1>2, AlignUp DEF Mult
<1>4. 3 * ALIGN_SIZE \in Mult /\ 0 \in Mult
  BY MultFacts
<1>5. CASE n = 0 \/ u >= block_size_max
  <2>1. a = 0
    BY <1>2, <1>5 DEF adjust_request_size
  <2> QED
    BY <1>1, <1>2, <1>3, <1>4, <1>5, <2>1
<1>6. CASE ~(n = 0 \/ u >= block_size_max)
  <2>1. a = Max({u, block_size_min})
    BY <1>2, <1>6 DEF adjust_request_size
  <2>2. a = IF u >= 3 * ALIGN_SIZE THEN u ELSE 3 * ALIGN_SIZE
    BY <1>1, <1>3, <2>1, MaxPair
  <2> QED
    BY <1>1, <1>3, <1>4, <1>6, <2>2
<1> QED
  BY <1>5, <1>6

(* tlsf_malloc.                                                            *)
Allocated(result, h, end, n) ==
  \/ result = <<h, 0>>
  \/ \E g, b : result = <<g, b>> /\ b # 0 /\ Given(g, h, end, b, n)

LEMMA MallocGood ==
  ASSUME NEW h, NEW end, Good(h, end, h.free, 0), NEW n \in Nat, NEW junk \in JunkFlags,
         NEW a, a = adjust_request_size(n, ALIGN_SIZE), NEW result, result = tlsf_malloc(h, n, junk)
  PROVE  Allocated(result, h, end, a)
<1>1. a \in Mult /\ a < block_size_max /\ (a # 0 => a >= 3 * ALIGN_SIZE)
  BY AdjustFacts
<1>2. PICK located : located = block_locate_free(h, a)
  OBVIOUS
<1>3. Located(h, end, a, located)
  BY <1>1, <1>2, LocateGood
<1>4. result = block_prepare_used(located[1], located[2], a, junk)
  BY <1>2 DEF tlsf_malloc
<1>5. CASE located = <<h, 0>>
  BY <1>4, <1>5 DEF Allocated, block_prepare_used
<1>6. CASE located # <<h, 0>>
  <2>1. PICK k, b : located = <<k, b>> /\ b # 0 /\ Loose(k, end, b) /\ SamePhys(k, h) /\ h.size[b] >= a
    BY <1>3, <1>6 DEF Located
  <2>2. a # 0
    <3> SUFFICES ASSUME a = 0 PROVE FALSE
      OBVIOUS
    <3> QED
      BY <1>2, <1>6 DEF block_locate_free
  <2>3. result = block_prepare_used(k, b, a, junk) /\ k.size[b] >= a
    BY <1>4, <2>1 DEF SamePhys
  <2>4. a <= k.size[b]
    <3>1. k.size[b] \in Nat /\ a \in Nat
      BY <1>1, <2>1, MultFacts, NextFacts DEF Loose, Good, Flags
    <3> QED
      BY <2>3, <3>1
  <2>5. Given(result[1], k, end, b, a) /\ result[2] = b
    BY <1>1, <2>1, <2>2, <2>3, <2>4, PrepareGood
  <2>6. result = <<result[1], b>>
    BY <2>1, <2>3, <2>5 DEF block_prepare_used
  <2>7. Used(k) = Used(h) /\ k.size = h.size
    BY <2>1, PhysFrame DEF SamePhys
  <2>8. Given(result[1], h, end, b, a)
    BY <2>5, <2>7 DEF Given, Kept
  <2> QED
    BY <2>1, <2>6, <2>8 DEF Allocated
<1> QED
  BY <1>5, <1>6

(* tlsf_free.                                                              *)
LEMMA MarkFreeGood ==
  ASSUME NEW h, NEW end, Good(h, end, h.free, 0), NEW b \in Used(h),
         NEW g, g = block_mark_as_free(tlsf_assert(h, b \notin h.free), b)
  PROVE  /\ Good(g, end, g.free \ {b}, b) /\ b \in g.free
         /\ Used(g) = Used(h) \ {b} /\ Kept(g, h, Used(h)) /\ g.free = h.free \cup {b}
<1>1. HeapType(h) /\ h.sound /\ Phys(h, end) /\ Flags(h) /\ Apart(h, 0) /\ ListsOK(h, h.free)
  BY DEF Good
<1>2. b \in Starts(h) /\ b \notin h.free
  BY DEF Used
<1>3. tlsf_assert(h, b \notin h.free) = h
  BY <1>1, <1>2, AssertTrue
<1>4. PICK x : x = block_next(h, b)
  OBVIOUS
<1>5. b \in Addr /\ x \in Addr /\ h.size[b] # 0
  BY <1>1, <1>2, <1>4, NextFacts DEF Starts
<1>6. Marked(g, h, h.free \cup {b}, h.prev_free \cup {x}, x, b)
  BY <1>1, <1>3, <1>4, <1>5, FreeFields
<1>7. Phys(g, end) /\ Flags(g) /\ Apart(g, b) /\ Starts(g) = Starts(h)
  BY <1>1, <1>2, <1>4, <1>6, MarkFreeOK
<1>8. HeapType(g) /\ g.sound /\ SameLists(g, h) /\ g.size = h.size /\ g.free = h.free \cup {b}
  BY <1>6 DEF Marked
<1>9. ListsOK(g, h.free) /\ g.free \ {b} = h.free
  BY <1>1, <1>2, <1>8, ListsFrame
<1>10. Good(g, end, g.free \ {b}, b)
  BY <1>7, <1>8, <1>9 DEF Good
<1>11. Used(g) = Used(h) \ {b}
  BY <1>7, <1>8 DEF Used
<1> QED
  BY <1>8, <1>10, <1>11 DEF Kept

LEMMA FreeGood ==
  ASSUME NEW h, NEW end, Good(h, end, h.free, 0), NEW b \in Used(h), NEW g, g = tlsf_free(h, b)
  PROVE  Good(g, end, g.free, 0) /\ Used(g) = Used(h) \ {b} /\ Kept(g, h, Used(h) \ {b})
<1>1. PICK k : k = block_mark_as_free(tlsf_assert(h, b \notin h.free), b)
  OBVIOUS
<1>2. /\ Good(k, end, k.free \ {b}, b) /\ b \in k.free
      /\ Used(k) = Used(h) \ {b} /\ Kept(k, h, Used(h))
  BY <1>1, MarkFreeGood
<1>3. g = Coalesce(k, b)
  BY <1>1 DEF tlsf_free
<1>4. Good(g, end, g.free, 0) /\ Used(g) = Used(k) /\ Kept(g, k, Used(k))
  BY <1>2, <1>3, CoalesceGood
<1> QED
  BY <1>2, <1>4 DEF Kept

(* tlsf_realloc: a block in use takes in the free one behind it.           *)
LEMMA GrowGood ==
  ASSUME NEW h, NEW end, Good(h, end, h.free, 0), NEW b \in Used(h),
         NEW c \in h.free, c = block_next(h, b),
         NEW g, g = block_mark_as_used(block_merge_next(h, b), b)
  PROVE  /\ Good(g, end, g.free, 0) /\ Used(g) = Used(h) /\ Kept(g, h, Used(h) \ {b})
         /\ g.size[b] = h.size[b] + h.size[c] + ALIGN_SIZE
<1>1. HeapType(h) /\ h.sound /\ Phys(h, end) /\ Flags(h) /\ Apart(h, 0) /\ ListsOK(h, h.free)
  BY DEF Good
<1>2. b \in Starts(h) /\ b \notin h.free /\ h.size[b] # 0
  BY DEF Used, Starts
<1>3. c \in Starts(h) /\ c # b /\ h.free \subseteq Starts(h) /\ 0 \notin Starts(h)
  BY <1>1, <1>2, NextFacts DEF Flags
<1>4. tlsf_assert(h, h.size[b] # 0) = h
  BY <1>1, <1>2, AssertTrue
<1>5. PICK k : k = block_remove(h, c)
  OBVIOUS
<1>6. Good(k, end, h.free \ {c}, 0) /\ SamePhys(k, h)
  BY <1>5, RemoveGood
<1>7. /\ HeapType(k) /\ k.sound /\ Phys(k, end) /\ Flags(k) /\ Apart(k, 0) /\ ListsOK(k, h.free \ {c})
      /\ Starts(k) = Starts(h) /\ c = block_next(k, b) /\ k.free = h.free /\ k.size = h.size
  <2>1. Starts(k) = Starts(h) /\ block_next(k, b) = block_next(h, b)
    BY <1>6, PhysFrame
  <2> QED
    BY <1>6, <2>1 DEF Good, SamePhys
<1>8. PICK m : m = block_merge_next(h, b)
  OBVIOUS
<1>9. m = block_absorb(k, b, c)
  BY <1>4, <1>5, <1>8 DEF block_merge_next
<1>10. PICK y : y = block_next(k, c)
  OBVIOUS
<1>11. HeapType(m) /\ m.sound /\ SameLists(m, k) /\ AbsorbDone(m, k, b, c, y)
  BY <1>2, <1>3, <1>7, <1>9, <1>10, AbsorbFields
<1>12. Apart(k, b)
  BY <1>3, <1>7 DEF Apart
<1>13. Phys(m, end) /\ FlagsBut(m, b) /\ Apart(m, 0) /\ Starts(m) = Starts(h) \ {c} /\ block_next(m, b) = y
  BY <1>2, <1>7, <1>10, <1>11, <1>12, JoinOK
<1>14. /\ m.free = h.free \ {c} /\ \A a \in Addr \ {b, c} : m.size[a] = h.size[a]
       /\ m.size[b] = h.size[b] + h.size[c] + ALIGN_SIZE
  BY <1>7, <1>11 DEF AbsorbDone, JoinOf
<1>15. b \in Starts(m) /\ m.free \subseteq Starts(m) /\ 0 \notin Starts(m)
  BY <1>2, <1>3, <1>13, <1>14
<1>16. Apart(m, b)
  BY <1>13, <1>15 DEF Apart
<1>17. b \in Addr /\ y \in Addr /\ m.size[b] # 0
  BY <1>11, <1>13, <1>15, NextFacts DEF Starts
<1>18. Marked(g, m, m.free \ {b}, m.prev_free \ {y}, y, 0)
  BY <1>8, <1>11, <1>13, <1>17, UsedFields
<1>19. Phys(g, end) /\ Flags(g) /\ Apart(g, 0) /\ Starts(g) = Starts(m)
  BY <1>11, <1>13, <1>15, <1>16, <1>18, MarkUsedOK
<1>20. HeapType(g) /\ g.sound /\ SameLists(g, m) /\ g.size = m.size /\ g.free = m.free
  BY <1>2, <1>14, <1>18 DEF Marked
<1>21. ListsOK(g, h.free \ {c})
  <2>1. SameLists(g, k)
    BY <1>11, <1>20 DEF SameLists
  <2>2. \A d \in h.free \ {c} : g.size[d] = k.size[d]
    BY <1>2, <1>3, <1>7, <1>14, <1>20 DEF Starts
  <2> QED
    BY <1>7, <2>1, <2>2, ListsFrame
<1>22. Good(g, end, g.free, 0)
  BY <1>14, <1>19, <1>20, <1>21 DEF Good
<1>23. Used(g) = Used(h) /\ Kept(g, h, Used(h) \ {b})
  BY <1>13, <1>14, <1>19, <1>20 DEF Used, Kept, Starts
<1> QED
  BY <1>14, <1>20, <1>22, <1>23

(* A new place overlaps neither the old one nor anybody else's.            *)
Resized(result, h, end, b, n) ==
  \/ result = <<h, 0>>
  \/ \E g, q : /\ result = <<g, q>> /\ q # 0 /\ Good(g, end, g.free, 0) /\ g.size[q] >= n
               /\ Used(g) = (Used(h) \ {b}) \cup {q} /\ q \notin Used(h) \ {b}
               /\ Kept(g, h, Used(h) \ {b})
               /\ q # b => /\ b < q => b + h.size[b] <= q
                           /\ q < b => q + g.size[q] <= b

LEMMA ReallocGood ==
  ASSUME NEW h, NEW end, Good(h, end, h.free, 0), NEW b \in Used(h), NEW n \in Nat, NEW junk \in JunkFlags,
         NEW a, a = adjust_request_size(n, ALIGN_SIZE), a # 0,
         NEW result, result = tlsf_realloc(h, b, n, junk)
  PROVE  Resized(result, h, end, b, a)
<1>1. a \in Mult /\ a \in Nat /\ a < block_size_max /\ a >= 3 * ALIGN_SIZE
  BY AdjustFacts
<1>2. HeapType(h) /\ Phys(h, end) /\ Flags(h) /\ b \in Starts(h) /\ b \notin h.free
  BY DEF Good, Used
<1>3. h.size[b] \in Nat /\ b # 0 /\ b \in Nat /\ block_next(h, b) \in Addr /\ ALIGN_SIZE \in Nat
      /\ block_header_overhead = ALIGN_SIZE
  BY <1>2, NextFacts, Words
<1>4. CASE a <= h.size[b]
  <2>1. PICK g : g = block_trim_used(h, b, a, junk)
    OBVIOUS
  <2>2. result = <<g, b>>
    BY <1>4, <2>1 DEF tlsf_realloc
  <2>3. /\ Good(g, end, g.free, 0) /\ Used(g) = Used(h) /\ Kept(g, h, Used(h) \ {b})
        /\ g.size[b] >= a
    <3>1. Trimmed(g, h, end, b, a)
      BY <1>1, <1>4, <2>1, TrimUsedGood
    <3> QED
      BY <3>1 DEF Trimmed
  <2>4. Used(h) = (Used(h) \ {b}) \cup {b} /\ b \notin Used(h) \ {b}
    OBVIOUS
  <2> QED
    BY <1>3, <2>2, <2>3, <2>4 DEF Resized
<1>5. CASE ~(a <= h.size[b]) /\ block_next(h, b) \in h.free
           /\ a <= h.size[b] + h.size[block_next(h, b)] + block_header_overhead
  <2>1. PICK k : k = block_mark_as_used(block_merge_next(h, b), b)
    OBVIOUS
  <2>2. PICK c \in h.free : c = block_next(h, b)
    BY <1>5
  <2>3. /\ Good(k, end, k.free, 0) /\ Used(k) = Used(h) /\ Kept(k, h, Used(h) \ {b})
        /\ k.size[b] = h.size[b] + h.size[c] + ALIGN_SIZE
    BY <2>1, <2>2, GrowGood
  <2>4. PICK g : g = block_trim_used(k, b, a, junk)
    OBVIOUS
  <2>5. result = <<g, b>>
    BY <1>5, <2>1, <2>4 DEF tlsf_realloc
  <2>6. a <= k.size[b] /\ b \in Used(k)
    BY <1>3, <1>5, <2>2, <2>3
  <2>7. /\ Good(g, end, g.free, 0) /\ Used(g) = Used(k) /\ Kept(g, k, Used(k) \ {b})
        /\ g.size[b] >= a
    <3>1. Trimmed(g, k, end, b, a)
      BY <1>1, <2>3, <2>4, <2>6, TrimUsedGood
    <3> QED
      BY <3>1 DEF Trimmed
  <2>8. Used(g) = (Used(h) \ {b}) \cup {b} /\ b \notin Used(h) \ {b} /\ Kept(g, h, Used(h) \ {b})
    BY <2>3, <2>7 DEF Kept
  <2> QED
    BY <1>3, <2>5, <2>7, <2>8 DEF Resized
<1>6. CASE ~(a <= h.size[b]) /\ ~(/\ block_next(h, b) \in h.free
                                  /\ a <= h.size[b] + h.size[block_next(h, b)] + block_header_overhead)
  <2>1. PICK moved : moved = tlsf_malloc(h, n, junk)
    OBVIOUS
  <2>2. result = IF moved[2] = 0 THEN <<h, 0>> ELSE <<tlsf_free(moved[1], b), moved[2]>>
    BY <1>6, <2>1 DEF tlsf_realloc
  <2>3. Allocated(moved, h, end, a)
    BY <2>1, MallocGood
  <2>4. CASE moved = <<h, 0>>
    BY <2>2, <2>4 DEF Resized
  <2>5. CASE moved # <<h, 0>>
    <3>1. PICK k, q : moved = <<k, q>> /\ q # 0 /\ Given(k, h, end, q, a)
      BY <2>3, <2>5 DEF Allocated
    <3>2. /\ Good(k, end, k.free, 0) /\ Used(k) = Used(h) \cup {q} /\ q \notin Used(h)
          /\ k.size[q] >= a /\ Kept(k, h, Used(h))
      BY <3>1 DEF Given
    <3>3. PICK g : g = tlsf_free(k, b)
      OBVIOUS
    <3>4. result = <<g, q>>
      BY <2>2, <3>1, <3>3
    <3>5. Good(g, end, g.free, 0) /\ Used(g) = Used(k) \ {b} /\ Kept(g, k, Used(k) \ {b})
      BY <3>2, <3>3, FreeGood
    <3>6. q # b
      BY <3>2
    <3>7. g.size[q] = k.size[q] /\ k.size[b] = h.size[b]
      BY <3>2, <3>5, <3>6 DEF Kept
    <3>8. (b < q => b + h.size[b] <= q) /\ (q < b => q + g.size[q] <= b)
      <4>1. b \in Starts(k) /\ q \in Starts(k) /\ HeapType(k) /\ Phys(k, end)
        BY <3>2 DEF Used, Good
      <4>2. /\ b < q => block_next(k, b) <= q
            /\ q < b => block_next(k, q) <= b
            /\ block_next(k, b) = b + k.size[b] + ALIGN_SIZE /\ block_next(k, q) = q + k.size[q] + ALIGN_SIZE
            /\ q \in Nat /\ k.size[q] \in Nat /\ k.size[b] \in Nat
        BY <4>1, NextFacts
      <4> QED
        BY <1>3, <3>7, <4>2
    <3>9. Used(g) = (Used(h) \ {b}) \cup {q} /\ q \notin Used(h) \ {b} /\ Kept(g, h, Used(h) \ {b})
      BY <3>2, <3>5, <3>6 DEF Kept
    <3> QED
      BY <3>1, <3>2, <3>4, <3>5, <3>7, <3>8, <3>9 DEF Resized
  <2> QED
    BY <2>4, <2>5
<1> QED
  BY <1>4, <1>5, <1>6

(* tlsf_memalign.  The gap before the aligned payload is nothing, or large *)
(* enough for a block of its own, and what was asked for fits behind it.   *)
LEMMA AlignSame ==
  ASSUME NEW x \in Nat, NEW p \in Nat, p >= 1, x % p = 0 PROVE align_up(x, p) = x
<1>1. PICK y \in Nat : y = align_up(x, p)
  BY AlignUp
<1>2. y % p = 0 /\ x <= y /\ y < x + p
  BY <1>1, AlignUp
<1>p. p > 0
  OBVIOUS
<1>3. PICK j \in Nat : x = j * p
  BY <1>p, Multiple
<1>4. PICK k \in Nat : y = k * p
  BY <1>2, <1>p, Multiple
<1>5. j <= k
  BY <1>2, <1>3, <1>4, Times
<1>6. ~(j < k)
  <2> SUFFICES ASSUME j < k PROVE FALSE
    OBVIOUS
  <2>1. (j + 1) * p <= k * p /\ (j + 1) * p = j * p + p /\ j * p \in Nat
    BY Times
  <2> QED
    BY <1>2, <1>3, <1>4, <2>1
<1> QED
  BY <1>1, <1>3, <1>4, <1>5, <1>6

LEMMA MultOfMult ==
  ASSUME NEW x \in Nat, NEW p \in Mult, p >= 1, x % p = 0 PROVE x \in Mult
<1>1. p \in Nat /\ ALIGN_SIZE \in Nat /\ ALIGN_SIZE > 0
  BY MultFacts, Words
<1>2. PICK k \in Nat : x = k * p
  BY <1>1, Multiple
<1>3. PICK j \in Nat : p = j * ALIGN_SIZE
  BY <1>1, Multiple DEF Mult
<1>4. PICK i \in Nat : i = k * j
  BY Times
<1>5. x = i * ALIGN_SIZE
  BY <1>1, <1>2, <1>3, <1>4
<1> QED
  BY <1>5, MultFacts

LEMMA GapFacts ==
  ASSUME NEW b \in Mult, NEW align \in Mult, align > ALIGN_SIZE, NEW a \in Mult, a >= 3 * ALIGN_SIZE,
         NEW gap, gap = AlignmentGap(b, align)
  PROVE  /\ gap \in Mult /\ gap \in Nat
         /\ gap = 0 \/ (gap >= 4 * ALIGN_SIZE /\ gap <= align + a /\ gap <= align + 4 * ALIGN_SIZE)
<1> DEFINE W == ALIGN_SIZE
<1>1. W \in Nat /\ W >= 1 /\ align \in Nat /\ b \in Nat /\ a \in Nat /\ block_header_size = 4 * W /\ W \in Mult
  BY Words, MultFacts
<1>2. align >= 2 * W /\ align >= 1
  <2>1. W + W <= align
    BY <1>1, MultFacts
  <2> QED
    BY <1>1, <2>1
<1> HIDE DEF W
<1>3. PICK up : up = align_up(b, align)
  OBVIOUS
<1>4. up \in Nat /\ up % align = 0 /\ b <= up /\ up < b + align
  BY <1>1, <1>2, <1>3, AlignUp
<1>5. up \in Mult
  BY <1>2, <1>4, MultOfMult
<1>6. PICK g : g = up - b
  OBVIOUS
<1>7. g \in Mult /\ g \in Nat /\ g < align
  <2>1. up - b \in Mult
    BY <1>4, <1>5, MultFacts
  <2> QED
    BY <1>1, <1>4, <1>6, <2>1
<1>8. gap = IF g = 0 \/ g >= 4 * W THEN g
            ELSE align_up(up + Max({4 * W - g, align}), align) - b
  BY <1>1, <1>3, <1>6 DEF AlignmentGap
<1>9. CASE g = 0 \/ g >= 4 * W
  <2>1. gap = g
    BY <1>8, <1>9
  <2> QED
    BY <1>1, <1>7, <1>9, <2>1 DEF W
<1>10. CASE ~(g = 0 \/ g >= 4 * W)
  <2>1. g >= W
    <3>1. 0 \in Mult /\ 0 < g
      BY <1>7, <1>10, MultFacts
    <3>2. 0 + W <= g
      BY <1>7, <3>1, MultFacts DEF W
    <3> QED
      BY <1>1, <3>2
  <2>2. 4 * W - g \in Nat
    BY <1>1, <1>7, <1>10
  <2>3. PICK o \in Nat : o = Max({4 * W - g, align}) /\ o = IF 4 * W - g >= align THEN 4 * W - g ELSE align
    <3>1. Max({4 * W - g, align}) = IF 4 * W - g >= align THEN 4 * W - g ELSE align
      BY <1>1, <2>2, MaxPair
    <3> QED
      BY <1>1, <2>2, <3>1
  <2>4. PICK t : t = align_up(up + o, align)
    OBVIOUS
  <2>5. gap = t - b
    BY <1>8, <1>10, <2>3, <2>4
  <2>6. t \in Nat /\ t % align = 0 /\ up + o <= t /\ t < up + o + align
    <3>1. up + o \in Nat
      BY <1>4, <2>3
    <3> QED
      BY <1>1, <1>2, <2>4, <3>1, AlignUp
  <2>7. t \in Mult
    BY <1>2, <2>6, MultOfMult
  <2>8. t >= b
    BY <1>1, <1>4, <2>3, <2>6
  <2>9. gap \in Mult /\ gap \in Nat
    <3>1. t - b \in Mult
      BY <2>7, <2>8, MultFacts
    <3> QED
      BY <2>5, <3>1, MultFacts
  <2>10. CASE o = align
    <3>1. (up + align) % align = 0 /\ up + align \in Nat
      <4>1. PICK k \in Nat : up = k * align
        BY <1>1, <1>2, <1>4, Multiple
      <4>2. up + align = (k + 1) * align /\ k + 1 \in Nat
        BY <1>1, <4>1
      <4>3. ((k + 1) * align) % align = 0 /\ (k + 1) * align \in Nat
        BY <1>1, <1>2, <4>2, Times
      <4> QED
        BY <4>2, <4>3
    <3>2. t = up + align
      BY <1>1, <1>2, <2>4, <2>10, <3>1, AlignSame
    <3>3. gap = g + align
      BY <1>1, <1>4, <1>6, <2>5, <3>2
    <3>4. g + align >= 4 * W
      BY <1>1, <1>7, <2>2, <2>3, <2>10
    <3>5. g <= 3 * W
      <4>1. 4 * W \in Mult /\ g < 4 * W
        BY <1>1, <1>7, <1>10, MultFacts DEF W
      <4>2. g + W <= 4 * W
        BY <1>7, <4>1, MultFacts DEF W
      <4> QED
        BY <1>1, <1>7, <4>2
    <3> QED
      BY <1>1, <1>7, <2>9, <3>3, <3>4, <3>5 DEF W
  <2>11. CASE o # align
    <3>1. o = 4 * W - g /\ o > align
      BY <1>1, <2>2, <2>3, <2>11
    <3>2. align < 3 * W
      BY <1>1, <1>7, <2>1, <3>1
    <3>3. gap >= 4 * W /\ gap < 4 * W + align
      BY <1>1, <1>4, <1>6, <2>3, <2>5, <2>6, <3>1
    <3>4. gap < 7 * W
      BY <1>1, <2>9, <3>2, <3>3
    <3>5. align = 2 * W
      <4>1. 3 * W \in Mult
        BY <1>1, MultFacts DEF W
      <4>2. align + W <= 3 * W
        BY <3>2, <4>1, MultFacts DEF W
      <4> QED
        BY <1>1, <1>2, <4>2
    <3>6. gap <= 5 * W
      <4>1. 6 * W \in Mult
        BY <1>1, MultFacts DEF W
      <4>2. gap < 6 * W
        BY <1>1, <2>9, <3>3, <3>5
      <4>3. gap + W <= 6 * W
        BY <2>9, <4>1, <4>2, MultFacts DEF W
      <4> QED
        BY <1>1, <2>9, <4>3
    <3> QED
      BY <1>1, <2>9, <3>3, <3>5, <3>6 DEF W
  <2> QED
    BY <2>10, <2>11
<1> QED
  BY <1>9, <1>10

(* block_trim_free_leading gives back what is before the aligned payload.  *)
LEMMA LeadingGood ==
  ASSUME NEW h, NEW end, NEW b, Loose(h, end, b), Apart(h, 0),
         NEW n \in Mult, n >= 4 * ALIGN_SIZE, n + 4 * ALIGN_SIZE <= h.size[b], NEW junk \in JunkFlags,
         NEW r, r = b + n, NEW g, g = block_trim_free_leading(h, b, n, junk)
  PROVE  /\ Loose(g, end, r) /\ Used(g) = Used(h) /\ Kept(g, h, Used(h))
         /\ g.size[r] = h.size[b] - n /\ block_can_split(h, b, n)
         /\ r = Remaining(b, n - block_header_overhead)
<1>1. /\ HeapType(h) /\ h.sound /\ Phys(h, end) /\ Flags(h) /\ b \in h.free /\ ListsOK(h, h.free \ {b})
      /\ block_next(h, b) \notin h.free
  BY DEF Loose, Good
<1>2. b \in Starts(h)
  BY <1>1 DEF Flags
<1>3. h.size[b] \in Nat /\ b \in Nat /\ ALIGN_SIZE \in Nat /\ ALIGN_SIZE >= 1 /\ n \in Nat
      /\ block_header_overhead = ALIGN_SIZE /\ ALIGN_SIZE \in Mult
  BY <1>1, <1>2, NextFacts, Words, MultFacts
<1>4. block_can_split(h, b, n)
  BY <1>1, <1>2, CanSplit
<1>5. PICK m : m = n - ALIGN_SIZE
  OBVIOUS
<1>6. m \in Mult /\ m >= 3 * ALIGN_SIZE /\ m + 4 * ALIGN_SIZE <= h.size[b] /\ r = b + m + ALIGN_SIZE
  <2>1. n - ALIGN_SIZE \in Mult
    BY <1>3, MultFacts
  <2> QED
    BY <1>3, <1>5, <2>1
<1>7. r = Remaining(b, m) /\ r = Remaining(b, n - block_header_overhead)
  BY <1>1, <1>2, <1>3, <1>5, <1>6, RestAddr
<1>8. PICK k : k = block_link_next([block_split(h, b, m, junk) EXCEPT !.prev_free = @ \cup {r}], b)
  OBVIOUS
<1>9. Cut(k, h, end, b, m, r)
  BY <1>1, <1>2, <1>6, <1>8, CutFields
<1>10. CutDone(k, h, end, b, m, r)
  BY <1>1, <1>9, SplitGood
<1>11. /\ Good(k, end, h.free \ {b}, r) /\ Starts(k) = Starts(h) \cup {r} /\ r \notin h.free /\ r # b
       /\ k.free = h.free \cup {r} /\ block_next(k, r) = block_next(h, b)
       /\ Used(k) = Used(h) /\ Kept(k, h, Used(h) \ {b})
  BY <1>10 DEF CutDone
<1>12. g = block_insert(k, b)
  BY <1>3, <1>4, <1>5, <1>7, <1>8 DEF block_trim_free_leading
<1>13. Good(g, end, (h.free \ {b}) \cup {b}, r) /\ SamePhys(g, k)
  BY <1>2, <1>11, <1>12, InsertGood
<1>14. g.free = h.free \cup {r} /\ block_next(g, r) = block_next(h, b) /\ Used(g) = Used(k) /\ g.size = k.size
  <2>1. Used(g) = Used(k) /\ block_next(g, r) = block_next(k, r)
    BY <1>13, PhysFrame
  <2>2. g.free = k.free /\ g.size = k.size
    BY <1>13 DEF SamePhys
  <2> QED
    BY <1>11, <2>1, <2>2
<1>15. (h.free \ {b}) \cup {b} = g.free \ {r}
  BY <1>1, <1>11, <1>14
<1>16. block_next(h, b) # r
  <2>1. block_next(k, r) # r
    <3>1. r \in Starts(k) /\ HeapType(k) /\ Phys(k, end)
      BY <1>11 DEF Good
    <3>2. r < block_next(k, r) /\ r \in Nat
      BY <3>1, NextFacts
    <3> QED
      BY <3>2
  <2> QED
    BY <1>11, <2>1
<1>17. Loose(g, end, r)
  BY <1>1, <1>13, <1>14, <1>15, <1>16 DEF Loose
<1>18. g.size[r] = h.size[b] - n
  <2>1. k.size[r] = h.size[b] - (m + ALIGN_SIZE)
    BY <1>9 DEF Cut, SplitOf
  <2> QED
    BY <1>3, <1>5, <1>14, <2>1
<1>19. Kept(g, h, Used(h))
  <2>1. b \notin Used(h)
    BY <1>1 DEF Used
  <2> QED
    BY <1>11, <1>14, <2>1 DEF Kept
<1> QED
  BY <1>4, <1>7, <1>11, <1>14, <1>17, <1>18, <1>19

AlignedSize(a, align) ==
  IF a # 0 /\ align > ALIGN_SIZE THEN adjust_request_size(a + align + block_header_size, align) ELSE a

LEMMA AlignedSizeFacts ==
  ASSUME NEW n \in Nat, NEW align \in Aligns, NEW a, a = adjust_request_size(n, ALIGN_SIZE),
         NEW s, s = AlignedSize(a, align)
  PROVE  /\ s \in Mult /\ s \in Nat /\ s < block_size_max /\ (s # 0 => a # 0)
         /\ s # 0 /\ align > ALIGN_SIZE => s >= a + align + 4 * ALIGN_SIZE
<1>1. a \in Mult /\ a \in Nat /\ a < block_size_max /\ (a # 0 => a >= 3 * ALIGN_SIZE)
  BY AdjustFacts
<1>2. ALIGN_SIZE \in Nat /\ ALIGN_SIZE >= 1 /\ block_header_size = 4 * ALIGN_SIZE /\ block_size_min = 3 * ALIGN_SIZE
      /\ block_size_max \in Nat /\ block_size_max >= 4 * ALIGN_SIZE
  BY Words
<1>3. align \in Nat /\ align >= 1 /\ (align % ALIGN_SIZE = 0 \/ ALIGN_SIZE % align = 0)
  BY KallocAssumption
<1>4. s = IF a # 0 /\ align > ALIGN_SIZE
          THEN adjust_request_size(a + align + block_header_size, align) ELSE a
  BY DEF AlignedSize
<1>5. align > ALIGN_SIZE => align \in Mult
  BY <1>2, <1>3 DEF Mult
<1>6. /\ s \in Mult /\ s \in Nat /\ s < block_size_max /\ (s # 0 => a # 0)
      /\ s # 0 /\ align > ALIGN_SIZE => s >= a + align + 4 * ALIGN_SIZE
  <2>1. CASE a # 0 /\ align > ALIGN_SIZE
    <3>1. PICK x \in Nat : x = a + align + block_header_size /\ x = a + align + 4 * ALIGN_SIZE
      BY <1>1, <1>2, <1>3
    <3>2. PICK u : u = align_up(x, align)
      OBVIOUS
    <3>3. u \in Nat /\ u % align = 0 /\ x <= u
      BY <1>3, <3>1, <3>2, AlignUp
    <3>4. u \in Mult
      BY <1>3, <1>5, <2>1, <3>3, MultOfMult
    <3>5. s = IF x = 0 \/ u >= block_size_max THEN 0 ELSE Max({u, block_size_min})
      BY <1>4, <2>1, <3>1, <3>2 DEF adjust_request_size
    <3>6. Max({u, block_size_min}) = IF u >= 3 * ALIGN_SIZE THEN u ELSE 3 * ALIGN_SIZE
      BY <1>2, <3>3, MaxPair
    <3>7. 0 \in Mult /\ u >= 3 * ALIGN_SIZE
      BY <1>1, <1>2, <1>3, <3>1, <3>3, MultFacts
    <3> QED
      BY <1>2, <2>1, <3>1, <3>3, <3>4, <3>5, <3>6, <3>7
  <2>2. CASE ~(a # 0 /\ align > ALIGN_SIZE)
    <3>1. s = a
      BY <1>4, <2>2
    <3> QED
      BY <1>1, <2>2, <3>1
  <2> QED
    BY <2>1, <2>2
<1> QED
  BY <1>6

LEMMA MemalignGood ==
  ASSUME NEW h, NEW end, Good(h, end, h.free, 0), NEW n \in Nat, NEW align \in Aligns, NEW junk \in JunkFlags,
         NEW a, a = adjust_request_size(n, ALIGN_SIZE), NEW result, result = tlsf_memalign(h, align, n, junk)
  PROVE  Allocated(result, h, end, a)
<1>1. a \in Mult /\ a \in Nat /\ a < block_size_max /\ (a # 0 => a >= 3 * ALIGN_SIZE)
  BY AdjustFacts
<1>2. ALIGN_SIZE \in Nat /\ ALIGN_SIZE >= 1 /\ block_header_size = 4 * ALIGN_SIZE /\ block_size_min = 3 * ALIGN_SIZE
      /\ block_size_max \in Nat /\ block_size_max >= 4 * ALIGN_SIZE
  BY Words
<1>3. align \in Nat /\ align >= 1 /\ (align % ALIGN_SIZE = 0 \/ ALIGN_SIZE % align = 0)
  BY KallocAssumption
<1>4. PICK s : s = IF a # 0 /\ align > ALIGN_SIZE
                   THEN adjust_request_size(a + align + block_header_size, align) ELSE a
  OBVIOUS
<1>5. align > ALIGN_SIZE => align \in Mult
  BY <1>2, <1>3 DEF Mult
<1>6. /\ s \in Mult /\ s \in Nat /\ s < block_size_max /\ (s # 0 => a # 0)
      /\ s # 0 /\ align > ALIGN_SIZE => s >= a + align + 4 * ALIGN_SIZE
  <2>1. s = AlignedSize(a, align)
    BY <1>4 DEF AlignedSize
  <2> QED
    BY <2>1, AlignedSizeFacts
<1>7. PICK located : located = block_locate_free(h, s)
  OBVIOUS
<1>8. Located(h, end, s, located)
  BY <1>6, <1>7, LocateGood
<1>9. PICK gap : gap = AlignmentGap(located[2], align)
  OBVIOUS
<1>10. result =
         IF located[2] = 0 THEN <<h, 0>>
         ELSE IF gap = 0 THEN block_prepare_used(located[1], located[2], a, junk)
         ELSE block_prepare_used(
                block_trim_free_leading(tlsf_assert(located[1], gap >= block_header_size), located[2], gap, junk),
                IF block_can_split(located[1], located[2], gap)
                THEN Remaining(located[2], gap - block_header_overhead) ELSE located[2],
                a, junk)
  BY <1>4, <1>7, <1>9 DEF tlsf_memalign
<1>11. CASE located = <<h, 0>>
  BY <1>10, <1>11 DEF Allocated
<1>12. CASE located # <<h, 0>>
  <2>1. PICK k, b : /\ located = <<k, b>> /\ b # 0 /\ Loose(k, end, b) /\ Apart(k, 0) /\ SamePhys(k, h)
                    /\ h.size[b] >= s
    BY <1>8, <1>12 DEF Located
  <2>2. s # 0 /\ a # 0 /\ a >= 3 * ALIGN_SIZE
    <3>1. s # 0
      BY <1>7, <1>12 DEF block_locate_free
    <3> QED
      BY <1>1, <1>6, <3>1
  <2>3. HeapType(k) /\ k.sound /\ Phys(k, end) /\ b \in Starts(k)
    BY <2>1 DEF Loose, Good, Flags
  <2>4. k.size[b] \in Nat /\ b \in Mult /\ b \in Nat /\ k.size[b] >= s
    BY <2>1, <2>3, AddrFacts, NextFacts DEF SamePhys
  <2>5. Used(k) = Used(h) /\ k.size = h.size
    BY <2>1, PhysFrame DEF SamePhys
  <2>6. ASSUME NEW g, NEW c, g = <<g[1], c>>, Given(g[1], k, end, c, a), c # 0, result = g
        PROVE  Allocated(result, h, end, a)
    <3>1. Given(g[1], h, end, c, a)
      BY <2>5, <2>6 DEF Given, Kept
    <3> QED
      BY <2>6, <3>1 DEF Allocated
  <2>7. CASE gap = 0
    <3>1. result = block_prepare_used(k, b, a, junk)
      BY <1>10, <2>1, <2>7
    <3>2. a <= k.size[b]
      <4>1. s >= a
        BY <1>1, <1>2, <1>3, <1>4, <1>6, <2>2
      <4> QED
        BY <1>1, <1>6, <2>4, <4>1
    <3>3. Given(result[1], k, end, b, a) /\ result[2] = b
      BY <1>1, <2>1, <2>2, <3>1, <3>2, PrepareGood
    <3>4. result = <<result[1], b>>
      BY <2>1, <3>1 DEF block_prepare_used
    <3> QED
      BY <2>1, <2>6, <3>3, <3>4
  <2>8. CASE gap # 0
    <3>1. align > ALIGN_SIZE
      <4> SUFFICES ASSUME align <= ALIGN_SIZE PROVE FALSE
        BY <1>2, <1>3
      <4>1. ALIGN_SIZE % align = 0
        <5>1. CASE align < ALIGN_SIZE
          <6>1. align % ALIGN_SIZE = align
            BY <1>2, <1>3, <5>1
          <6> QED
            BY <1>3, <6>1
        <5>2. CASE align = ALIGN_SIZE
          <6>1. 1 * ALIGN_SIZE = ALIGN_SIZE /\ (1 * ALIGN_SIZE) % ALIGN_SIZE = 0
            BY <1>2, Times
          <6> QED
            BY <5>2, <6>1
        <5> QED
          BY <1>2, <1>3, <5>1, <5>2
      <4>2. b % align = 0
        <5>0. b \in Nat /\ b % ALIGN_SIZE = 0 /\ ALIGN_SIZE \in Nat /\ ALIGN_SIZE > 0
          BY <1>2, <2>4 DEF Mult
        <5>1. PICK i \in Nat : b = i * ALIGN_SIZE
          BY <5>0, Multiple
        <5>2. PICK j \in Nat : ALIGN_SIZE = j * align
          BY <1>2, <1>3, <4>1, Multiple
        <5>3. PICK m \in Nat : m = i * j
          BY Times
        <5>4. b = m * align
          BY <1>3, <5>1, <5>2, <5>3
        <5> QED
          BY <1>3, <5>4, Times
      <4>3. align_up(b, align) = b
        BY <1>3, <2>4, <4>2, AlignSame
      <4>4. gap = 0
        BY <1>9, <2>1, <2>4, <4>3 DEF AlignmentGap
      <4> QED
        BY <2>8, <4>4
    <3>2. align \in Mult /\ s >= a + align + 4 * ALIGN_SIZE
      BY <1>5, <1>6, <2>2, <3>1
    <3>3. /\ gap \in Mult /\ gap \in Nat /\ gap >= 4 * ALIGN_SIZE /\ gap <= align + a
          /\ gap <= align + 4 * ALIGN_SIZE
      BY <1>1, <1>9, <2>1, <2>2, <2>4, <2>8, <3>1, <3>2, GapFacts
    <3>4. gap + 4 * ALIGN_SIZE <= k.size[b]
      BY <1>1, <1>2, <1>3, <1>6, <2>4, <3>2, <3>3
    <3>5. tlsf_assert(k, gap >= block_header_size) = k
      <4>1. gap >= block_header_size
        BY <1>2, <3>3
      <4> QED
        BY <2>3, <4>1, AssertTrue
    <3>6. PICK r : r = b + gap
      OBVIOUS
    <3>7. PICK m : m = block_trim_free_leading(k, b, gap, junk)
      OBVIOUS
    <3>8. /\ Loose(m, end, r) /\ Used(m) = Used(k) /\ Kept(m, k, Used(k))
          /\ m.size[r] = k.size[b] - gap /\ block_can_split(k, b, gap)
          /\ r = Remaining(b, gap - block_header_overhead)
      BY <2>1, <3>3, <3>4, <3>6, <3>7, LeadingGood
    <3>9. result = block_prepare_used(m, r, a, junk)
      BY <1>10, <2>1, <2>8, <3>5, <3>7, <3>8
    <3>10. a <= m.size[r] /\ r # 0
      BY <1>1, <1>2, <1>3, <1>6, <2>1, <2>4, <3>2, <3>3, <3>6, <3>8
    <3>11. Given(result[1], m, end, r, a) /\ result[2] = r
      BY <1>1, <2>2, <3>8, <3>9, <3>10, PrepareGood
    <3>12. result = <<result[1], r>>
      BY <3>9, <3>10 DEF block_prepare_used
    <3>13. Given(result[1], k, end, r, a)
      BY <3>8, <3>11 DEF Given, Kept
    <3> QED
      BY <2>6, <3>10, <3>12, <3>13
  <2> QED
    BY <2>7, <2>8
<1> QED
  BY <1>11, <1>12

LEMMA MemalignNull ==
  ASSUME NEW h, NEW n \in Nat, NEW align \in Aligns, NEW junk \in JunkFlags,
         Bare(h) \/ adjust_request_size(n, ALIGN_SIZE) = 0
  PROVE  tlsf_memalign(h, align, n, junk) = <<h, 0>>
<1>1. PICK a : a = adjust_request_size(n, ALIGN_SIZE)
  OBVIOUS
<1>2. PICK s : s = AlignedSize(a, align)
  OBVIOUS
<1>3. s \in Mult /\ s < block_size_max /\ (s # 0 => a # 0)
  BY <1>1, <1>2, AlignedSizeFacts
<1>4. block_locate_free(h, s) = <<h, 0>>
  <2>1. CASE Bare(h)
    BY <1>3, <2>1, LocateBare
  <2>2. CASE a = 0
    BY <1>3, <2>2 DEF block_locate_free
  <2> QED
    BY <1>1, <2>1, <2>2
<1> QED
  BY <1>1, <1>2, <1>4 DEF tlsf_memalign, AlignedSize

(* A pool: its first block, and its sentinel, lie in its memory.           *)
PoolFits(bytes, n) ==
  /\ n \in Mult /\ n \in Nat /\ n < block_size_max /\ bytes \in Nat /\ bytes > 0
  /\ Mem \in Mult /\ Mem \in Nat /\ Mem # 0 /\ First = Mem + ALIGN_SIZE /\ First \in Addr \ {0} /\ First \in Nat
  /\ EndOf(bytes) = First + n + ALIGN_SIZE /\ EndOf(bytes) \in Addr /\ EndOf(bytes) <= Mem + bytes
  /\ Mem + bytes <= Top

LEMMA PoolFacts ==
  ASSUME NEW bytes \in PoolSizes, NEW n, n = PoolBytes(bytes), n >= 3 * ALIGN_SIZE
  PROVE  PoolFits(bytes, n)
<1>1. ALIGN_SIZE \in Nat /\ ALIGN_SIZE >= 1 /\ block_header_overhead = ALIGN_SIZE /\ ALIGN_SIZE > 0
  BY Words
<1>2. /\ bytes \in Nat /\ Mem + bytes <= Top /\ n < block_size_max
      /\ Mem \in Nat /\ Mem # 0 /\ Mem % ALIGN_SIZE = 0
  BY KallocAssumption
<1>3. PICK x \in Int : x = bytes - 2 * ALIGN_SIZE
  BY <1>1, <1>2
<1>4. PICK q \in Int : q = x \div ALIGN_SIZE
  BY <1>1
<1>5. n = q * ALIGN_SIZE
  BY <1>1, <1>3, <1>4 DEF PoolBytes, align_down
<1>6. PICK r \in 0 .. ALIGN_SIZE - 1 : x = q * ALIGN_SIZE + r
  <2>1. x % ALIGN_SIZE \in 0 .. ALIGN_SIZE - 1 /\ x = ALIGN_SIZE * (x \div ALIGN_SIZE) + (x % ALIGN_SIZE)
    BY <1>1
  <2> QED
    BY <1>1, <1>4, <2>1
<1>7. q \in Nat
  <2> SUFFICES ASSUME q < 0 PROVE FALSE
    OBVIOUS
  <2>1. PICK m \in Nat : m = -1 - q
    OBVIOUS
  <2>2. m * ALIGN_SIZE \in Nat /\ q * ALIGN_SIZE = -(m * ALIGN_SIZE) - ALIGN_SIZE
    BY <1>1, <2>1
  <2> QED
    BY <1>1, <1>5, <2>2
<1>8. n \in Mult /\ n \in Nat
  BY <1>5, <1>7, MultFacts
<1>9. n <= bytes - 2 * ALIGN_SIZE
  BY <1>1, <1>3, <1>5, <1>6, <1>8
<1>10. First = Mem + ALIGN_SIZE /\ EndOf(bytes) = First + n + ALIGN_SIZE
  BY <1>1 DEF First, EndOf
<1>11. Mem \in Mult
  BY <1>2 DEF Mult
<1>12. First \in Mult
  BY <1>10, <1>11, MultFacts
<1>13. First + n \in Mult
  BY <1>8, <1>12, MultFacts
<1>14. EndOf(bytes) \in Mult
  BY <1>10, <1>13, MultFacts
<1>15. EndOf(bytes) <= Mem + bytes /\ First <= Top /\ EndOf(bytes) <= Top /\ First \in Nat /\ First # 0 /\ bytes > 0
  BY <1>1, <1>2, <1>8, <1>9, <1>10, AddrFacts
<1>16. First \in Addr /\ EndOf(bytes) \in Addr
  BY <1>12, <1>14, <1>15, AddrFacts
<1> QED
  BY <1>2, <1>8, <1>10, <1>11, <1>15, <1>16 DEF PoolFits

LEMMA EmptyBare == Bare(EmptyHeap)
<1>1. 0 \in Addr /\ 0 \in Mult
  BY AddrFacts, MultFacts
<1>2. HeapType(EmptyHeap)
  BY <1>1 DEF HeapType, EmptyHeap
<1>3. EmptyHeap.sound /\ Starts(EmptyHeap) = {} /\ EmptyHeap.free = {}
  BY DEF EmptyHeap, Starts
<1>4. Links(EmptyHeap, {})
  BY DEF EmptyHeap, Links
<1>5. Bitmaps(EmptyHeap)
  BY DEF EmptyHeap, Bitmaps, Lists
<1>6. Ranked(EmptyHeap, {})
  <2>1. [a \in Addr |-> 0] \in [Addr -> Int] /\ 0 \in Int
    OBVIOUS
  <2>2. \A a \in Addr : 0 <= [c \in Addr |-> 0][a]
    OBVIOUS
  <2> QED
    BY <2>1, <2>2 DEF Ranked
<1> QED
  BY <1>2, <1>3, <1>4, <1>5, <1>6 DEF Bare, ListsOK

(* tlsf_add_pool: one free block, or nothing at all.                       *)
PoolAdded(result, h, bytes) ==
  \/ result = <<h, 0>>
  \/ \E g : /\ result = <<g, Mem>> /\ Mem # 0 /\ bytes \in Nat /\ bytes > 0
            /\ Good(g, EndOf(bytes), g.free, 0) /\ Used(g) = {}

LEMMA AddPoolGood ==
  ASSUME NEW h, Bare(h), NEW bytes \in PoolSizes, NEW junk \in JunkFlags,
         NEW result, result = tlsf_add_pool(h, Mem, bytes, junk)
  PROVE  PoolAdded(result, h, bytes)
<1>1. /\ ALIGN_SIZE \in Nat /\ ALIGN_SIZE >= 1 /\ block_header_overhead = ALIGN_SIZE
      /\ block_size_min = 3 * ALIGN_SIZE /\ block_size_max \in Nat
  BY Words
<1>2. PICK n : n = PoolBytes(bytes)
  OBVIOUS
<1>3. HeapType(h) /\ h.sound /\ Starts(h) = {} /\ h.free = {} /\ ListsOK(h, {})
  BY DEF Bare
<1>4. CASE Mem % ALIGN_SIZE # 0 \/ n \notin block_size_min .. block_size_max
  BY <1>2, <1>4 DEF tlsf_add_pool, PoolAdded
<1>5. CASE ~(Mem % ALIGN_SIZE # 0 \/ n \notin block_size_min .. block_size_max)
  <2>1. n >= 3 * ALIGN_SIZE
    BY <1>1, <1>5
  <2>2. PICK end : end = EndOf(bytes)
    OBVIOUS
  <2>3. PICK b : b = First
    OBVIOUS
  <2>4. /\ n \in Mult /\ n \in Nat /\ n < block_size_max /\ bytes \in Nat /\ bytes > 0 /\ n # 0
        /\ Mem \in Nat /\ Mem # 0 /\ b = Mem + ALIGN_SIZE /\ b \in Addr \ {0} /\ b \in Nat
        /\ end = b + n + ALIGN_SIZE /\ end \in Addr /\ end # b /\ end \in Nat /\ b < end
    <3>1. PoolFits(bytes, n)
      BY <1>2, <2>1, PoolFacts
    <3> QED
      BY <1>1, <2>1, <2>2, <2>3, <3>1 DEF PoolFits
  <2>5. junk.free \in BOOLEAN /\ junk.prev_free \in BOOLEAN
    BY TlsfAssumption
  <2> DEFINE made == [SetFlags(h, b, junk) EXCEPT !.size[b] = n, !.free = @ \cup {b}, !.prev_free = @ \ {b}]
  <2>6. PICK z \in [Addr -> Mult], v \in SUBSET Addr :
          z = [h.size EXCEPT ![b] = n] /\ v = h.prev_free \ {b}
    <3>1. h.size \in [Addr -> Mult] /\ h.prev_free \in SUBSET Addr
      BY <1>3 DEF HeapType
    <3>2. [h.size EXCEPT ![b] = n] \in [Addr -> Mult] /\ h.prev_free \ {b} \in SUBSET Addr
      BY <2>4, <3>1
    <3> QED
      BY <3>2
  <2>7. made = [h EXCEPT !.size = z, !.free = {b}, !.prev_free = v]
    <3>1. (IF junk.free THEN h.free \cup {b} ELSE h.free \ {b}) \cup {b} = {b}
      BY <1>3
    <3>2. (IF junk.prev_free THEN h.prev_free \cup {b} ELSE h.prev_free \ {b}) \ {b} = v
      BY <2>6
    <3> QED
      BY <1>3, <2>6, <3>1, <3>2 DEF SetFlags, HeapType
  <2> HIDE DEF made
  <2>8. {b} \in SUBSET Addr
    BY <2>4
  <2>9. /\ HeapType(made) /\ made.sound /\ SameLists(made, h) /\ made.size = z /\ made.free = {b}
        /\ made.prev_free = v
    BY <1>3, <2>7, <2>8 DEF HeapType, SameLists
  <2>10. made.size[b] = n /\ Starts(made) = {b}
    <3>1. h.size \in [Addr -> Mult]
      BY <1>3 DEF HeapType
    <3>2. \A a \in Addr : h.size[a] = 0
      BY <1>3 DEF Starts
    <3>3. z[b] = n /\ \A a \in Addr : a # b => z[a] = 0
      BY <2>4, <2>6, <3>1, <3>2
    <3> QED
      BY <2>4, <2>9, <3>3 DEF Starts
  <2>11. ListsOK(made, {})
    BY <1>3, <2>9, ListsFrame
  <2>12. Class(made, b) \in Lists
    BY <2>4, <2>10, ClassType DEF Class
  <2>13. PICK k : k = block_insert(made, b)
    OBVIOUS
  <2>14. HeapType(k) /\ SamePhys(k, made) /\ ListsOK(k, {b})
    <3>1. {} \cup {b} = {b}
      OBVIOUS
    <3>2. HeapType(k) /\ SamePhys(k, made) /\ ListsOK(k, {} \cup {b})
      BY <2>4, <2>9, <2>11, <2>12, <2>13, InsertOK, SMTT(30)
    <3> QED
      BY <3>1, <3>2
  <2>15. k.sound /\ k.size = z /\ k.size[b] = n /\ k.size[b] # 0 /\ k.free = {b} /\ k.prev_free = v /\ block_next(k, b) = end
    BY <1>1, <2>4, <2>9, <2>10, <2>14 DEF SamePhys, block_next
  <2>16. PICK m : m = block_link_next(k, b)
    OBVIOUS
  <2>17. Marked(m, k, k.free, k.prev_free, end, b)
    BY <2>4, <2>14, <2>15, <2>16, LinkFields
  <2>18. /\ HeapType(m) /\ m.sound /\ SameLists(m, k) /\ m.size = z /\ m.free = {b} /\ m.prev_free = v
         /\ m.prev_phys[end] = b /\ m.size[b] = n
    BY <2>4, <2>15, <2>17 DEF Marked
  <2> DEFINE g == [SetFlags(m, end, junk) EXCEPT !.free = @ \ {end}, !.prev_free = @ \cup {end}]
  <2>19. PICK w \in SUBSET Addr : w = v \cup {end}
    BY <2>4
  <2>20. g = [m EXCEPT !.free = {b}, !.prev_free = w]
    <3>1. (IF junk.free THEN m.free \cup {end} ELSE m.free \ {end}) \ {end} = {b}
      BY <2>4, <2>18
    <3>2. (IF junk.prev_free THEN m.prev_free \cup {end} ELSE m.prev_free \ {end}) \cup {end} = w
      BY <2>18, <2>19
    <3> QED
      BY <2>18, <3>1, <3>2 DEF SetFlags, HeapType
  <2>21. result = <<g, Mem>>
    <3>1. Mem + block_header_overhead = b /\ block_next(made, b) = end
      BY <1>1, <2>4, <2>10 DEF block_next
    <3> QED
      BY <1>2, <1>5, <2>13, <2>16, <3>1 DEF tlsf_add_pool, made
  <2> HIDE DEF g
  <2>22. /\ HeapType(g) /\ g.sound /\ SameLists(g, m) /\ g.size = z /\ g.free = {b} /\ g.prev_free = w
         /\ g.prev_phys[end] = b /\ g.size[b] = n
    BY <2>8, <2>18, <2>20 DEF HeapType, SameLists
  <2>23. Starts(g) = {b} /\ block_next(g, b) = end
    BY <1>1, <2>4, <2>9, <2>10, <2>22 DEF Starts, block_next
  <2>24. Phys(g, end)
    <3>1. First \in Starts(g) /\ First \notin g.prev_free
      BY <2>3, <2>4, <2>6, <2>19, <2>22, <2>23
    <3>2. end < First + block_size_max + block_header_overhead
      BY <1>1, <2>3, <2>4
    <3>3. g.size[b] >= block_size_min
      BY <1>1, <2>1, <2>22
    <3>4. \A x \in Starts(g) :
            /\ First <= x /\ g.size[x] >= block_size_min
            /\ block_next(g, x) \in Starts(g) \cup {end} /\ block_next(g, x) <= end
      BY <2>3, <2>4, <2>23, <3>3
    <3>5. \A x, c \in Starts(g) : x < c => block_next(g, x) <= c
      BY <2>4, <2>23
    <3>6. \A c \in (Starts(g) \ {First}) \cup {end} : \E x \in Starts(g) : block_next(g, x) = c
      BY <2>3, <2>23
    <3> QED
      BY <2>4, <3>1, <3>2, <3>4, <3>5, <3>6 DEF Phys
  <2>25. Flags(g) /\ Apart(g, 0)
    BY <2>4, <2>19, <2>22, <2>23 DEF Flags, Apart
  <2>26. ListsOK(g, g.free)
    <3>1. SameLists(g, k)
      BY <2>18, <2>22 DEF SameLists
    <3>2. \A x \in {b} : g.size[x] = k.size[x]
      BY <2>15, <2>22
    <3> QED
      BY <2>14, <2>22, <3>1, <3>2, ListsFrame
  <2>27. Used(g) = {}
    BY <2>22, <2>23 DEF Used
  <2>28. Good(g, end, g.free, 0)
    BY <2>22, <2>24, <2>25, <2>26 DEF Good
  <2> QED
    BY <2>2, <2>4, <2>21, <2>27, <2>28 DEF PoolAdded
<1> QED
  BY <1>4, <1>5

(* tlsf_remove_pool of a pool nobody uses.                                 *)
LEMMA RemovePoolGood ==
  ASSUME NEW h, NEW end, Good(h, end, h.free, 0), Used(h) = {}, NEW g, g = tlsf_remove_pool(h, Mem)
  PROVE  Bare(g)
<1>1. HeapType(h) /\ h.sound /\ Phys(h, end) /\ Flags(h) /\ Apart(h, 0) /\ ListsOK(h, h.free)
  BY DEF Good
<1>2. PICK b : b = First
  OBVIOUS
<1>3. Starts(h) = h.free
  BY <1>1 DEF Flags, Used
<1>4. b \in Starts(h) /\ b \in Addr /\ b = Mem + block_header_overhead
  BY <1>1, <1>2, NextFacts DEF First
<1>5. block_next(h, b) = end
  <2>1. block_next(h, b) \in Starts(h) \cup {end}
    BY <1>1, <1>4, NextFacts
  <2>2. block_next(h, b) \notin h.free
    <3> SUFFICES ASSUME block_next(h, b) \in h.free PROVE FALSE
      OBVIOUS
    <3>1. 0 \in {b, block_next(h, b)}
      BY <1>1, <1>3, <1>4 DEF Apart
    <3> QED
      BY <1>1, <1>3, <1>4, <3>1, NextFacts
  <2> QED
    BY <1>3, <2>1, <2>2
<1>6. Starts(h) = {b}
  <2> SUFFICES ASSUME NEW c \in Starts(h), c # b PROVE FALSE
    BY <1>4
  <2>1. b < c
    <3>1. First <= c /\ c \in Nat /\ b \in Nat
      BY <1>1, <1>4, NextFacts
    <3> QED
      BY <1>2, <3>1
  <2>2. end <= c
    BY <1>1, <1>4, <1>5, <2>1, NextFacts
  <2>3. c < block_next(h, c) /\ block_next(h, c) <= end /\ c \in Nat /\ block_next(h, c) \in Nat /\ end \in Nat
    BY <1>1, NextFacts
  <2> QED
    BY <2>2, <2>3
<1>7. end \in Addr /\ end \notin h.free /\ h.size[end] = 0
  BY <1>1, <1>3, NextFacts DEF Starts
<1>8. tlsf_assert(h, b \in h.free /\ block_next(h, b) \notin h.free /\ h.size[block_next(h, b)] = 0) = h
  BY <1>1, <1>3, <1>4, <1>5, <1>7, AssertTrue
<1>9. PICK k : k = block_remove(h, b)
  OBVIOUS
<1>10. Good(k, end, h.free \ {b}, 0) /\ SamePhys(k, h)
  BY <1>3, <1>4, <1>9, RemoveGood
<1>11. HeapType(k) /\ k.sound /\ ListsOK(k, {}) /\ k.size = h.size /\ k.free = {b} /\ k.prev_free = h.prev_free
  <2>1. h.free \ {b} = {} /\ h.free = {b}
    BY <1>3, <1>6
  <2> QED
    BY <1>10, <2>1 DEF Good, SamePhys
<1>12. g = [k EXCEPT !.size[b] = 0, !.free = @ \ {b}, !.prev_phys[end] = 0, !.prev_free = @ \ {end}]
  BY <1>4, <1>5, <1>8, <1>9 DEF tlsf_remove_pool
<1>13. PICK z \in [Addr -> Mult], v \in SUBSET Addr, p \in [Addr -> Addr] :
         z = [k.size EXCEPT ![b] = 0] /\ v = k.prev_free \ {end} /\ p = [k.prev_phys EXCEPT ![end] = 0]
  <2>1. 0 \in Addr /\ 0 \in Mult
    BY AddrFacts, MultFacts
  <2>2. k.size \in [Addr -> Mult] /\ k.prev_free \in SUBSET Addr /\ k.prev_phys \in [Addr -> Addr]
    BY <1>11 DEF HeapType
  <2>3. /\ [k.size EXCEPT ![b] = 0] \in [Addr -> Mult] /\ k.prev_free \ {end} \in SUBSET Addr
        /\ [k.prev_phys EXCEPT ![end] = 0] \in [Addr -> Addr]
    BY <2>1, <2>2
  <2> QED
    BY <2>3
<1>14. g = [k EXCEPT !.size = z, !.free = {}, !.prev_phys = p, !.prev_free = v]
  <2>1. k.free \ {b} = {}
    BY <1>11
  <2> QED
    BY <1>11, <1>12, <1>13, <2>1 DEF HeapType
<1>15. {} \in SUBSET Addr
  OBVIOUS
<1>16. HeapType(g) /\ g.sound /\ SameLists(g, k) /\ g.size = z /\ g.free = {}
  BY <1>11, <1>14, <1>15 DEF HeapType, SameLists
<1>17. Starts(g) = {}
  <2>1. k.size \in [Addr -> Mult]
    BY <1>11 DEF HeapType
  <2>2. \A a \in Addr : a # b => k.size[a] = 0
    BY <1>6, <1>11 DEF Starts
  <2>3. \A a \in Addr : z[a] = 0
    BY <1>4, <1>13, <2>1, <2>2
  <2> QED
    BY <1>16, <2>3 DEF Starts
<1>18. ListsOK(g, {})
  BY <1>11, <1>16, ListsFrame
<1> QED
  BY <1>16, <1>17, <1>18 DEF Bare
-----------------------------------------------------------------------------
(* The invariant holds and callers see the abstract heap.                  *)

LEMMA KallocInit == Init => KallocInv
<1> SUFFICES ASSUME Init PROVE KallocInv
  OBVIOUS
<1>1. 0 \in Addr
  BY AddrFacts
<1>2. KallocType
  BY <1>1 DEF Init, KallocType, Locations
<1>3. HeapInv
  BY EmptyBare DEF Init, HeapInv
<1>4. Live = {} /\ Pending = {} /\ Holding = {}
  BY DEF Init, Live, Pending, Holding
<1>5. Used(heap) = {}
  BY EmptyBare DEF Init, Used, Bare
<1>6. Exclusive /\ UsedExact /\ PendingApart /\ LiveFits
  BY <1>4, <1>5 DEF Exclusive, UsedExact, PendingApart, LiveFits
<1>7. Prepared /\ MergeReady
  BY DEF Init, Prepared, MergeReady
<1> QED
  BY <1>2, <1>3, <1>6, <1>7 DEF KallocInv, UseInv

(* A heap with no pool has no block.                                       *)
LEMMA BareFacts ==
  ASSUME NEW h, Bare(h) PROVE Used(h) = {} /\ h.free = {}
BY DEF Bare, Used

(* What callers hold is in the pool and apart.                             *)
Disjoint(p, m, q, n) == p + m <= q \/ q + n <= p

LiveOwned ==
  \A p \in Live :
    /\ pool # {} /\ p \in Nat /\ live[p] \in 1 .. Top /\ p .. p + live[p] - 1 \subseteq pool
    /\ \A q \in Live \ {p} : q \in Nat /\ live[q] \in Nat /\ Disjoint(p, live[p], q, live[q])

LEMMA LiveApart == KallocInv => LiveOwned
<1> SUFFICES ASSUME KallocInv, NEW p \in Live
             PROVE  /\ pool # {} /\ p \in Nat /\ live[p] \in 1 .. Top /\ p .. p + live[p] - 1 \subseteq pool
                    /\ \A q \in Live \ {p} :
                         q \in Nat /\ live[q] \in Nat /\ Disjoint(p, live[p], q, live[q])
  BY DEF LiveOwned
<1>1. KallocType /\ HeapInv /\ UsedExact /\ LiveFits
  BY DEF KallocInv, UseInv
<1>2. \A q \in Live : q \in Used(heap) /\ q \in Starts(heap) /\ q \in Addr /\ live[q] \in Nat /\ live[q] # 0
                      /\ live[q] <= heap.size[q]
  BY <1>1 DEF UsedExact, Used, LiveFits, Live, KallocType
<1>3. pool # {}
  BY <1>1, <1>2, BareFacts DEF HeapInv
<1>4. PICK bytes \in PoolSizes :
        bytes > 0 /\ pool = Mem .. Mem + bytes - 1 /\ Good(heap, EndOf(bytes), heap.free \ Detached, Merging)
  BY <1>1, <1>3 DEF HeapInv
<1>5. PICK end : end = EndOf(bytes)
  OBVIOUS
<1>6. HeapType(heap) /\ Phys(heap, end)
  BY <1>4, <1>5 DEF Good
<1>7. /\ ALIGN_SIZE \in Nat /\ ALIGN_SIZE >= 1
      /\ \A q \in Starts(heap) : /\ q \in Nat /\ heap.size[q] \in Nat /\ First <= q
                                 /\ q + heap.size[q] + ALIGN_SIZE <= end
                                 /\ \A r \in Starts(heap) : q < r => q + heap.size[q] + ALIGN_SIZE <= r
  <2>1. ALIGN_SIZE \in Nat /\ ALIGN_SIZE >= 1
    BY Words
  <2>2. ASSUME NEW q \in Starts(heap)
        PROVE  /\ q \in Nat /\ heap.size[q] \in Nat /\ First <= q
               /\ q + heap.size[q] + ALIGN_SIZE <= end
               /\ \A r \in Starts(heap) : q < r => q + heap.size[q] + ALIGN_SIZE <= r
    <3>1. /\ q \in Nat /\ heap.size[q] \in Nat /\ block_next(heap, q) = q + heap.size[q] + ALIGN_SIZE
          /\ First <= q /\ block_next(heap, q) <= end
      BY <1>6, NextFacts
    <3>2. \A r \in Starts(heap) : q < r => block_next(heap, q) <= r
      BY <1>6, NextFacts
    <3> QED
      BY <3>1, <3>2
  <2> QED
    BY <2>1, <2>2
<1>8. end <= Mem + bytes /\ Mem \in Nat /\ First = Mem + ALIGN_SIZE /\ bytes \in Nat /\ Mem + bytes <= Top /\ end \in Nat
      /\ Top \in Nat
  <2>1. PICK n : n = PoolBytes(bytes)
    OBVIOUS
  <2>2. n >= 3 * ALIGN_SIZE
    <3>1. First \in Starts(heap)
      BY <1>6, NextFacts
    <3>2. block_next(heap, First) <= end /\ block_next(heap, First) = First + heap.size[First] + ALIGN_SIZE
          /\ heap.size[First] >= 3 * ALIGN_SIZE /\ First \in Nat /\ heap.size[First] \in Nat
      BY <1>6, <3>1, NextFacts
    <3>3. end = First + n + ALIGN_SIZE
      BY <1>5, <2>1, Words DEF EndOf
    <3>4. n \in Int
      <4>1. bytes \in Nat /\ ALIGN_SIZE \in Nat /\ ALIGN_SIZE > 0 /\ block_header_overhead = ALIGN_SIZE
        BY Words, KallocAssumption
      <4>2. PICK x \in Int : x = bytes - 2 * block_header_overhead
        BY <4>1
      <4>3. x \div ALIGN_SIZE \in Int
        BY <4>1
      <4> QED
        BY <2>1, <4>1, <4>2, <4>3 DEF PoolBytes, align_down
    <3> QED
      BY <1>7, <3>2, <3>3, <3>4
  <2>3. PoolFits(bytes, n)
    BY <2>1, <2>2, PoolFacts
  <2> QED
    BY <1>5, <2>3, AddrFacts DEF PoolFits
<1>9. p \in Nat /\ live[p] \in 1 .. Top /\ p .. p + live[p] - 1 \subseteq pool
  <2>1. /\ p \in Nat /\ heap.size[p] \in Nat /\ First <= p /\ p + heap.size[p] + ALIGN_SIZE <= end
        /\ live[p] \in Nat /\ live[p] # 0 /\ live[p] <= heap.size[p]
    BY <1>2, <1>7
  <2>2. live[p] \in 1 .. Top
    BY <1>7, <1>8, <2>1
  <2>3. ASSUME NEW i \in p .. p + live[p] - 1 PROVE i \in Mem .. Mem + bytes - 1
    BY <1>7, <1>8, <2>1
  <2> QED
    BY <1>4, <2>1, <2>2, <2>3
<1>10. ASSUME NEW q \in Live \ {p} PROVE q \in Nat /\ live[q] \in Nat /\ Disjoint(p, live[p], q, live[q])
  <2>1. /\ p \in Starts(heap) /\ q \in Starts(heap) /\ p # q /\ p \in Nat /\ q \in Nat
        /\ live[p] \in Nat /\ live[q] \in Nat /\ heap.size[p] \in Nat /\ heap.size[q] \in Nat
        /\ live[p] <= heap.size[p] /\ live[q] <= heap.size[q]
    BY <1>2, <1>7
  <2>2. p < q => p + heap.size[p] + ALIGN_SIZE <= q
    BY <1>7, <2>1
  <2>3. q < p => q + heap.size[q] + ALIGN_SIZE <= p
    BY <1>7, <2>1
  <2> QED
    BY <1>7, <2>1, <2>2, <2>3 DEF Disjoint
<1> QED
  BY <1>3, <1>9, <1>10

(* A step of the abstract heap, or none.                                   *)
AbstractStep == Abstract!Next \/ UNCHANGED <<pool, live>>

LEMMA AbstractAlloc ==
  ASSUME KallocInv, KallocInv', UNCHANGED pool, NEW p \in Addr \ Live, NEW n \in Nat \ {0},
         live' = [live EXCEPT ![p] = n]
  PROVE  AbstractStep
<1>1. live \in [Addr -> Nat] /\ live' \in [Addr -> Nat]
  BY DEF KallocInv, KallocType
<1>2. live'[p] = n /\ \A q \in Live : q # p /\ live'[q] = live[q] /\ live'[q] # 0 /\ q \in Addr
  BY <1>1 DEF Live
<1>3. p \in Live' /\ \A q \in Live : q \in Live' \ {p}
  BY <1>2 DEF Live
<1>4. p \in Nat /\ live'[p] \in 1 .. Top /\ p .. p + live'[p] - 1 \subseteq pool
      /\ \A q \in Live' \ {p} : q \in Nat /\ live'[q] \in Nat /\ Disjoint(p, live'[p], q, live'[q])
  <2>1. LiveOwned'
    BY LiveApart, PTL
  <2> QED
    BY <1>3, <2>1 DEF LiveOwned
<1>5. \A q \in Live : q \in Nat /\ live[q] \in Nat /\ Disjoint(p, live'[p], q, live[q])
  BY <1>2, <1>3, <1>4
<1>6. \A q \in Live : (p .. p + live'[p] - 1) \cap (q .. q + live[q] - 1) = {}
  BY <1>4, <1>5 DEF Disjoint
<1>7. Abstract!Live = Live
  BY DEF Abstract!Live, Live
<1>8. Abstract!Fits(p, live'[p], Live)
  BY <1>4, <1>6 DEF Abstract!Fits, Abstract!Extent
<1>9. Abstract!Alloc
  BY <1>2, <1>4, <1>7, <1>8 DEF Abstract!Alloc
<1> QED
  BY <1>9 DEF Abstract!Next, AbstractStep

(* Steps while nobody holds the lock.                                      *)
LEMMA QuietStep ==
  ASSUME KallocInv, Quiet, UNCHANGED <<lock, pc, size, block>>
  PROVE  /\ Detached = {} /\ Merging = 0 /\ Detached' = {} /\ Merging' = 0
         /\ Pending' = Pending /\ Exclusive' /\ Prepared' /\ MergeReady'
<1>1. \A c \in Cpus : pc[c] \notin {"locate", "prepare", "mark", "merge", "unlock"}
  BY KallocAssumption DEF KallocInv, UseInv, Exclusive, Holding, Quiet
<1>2. Detached = {} /\ Merging = 0 /\ Detached' = {} /\ Merging' = 0
  BY DEF Quiet, Detached, Merging
<1>3. Pending' = Pending /\ Exclusive'
  BY <1>1 DEF Pending, Exclusive, Holding
<1>4. Prepared' /\ MergeReady'
  BY <1>1 DEF Prepared, MergeReady
<1> QED
  BY <1>2, <1>3, <1>4

LEMMA AddPoolStep ==
  ASSUME KallocInv, vm_kalloc_init PROVE KallocInv' /\ AbstractStep
<1>1. Quiet /\ pool = {} /\ UNCHANGED <<lock, pc, size, block, live>>
  BY DEF vm_kalloc_init
<1>2. PICK bytes \in PoolSizes, junk \in JunkFlags :
        LET added == tlsf_add_pool(heap, Mem, bytes, junk)
        IN  /\ heap' = added[1]
            /\ pool' = IF added[2] = 0 THEN {} ELSE Mem .. Mem + bytes - 1
  BY DEF vm_kalloc_init
<1>3. PICK added : added = tlsf_add_pool(heap, Mem, bytes, junk)
  OBVIOUS
<1>4. heap' = added[1] /\ pool' = IF added[2] = 0 THEN {} ELSE Mem .. Mem + bytes - 1
  BY <1>2, <1>3
<1>5. Bare(heap) /\ KallocType /\ UsedExact /\ PendingApart
  BY <1>1 DEF KallocInv, HeapInv, UseInv
<1>6. PoolAdded(added, heap, bytes)
  BY <1>3, <1>5, AddPoolGood
<1>7. /\ Detached' = {} /\ Merging' = 0 /\ Pending' = Pending /\ Exclusive' /\ Prepared' /\ MergeReady'
  BY <1>1, QuietStep
<1>8. KallocType'
  BY <1>1, <1>5 DEF KallocType
<1>9. Live = {} /\ Live' = {} /\ Used(heap) = {} /\ Pending = {}
  BY <1>1, <1>5, BareFacts DEF UsedExact, Live
<1>10. Used(heap') = {} /\ HeapInv' /\ pool' \subseteq 0 .. Top
  <2>1. CASE added = <<heap, 0>>
    <3>1. heap' = heap /\ pool' = {}
      BY <1>4, <2>1
    <3> QED
      BY <1>5, <1>9, <3>1 DEF HeapInv
  <2>2. CASE added # <<heap, 0>>
    <3>1. PICK g : /\ added = <<g, Mem>> /\ Mem # 0 /\ bytes \in Nat /\ bytes > 0
                   /\ Good(g, EndOf(bytes), g.free, 0) /\ Used(g) = {}
      BY <1>6, <2>2 DEF PoolAdded
    <3>2. heap' = g /\ pool' = Mem .. Mem + bytes - 1
      BY <1>4, <3>1
    <3>3. Mem \in Nat /\ Mem + bytes <= Top /\ Top \in Nat
      BY KallocAssumption, TlsfAssumption
    <3>4. Mem \in pool'
      BY <3>1, <3>2, <3>3
    <3>5. pool' \subseteq 0 .. Top
      BY <3>1, <3>2, <3>3
    <3>6. g.free \ {} = g.free
      OBVIOUS
    <3>7. Good(heap', EndOf(bytes), heap'.free \ Detached', Merging')
      BY <1>7, <3>1, <3>2, <3>6
    <3>8. HeapInv'
      BY <3>1, <3>2, <3>4, <3>7 DEF HeapInv
    <3> QED
      BY <3>1, <3>2, <3>5, <3>8
  <2> QED
    BY <2>1, <2>2
<1>11. UsedExact' /\ PendingApart' /\ LiveFits'
  BY <1>7, <1>9, <1>10 DEF UsedExact, PendingApart, LiveFits
<1>12. AbstractStep
  BY <1>1, <1>10 DEF AbstractStep, Abstract!Next, Abstract!AddPool
<1> QED
  BY <1>7, <1>8, <1>10, <1>11, <1>12 DEF KallocInv, UseInv

LEMMA RemovePoolStep ==
  ASSUME KallocInv, RemovePool PROVE KallocInv' /\ AbstractStep
<1>1. Quiet /\ pool # {} /\ Live = {} /\ UNCHANGED <<lock, pc, size, block, live>> /\ pool' = {}
      /\ heap' = tlsf_remove_pool(heap, Mem) /\ \A c \in Cpus : pc[c] \in {"idle", "alloc"}
  BY DEF RemovePool
<1>2. HeapInv /\ KallocType /\ UsedExact
  BY DEF KallocInv, UseInv
<1>3. /\ Detached = {} /\ Merging = 0 /\ Pending' = Pending /\ Exclusive' /\ Prepared' /\ MergeReady'
  BY <1>1, QuietStep
<1>4. Pending = {} /\ Used(heap) = {}
  BY <1>1, <1>2 DEF Pending, UsedExact
<1>5. PICK bytes \in PoolSizes : Good(heap, EndOf(bytes), heap.free \ {}, 0)
  BY <1>1, <1>2, <1>3 DEF HeapInv
<1>6. heap.free \ {} = heap.free
  OBVIOUS
<1>7. Bare(heap')
  BY <1>1, <1>4, <1>5, <1>6, RemovePoolGood
<1>8. Used(heap') = {} /\ Live' = {}
  BY <1>1, <1>7, BareFacts DEF Live
<1>9. HeapInv' /\ KallocType'
  BY <1>1, <1>2, <1>7 DEF HeapInv, KallocType
<1>10. UsedExact' /\ PendingApart' /\ LiveFits'
  BY <1>3, <1>4, <1>8 DEF UsedExact, PendingApart, LiveFits
<1>11. AbstractStep
  BY <1>1 DEF AbstractStep, Abstract!Next, Abstract!RemovePool, Abstract!Live, Live
<1> QED
  BY <1>3, <1>9, <1>10, <1>11 DEF KallocInv, UseInv

LEMMA MemalignStep ==
  ASSUME KallocInv, Memalign PROVE KallocInv' /\ AbstractStep
<1>1. Quiet /\ UNCHANGED <<pool, lock, pc, size, block>>
  BY DEF Memalign
<1>2. PICK align \in Aligns, n \in Sizes, junk \in JunkFlags :
        LET got == tlsf_memalign(heap, align, n, junk)
        IN  /\ heap' = got[1]
            /\ live' = IF got[2] = 0 THEN live ELSE [live EXCEPT ![got[2]] = n]
  BY DEF Memalign
<1>3. PICK got : got = tlsf_memalign(heap, align, n, junk)
  OBVIOUS
<1>4. heap' = got[1] /\ live' = IF got[2] = 0 THEN live ELSE [live EXCEPT ![got[2]] = n]
  BY <1>2, <1>3
<1>5. HeapInv /\ KallocType /\ UsedExact /\ PendingApart /\ LiveFits
  BY DEF KallocInv, UseInv
<1>6. /\ Detached = {} /\ Merging = 0 /\ Detached' = {} /\ Merging' = 0
      /\ Pending' = Pending /\ Exclusive' /\ Prepared' /\ MergeReady'
  BY <1>1, QuietStep
<1>7. n \in Nat
  BY KallocAssumption
<1>8. CASE got = <<heap, 0>>
  <2>1. heap' = heap /\ live' = live
    BY <1>4, <1>8
  <2>2. HeapInv' /\ KallocType'
    BY <1>1, <1>5, <1>6, <2>1 DEF HeapInv, KallocType
  <2>3. UsedExact' /\ PendingApart' /\ LiveFits'
    BY <1>1, <1>5, <1>6, <2>1 DEF UsedExact, PendingApart, LiveFits, Live
  <2> QED
    BY <1>1, <1>6, <2>1, <2>2, <2>3 DEF KallocInv, UseInv, AbstractStep
<1>9. CASE got # <<heap, 0>>
  <2>1. ~Bare(heap) /\ adjust_request_size(n, ALIGN_SIZE) # 0
    BY <1>3, <1>7, <1>9, MemalignNull
  <2>2. PICK a : a = adjust_request_size(n, ALIGN_SIZE)
    OBVIOUS
  <2>3. a \in Nat /\ a >= n /\ n # 0
    <3>1. n # 0
      BY <2>1 DEF adjust_request_size
    <3> QED
      BY <1>7, <2>1, <2>2, <3>1, AdjustFacts
  <2>4. PICK bytes \in PoolSizes :
          bytes > 0 /\ pool = Mem .. Mem + bytes - 1 /\ Good(heap, EndOf(bytes), heap.free \ {}, 0)
    BY <1>5, <1>6, <2>1 DEF HeapInv
  <2>5. PICK end : end = EndOf(bytes)
    OBVIOUS
  <2>6. Good(heap, end, heap.free, 0)
    <3>1. heap.free \ {} = heap.free
      OBVIOUS
    <3> QED
      BY <2>4, <2>5, <3>1
  <2>7. Allocated(got, heap, end, a)
    BY <1>3, <1>7, <2>2, <2>6, MemalignGood
  <2>8. PICK g, b : got = <<g, b>> /\ b # 0 /\ Given(g, heap, end, b, a)
    BY <1>9, <2>7 DEF Allocated
  <2>9. heap' = g /\ live' = [live EXCEPT ![b] = n]
    BY <1>4, <2>8
  <2>10. /\ Good(g, end, g.free, 0) /\ Used(g) = Used(heap) \cup {b} /\ b \notin Used(heap)
         /\ g.size[b] >= a /\ \A q \in Used(heap) : g.size[q] = heap.size[q]
    BY <2>8 DEF Given, Kept
  <2>11. b \in Addr /\ g.size[b] \in Nat
    <3>1. b \in Starts(g) /\ HeapType(g)
      BY <2>10 DEF Used, Good
    <3> QED
      BY <3>1, MultFacts DEF Starts, HeapType
  <2>12. live \in [Addr -> Nat] /\ b \notin Live /\ \A c \in Pending : block[c] \in Used(heap)
    BY <1>5, <2>10 DEF KallocType, UsedExact
  <2>13. KallocType'
    BY <1>1, <1>5, <1>7, <2>9, <2>12 DEF KallocType
  <2>14. Live' = Live \cup {b} /\ live'[b] = n /\ \A q \in Live : live'[q] = live[q]
    BY <2>3, <2>9, <2>11, <2>12 DEF Live
  <2>15. HeapInv'
    <3>1. Good(heap', EndOf(bytes), heap'.free \ Detached', Merging')
      <4>1. heap'.free \ Detached' = heap'.free
        BY <1>6
      <4> QED
        BY <1>6, <2>5, <2>9, <2>10, <4>1
    <3> QED
      BY <1>1, <2>4, <2>1, <1>5, <3>1 DEF HeapInv
  <2>16. UsedExact'
    BY <1>1, <1>5, <1>6, <2>9, <2>10, <2>14 DEF UsedExact
  <2>17. PendingApart'
    BY <1>1, <1>5, <1>6, <2>10, <2>12, <2>14 DEF PendingApart
  <2>18. LiveFits'
    <3>1. ASSUME NEW p \in Live' PROVE live'[p] <= heap'.size[p]
      <4>1. CASE p = b
        BY <1>7, <2>3, <2>9, <2>10, <2>11, <2>14, <4>1
      <4>2. CASE p # b
        <5>1. p \in Live /\ p \in Used(heap)
          BY <1>5, <2>14, <4>2 DEF UsedExact
        <5> QED
          BY <1>5, <2>9, <2>10, <2>14, <5>1 DEF LiveFits
      <4> QED
        BY <4>1, <4>2
    <3> QED
      BY <3>1 DEF LiveFits
  <2>19. KallocInv'
    BY <1>6, <2>13, <2>15, <2>16, <2>17, <2>18 DEF KallocInv, UseInv
  <2>20. AbstractStep
    BY <1>1, <1>7, <2>3, <2>9, <2>11, <2>12, <2>19, AbstractAlloc
  <2> QED
    BY <2>19, <2>20
<1> QED
  BY <1>8, <1>9

LEMMA ReallocStep ==
  ASSUME KallocInv, Realloc PROVE KallocInv' /\ AbstractStep
<1>1. Quiet /\ UNCHANGED <<pool, lock, pc, size, block>>
  BY DEF Realloc
<1>2. PICK p \in Live, n \in Resizes, junk \in JunkFlags :
        LET got == tlsf_realloc(heap, p, n, junk)
        IN  /\ heap' = got[1]
            /\ live' = IF got[2] = 0 THEN live ELSE [live EXCEPT ![p] = 0, ![got[2]] = n]
  BY DEF Realloc
<1>3. PICK got : got = tlsf_realloc(heap, p, n, junk)
  OBVIOUS
<1>4. heap' = got[1] /\ live' = IF got[2] = 0 THEN live ELSE [live EXCEPT ![p] = 0, ![got[2]] = n]
  BY <1>2, <1>3
<1>5. HeapInv /\ KallocType /\ UsedExact /\ PendingApart /\ LiveFits
  BY DEF KallocInv, UseInv
<1>6. /\ Detached = {} /\ Merging = 0 /\ Detached' = {} /\ Merging' = 0
      /\ Pending' = Pending /\ Exclusive' /\ Prepared' /\ MergeReady'
  BY <1>1, QuietStep
<1>7. n \in Nat /\ n # 0 /\ align_up(n, ALIGN_SIZE) < block_size_max
  BY KallocAssumption
<1>8. CASE got = <<heap, 0>>
  <2>1. heap' = heap /\ live' = live
    BY <1>4, <1>8
  <2>2. HeapInv' /\ KallocType'
    BY <1>1, <1>5, <1>6, <2>1 DEF HeapInv, KallocType
  <2>3. UsedExact' /\ PendingApart' /\ LiveFits'
    BY <1>1, <1>5, <1>6, <2>1 DEF UsedExact, PendingApart, LiveFits, Live
  <2> QED
    BY <1>1, <1>6, <2>1, <2>2, <2>3 DEF KallocInv, UseInv, AbstractStep
<1>9. CASE got # <<heap, 0>>
  <2>1. p \in Used(heap) /\ ~Bare(heap) /\ p \in Addr
    BY <1>5, BareFacts DEF UsedExact, Live
  <2>2. PICK a : a = adjust_request_size(n, ALIGN_SIZE)
    OBVIOUS
  <2>3. a \in Nat /\ a >= n /\ a # 0
    BY <1>7, <2>2, AdjustFacts
  <2>4. PICK bytes \in PoolSizes :
          bytes > 0 /\ pool = Mem .. Mem + bytes - 1 /\ Good(heap, EndOf(bytes), heap.free \ {}, 0)
    BY <1>5, <1>6, <2>1 DEF HeapInv
  <2>5. PICK end : end = EndOf(bytes)
    OBVIOUS
  <2>6. Good(heap, end, heap.free, 0)
    <3>1. heap.free \ {} = heap.free
      OBVIOUS
    <3> QED
      BY <2>4, <2>5, <3>1
  <2>7. Resized(got, heap, end, p, a)
    BY <1>3, <1>7, <2>1, <2>2, <2>3, <2>6, ReallocGood
  <2>8. PICK g, q :
          /\ got = <<g, q>> /\ q # 0 /\ Good(g, end, g.free, 0) /\ g.size[q] >= a
          /\ Used(g) = (Used(heap) \ {p}) \cup {q} /\ q \notin Used(heap) \ {p}
          /\ Kept(g, heap, Used(heap) \ {p})
          /\ q # p => /\ p < q => p + heap.size[p] <= q
                      /\ q < p => q + g.size[q] <= p
    BY <1>9, <2>7 DEF Resized
  <2>9. heap' = g /\ live' = [live EXCEPT ![p] = 0, ![q] = n]
    BY <1>4, <2>8
  <2>10. \A r \in Used(heap) \ {p} : g.size[r] = heap.size[r]
    BY <2>8 DEF Kept
  <2>11. q \in Addr /\ g.size[q] \in Nat
    <3>1. q \in Starts(g) /\ HeapType(g)
      BY <2>8 DEF Used, Good
    <3> QED
      BY <3>1, MultFacts DEF Starts, HeapType
  <2>12. /\ live \in [Addr -> Nat] /\ Live \subseteq Used(heap)
         /\ \A c \in Pending : block[c] \in Used(heap) \ {p}
    BY <1>5 DEF KallocType, UsedExact, PendingApart
  <2>13. live' \in [Addr -> Nat] /\ live'[q] = n /\ (q # p => live'[p] = 0)
         /\ \A r \in Addr \ {p, q} : live'[r] = live[r]
    BY <1>7, <2>1, <2>9, <2>11, <2>12
  <2>14. KallocType'
    BY <1>1, <1>5, <2>13 DEF KallocType
  <2>15. Live' = (Live \ {p}) \cup {q} /\ live'[q] = n /\ \A r \in Live \ {p, q} : live'[r] = live[r]
    BY <1>7, <2>1, <2>11, <2>13 DEF Live
  <2>16. HeapInv'
    <3>1. Good(heap', EndOf(bytes), heap'.free \ Detached', Merging')
      <4>1. heap'.free \ Detached' = heap'.free
        BY <1>6
      <4> QED
        BY <1>6, <2>5, <2>8, <2>9, <4>1
    <3> QED
      BY <1>1, <2>4, <2>1, <1>5, <3>1 DEF HeapInv
  <2>17. UsedExact'
    <3>1. Used(heap') = (Live \ {p}) \cup {q} \cup {block[c] : c \in Pending}
      BY <1>5, <2>8, <2>9, <2>12 DEF UsedExact
    <3> QED
      BY <1>1, <1>6, <2>15, <3>1 DEF UsedExact
  <2>18. PendingApart'
    <3>1. \A c \in Pending : block[c] \notin (Live \ {p}) \cup {q}
      BY <1>5, <2>8, <2>12 DEF PendingApart
    <3> QED
      BY <1>1, <1>5, <1>6, <2>15, <3>1 DEF PendingApart
  <2>19. LiveFits'
    <3>1. ASSUME NEW r \in Live' PROVE live'[r] <= heap'.size[r]
      <4>1. CASE r = q
        BY <1>7, <2>3, <2>8, <2>9, <2>11, <2>15, <4>1
      <4>2. CASE r # q
        <5>1. r \in Live /\ r \in Used(heap) /\ r # p
          BY <2>12, <2>15, <4>2
        <5> QED
          BY <1>5, <2>9, <2>10, <2>15, <4>2, <5>1 DEF LiveFits
      <4> QED
        BY <4>1, <4>2
    <3> QED
      BY <3>1 DEF LiveFits
  <2>20. KallocInv'
    BY <1>6, <2>14, <2>16, <2>17, <2>18, <2>19 DEF KallocInv, UseInv
  <2>21. LiveOwned' /\ LiveOwned
    BY <2>20, LiveApart, PTL
  <2>22. /\ q \in Nat /\ live'[q] \in 1 .. Top /\ q .. q + live'[q] - 1 \subseteq pool
         /\ \A r \in Live' \ {q} : r \in Nat /\ live'[r] \in Nat /\ Disjoint(q, live'[q], r, live'[r])
    BY <1>1, <2>15, <2>21 DEF LiveOwned
  <2>23. p \in Nat /\ live[p] \in Nat
    BY <2>21 DEF LiveOwned
  <2>24. ASSUME NEW r \in (IF q = p THEN Live \ {p} ELSE Live)
         PROVE  r \in Nat /\ live[r] \in Nat /\ Disjoint(q, live'[q], r, live[r])
    <3>1. r # q
      <4>1. r \in Live /\ (q = p => r # p)
        BY <2>24
      <4> QED
        BY <2>8, <2>12, <4>1
    <3>2. CASE r # p
      <4>1. r \in Live' \ {q} /\ live'[r] = live[r]
        BY <2>15, <2>24, <3>1, <3>2
      <4> QED
        BY <2>22, <4>1
    <3>3. CASE r = p
      <4>1. q # p /\ live[p] <= heap.size[p]
        BY <1>5, <3>1, <3>3 DEF LiveFits
      <4>2. heap.size[p] \in Nat /\ live'[q] = n /\ n <= g.size[q]
        <5>1. HeapType(heap)
          BY <2>6 DEF Good
        <5>2. heap.size[p] \in Nat
          BY <2>1, <5>1, MultFacts DEF HeapType
        <5> QED
          BY <1>7, <2>3, <2>8, <2>11, <2>15, <5>2
      <4>3. (p < q => p + heap.size[p] <= q) /\ (q < p => q + g.size[q] <= p)
        BY <2>8, <4>1
      <4> QED
        BY <1>7, <2>11, <2>22, <2>23, <3>3, <4>1, <4>2, <4>3 DEF Disjoint
    <3> QED
      BY <3>2, <3>3
  <2>25. \A r \in (IF q = p THEN Live \ {p} ELSE Live) : (q .. q + live'[q] - 1) \cap (r .. r + live[r] - 1) = {}
    BY <2>22, <2>24 DEF Disjoint
  <2>26. Abstract!Fits(q, live'[q], IF q = p THEN Live \ {p} ELSE Live)
    BY <2>22, <2>25 DEF Abstract!Fits, Abstract!Extent
  <2>27. Abstract!Live = Live /\ live' = [live EXCEPT ![p] = 0, ![q] = live'[q]]
    BY <2>9, <2>15 DEF Abstract!Live, Live
  <2>28. Abstract!Resize
    BY <1>1, <2>11, <2>22, <2>26, <2>27 DEF Abstract!Resize
  <2> QED
    BY <2>20, <2>28 DEF AbstractStep, Abstract!Next
<1> QED
  BY <1>8, <1>9

(* Steps of a caller that does not hold the lock.                          *)
LEMMA CallStep ==
  ASSUME KallocInv, NEW c \in Cpus, kalloc(c) PROVE KallocInv' /\ AbstractStep
<1>1. pc[c] = "idle" /\ pc' = [pc EXCEPT ![c] = "alloc"] /\ UNCHANGED <<heap, pool, lock, block, live>>
  BY DEF kalloc, Goto
<1>2. PICK n \in Sizes : size' = [size EXCEPT ![c] = n]
  BY DEF kalloc
<1>3. n \in Nat
  BY KallocAssumption
<1>4. KallocType /\ HeapInv /\ UseInv
  BY DEF KallocInv
<1>5. KallocType'
  BY <1>1, <1>2, <1>3, <1>4 DEF KallocType, Locations
<1>6. pc \in [Cpus -> Locations] /\ size \in [Cpus -> Nat]
  BY <1>4 DEF KallocType
<1>7. \A d \in Cpus : /\ d # c => pc'[d] = pc[d] /\ size'[d] = size[d]
                      /\ pc'[c] = "alloc"
  BY <1>1, <1>2, <1>6
<1>8. Holding' = Holding /\ Pending' = Pending /\ Live' = Live
  BY <1>1, <1>7 DEF Holding, Pending, Live
<1>9. Detached' = Detached /\ Merging' = Merging
  <2>1. CASE lock = c
    BY <1>1, <1>7, <2>1 DEF Detached, Merging
  <2>2. CASE lock \in Cpus /\ lock # c
    BY <1>1, <1>7, <2>2 DEF Detached, Merging
  <2>3. CASE lock = None
    BY <1>1, <2>3 DEF Detached, Merging
  <2> QED
    BY <1>4, <2>1, <2>2, <2>3 DEF KallocType
<1>10. HeapInv'
  BY <1>1, <1>4, <1>9 DEF HeapInv
<1>11. Exclusive' /\ UsedExact' /\ PendingApart' /\ LiveFits'
  BY <1>1, <1>4, <1>8 DEF UseInv, Exclusive, UsedExact, PendingApart, LiveFits
<1>12. Prepared' /\ MergeReady'
  BY <1>1, <1>4, <1>7 DEF UseInv, Prepared, MergeReady, Adjusted
<1> QED
  BY <1>1, <1>5, <1>10, <1>11, <1>12 DEF KallocInv, UseInv, AbstractStep

LEMMA GiveStep ==
  ASSUME KallocInv, NEW c \in Cpus, kfree(c) PROVE KallocInv' /\ AbstractStep
<1>1. pc[c] = "idle" /\ pc' = [pc EXCEPT ![c] = "free"] /\ UNCHANGED <<heap, pool, lock, size>>
  BY DEF kfree, Goto
<1>2. PICK p \in Live : block' = [block EXCEPT ![c] = p] /\ live' = [live EXCEPT ![p] = 0]
  BY DEF kfree
<1>3. p \in Addr
  BY DEF Live
<1>4. KallocType /\ HeapInv /\ UseInv
  BY DEF KallocInv
<1>5. KallocType'
  BY <1>1, <1>2, <1>3, <1>4 DEF KallocType, Locations
<1>6. pc \in [Cpus -> Locations] /\ block \in [Cpus -> Addr] /\ live \in [Addr -> Nat]
  BY <1>4 DEF KallocType
<1>7. /\ \A d \in Cpus : d # c => pc'[d] = pc[d] /\ block'[d] = block[d]
      /\ pc'[c] = "free" /\ block'[c] = p
      /\ \A q \in Addr : live'[q] = IF q = p THEN 0 ELSE live[q]
  BY <1>1, <1>2, <1>6
<1>8. Holding' = Holding /\ Pending' = Pending \cup {c} /\ Live' = Live \ {p} /\ c \notin Pending
  BY <1>1, <1>7 DEF Holding, Pending, Live
<1>9. Detached' = Detached /\ Merging' = Merging
  <2>1. CASE lock = c
    BY <1>1, <1>7, <2>1 DEF Detached, Merging
  <2>2. CASE lock \in Cpus /\ lock # c
    BY <1>1, <1>7, <2>2 DEF Detached, Merging
  <2>3. CASE lock = None
    BY <1>1, <2>3 DEF Detached, Merging
  <2> QED
    BY <1>4, <2>1, <2>2, <2>3 DEF KallocType
<1>10. HeapInv'
  BY <1>1, <1>4, <1>9 DEF HeapInv
<1>11. Exclusive'
  BY <1>1, <1>4, <1>8 DEF UseInv, Exclusive
<1>12. \A d \in Pending : d \in Cpus /\ d # c /\ block'[d] = block[d]
  BY <1>1, <1>7 DEF Pending
<1>13. UsedExact'
  <2>1. {block'[d] : d \in Pending \cup {c}} = {block[d] : d \in Pending} \cup {p}
    BY <1>7, <1>12
  <2> QED
    BY <1>1, <1>4, <1>8, <2>1 DEF UseInv, UsedExact
<1>14. PendingApart'
  <2>1. \A d \in Pending : block[d] # p
    BY <1>4 DEF UseInv, PendingApart
  <2> QED
    BY <1>4, <1>7, <1>8, <1>12, <2>1 DEF UseInv, PendingApart
<1>15. LiveFits'
  BY <1>1, <1>4, <1>7, <1>8 DEF UseInv, LiveFits, Live
<1>16. Prepared' /\ MergeReady'
  BY <1>1, <1>4, <1>7 DEF UseInv, Prepared, MergeReady, Adjusted
<1>17. Abstract!Free
  BY <1>1, <1>2 DEF Abstract!Free, Abstract!Live, Live
<1> QED
  BY <1>5, <1>10, <1>11, <1>13, <1>14, <1>15, <1>16, <1>17 DEF KallocInv, UseInv, AbstractStep, Abstract!Next

(* Steps that take, use and release the lock.                              *)
InLock == {"locate", "prepare", "mark", "merge", "unlock"}

LEMMA HolderFacts ==
  ASSUME KallocInv, NEW c \in Cpus, pc[c] \in InLock
  PROVE  lock = c /\ c # None /\ \A d \in Cpus : d # c => pc[d] \notin InLock
<1>1. \A d \in Cpus : pc[d] \in InLock => lock = d
  BY DEF KallocInv, UseInv, Exclusive, Holding, InLock
<1> QED
  BY <1>1, KallocAssumption

LEMMA LockStep ==
  ASSUME KallocInv, NEW c \in Cpus, Lock(c) PROVE KallocInv' /\ AbstractStep
<1>1. lock = None /\ lock' = c /\ UNCHANGED <<heap, pool, size, block, live>>
  BY DEF Lock
<1>2. PICK to \in {"locate", "mark"} :
        pc[c] = (IF to = "locate" THEN "alloc" ELSE "free") /\ pc' = [pc EXCEPT ![c] = to]
  BY DEF Lock, Goto
<1>3. KallocType /\ HeapInv /\ UseInv /\ c # None
  BY KallocAssumption DEF KallocInv
<1>4. pc \in [Cpus -> Locations]
  BY <1>3 DEF KallocType
<1>5. KallocType'
  BY <1>1, <1>2, <1>3 DEF KallocType, Locations
<1>6. pc'[c] = to /\ \A d \in Cpus : d # c => pc'[d] = pc[d]
  BY <1>2, <1>4
<1>7. \A d \in Cpus : pc[d] \notin InLock
  <2>1. \A d \in Cpus : pc[d] \in InLock => lock = d
    BY <1>3 DEF UseInv, Exclusive, Holding, InLock
  <2> QED
    BY <1>1, <2>1, KallocAssumption
<1>8. Detached = {} /\ Merging = 0 /\ Detached' = {} /\ Merging' = 0
  BY <1>1, <1>6 DEF Detached, Merging
<1>9. Pending' = Pending /\ Live' = Live
  <2>1. \A d \in Cpus : pc'[d] \in {"free", "mark"} <=> pc[d] \in {"free", "mark"}
    BY <1>2, <1>6
  <2> QED
    BY <1>1, <2>1 DEF Pending, Live
<1>10. HeapInv'
  BY <1>1, <1>3, <1>8 DEF HeapInv
<1>11. Exclusive'
  BY <1>1, <1>6, <1>7 DEF Exclusive, Holding, InLock
<1>12. UsedExact' /\ PendingApart' /\ LiveFits'
  BY <1>1, <1>3, <1>9 DEF UseInv, UsedExact, PendingApart, LiveFits
<1>13. Prepared' /\ MergeReady'
  BY <1>6, <1>7 DEF Prepared, MergeReady, InLock
<1> QED
  BY <1>1, <1>5, <1>10, <1>11, <1>12, <1>13 DEF KallocInv, UseInv, AbstractStep

LEMMA UnlockStep ==
  ASSUME KallocInv, NEW c \in Cpus, Unlock(c) PROVE KallocInv' /\ AbstractStep
<1>1. /\ pc[c] = "unlock" /\ pc' = [pc EXCEPT ![c] = "idle"] /\ lock' = None
      /\ size' = [size EXCEPT ![c] = 0] /\ block' = [block EXCEPT ![c] = 0] /\ UNCHANGED <<heap, pool, live>>
  BY DEF Unlock, Goto
<1>2. lock = c /\ c # None /\ \A d \in Cpus : d # c => pc[d] \notin InLock
  <2>1. pc[c] \in InLock
    BY <1>1 DEF InLock
  <2> QED
    BY <2>1, HolderFacts
<1>3. KallocType /\ HeapInv /\ UseInv
  BY DEF KallocInv
<1>4. pc \in [Cpus -> Locations] /\ block \in [Cpus -> Addr] /\ 0 \in Addr
  BY <1>3, AddrFacts DEF KallocType
<1>5. KallocType'
  BY <1>1, <1>3, <1>4 DEF KallocType, Locations
<1>6. pc'[c] = "idle" /\ \A d \in Cpus : d # c => pc'[d] = pc[d] /\ block'[d] = block[d]
  BY <1>1, <1>4
<1>7. \A d \in Cpus : pc'[d] \notin InLock
  BY <1>2, <1>6 DEF InLock
<1>8. Detached = {} /\ Merging = 0 /\ Detached' = {} /\ Merging' = 0
  BY <1>1, <1>2 DEF Detached, Merging
<1>9. Pending' = Pending /\ Live' = Live /\ \A d \in Pending : block'[d] = block[d]
  BY <1>1, <1>6 DEF Pending, Live
<1>10. HeapInv'
  BY <1>1, <1>3, <1>8 DEF HeapInv
<1>11. Exclusive'
  BY <1>7 DEF Exclusive, Holding, InLock
<1>12. UsedExact'
  <2>1. {block'[d] : d \in Pending} = {block[d] : d \in Pending}
    BY <1>9
  <2> QED
    BY <1>1, <1>3, <1>9, <2>1 DEF UseInv, UsedExact
<1>13. PendingApart' /\ LiveFits'
  BY <1>1, <1>3, <1>9 DEF UseInv, PendingApart, LiveFits
<1>14. Prepared' /\ MergeReady'
  BY <1>7 DEF Prepared, MergeReady, InLock
<1> QED
  BY <1>1, <1>5, <1>10, <1>11, <1>12, <1>13, <1>14 DEF KallocInv, UseInv, AbstractStep

LEMMA LocateStep ==
  ASSUME KallocInv, NEW c \in Cpus, Locate(c) PROVE KallocInv' /\ AbstractStep
<1>1. pc[c] = "locate" /\ pc' = [pc EXCEPT ![c] = "prepare"] /\ UNCHANGED <<pool, lock, size, live>>
  BY DEF Locate, Goto
<1>2. PICK n : n = Adjusted(c)
  OBVIOUS
<1>3. PICK located : located = block_locate_free(heap, n)
  OBVIOUS
<1>4. heap' = located[1] /\ block' = [block EXCEPT ![c] = located[2]]
  BY <1>2, <1>3 DEF Locate, Adjusted
<1>5. lock = c /\ c # None /\ \A d \in Cpus : d # c => pc[d] \notin InLock
  <2>1. pc[c] \in InLock
    BY <1>1 DEF InLock
  <2> QED
    BY <2>1, HolderFacts
<1>6. KallocType /\ HeapInv /\ UseInv
  BY DEF KallocInv
<1>7. pc \in [Cpus -> Locations] /\ block \in [Cpus -> Addr] /\ 0 \in Addr /\ size[c] \in Nat
  BY <1>6, AddrFacts DEF KallocType
<1>8. n \in Mult /\ n < block_size_max
  BY <1>2, <1>7, AdjustFacts DEF Adjusted
<1>9. Detached = {} /\ Merging = 0
  BY <1>1, <1>5 DEF Detached, Merging
<1>10. PICK b : b = located[2]
  OBVIOUS
<1>11. /\ pc'[c] = "prepare" /\ block'[c] = b
       /\ \A d \in Cpus : d # c => pc'[d] = pc[d] /\ block'[d] = block[d]
  BY <1>1, <1>4, <1>7, <1>10
<1>12. Detached' = {b} \ {0} /\ Merging' = 0
  BY <1>1, <1>5, <1>11 DEF Detached, Merging
<1>13. Exclusive'
  BY <1>1, <1>5, <1>11 DEF Exclusive, Holding, InLock
<1>14. Pending' = Pending /\ Live' = Live /\ \A d \in Pending : block'[d] = block[d]
  BY <1>1, <1>11 DEF Pending, Live
<1>15. /\ Used(heap') = Used(heap) /\ heap'.size = heap.size /\ HeapInv' /\ b \in Addr
       /\ b # 0 => b \in heap'.free /\ n # 0 /\ n <= heap'.size[b]
  <2>1. CASE located = <<heap, 0>>
    <3>1. heap' = heap /\ b = 0 /\ Detached' = {}
      BY <1>4, <1>10, <1>12, <2>1
    <3> QED
      BY <1>1, <1>6, <1>7, <1>9, <1>12, <3>1 DEF HeapInv
  <2>2. CASE located # <<heap, 0>>
    <3>1. ~Bare(heap)
      BY <1>3, <1>8, <2>2, LocateBare
    <3>2. PICK bytes \in PoolSizes :
            bytes > 0 /\ pool = Mem .. Mem + bytes - 1 /\ Good(heap, EndOf(bytes), heap.free \ {}, 0)
      BY <1>6, <1>9, <3>1 DEF HeapInv
    <3>3. PICK end : end = EndOf(bytes)
      OBVIOUS
    <3>4. Good(heap, end, heap.free, 0)
      <4>1. heap.free \ {} = heap.free
        OBVIOUS
      <4> QED
        BY <3>2, <3>3, <4>1
    <3>5. Located(heap, end, n, located)
      BY <1>3, <1>8, <3>4, LocateGood
    <3>6. PICK g, x : /\ located = <<g, x>> /\ x # 0 /\ Loose(g, end, x) /\ Apart(g, 0) /\ SamePhys(g, heap)
                      /\ heap.size[x] >= n
      BY <2>2, <3>5 DEF Located
    <3>7. heap' = g /\ x = b
      BY <1>4, <1>10, <3>6
    <3>8. Good(g, end, g.free \ {b}, 0) /\ b \in g.free
      BY <3>6, <3>7 DEF Loose, Good
    <3>9. heap'.free \ Detached' = g.free \ {b}
      BY <1>12, <3>6, <3>7
    <3>10. Good(heap', EndOf(bytes), heap'.free \ Detached', Merging')
      BY <1>12, <3>3, <3>7, <3>8, <3>9
    <3>11. HeapInv'
      BY <1>1, <1>6, <3>1, <3>2, <3>10 DEF HeapInv
    <3>12. Used(heap') = Used(heap) /\ heap'.size = heap.size
      BY <3>6, <3>7, PhysFrame DEF SamePhys
    <3>13. b \in Addr
      BY <3>8 DEF Good, HeapType
    <3>14. n # 0
      BY <1>3, <2>2 DEF block_locate_free
    <3>15. n <= heap'.size[b]
      <4>1. heap.size[b] \in Nat /\ n \in Nat
        BY <1>8, <3>4, <3>13, MultFacts DEF Good, HeapType
      <4> QED
        BY <3>6, <3>7, <3>12, <4>1
    <3> QED
      BY <3>7, <3>8, <3>11, <3>12, <3>13, <3>14, <3>15
  <2> QED
    BY <2>1, <2>2
<1>16. KallocType'
  BY <1>1, <1>4, <1>6, <1>7, <1>10, <1>15 DEF KallocType, Locations
<1>17. UsedExact'
  <2>1. {block'[d] : d \in Pending} = {block[d] : d \in Pending}
    BY <1>14
  <2> QED
    BY <1>6, <1>14, <1>15, <2>1 DEF UseInv, UsedExact
<1>18. PendingApart' /\ LiveFits'
  BY <1>1, <1>6, <1>14, <1>15 DEF UseInv, PendingApart, LiveFits
<1>19. Prepared'
  <2>1. Adjusted(c)' = n
    BY <1>1, <1>2 DEF Adjusted
  <2> QED
    BY <1>5, <1>11, <1>15, <2>1 DEF Prepared, InLock
<1>20. MergeReady'
  BY <1>5, <1>11 DEF MergeReady, InLock
<1> QED
  BY <1>1, <1>13, <1>15, <1>16, <1>17, <1>18, <1>19, <1>20 DEF KallocInv, UseInv, AbstractStep

LEMMA PrepareStep ==
  ASSUME KallocInv, NEW c \in Cpus, Prepare(c) PROVE KallocInv' /\ AbstractStep
<1>1. pc[c] = "prepare" /\ pc' = [pc EXCEPT ![c] = "unlock"] /\ UNCHANGED <<pool, lock, size, block>>
  BY DEF Prepare, Goto
<1>2. PICK a : a = Adjusted(c)
  OBVIOUS
<1>3. PICK b : b = block[c]
  OBVIOUS
<1>4. PICK junk \in JunkFlags :
        heap' = block_prepare_used(heap, b, a, junk)[1] /\ live' = IF b = 0 THEN live ELSE [live EXCEPT ![b] = size[c]]
  BY <1>2, <1>3 DEF Prepare, Adjusted
<1>5. lock = c /\ c # None /\ \A d \in Cpus : d # c => pc[d] \notin InLock
  <2>1. pc[c] \in InLock
    BY <1>1 DEF InLock
  <2> QED
    BY <2>1, HolderFacts
<1>6. KallocType /\ HeapInv /\ UseInv
  BY DEF KallocInv
<1>7. pc \in [Cpus -> Locations] /\ block \in [Cpus -> Addr] /\ size[c] \in Nat /\ live \in [Addr -> Nat]
  BY <1>6 DEF KallocType
<1>8. Detached = {b} \ {0} /\ Merging = 0
  BY <1>1, <1>3, <1>5 DEF Detached, Merging
<1>9. pc'[c] = "unlock" /\ \A d \in Cpus : d # c => pc'[d] = pc[d]
  BY <1>1, <1>7
<1>10. Detached' = {} /\ Merging' = 0
  BY <1>1, <1>5, <1>9 DEF Detached, Merging
<1>11. Exclusive' /\ Prepared' /\ MergeReady'
  BY <1>1, <1>5, <1>9 DEF Exclusive, Holding, InLock, Prepared, MergeReady
<1>12. Pending' = Pending
  BY <1>1, <1>9 DEF Pending
<1>13. CASE b = 0
  <2>1. heap' = heap /\ live' = live
    BY <1>4, <1>13 DEF block_prepare_used
  <2>2. Detached = {}
    BY <1>8, <1>13
  <2>3. KallocType'
    BY <1>1, <1>6, <2>1 DEF KallocType, Locations
  <2>4. HeapInv'
    BY <1>1, <1>6, <1>8, <1>10, <2>1, <2>2 DEF HeapInv
  <2>5. UsedExact' /\ PendingApart' /\ LiveFits'
    BY <1>1, <1>6, <1>12, <2>1 DEF UseInv, UsedExact, PendingApart, LiveFits, Live
  <2> QED
    BY <1>1, <1>11, <2>1, <2>3, <2>4, <2>5 DEF KallocInv, UseInv, AbstractStep
<1>14. CASE b # 0
  <2>1. b \in heap.free /\ a # 0 /\ a <= heap.size[b]
    BY <1>1, <1>2, <1>3, <1>6, <1>14 DEF UseInv, Prepared
  <2>2. a \in Mult /\ a >= 3 * ALIGN_SIZE /\ a \in Nat /\ a >= size[c] /\ size[c] # 0
    <3>1. size[c] # 0
      BY <1>2, <2>1 DEF Adjusted, adjust_request_size
    <3> QED
      BY <1>2, <1>7, <2>1, <3>1, AdjustFacts DEF Adjusted
  <2>3. ~Bare(heap)
    BY <2>1, BareFacts
  <2>4. PICK bytes \in PoolSizes :
          bytes > 0 /\ pool = Mem .. Mem + bytes - 1 /\ Good(heap, EndOf(bytes), heap.free \ Detached, 0)
    BY <1>6, <1>8, <2>3 DEF HeapInv
  <2>5. PICK end : end = EndOf(bytes)
    OBVIOUS
  <2>6. Loose(heap, end, b)
    <3>1. heap.free \ Detached = heap.free \ {b}
      BY <1>8, <1>14
    <3>2. Good(heap, end, heap.free \ {b}, 0)
      BY <2>4, <2>5, <3>1
    <3>3. Apart(heap, b) /\ block_next(heap, b) \notin heap.free
      <4>1. Apart(heap, 0) /\ 0 \notin heap.free
        BY <3>2, NextFacts DEF Good, Flags
      <4> QED
        BY <2>1, <4>1 DEF Apart
    <3> QED
      BY <2>1, <3>2, <3>3 DEF Good, Loose
  <2>7. PICK g : g = block_prepare_used(heap, b, a, junk)
    OBVIOUS
  <2>8. Given(g[1], heap, end, b, a)
    BY <2>1, <2>2, <2>6, <2>7, PrepareGood
  <2>9. PICK k : k = g[1]
    OBVIOUS
  <2>10. heap' = k /\ live' = [live EXCEPT ![b] = size[c]]
    BY <1>4, <1>14, <2>7, <2>9
  <2>11. /\ Good(k, end, k.free, 0) /\ Used(k) = Used(heap) \cup {b} /\ b \notin Used(heap)
         /\ k.size[b] >= a /\ \A q \in Used(heap) : k.size[q] = heap.size[q]
    BY <2>8, <2>9 DEF Given, Kept
  <2>12. b \in Addr /\ k.size[b] \in Nat
    <3>1. b \in Starts(k) /\ HeapType(k)
      BY <2>11 DEF Used, Good
    <3> QED
      BY <3>1, MultFacts DEF Starts, HeapType
  <2>13. b \notin Live /\ Live \subseteq Used(heap) /\ \A d \in Pending : block[d] \in Used(heap)
    BY <1>6, <2>11 DEF UseInv, UsedExact
  <2>14. KallocType'
    BY <1>1, <1>6, <1>7, <2>10 DEF KallocType, Locations
  <2>15. Live' = Live \cup {b} /\ live'[b] = size[c] /\ \A q \in Live : live'[q] = live[q]
    BY <1>7, <2>2, <2>10, <2>12, <2>13 DEF Live
  <2>16. HeapInv'
    <3>1. heap'.free \ Detached' = heap'.free
      BY <1>10
    <3>2. Good(heap', EndOf(bytes), heap'.free \ Detached', Merging')
      BY <1>10, <2>5, <2>10, <2>11, <3>1
    <3> QED
      BY <1>1, <1>6, <2>3, <2>4, <3>2 DEF HeapInv
  <2>17. UsedExact'
    BY <1>1, <1>6, <1>12, <2>10, <2>11, <2>15 DEF UseInv, UsedExact
  <2>18. PendingApart'
    BY <1>1, <1>6, <1>12, <2>11, <2>13, <2>15 DEF UseInv, PendingApart
  <2>19. LiveFits'
    <3>1. ASSUME NEW p \in Live' PROVE live'[p] <= heap'.size[p]
      <4>1. CASE p = b
        BY <1>7, <2>2, <2>10, <2>11, <2>12, <2>15, <4>1
      <4>2. CASE p # b
        <5>1. p \in Live /\ p \in Used(heap)
          BY <2>13, <2>15, <4>2
        <5> QED
          BY <1>6, <2>10, <2>11, <2>15, <5>1 DEF UseInv, LiveFits
      <4> QED
        BY <4>1, <4>2
    <3> QED
      BY <3>1 DEF LiveFits
  <2>20. KallocInv'
    BY <1>11, <2>14, <2>16, <2>17, <2>18, <2>19 DEF KallocInv, UseInv
  <2>21. AbstractStep
    BY <1>1, <1>7, <2>2, <2>10, <2>12, <2>13, <2>20, AbstractAlloc
  <2> QED
    BY <2>20, <2>21
<1> QED
  BY <1>13, <1>14

LEMMA MarkFreeStep ==
  ASSUME KallocInv, NEW c \in Cpus, MarkFree(c) PROVE KallocInv' /\ AbstractStep
<1>1. pc[c] = "mark" /\ pc' = [pc EXCEPT ![c] = "merge"] /\ UNCHANGED <<pool, lock, size, block, live>>
  BY DEF MarkFree, Goto
<1>2. PICK b : b = block[c]
  OBVIOUS
<1>3. heap' = block_mark_as_free(tlsf_assert(heap, b \notin heap.free), b)
  BY <1>2 DEF MarkFree
<1>4. lock = c /\ c # None /\ \A d \in Cpus : d # c => pc[d] \notin InLock
  <2>1. pc[c] \in InLock
    BY <1>1 DEF InLock
  <2> QED
    BY <2>1, HolderFacts
<1>5. KallocType /\ HeapInv /\ UseInv
  BY DEF KallocInv
<1>6. pc \in [Cpus -> Locations]
  BY <1>5 DEF KallocType
<1>7. Detached = {} /\ Merging = 0
  BY <1>1, <1>4 DEF Detached, Merging
<1>8. pc'[c] = "merge" /\ \A d \in Cpus : d # c => pc'[d] = pc[d]
  BY <1>1, <1>6
<1>9. c \in Pending /\ b \in Used(heap)
  <2>1. c \in Pending
    BY <1>1 DEF Pending
  <2> QED
    BY <1>2, <1>5, <2>1 DEF UseInv, UsedExact
<1>10. PICK bytes \in PoolSizes :
         bytes > 0 /\ pool = Mem .. Mem + bytes - 1 /\ Good(heap, EndOf(bytes), heap.free \ {}, 0)
  BY <1>5, <1>7, <1>9, BareFacts DEF HeapInv
<1>11. PICK end : end = EndOf(bytes)
  OBVIOUS
<1>12. Good(heap, end, heap.free, 0)
  <2>1. heap.free \ {} = heap.free
    OBVIOUS
  <2> QED
    BY <1>10, <1>11, <2>1
<1>13. /\ Good(heap', end, heap'.free \ {b}, b) /\ b \in heap'.free
       /\ Used(heap') = Used(heap) \ {b} /\ \A q \in Used(heap) : heap'.size[q] = heap.size[q]
  BY <1>3, <1>9, <1>12, MarkFreeGood DEF Kept
<1>14. b # 0
  BY <1>9, <1>12, NextFacts DEF Good, Used
<1>15. Detached' = {b} /\ Merging' = b
  BY <1>1, <1>2, <1>4, <1>8, <1>14 DEF Detached, Merging
<1>16. HeapInv'
  <2>1. pool # {}
    BY <1>5, <1>9, BareFacts DEF HeapInv
  <2>2. Good(heap', EndOf(bytes), heap'.free \ Detached', Merging')
    BY <1>11, <1>13, <1>15
  <2> QED
    BY <1>1, <1>10, <2>1, <2>2 DEF HeapInv
<1>17. KallocType'
  BY <1>1, <1>5 DEF KallocType, Locations
<1>18. Exclusive' /\ Prepared'
  BY <1>1, <1>4, <1>8 DEF Exclusive, Holding, InLock, Prepared
<1>19. MergeReady'
  BY <1>1, <1>2, <1>4, <1>8, <1>13 DEF MergeReady, InLock
<1>20. Pending' = Pending \ {c} /\ Live' = Live
  BY <1>1, <1>8 DEF Pending, Live
<1>21. b \notin Live /\ \A d \in Pending : block[d] = b => d = c
  BY <1>2, <1>5, <1>9 DEF UseInv, PendingApart
<1>22. UsedExact'
  <2>1. {block[d] : d \in Pending \ {c}} = {block[d] : d \in Pending} \ {b}
    BY <1>2, <1>9, <1>21
  <2>2. Used(heap') = Live \cup {block[d] : d \in Pending \ {c}}
    BY <1>5, <1>13, <1>21, <2>1 DEF UseInv, UsedExact
  <2> QED
    BY <1>1, <1>20, <2>2 DEF UsedExact
<1>23. PendingApart'
  BY <1>1, <1>5, <1>20 DEF UseInv, PendingApart
<1>24. LiveFits'
  <2>1. Live \subseteq Used(heap)
    BY <1>5 DEF UseInv, UsedExact
  <2> QED
    BY <1>1, <1>5, <1>13, <1>20, <2>1 DEF UseInv, LiveFits
<1> QED
  BY <1>1, <1>16, <1>17, <1>18, <1>19, <1>22, <1>23, <1>24 DEF KallocInv, UseInv, AbstractStep

LEMMA MergeStep ==
  ASSUME KallocInv, NEW c \in Cpus, Merge(c) PROVE KallocInv' /\ AbstractStep
<1>1. pc[c] = "merge" /\ pc' = [pc EXCEPT ![c] = "unlock"] /\ UNCHANGED <<pool, lock, size, block, live>>
  BY DEF Merge, Goto
<1>2. PICK b : b = block[c]
  OBVIOUS
<1>3. heap' = Coalesce(heap, b)
  BY <1>2 DEF Merge
<1>4. lock = c /\ c # None /\ \A d \in Cpus : d # c => pc[d] \notin InLock
  <2>1. pc[c] \in InLock
    BY <1>1 DEF InLock
  <2> QED
    BY <2>1, HolderFacts
<1>5. KallocType /\ HeapInv /\ UseInv
  BY DEF KallocInv
<1>6. pc \in [Cpus -> Locations]
  BY <1>5 DEF KallocType
<1>7. b \in heap.free
  BY <1>1, <1>2, <1>5 DEF UseInv, MergeReady
<1>8. Detached = {b} \ {0} /\ Merging = b
  BY <1>1, <1>2, <1>4 DEF Detached, Merging
<1>9. pc'[c] = "unlock" /\ \A d \in Cpus : d # c => pc'[d] = pc[d]
  BY <1>1, <1>6
<1>10. Detached' = {} /\ Merging' = 0
  BY <1>1, <1>4, <1>9 DEF Detached, Merging
<1>11. PICK bytes \in PoolSizes :
         /\ bytes > 0 /\ pool = Mem .. Mem + bytes - 1
         /\ Good(heap, EndOf(bytes), heap.free \ Detached, b)
  BY <1>5, <1>7, <1>8, BareFacts DEF HeapInv
<1>12. PICK end : end = EndOf(bytes)
  OBVIOUS
<1>13. b # 0
  BY <1>7, <1>11, NextFacts DEF Good, Flags
<1>14. Good(heap, end, heap.free \ {b}, b)
  <2>1. heap.free \ Detached = heap.free \ {b}
    BY <1>8, <1>13
  <2> QED
    BY <1>11, <1>12, <2>1
<1>15. Good(heap', end, heap'.free, 0) /\ Used(heap') = Used(heap) /\ \A q \in Used(heap) : heap'.size[q] = heap.size[q]
  BY <1>3, <1>7, <1>14, CoalesceGood DEF Kept
<1>16. HeapInv'
  <2>1. pool # {}
    BY <1>5, <1>7, BareFacts DEF HeapInv
  <2>2. heap'.free \ Detached' = heap'.free
    BY <1>10
  <2>3. Good(heap', EndOf(bytes), heap'.free \ Detached', Merging')
    BY <1>10, <1>12, <1>15, <2>2
  <2> QED
    BY <1>1, <1>11, <2>1, <2>3 DEF HeapInv
<1>17. KallocType'
  BY <1>1, <1>5 DEF KallocType, Locations
<1>18. Exclusive' /\ Prepared' /\ MergeReady'
  BY <1>1, <1>4, <1>9 DEF Exclusive, Holding, InLock, Prepared, MergeReady
<1>19. Pending' = Pending /\ Live' = Live
  BY <1>1, <1>9 DEF Pending, Live
<1>20. UsedExact' /\ PendingApart'
  BY <1>1, <1>5, <1>15, <1>19 DEF UseInv, UsedExact, PendingApart
<1>21. LiveFits'
  <2>1. Live \subseteq Used(heap)
    BY <1>5 DEF UseInv, UsedExact
  <2> QED
    BY <1>1, <1>5, <1>15, <1>19, <2>1 DEF UseInv, LiveFits
<1> QED
  BY <1>1, <1>16, <1>17, <1>18, <1>20, <1>21 DEF KallocInv, UseInv, AbstractStep
-----------------------------------------------------------------------------
LEMMA KallocStep ==
  ASSUME KallocInv, [Next]_vars PROVE KallocInv' /\ AbstractStep
<1>1. CASE Next
  <2>1. CASE vm_kalloc_init
    BY <2>1, AddPoolStep
  <2>2. CASE Memalign
    BY <2>2, MemalignStep
  <2>3. CASE Realloc
    BY <2>3, ReallocStep
  <2>4. CASE RemovePool
    BY <2>4, RemovePoolStep
  <2>5. ASSUME NEW c \in Cpus,
               kalloc(c) \/ kfree(c) \/ Lock(c) \/ Unlock(c) \/ Locate(c) \/ Prepare(c) \/ MarkFree(c) \/ Merge(c)
        PROVE  KallocInv' /\ AbstractStep
    <3>1. CASE kalloc(c)
      BY <3>1, CallStep
    <3>2. CASE kfree(c)
      BY <3>2, GiveStep
    <3>3. CASE Lock(c)
      BY <3>3, LockStep
    <3>4. CASE Unlock(c)
      BY <3>4, UnlockStep
    <3>5. CASE Locate(c)
      BY <3>5, LocateStep
    <3>6. CASE Prepare(c)
      BY <3>6, PrepareStep
    <3>7. CASE MarkFree(c)
      BY <3>7, MarkFreeStep
    <3>8. CASE Merge(c)
      BY <3>8, MergeStep
    <3> QED
      BY <2>5, <3>1, <3>2, <3>3, <3>4, <3>5, <3>6, <3>7, <3>8
  <2> QED
    BY <1>1, <2>1, <2>2, <2>3, <2>4, <2>5 DEF Next
<1>2. CASE UNCHANGED vars
  <2>1. UNCHANGED heap /\ UNCHANGED pool /\ UNCHANGED lock /\ UNCHANGED pc /\ UNCHANGED size
        /\ UNCHANGED block /\ UNCHANGED live
    BY <1>2 DEF vars
  <2>2. KallocType' /\ HeapInv'
    BY <2>1 DEF KallocInv, KallocType, HeapInv, Detached, Merging
  <2>3. UseInv'
    BY <2>1 DEF KallocInv, UseInv, Exclusive, Holding, UsedExact, PendingApart, Pending, LiveFits, Live,
                Prepared, Adjusted, MergeReady
  <2> QED
    BY <2>1, <2>2, <2>3 DEF KallocInv, AbstractStep
<1> QED
  BY <1>1, <1>2

(* KallocInvariant: whatever processors call in whatever order, the heap's *)
(* blocks, flags, lists and bitmaps agree, and no tlsf_assert fails.       *)
THEOREM KallocInvariant == Spec => []KallocInv
<1>1. KallocInv /\ [Next]_vars => KallocInv'
  BY KallocStep
<1> QED
  BY <1>1, KallocInit, PTL DEF Spec

(* HeapRefined: kalloc, kfree, memalign, realloc and the pool's comings    *)
(* and goings do what HeapSpec promises: bytes inside the pool that are    *)
(* nobody else's until they are given back.                                *)
THEOREM HeapRefined == Spec => HeapImplemented
<1>1. Init => Abstract!Init
  BY DEF Init, Abstract!Init
<1>2. KallocInv /\ [Next]_vars => [Abstract!Next]_(Abstract!vars)
  <2> SUFFICES ASSUME KallocInv, [Next]_vars PROVE [Abstract!Next]_(Abstract!vars)
    OBVIOUS
  <2>1. AbstractStep
    BY KallocStep
  <2> QED
    BY <2>1 DEF AbstractStep, Abstract!vars
<1>3. Spec => []KallocInv
  BY KallocInvariant
<1> QED
  BY <1>1, <1>2, <1>3, PTL DEF Spec, HeapImplemented, Abstract!Spec

LEMMA QuietGood ==
  ASSUME KallocInv, Quiet, pool # {}
  PROVE  \E bytes \in PoolSizes :
           /\ bytes > 0 /\ pool = Mem .. Mem + bytes - 1 /\ Good(heap, EndOf(bytes), heap.free, 0)
<1>1. Detached = {} /\ Merging = 0
  BY DEF Quiet, Detached, Merging
<1>2. heap.free \ {} = heap.free
  OBVIOUS
<1> QED
  BY <1>1, <1>2 DEF KallocInv, HeapInv

(* Partitioned: between calls the blocks partition the pool, know their    *)
(* free neighbours, and are in use exactly when a caller has them.         *)
THEOREM Partitioned == Spec => []PoolPartitioned
<1>1. KallocInv => PoolPartitioned
  <2> SUFFICES ASSUME KallocInv, Quiet, pool # {}
               PROVE  /\ First \in Blocks
                      /\ Ends = (Blocks \ {First}) \cup {Max(Ends)}
                      /\ Max(Ends) = First + PoolBytes(Cardinality(pool)) + block_header_overhead
                      /\ \A b \in Blocks :
                           LET next == block_next(heap, b)
                           IN  /\ next \in heap.prev_free <=> b \in heap.free
                               /\ b \in heap.free => next \notin heap.free /\ heap.prev_phys[next] = b
                      /\ Blocks \ heap.free = Live \cup {block[c] : c \in {d \in Cpus : pc[d] = "free"}}
                      /\ \A p \in Live : heap.size[p] >= live[p] /\ p % ALIGN_SIZE = 0
    BY DEF PoolPartitioned
  <2>1. PICK bytes \in PoolSizes :
          bytes > 0 /\ pool = Mem .. Mem + bytes - 1 /\ Good(heap, EndOf(bytes), heap.free, 0)
    BY QuietGood
  <2>2. PICK end : end = EndOf(bytes)
    OBVIOUS
  <2>3. HeapType(heap) /\ Phys(heap, end) /\ Flags(heap) /\ Apart(heap, 0)
    BY <2>1, <2>2 DEF Good
  <2>4. Blocks = Starts(heap)
    BY DEF Blocks, Starts
  <2>5. First \in Blocks
    BY <2>3, <2>4, NextFacts
  <2>6. Ends = (Blocks \ {First}) \cup {end}
    <3>1. \A b \in Blocks : block_next(heap, b) # First /\ block_next(heap, b) \in Blocks \cup {end}
      BY <2>3, <2>4, NextFacts
    <3>2. \A x \in (Blocks \ {First}) \cup {end} : \E b \in Blocks : block_next(heap, b) = x
      BY <2>3, <2>4, NextFacts
    <3> QED
      BY <3>1, <3>2 DEF Ends
  <2>7. Max(Ends) = end
    <3>1. \A x \in Ends : x \in Nat /\ x <= end
      <4>1. \A b \in Blocks : block_next(heap, b) \in Nat /\ block_next(heap, b) <= end
        BY <2>3, <2>4, NextFacts
      <4> QED
        BY <4>1 DEF Ends
    <3>2. end \in Ends
      BY <2>6
    <3> QED
      BY <3>1, <3>2 DEF Max
  <2>8. Cardinality(pool) = bytes
    <3>1. Mem \in Nat /\ bytes \in Nat
      BY KallocAssumption
    <3>2. Mem \in Int /\ Mem + bytes - 1 \in Int /\ Mem <= Mem + bytes - 1 /\ (Mem + bytes - 1) - Mem + 1 = bytes
      BY <2>1, <3>1
    <3> QED
      BY <2>1, <3>2, FS_Interval
  <2>9. ASSUME NEW b \in Blocks
        PROVE  LET next == block_next(heap, b)
               IN  /\ next \in heap.prev_free <=> b \in heap.free
                   /\ b \in heap.free => next \notin heap.free /\ heap.prev_phys[next] = b
    <3>1. 0 \notin heap.free
      BY <2>3, NextFacts DEF Flags
    <3> QED
      BY <2>3, <2>4, <3>1 DEF Flags, Apart
  <2>10. Blocks \ heap.free = Live \cup {block[c] : c \in {d \in Cpus : pc[d] = "free"}}
    <3>1. Pending = {d \in Cpus : pc[d] = "free"}
      BY KallocAssumption DEF KallocInv, UseInv, Exclusive, Holding, Quiet, Pending
    <3> QED
      BY <2>4, <3>1 DEF KallocInv, UseInv, UsedExact, Used
  <2>11. ASSUME NEW p \in Live PROVE heap.size[p] >= live[p] /\ p % ALIGN_SIZE = 0
    <3>1. live[p] <= heap.size[p] /\ p \in Addr /\ live[p] \in Nat
      BY DEF KallocInv, UseInv, LiveFits, Live, KallocType
    <3>2. heap.size[p] \in Nat
      BY <2>3, <3>1, MultFacts DEF HeapType
    <3> QED
      BY <3>1, <3>2 DEF Addr
  <2> QED
    BY <2>2, <2>5, <2>6, <2>7, <2>8, <2>9, <2>10, <2>11 DEF EndOf
<1> QED
  BY <1>1, KallocInvariant, PTL

(* A block in the lists makes the list of its class nonempty.              *)
LEMMA ListNonempty ==
  ASSUME NEW h, HeapType(h), NEW S, ListsOK(h, S), NEW b \in S
  PROVE  h.blocks[Class(h, b)] # 0
<1>1. Links(h, S) /\ S \subseteq Addr \ {0}
  BY DEF ListsOK, Links
<1>2. PICK rank \in [Addr -> Int], least \in Int :
        /\ \A a \in Addr : least <= rank[a]
        /\ \A x \in S : h.prev_link[x] # 0 => rank[h.prev_link[x]] < rank[x]
  BY DEF ListsOK, Ranked
<1> DEFINE T == {x \in S : Class(h, x) = Class(h, b)}
           R == {rank[x] - least : x \in T}
<1>3. R \subseteq Nat /\ R # {}
  <2>1. \A x \in T : rank[x] - least \in Nat
    BY <1>1, <1>2
  <2>2. b \in T
    OBVIOUS
  <2> QED
    BY <2>1, <2>2
<1>4. PICK r \in R : \A y \in R : r <= y
  BY <1>3, LeastNat
<1>5. PICK x \in T : r = rank[x] - least
  BY <1>4
<1>6. h.prev_link[x] = 0
  <2> SUFFICES ASSUME h.prev_link[x] # 0 PROVE FALSE
    OBVIOUS
  <2>1. PICK y : y = h.prev_link[x]
    OBVIOUS
  <2>2. y \in S /\ Class(h, y) = Class(h, x)
    BY <1>1, <2>1 DEF Links
  <2>3. y \in T
    BY <2>2
  <2>4. rank[y] < rank[x]
    BY <1>2, <2>1
  <2>5. rank[y] \in Int /\ rank[x] \in Int /\ rank[y] - least \in R
    BY <1>1, <1>2, <2>3
  <2>6. r <= rank[y] - least
    BY <1>4, <2>5
  <2> HIDE DEF R, T
  <2> QED
    BY <1>2, <1>5, <2>4, <2>5, <2>6
<1>7. h.blocks[Class(h, x)] = x
  BY <1>1, <1>6 DEF Links
<1> QED
  BY <1>1, <1>7

(* The blocks of a free list, from its first one on.                       *)
ChainStep(f, h, list, k) ==
  IF k = 1 THEN h.blocks[list] ELSE IF f[k - 1] = 0 THEN 0 ELSE h.next_link[f[k - 1]]

IsChain(f, h, list, m) == f = [k \in 1 .. m |-> ChainStep(f, h, list, k)]

LEMMA ChainExists ==
  ASSUME NEW h, NEW list PROVE \A m \in Nat : \E f : IsChain(f, h, list, m)
<1> DEFINE Bad == {m \in Nat : ~ \E f : IsChain(f, h, list, m)}
<1>1. SUFFICES ASSUME Bad # {} PROVE FALSE
  OBVIOUS
<1>2. PICK m \in Bad : \A j \in Bad : m <= j
  <2>1. Bad \subseteq Nat
    OBVIOUS
  <2> QED
    BY <1>1, <2>1, LeastNat
<1>3. m \in Nat /\ m # 0
  <2>1. [k \in 1 .. 0 |-> 0] = [k \in 1 .. 0 |-> ChainStep([j \in 1 .. 0 |-> 0], h, list, k)]
    OBVIOUS
  <2>2. IsChain([k \in 1 .. 0 |-> 0], h, list, 0)
    BY <2>1 DEF IsChain
  <2> QED
    BY <1>2, <2>2
<1>4. m - 1 \in Nat /\ ~(m <= m - 1)
  BY <1>3
<1>5. PICK g : IsChain(g, h, list, m - 1)
  BY <1>2, <1>4
<1> HIDE DEF Bad
<1> DEFINE f == [k \in 1 .. m |-> IF k = m THEN ChainStep(g, h, list, m) ELSE g[k]]
<1>6. ASSUME NEW k \in 1 .. m PROVE f[k] = ChainStep(f, h, list, k)
  <2>1. k = 1 \/ (k - 1 \in 1 .. m /\ k - 1 # m)
    BY <1>3
  <2>2. ChainStep(f, h, list, k) = ChainStep(g, h, list, k)
    BY <2>1 DEF ChainStep
  <2>3. CASE k = m
    BY <2>2, <2>3
  <2>4. CASE k # m
    <3>1. k \in 1 .. m - 1
      BY <1>3, <2>4
    <3>2. g[k] = ChainStep(g, h, list, k)
      BY <1>5, <3>1 DEF IsChain
    <3> QED
      BY <2>2, <2>4, <3>2
  <2> QED
    BY <2>3, <2>4
<1>7. f = [k \in 1 .. m |-> ChainStep(f, h, list, k)]
  BY <1>6
<1> HIDE DEF f
<1>8. IsChain(f, h, list, m)
  BY <1>7 DEF IsChain
<1> QED
  BY <1>2, <1>8 DEF Bad

LEMMA ChainDef ==
  ASSUME NEW h, NEW list
  PROVE  \E f : IsChain(f, h, list, Cardinality(Addr)) /\ Chain(h, list) = {f[k] : k \in 1 .. Cardinality(Addr)} \ {0}
<1> DEFINE N == Cardinality(Addr)
           f == CHOOSE g : g = [k \in 1 .. N |-> ChainStep(g, h, list, k)]
<1>1. N \in Nat
  BY AddrFacts, FS_CardinalityType
<1>2. \E g : g = [k \in 1 .. N |-> ChainStep(g, h, list, k)]
  <2> HIDE DEF N
  <2>1. \E g : IsChain(g, h, list, N)
    BY <1>1, ChainExists
  <2> QED
    BY <2>1 DEF IsChain
<1>3. f = [k \in 1 .. N |-> ChainStep(f, h, list, k)]
  BY <1>2
<1>4. Chain(h, list) = {f[k] : k \in DOMAIN f} \ {0}
  BY DEF Chain, ChainStep
<1>5. DOMAIN f = 1 .. N
  BY <1>3
<1> HIDE DEF f
<1> QED
  BY <1>3, <1>4, <1>5 DEF IsChain

LEMMA ChainExact ==
  ASSUME NEW h, HeapType(h), NEW S, ListsOK(h, S), NEW list \in Lists
  PROVE  Chain(h, list) = {b \in S : Class(h, b) = list}
<1> DEFINE T == {b \in S : Class(h, b) = list}
<1>1. PICK N \in Nat : N = Cardinality(Addr)
  BY AddrFacts, FS_CardinalityType
<1>2. PICK f : IsChain(f, h, list, N) /\ Chain(h, list) = {f[k] : k \in 1 .. N} \ {0}
  BY <1>1, ChainDef
<1>3. /\ \A k \in 1 .. N : f[k] = ChainStep(f, h, list, k)
      /\ DOMAIN f = 1 .. N
  BY <1>2 DEF IsChain
<1>4. Links(h, S) /\ S \subseteq Addr \ {0}
  BY DEF ListsOK, Links
<1>5. PICK rank \in [Addr -> Int], least \in Int :
        /\ \A a \in Addr : least <= rank[a]
        /\ \A x \in S : h.prev_link[x] # 0 => rank[h.prev_link[x]] < rank[x]
  BY DEF ListsOK, Ranked
<1>6. h.blocks[list] \in T \cup {0}
  BY <1>4 DEF Links
<1>7. \A b \in T : /\ h.next_link[b] \in T \cup {0}
                   /\ h.next_link[b] # 0 => h.prev_link[h.next_link[b]] = b
                   /\ h.prev_link[b] \in T \cup {0}
                   /\ h.prev_link[b] # 0 => h.next_link[h.prev_link[b]] = b
                   /\ h.prev_link[b] = 0 => h.blocks[list] = b
                   /\ b # 0 /\ b \in Addr \ {0} /\ b \in S /\ rank[b] \in Int
  BY <1>4, <1>5 DEF Links
<1>8. T \subseteq Addr \ {0} /\ 0 \notin T
  BY <1>4
<1>s. \A b \in T : h.prev_link[b] # 0 => rank[h.prev_link[b]] < rank[b]
  BY <1>5
<1>t. T \subseteq S
  OBVIOUS
<1>u. T = {b \in S : Class(h, b) = list}
  OBVIOUS
<1> HIDE DEF T
<1>9. \A k \in 1 .. N : f[k] \in T \cup {0}
  <2> DEFINE Bad == {k \in Nat : k \in 1 .. N /\ f[k] \notin T \cup {0}}
  <2> SUFFICES ASSUME Bad # {} PROVE FALSE
    OBVIOUS
  <2>1. PICK k \in Bad : \A j \in Bad : k <= j
    <3>1. Bad \subseteq Nat
      OBVIOUS
    <3> QED
      BY <3>1, LeastNat
  <2>2. k \in 1 .. N /\ f[k] \notin T \cup {0} /\ f[k] = ChainStep(f, h, list, k)
    BY <1>3
  <2>3. CASE k = 1
    BY <1>6, <2>2, <2>3 DEF ChainStep
  <2>4. CASE k # 1
    <3>1. k - 1 \in 1 .. N /\ k - 1 \in Nat /\ ~(k <= k - 1)
      BY <1>1, <2>2, <2>4
    <3>2. f[k - 1] \in T \cup {0}
      BY <2>1, <3>1
    <3> QED
      BY <1>7, <2>2, <2>4, <3>2 DEF ChainStep
  <2> QED
    BY <2>3, <2>4
<1>10. ASSUME NEW k \in 1 .. N, k # 1, f[k] # 0
       PROVE  k - 1 \in 1 .. N /\ f[k - 1] \in T /\ f[k] \in T /\ rank[f[k - 1]] < rank[f[k]]
  <2>1. k - 1 \in 1 .. N
    BY <1>1, <1>10
  <2>2. f[k - 1] # 0 /\ f[k] = h.next_link[f[k - 1]]
    BY <1>3, <1>10 DEF ChainStep
  <2>3. f[k - 1] \in T /\ f[k] \in T
    BY <1>9, <1>10, <2>1, <2>2
  <2>4. h.prev_link[f[k]] = f[k - 1]
    BY <1>7, <1>10, <2>2, <2>3
  <2> QED
    BY <1>s, <2>1, <2>2, <2>3, <2>4
<1>11. ASSUME NEW i \in 1 .. N, NEW j \in 1 .. N, i < j, f[j] # 0
       PROVE  f[i] \in T /\ f[j] \in T /\ rank[f[i]] < rank[f[j]]
  <2> DEFINE Bad == {k \in Nat : k \in 1 .. N /\ i < k /\ f[k] # 0 /\
                                 ~(f[i] \in T /\ f[k] \in T /\ rank[f[i]] < rank[f[k]])}
  <2>1. SUFFICES ASSUME Bad # {} PROVE FALSE
    BY <1>11
  <2>2. PICK k \in Bad : \A m \in Bad : k <= m
    <3>1. Bad \subseteq Nat
      OBVIOUS
    <3> QED
      BY <2>1, <3>1, LeastNat
  <2>3. /\ k \in Nat /\ k \in 1 .. N /\ i < k /\ f[k] # 0
        /\ ~(f[i] \in T /\ f[k] \in T /\ rank[f[i]] < rank[f[k]])
    OBVIOUS
  <2>4. k # 1 /\ ~(k <= k - 1) /\ k - 1 \in Nat
    BY <1>1, <2>3
  <2>5. k - 1 \in 1 .. N /\ f[k - 1] \in T /\ f[k] \in T /\ rank[f[k - 1]] < rank[f[k]]
    BY <1>10, <2>3, <2>4
  <2>6. f[k - 1] # 0
    BY <1>8, <2>5
  <2>7. CASE i = k - 1
    BY <2>3, <2>5, <2>7
  <2>8. CASE i # k - 1
    <3>1. i < k - 1
      BY <1>1, <2>3, <2>8
    <3>2. k - 1 \notin Bad
      BY <2>2, <2>4
    <3>3. f[i] \in T /\ rank[f[i]] < rank[f[k - 1]]
      BY <2>4, <2>5, <2>6, <3>1, <3>2
    <3>4. rank[f[i]] \in Int /\ rank[f[k]] \in Int /\ rank[f[k - 1]] \in Int
      BY <1>7, <2>5, <3>3
    <3> HIDE DEF Bad
    <3>5. rank[f[i]] < rank[f[k]]
      BY <2>5, <3>3, <3>4
    <3> QED
      BY <2>3, <2>5, <3>3, <3>5
  <2> QED
    BY <2>7, <2>8
<1>12. N >= 1 /\ IsFiniteSet(Addr \ {0}) /\ Cardinality(Addr \ {0}) = N - 1
  <2>1. 0 \in Addr /\ IsFiniteSet(Addr)
    BY AddrFacts
  <2>2. IsFiniteSet(Addr \ {0}) /\ Cardinality(Addr \ {0}) = N - 1
    BY <1>1, <2>1, FS_RemoveElement
  <2>3. Cardinality(Addr \ {0}) \in Nat
    BY <2>2, FS_CardinalityType
  <2> QED
    BY <1>1, <2>2, <2>3
<1>13. f[N] = 0
  <2> SUFFICES ASSUME f[N] # 0 PROVE FALSE
    OBVIOUS
  <2>1. N \in 1 .. N
    BY <1>1, <1>12
  <2>2. \A k \in 1 .. N : f[k] \in Addr \ {0}
    <3>1. f[N] \in T
      BY <1>9, <2>1
    <3>2. ASSUME NEW k \in 1 .. N PROVE f[k] \in T
      <4>1. k = N \/ k < N
        BY <1>1
      <4> QED
        BY <1>11, <2>1, <3>1, <4>1
    <3> QED
      BY <1>8, <3>2
  <2>3. f \in [1 .. N -> Addr \ {0}]
    <3>1. f = [k \in 1 .. N |-> f[k]]
      BY <1>2, <1>3 DEF IsChain
    <3> QED
      BY <2>2, <3>1
  <2>4. IsFiniteSet(1 .. N) /\ Cardinality(1 .. N) = N
    <3>1. 1 \in Int /\ N \in Int /\ ~(1 > N) /\ N - 1 + 1 = N
      BY <1>1, <1>12
    <3> QED
      BY <3>1, FS_Interval
  <2>5. Cardinality(Addr \ {0}) < Cardinality(1 .. N)
    BY <1>1, <1>12, <2>4
  <2>6. PICK x \in 1 .. N, y \in 1 .. N : x # y /\ f[x] = f[y]
    BY <1>12, <2>3, <2>4, <2>5, FS_PigeonHole
  <2>7. x < y \/ y < x
    BY <1>1, <2>6
  <2>8. f[x] # 0 /\ f[y] # 0
    BY <2>2
  <2>9. rank[f[x]] < rank[f[y]] \/ rank[f[y]] < rank[f[x]]
    BY <1>11, <2>7, <2>8
  <2>10. f[x] \in T
    BY <1>9, <2>8
  <2>11. rank[f[x]] \in Int
    BY <1>7, <2>10
  <2> QED
    BY <2>6, <2>9, <2>11
<1>14. ASSUME NEW b \in T PROVE \E k \in 1 .. N : f[k] = b
  <2> DEFINE Bad == {x \in T : \A k \in 1 .. N : f[k] # x}
             R == {rank[x] - least : x \in Bad}
  <2>1. SUFFICES ASSUME Bad # {} PROVE FALSE
    OBVIOUS
  <2>2. R \subseteq Nat /\ R # {}
    <3>1. \A x \in Bad : rank[x] - least \in Nat
      BY <1>5, <1>7
    <3> QED
      BY <2>1, <3>1
  <2>3. PICK r \in R : \A y \in R : r <= y
    BY <2>2, LeastNat
  <2>4. PICK x \in Bad : r = rank[x] - least
    BY <2>3
  <2>5. x \in T /\ \A k \in 1 .. N : f[k] # x
    OBVIOUS
  <2>6. PICK y : y = h.prev_link[x]
    OBVIOUS
  <2>7. CASE y = 0
    <3>1. 1 \in 1 .. N
      BY <1>1, <1>12
    <3>2. f[1] = h.blocks[list]
      BY <1>3, <3>1 DEF ChainStep
    <3> QED
      BY <1>7, <2>5, <2>6, <2>7, <3>1, <3>2
  <2>8. CASE y # 0
    <3>1. y \in T /\ h.next_link[y] = x /\ rank[y] < rank[x]
      BY <1>7, <1>s, <2>5, <2>6, <2>8
    <3>2. y \notin Bad
      <4> SUFFICES ASSUME y \in Bad PROVE FALSE
        OBVIOUS
      <4>1. rank[y] - least \in R
        OBVIOUS
      <4>2. r <= rank[y] - least
        BY <2>3, <4>1
      <4>3. rank[y] \in Int /\ rank[x] \in Int
        BY <1>7, <2>5, <3>1
      <4> HIDE DEF R, Bad
      <4> QED
        BY <1>5, <2>4, <3>1, <4>2, <4>3
    <3>3. PICK k \in 1 .. N : f[k] = y
      BY <3>1, <3>2
    <3>4. k # N
      BY <1>13, <2>8, <3>3
    <3>5. k + 1 \in 1 .. N /\ k + 1 # 1 /\ (k + 1) - 1 = k
      BY <1>1, <3>4
    <3>6. f[k + 1] = x
      BY <1>3, <2>8, <3>1, <3>3, <3>5 DEF ChainStep
    <3> QED
      BY <2>5, <3>5, <3>6
  <2> QED
    BY <2>7, <2>8
<1>15. Chain(h, list) = T
  BY <1>2, <1>8, <1>9, <1>14
<1> QED
  BY <1>15, <1>u

LEMMA QuietLists == ASSUME KallocInv, Quiet PROVE HeapType(heap) /\ heap.sound /\ ListsOK(heap, heap.free)
<1>1. CASE pool = {}
  BY <1>1 DEF KallocInv, HeapInv, Bare
<1>2. CASE pool # {}
  BY <1>2, QuietGood DEF Good
<1> QED
  BY <1>1, <1>2

(* ListsExact: between calls every free block is in the free list of its   *)
(* size class, once and doubly linked, nothing else is in a list, and the  *)
(* two levels of bitmaps say which lists have blocks.                      *)
THEOREM ListsExact == Spec => []FreeListsExact
<1>1. KallocInv => FreeListsExact
  <2> SUFFICES ASSUME KallocInv, Quiet
               PROVE  /\ \A l \in Lists :
                           /\ Chain(heap, l) = {b \in heap.free : mapping_insert(heap.size[b]) = l}
                           /\ heap.blocks[l] # 0 => heap.prev_link[heap.blocks[l]] = 0
                      /\ \A b \in heap.free : heap.next_link[b] # 0 => heap.prev_link[heap.next_link[b]] = b
                      /\ \A f \in DOMAIN heap.sl_bitmap :
                           /\ heap.sl_bitmap[f] = {s \in 0 .. SL_INDEX_COUNT - 1 : heap.blocks[<<f, s>>] # 0}
                           /\ f \in heap.fl_bitmap <=> heap.sl_bitmap[f] # {}
    BY DEF FreeListsExact
  <2>1. HeapType(heap) /\ ListsOK(heap, heap.free)
    BY QuietLists
  <2>2. Links(heap, heap.free) /\ Bitmaps(heap)
    BY <2>1 DEF ListsOK
  <2>3. ASSUME NEW l \in Lists
        PROVE  /\ Chain(heap, l) = {b \in heap.free : mapping_insert(heap.size[b]) = l}
               /\ heap.blocks[l] # 0 => heap.prev_link[heap.blocks[l]] = 0
    <3>1. Chain(heap, l) = {b \in heap.free : Class(heap, b) = l}
      BY <2>1, ChainExact
    <3> QED
      BY <2>2, <3>1 DEF Links, Class
  <2>4. \A b \in heap.free : heap.next_link[b] # 0 => heap.prev_link[heap.next_link[b]] = b
    BY <2>2 DEF Links
  <2>5. ASSUME NEW f \in DOMAIN heap.sl_bitmap
        PROVE  /\ heap.sl_bitmap[f] = {s \in 0 .. SL_INDEX_COUNT - 1 : heap.blocks[<<f, s>>] # 0}
               /\ f \in heap.fl_bitmap <=> heap.sl_bitmap[f] # {}
    <3>1. f \in 0 .. FL_INDEX_COUNT - 1 /\ heap.sl_bitmap[f] \subseteq 0 .. SL_INDEX_COUNT - 1
      BY <2>1 DEF HeapType
    <3>2. \A s \in 0 .. SL_INDEX_COUNT - 1 : <<f, s>> \in Lists /\ <<f, s>>[1] = f /\ <<f, s>>[2] = s
      BY <3>1 DEF Lists
    <3>3. \A s \in 0 .. SL_INDEX_COUNT - 1 : s \in heap.sl_bitmap[f] <=> heap.blocks[<<f, s>>] # 0
      BY <2>2, <3>2 DEF Bitmaps
    <3> QED
      BY <2>2, <3>1, <3>3 DEF Bitmaps
  <2> QED
    BY <2>3, <2>4, <2>5
<1> QED
  BY <1>1, KallocInvariant, PTL

LEMMA NullTight ==
  ASSUME NEW h, HeapType(h), ListsOK(h, h.free), NEW a \in Nat, a # 0, a < block_size_max,
         block_locate_free(h, a)[2] = 0, NEW b \in h.free, h.size[b] < block_size_max,
         NEW slack, slack = IF a < SMALL_BLOCK_SIZE THEN 0 ELSE a \div SL_INDEX_COUNT
  PROVE  h.size[b] < a + slack
<1>1. h.size[b] \in Nat
  BY MultFacts DEF HeapType
<1>2. slack \in Nat
  <2>1. SL_INDEX_COUNT \in Nat /\ SL_INDEX_COUNT > 0
    BY Words
  <2>2. a \div SL_INDEX_COUNT \in Nat
    BY <2>1, Division
  <2> QED
    BY <2>2
<1> SUFFICES ASSUME h.size[b] >= a + slack PROVE FALSE
  BY <1>1, <1>2
<1>3. PICK list : list = mapping_search(a)
  OBVIOUS
<1>4. PICK s \in Nat : s = h.size[b]
  BY <1>1
<1>5. UpTo(list, Class(h, b))
  <2>1. a >= 1 /\ s >= a + (IF a < SMALL_BLOCK_SIZE THEN 0 ELSE a \div SL_INDEX_COUNT) /\ s < block_size_max
    BY <1>4
  <2> QED
    BY <1>3, <1>4, <2>1, SearchTight DEF Class
<1>6. Class(h, b) \in Lists
  BY <1>4, ClassType DEF Class
<1>7. list[1] \in Nat /\ list[2] \in Nat
  <2>1. a >= 1
    OBVIOUS
  <2> QED
    BY <1>3, <2>1, SearchType
<1>8. list[1] \in 0 .. FL_INDEX_COUNT - 1
  <2>1. Class(h, b)[1] \in 0 .. FL_INDEX_COUNT - 1 /\ FL_INDEX_COUNT \in Nat
    BY <1>6, LimitFacts DEF Lists
  <2> QED
    BY <1>5, <1>7, <2>1 DEF UpTo
<1>9. PICK found : found = search_suitable_block(h, list)
  OBVIOUS
<1>10. Bitmaps(h)
  BY DEF ListsOK
<1>11. found = {}
  <2> SUFFICES ASSUME found # {} PROVE FALSE
    OBVIOUS
  <2>1. PICK l \in Lists : found = {l} /\ h.blocks[l] # 0
    BY <1>7, <1>8, <1>9, <1>10, SearchFound
  <2>2. ~(list[1] >= FL_INDEX_COUNT)
    BY <1>8, LimitFacts
  <2>3. (CHOOSE x \in found : TRUE) = l
    BY <2>1
  <2>4. block_locate_free(h, a)[2] = h.blocks[l]
    BY <1>3, <1>9, <2>1, <2>2, <2>3 DEF block_locate_free
  <2> QED
    BY <2>1, <2>4
<1>12. h.blocks[Class(h, b)] = 0
  BY <1>5, <1>6, <1>7, <1>8, <1>9, <1>10, <1>11, SearchFound
<1> QED
  BY <1>12, ListNonempty

(* NullIsTight: between calls, kalloc finds nothing only when no free      *)
(* block is larger than the request by its SL_INDEX_COUNT-th part or more. *)
THEOREM NullIsTight == Spec => []NullMeansTight
<1>1. KallocInv => NullMeansTight
  <2> SUFFICES ASSUME KallocInv, Quiet, NEW n \in Sizes, NEW a, a = adjust_request_size(n, ALIGN_SIZE),
                      a # 0, block_locate_free(heap, a)[2] = 0,
                      NEW slack, slack = IF a < SMALL_BLOCK_SIZE THEN 0 ELSE a \div SL_INDEX_COUNT,
                      NEW b \in heap.free
               PROVE  heap.size[b] < a + slack
    BY DEF NullMeansTight
  <2>1. HeapType(heap) /\ ListsOK(heap, heap.free)
    BY QuietLists
  <2>2. a \in Nat /\ a < block_size_max
    BY AdjustFacts, KallocAssumption
  <2>3. heap.size[b] < block_size_max
    <3>1. pool # {}
      BY BareFacts DEF KallocInv, HeapInv
    <3>2. PICK end : Good(heap, end, heap.free, 0)
      BY <3>1, QuietGood
    <3> QED
      BY <3>2, NextFacts DEF Good, Flags
  <2> QED
    BY <2>1, <2>2, <2>3, NullTight
<1> QED
  BY <1>1, KallocInvariant, PTL

(* The library's own checks.                                               *)
LEMMA CheckHolds ==
  ASSUME NEW h, NEW end, Bare(h) \/ Good(h, end, h.free, 0) PROVE tlsf_check(h)
<1>1. HeapType(h) /\ ListsOK(h, h.free)
  BY DEF Bare, Good
<1>2. Bitmaps(h)
  BY <1>1 DEF ListsOK
<1>3. ASSUME NEW l \in Lists
      PROVE  LET sl_map == l[2] \in h.sl_bitmap[l[1]]
             IN  /\ sl_map => l[1] \in h.fl_bitmap
                 /\ sl_map <=> h.blocks[l] # 0
                 /\ sl_map => \A b \in Chain(h, l) :
                      LET next == block_next(h, b)
                      IN  /\ b \in h.free /\ b \notin h.prev_free
                          /\ next \notin h.free /\ next \in h.prev_free
                          /\ h.size[b] >= block_size_min
                          /\ mapping_insert(h.size[b]) = l
  <2>1. l[1] \in 0 .. FL_INDEX_COUNT - 1
    BY DEF Lists
  <2>2. /\ l[2] \in h.sl_bitmap[l[1]] => l[1] \in h.fl_bitmap
        /\ l[2] \in h.sl_bitmap[l[1]] <=> h.blocks[l] # 0
    BY <1>2, <2>1 DEF Bitmaps
  <2>3. ASSUME NEW b \in Chain(h, l)
        PROVE  /\ b \in h.free /\ b \notin h.prev_free
               /\ block_next(h, b) \notin h.free /\ block_next(h, b) \in h.prev_free
               /\ h.size[b] >= block_size_min
               /\ mapping_insert(h.size[b]) = l
    <3>1. b \in h.free /\ Class(h, b) = l
      BY <1>1, ChainExact
    <3>2. Good(h, end, h.free, 0)
      BY <3>1, BareFacts
    <3>3. Phys(h, end) /\ Flags(h) /\ Apart(h, 0)
      BY <3>2 DEF Good
    <3>4. b \in Starts(h) /\ 0 \notin h.free
      BY <1>1, <3>1, <3>3, NextFacts DEF Flags
    <3>5. h.size[b] >= block_size_min /\ block_next(h, b) \in h.prev_free /\ block_next(h, b) \notin h.free
      BY <3>1, <3>3, <3>4 DEF Phys, Flags, Apart
    <3>6. b \notin h.prev_free
      <4> SUFFICES ASSUME b \in h.prev_free PROVE FALSE
        OBVIOUS
      <4>1. b # First
        BY <3>3 DEF Phys
      <4>2. PICK c \in Starts(h) : block_next(h, c) = b
        BY <3>3, <3>4, <4>1 DEF Phys
      <4>3. c \in h.free
        BY <3>3, <4>2 DEF Flags
      <4> QED
        BY <3>1, <3>3, <3>4, <4>2, <4>3 DEF Apart
    <3> QED
      BY <3>1, <3>5, <3>6 DEF Class
  <2> QED
    BY <2>2, <2>3
<1> QED
  BY <1>3 DEF tlsf_check

(* The walk over the pool's blocks; it ends because addresses grow.        *)
WalkNext(f, h, a) == IF h.size[a] = 0 THEN <<>> ELSE <<a>> \o f[block_next(h, a)]

LEMMA WalkExists ==
  ASSUME NEW h, HeapType(h), NEW end, Phys(h, end)
  PROVE  \E f : f = [a \in Addr |-> WalkNext(f, h, a)]
<1>1. Top \in Nat /\ Addr \subseteq Nat /\ \A a \in Addr : a \in Nat /\ a <= Top
  BY AddrFacts
<1>2. \A a \in Addr : h.size[a] # 0 => block_next(h, a) \in Addr /\ a < block_next(h, a)
  BY NextFacts DEF Starts
<1> DEFINE Walks(m) == \E f : f = [a \in Addr |-> f[a]] /\ \A a \in Addr : a + m > Top => f[a] = WalkNext(f, h, a)
           Bad == {m \in Nat : ~Walks(m)}
<1>3. \A m \in Nat : Walks(m)
  <2>1. SUFFICES ASSUME Bad # {} PROVE FALSE
    OBVIOUS
  <2>2. PICK m \in Bad : \A j \in Bad : m <= j
    <3>1. Bad \subseteq Nat
      OBVIOUS
    <3> QED
      BY <2>1, <3>1, LeastNat
  <2>3. m \in Nat /\ m # 0
    <3>1. ASSUME m = 0 PROVE FALSE
      <4>1. [a \in Addr |-> 0] = [a \in Addr |-> [c \in Addr |-> 0][a]]
        OBVIOUS
      <4>2. \A a \in Addr : ~(a + 0 > Top)
        BY <1>1
      <4>3. Walks(0)
        BY <4>1, <4>2
      <4> QED
        BY <3>1, <4>3
    <3> QED
      BY <3>1
  <2>4. m - 1 \in Nat /\ ~(m <= m - 1)
    BY <2>3
  <2>5. Walks(m - 1)
    BY <2>2, <2>4
  <2>6. PICK g : g = [a \in Addr |-> g[a]] /\ \A a \in Addr : a + (m - 1) > Top => g[a] = WalkNext(g, h, a)
    BY <2>5
  <2>7. ~Walks(m)
    BY <2>2
  <2> HIDE DEF Bad
  <2> DEFINE f == [a \in Addr |-> IF a + (m - 1) = Top THEN WalkNext(g, h, a) ELSE g[a]]
  <2>8. ASSUME NEW a \in Addr, a + m > Top PROVE f[a] = WalkNext(f, h, a)
    <3>1. WalkNext(f, h, a) = WalkNext(g, h, a)
      <4>1. CASE h.size[a] = 0
        BY <4>1 DEF WalkNext
      <4>2. CASE h.size[a] # 0
        <5>1. block_next(h, a) \in Addr /\ block_next(h, a) \in Nat /\ a < block_next(h, a) /\ a \in Nat
          BY <1>1, <1>2, <4>2
        <5>2. block_next(h, a) + (m - 1) # Top
          BY <1>1, <2>3, <2>8, <5>1
        <5>3. f[block_next(h, a)] = g[block_next(h, a)]
          BY <5>1, <5>2
        <5> QED
          BY <5>3 DEF WalkNext
      <4> QED
        BY <4>1, <4>2
    <3>2. CASE a + (m - 1) = Top
      BY <3>1, <3>2
    <3>3. CASE a + (m - 1) # Top
      <4>1. a + (m - 1) > Top
        BY <1>1, <2>3, <2>8, <3>3
      <4>2. g[a] = WalkNext(g, h, a)
        BY <2>6, <4>1
      <4> QED
        BY <3>1, <3>3, <4>2
    <3> QED
      BY <3>2, <3>3
  <2>9. f = [a \in Addr |-> f[a]]
    OBVIOUS
  <2> HIDE DEF f
  <2>10. Walks(m)
    BY <2>8, <2>9
  <2> QED
    BY <2>7, <2>10
<1>4. Walks(Top + 1)
  <2> HIDE DEF Walks
  <2>1. Top + 1 \in Nat
    BY <1>1
  <2> QED
    BY <1>3, <2>1
<1>5. PICK f : f = [a \in Addr |-> f[a]] /\ \A a \in Addr : a + (Top + 1) > Top => f[a] = WalkNext(f, h, a)
  BY <1>4
<1>6. \A a \in Addr : f[a] = WalkNext(f, h, a)
  BY <1>1, <1>5
<1> QED
  BY <1>5, <1>6

LEMMA WalkDef ==
  ASSUME NEW h, HeapType(h), NEW end, Phys(h, end)
  PROVE  \E f : /\ \A a \in Addr : f[a] = WalkNext(f, h, a)
                /\ \A b : tlsf_walk_pool(h, b) = f[b]
<1> DEFINE f == CHOOSE g : g = [a \in Addr |-> WalkNext(g, h, a)]
<1>1. f = [a \in Addr |-> WalkNext(f, h, a)]
  BY WalkExists
<1>2. \A b : tlsf_walk_pool(h, b) = f[b]
  BY DEF tlsf_walk_pool, WalkNext
<1> HIDE DEF f
<1>3. \A a \in Addr : f[a] = WalkNext(f, h, a)
  BY <1>1
<1> QED
  BY <1>2, <1>3

(* It visits neighbours.                                                   *)
Visits(s, h, b) ==
  /\ s \in Seq(Starts(h)) /\ Len(s) \in Nat /\ Len(s) >= 1 /\ s[1] = b
  /\ \A i \in 2 .. Len(s) : s[i] = block_next(h, s[i - 1])

LEMMA WalkVisits ==
  ASSUME NEW h, HeapType(h), NEW end, Phys(h, end), NEW b \in Starts(h)
  PROVE  Visits(tlsf_walk_pool(h, b), h, b)
<1>1. PICK f : /\ \A a \in Addr : f[a] = WalkNext(f, h, a)
               /\ \A x : tlsf_walk_pool(h, x) = f[x]
  BY WalkDef
<1>2. Top \in Nat /\ \A x \in Starts(h) : /\ x \in Addr /\ x \in Nat /\ x <= Top /\ h.size[x] # 0
                                          /\ block_next(h, x) \in Starts(h) \cup {end}
                                          /\ x < block_next(h, x) /\ block_next(h, x) \in Nat
  <2>1. \A x \in Starts(h) : /\ block_next(h, x) \in Starts(h) \cup {end}
                             /\ x < block_next(h, x) /\ block_next(h, x) \in Nat
    BY NextFacts
  <2>2. \A x \in Starts(h) : x \in Addr /\ h.size[x] # 0
    BY DEF Starts
  <2> QED
    BY <2>1, <2>2, AddrFacts
<1>3. end \in Addr /\ h.size[end] = 0
  BY NextFacts DEF Starts
<1>4. f[end] = <<>>
  BY <1>1, <1>3 DEF WalkNext
<1> DEFINE Bad == {x \in Starts(h) : ~Visits(f[x], h, x)}
           R == {Top - x : x \in Bad}
<1>5. SUFFICES ASSUME Bad # {} PROVE FALSE
  BY <1>1
<1>6. R \subseteq Nat /\ R # {}
  <2>1. \A x \in Bad : Top - x \in Nat
    BY <1>2
  <2> QED
    BY <1>5, <2>1
<1>7. PICK r \in R : \A y \in R : r <= y
  BY <1>6, LeastNat
<1>8. PICK x \in Bad : r = Top - x
  BY <1>7
<1>9. x \in Starts(h) /\ ~Visits(f[x], h, x)
  OBVIOUS
<1>10. PICK y : y = block_next(h, x)
  OBVIOUS
<1>11. f[x] = <<x>> \o f[y]
  BY <1>1, <1>2, <1>9, <1>10 DEF WalkNext
<1>12. CASE y = end
  <2>1. PICK s : s = <<>>
    OBVIOUS
  <2>2. s \in Seq(Starts(h)) /\ Len(s) = 0
    BY <2>1
  <2>3. PICK t : t = <<x>> \o s
    OBVIOUS
  <2>4. t \in Seq(Starts(h)) /\ Len(t) = 1 /\ t[1] = x
    BY <1>9, <2>2, <2>3
  <2>5. Visits(t, h, x)
    BY <2>4 DEF Visits
  <2> QED
    BY <1>4, <1>9, <1>11, <1>12, <2>1, <2>3, <2>5
<1>13. CASE y # end
  <2>1. y \in Starts(h) /\ x < y /\ y \in Nat /\ x \in Nat /\ y <= Top
    BY <1>2, <1>9, <1>10, <1>13
  <2>2. Visits(f[y], h, y)
    <3> SUFFICES ASSUME ~Visits(f[y], h, y) PROVE FALSE
      OBVIOUS
    <3>1. Top - y \in R
      BY <2>1
    <3>2. r <= Top - y
      BY <1>7, <3>1
    <3> HIDE DEF R, Bad
    <3> QED
      BY <1>2, <1>8, <2>1, <3>2
  <2>3. PICK s : s = f[y]
    OBVIOUS
  <2>4. /\ s \in Seq(Starts(h)) /\ Len(s) \in Nat /\ Len(s) >= 1 /\ s[1] = y
        /\ \A i \in 2 .. Len(s) : s[i] = block_next(h, s[i - 1])
    BY <2>2, <2>3 DEF Visits
  <2>5. PICK t : t = <<x>> \o s
    OBVIOUS
  <2>6. t \in Seq(Starts(h)) /\ Len(t) = Len(s) + 1 /\ t[1] = x /\ \A i \in 2 .. Len(s) + 1 : t[i] = s[i - 1]
    BY <1>9, <2>4, <2>5
  <2>7. ASSUME NEW i \in 2 .. Len(t) PROVE t[i] = block_next(h, t[i - 1])
    <3>1. CASE i = 2
      <4>1. t[2] = s[1]
        BY <2>4, <2>6
      <4> QED
        BY <1>10, <2>4, <2>6, <3>1, <4>1
    <3>2. CASE i # 2
      <4>1. i - 1 \in 2 .. Len(s) /\ i \in 2 .. Len(s) + 1 /\ i - 1 \in 2 .. Len(s) + 1
        BY <2>4, <2>6, <3>2
      <4>2. t[i] = s[i - 1] /\ t[i - 1] = s[(i - 1) - 1]
        BY <2>6, <4>1
      <4> QED
        BY <2>4, <4>1, <4>2
    <3> QED
      BY <3>1, <3>2
  <2>8. Visits(t, h, x)
    BY <2>4, <2>6, <2>7 DEF Visits
  <2> QED
    BY <1>9, <1>11, <2>3, <2>5, <2>8
<1> QED
  BY <1>12, <1>13

LEMMA CheckPoolHolds ==
  ASSUME NEW h, NEW end, Good(h, end, h.free, 0) PROVE tlsf_check_pool(h, Mem)
<1>1. HeapType(h) /\ Phys(h, end) /\ Flags(h)
  BY DEF Good
<1>2. PICK s : s = tlsf_walk_pool(h, First)
  OBVIOUS
<1>3. First \in Starts(h) /\ First \notin h.prev_free
  BY <1>1, NextFacts
<1>4. Visits(s, h, First)
  BY <1>1, <1>2, <1>3, WalkVisits
<1>5. DOMAIN s = 1 .. Len(s) /\ Len(s) \in Nat /\ s \in Seq(Starts(h))
  BY <1>4 DEF Visits
<1>6. ASSUME NEW i \in DOMAIN s PROVE integrity_walker(h, i > 1 /\ s[i - 1] \in h.free, s[i])
  <2>1. CASE i = 1
    BY <1>3, <1>4, <2>1 DEF integrity_walker, Visits
  <2>2. CASE i # 1
    <3>1. i \in 2 .. Len(s) /\ i > 1 /\ i - 1 \in 1 .. Len(s)
      BY <1>5, <2>2
    <3>2. s[i - 1] \in Starts(h)
      BY <1>5, <3>1
    <3>3. s[i] = block_next(h, s[i - 1])
      BY <1>4, <3>1 DEF Visits
    <3> QED
      BY <1>1, <3>1, <3>2, <3>3 DEF integrity_walker, Flags
  <2> QED
    BY <2>1, <2>2
<1>7. Mem + block_header_overhead = First
  BY DEF First
<1> QED
  BY <1>2, <1>6, <1>7 DEF tlsf_check_pool

(* AssertionsHold: no tlsf_assert of the heap ever fails, and between      *)
(* calls tlsf_check and tlsf_check_pool find nothing wrong.                *)
THEOREM AssertionsHold == Spec => []AssertsHold
<1>1. KallocInv => AssertsHold
  <2> SUFFICES ASSUME KallocInv PROVE AssertsHold
    OBVIOUS
  <2>1. heap.sound
    BY DEF KallocInv, HeapInv, Bare, Good
  <2>2. ASSUME Quiet PROVE tlsf_check(heap) /\ (pool # {} => tlsf_check_pool(heap, Mem))
    <3>1. CASE pool = {}
      <4>1. Bare(heap)
        BY <3>1 DEF KallocInv, HeapInv
      <4> QED
        BY <3>1, <4>1, CheckHolds
    <3>2. CASE pool # {}
      <4>1. PICK end : Good(heap, end, heap.free, 0)
        BY <2>2, <3>2, QuietGood
      <4> QED
        BY <4>1, CheckHolds, CheckPoolHolds
    <3> QED
      BY <3>1, <3>2
  <2> QED
    BY <2>1, <2>2 DEF AssertsHold
<1> QED
  BY <1>1, KallocInvariant, PTL
=============================================================================
