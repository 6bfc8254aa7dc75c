-------------------------------- MODULE Tlsf --------------------------------
(***************************************************************************)
(* Two-level segregated fit, the kernel's heap (sys/vm/vm_tlsf.c), as      *)
(* functions from a heap to a heap.  A block is named by the address of    *)
(* its payload (block_to_ptr).  Flags are sets of blocks, bitmaps sets of  *)
(* indices, and 0 is both NULL and &control->block_null, whose own links   *)
(* nothing reads.  A header that is dead, or whose memory the client may   *)
(* overwrite, is forgotten (0); a header that block_split or tlsf_add_pool *)
(* creates starts with the flag bits the memory happens to hold (junk).    *)
(***************************************************************************)
EXTENDS Integers, Sequences, FiniteSets, FiniteSetsExt

CONSTANTS ALIGN_SIZE_LOG2, SL_INDEX_COUNT_LOG2, FL_INDEX_MAX,
          Top,      \* addresses are at most Top
          JunkFlags \* flag bits that fresh memory may hold

ASSUME TlsfAssumption ==
  /\ {ALIGN_SIZE_LOG2, SL_INDEX_COUNT_LOG2, FL_INDEX_MAX, Top} \subseteq Nat
  /\ FL_INDEX_MAX >= SL_INDEX_COUNT_LOG2 + ALIGN_SIZE_LOG2
  /\ SL_INDEX_COUNT_LOG2 >= 2
  /\ JunkFlags \subseteq [free : BOOLEAN, prev_free : BOOLEAN]

(* Arithmetic of the powers of two within the width of an integer.         *)
ASSUME PowerAssumption ==
  /\ 2^0 = 1
  /\ \A i \in 0 .. FL_INDEX_MAX + 2 :
       /\ 2^i \in Nat \ {0} /\ 2^(i + 1) = 2 * 2^i
       /\ \A j \in 0 .. FL_INDEX_MAX + 2 - i : 2^(i + j) = 2^i * 2^j

ALIGN_SIZE == 2^ALIGN_SIZE_LOG2     \* sizeof(size_t) and of a pointer, too
SL_INDEX_COUNT == 2^SL_INDEX_COUNT_LOG2
FL_INDEX_SHIFT == SL_INDEX_COUNT_LOG2 + ALIGN_SIZE_LOG2
FL_INDEX_COUNT == FL_INDEX_MAX - FL_INDEX_SHIFT + 1
SMALL_BLOCK_SIZE == 2^FL_INDEX_SHIFT

block_header_size == 4 * ALIGN_SIZE
block_header_overhead == ALIGN_SIZE
block_size_min == block_header_size - ALIGN_SIZE
block_size_max == 2^FL_INDEX_MAX

Addr == {a \in 0 .. Top : a % ALIGN_SIZE = 0}
Lists == (0 .. FL_INDEX_COUNT - 1) \X (0 .. SL_INDEX_COUNT - 1)

(* control_construct.  "sound" turns false when a tlsf_assert fails, which *)
(* is a panic.                                                             *)
EmptyHeap ==
  [size |-> [a \in Addr |-> 0], free |-> {}, prev_free |-> {},
   prev_phys |-> [a \in Addr |-> 0],
   next_link |-> [a \in Addr |-> 0], prev_link |-> [a \in Addr |-> 0],
   blocks |-> [l \in Lists |-> 0],
   fl_bitmap |-> {}, sl_bitmap |-> [f \in 0 .. FL_INDEX_COUNT - 1 |-> {}],
   sound |-> TRUE]

tlsf_assert(h, condition) == [h EXCEPT !.sound = @ /\ condition]

align_up(x, align) == ((x + align - 1) \div align) * align
align_down(x, align) == (x \div align) * align

tlsf_fls(n) == CHOOSE i \in 0 .. FL_INDEX_MAX + 1 : 2^i <= n /\ n < 2^(i + 1)

adjust_request_size(size, align) ==
  IF size = 0 \/ align_up(size, align) >= block_size_max THEN 0
  ELSE Max({align_up(size, align), block_size_min})

mapping_insert(size) ==
  IF size < SMALL_BLOCK_SIZE THEN <<0, size \div (SMALL_BLOCK_SIZE \div SL_INDEX_COUNT)>>
  ELSE LET fl == tlsf_fls(size)
       IN  <<fl - (FL_INDEX_SHIFT - 1), size \div 2^(fl - SL_INDEX_COUNT_LOG2) - SL_INDEX_COUNT>>

(* mapping_search without rounding up.                                     *)
mapping_search_Down(size) == mapping_insert(size)

mapping_search(size) ==
  mapping_insert(IF size < SMALL_BLOCK_SIZE THEN size
                 ELSE size + 2^(tlsf_fls(size) - SL_INDEX_COUNT_LOG2) - 1)
-----------------------------------------------------------------------------
(* Free lists.                                                             *)

(* search_suitable_block that stays in its first level.                    *)
search_suitable_block_SameLevel(h, list) ==
  LET sl_map == {s \in h.sl_bitmap[list[1]] : s >= list[2]}
  IN  IF sl_map = {} THEN {} ELSE {<<list[1], Min(sl_map)>>}

(* The first list at or after <<fl, sl>> that has a block, {} if none has. *)
search_suitable_block(h, list) ==
  LET sl_map == {s \in h.sl_bitmap[list[1]] : s >= list[2]}
      fl_map == {f \in h.fl_bitmap : f > list[1]}
  IN  IF sl_map # {} THEN {<<list[1], Min(sl_map)>>}
      ELSE IF fl_map = {} THEN {}
      ELSE {<<Min(fl_map), Min(h.sl_bitmap[Min(fl_map)])>>}

Link(h, a, b) ==
  [h EXCEPT !.next_link[a] = IF a = 0 THEN 0 ELSE b,
            !.prev_link[b] = IF b = 0 THEN 0 ELSE a]

(* remove_free_block that leaves the first-level bit set.                  *)
remove_free_block_KeepFl(h, b, list) ==
  LET next == h.next_link[b]
      linked == [Link(h, h.prev_link[b], next) EXCEPT !.next_link[b] = 0, !.prev_link[b] = 0]
  IN  IF h.blocks[list] # b THEN linked
      ELSE [linked EXCEPT !.blocks[list] = next,
                          !.sl_bitmap[list[1]] = IF next = 0 THEN @ \ {list[2]} ELSE @]

remove_free_block(h, b, list) ==
  LET next == h.next_link[b]
      linked == [Link(h, h.prev_link[b], next) EXCEPT !.next_link[b] = 0, !.prev_link[b] = 0]
      sl_map == h.sl_bitmap[list[1]] \ {list[2]}
  IN  IF h.blocks[list] # b THEN linked
      ELSE IF next # 0 THEN [linked EXCEPT !.blocks[list] = next]
      ELSE [linked EXCEPT !.blocks[list] = 0, !.sl_bitmap[list[1]] = sl_map,
                          !.fl_bitmap = IF sl_map = {} THEN @ \ {list[1]} ELSE @]

insert_free_block(h, b, list) ==
  [Link(Link(tlsf_assert(h, b % ALIGN_SIZE = 0), 0, b), b, h.blocks[list])
     EXCEPT !.blocks[list] = b,
            !.fl_bitmap = @ \cup {list[1]},
            !.sl_bitmap[list[1]] = @ \cup {list[2]}]

block_remove(h, b) == remove_free_block(h, b, mapping_insert(h.size[b]))
block_insert(h, b) == insert_free_block(h, b, mapping_insert(h.size[b]))
-----------------------------------------------------------------------------
(* Physical neighbours.                                                    *)

block_next(h, b) == b + h.size[b] + block_header_overhead

block_link_next(h, b) ==
  [tlsf_assert(h, h.size[b] # 0) EXCEPT !.prev_phys[block_next(h, b)] = b]

block_mark_as_free(h, b) ==
  [block_link_next(h, b) EXCEPT !.prev_free = @ \cup {block_next(h, b)},
                                !.free = @ \cup {b}]

(* From here on the client may write to the payload, where the next        *)
(* block's prev_phys_block lies.                                           *)
block_mark_as_used(h, b) ==
  [tlsf_assert(h, h.size[b] # 0)
     EXCEPT !.prev_free = @ \ {block_next(h, b)}, !.free = @ \ {b},
            !.prev_phys[block_next(h, b)] = 0]

block_can_split(h, b, size) == h.size[b] >= block_header_size + size

(* The block that block_split cuts off behind the first size bytes.        *)
Remaining(b, size) == b + size + block_header_overhead

SetFlags(h, b, flags) ==
  [h EXCEPT !.free = IF flags.free THEN @ \cup {b} ELSE @ \ {b},
            !.prev_free = IF flags.prev_free THEN @ \cup {b} ELSE @ \ {b}]

block_split(h, b, size, junk) ==
  LET r == Remaining(b, size)
      remain_size == h.size[b] - (size + block_header_overhead)
      sized == [SetFlags(h, r, junk) EXCEPT !.size[r] = remain_size, !.size[b] = size]
  IN  block_mark_as_free(tlsf_assert(sized, /\ r % ALIGN_SIZE = 0
                                            /\ remain_size >= block_size_min), r)

(* The header of the absorbed block is dead.                               *)
block_absorb(h, prev, b) ==
  block_link_next([tlsf_assert(h, h.size[prev] # 0)
                     EXCEPT !.size[prev] = @ + h.size[b] + block_header_overhead,
                            !.size[b] = 0, !.free = @ \ {b}, !.prev_free = @ \ {b},
                            !.prev_phys[b] = 0], prev)

MergedBlock(h, b) == IF b \in h.prev_free THEN h.prev_phys[b] ELSE b

block_merge_prev(h, b) ==
  LET prev == h.prev_phys[b]
  IN  IF b \notin h.prev_free THEN h
      ELSE block_absorb(block_remove(tlsf_assert(h, prev # 0 /\ prev \in h.free), prev), prev, b)

(* block_merge_next that does not merge.                                   *)
block_merge_next_Never(h, b) == h

block_merge_next(h, b) ==
  LET next == block_next(h, b)
      checked == tlsf_assert(h, h.size[b] # 0)
  IN  IF next \in h.free THEN block_absorb(block_remove(checked, next), b, next) ELSE checked

block_trim_free(h, b, size, junk) ==
  LET r == Remaining(b, size)
      checked == tlsf_assert(h, b \in h.free)
  IN  IF ~ block_can_split(h, b, size) THEN checked
      ELSE block_insert([block_link_next(block_split(checked, b, size, junk), b)
                           EXCEPT !.prev_free = @ \cup {r}], r)

block_trim_used(h, b, size, junk) ==
  LET r == Remaining(b, size)
      checked == tlsf_assert(h, b \notin h.free)
  IN  IF ~ block_can_split(h, b, size) THEN checked
      ELSE block_insert(block_merge_next([block_split(checked, b, size, junk)
                                            EXCEPT !.prev_free = @ \ {r}], r), r)

(* Keeps the first size - block_header_overhead bytes as a free block; the *)
(* caller goes on with the block behind them.                              *)
block_trim_free_leading(h, b, size, junk) ==
  LET r == Remaining(b, size - block_header_overhead)
  IN  IF ~ block_can_split(h, b, size) THEN h
      ELSE block_insert(block_link_next([block_split(h, b, size - block_header_overhead, junk)
                                           EXCEPT !.prev_free = @ \cup {r}], b), b)
-----------------------------------------------------------------------------
(* The interface.  A result is a pair of a heap and a pointer.             *)

block_locate_free(h, size) ==
  LET list == mapping_search(size)
      found == IF size = 0 \/ list[1] >= FL_INDEX_COUNT THEN {}
               ELSE search_suitable_block(h, list)
  IN  IF found = {} THEN <<h, 0>>
      ELSE LET l == CHOOSE l \in found : TRUE
               b == h.blocks[l]
           IN  <<remove_free_block(tlsf_assert(h, h.size[b] >= size), b, l), b>>

block_prepare_used(h, b, size, junk) ==
  IF b = 0 THEN <<h, 0>>
  ELSE <<block_mark_as_used(block_trim_free(tlsf_assert(h, size # 0), b, size, junk), b), b>>

tlsf_malloc(h, size, junk) ==
  LET adjust == adjust_request_size(size, ALIGN_SIZE)
      located == block_locate_free(h, adjust)
  IN  block_prepare_used(located[1], located[2], adjust, junk)

(* How far behind the payload's start the aligned payload begins.          *)
AlignmentGap(b, align) ==
  LET aligned == align_up(b, align)
      gap == aligned - b
  IN  IF gap = 0 \/ gap >= block_header_size THEN gap
      ELSE align_up(aligned + Max({block_header_size - gap, align}), align) - b

tlsf_memalign(h, align, size, junk) ==
  LET adjust == adjust_request_size(size, ALIGN_SIZE)
      aligned_size == IF adjust # 0 /\ align > ALIGN_SIZE
                      THEN adjust_request_size(adjust + align + block_header_size, align)
                      ELSE adjust
      located == block_locate_free(h, aligned_size)
      b == located[2]
      gap == AlignmentGap(b, align)
  IN  IF b = 0 THEN <<h, 0>>
      ELSE IF gap = 0 THEN block_prepare_used(located[1], b, adjust, junk)
      ELSE block_prepare_used(
             block_trim_free_leading(tlsf_assert(located[1], gap >= block_header_size), b, gap, junk),
             IF block_can_split(located[1], b, gap)
             THEN Remaining(b, gap - block_header_overhead) ELSE b,
             adjust, junk)

(* tlsf_free after block_mark_as_free.                                     *)
Coalesce(h, b) ==
  LET m == MergedBlock(h, b)
  IN  block_insert(block_merge_next(block_merge_prev(h, b), m), m)

tlsf_free(h, b) == Coalesce(block_mark_as_free(tlsf_assert(h, b \notin h.free), b), b)

(* tlsf_realloc for a pointer and a size that are not 0; the other cases   *)
(* are tlsf_malloc and tlsf_free.                                          *)
tlsf_realloc(h, b, size, junk) ==
  LET next == block_next(h, b)
      adjust == adjust_request_size(size, ALIGN_SIZE)
      moved == tlsf_malloc(h, size, junk)
      grown == block_mark_as_used(block_merge_next(h, b), b)
      combined == h.size[b] + h.size[next] + block_header_overhead
  IN  IF adjust <= h.size[b] THEN <<block_trim_used(h, b, adjust, junk), b>>
      ELSE IF next \in h.free /\ adjust <= combined
           THEN <<block_trim_used(grown, b, adjust, junk), b>>
      ELSE IF moved[2] = 0 THEN <<h, 0>>
      ELSE <<tlsf_free(moved[1], b), moved[2]>>

(* A pool of the given number of bytes at mem.                             *)
PoolBytes(bytes) == align_down(bytes - 2 * block_header_overhead, ALIGN_SIZE)

tlsf_add_pool(h, mem, bytes, junk) ==
  LET b == mem + block_header_overhead
      made == [SetFlags(h, b, junk) EXCEPT !.size[b] = PoolBytes(bytes),
                                           !.free = @ \cup {b}, !.prev_free = @ \ {b}]
      sentinel == block_next(made, b)
  IN  IF \/ mem % ALIGN_SIZE # 0
         \/ PoolBytes(bytes) \notin block_size_min .. block_size_max
      THEN <<h, 0>>
      ELSE <<[SetFlags(block_link_next(block_insert(made, b), b), sentinel, junk)
                EXCEPT !.free = @ \ {sentinel}, !.prev_free = @ \cup {sentinel}], mem>>

(* The memory goes back to whoever gave it.                                *)
tlsf_remove_pool(h, mem) ==
  LET b == mem + block_header_overhead
      next == block_next(h, b)
      checked == tlsf_assert(h, b \in h.free /\ next \notin h.free /\ h.size[next] = 0)
  IN  [block_remove(checked, b)
         EXCEPT !.size[b] = 0, !.free = @ \ {b}, !.prev_phys[next] = 0, !.prev_free = @ \ {next}]
-----------------------------------------------------------------------------
(* The library's own checks: TRUE if no tlsf_insist in them fails.         *)

(* The blocks of a free list, from its first one on.                       *)
Chain(h, list) ==
  LET member[k \in 1 .. Cardinality(Addr)] ==
        IF k = 1 THEN h.blocks[list]
        ELSE IF member[k - 1] = 0 THEN 0 ELSE h.next_link[member[k - 1]]
  IN  {member[k] : k \in DOMAIN member} \ {0}

tlsf_check(h) ==
  \A l \in Lists :
    LET sl_map == l[2] \in h.sl_bitmap[l[1]]
    IN  /\ sl_map => l[1] \in h.fl_bitmap
        /\ sl_map <=> h.blocks[l] # 0
        /\ sl_map => \A b \in Chain(h, l) :
             LET next == block_next(h, b)
             IN  /\ b \in h.free /\ b \notin h.prev_free
                 /\ next \notin h.free /\ next \in h.prev_free
                 /\ h.size[b] >= block_size_min
                 /\ mapping_insert(h.size[b]) = l

(* The blocks from b to the sentinel.                                      *)
tlsf_walk_pool(h, b) ==
  LET walk[a \in Addr] ==
        IF h.size[a] = 0 THEN <<>> ELSE <<a>> \o walk[block_next(h, a)]
  IN  walk[b]

(* A block knows the status of the one before it.                          *)
integrity_walker(h, prev_status, b) == prev_status <=> b \in h.prev_free

tlsf_check_pool(h, mem) ==
  LET blocks == tlsf_walk_pool(h, mem + block_header_overhead)
  IN  \A i \in DOMAIN blocks : integrity_walker(h, i > 1 /\ blocks[i - 1] \in h.free, blocks[i])
=============================================================================
