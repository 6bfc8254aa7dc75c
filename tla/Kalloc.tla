------------------------------- MODULE Kalloc -------------------------------
(***************************************************************************)
(* The kernel heap in use (sys/vm/vm_kalloc.c): processors call kalloc and *)
(* kfree, which run tlsf_malloc and tlsf_free under one lock.  Both are    *)
(* cut in two, so that a lock that did not work would show.  The library's *)
(* other entry points, which the kernel does not call yet, are single      *)
(* steps of a caller that keeps to the same lock.  The initial state is    *)
(* the one after tlsf_create.                                              *)
(***************************************************************************)
EXTENDS Tlsf

CONSTANTS Cpus, None,
          Mem,          \* where the pool's memory starts
          PoolSizes,    \* bytes vm_kalloc_init may have for the pool
          Sizes,        \* sizes callers ask for
          Aligns,       \* alignments for tlsf_memalign
          Resizes       \* sizes for tlsf_realloc

(* The memory is aligned and ends below Top, and a pool is smaller than    *)
(* the largest block (2 MiB of 4 GiB); an alignment is a power of two, or  *)
(* else tlsf_memalign panics, and divides a word or is a multiple of one;  *)
(* a size to reallocate to is one that the heap can have.                  *)
ASSUME KallocAssumption ==
  /\ None \notin Cpus
  /\ Mem \in Nat \ {0} /\ Mem % ALIGN_SIZE = 0
  /\ \A bytes \in PoolSizes :
       bytes \in Nat /\ Mem + bytes <= Top /\ PoolBytes(bytes) < block_size_max
  /\ Sizes \subseteq Nat
  /\ \A align \in Aligns :
       align \in Nat \ {0} /\ (align % ALIGN_SIZE = 0 \/ ALIGN_SIZE % align = 0)
  /\ \A n \in Resizes : n \in Nat \ {0} /\ align_up(n, ALIGN_SIZE) < block_size_max

VARIABLES heap,     \* what ctx points to
          pool,     \* the addresses of the pool
          lock,     \* who holds the lock
          pc, size, block,    \* per processor: location and locals
          live      \* what callers hold: live[p] bytes were asked for at p

vars == <<heap, pool, lock, pc, size, block, live>>

Init ==
  /\ heap = EmptyHeap /\ pool = {} /\ lock = None
  /\ pc = [c \in Cpus |-> "idle"]
  /\ size = [c \in Cpus |-> 0]
  /\ block = [c \in Cpus |-> 0]
  /\ live = [a \in Addr |-> 0]

Live == {p \in Addr : live[p] # 0}
First == Mem + block_header_overhead
Quiet == lock = None

Goto(c, from, to) == pc[c] = from /\ pc' = [pc EXCEPT ![c] = to]

(* vm_kalloc_init: the result of tlsf_add_pool is not looked at.           *)
vm_kalloc_init ==
  /\ Quiet /\ pool = {}
  /\ \E bytes \in PoolSizes, junk \in JunkFlags :
       LET added == tlsf_add_pool(heap, Mem, bytes, junk)
       IN  /\ heap' = added[1]
           /\ pool' = IF added[2] = 0 THEN {} ELSE Mem .. Mem + bytes - 1
  /\ UNCHANGED <<lock, pc, size, block, live>>

kalloc(c) ==
  /\ Goto(c, "idle", "alloc")
  /\ \E n \in Sizes : size' = [size EXCEPT ![c] = n]
  /\ UNCHANGED <<heap, pool, lock, block, live>>

(* kfree(NULL) changes nothing.                                            *)
kfree(c) ==
  /\ Goto(c, "idle", "free")
  /\ \E p \in Live : /\ block' = [block EXCEPT ![c] = p]
                     /\ live' = [live EXCEPT ![p] = 0]
  /\ UNCHANGED <<heap, pool, lock, size>>

(* Lock that does not look at the lock word.                               *)
Lock_Unchecked(c) ==
  /\ lock' = c
  /\ \/ Goto(c, "alloc", "locate")
     \/ Goto(c, "free", "mark")
  /\ UNCHANGED <<heap, pool, size, block, live>>

Lock(c) ==
  /\ lock = None /\ lock' = c
  /\ \/ Goto(c, "alloc", "locate")
     \/ Goto(c, "free", "mark")
  /\ UNCHANGED <<heap, pool, size, block, live>>

Locate(c) ==
  /\ Goto(c, "locate", "prepare")
  /\ LET located == block_locate_free(heap, adjust_request_size(size[c], ALIGN_SIZE))
     IN  heap' = located[1] /\ block' = [block EXCEPT ![c] = located[2]]
  /\ UNCHANGED <<pool, lock, size, live>>

Prepare(c) ==
  /\ Goto(c, "prepare", "unlock")
  /\ \E junk \in JunkFlags :
       LET adjust == adjust_request_size(size[c], ALIGN_SIZE)
           p == block[c]
       IN  /\ heap' = block_prepare_used(heap, p, adjust, junk)[1]
           /\ live' = IF p = 0 THEN live ELSE [live EXCEPT ![p] = size[c]]
  /\ UNCHANGED <<pool, lock, size, block>>

MarkFree(c) ==
  /\ Goto(c, "mark", "merge")
  /\ LET b == block[c]
     IN  heap' = block_mark_as_free(tlsf_assert(heap, b \notin heap.free), b)
  /\ UNCHANGED <<pool, lock, size, block, live>>

Merge(c) ==
  /\ Goto(c, "merge", "unlock")
  /\ heap' = Coalesce(heap, block[c])
  /\ UNCHANGED <<pool, lock, size, block, live>>

Unlock(c) ==
  /\ Goto(c, "unlock", "idle")
  /\ lock' = None
  /\ size' = [size EXCEPT ![c] = 0]
  /\ block' = [block EXCEPT ![c] = 0]
  /\ UNCHANGED <<heap, pool, live>>

Memalign ==
  /\ Quiet
  /\ \E align \in Aligns, n \in Sizes, junk \in JunkFlags :
       LET got == tlsf_memalign(heap, align, n, junk)
       IN  /\ heap' = got[1]
           /\ live' = IF got[2] = 0 THEN live ELSE [live EXCEPT ![got[2]] = n]
  /\ UNCHANGED <<pool, lock, pc, size, block>>

Realloc ==
  /\ Quiet
  /\ \E p \in Live, n \in Resizes, junk \in JunkFlags :
       LET got == tlsf_realloc(heap, p, n, junk)
       IN  /\ heap' = got[1]
           /\ live' = IF got[2] = 0 THEN live
                      ELSE [live EXCEPT ![p] = 0, ![got[2]] = n]
  /\ UNCHANGED <<pool, lock, pc, size, block>>

RemovePool ==
  /\ Quiet /\ pool # {} /\ Live = {}
  /\ \A c \in Cpus : pc[c] \in {"idle", "alloc"}
  /\ heap' = tlsf_remove_pool(heap, Mem) /\ pool' = {}
  /\ UNCHANGED <<lock, pc, size, block, live>>

Next ==
  \/ vm_kalloc_init \/ Memalign \/ Realloc \/ RemovePool
  \/ \E c \in Cpus :
       \/ kalloc(c) \/ kfree(c) \/ Lock(c) \/ Unlock(c)
       \/ Locate(c) \/ Prepare(c) \/ MarkFree(c) \/ Merge(c)

Spec == Init /\ [][Next]_vars
-----------------------------------------------------------------------------
Blocks == {b \in Addr : heap.size[b] # 0}
Ends == {block_next(heap, b) : b \in Blocks}

(* AssertsHold: the heap's own assertions never fail, and between calls    *)
(* neither do those of its checks, tlsf_check and tlsf_check_pool.         *)
AssertsHold ==
  /\ heap.sound
  /\ Quiet => tlsf_check(heap) /\ (pool # {} => tlsf_check_pool(heap, Mem))

(* PoolPartitioned: tlsf_check_pool: the blocks cover the pool from its    *)
(* first block to the sentinel without a hole, every block knows whether   *)
(* the one before it is free and then where it starts, and no two free     *)
(* blocks are neighbours (tlsf_free, block_trim_used).  What callers hold, *)
(* or are giving back, is exactly what is not free.                        *)
PoolPartitioned ==
  Quiet /\ pool # {} =>
    /\ First \in Blocks
    /\ Ends = (Blocks \ {First}) \cup {Max(Ends)}
    /\ Max(Ends) = First + PoolBytes(Cardinality(pool)) + block_header_overhead
    /\ \A b \in Blocks :
         LET next == block_next(heap, b)
         IN  /\ next \in heap.prev_free <=> b \in heap.free
             /\ b \in heap.free => next \notin heap.free /\ heap.prev_phys[next] = b
    /\ Blocks \ heap.free = Live \cup {block[c] : c \in {d \in Cpus : pc[d] = "free"}}
    /\ \A p \in Live : heap.size[p] >= live[p] /\ p % ALIGN_SIZE = 0

(* FreeListsExact: tlsf_check: every free list holds the free blocks of    *)
(* its size class, each once, doubly linked, and the bitmaps say which     *)
(* lists have any.                                                         *)
FreeListsExact ==
  Quiet =>
    /\ \A l \in Lists :
         /\ Chain(heap, l) = {b \in heap.free : mapping_insert(heap.size[b]) = l}
         /\ heap.blocks[l] # 0 => heap.prev_link[heap.blocks[l]] = 0
    /\ \A b \in heap.free : heap.next_link[b] # 0 => heap.prev_link[heap.next_link[b]] = b
    /\ \A f \in DOMAIN heap.sl_bitmap :
         /\ heap.sl_bitmap[f] = {s \in 0 .. SL_INDEX_COUNT - 1 : heap.blocks[<<f, s>>] # 0}
         /\ f \in heap.fl_bitmap <=> heap.sl_bitmap[f] # {}

(* NullMeansTight: good fit: kalloc returns NULL for a size the heap can   *)
(* have only when every free block is smaller than the size and one part   *)
(* in SL_INDEX_COUNT of it (mapping_search rounds up by less than that).   *)
NullMeansTight ==
  Quiet =>
    \A n \in Sizes :
      LET adjust == adjust_request_size(n, ALIGN_SIZE)
          slack == IF adjust < SMALL_BLOCK_SIZE THEN 0 ELSE adjust \div SL_INDEX_COUNT
      IN  adjust # 0 /\ block_locate_free(heap, adjust)[2] = 0 =>
            \A b \in heap.free : heap.size[b] < adjust + slack

Abstract == INSTANCE HeapSpec WITH Places <- Addr

(* HeapImplemented: callers see the abstract heap, bytes that are theirs   *)
(* alone until kfree.                                                      *)
HeapImplemented == Abstract!Spec
=============================================================================
