---------------------------- MODULE Mmu_proofs ------------------------------
(***************************************************************************)
(* Proofs about address spaces for any number of processors, processes and *)
(* frames, and any size of the tables.                                     *)
(*                                                                         *)
(* The code keeps no record of who a frame belongs to, so the invariant    *)
(* asserts that there is one: own[f], a process, and lev[f], what the      *)
(* frame is to it - 0 its root, 1 to 3 a table of that depth, 4 its stack, *)
(* 5 the root of a process that is being given up, 6 the root of a         *)
(* processor of clean_addrsp; -1 is a frame nobody refers to.              *)
(***************************************************************************)
EXTENDS Mmu, TLAPS

Locations == {"boot", "off", "fork", "lost", "idle", "stack", "descend", "free_stack",
              "free_root"}

Contents == [Frames -> [Index -> Frames \cup {None}]]

TypeOK ==
  /\ free \subseteq Pool /\ mem \in Contents
  /\ cr3 \in [Cpus -> Frames \cup {None}]
  /\ up \subseteq Cpus
  /\ space \in [Processes -> [root : Frames \cup {None}, stack : Frames \cup {None}]]
  /\ ready \subseteq Processes /\ failed \subseteq Processes
  /\ pc \in [Cpus -> Locations]
  /\ proc \in [Cpus -> Processes \cup {None}]
  /\ table \in [Cpus -> Frames \cup {None}]
  /\ curlvl \in [Cpus -> 0 .. 3]
  /\ dest \in [Cpus -> Frames \cup {None}]

(* Inside mu_process_init.                                                 *)
Busy(c) == pc[c] \in {"stack", "descend", "free_stack", "free_root"}

Control ==
  /\ pc[BSP] = "boot" => /\ cr3[BSP] = KernelRoot
                         /\ \A c \in Cpus \ {BSP} : pc[c] = "off"
  /\ pc[BSP] = "boot" \/ BSP \in up
  /\ \A c \in Cpus : pc[c] \in {"boot", "off", "fork"} => c \notin up
  /\ \A c \in Cpus : Busy(c) \/ pc[c] = "idle" => c \in up
  /\ \A c \in Cpus : Busy(c) <=> proc[c] # None
  /\ \A c \in Cpus : Busy(c) => proc[c] \notin ready \cup failed
  /\ \A c \in Cpus : Busy(c) => dest[c] = space[proc[c]].root
  /\ \A c, d \in Cpus : proc[c] = proc[d] /\ proc[c] # None => c = d

(* The roots the boot processor starts with.                               *)
Kernel ==
  /\ BSP \in up => \A i \in Lower : mem[KernelRoot][i] = None
  /\ \A c \in Cpus : pc[c] = "fork" =>
       /\ cr3[c] = BootRoot
       /\ \A i \in Index \ Lower : mem[BootRoot][i] = mem[KernelRoot][i]
-----------------------------------------------------------------------------
(* Ownership, of contents m.                                               *)

(* Where the entries of a process's table are: a root's upper half is the  *)
(* kernel's.                                                               *)
Own(n) == IF n = 0 THEN Lower ELSE Index

(* An owned frame leads only to frames of the same process, one level      *)
(* further.                                                                *)
Tree(own, lev, m) ==
  \A f \in Pool : lev[f] \in 0 .. 3 =>
    \A i \in Own(lev[f]) :
      m[f][i] # None => m[f][i] \in Pool /\ own[m[f][i]] = own[f] /\ lev[m[f][i]] = lev[f] + 1

(* Every root maps the kernel; a processor's own has nothing below it.     *)
Rooted(lev, m) ==
  /\ \A f \in Pool : lev[f] \in {0, 6} =>
       \A i \in Index \ Lower : m[f][i] = m[KernelRoot][i]
  /\ \A f \in Pool : lev[f] = 6 => \A i \in Lower : m[f][i] = None

Is(own, lev, f, p, n) == f \in Pool /\ own[f] = p /\ lev[f] = n

(* Slots on the way to the stack; the last two are the same.               *)
S1 == pmap_get_index(STACK_TOP, PML3)
S2 == pmap_get_index(STACK_TOP, PML2)
S3 == pmap_get_index(STACK_TOP, PML1)

(* From root r, n tables of process p lead to frame t.                     *)
Linked(own, lev, m, p, r, t, n) ==
  \/ n = 0 /\ t = r
  \/ n = 1 /\ m[r][S1] = t
  \/ n = 2 /\ \E a \in Pool : Is(own, lev, a, p, 1) /\ m[r][S1] = a /\ m[a][S2] = t
  \/ n = 3 /\ \E a, b \in Pool : /\ Is(own, lev, a, p, 1) /\ Is(own, lev, b, p, 2)
                                 /\ m[r][S1] = a /\ m[a][S2] = b /\ m[b][S3] = t
  \/ n = 4 /\ \E a, b, e \in Pool :
                /\ Is(own, lev, a, p, 1) /\ Is(own, lev, b, p, 2) /\ Is(own, lev, e, p, 3)
                /\ m[r][S1] = a /\ m[a][S2] = b /\ m[b][S3] = e /\ m[e][S3] = t

(* Process p is complete.                                                  *)
Complete(own, lev, m, p) ==
  /\ Is(own, lev, space[p].root, p, 0) /\ Is(own, lev, space[p].stack, p, 4)
  /\ Linked(own, lev, m, p, space[p].root, space[p].stack, 4)

(* Processor c is making process p.                                        *)
Making(own, lev, m, c, p) ==
  /\ pc[c] \in {"stack", "descend", "free_stack"} => Is(own, lev, space[p].root, p, 0)
  /\ pc[c] = "stack" => \A i \in Lower : m[space[p].root][i] = None
  /\ pc[c] \in {"descend", "free_stack"} => Is(own, lev, space[p].stack, p, 4)
  /\ pc[c] = "descend" =>
       /\ Is(own, lev, table[c], p, 3 - curlvl[c])
       /\ \A i \in Own(3 - curlvl[c]) : m[table[c]][i] = None
       /\ Linked(own, lev, m, p, space[p].root, table[c], 3 - curlvl[c])
  /\ pc[c] = "free_root" => /\ space[p].root \in Pool /\ own[space[p].root] = p
                            /\ lev[space[p].root] \in {0, 5}

(* Processor c runs on a root that maps the kernel.                        *)
Loaded(lev, c) ==
  \/ cr3[c] = KernelRoot
  \/ cr3[c] \in Pool /\ lev[cr3[c]] = 6
  \/ \E p \in ready : cr3[c] = space[p].root

Ownership(own, lev) ==
  /\ own \in [Pool -> Processes \cup {None}] /\ lev \in [Pool -> -1 .. 6]
  /\ \A f \in free : lev[f] = -1
  /\ Tree(own, lev, mem) /\ Rooted(lev, mem)
  /\ \A p \in ready : Complete(own, lev, mem, p)
  /\ \A c \in Cpus : Busy(c) => Making(own, lev, mem, c, proc[c])
  /\ \A c \in up : pc[c] # "lost" => Loaded(lev, c)

Inv == /\ TypeOK /\ Control /\ Kernel
       /\ \E own \in [Pool -> Processes \cup {None}], lev \in [Pool -> -1 .. 6] : Ownership(own, lev)
-----------------------------------------------------------------------------
LEMMA RemainderFacts == ASSUME NEW a \in Nat, NEW b \in Nat, b > 0 PROVE a % b \in 0 .. b - 1
OBVIOUS

LEMMA QuotientFacts == ASSUME NEW a \in Nat, NEW b \in Nat, b > 0 PROVE a \div b \in Nat
OBVIOUS

LEMMA ProductFacts ==
  ASSUME NEW a \in Nat, NEW b \in Nat, a > 0, b > 0 PROVE a * b \in Nat /\ a * b > 0
OBVIOUS

LEMMA IndexFacts ==
  /\ S1 \in Lower /\ S1 \in Index /\ S2 \in Index /\ S3 \in Index
  /\ Lower \subseteq Index /\ 0 \in Lower
  /\ \A n : Own(n) \subseteq Index
<1>1. Slots \in Nat /\ Slots > 0 /\ PAGESIZE \in Nat /\ PAGESIZE > 0 /\ STACK_TOP \in Nat
  BY MmuAssumption
<1>2. PAGESIZE * Slots \in Nat /\ PAGESIZE * Slots > 0
  BY <1>1, ProductFacts
<1>3. PAGESIZE * Slots * Slots \in Nat /\ PAGESIZE * Slots * Slots > 0
  BY <1>1, <1>2, ProductFacts
<1>4. /\ S1 = (STACK_TOP \div (PAGESIZE * Slots * Slots)) % Slots
      /\ S2 = (STACK_TOP \div (PAGESIZE * Slots)) % Slots
      /\ S3 = (STACK_TOP \div PAGESIZE) % Slots
  BY DEF S1, S2, S3, pmap_get_index, PML1, PML2, PML3, PML4
<1>5. S1 \in Index
  <2>1. STACK_TOP \div (PAGESIZE * Slots * Slots) \in Nat
    BY <1>1, <1>3, QuotientFacts
  <2> QED
    BY <1>1, <1>4, <2>1, RemainderFacts DEF Index
<1>6. S2 \in Index
  <2>1. STACK_TOP \div (PAGESIZE * Slots) \in Nat
    BY <1>1, <1>2, QuotientFacts
  <2> QED
    BY <1>1, <1>4, <2>1, RemainderFacts DEF Index
<1>7. S3 \in Index
  <2>1. STACK_TOP \div PAGESIZE \in Nat
    BY <1>1, QuotientFacts
  <2> QED
    BY <1>1, <1>4, <2>1, RemainderFacts DEF Index
<1>8. S1 \in Lower
  BY <1>5, StackAssumption DEF S1, Lower
<1>9. Lower \subseteq Index /\ \A n : Own(n) \subseteq Index
  BY DEF Lower, Own
<1>10. 0 \in Lower
  BY MmuAssumption DEF Lower, Index
<1> QED
  BY <1>5, <1>6, <1>7, <1>8, <1>9, <1>10

(* Frame f, which nobody referred to, becomes level n of q with nothing    *)
(* below it.                                                               *)
Placed(own, lev, m, own2, lev2, m2, f, q, n) ==
  /\ own \in [Pool -> Processes \cup {None}] /\ lev \in [Pool -> -1 .. 6]
  /\ f \in Pool /\ q \in Processes \cup {None} /\ n \in 0 .. 6
  /\ own2 = [own EXCEPT ![f] = q] /\ lev2 = [lev EXCEPT ![f] = n]
  /\ lev[f] = -1 /\ \A g \in Pool \ {f} : m2[g] = m[g]
  /\ \A i \in Index \ Lower : m2[KernelRoot][i] = m[KernelRoot][i]
  /\ n \in {0, 6} => \A i \in Index \ Lower : m2[f][i] = m2[KernelRoot][i]
  /\ n = 6 => \A i \in Lower : m2[f][i] = None
  /\ n \in 0 .. 3 => \A i \in Own(n) : m2[f][i] = None
  /\ Tree(own, lev, m) /\ Rooted(lev, m)

LEMMA Fresh ==
  ASSUME NEW own, NEW lev, NEW m, NEW own2, NEW lev2, NEW m2, NEW f, NEW q, NEW n,
         Placed(own, lev, m, own2, lev2, m2, f, q, n)
  PROVE  /\ own2 \in [Pool -> Processes \cup {None}] /\ lev2 \in [Pool -> -1 .. 6]
         /\ Is(own2, lev2, f, q, n)
         /\ \A g \in Pool \ {f} : own2[g] = own[g] /\ lev2[g] = lev[g]
         /\ Tree(own2, lev2, m2) /\ Rooted(lev2, m2)
         /\ \A g, p : \A x \in 0 .. 6 : Is(own, lev, g, p, x) => g # f /\ Is(own2, lev2, g, p, x)
         /\ \A p, r, t : \A x \in 0 .. 4 :
              Linked(own, lev, m, p, r, t, x) /\ Is(own, lev, r, p, 0)
                => Linked(own2, lev2, m2, p, r, t, x)
<1> USE DEF Placed
<1>1. own2 \in [Pool -> Processes \cup {None}] /\ lev2 \in [Pool -> -1 .. 6]
  OBVIOUS
<1>2. own2[f] = q /\ lev2[f] = n /\ \A g \in Pool \ {f} : own2[g] = own[g] /\ lev2[g] = lev[g]
  OBVIOUS
<1>3. Is(own2, lev2, f, q, n)
  BY <1>2 DEF Is
<1>4. ASSUME NEW g, NEW p, NEW x \in 0 .. 6, Is(own, lev, g, p, x)
      PROVE  g \in Pool /\ g # f /\ Is(own2, lev2, g, p, x)
  <2>1. g \in Pool /\ own[g] = p /\ lev[g] = x
    BY <1>4 DEF Is
  <2>2. g # f
    BY <2>1
  <2> QED
    BY <1>2, <2>1, <2>2 DEF Is
<1>5. Tree(own2, lev2, m2)
  <2> SUFFICES ASSUME NEW g \in Pool, lev2[g] \in 0 .. 3, NEW i \in Own(lev2[g]), m2[g][i] # None
               PROVE  /\ m2[g][i] \in Pool /\ own2[m2[g][i]] = own2[g]
                      /\ lev2[m2[g][i]] = lev2[g] + 1
    BY DEF Tree
  <2>1. g # f
    BY <1>2
  <2>2. lev2[g] = lev[g] /\ own2[g] = own[g] /\ m2[g] = m[g]
    BY <1>2, <2>1
  <2> DEFINE e == m[g][i]
  <2>3. e \in Pool /\ own[e] = own[g] /\ lev[e] = lev[g] + 1
    BY <2>2 DEF Tree
  <2>4. e # f
    BY <2>2, <2>3
  <2> HIDE DEF e
  <2>5. own2[e] = own2[g] /\ lev2[e] = lev2[g] + 1
    BY <1>2, <2>2, <2>3, <2>4
  <2> QED
    BY <2>2, <2>3, <2>5 DEF e
<1>6. Rooted(lev2, m2)
  <2>1. ASSUME NEW g \in Pool, lev2[g] \in {0, 6}, NEW i \in Index \ Lower
        PROVE  m2[g][i] = m2[KernelRoot][i]
    <3>1. CASE g = f
      BY <1>2, <2>1, <3>1
    <3>2. CASE g # f
      BY <1>2, <2>1, <3>2 DEF Rooted
    <3> QED
      BY <3>1, <3>2
  <2>2. ASSUME NEW g \in Pool, lev2[g] = 6, NEW i \in Lower PROVE m2[g][i] = None
    <3>1. CASE g = f
      BY <1>2, <2>2, <3>1
    <3>2. CASE g # f
      BY <1>2, <2>2, <3>2 DEF Rooted
    <3> QED
      BY <3>1, <3>2
  <2> QED
    BY <2>1, <2>2 DEF Rooted
<1>7. ASSUME NEW p, NEW r, NEW t, NEW x \in 0 .. 4,
             Linked(own, lev, m, p, r, t, x), Is(own, lev, r, p, 0)
      PROVE  Linked(own2, lev2, m2, p, r, t, x)
  <2>1. ASSUME NEW a \in Pool, lev[a] # -1 PROVE a # f /\ m2[a] = m[a] /\ own2[a] = own[a] /\ lev2[a] = lev[a]
    BY <1>2, <2>1
  <2>2. r \in Pool /\ m2[r] = m[r]
    BY <1>7, <2>1 DEF Is
  <2>3. \A a : \A y \in {1, 2, 3} : Is(own, lev, a, p, y) => Is(own2, lev2, a, p, y) /\ m2[a] = m[a]
    BY <2>1 DEF Is
  <2>4. CASE x = 0
    BY <1>7, <2>4 DEF Linked
  <2>5. CASE x = 1
    BY <1>7, <2>2, <2>5 DEF Linked
  <2>6. CASE x = 2
    BY <1>7, <2>2, <2>3, <2>6 DEF Linked, Is
  <2>7. CASE x = 3
    BY <1>7, <2>2, <2>3, <2>7 DEF Linked, Is
  <2>8. CASE x = 4
    BY <1>7, <2>2, <2>3, <2>8 DEF Linked, Is
  <2> QED
    BY <2>4, <2>5, <2>6, <2>7, <2>8
<1> QED
  BY <1>1, <1>2, <1>3, <1>4, <1>5, <1>6, <1>7

(* Table T of process p gets an entry, at a slot that was empty, for a     *)
(* frame of p one level further.                                           *)
Added(own, lev, m, m2, p, T, f, i) ==
  /\ own \in [Pool -> Processes \cup {None}] /\ lev \in [Pool -> -1 .. 6] /\ m \in Contents
  /\ T \in Pool /\ f \in Pool /\ i \in Own(lev[T]) /\ lev[T] \in 0 .. 3 /\ own[T] = p
  /\ Is(own, lev, f, p, lev[T] + 1) /\ m[T][i] = None /\ m2 = [m EXCEPT ![T][i] = f]
  /\ Tree(own, lev, m) /\ Rooted(lev, m)

LEMMA Link ==
  ASSUME NEW own, NEW lev, NEW m, NEW m2, NEW p, NEW T, NEW f, NEW i,
         Added(own, lev, m, m2, p, T, f, i)
  PROVE  /\ m2 \in Contents /\ m2[T][i] = f /\ \A g \in Frames \ {T} : m2[g] = m[g]
         /\ Tree(own, lev, m2) /\ Rooted(lev, m2)
         /\ \A q, r : \A t \in Pool : \A x \in 0 .. 4 :
              Linked(own, lev, m, q, r, t, x) /\ Is(own, lev, r, q, 0)
                => Linked(own, lev, m2, q, r, t, x)
<1> USE DEF Added
<1>1. i \in Index /\ T \in Frames /\ f \in Frames /\ KernelRoot \in Frames /\ KernelRoot # T
  BY IndexFacts, LoaderAssumption DEF Frames, Loader
<1>2. m2 \in Contents /\ m2[T][i] = f /\ \A g \in Frames \ {T} : m2[g] = m[g]
  BY <1>1 DEF Contents
<1>3. \A j \in Index : j # i => m2[T][j] = m[T][j]
  BY <1>1 DEF Contents
<1>4. Tree(own, lev, m2)
  <2> SUFFICES ASSUME NEW g \in Pool, lev[g] \in 0 .. 3, NEW j \in Own(lev[g]), m2[g][j] # None
               PROVE  /\ m2[g][j] \in Pool /\ own[m2[g][j]] = own[g]
                      /\ lev[m2[g][j]] = lev[g] + 1
    BY DEF Tree
  <2>1. CASE g = T /\ j = i
    BY <1>2, <2>1 DEF Is
  <2>2. CASE ~(g = T /\ j = i)
    <3>1. m2[g][j] = m[g][j]
      BY <1>2, <1>3, <2>2, IndexFacts DEF Frames
    <3> QED
      BY <3>1 DEF Tree
  <2> QED
    BY <2>1, <2>2
<1>5. Rooted(lev, m2)
  <2>1. ASSUME NEW g \in Pool, lev[g] \in {0, 6}, NEW j \in Index \ Lower
        PROVE  m2[g][j] = m2[KernelRoot][j]
    <3>1. m[g][j] = m[KernelRoot][j] /\ m2[KernelRoot] = m[KernelRoot]
      BY <1>1, <1>2, <2>1 DEF Rooted
    <3>2. m2[g][j] = m[g][j]
      <4>1. CASE g = T
        <5>1. lev[T] = 0
          BY <2>1, <4>1
        <5> QED
          BY <1>3, <2>1, <4>1, <5>1 DEF Own
      <4>2. CASE g # T
        BY <1>2, <4>2 DEF Frames
      <4> QED
        BY <4>1, <4>2
    <3> QED
      BY <3>1, <3>2
  <2>2. ASSUME NEW g \in Pool, lev[g] = 6, NEW j \in Lower PROVE m2[g][j] = None
    <3>1. g # T
      BY <2>2
    <3> QED
      BY <1>2, <2>2, <3>1 DEF Rooted, Frames
  <2> QED
    BY <2>1, <2>2 DEF Rooted
<1>6. \A g \in Pool : \A j \in Index : m[g][j] \in Pool => m2[g][j] = m[g][j]
  <2>1. None \notin Pool
    BY MmuAssumption
  <2> QED
    BY <1>2, <1>3, <2>1 DEF Frames
<1>7. ASSUME NEW q, NEW r, NEW t \in Pool, NEW x \in 0 .. 4,
             Linked(own, lev, m, q, r, t, x), Is(own, lev, r, q, 0)
      PROVE  Linked(own, lev, m2, q, r, t, x)
  <2>1. r \in Pool
    BY <1>7 DEF Is
  <2> QED
    BY <1>6, <1>7, <2>1, IndexFacts DEF Linked
<1> QED
  BY <1>2, <1>4, <1>5, <1>7

(* Process p gives up its frames, but perhaps for its root.                *)
LEMMA Drop ==
  ASSUME NEW own \in [Pool -> Processes \cup {None}], NEW lev \in [Pool -> -1 .. 6], NEW m,
         NEW p, NEW lev2 \in [Pool -> -1 .. 6],
         \A f \in Pool : own[f] = p => lev2[f] \in {-1, 5} \/ (lev2[f] = 6 /\ lev[f] = 6),
         \A f \in Pool : own[f] # p => lev2[f] = lev[f],
         Tree(own, lev, m), Rooted(lev, m)
  PROVE  Tree(own, lev2, m) /\ Rooted(lev2, m)
<1>1. Tree(own, lev2, m)
  <2> SUFFICES ASSUME NEW g \in Pool, lev2[g] \in 0 .. 3, NEW j \in Own(lev2[g]), m[g][j] # None
               PROVE  /\ m[g][j] \in Pool /\ own[m[g][j]] = own[g]
                      /\ lev2[m[g][j]] = lev2[g] + 1
    BY DEF Tree
  <2>1. own[g] # p /\ lev2[g] = lev[g]
    OBVIOUS
  <2>2. m[g][j] \in Pool /\ own[m[g][j]] = own[g] /\ lev[m[g][j]] = lev[g] + 1
    BY <2>1 DEF Tree
  <2> QED
    BY <2>1, <2>2
<1>2. Rooted(lev2, m)
  <2>1. \A f \in Pool : lev2[f] \in {0, 6} => lev2[f] = lev[f]
    OBVIOUS
  <2> QED
    BY <2>1 DEF Rooted
<1> QED
  BY <1>1, <1>2

(* The slot a table of level n has its entry for the stack in.             *)
Slot(n) == CASE n = 0 -> S1 [] n = 1 -> S2 [] OTHER -> S3

LEMMA Extend ==
  ASSUME NEW own, NEW lev, NEW m, NEW p, NEW r, NEW T \in Pool, NEW f, NEW n \in 0 .. 3,
         Linked(own, lev, m, p, r, T, n), Is(own, lev, T, p, n), m[T][Slot(n)] = f
  PROVE  Linked(own, lev, m, p, r, f, n + 1)
<1>1. CASE n = 0
  BY <1>1 DEF Linked, Slot
<1>2. CASE n = 1
  BY <1>2 DEF Linked, Slot
<1>3. CASE n = 2
  BY <1>3 DEF Linked, Slot
<1>4. CASE n = 3
  BY <1>4 DEF Linked, Slot
<1> QED
  BY <1>1, <1>2, <1>3, <1>4

LEMMA SlotFacts ==
  /\ \A n \in 0 .. 3 : Slot(n) \in Own(n) /\ Slot(n) \in Index
  /\ \A k \in 1 .. 3 : pmap_get_index(STACK_TOP, k - 1) = Slot(3 - k)
  /\ pmap_get_index(STACK_TOP, PML1) = Slot(3)
<1>1. \A n \in 0 .. 3 : Slot(n) \in Own(n) /\ Slot(n) \in Index
  BY IndexFacts DEF Slot, Own
<1>2. ASSUME NEW k \in 1 .. 3 PROVE pmap_get_index(STACK_TOP, k - 1) = Slot(3 - k)
  <2>1. CASE k = 1
    BY <2>1 DEF Slot, S3, PML1
  <2>2. CASE k = 2
    BY <2>2 DEF Slot, S2, PML2
  <2>3. CASE k = 3
    BY <2>3 DEF Slot, S1, PML3
  <2> QED
    BY <2>1, <2>2, <2>3
<1>3. pmap_get_index(STACK_TOP, PML1) = Slot(3)
  BY DEF Slot, S3
<1> QED
  BY <1>1, <1>2, <1>3

(* The frames of process q are as they were.                               *)
Keeps(own, lev, m, own2, lev2, m2, q) ==
  \A g \in Pool : own[g] = q /\ lev[g] # -1 =>
    own2[g] = own[g] /\ lev2[g] = lev[g] /\ m2[g] = m[g]

LEMMA CarryChain ==
  ASSUME NEW own, NEW lev, NEW m, NEW own2, NEW lev2, NEW m2, NEW q, NEW r, NEW t,
         NEW n \in 0 .. 4,
         Keeps(own, lev, m, own2, lev2, m2, q), Is(own, lev, r, q, 0),
         Linked(own, lev, m, q, r, t, n)
  PROVE  Linked(own2, lev2, m2, q, r, t, n)
<1>1. r \in Pool /\ m2[r] = m[r]
  BY DEF Is, Keeps
<1>2. \A a : \A y \in {1, 2, 3} : Is(own, lev, a, q, y) => Is(own2, lev2, a, q, y) /\ m2[a] = m[a]
  BY DEF Is, Keeps
<1>3. CASE n = 0
  BY <1>3 DEF Linked
<1>4. CASE n = 1
  BY <1>1, <1>4 DEF Linked
<1>5. CASE n = 2
  BY <1>1, <1>2, <1>5 DEF Linked, Is
<1>6. CASE n = 3
  BY <1>1, <1>2, <1>6 DEF Linked, Is
<1>7. CASE n = 4
  BY <1>1, <1>2, <1>7 DEF Linked, Is
<1> QED
  BY <1>3, <1>4, <1>5, <1>6, <1>7

(* What is complete stays complete, and a processor that did not step goes *)
(* on making its process, when their frames are as they were.              *)
LEMMA Carry ==
  ASSUME TypeOK, NEW own, NEW lev, NEW own2, NEW lev2, NEW q \in Processes,
         Keeps(own, lev, mem, own2, lev2, mem', q), space'[q] = space[q]
  PROVE  /\ Complete(own, lev, mem, q) => Complete(own2, lev2, mem, q)'
         /\ \A d \in Cpus : /\ pc'[d] = pc[d] /\ table'[d] = table[d] /\ curlvl'[d] = curlvl[d]
                            /\ Making(own, lev, mem, d, q)
                            => Making(own2, lev2, mem, d, q)'
<1>2. ASSUME Complete(own, lev, mem, q) PROVE Complete(own2, lev2, mem, q)'
  <2>1. /\ Is(own, lev, space[q].root, q, 0) /\ Is(own, lev, space[q].stack, q, 4)
        /\ Linked(own, lev, mem, q, space[q].root, space[q].stack, 4)
    BY <1>2 DEF Complete
  <2>2. Is(own2, lev2, space[q].root, q, 0) /\ Is(own2, lev2, space[q].stack, q, 4)
    BY <2>1 DEF Is, Keeps
  <2>3. Linked(own2, lev2, mem', q, space[q].root, space[q].stack, 4)
    BY <2>1, CarryChain
  <2> QED
    BY <2>2, <2>3 DEF Complete
<1>3. ASSUME NEW d \in Cpus, pc'[d] = pc[d], table'[d] = table[d], curlvl'[d] = curlvl[d],
             Making(own, lev, mem, d, q)
      PROVE  Making(own2, lev2, mem, d, q)'
  <2>1. pc'[d] \in {"stack", "descend", "free_stack"} =>
          Is(own2, lev2, space'[q].root, q, 0) /\ Is(own, lev, space[q].root, q, 0)
    BY <1>3 DEF Making, Is, Keeps
  <2>2. pc'[d] = "stack" => \A i \in Lower : mem'[space'[q].root][i] = None
    BY <1>3 DEF Making, Is, Keeps
  <2>3. pc'[d] \in {"descend", "free_stack"} => Is(own2, lev2, space'[q].stack, q, 4)
    BY <1>3 DEF Making, Is, Keeps
  <2>4. ASSUME pc'[d] = "descend"
        PROVE  /\ Is(own2, lev2, table'[d], q, 3 - curlvl'[d])
               /\ \A i \in Own(3 - curlvl'[d]) : mem'[table'[d]][i] = None
               /\ Linked(own2, lev2, mem', q, space'[q].root, table'[d], 3 - curlvl'[d])
    <3>1. curlvl[d] \in 0 .. 3
      BY DEF TypeOK
    <3> DEFINE n == 3 - curlvl[d]
    <3>2. n \in 0 .. 3
      BY <3>1
    <3>3. /\ Is(own, lev, table[d], q, n) /\ \A i \in Own(n) : mem[table[d]][i] = None
          /\ Linked(own, lev, mem, q, space[q].root, table[d], n)
      BY <1>3, <2>4 DEF Making
    <3>4. Is(own, lev, space[q].root, q, 0)
      BY <1>3, <2>4 DEF Making
    <3> HIDE DEF n
    <3>5. Linked(own2, lev2, mem', q, space[q].root, table[d], n)
      BY <3>2, <3>3, <3>4, CarryChain
    <3>6. Is(own2, lev2, table[d], q, n) /\ mem'[table[d]] = mem[table[d]]
      BY <3>2, <3>3 DEF Is, Keeps
    <3> QED
      BY <1>3, <3>3, <3>5, <3>6 DEF n
  <2>5. pc'[d] = "free_root" => /\ space'[q].root \in Pool /\ own2[space'[q].root] = q
                                /\ lev2[space'[q].root] \in {0, 5}
    BY <1>3 DEF Making, Keeps
  <2> QED
    BY <2>1, <2>2, <2>3, <2>4, <2>5 DEF Making
<1> QED
  BY <1>2, <1>3

(* A step of processor c for process P leaves the rest as it is.           *)
Aside(own, lev, own2, lev2, c, P) ==
  /\ \A q \in Processes \ {P} : Keeps(own, lev, mem, own2, lev2, mem', q) /\ space'[q] = space[q]
  /\ \A d \in Cpus \ {c} : /\ pc'[d] = pc[d] /\ table'[d] = table[d] /\ curlvl'[d] = curlvl[d]
                           /\ proc'[d] = proc[d] /\ (proc[d] = None \/ proc[d] # P)
  /\ P \notin ready /\ ready \subseteq ready'
  /\ \A g \in Pool : lev[g] = 6 => lev2[g] = 6

LEMMA Others ==
  ASSUME TypeOK, Control, NEW own, NEW lev, Ownership(own, lev), NEW own2, NEW lev2,
         NEW c \in Cpus, NEW P, Aside(own, lev, own2, lev2, c, P)
  PROVE  /\ \A p \in ready : Complete(own2, lev2, mem, p)'
         /\ \A d \in Cpus \ {c} : Busy(d)' => Making(own2, lev2, mem, d, proc[d])'
         /\ \A d \in up : pc[d] # "lost" /\ cr3'[d] = cr3[d] => Loaded(lev2, d)'
<1> USE DEF Aside
<1>1. ready \subseteq Processes /\ up \subseteq Cpus /\ proc \in [Cpus -> Processes \cup {None}]
  BY DEF TypeOK
<1>2. ASSUME NEW p \in ready PROVE Complete(own2, lev2, mem, p)'
  <2>1. p \in Processes \ {P} /\ Complete(own, lev, mem, p)
    BY <1>1, <1>2 DEF Ownership
  <2> QED
    BY <2>1, Carry
<1>3. ASSUME NEW d \in Cpus \ {c}, Busy(d)' PROVE Making(own2, lev2, mem, d, proc[d])'
  <2>1. Busy(d)
    BY <1>3 DEF Busy
  <2>2. PICK q : q = proc[d]
    OBVIOUS
  <2>3. q # None /\ Making(own, lev, mem, d, q)
    BY <2>1, <2>2 DEF Control, Ownership
  <2>4. q \in Processes \ {P}
    BY <1>1, <2>2, <2>3
  <2>5. Making(own2, lev2, mem, d, q)'
    BY <2>3, <2>4, Carry
  <2>6. proc'[d] = q
    BY <2>2
  <2> QED
    BY <2>5, <2>6
<1>4. ASSUME NEW d \in up, pc[d] # "lost", cr3'[d] = cr3[d] PROVE Loaded(lev2, d)'
  <2>1. Loaded(lev, d)
    BY <1>4 DEF Ownership
  <2>2. \A p \in ready : p \in ready' /\ space'[p] = space[p]
    BY <1>1
  <2> QED
    BY <1>4, <2>1, <2>2 DEF Loaded
<1> QED
  BY <1>2, <1>3, <1>4

(* KernelMapped's part of the ownership.                                   *)
LEMMA RootFacts ==
  ASSUME TypeOK, Kernel, Control, NEW own \in [Pool -> Processes \cup {None}],
         NEW lev \in [Pool -> -1 .. 6], Ownership(own, lev), NEW c \in up, pc[c] # "lost"
  PROVE  /\ cr3[c] \in Frames /\ cr3[c] \notin free
         /\ \A i \in Index \ Lower : mem[cr3[c]][i] = mem[KernelRoot][i]
         /\ \A i \in Lower : mem[cr3[c]][i] \in Pool \cup {None}
<1>1. KernelRoot \in Frames /\ KernelRoot \notin Pool /\ Pool \subseteq Frames /\ free \subseteq Pool
  BY LoaderAssumption DEF Frames, Loader, TypeOK
<1>2. CASE cr3[c] = KernelRoot
  <2>1. BSP \in up
    <3>1. CASE pc[BSP] = "boot"
      <4>1. c \in Cpus /\ BSP \in Cpus
        BY MmuAssumption DEF TypeOK
      <4>2. pc[c] \in {"boot", "off"}
        BY <3>1, <4>1 DEF Control
      <4> QED
        BY <4>1, <4>2 DEF Control
    <3>2. CASE pc[BSP] # "boot"
      BY <3>2 DEF Control
    <3> QED
      BY <3>1, <3>2
  <2> QED
    BY <1>1, <1>2, <2>1 DEF Kernel
<1>3. CASE cr3[c] \in Pool /\ lev[cr3[c]] = 6
  <2>1. cr3[c] \notin free
    BY <1>3 DEF Ownership
  <2> QED
    BY <1>1, <1>3, <2>1 DEF Ownership, Rooted
<1>4. CASE \E p \in ready : cr3[c] = space[p].root
  <2>1. PICK p \in ready : cr3[c] = space[p].root
    BY <1>4
  <2>2. cr3[c] \in Pool /\ lev[cr3[c]] = 0
    BY <2>1 DEF Ownership, Complete, Is
  <2>3. cr3[c] \notin free
    BY <2>2 DEF Ownership
  <2>4. \A i \in Lower : mem[cr3[c]][i] \in Pool \cup {None}
    BY <2>2 DEF Ownership, Tree, Own
  <2>5. \A i \in Index \ Lower : mem[cr3[c]][i] = mem[KernelRoot][i]
    BY <2>2 DEF Ownership, Rooted
  <2> QED
    BY <1>1, <2>2, <2>3, <2>4, <2>5
<1> QED
  BY <1>2, <1>3, <1>4 DEF Ownership, Loaded
-----------------------------------------------------------------------------
LEMMA InitInv == Init => Inv
<1> SUFFICES ASSUME Init PROVE Inv
  OBVIOUS
<1> DEFINE own == [f \in Pool |-> None]
           lev == [f \in Pool |-> -1]
<1>1. own \in [Pool -> Processes \cup {None}] /\ lev \in [Pool -> -1 .. 6]
  OBVIOUS
<1>2. TypeOK
  <2>1. mem \in Contents
    <3>1. KernelTable \in Frames /\ LoaderTable \in Frames
      BY DEF Frames, Loader
    <3> QED
      BY <3>1 DEF Init, Contents, Zeroed
  <2>2. KernelRoot \in Frames
    BY DEF Frames, Loader
  <2> QED
    BY <2>1, <2>2 DEF Init, TypeOK, NoSpace, Locations
<1>3. Control
  BY MmuAssumption DEF Init, Control, Busy
<1>4. Kernel
  BY DEF Init, Kernel
<1>5. Ownership(own, lev)
  <2>1. \A f \in Pool : lev[f] = -1
    OBVIOUS
  <2> HIDE DEF lev, own
  <2>2. Tree(own, lev, mem) /\ Rooted(lev, mem)
    BY <2>1 DEF Tree, Rooted
  <2>3. ready = {} /\ up = {} /\ \A c \in Cpus : ~Busy(c)
    BY DEF Init, Busy
  <2>4. free = Pool
    BY DEF Init
  <2> QED
    BY <1>1, <2>1, <2>2, <2>3, <2>4 DEF Ownership
<1> HIDE DEF own, lev
<1> QED
  BY <1>1, <1>2, <1>3, <1>4, <1>5 DEF Inv

LEMMA BootInv ==
  ASSUME TypeOK, Control, Kernel, NEW own \in [Pool -> Processes \cup {None}],
         NEW lev \in [Pool -> -1 .. 6], Ownership(own, lev), mu_pmap_init
  PROVE  Inv'
<1>1. /\ pc[BSP] = "boot" /\ pc' = [pc EXCEPT ![BSP] = "idle"]
      /\ mem' = [mem EXCEPT ![cr3[BSP]] = [i \in Index |-> IF i \in Lower THEN None ELSE @[i]]]
      /\ up' = up \cup {BSP}
      /\ UNCHANGED <<free, cr3, space, ready, failed, proc, table, curlvl, dest>>
  BY DEF mu_pmap_init, Goto, mu_pmap_readvas, spaceVars, locals
<1>2. BSP \in Cpus /\ cr3[BSP] = KernelRoot /\ \A c \in Cpus \ {BSP} : pc[c] = "off"
  BY <1>1, MmuAssumption DEF Control
<1>3. KernelRoot \in Frames /\ KernelRoot \notin Pool
  BY LoaderAssumption DEF Frames, Loader
<1>4. mem \in Contents /\ pc \in [Cpus -> Locations] /\ up \subseteq Cpus
  BY DEF TypeOK
<1>5. /\ mem' \in Contents /\ \A i \in Lower : mem'[KernelRoot][i] = None
      /\ \A i \in Index \ Lower : mem'[KernelRoot][i] = mem[KernelRoot][i]
      /\ \A g \in Pool : mem'[g] = mem[g]
  BY <1>1, <1>2, <1>3, <1>4, IndexFacts DEF Contents, Frames
<1>6. pc' \in [Cpus -> Locations] /\ pc'[BSP] = "idle" /\ \A c \in Cpus \ {BSP} : pc'[c] = "off"
  BY <1>1, <1>2, <1>4 DEF Locations
<1>7. TypeOK'
  BY <1>1, <1>2, <1>5, <1>6 DEF TypeOK
<1>8. \A c \in Cpus : ~Busy(c)' /\ ~Busy(c)
  BY <1>1, <1>2, <1>6 DEF Busy
<1>9. up = {} /\ up' = {BSP}
  BY <1>1, <1>2, <1>4 DEF Control
<1>10. Control'
  <2>1. \A c \in Cpus : proc'[c] = None
    BY <1>1, <1>8 DEF Control
  <2> QED
    BY <1>2, <1>6, <1>8, <1>9, <2>1 DEF Control
<1>11. Kernel'
  BY <1>2, <1>5, <1>6 DEF Kernel
<1>12. Ownership(own, lev)'
  <2>1. Tree(own, lev, mem')
    BY <1>5 DEF Ownership, Tree
  <2>2. Rooted(lev, mem')
    BY <1>5 DEF Ownership, Rooted
  <2>3. \A p \in ready : Complete(own, lev, mem, p)'
    <3>1. \A q \in Processes : Keeps(own, lev, mem, own, lev, mem', q) /\ space'[q] = space[q]
      BY <1>1, <1>5 DEF Keeps
    <3> QED
      BY <3>1, Carry DEF TypeOK, Ownership
  <2>4. Loaded(lev, BSP)'
    BY <1>1, <1>2 DEF Loaded
  <2> QED
    BY <1>1, <1>8, <1>9, <2>1, <2>2, <2>3, <2>4 DEF Ownership
<1> QED
  BY <1>7, <1>10, <1>11, <1>12 DEF Inv

LEMMA StartInv ==
  ASSUME TypeOK, Control, Kernel, NEW own \in [Pool -> Processes \cup {None}],
         NEW lev \in [Pool -> -1 .. 6], Ownership(own, lev), NEW c \in Cpus, cpu_start(c)
  PROVE  Inv'
<1>1. /\ BSP \in up /\ pc[BSP] = "idle" /\ pc[c] = "off" /\ pc' = [pc EXCEPT ![c] = "fork"]
      /\ mem' = [mem EXCEPT ![BootRoot] = [mem[cr3[BSP]] EXCEPT ![0] = BootTable]]
      /\ cr3' = [cr3 EXCEPT ![c] = BootRoot]
      /\ UNCHANGED <<free, up, space, ready, failed, proc, table, curlvl, dest>>
  BY DEF cpu_start, Goto, mu_pmap_readvas, spaceVars, locals
<1>2. BSP \in Cpus /\ c # BSP /\ c \notin up /\ proc[c] = None /\ ~Busy(c)
  BY <1>1, MmuAssumption DEF Control, Busy
<1>3. /\ KernelRoot \in Frames /\ KernelRoot \notin Pool /\ BootRoot \in Frames /\ BootRoot \notin Pool
      /\ BootTable \in Frames /\ BootRoot # KernelRoot
  BY LoaderAssumption DEF Frames, Loader
<1>4. /\ mem \in Contents /\ pc \in [Cpus -> Locations] /\ up \subseteq Cpus
      /\ cr3 \in [Cpus -> Frames \cup {None}]
  BY DEF TypeOK
<1>5. cr3[BSP] \in Frames /\ \A i \in Index \ Lower : mem[cr3[BSP]][i] = mem[KernelRoot][i]
  BY <1>1, RootFacts
<1>6. mem[cr3[BSP]] \in [Index -> Frames \cup {None}]
  BY <1>4, <1>5 DEF Contents
<1>7. /\ mem' \in Contents /\ mem'[KernelRoot] = mem[KernelRoot] /\ \A g \in Pool : mem'[g] = mem[g]
      /\ mem'[BootRoot] = [mem[cr3[BSP]] EXCEPT ![0] = BootTable]
  BY <1>1, <1>3, <1>4, <1>6 DEF Contents, Frames
<1>8. \A i \in Index \ Lower : mem'[BootRoot][i] = mem'[KernelRoot][i]
  BY <1>5, <1>6, <1>7, IndexFacts
<1>9. /\ pc' \in [Cpus -> Locations] /\ pc'[c] = "fork" /\ \A d \in Cpus \ {c} : pc'[d] = pc[d]
      /\ cr3' \in [Cpus -> Frames \cup {None}] /\ cr3'[c] = BootRoot
      /\ \A d \in Cpus \ {c} : cr3'[d] = cr3[d]
  BY <1>1, <1>3, <1>4 DEF Locations
<1>10. TypeOK'
  BY <1>1, <1>7, <1>9 DEF TypeOK
<1>11. ~Busy(c)' /\ \A d \in Cpus : Busy(d)' <=> Busy(d)
  BY <1>2, <1>9 DEF Busy
<1>12. Control'
  BY <1>1, <1>2, <1>9, <1>11 DEF Control
<1>13. Kernel'
  BY <1>1, <1>3, <1>7, <1>8, <1>9 DEF Kernel
<1>14. Ownership(own, lev)'
  <2>1. Tree(own, lev, mem')
    BY <1>7 DEF Ownership, Tree
  <2>2. Rooted(lev, mem')
    BY <1>7 DEF Ownership, Rooted
  <2>3. \A q \in Processes : Keeps(own, lev, mem, own, lev, mem', q) /\ space'[q] = space[q]
    BY <1>1, <1>7 DEF Keeps
  <2>4. None \notin ready
    BY MmuAssumption DEF TypeOK
  <2>5. /\ \A p \in ready : Complete(own, lev, mem, p)'
        /\ \A d \in Cpus \ {c} : Busy(d)' => Making(own, lev, mem, d, proc[d])'
        /\ \A d \in up : pc[d] # "lost" /\ cr3'[d] = cr3[d] => Loaded(lev, d)'
    <3>1. Aside(own, lev, own, lev, c, None)
      BY <1>1, <1>9, <2>3, <2>4 DEF Aside
    <3> QED
      BY <3>1, Others
  <2> QED
    BY <1>1, <1>2, <1>4, <1>9, <1>11, <2>1, <2>2, <2>5 DEF Ownership
<1> QED
  BY <1>10, <1>12, <1>13, <1>14 DEF Inv

LEMMA ForkFacts ==
  ASSUME TypeOK, NEW r \in Frames,
         \A i \in Index \ Lower : mem[r][i] = mem[KernelRoot][i]
  PROVE  /\ Fork(r) \in [Index -> Frames \cup {None}]
         /\ \A i \in Lower : Fork(r)[i] = None
         /\ \A i \in Index \ Lower : Fork(r)[i] = mem[KernelRoot][i]
<1>1. mem[r] \in [Index -> Frames \cup {None}]
  BY DEF TypeOK, Contents
<1>2. \A i \in Index : Fork(r)[i] = IF i \in Lower THEN None ELSE mem[r][i]
  BY DEF Fork, Lower
<1> QED
  BY <1>1, <1>2, IndexFacts DEF Fork

LEMMA CleanInv ==
  ASSUME TypeOK, Control, Kernel, NEW own \in [Pool -> Processes \cup {None}],
         NEW lev \in [Pool -> -1 .. 6], Ownership(own, lev), NEW c \in Cpus, clean_addrsp(c)
  PROVE  Inv'
<1>1. pc[c] = "fork" /\ UNCHANGED <<space, ready, failed, proc, table, curlvl, dest>>
  BY DEF clean_addrsp, Goto, spaceVars, locals
<1>2. /\ BSP \in Cpus /\ c # BSP /\ c \notin up /\ proc[c] = None /\ ~Busy(c) /\ BSP \in up
      /\ pc[BSP] # "boot"
  BY <1>1, MmuAssumption DEF Control, Busy
<1>3. /\ KernelRoot \in Frames /\ KernelRoot \notin Pool /\ BootRoot \in Frames /\ BootRoot \notin Pool
      /\ Pool \subseteq Frames
  BY LoaderAssumption DEF Frames, Loader
<1>4. /\ mem \in Contents /\ pc \in [Cpus -> Locations] /\ up \subseteq Cpus /\ free \subseteq Pool
      /\ cr3 \in [Cpus -> Frames \cup {None}] /\ None \notin ready
  BY MmuAssumption DEF TypeOK
<1>5. CASE \E f \in Allocatable :
             /\ Goto(c, "fork", "idle") /\ free' = free \ {f}
             /\ mem' = [mem EXCEPT ![f] = Fork(cr3[c])]
             /\ cr3' = [cr3 EXCEPT ![c] = f] /\ up' = up \cup {c}
  <2>1. PICK f \in free : /\ pc' = [pc EXCEPT ![c] = "idle"] /\ free' = free \ {f}
                          /\ mem' = [mem EXCEPT ![f] = Fork(cr3[c])]
                          /\ cr3' = [cr3 EXCEPT ![c] = f] /\ up' = up \cup {c}
    BY <1>5 DEF Allocatable, Blank, Goto
  <2>2. f \in Pool /\ lev[f] = -1
    BY <1>4, <2>1 DEF Ownership
  <2>3. /\ Fork(cr3[c]) \in [Index -> Frames \cup {None}]
        /\ \A i \in Lower : Fork(cr3[c])[i] = None
        /\ \A i \in Index \ Lower : Fork(cr3[c])[i] = mem[KernelRoot][i]
    BY <1>1, <1>3, ForkFacts DEF Kernel
  <2>4. /\ mem' \in Contents /\ \A g \in Frames \ {f} : mem'[g] = mem[g]
        /\ \A i \in Lower : mem'[f][i] = None
        /\ \A i \in Index \ Lower : mem'[f][i] = mem[KernelRoot][i]
    BY <1>3, <1>4, <2>1, <2>2, <2>3 DEF Contents
  <2>5. /\ pc' \in [Cpus -> Locations] /\ pc'[c] = "idle" /\ \A d \in Cpus \ {c} : pc'[d] = pc[d]
        /\ cr3' \in [Cpus -> Frames \cup {None}] /\ cr3'[c] = f
        /\ \A d \in Cpus \ {c} : cr3'[d] = cr3[d]
    BY <1>3, <1>4, <2>1, <2>2 DEF Locations
  <2>6. TypeOK'
    BY <1>1, <2>1, <2>4, <2>5 DEF TypeOK
  <2>7. \A d \in Cpus : Busy(d)' <=> Busy(d)
    BY <1>2, <2>5 DEF Busy
  <2>8. Control'
    BY <1>1, <1>2, <2>1, <2>5, <2>7 DEF Control
  <2>9. Kernel'
    <3>1. mem'[KernelRoot] = mem[KernelRoot] /\ mem'[BootRoot] = mem[BootRoot]
      BY <1>3, <2>2, <2>4
    <3> QED
      BY <1>2, <2>5, <3>1 DEF Kernel
  <2>10. PICK own2, lev2 : own2 = [own EXCEPT ![f] = None] /\ lev2 = [lev EXCEPT ![f] = 6]
    OBVIOUS
  <2>11. /\ own2 \in [Pool -> Processes \cup {None}] /\ lev2 \in [Pool -> -1 .. 6]
         /\ Is(own2, lev2, f, None, 6)
         /\ \A g \in Pool \ {f} : own2[g] = own[g] /\ lev2[g] = lev[g]
         /\ Tree(own2, lev2, mem') /\ Rooted(lev2, mem')
    <3>1. Tree(own, lev, mem) /\ Rooted(lev, mem)
      BY DEF Ownership
    <3>2. \A g \in Pool \ {f} : mem'[g] = mem[g]
      BY <1>3, <2>4
    <3>3. \A i \in Index \ Lower : /\ mem'[KernelRoot][i] = mem[KernelRoot][i]
                                   /\ mem'[f][i] = mem'[KernelRoot][i]
      BY <1>3, <2>2, <2>4
    <3>4. Placed(own, lev, mem, own2, lev2, mem', f, None, 6)
      BY <2>2, <2>4, <2>10, <3>1, <3>2, <3>3 DEF Placed
    <3> QED
      BY <3>4, Fresh
  <2>12. Ownership(own2, lev2)'
    <3>1. \A q \in Processes : Keeps(own, lev, mem, own2, lev2, mem', q) /\ space'[q] = space[q]
      BY <1>1, <1>3, <2>2, <2>4, <2>11 DEF Keeps
    <3>2. \A g \in Pool : lev[g] = 6 => lev2[g] = 6
      BY <2>2, <2>11
    <3>3. /\ \A p \in ready : Complete(own2, lev2, mem, p)'
          /\ \A d \in Cpus \ {c} : Busy(d)' => Making(own2, lev2, mem, d, proc[d])'
          /\ \A d \in up : pc[d] # "lost" /\ cr3'[d] = cr3[d] => Loaded(lev2, d)'
      <4>1. Aside(own, lev, own2, lev2, c, None)
        BY <1>1, <1>4, <2>5, <3>1, <3>2 DEF Aside
      <4> QED
        BY <4>1, Others
    <3>4. Loaded(lev2, c)'
      BY <2>5, <2>11 DEF Loaded, Is
    <3>5. \A g \in free' : lev2[g] = -1
      BY <1>4, <2>1, <2>11 DEF Ownership
    <3>6. \A d \in up' : pc'[d] # "lost" => Loaded(lev2, d)'
      BY <1>2, <1>4, <2>1, <2>5, <3>3, <3>4
    <3> QED
      BY <1>1, <1>2, <2>7, <2>11, <3>3, <3>5, <3>6 DEF Ownership
  <2> QED
    BY <2>6, <2>8, <2>9, <2>11, <2>12 DEF Inv
<1>6. CASE Goto(c, "fork", "lost") /\ UNCHANGED <<free, mem, cr3, up>>
  <2>1. pc' = [pc EXCEPT ![c] = "lost"] /\ UNCHANGED <<free, mem, cr3, up>>
    BY <1>6 DEF Goto
  <2>2. pc' \in [Cpus -> Locations] /\ pc'[c] = "lost" /\ \A d \in Cpus \ {c} : pc'[d] = pc[d]
    BY <1>4, <2>1 DEF Locations
  <2>3. TypeOK'
    BY <1>1, <2>1, <2>2 DEF TypeOK
  <2>4. \A d \in Cpus : Busy(d)' <=> Busy(d)
    BY <1>2, <2>2 DEF Busy
  <2>5. Control'
    BY <1>1, <1>2, <2>1, <2>2, <2>4 DEF Control
  <2>6. Kernel'
    BY <2>1, <2>2 DEF Kernel
  <2>7. Ownership(own, lev)'
    <3>1. \A q \in Processes : Keeps(own, lev, mem, own, lev, mem', q) /\ space'[q] = space[q]
      BY <1>1, <2>1 DEF Keeps
    <3>2. /\ \A p \in ready : Complete(own, lev, mem, p)'
          /\ \A d \in Cpus \ {c} : Busy(d)' => Making(own, lev, mem, d, proc[d])'
          /\ \A d \in up : pc[d] # "lost" /\ cr3'[d] = cr3[d] => Loaded(lev, d)'
      <4>1. Aside(own, lev, own, lev, c, None)
        BY <1>1, <1>4, <2>1, <2>2, <3>1 DEF Aside
      <4> QED
        BY <4>1, Others
    <3> QED
      BY <1>1, <1>2, <1>4, <2>1, <2>2, <2>4, <3>2 DEF Ownership
  <2> QED
    BY <2>3, <2>5, <2>6, <2>7 DEF Inv
<1> QED
  BY <1>5, <1>6 DEF clean_addrsp, mu_pmap_readvas

LEMMA ProcessInv ==
  ASSUME TypeOK, Control, Kernel, NEW own \in [Pool -> Processes \cup {None}],
         NEW lev \in [Pool -> -1 .. 6], Ownership(own, lev), NEW c \in Cpus,
         NEW p \in Processes, mu_process_init(c, p)
  PROVE  Inv'
<1>1. /\ pc[c] = "idle" /\ p \notin ready \cup failed /\ \A d \in Cpus : proc[d] # p
      /\ UNCHANGED <<cr3, up, ready, table, curlvl>>
  BY DEF mu_process_init, Goto
<1>2. c \in up /\ proc[c] = None /\ ~Busy(c) /\ BSP \in Cpus
  BY <1>1, MmuAssumption DEF Control, Busy
<1>3. /\ KernelRoot \in Frames /\ KernelRoot \notin Pool /\ BootRoot \in Frames /\ BootRoot \notin Pool
      /\ Pool \subseteq Frames
  BY LoaderAssumption DEF Frames, Loader
<1>4. /\ mem \in Contents /\ pc \in [Cpus -> Locations] /\ up \subseteq Cpus /\ free \subseteq Pool
      /\ space \in [Processes -> [root : Frames \cup {None}, stack : Frames \cup {None}]]
      /\ proc \in [Cpus -> Processes \cup {None}] /\ dest \in [Cpus -> Frames \cup {None}]
      /\ None \notin Processes /\ ready \subseteq Processes /\ failed \subseteq Processes
  BY MmuAssumption DEF TypeOK
<1>5. CASE \E f \in Allocatable :
             /\ Goto(c, "idle", "stack") /\ free' = free \ {f}
             /\ mem' = [mem EXCEPT ![f] = Fork(cr3[c])]
             /\ dest' = [dest EXCEPT ![c] = f] /\ space' = [space EXCEPT ![p].root = f]
             /\ proc' = [proc EXCEPT ![c] = p] /\ UNCHANGED failed
  <2>1. PICK f \in free : /\ pc' = [pc EXCEPT ![c] = "stack"] /\ free' = free \ {f}
                          /\ mem' = [mem EXCEPT ![f] = Fork(cr3[c])]
                          /\ dest' = [dest EXCEPT ![c] = f]
                          /\ space' = [space EXCEPT ![p].root = f]
                          /\ proc' = [proc EXCEPT ![c] = p] /\ UNCHANGED failed
    BY <1>5 DEF Allocatable, Blank, Goto
  <2>2. f \in Pool /\ lev[f] = -1
    BY <1>4, <2>1 DEF Ownership
  <2>3. /\ Fork(cr3[c]) \in [Index -> Frames \cup {None}]
        /\ \A i \in Lower : Fork(cr3[c])[i] = None
        /\ \A i \in Index \ Lower : Fork(cr3[c])[i] = mem[KernelRoot][i]
    BY <1>1, <1>2, RootFacts, ForkFacts
  <2>4. /\ mem' \in Contents /\ \A g \in Frames \ {f} : mem'[g] = mem[g]
        /\ \A i \in Lower : mem'[f][i] = None
        /\ \A i \in Index \ Lower : mem'[f][i] = mem[KernelRoot][i]
    BY <1>3, <1>4, <2>1, <2>2, <2>3 DEF Contents
  <2>5. /\ pc' \in [Cpus -> Locations] /\ pc'[c] = "stack" /\ \A d \in Cpus \ {c} : pc'[d] = pc[d]
        /\ proc' \in [Cpus -> Processes \cup {None}] /\ proc'[c] = p
        /\ \A d \in Cpus \ {c} : proc'[d] = proc[d]
        /\ dest' \in [Cpus -> Frames \cup {None}] /\ dest'[c] = f
        /\ \A d \in Cpus \ {c} : dest'[d] = dest[d]
    BY <1>3, <1>4, <2>1, <2>2 DEF Locations
  <2>6. /\ space' \in [Processes -> [root : Frames \cup {None}, stack : Frames \cup {None}]]
        /\ space'[p].root = f /\ \A q \in Processes \ {p} : space'[q] = space[q]
    BY <1>3, <1>4, <2>1, <2>2
  <2>7. TypeOK'
    BY <1>1, <2>1, <2>4, <2>5, <2>6 DEF TypeOK
  <2>8. Busy(c)' /\ \A d \in Cpus \ {c} : Busy(d)' <=> Busy(d)
    BY <2>5 DEF Busy
  <2>9. Control'
    <3>1. pc[BSP] # "boot" /\ pc'[BSP] # "boot" /\ BSP \in up
      BY <1>1, <1>2, <2>5 DEF Control
    <3>2. \A d \in Cpus : pc'[d] \in {"boot", "off", "fork"} => d \notin up'
      BY <1>1, <2>5 DEF Control
    <3>3. \A d \in Cpus : Busy(d)' \/ pc'[d] = "idle" => d \in up'
      BY <1>1, <1>2, <2>5, <2>8 DEF Control
    <3>4. \A d \in Cpus : Busy(d)' <=> proc'[d] # None
      BY <1>4, <2>5, <2>8 DEF Control
    <3>5. \A d \in Cpus : Busy(d)' => proc'[d] \notin ready' \cup failed'
      BY <1>1, <2>1, <2>5, <2>8 DEF Control
    <3>6. ASSUME NEW d \in Cpus, Busy(d)' PROVE dest'[d] = space'[proc'[d]].root
      <4>1. CASE d = c
        BY <2>5, <2>6, <4>1
      <4>2. CASE d # c
        <5>1. Busy(d) /\ proc[d] # None /\ proc[d] # p /\ dest[d] = space[proc[d]].root
          BY <1>1, <2>8, <3>6, <4>2 DEF Control
        <5> QED
          BY <1>4, <2>5, <2>6, <4>2, <5>1
      <4> QED
        BY <4>1, <4>2
    <3>7. \A d, e \in Cpus : proc'[d] = proc'[e] /\ proc'[d] # None => d = e
      BY <1>1, <2>5 DEF Control
    <3> QED
      BY <1>1, <3>1, <3>2, <3>3, <3>4, <3>5, <3>6, <3>7 DEF Control
  <2>10. Kernel'
    <3>1. mem'[KernelRoot] = mem[KernelRoot] /\ mem'[BootRoot] = mem[BootRoot]
      BY <1>3, <2>2, <2>4
    <3> QED
      BY <1>1, <2>5, <3>1 DEF Kernel
  <2>11. PICK own2, lev2 : own2 = [own EXCEPT ![f] = p] /\ lev2 = [lev EXCEPT ![f] = 0]
    OBVIOUS
  <2>12. /\ own2 \in [Pool -> Processes \cup {None}] /\ lev2 \in [Pool -> -1 .. 6]
         /\ Is(own2, lev2, f, p, 0)
         /\ \A g \in Pool \ {f} : own2[g] = own[g] /\ lev2[g] = lev[g]
         /\ Tree(own2, lev2, mem') /\ Rooted(lev2, mem')
    <3>1. Tree(own, lev, mem) /\ Rooted(lev, mem)
      BY DEF Ownership
    <3>2. \A g \in Pool \ {f} : mem'[g] = mem[g]
      BY <1>3, <2>4
    <3>3. \A i \in Index \ Lower : /\ mem'[KernelRoot][i] = mem[KernelRoot][i]
                                   /\ mem'[f][i] = mem'[KernelRoot][i]
      BY <1>3, <2>2, <2>4
    <3>4. \A i \in Own(0) : mem'[f][i] = None
      BY <2>4 DEF Own
    <3>5. Placed(own, lev, mem, own2, lev2, mem', f, p, 0)
      BY <2>2, <2>11, <3>1, <3>2, <3>3, <3>4 DEF Placed
    <3> QED
      BY <3>5, Fresh
  <2>13. Ownership(own2, lev2)'
    <3>1. \A q \in Processes : Keeps(own, lev, mem, own2, lev2, mem', q)
      BY <1>3, <2>2, <2>4, <2>12 DEF Keeps
    <3>2. \A g \in Pool : lev[g] = 6 => lev2[g] = 6
      BY <2>2, <2>12
    <3>3. /\ \A q \in ready : Complete(own2, lev2, mem, q)'
          /\ \A d \in Cpus \ {c} : Busy(d)' => Making(own2, lev2, mem, d, proc[d])'
          /\ \A d \in up : pc[d] # "lost" /\ cr3'[d] = cr3[d] => Loaded(lev2, d)'
      <4>1. Aside(own, lev, own2, lev2, c, p)
        BY <1>1, <2>5, <2>6, <3>1, <3>2 DEF Aside
      <4> QED
        BY <4>1, Others
    <3>4. Making(own2, lev2, mem, c, proc[c])'
      BY <2>4, <2>5, <2>6, <2>12 DEF Making
    <3>5. \A g \in free' : lev2[g] = -1
      BY <1>4, <2>1, <2>12 DEF Ownership
    <3>6. \A d \in up' : pc'[d] # "lost" => Loaded(lev2, d)'
      BY <1>1, <1>4, <2>5, <3>3
    <3> QED
      BY <1>1, <2>12, <3>3, <3>4, <3>5, <3>6 DEF Ownership
  <2> QED
    BY <2>7, <2>9, <2>10, <2>12, <2>13 DEF Inv
<1>6. CASE /\ Goto(c, "idle", "idle") /\ failed' = failed \cup {p}
           /\ UNCHANGED <<free, mem, dest, space, proc>>
  <2>1. pc' = pc /\ failed' = failed \cup {p} /\ UNCHANGED <<free, mem, dest, space, proc>>
    BY <1>1, <1>4, <1>6 DEF Goto
  <2>2. TypeOK'
    BY <1>1, <2>1 DEF TypeOK
  <2>3. Control'
    BY <1>1, <2>1 DEF Control, Busy
  <2>4. Kernel'
    BY <1>1, <2>1 DEF Kernel
  <2>5. Ownership(own, lev)'
    BY <1>1, <2>1 DEF Ownership, Complete, Making, Loaded, Busy
  <2> QED
    BY <2>2, <2>3, <2>4, <2>5 DEF Inv
<1> QED
  BY <1>5, <1>6 DEF mu_process_init, mu_pmap_readvas

(* A processor inside mu_process_init is the only one with its process.    *)
LEMMA BusyFacts ==
  ASSUME TypeOK, Control, NEW own, NEW lev, Ownership(own, lev), NEW c \in Cpus, Busy(c)
  PROVE  /\ proc[c] \in Processes /\ proc[c] \notin ready \cup failed
         /\ \A d \in Cpus \ {c} : proc[d] = None \/ proc[d] # proc[c]
         /\ c \in up /\ BSP \in up /\ BSP \in Cpus /\ pc[BSP] # "boot"
         /\ dest[c] = space[proc[c]].root /\ Making(own, lev, mem, c, proc[c])
<1>1. BSP \in Cpus /\ None \notin Processes
  BY MmuAssumption
<1>2. c \in up /\ proc[c] # None /\ proc[c] \notin ready \cup failed /\ dest[c] = space[proc[c]].root
  BY DEF Control
<1>3. pc[BSP] # "boot"
  BY <1>1 DEF Control, Busy
<1> QED
  BY <1>1, <1>2, <1>3 DEF Control, Ownership, TypeOK

(* It goes on.                                                             *)
LEMMA BusyControl ==
  ASSUME TypeOK, Control, NEW own, NEW lev, Ownership(own, lev), NEW c \in Cpus, Busy(c), Busy(c)',
         \A d \in Cpus \ {c} : pc'[d] = pc[d],
         UNCHANGED <<up, ready, failed, proc, dest, cr3>>,
         \A q \in Processes : space'[q].root = space[q].root
  PROVE  Control'
<1>1. c \in up /\ BSP \in up /\ BSP \in Cpus /\ pc[BSP] # "boot" /\ pc'[BSP] # "boot"
  <2>1. pc'[c] # "boot"
    BY DEF Busy
  <2> QED
    BY <2>1, BusyFacts
<1>2. \A d \in Cpus : Busy(d)' <=> Busy(d)
  BY DEF Busy
<1>3. \A d \in Cpus : pc'[d] \in {"boot", "off", "fork"} => d \notin up'
  BY DEF Control, Busy
<1>4. \A d \in Cpus : Busy(d)' \/ pc'[d] = "idle" => d \in up'
  BY <1>1 DEF Control, Busy
<1>5. \A d \in Cpus : Busy(d)' => dest'[d] = space'[proc'[d]].root
  BY <1>2 DEF Control, TypeOK
<1> QED
  BY <1>1, <1>2, <1>3, <1>4, <1>5 DEF Control

(* It returns.                                                             *)
LEMMA ReturnControl ==
  ASSUME TypeOK, Control, NEW own, NEW lev, Ownership(own, lev), NEW c \in Cpus, Busy(c),
         pc'[c] = "idle", \A d \in Cpus \ {c} : pc'[d] = pc[d], Return(c),
         ready' \cup failed' = ready \cup failed \cup {proc[c]},
         UNCHANGED <<up, space, cr3>>
  PROVE  /\ Control' /\ ~Busy(c)' /\ \A d \in Cpus \ {c} : proc'[d] = proc[d]
         /\ proc' \in [Cpus -> Processes \cup {None}] /\ dest' \in [Cpus -> Frames \cup {None}]
<1>1. /\ proc \in [Cpus -> Processes \cup {None}] /\ dest \in [Cpus -> Frames \cup {None}]
      /\ None \notin Processes
  BY MmuAssumption DEF TypeOK
<1>2. /\ proc'[c] = None /\ \A d \in Cpus \ {c} : proc'[d] = proc[d] /\ dest'[d] = dest[d]
      /\ proc' \in [Cpus -> Processes \cup {None}] /\ dest' \in [Cpus -> Frames \cup {None}]
  BY <1>1 DEF Return
<1>3. c \in up /\ BSP \in up /\ BSP \in Cpus /\ pc[BSP] # "boot" /\ pc'[BSP] # "boot"
  BY BusyFacts
<1>4. ~Busy(c)' /\ \A d \in Cpus \ {c} : Busy(d)' <=> Busy(d)
  BY DEF Busy
<1>5. \A d \in Cpus : pc'[d] \in {"boot", "off", "fork"} => d \notin up'
  BY <1>3 DEF Control
<1>6. \A d \in Cpus : Busy(d)' \/ pc'[d] = "idle" => d \in up'
  BY <1>3, <1>4 DEF Control
<1>7. \A d \in Cpus : Busy(d)' <=> proc'[d] # None
  BY <1>2, <1>4 DEF Control
<1>8. \A d \in Cpus : Busy(d)' => proc'[d] \notin ready' \cup failed'
  BY <1>1, <1>2, <1>4, BusyFacts DEF Control
<1>9. \A d \in Cpus : Busy(d)' => dest'[d] = space'[proc'[d]].root
  BY <1>2, <1>4 DEF Control
<1>10. \A d, e \in Cpus : proc'[d] = proc'[e] /\ proc'[d] # None => d = e
  BY <1>2 DEF Control
<1> QED
  BY <1>2, <1>3, <1>4, <1>5, <1>6, <1>7, <1>8, <1>9, <1>10 DEF Control

LEMMA StackInv ==
  ASSUME TypeOK, Control, Kernel, NEW own \in [Pool -> Processes \cup {None}],
         NEW lev \in [Pool -> -1 .. 6], Ownership(own, lev), NEW c \in Cpus, AllocStack(c)
  PROVE  Inv'
<1>1. /\ pc[c] = "stack" /\ UNCHANGED <<mem, cr3, up, ready, failed, proc, dest>>
      /\ table' = [table EXCEPT ![c] = dest[c]] /\ curlvl' = [curlvl EXCEPT ![c] = 3]
  BY DEF AllocStack, Goto, PML4
<1>2. Busy(c)
  BY <1>1 DEF Busy
<1>3. PICK P : P = proc[c]
  OBVIOUS
<1>4. /\ P \in Processes /\ P \notin ready \cup failed /\ c \in up
      /\ \A d \in Cpus \ {c} : proc[d] = None \/ proc[d] # P
      /\ dest[c] = space[P].root /\ Making(own, lev, mem, c, P)
  BY <1>2, <1>3, BusyFacts
<1>5. /\ pc \in [Cpus -> Locations] /\ up \subseteq Cpus /\ free \subseteq Pool
      /\ space \in [Processes -> [root : Frames \cup {None}, stack : Frames \cup {None}]]
      /\ table \in [Cpus -> Frames \cup {None}] /\ curlvl \in [Cpus -> 0 .. 3]
      /\ dest \in [Cpus -> Frames \cup {None}] /\ Pool \subseteq Frames
  BY DEF TypeOK, Frames
<1>6. Is(own, lev, space[P].root, P, 0) /\ \A i \in Lower : mem[space[P].root][i] = None
  BY <1>1, <1>4 DEF Making
<1>7. /\ table' \in [Cpus -> Frames \cup {None}] /\ table'[c] = space[P].root
      /\ curlvl' \in [Cpus -> 0 .. 3] /\ curlvl'[c] = 3
      /\ \A d \in Cpus \ {c} : table'[d] = table[d] /\ curlvl'[d] = curlvl[d]
  BY <1>1, <1>4, <1>5
<1>8. CASE \E f \in Allocatable : /\ Goto(c, "stack", "descend") /\ free' = free \ {f}
                                  /\ space' = [space EXCEPT ![proc[c]].stack = f]
  <2>1. PICK f \in free : /\ pc' = [pc EXCEPT ![c] = "descend"] /\ free' = free \ {f}
                          /\ space' = [space EXCEPT ![P].stack = f]
    BY <1>3, <1>8 DEF Allocatable, Blank, Goto
  <2>2. f \in Pool /\ lev[f] = -1
    BY <1>5, <2>1 DEF Ownership
  <2>3. pc' \in [Cpus -> Locations] /\ pc'[c] = "descend" /\ \A d \in Cpus \ {c} : pc'[d] = pc[d]
    BY <1>5, <2>1 DEF Locations
  <2>4. /\ space' \in [Processes -> [root : Frames \cup {None}, stack : Frames \cup {None}]]
        /\ space'[P].root = space[P].root /\ space'[P].stack = f
        /\ \A q \in Processes \ {P} : space'[q] = space[q]
    BY <1>4, <1>5, <2>1, <2>2
  <2>5. TypeOK'
    BY <1>1, <1>7, <2>1, <2>3, <2>4 DEF TypeOK
  <2>6. Control'
    <3>1. Busy(c)'
      BY <2>3 DEF Busy
    <3>2. \A q \in Processes : space'[q].root = space[q].root
      BY <2>4
    <3> QED
      BY <1>1, <1>2, <2>3, <3>1, <3>2, BusyControl
  <2>7. Kernel'
    BY <1>1, <2>3 DEF Kernel
  <2>8. PICK own2, lev2 : own2 = [own EXCEPT ![f] = P] /\ lev2 = [lev EXCEPT ![f] = 4]
    OBVIOUS
  <2>9. /\ own2 \in [Pool -> Processes \cup {None}] /\ lev2 \in [Pool -> -1 .. 6]
        /\ Is(own2, lev2, f, P, 4)
        /\ \A g \in Pool \ {f} : own2[g] = own[g] /\ lev2[g] = lev[g]
        /\ Tree(own2, lev2, mem) /\ Rooted(lev2, mem)
    <3>1. Tree(own, lev, mem) /\ Rooted(lev, mem)
      BY DEF Ownership
    <3>2. Placed(own, lev, mem, own2, lev2, mem, f, P, 4)
      BY <1>4, <2>2, <2>8, <3>1 DEF Placed
    <3> QED
      BY <3>2, Fresh
  <2>10. Ownership(own2, lev2)'
    <3>1. \A q \in Processes : Keeps(own, lev, mem, own2, lev2, mem', q)
      BY <1>1, <2>2, <2>9 DEF Keeps
    <3>2. \A g \in Pool : lev[g] = 6 => lev2[g] = 6
      BY <2>2, <2>9
    <3>3. /\ \A q \in ready : Complete(own2, lev2, mem, q)'
          /\ \A d \in Cpus \ {c} : Busy(d)' => Making(own2, lev2, mem, d, proc[d])'
          /\ \A d \in up : pc[d] # "lost" /\ cr3'[d] = cr3[d] => Loaded(lev2, d)'
      <4>1. Aside(own, lev, own2, lev2, c, P)
        BY <1>1, <1>4, <1>7, <2>3, <2>4, <3>1, <3>2 DEF Aside
      <4> QED
        BY <4>1, Others
    <3>4. Making(own2, lev2, mem, c, proc[c])'
      <4>1. Is(own2, lev2, space'[P].root, P, 0)
        BY <1>6, <2>2, <2>4, <2>9 DEF Is
      <4>2. \A i \in Own(0) : mem'[table'[c]][i] = None
        BY <1>1, <1>6, <1>7 DEF Own
      <4>3. Linked(own2, lev2, mem', P, space'[P].root, table'[c], 0)
        BY <1>7, <2>4 DEF Linked
      <4>4. proc'[c] = P /\ 3 - curlvl'[c] = 0 /\ table'[c] = space'[P].root
        BY <1>1, <1>3, <1>7, <2>4
      <4> QED
        BY <2>3, <2>4, <2>9, <4>1, <4>2, <4>3, <4>4 DEF Making
    <3>5. \A g \in free' : lev2[g] = -1
      BY <1>5, <2>1, <2>9 DEF Ownership
    <3>6. \A d \in up' : pc'[d] # "lost" => Loaded(lev2, d)'
      BY <1>1, <1>5, <2>3, <3>3
    <3> QED
      BY <1>1, <2>9, <3>3, <3>4, <3>5, <3>6 DEF Ownership
  <2> QED
    BY <2>5, <2>6, <2>7, <2>9, <2>10 DEF Inv
<1>9. CASE Goto(c, "stack", "free_root") /\ UNCHANGED <<free, space>>
  <2>1. pc' = [pc EXCEPT ![c] = "free_root"] /\ UNCHANGED <<free, space>>
    BY <1>9 DEF Goto
  <2>2. pc' \in [Cpus -> Locations] /\ pc'[c] = "free_root" /\ \A d \in Cpus \ {c} : pc'[d] = pc[d]
    BY <1>5, <2>1 DEF Locations
  <2>3. TypeOK'
    BY <1>1, <1>7, <2>1, <2>2 DEF TypeOK
  <2>4. Control'
    <3>1. Busy(c)'
      BY <2>2 DEF Busy
    <3> QED
      BY <1>1, <1>2, <2>1, <2>2, <3>1, BusyControl
  <2>5. Kernel'
    BY <1>1, <2>2 DEF Kernel
  <2>6. Ownership(own, lev)'
    <3>1. /\ \A q \in ready : Complete(own, lev, mem, q)'
          /\ \A d \in Cpus \ {c} : Busy(d)' => Making(own, lev, mem, d, proc[d])'
          /\ \A d \in up : pc[d] # "lost" /\ cr3'[d] = cr3[d] => Loaded(lev, d)'
      <4>1. Aside(own, lev, own, lev, c, P)
        BY <1>1, <1>4, <1>7, <2>1, <2>2 DEF Aside, Keeps
      <4> QED
        BY <4>1, Others
    <3>2. Making(own, lev, mem, c, proc[c])'
      BY <1>1, <1>3, <1>6, <2>1, <2>2 DEF Making, Is
    <3>3. \A d \in up' : pc'[d] # "lost" => Loaded(lev, d)'
      BY <1>1, <1>5, <2>2, <3>1
    <3> QED
      BY <1>1, <2>1, <3>1, <3>2, <3>3 DEF Ownership
  <2> QED
    BY <2>3, <2>4, <2>5, <2>6 DEF Inv
<1> QED
  BY <1>8, <1>9 DEF AllocStack

LEMMA LevelInv ==
  ASSUME TypeOK, Control, Kernel, NEW own \in [Pool -> Processes \cup {None}],
         NEW lev \in [Pool -> -1 .. 6], Ownership(own, lev), NEW c \in Cpus, pmap_get_level(c)
  PROVE  Inv'
<1>1. /\ pc[c] = "descend" /\ curlvl[c] > 0
      /\ UNCHANGED <<cr3, up, space, ready, failed, proc, dest>>
  BY DEF pmap_get_level, spaceVars, PML1
<1>2. Busy(c)
  BY <1>1 DEF Busy
<1>3. PICK P, T, k : P = proc[c] /\ T = table[c] /\ k = curlvl[c]
  OBVIOUS
<1>4. /\ P \in Processes /\ P \notin ready \cup failed /\ c \in up
      /\ \A d \in Cpus \ {c} : proc[d] = None \/ proc[d] # P
      /\ Making(own, lev, mem, c, P)
  BY <1>2, <1>3, BusyFacts
<1>5. /\ mem \in Contents /\ pc \in [Cpus -> Locations] /\ up \subseteq Cpus /\ free \subseteq Pool
      /\ table \in [Cpus -> Frames \cup {None}] /\ curlvl \in [Cpus -> 0 .. 3]
      /\ Pool \subseteq Frames
  BY DEF TypeOK, Frames
<1>6. k \in 1 .. 3 /\ 3 - k \in 0 .. 2
  BY <1>1, <1>3, <1>5
<1>7. /\ Is(own, lev, T, P, 3 - k) /\ \A i \in Own(3 - k) : mem[T][i] = None
      /\ Linked(own, lev, mem, P, space[P].root, T, 3 - k)
      /\ Is(own, lev, space[P].root, P, 0) /\ Is(own, lev, space[P].stack, P, 4)
  BY <1>1, <1>3, <1>4 DEF Making
<1>8. PICK s : s = Slot(3 - k)
  OBVIOUS
<1>9. s \in Own(3 - k) /\ s \in Index /\ pmap_get_index(STACK_TOP, k - 1) = s
  BY <1>6, <1>8, SlotFacts
(* The entry is never present: the level is made anew.                     *)
<1>10. mem[T][s] = None
  BY <1>7, <1>9
<1>11. /\ KernelRoot \in Frames /\ KernelRoot \notin Pool /\ BootRoot \in Frames /\ BootRoot \notin Pool
       /\ T \in Pool /\ lev[T] = 3 - k /\ own[T] = P /\ None \notin Pool
  BY <1>7, LoaderAssumption, MmuAssumption DEF Frames, Loader, Is
<1>12. CASE \E f \in Allocatable :
              /\ Goto(c, "descend", "descend") /\ free' = free \ {f}
              /\ mem' = [mem EXCEPT ![f] = Cleared(f), ![T][s] = f]
              /\ table' = [table EXCEPT ![c] = f] /\ curlvl' = [curlvl EXCEPT ![c] = k - 1]
  <2>1. PICK f \in free : /\ pc' = pc /\ free' = free \ {f}
                          /\ mem' = [mem EXCEPT ![f] = Zeroed, ![T][s] = f]
                          /\ table' = [table EXCEPT ![c] = f]
                          /\ curlvl' = [curlvl EXCEPT ![c] = k - 1]
    <3>1. PICK f \in Allocatable :
            /\ Goto(c, "descend", "descend") /\ free' = free \ {f}
            /\ mem' = [mem EXCEPT ![f] = Cleared(f), ![T][s] = f]
            /\ table' = [table EXCEPT ![c] = f] /\ curlvl' = [curlvl EXCEPT ![c] = k - 1]
      BY <1>12
    <3>2. pc' = pc
      BY <1>1, <1>5, <3>1 DEF Goto
    <3>3. f \in free
      BY DEF Allocatable, Blank
    <3> QED
      BY <3>1, <3>2, <3>3 DEF Cleared
  <2>2. f \in Pool /\ lev[f] = -1
    BY <1>5, <2>1 DEF Ownership
  <2>3. f # T
    BY <1>6, <1>11, <2>2
  <2>4. PICK m : m = [mem EXCEPT ![f] = Zeroed]
    OBVIOUS
  <2>5. /\ m \in Contents /\ \A g \in Frames \ {f} : m[g] = mem[g] /\ m[f] = Zeroed
        /\ \A i \in Index : m[f][i] = None
    BY <1>5, <2>2, <2>4 DEF Contents, Zeroed
  <2>6. mem' = [m EXCEPT ![T][s] = f]
    BY <2>1, <2>4
  <2>7. PICK own2, lev2 : own2 = [own EXCEPT ![f] = P] /\ lev2 = [lev EXCEPT ![f] = 4 - k]
    OBVIOUS
  <2>8. /\ own2 \in [Pool -> Processes \cup {None}] /\ lev2 \in [Pool -> -1 .. 6]
        /\ Is(own2, lev2, f, P, 4 - k)
        /\ \A g \in Pool \ {f} : own2[g] = own[g] /\ lev2[g] = lev[g]
        /\ Tree(own2, lev2, m) /\ Rooted(lev2, m)
        /\ \A p, r, t : \A x \in 0 .. 4 :
             Linked(own, lev, mem, p, r, t, x) /\ Is(own, lev, r, p, 0)
               => Linked(own2, lev2, m, p, r, t, x)
    <3>1. Tree(own, lev, mem) /\ Rooted(lev, mem)
      BY DEF Ownership
    <3>2. \A g \in Pool \ {f} : m[g] = mem[g]
      BY <1>5, <2>5
    <3>3. m[KernelRoot] = mem[KernelRoot]
      BY <1>11, <2>2, <2>5
    <3>4. \A i \in Own(4 - k) : m[f][i] = None
      BY <2>5, IndexFacts
    <3>5. 4 - k \in 1 .. 3
      BY <1>6
    <3>6. Placed(own, lev, mem, own2, lev2, m, f, P, 4 - k)
      BY <1>4, <2>2, <2>7, <3>1, <3>2, <3>3, <3>4, <3>5 DEF Placed
    <3> QED
      BY <3>6, Fresh
  <2>9. own2[T] = P /\ lev2[T] = 3 - k /\ Is(own2, lev2, T, P, 3 - k)
    BY <1>11, <2>3, <2>8 DEF Is
  <2>10. /\ mem' \in Contents /\ mem'[T][s] = f /\ \A g \in Frames \ {T} : mem'[g] = m[g]
         /\ Tree(own2, lev2, mem') /\ Rooted(lev2, mem')
         /\ \A q, r : \A t \in Pool : \A x \in 0 .. 4 :
              Linked(own2, lev2, m, q, r, t, x) /\ Is(own2, lev2, r, q, 0)
                => Linked(own2, lev2, mem', q, r, t, x)
    <3>1. m[T][s] = None /\ s \in Own(lev2[T]) /\ lev2[T] \in 0 .. 3 /\ lev2[T] + 1 = 4 - k
      BY <1>5, <1>6, <1>9, <1>10, <1>11, <2>3, <2>5, <2>9
    <3>2. Added(own2, lev2, m, mem', P, T, f, s)
      BY <1>11, <2>2, <2>5, <2>6, <2>8, <2>9, <3>1 DEF Added
    <3> QED
      BY <3>2, Link
  <2>11. /\ Is(own2, lev2, space[P].root, P, 0) /\ Is(own2, lev2, space[P].stack, P, 4)
    BY <1>7, <2>2, <2>8 DEF Is
  <2>12. Linked(own2, lev2, mem', P, space[P].root, f, 4 - k)
    <3>1. Linked(own2, lev2, m, P, space[P].root, T, 3 - k)
      BY <1>6, <1>7, <2>8
    <3>2. Linked(own2, lev2, mem', P, space[P].root, T, 3 - k)
      BY <1>6, <1>11, <2>10, <2>11, <3>1
    <3>3. PICK n : n = 3 - k
      OBVIOUS
    <3>4. Linked(own2, lev2, mem', P, space[P].root, f, n + 1)
      BY <1>6, <1>8, <1>11, <2>9, <2>10, <3>2, <3>3, Extend
    <3>5. n + 1 = 4 - k
      BY <1>6, <3>3
    <3> QED
      BY <3>4, <3>5
  <2>13. /\ table' \in [Cpus -> Frames \cup {None}] /\ table'[c] = f
         /\ curlvl' \in [Cpus -> 0 .. 3] /\ curlvl'[c] = k - 1
         /\ \A d \in Cpus \ {c} : table'[d] = table[d] /\ curlvl'[d] = curlvl[d]
    BY <1>5, <1>6, <2>1, <2>2
  <2>14. TypeOK'
    BY <1>1, <2>1, <2>10, <2>13 DEF TypeOK
  <2>15. Control'
    <3>1. Busy(c)'
      BY <1>1, <2>1 DEF Busy
    <3> QED
      BY <1>1, <1>2, <2>1, <3>1, BusyControl
  <2>16. Kernel'
    <3>1. mem'[KernelRoot] = mem[KernelRoot] /\ mem'[BootRoot] = mem[BootRoot]
      BY <1>11, <2>2, <2>5, <2>10
    <3> QED
      BY <1>1, <2>1, <3>1 DEF Kernel
  <2>17. Ownership(own2, lev2)'
    <3>1. \A q \in Processes \ {P} : Keeps(own, lev, mem, own2, lev2, mem', q)
      BY <1>5, <1>11, <2>2, <2>5, <2>8, <2>10 DEF Keeps
    <3>2. \A g \in Pool : lev[g] = 6 => lev2[g] = 6
      BY <2>2, <2>8
    <3>3. /\ \A q \in ready : Complete(own2, lev2, mem, q)'
          /\ \A d \in Cpus \ {c} : Busy(d)' => Making(own2, lev2, mem, d, proc[d])'
          /\ \A d \in up : pc[d] # "lost" /\ cr3'[d] = cr3[d] => Loaded(lev2, d)'
      <4>1. Aside(own, lev, own2, lev2, c, P)
        BY <1>1, <1>4, <2>1, <2>13, <3>1, <3>2 DEF Aside
      <4> QED
        BY <4>1, Others
    <3>4. Making(own2, lev2, mem, c, proc[c])'
      <4>1. \A i \in Own(4 - k) : mem'[f][i] = None
        BY <1>5, <2>2, <2>3, <2>5, <2>10, IndexFacts
      <4>2. proc'[c] = P /\ 3 - curlvl'[c] = 4 - k /\ pc'[c] = "descend" /\ space'[P] = space[P]
        BY <1>1, <1>3, <1>6, <2>1, <2>13
      <4> QED
        BY <2>8, <2>11, <2>12, <2>13, <4>1, <4>2 DEF Making
    <3>5. \A g \in free' : lev2[g] = -1
      BY <1>5, <2>1, <2>8 DEF Ownership
    <3>6. \A d \in up' : pc'[d] # "lost" => Loaded(lev2, d)'
      BY <1>1, <2>1, <3>3
    <3> QED
      BY <1>1, <2>8, <2>10, <3>3, <3>4, <3>5, <3>6 DEF Ownership
  <2> QED
    BY <2>8, <2>14, <2>15, <2>16, <2>17 DEF Inv
<1>13. CASE Goto(c, "descend", "free_stack") /\ UNCHANGED <<free, mem, table, curlvl>>
  <2>1. pc' = [pc EXCEPT ![c] = "free_stack"] /\ UNCHANGED <<free, mem, table, curlvl>>
    BY <1>13 DEF Goto
  <2>2. pc' \in [Cpus -> Locations] /\ pc'[c] = "free_stack" /\ \A d \in Cpus \ {c} : pc'[d] = pc[d]
    BY <1>5, <2>1 DEF Locations
  <2>3. TypeOK'
    BY <1>1, <2>1, <2>2 DEF TypeOK
  <2>4. Control'
    <3>1. Busy(c)'
      BY <2>2 DEF Busy
    <3> QED
      BY <1>1, <1>2, <2>2, <3>1, BusyControl
  <2>5. Kernel'
    BY <1>1, <2>1, <2>2 DEF Kernel
  <2>6. Ownership(own, lev)'
    <3>1. /\ \A q \in ready : Complete(own, lev, mem, q)'
          /\ \A d \in Cpus \ {c} : Busy(d)' => Making(own, lev, mem, d, proc[d])'
          /\ \A d \in up : pc[d] # "lost" /\ cr3'[d] = cr3[d] => Loaded(lev, d)'
      <4>1. Aside(own, lev, own, lev, c, P)
        BY <1>1, <1>4, <2>1, <2>2 DEF Aside, Keeps
      <4> QED
        BY <4>1, Others
    <3>2. Making(own, lev, mem, c, proc[c])'
      BY <1>1, <1>3, <1>7, <2>1, <2>2 DEF Making
    <3>3. \A d \in up' : pc'[d] # "lost" => Loaded(lev, d)'
      BY <1>1, <1>5, <2>2, <3>1
    <3> QED
      BY <1>1, <2>1, <3>1, <3>2, <3>3 DEF Ownership
  <2> QED
    BY <2>3, <2>4, <2>5, <2>6 DEF Inv
<1> QED
  BY <1>3, <1>9, <1>10, <1>12, <1>13 DEF pmap_get_level

LEMMA MapInv ==
  ASSUME TypeOK, Control, Kernel, NEW own \in [Pool -> Processes \cup {None}],
         NEW lev \in [Pool -> -1 .. 6], Ownership(own, lev), NEW c \in Cpus, mu_pmap_map(c)
  PROVE  Inv'
<1>1. /\ pc[c] = "descend" /\ curlvl[c] = 0 /\ pc' = [pc EXCEPT ![c] = "idle"] /\ Return(c)
      /\ mem' = [mem EXCEPT ![table[c]][pmap_get_index(STACK_TOP, PML1)] = space[proc[c]].stack]
      /\ ready' = ready \cup {proc[c]}
      /\ UNCHANGED <<free, cr3, up, space, failed, table, curlvl>>
  BY DEF mu_pmap_map, Goto, PML1
<1>2. Busy(c)
  BY <1>1 DEF Busy
<1>3. PICK P, T, s, f : P = proc[c] /\ T = table[c] /\ s = Slot(3) /\ f = space[P].stack
  OBVIOUS
<1>4. /\ P \in Processes /\ P \notin ready \cup failed /\ c \in up
      /\ \A d \in Cpus \ {c} : proc[d] = None \/ proc[d] # P
      /\ Making(own, lev, mem, c, P)
  BY <1>2, <1>3, BusyFacts
<1>5. /\ mem \in Contents /\ pc \in [Cpus -> Locations] /\ up \subseteq Cpus /\ free \subseteq Pool
      /\ Pool \subseteq Frames /\ ready \subseteq Processes
  BY DEF TypeOK, Frames
<1>6. /\ Is(own, lev, T, P, 3) /\ \A i \in Own(3) : mem[T][i] = None
      /\ Linked(own, lev, mem, P, space[P].root, T, 3)
      /\ Is(own, lev, space[P].root, P, 0) /\ Is(own, lev, f, P, 4)
  <2>1. 3 - curlvl[c] = 3
    BY <1>1
  <2> QED
    BY <1>1, <1>3, <1>4, <2>1 DEF Making
<1>7. s \in Own(3) /\ mem[T][s] = None /\ mem' = [mem EXCEPT ![T][s] = f]
  BY <1>1, <1>3, <1>6, SlotFacts
<1>8. /\ KernelRoot \in Frames /\ KernelRoot \notin Pool /\ BootRoot \in Frames /\ BootRoot \notin Pool
      /\ T \in Pool /\ lev[T] = 3 /\ own[T] = P /\ f \in Pool
  BY <1>6, LoaderAssumption DEF Frames, Loader, Is
<1>9. /\ mem' \in Contents /\ mem'[T][s] = f /\ \A g \in Frames \ {T} : mem'[g] = mem[g]
      /\ Tree(own, lev, mem') /\ Rooted(lev, mem')
      /\ \A q, r : \A t \in Pool : \A x \in 0 .. 4 :
           Linked(own, lev, mem, q, r, t, x) /\ Is(own, lev, r, q, 0)
             => Linked(own, lev, mem', q, r, t, x)
  <2>1. Tree(own, lev, mem) /\ Rooted(lev, mem)
    BY DEF Ownership
  <2>2. Added(own, lev, mem, mem', P, T, f, s)
    BY <1>5, <1>6, <1>7, <1>8, <2>1 DEF Added
  <2> QED
    BY <2>2, Link
<1>10. pc' \in [Cpus -> Locations] /\ pc'[c] = "idle" /\ \A d \in Cpus \ {c} : pc'[d] = pc[d]
  BY <1>1, <1>5 DEF Locations
<1>11. /\ Control' /\ ~Busy(c)' /\ \A d \in Cpus \ {c} : proc'[d] = proc[d]
       /\ proc' \in [Cpus -> Processes \cup {None}] /\ dest' \in [Cpus -> Frames \cup {None}]
  <2>1. ready' \cup failed' = ready \cup failed \cup {proc[c]}
    BY <1>1
  <2> QED
    BY <1>1, <1>2, <1>10, <2>1, ReturnControl
<1>12. TypeOK'
  BY <1>1, <1>3, <1>4, <1>9, <1>10, <1>11 DEF TypeOK
<1>13. Kernel'
  <2>1. mem'[KernelRoot] = mem[KernelRoot] /\ mem'[BootRoot] = mem[BootRoot]
    BY <1>8, <1>9
  <2> QED
    BY <1>1, <1>10, <2>1 DEF Kernel
<1>14. Ownership(own, lev)'
  <2>1. \A q \in Processes \ {P} : Keeps(own, lev, mem, own, lev, mem', q)
    BY <1>5, <1>8, <1>9 DEF Keeps
  <2>2. /\ \A q \in ready : Complete(own, lev, mem, q)'
        /\ \A d \in Cpus \ {c} : Busy(d)' => Making(own, lev, mem, d, proc[d])'
        /\ \A d \in up : pc[d] # "lost" /\ cr3'[d] = cr3[d] => Loaded(lev, d)'
    <3>1. Aside(own, lev, own, lev, c, P)
      BY <1>1, <1>4, <1>10, <1>11, <2>1 DEF Aside
    <3> QED
      BY <3>1, Others
  <2>3. Complete(own, lev, mem, P)'
    <3>1. Linked(own, lev, mem', P, space[P].root, T, 3)
      BY <1>6, <1>8, <1>9
    <3>2. PICK n : n = 3
      OBVIOUS
    <3>3. Linked(own, lev, mem', P, space[P].root, f, n + 1)
      BY <1>3, <1>6, <1>8, <1>9, <3>1, <3>2, Extend
    <3>4. Linked(own, lev, mem', P, space[P].root, f, 4)
      BY <3>2, <3>3
    <3>5. space'[P] = space[P]
      BY <1>1
    <3> QED
      BY <1>3, <1>6, <3>4, <3>5 DEF Complete
  <2>4. \A d \in up' : pc'[d] # "lost" => Loaded(lev, d)'
    BY <1>1, <1>5, <1>10, <2>2
  <2>5. \A q \in ready' : Complete(own, lev, mem, q)'
    BY <1>1, <1>3, <2>2, <2>3
  <2> QED
    BY <1>1, <1>9, <1>11, <2>2, <2>4, <2>5 DEF Ownership
<1> QED
  BY <1>11, <1>12, <1>13, <1>14 DEF Inv

LEMMA FreeStackInv ==
  ASSUME TypeOK, Control, Kernel, NEW own \in [Pool -> Processes \cup {None}],
         NEW lev \in [Pool -> -1 .. 6], Ownership(own, lev), NEW c \in Cpus, FreeStack(c)
  PROVE  Inv'
<1>1. /\ pc[c] = "free_stack" /\ pc' = [pc EXCEPT ![c] = "free_root"]
      /\ free' = free \cup {space[proc[c]].stack}
      /\ UNCHANGED <<mem, cr3, up, space, ready, failed, proc, table, curlvl, dest>>
  BY DEF FreeStack, Goto, spaceVars, locals
<1>2. Busy(c)
  BY <1>1 DEF Busy
<1>3. PICK P, r, f : P = proc[c] /\ r = space[P].root /\ f = space[P].stack
  OBVIOUS
<1>4. /\ P \in Processes /\ P \notin ready \cup failed /\ c \in up
      /\ \A d \in Cpus \ {c} : proc[d] = None \/ proc[d] # P
      /\ Making(own, lev, mem, c, P)
  BY <1>2, <1>3, BusyFacts
<1>5. pc \in [Cpus -> Locations] /\ up \subseteq Cpus /\ free \subseteq Pool
  BY DEF TypeOK
<1>6. /\ r \in Pool /\ own[r] = P /\ lev[r] = 0 /\ f \in Pool /\ own[f] = P /\ lev[f] = 4
  BY <1>1, <1>3, <1>4 DEF Making, Is
<1>7. pc' \in [Cpus -> Locations] /\ pc'[c] = "free_root" /\ \A d \in Cpus \ {c} : pc'[d] = pc[d]
  BY <1>1, <1>5 DEF Locations
<1>8. TypeOK'
  BY <1>1, <1>3, <1>6, <1>7 DEF TypeOK
<1>9. Control'
  <2>1. Busy(c)'
    BY <1>7 DEF Busy
  <2> QED
    BY <1>1, <1>2, <1>7, <2>1, BusyControl
<1>10. Kernel'
  BY <1>1, <1>7 DEF Kernel
<1>11. PICK lev2 : lev2 = [g \in Pool |-> IF own[g] # P \/ lev[g] = 6 THEN lev[g]
                                          ELSE IF g = r THEN 5 ELSE -1]
  OBVIOUS
<1>12. /\ lev2 \in [Pool -> -1 .. 6] /\ lev2[r] = 5 /\ lev2[f] = -1
       /\ \A g \in Pool : own[g] = P => lev2[g] \in {-1, 5} \/ (lev2[g] = 6 /\ lev[g] = 6)
       /\ \A g \in Pool : own[g] # P => lev2[g] = lev[g]
       /\ \A g \in Pool : lev[g] = 6 => lev2[g] = 6
       /\ \A g \in Pool : lev[g] = -1 /\ g # r => lev2[g] = -1
  BY <1>6, <1>11
<1>13. Ownership(own, lev2)'
  <2>1. Tree(own, lev2, mem) /\ Rooted(lev2, mem)
    BY <1>12, Drop DEF Ownership
  <2>2. /\ \A q \in ready : Complete(own, lev2, mem, q)'
        /\ \A d \in Cpus \ {c} : Busy(d)' => Making(own, lev2, mem, d, proc[d])'
        /\ \A d \in up : pc[d] # "lost" /\ cr3'[d] = cr3[d] => Loaded(lev2, d)'
    <3>1. Aside(own, lev, own, lev2, c, P)
      BY <1>1, <1>4, <1>7, <1>12 DEF Aside, Keeps
    <3> QED
      BY <3>1, Others
  <2>3. Making(own, lev2, mem, c, proc[c])'
    BY <1>1, <1>3, <1>6, <1>7, <1>12 DEF Making
  <2>4. \A g \in free' : lev2[g] = -1
    BY <1>1, <1>3, <1>5, <1>6, <1>12 DEF Ownership
  <2>5. \A d \in up' : pc'[d] # "lost" => Loaded(lev2, d)'
    BY <1>1, <1>5, <1>7, <2>2
  <2> QED
    BY <1>1, <1>12, <2>1, <2>2, <2>3, <2>4, <2>5 DEF Ownership
<1> QED
  BY <1>8, <1>9, <1>10, <1>12, <1>13 DEF Inv

LEMMA FreeRootInv ==
  ASSUME TypeOK, Control, Kernel, NEW own \in [Pool -> Processes \cup {None}],
         NEW lev \in [Pool -> -1 .. 6], Ownership(own, lev), NEW c \in Cpus, FreeRoot(c)
  PROVE  Inv'
<1>1. /\ pc[c] = "free_root" /\ pc' = [pc EXCEPT ![c] = "idle"] /\ Return(c)
      /\ free' = free \cup {space[proc[c]].root} /\ failed' = failed \cup {proc[c]}
      /\ UNCHANGED <<mem, cr3, up, space, ready, table, curlvl>>
  BY DEF FreeRoot, Goto
<1>2. Busy(c)
  BY <1>1 DEF Busy
<1>3. PICK P, r : P = proc[c] /\ r = space[P].root
  OBVIOUS
<1>4. /\ P \in Processes /\ P \notin ready \cup failed /\ c \in up
      /\ \A d \in Cpus \ {c} : proc[d] = None \/ proc[d] # P
      /\ Making(own, lev, mem, c, P)
  BY <1>2, <1>3, BusyFacts
<1>5. pc \in [Cpus -> Locations] /\ up \subseteq Cpus /\ free \subseteq Pool
  BY DEF TypeOK
<1>6. r \in Pool /\ own[r] = P /\ lev[r] \in {0, 5}
  BY <1>1, <1>3, <1>4 DEF Making
<1>7. pc' \in [Cpus -> Locations] /\ pc'[c] = "idle" /\ \A d \in Cpus \ {c} : pc'[d] = pc[d]
  BY <1>1, <1>5 DEF Locations
<1>8. /\ Control' /\ ~Busy(c)' /\ \A d \in Cpus \ {c} : proc'[d] = proc[d]
      /\ proc' \in [Cpus -> Processes \cup {None}] /\ dest' \in [Cpus -> Frames \cup {None}]
  <2>1. ready' \cup failed' = ready \cup failed \cup {proc[c]}
    BY <1>1
  <2> QED
    BY <1>1, <1>2, <1>7, <2>1, ReturnControl
<1>9. TypeOK'
  BY <1>1, <1>3, <1>4, <1>6, <1>7, <1>8 DEF TypeOK
<1>10. Kernel'
  BY <1>1, <1>7 DEF Kernel
<1>11. PICK lev2 : lev2 = [g \in Pool |-> IF own[g] # P \/ lev[g] = 6 THEN lev[g] ELSE -1]
  OBVIOUS
<1>12. /\ lev2 \in [Pool -> -1 .. 6] /\ lev2[r] = -1
       /\ \A g \in Pool : own[g] = P => lev2[g] \in {-1, 5} \/ (lev2[g] = 6 /\ lev[g] = 6)
       /\ \A g \in Pool : own[g] # P => lev2[g] = lev[g]
       /\ \A g \in Pool : lev[g] = 6 => lev2[g] = 6
       /\ \A g \in Pool : lev[g] = -1 => lev2[g] = -1
  BY <1>6, <1>11
<1>13. Ownership(own, lev2)'
  <2>1. Tree(own, lev2, mem) /\ Rooted(lev2, mem)
    BY <1>12, Drop DEF Ownership
  <2>2. /\ \A q \in ready : Complete(own, lev2, mem, q)'
        /\ \A d \in Cpus \ {c} : Busy(d)' => Making(own, lev2, mem, d, proc[d])'
        /\ \A d \in up : pc[d] # "lost" /\ cr3'[d] = cr3[d] => Loaded(lev2, d)'
    <3>1. Aside(own, lev, own, lev2, c, P)
      BY <1>1, <1>4, <1>7, <1>8, <1>12 DEF Aside, Keeps
    <3> QED
      BY <3>1, Others
  <2>3. \A g \in free' : lev2[g] = -1
    BY <1>1, <1>3, <1>5, <1>6, <1>12 DEF Ownership
  <2>4. \A d \in up' : pc'[d] # "lost" => Loaded(lev2, d)'
    BY <1>1, <1>5, <1>7, <2>2
  <2> QED
    BY <1>1, <1>8, <1>12, <2>1, <2>2, <2>3, <2>4 DEF Ownership
<1> QED
  BY <1>8, <1>9, <1>10, <1>12, <1>13 DEF Inv

LEMMA SwitchInv ==
  ASSUME TypeOK, Control, Kernel, NEW own \in [Pool -> Processes \cup {None}],
         NEW lev \in [Pool -> -1 .. 6], Ownership(own, lev), NEW c \in Cpus,
         NEW p \in Processes, mu_pmap_writevas(c, p)
  PROVE  Inv'
<1>1. pc[c] = "idle" /\ UNCHANGED <<free, mem, up, space, ready, failed, proc, table, curlvl, dest>>
  BY DEF mu_pmap_writevas, Goto, spaceVars, locals
<1>2. c \in up /\ ~Busy(c) /\ BSP \in Cpus /\ pc[BSP] # "boot"
  BY <1>1, MmuAssumption DEF Control, Busy
<1>3. /\ pc \in [Cpus -> Locations] /\ up \subseteq Cpus /\ cr3 \in [Cpus -> Frames \cup {None}]
      /\ space \in [Processes -> [root : Frames \cup {None}, stack : Frames \cup {None}]]
      /\ None \notin ready
  BY MmuAssumption DEF TypeOK
<1>4. /\ pc' \in [Cpus -> Locations] /\ pc'[c] \in {"idle", "lost"}
      /\ cr3' \in [Cpus -> Frames \cup {None}]
      /\ \A d \in Cpus \ {c} : pc'[d] = pc[d] /\ cr3'[d] = cr3[d]
      /\ pc'[c] = "idle" => \E q \in ready : cr3'[c] = space[q].root
  <2>1. CASE p \in ready /\ Goto(c, "idle", "idle") /\ cr3' = [cr3 EXCEPT ![c] = space[p].root]
    BY <1>3, <2>1 DEF Goto, Locations
  <2>2. CASE Goto(c, "idle", "lost") /\ UNCHANGED cr3
    BY <1>3, <2>2 DEF Goto, Locations
  <2> QED
    BY <2>1, <2>2 DEF mu_pmap_writevas
<1>5. TypeOK'
  BY <1>1, <1>4 DEF TypeOK
<1>6. \A d \in Cpus : Busy(d)' <=> Busy(d)
  BY <1>2, <1>4 DEF Busy
<1>7. Control'
  BY <1>1, <1>2, <1>4, <1>6 DEF Control
<1>8. Kernel'
  BY <1>1, <1>4 DEF Kernel
<1>9. Ownership(own, lev)'
  <2>1. /\ \A q \in ready : Complete(own, lev, mem, q)'
        /\ \A d \in Cpus \ {c} : Busy(d)' => Making(own, lev, mem, d, proc[d])'
        /\ \A d \in up : pc[d] # "lost" /\ cr3'[d] = cr3[d] => Loaded(lev, d)'
    <3>1. Aside(own, lev, own, lev, c, None)
      BY <1>1, <1>3, <1>4 DEF Aside, Keeps
    <3> QED
      BY <3>1, Others
  <2>2. pc'[c] # "lost" => Loaded(lev, c)'
    BY <1>1, <1>4 DEF Loaded
  <2>3. \A d \in up' : pc'[d] # "lost" => Loaded(lev, d)'
    BY <1>1, <1>3, <1>4, <2>1, <2>2
  <2> QED
    BY <1>1, <1>2, <1>6, <2>1, <2>3 DEF Ownership
<1> QED
  BY <1>5, <1>7, <1>8, <1>9 DEF Inv

LEMMA StutterInv ==
  ASSUME TypeOK, Control, Kernel, NEW own \in [Pool -> Processes \cup {None}],
         NEW lev \in [Pool -> -1 .. 6], Ownership(own, lev), UNCHANGED vars
  PROVE  Inv'
<1>1. UNCHANGED <<free, mem, cr3, up, space, ready, failed, pc, proc, table, curlvl, dest>>
  BY DEF vars, spaceVars, locals
<1>2. TypeOK' /\ Control' /\ Kernel'
  BY <1>1 DEF TypeOK, Control, Kernel, Busy
<1>3. Ownership(own, lev)'
  BY <1>1 DEF Ownership, Complete, Making, Loaded, Busy
<1> QED
  BY <1>2, <1>3 DEF Inv

LEMMA Invariance == Spec => []Inv
<1>1. ASSUME Inv, [Next]_vars PROVE Inv'
  <2>1. PICK own \in [Pool -> Processes \cup {None}], lev \in [Pool -> -1 .. 6] : Ownership(own, lev)
    BY <1>1 DEF Inv
  <2>2. TypeOK /\ Control /\ Kernel
    BY <1>1 DEF Inv
  <2>3. CASE mu_pmap_init
    BY <2>1, <2>2, <2>3, BootInv
  <2>4. ASSUME NEW c \in Cpus, cpu_start(c) PROVE Inv'
    BY <2>1, <2>2, <2>4, StartInv
  <2>5. ASSUME NEW c \in Cpus, clean_addrsp(c) PROVE Inv'
    BY <2>1, <2>2, <2>5, CleanInv
  <2>6. ASSUME NEW c \in Cpus, AllocStack(c) PROVE Inv'
    BY <2>1, <2>2, <2>6, StackInv
  <2>7. ASSUME NEW c \in Cpus, pmap_get_level(c) PROVE Inv'
    BY <2>1, <2>2, <2>7, LevelInv
  <2>8. ASSUME NEW c \in Cpus, mu_pmap_map(c) PROVE Inv'
    BY <2>1, <2>2, <2>8, MapInv
  <2>9. ASSUME NEW c \in Cpus, FreeStack(c) PROVE Inv'
    BY <2>1, <2>2, <2>9, FreeStackInv
  <2>10. ASSUME NEW c \in Cpus, FreeRoot(c) PROVE Inv'
    BY <2>1, <2>2, <2>10, FreeRootInv
  <2>11. ASSUME NEW c \in Cpus, NEW p \in Processes, mu_process_init(c, p) PROVE Inv'
    BY <2>1, <2>2, <2>11, ProcessInv
  <2>12. ASSUME NEW c \in Cpus, NEW p \in Processes, mu_pmap_writevas(c, p) PROVE Inv'
    BY <2>1, <2>2, <2>12, SwitchInv
  <2>13. CASE UNCHANGED vars
    BY <2>1, <2>2, <2>13, StutterInv
  <2> QED
    BY <1>1, <2>3, <2>4, <2>5, <2>6, <2>7, <2>8, <2>9, <2>10, <2>11, <2>12, <2>13 DEF Next
<1> QED
  BY <1>1, InitInv, PTL DEF Spec
-----------------------------------------------------------------------------
(* TypeCorrect: every variable keeps its type.  "panic" is not among the   *)
(* locations: while the stack is being mapped, pmap_get_level never meets  *)
(* a present entry, so its second decrement of the level, which would wrap *)
(* it and make pmap_get_index panic, is not reached.                       *)
THEOREM TypeCorrect == Spec => []TypeOK
<1>1. Inv => TypeOK
  BY DEF Inv
<1> QED
  BY <1>1, Invariance, PTL

(* KernelInAll: whatever root a processor that is up runs on, it maps the  *)
(* kernel as the boot processor's does, it has no identity mapping below   *)
(* and it is not free (mu_pmap_forkvas, mu_pmap_init, clean_addrsp).       *)
THEOREM KernelInAll == Spec => []KernelMapped
<1>1. ASSUME Inv PROVE KernelMapped
  <2>1. PICK own \in [Pool -> Processes \cup {None}], lev \in [Pool -> -1 .. 6] : Ownership(own, lev)
    BY <1>1 DEF Inv
  <2>2. SUFFICES ASSUME NEW c \in up, pc[c] # "lost"
                 PROVE  /\ \A i \in Index \ Lower : mem[cr3[c]][i] = mem[KernelRoot][i]
                        /\ Entries({cr3[c]}, Lower) \cap {LoaderTable, BootTable} = {}
                        /\ cr3[c] \notin free
    BY DEF KernelMapped
  <2>3. /\ cr3[c] \notin free
        /\ \A i \in Index \ Lower : mem[cr3[c]][i] = mem[KernelRoot][i]
        /\ \A i \in Lower : mem[cr3[c]][i] \in Pool \cup {None}
    BY <1>1, <2>1, <2>2, RootFacts DEF Inv
  <2>4. LoaderTable \notin Pool /\ BootTable \notin Pool
    BY LoaderAssumption DEF Loader
  <2>5. Entries({cr3[c]}, Lower) \subseteq Pool
    BY <2>3 DEF Entries
  <2> QED
    BY <2>3, <2>4, <2>5
<1> QED
  BY <1>1, Invariance, PTL

(* FramesPrivate: the frames a ready process's root leads to are its own:  *)
(* its stack is one of them, none is free or the loader's, and no other    *)
(* ready process's root leads to any of them, although freed roots and     *)
(* stacks are recycled with their contents and levels of a process whose   *)
(* initialisation failed stay behind (mu_process_init, pmap_get_level).    *)
THEOREM FramesPrivate == Spec => []SpacesPrivate
<1>1. ASSUME Inv PROVE SpacesPrivate
  <2>1. PICK own \in [Pool -> Processes \cup {None}], lev \in [Pool -> -1 .. 6] : Ownership(own, lev)
    BY <1>1 DEF Inv
  <2> DEFINE Of(p) == {g \in Pool : own[g] = p /\ lev[g] # -1}
  <2>2. \A p : Of(p) \subseteq Pool \ free
    BY <2>1 DEF Ownership
  <2>3. \A p, q : p # q => Of(p) \cap Of(q) = {}
    OBVIOUS
  <2>4. ASSUME NEW p \in ready
        PROVE  Private(space[p].root) \subseteq Of(p) /\ space[p].stack \in Private(space[p].root)
    <3>1. PICK r, t : r = space[p].root /\ t = space[p].stack
      OBVIOUS
    <3>2. Complete(own, lev, mem, p)
      BY <2>1 DEF Ownership
    <3>3. Is(own, lev, r, p, 0) /\ Is(own, lev, t, p, 4) /\ Linked(own, lev, mem, p, r, t, 4)
      BY <3>1, <3>2 DEF Complete
    <3> DEFINE At(n) == {g \in Pool : own[g] = p /\ lev[g] = n}
    <3>4. \A n \in 0 .. 4 : At(n) \subseteq Of(p)
      OBVIOUS
    <3>5. ASSUME NEW n \in 1 .. 3, NEW tables, tables \subseteq At(n)
          PROVE  Entries(tables, Index) \subseteq At(n + 1)
      <4>1. Own(n) = Index
        BY DEF Own
      <4>2. \A g \in tables : \A i \in Index : mem[g][i] # None => mem[g][i] \in At(n + 1)
        BY <2>1, <3>5, <4>1 DEF Ownership, Tree
      <4> QED
        BY <4>2 DEF Entries
    <3>6. Entries({r}, Lower) \subseteq At(1)
      <4>1. r \in Pool /\ own[r] = p /\ lev[r] = 0 /\ Own(0) = Lower
        BY <3>3 DEF Is, Own
      <4>2. \A i \in Lower : mem[r][i] # None => mem[r][i] \in At(1)
        BY <2>1, <4>1 DEF Ownership, Tree
      <4> QED
        BY <4>2 DEF Entries
    <3> DEFINE first == Entries({r}, Lower)
               second == Entries(first, Index)
               third == Entries(second, Index)
               fourth == Entries(third, Index)
    <3>7. Private(r) = {r} \cup first \cup second \cup third \cup fourth
      BY DEF Private
    <3>8. r \in Of(p)
      BY <3>3 DEF Is
    <3>9. t \in fourth
      <4>1. PICK a, b, e \in Pool : /\ mem[r][S1] = a /\ mem[a][S2] = b
                                    /\ mem[b][S3] = e /\ mem[e][S3] = t
        BY <3>3 DEF Linked
      <4>2. t \in Pool /\ None \notin Pool /\ S1 \in Lower /\ S2 \in Index /\ S3 \in Index
        BY <3>3, MmuAssumption, IndexFacts DEF Is
      <4>3. a \in first
        BY <4>1, <4>2 DEF Entries
      <4> HIDE DEF first
      <4>4. b \in second
        BY <4>1, <4>2, <4>3 DEF Entries
      <4> HIDE DEF second
      <4>5. e \in third
        BY <4>1, <4>2, <4>4 DEF Entries
      <4> HIDE DEF third
      <4> QED
        BY <4>1, <4>2, <4>5 DEF Entries
    <3>10. first \subseteq At(1)
      BY <3>6
    <3> HIDE DEF first
    <3>11. second \subseteq At(2)
      BY <3>5, <3>10
    <3> HIDE DEF second
    <3>12. third \subseteq At(3)
      BY <3>5, <3>11
    <3> HIDE DEF third
    <3>13. fourth \subseteq At(4)
      BY <3>5, <3>12
    <3> HIDE DEF fourth, At, Of
    <3> QED
      BY <3>1, <3>4, <3>7, <3>8, <3>9, <3>11, <3>12, <3>13, <3>10
  <2> HIDE DEF Of
  <2> QED
    BY <2>2, <2>3, <2>4 DEF SpacesPrivate
<1> QED
  BY <1>1, Invariance, PTL
=============================================================================
