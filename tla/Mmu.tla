-------------------------------- MODULE Mmu --------------------------------
(***************************************************************************)
(* Address spaces: sys/arch/amd64/cpu/mmu.c, and the code that makes them, *)
(* mu_process_init (sys/arch/amd64/os/os_process.c) and clean_addrsp       *)
(* (sys/arch/amd64/cpu/mp.c).  A table is a function from indices to       *)
(* frames; protection bits are left out.  vm_phys_alloc takes the frame    *)
(* under its own lock (module PhysMem), so one action makes at most one    *)
(* call of it, and what happens in between interleaves.  A frame keeps its *)
(* contents when it is freed.                                              *)
(***************************************************************************)
EXTENDS Integers, FiniteSets

CONSTANTS Cpus, BSP, Processes, None,
          Pool,         \* frames that are free when mu_pmap_init runs
          KernelRoot,   \* the root the boot loader left in CR3
          BootRoot,     \* ap_bootspace.pml4 (module Mp)
          LoaderTable, BootTable,  \* what their identity mappings lead to
          KernelTable,  \* what the upper half leads to
          Slots, Half,  \* 512 and 256 in the code
          PAGESIZE,
          STACK_TOP     \* an address

PML1 == 0
PML2 == 1
PML3 == 2
PML4 == 3

Loader == {KernelRoot, BootRoot, LoaderTable, BootTable, KernelTable}

ASSUME MmuAssumption ==
  /\ BSP \in Cpus
  /\ Slots \in Nat /\ Half \in 1 .. Slots - 1
  /\ PAGESIZE \in Nat \ {0} /\ STACK_TOP \in Nat
  /\ Pool \subseteq Nat
  /\ None \notin Pool \cup Loader \cup Processes
ASSUME LoaderAssumption ==
  /\ Pool \cap Loader = {}
  /\ KernelRoot # BootRoot /\ {KernelRoot, BootRoot} \cap {LoaderTable, BootTable} = {}

Frames == Pool \cup Loader
Index == 0 .. Slots - 1
Zeroed == [i \in Index |-> None]
Lower == {i \in Index : i < Half}

VARIABLES free,     \* frames vm_phys_alloc can hand out
          mem,      \* contents of the frames that are tables
          cr3,      \* per processor
          up,       \* processors that left clean_addrsp; BSP: ran mu_pmap_init
          space,    \* per process: pcb.vas.cr3 and the stack's frame
          ready,    \* processes mu_process_init returned 0 for
          failed,   \* ... and an error for, which process_init drops
          pc, proc, table, curlvl, dest   \* per processor: location, process,
                    \* locals of pmap_get_level; the root being made

spaceVars == <<space, ready, failed>>
locals == <<proc, table, curlvl, dest>>
vars == <<free, mem, cr3, up, spaceVars, pc, locals>>

NoSpace == [root |-> None, stack |-> None]

Init ==
  /\ free = Pool
  /\ mem = [f \in Frames |->
       CASE f = KernelRoot ->
              [i \in Index |-> IF i = 0 THEN LoaderTable
                               ELSE IF i \in Lower THEN None ELSE KernelTable]
         [] OTHER -> Zeroed]
  /\ cr3 = [c \in Cpus |-> IF c = BSP THEN KernelRoot ELSE None]
  /\ up = {}
  /\ space = [p \in Processes |-> NoSpace]
  /\ ready = {} /\ failed = {}
  /\ pc = [c \in Cpus |-> IF c = BSP THEN "boot" ELSE "off"]
  /\ proc = [c \in Cpus |-> None]
  /\ table = [c \in Cpus |-> None]
  /\ curlvl = [c \in Cpus |-> 0]
  /\ dest = [c \in Cpus |-> None]

(* The slot of an address in a table of the level.                         *)
pmap_get_index(va, level) ==
  CASE level = PML4 -> (va \div (PAGESIZE * Slots * Slots * Slots)) % Slots
    [] level = PML3 -> (va \div (PAGESIZE * Slots * Slots)) % Slots
    [] level = PML2 -> (va \div (PAGESIZE * Slots)) % Slots
    [] level = PML1 -> (va \div PAGESIZE) % Slots

(* The stack is at the start of the lower half: 0xBFFFFFFF is in slot 2 of *)
(* a PML3.                                                                 *)
ASSUME StackAssumption == pmap_get_index(STACK_TOP, PML3) < Half

mu_pmap_readvas(c) == cr3[c]

Goto(c, from, to) == pc[c] = from /\ pc' = [pc EXCEPT ![c] = to]

(* What vm_phys_alloc(1) may return.  Frames that were never written are   *)
(* interchangeable, so of those it is the first one.                       *)
Blank == {f \in free : mem[f] = Zeroed}
Allocatable == (free \ Blank) \cup {f \in Blank : \A g \in Blank : f <= g}
-----------------------------------------------------------------------------
(* Runs before any processor but the first is started.                     *)
mu_pmap_init ==
  /\ Goto(BSP, "boot", "idle")
  /\ mem' = [mem EXCEPT ![mu_pmap_readvas(BSP)] =
       [i \in Index |-> IF i \in Lower THEN None ELSE @[i]]]
  /\ up' = up \cup {BSP}
  /\ UNCHANGED <<free, cr3, spaceVars, locals>>

(* cpu_init_bootspace copies the root in use, lower half and all, and puts *)
(* an identity mapping into its first slot; then the processor starts.     *)
cpu_start(c) ==
  /\ BSP \in up /\ pc[BSP] = "idle" /\ Goto(c, "off", "fork")
  /\ mem' = [mem EXCEPT ![BootRoot] = [mem[mu_pmap_readvas(BSP)] EXCEPT ![0] = BootTable]]
  /\ cr3' = [cr3 EXCEPT ![c] = BootRoot]
  /\ UNCHANGED <<free, up, spaceVars, locals>>

(* Fork that clears one entry too many.                                    *)
Fork_OffByOne(root) == [i \in Index |-> IF i <= Half THEN None ELSE mem[root][i]]

(* The copy mu_pmap_forkvas makes of the current root.                     *)
Fork(root) == [i \in Index |-> IF i < Half THEN None ELSE mem[root][i]]

(* mu_pmap_forkvas for clean_addrsp: the error is not looked at, and with  *)
(* no frame CR3 is loaded from an uninitialised local.                     *)
clean_addrsp(c) ==
  \/ \E f \in Allocatable :
       /\ Goto(c, "fork", "idle")
       /\ free' = free \ {f}
       /\ mem' = [mem EXCEPT ![f] = Fork(mu_pmap_readvas(c))]
       /\ cr3' = [cr3 EXCEPT ![c] = f]
       /\ up' = up \cup {c}
       /\ UNCHANGED <<spaceVars, locals>>
  \/ /\ free = {} /\ Goto(c, "fork", "lost")
     /\ UNCHANGED <<free, mem, cr3, up, spaceVars, locals>>
-----------------------------------------------------------------------------
(* process_init and mu_process_init: the address space first.              *)
mu_process_init(c, p) ==
  /\ p \notin ready \cup failed /\ \A d \in Cpus : proc[d] # p
  /\ \/ \E f \in Allocatable :
          /\ Goto(c, "idle", "stack")
          /\ free' = free \ {f}
          /\ mem' = [mem EXCEPT ![f] = Fork(mu_pmap_readvas(c))]
          /\ dest' = [dest EXCEPT ![c] = f]
          /\ space' = [space EXCEPT ![p].root = f]
          /\ proc' = [proc EXCEPT ![c] = p]
          /\ UNCHANGED failed
     \/ /\ free = {} /\ Goto(c, "idle", "idle")
        /\ failed' = failed \cup {p}
        /\ UNCHANGED <<free, mem, dest, space, proc>>
  /\ UNCHANGED <<cr3, up, ready, table, curlvl>>

AllocStack(c) ==
  /\ \/ \E f \in Allocatable :
          /\ Goto(c, "stack", "descend")
          /\ free' = free \ {f}
          /\ space' = [space EXCEPT ![proc[c]].stack = f]
     \/ /\ free = {} /\ Goto(c, "stack", "free_root")
        /\ UNCHANGED <<free, space>>
  /\ table' = [table EXCEPT ![c] = dest[c]]
  /\ curlvl' = [curlvl EXCEPT ![c] = PML4]
  /\ UNCHANGED <<mem, cr3, up, ready, failed, proc, dest>>

(* A new level that is not cleared.                                        *)
Cleared_Not(f) == mem[f]

(* memset of a new level.                                                  *)
Cleared(f) == Zeroed

(* One turn of the loop of pmap_get_level.  The level is decremented       *)
(* before it chooses the index, and once more when the entry is present;   *)
(* when that wraps it, pmap_get_index panics.                              *)
pmap_get_level(c) ==
  LET lvl == curlvl[c] - 1
      entry == mem[table[c]][pmap_get_index(STACK_TOP, lvl)]
  IN  /\ pc[c] = "descend" /\ curlvl[c] > PML1
      /\ IF entry # None
         THEN /\ Goto(c, "descend", IF lvl = PML1 THEN "panic" ELSE "descend")
              /\ table' = [table EXCEPT ![c] = entry]
              /\ curlvl' = [curlvl EXCEPT ![c] = lvl - 1]
              /\ UNCHANGED <<free, mem>>
         ELSE \/ \E f \in Allocatable :
                   /\ Goto(c, "descend", "descend")
                   /\ free' = free \ {f}
                   /\ mem' = [mem EXCEPT ![f] = Cleared(f),
                                         ![table[c]][pmap_get_index(STACK_TOP, lvl)] = f]
                   /\ table' = [table EXCEPT ![c] = f]
                   /\ curlvl' = [curlvl EXCEPT ![c] = lvl]
              \/ /\ free = {} /\ Goto(c, "descend", "free_stack")
                 /\ UNCHANGED <<free, mem, table, curlvl>>
      /\ UNCHANGED <<cr3, up, spaceVars, proc, dest>>

Return(c) == proc' = [proc EXCEPT ![c] = None] /\ dest' = [dest EXCEPT ![c] = None]

(* The rest of mu_pmap_map, and mu_process_init returns.                   *)
mu_pmap_map(c) ==
  /\ curlvl[c] = PML1 /\ Goto(c, "descend", "idle")
  /\ mem' = [mem EXCEPT ![table[c]][pmap_get_index(STACK_TOP, PML1)] = space[proc[c]].stack]
  /\ ready' = ready \cup {proc[c]}
  /\ Return(c)
  /\ UNCHANGED <<free, cr3, up, space, failed, table, curlvl>>

(* The error paths.  Levels that were already linked stay allocated.       *)
FreeStack(c) ==
  /\ Goto(c, "free_stack", "free_root")
  /\ free' = free \cup {space[proc[c]].stack}
  /\ UNCHANGED <<mem, cr3, up, spaceVars, locals>>

FreeRoot(c) ==
  /\ Goto(c, "free_root", "idle")
  /\ free' = free \cup {space[proc[c]].root}
  /\ failed' = failed \cup {proc[c]}
  /\ Return(c)
  /\ UNCHANGED <<mem, cr3, up, space, ready, table, curlvl>>

(* mu_process_switch loads the root of the next process.  One whose        *)
(* initialisation failed is in the queue like any other, with a root that  *)
(* is free or was never set: the processor is not followed any further.    *)
mu_pmap_writevas(c, p) ==
  /\ \/ p \in ready /\ Goto(c, "idle", "idle") /\ cr3' = [cr3 EXCEPT ![c] = space[p].root]
     \/ p \in failed /\ Goto(c, "idle", "lost") /\ UNCHANGED cr3
  /\ UNCHANGED <<free, mem, up, spaceVars, locals>>

Next ==
  \/ mu_pmap_init
  \/ \E c \in Cpus :
       \/ cpu_start(c) \/ clean_addrsp(c)
       \/ AllocStack(c) \/ pmap_get_level(c) \/ mu_pmap_map(c)
       \/ FreeStack(c) \/ FreeRoot(c)
       \/ \E p \in Processes : mu_process_init(c, p) \/ mu_pmap_writevas(c, p)

Spec == Init /\ [][Next]_vars
-----------------------------------------------------------------------------
Entries(tables, indices) == {mem[t][i] : t \in tables, i \in indices} \ {None}

(* The frames only this root leads to: root, three levels and the page.    *)
Private(root) ==
  LET first == Entries({root}, Lower)
      second == Entries(first, Index)
      third == Entries(second, Index)
  IN  {root} \cup first \cup second \cup third \cup Entries(third, Index)

(* SpacesPrivate: the frames of a process are its own: no other process's  *)
(* tables lead to them, they are not free, and none of them is a table of  *)
(* the kernel or of the bring-up.  It takes a zeroed lower half in         *)
(* mu_pmap_forkvas, zeroed levels in pmap_get_level although a freed root  *)
(* is recycled as one, and error paths that free what nobody refers to.    *)
SpacesPrivate ==
  /\ \A p \in ready :
       /\ Private(space[p].root) \subseteq Pool \ free
       /\ space[p].stack \in Private(space[p].root)
  /\ \A p, q \in ready : p # q =>
       Private(space[p].root) \cap Private(space[q].root) = {}

(* KernelMapped: whatever address space a processor runs in, the kernel is *)
(* mapped in it as it is everywhere, and once bring-up is over no identity *)
(* mapping is left below (mu_pmap_forkvas, mu_pmap_init, clean_addrsp).    *)
KernelMapped ==
  \A c \in up : pc[c] # "lost" =>
    /\ \A i \in Index \ Lower : mem[cr3[c]][i] = mem[KernelRoot][i]
    /\ Entries({cr3[c]}, Lower) \cap {LoaderTable, BootTable} = {}
    /\ cr3[c] \notin free

(* StackMapped: mu_pmap_map creates a virtual to physical mapping: once    *)
(* mu_process_init has returned 0, the processor's own walk of the stack's *)
(* address, from PML4 down to PML1, ends at the stack's frame.             *)
StackMapped ==
  LET Walk(t, lvl) == IF t = None THEN None ELSE mem[t][pmap_get_index(STACK_TOP, lvl)]
  IN  \A p \in ready :
        Walk(Walk(Walk(Walk(space[p].root, PML4), PML3), PML2), PML1) = space[p].stack
=============================================================================
