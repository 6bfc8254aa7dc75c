--------------------------------- MODULE Mp ---------------------------------
(***************************************************************************)
(* Bring-up of the application processors: cpu_start_aps and its callees   *)
(* on the boot processor, apboot.asm and cpu_lm_entry on each application  *)
(* processor (sys/arch/amd64/cpu/mp.c, sys/arch/amd64/boot/apboot.asm),    *)
(* with the MADT walk of acpi_read_madt and the IPIs of lapic_send_ipi.    *)
(*                                                                         *)
(* The processors meet in the bring-up descriptor at a fixed address       *)
(* (buda), in the counter aps_up, in the table cpu_list and in the pool of *)
(* physical frames, which is used as FrameAlloc describes it, lowest frame *)
(* first, as PhysScan shows of its scan.  One action per step between two  *)
(* of those shared accesses.  The trampoline and the descriptor lie in two *)
(* pages that nothing takes out of the pool, so either of them may be      *)
(* handed out as a page table and cleared.                                 *)
(***************************************************************************)
EXTENDS Integers, Sequences, FiniteSets

CONSTANTS Aps,          \* local APIC ids of the application processors
          Bsp,          \* local APIC id of the boot processor
          Madts,        \* MADTs: sequences of records of type, apic_id, online
          MAX_CPUS,     \* length of cpu_list
          Frames,       \* physical frames
          AP_BUA,       \* the frame the trampoline is copied to
          AP_BUDA,      \* the frame of the descriptor
          Supplies,     \* what memory may be left when cpu_start_aps is called:
                        \* pairs of the free frames and the number of objects
                        \* (struct process, struct cpu_info) kalloc can give
          StaleBooted,  \* what buda.is_booted may hold at boot: memory at a
                        \* fixed address that nothing initialises
          ApicModes,    \* may the local APICs be in x2APIC mode, or not?
          Junk,         \* an address space nobody set up
          Nobody        \* a NULL entry of cpu_list

ASSUME FramesAssumption == Frames \subseteq Nat \ {0} /\ IsFiniteSet(Frames)
ASSUME AreaAssumption   == AP_BUA \in Frames /\ AP_BUDA \in Frames /\ AP_BUA # AP_BUDA
ASSUME SupplyAssumption == Supplies \subseteq (SUBSET Frames) \X Nat
ASSUME ApsAssumption    == IsFiniteSet(Aps) /\ Bsp \notin Aps
ASSUME MadtAssumption   ==
  Madts \subseteq Seq([type : {"lapic", "other"}, apic_id : Aps \cup {Bsp}, online : BOOLEAN])
ASSUME DistinctAssumption ==
  \A m \in Madts : \A i, j \in DOMAIN m :
    m[i].type = "lapic" /\ m[j].type = "lapic" /\ m[i].apic_id = m[j].apic_id => i = j
ASSUME BoundAssumption  == MAX_CPUS \in Nat /\ MAX_CPUS >= 2
ASSUME StaleAssumption  == StaleBooted \subseteq {0, 1}
ASSUME ModeAssumption   == ApicModes \subseteq BOOLEAN
ASSUME NobodyAssumption == Nobody \notin Aps \cup {Bsp} /\ Junk \notin Frames \cup {0}

VARIABLES free,       \* frames marked free in the bitmap
          low,        \* low[f]: the tables that page table f links to in the
                      \* lower half of the address space
          bs,         \* the static struct ap_bootspace
          bs_ok,      \* did cpu_init_bootspace return 0?  Nobody looks.
          buda,       \* the bring-up descriptor at AP_BUDA_PADDR
          ap_count, aps_up, cpu_list,   \* the statics of those names
          bpc, k, retval,   \* boot processor: location, MADT position,
                            \* acpi_read_madt's local
          pc,         \* pc[a]: where application processor a is
          cr3, rsp,   \* its page-table root and its stack frame
          id,         \* id[a]: the id field of its struct cpu_info
          mtrr_save,  \* the boot processor's memory types, once saved
          mtrr,       \* mtrr[a]: the memory types processor a works with
          slots,      \* objects the heap can still hold
          bua,        \* does AP_BUA hold the trampoline?
          intact,     \* history: is_booted was 0 at boot and neither page of
                      \* the bring-up was handed out as a page table
          x2apic,     \* are the local APICs in x2APIC mode?
          madt        \* the MADT

bspVars == <<bpc, k, retval>>
apVars  == <<pc, cr3, rsp, id, mtrr>>
fixed == <<bs_ok, mtrr_save, x2apic, madt>>   \* what only StartAps, or nothing, changes
area == <<bua, intact>>
vars == <<free, low, bs, buda, ap_count, aps_up, cpu_list, bspVars, apVars, slots, fixed, area>>

(* Memory types: what the firmware set up on the boot processor, what      *)
(* another processor starts with, and a static nobody assigned.            *)
MemoryTypes == {"firmware", "reset", "zero"}

Tables == {"pml4", "pml3", "pml2", "pml1"}

BspLocations == {"start", "idle", "madt", "init_ipi", "startup1", "startup2",
                 "wait", "ack", "wait_up", "free", "done", "panic", "reset"}

(* "on" and "stack" execute apboot.asm, "announce" is its last store, the  *)
(* locations from "entry" on are in cpu_lm_entry.                          *)
ApLocations == {"off", "parked", "on", "stack", "announce", "entry", "alloc",
                "conf", "inc", "publish", "idle", "panic", "lost"}

TypeOK ==
  /\ free \subseteq Frames \cup {0}
  /\ low \in [Frames \cup {0} -> SUBSET Frames]
  /\ bs \in [Tables -> Frames \cup {0}]
  /\ buda \in [cr3 : Frames \cup {0}, rsp : Frames \cup {0}, is_booted : {0, 1}]
  /\ ap_count \in Nat /\ aps_up \in Nat
  /\ cpu_list \in [0 .. MAX_CPUS - 1 -> Aps \cup {Bsp, Nobody}]
  /\ bpc \in BspLocations
  /\ k \in Nat \ {0}
  /\ retval \in {"unset", "minus1", "zero"}
  /\ pc \in [Aps -> ApLocations]
  /\ cr3 \in [Aps -> Frames \cup {0, Junk}]
  /\ rsp \in [Aps -> Frames \cup {0}]
  /\ id \in [Aps -> Nat]
  /\ slots \in Nat
  /\ bua \in BOOLEAN /\ intact \in BOOLEAN
  /\ mtrr_save \in MemoryTypes /\ mtrr \in [Aps -> MemoryTypes]
  /\ bs_ok \in BOOLEAN /\ x2apic \in BOOLEAN /\ madt \in Madts

Init ==
  /\ \E m \in Supplies : free = m[1] /\ slots = m[2]
  /\ low = [f \in Frames \cup {0} |-> {}]
  /\ bs = [t \in Tables |-> 0]
  /\ \E b \in StaleBooted : /\ buda = [cr3 |-> 0, rsp |-> 0, is_booted |-> b]
                            /\ intact = (b = 0)
  /\ bua = FALSE
  /\ ap_count = 0 /\ aps_up = 0
  /\ cpu_list = [i \in 0 .. MAX_CPUS - 1 |-> Nobody]
  /\ bpc = "start" /\ k = 1 /\ retval = "unset"
  /\ pc = [a \in Aps |-> "off"]
  /\ cr3 = [a \in Aps |-> 0]
  /\ rsp = [a \in Aps |-> 0]
  /\ id = [a \in Aps |-> 0]
  /\ mtrr_save = "zero" /\ mtrr = [a \in Aps |-> "reset"]
  /\ bs_ok = FALSE /\ x2apic \in ApicModes /\ madt \in Madts
-----------------------------------------------------------------------------
(* vm_phys_alloc(1): the lowest free frame.                                *)
IsLowest(S, f) == f \in S /\ \A g \in S : f <= g

(* The n lowest frames, for callers that allocate n in a row.              *)
Lowest(S, n) == {f \in S : Cardinality({g \in S : g < f}) < n}

(* What becomes of the bring-up's pages when the frames F are handed out   *)
(* as page tables, which are cleared.                                      *)
Clears(F) ==
  /\ bua' = (bua /\ AP_BUA \notin F)
  /\ buda' = IF AP_BUDA \in F THEN [cr3 |-> 0, rsp |-> 0, is_booted |-> 0] ELSE buda
  /\ intact' = (intact /\ AP_BUA \notin F /\ AP_BUDA \notin F)

(* The four tables T, root r and last one l, are linked, and then the      *)
(* trampoline is copied to AP_BUA - over a table that lies there.  A last  *)
(* table in the descriptor's page gives is_booted the entry of page 3, a   *)
(* root that of the old root's lower half, which is empty.                 *)
CopyTrampoline(T, r, l) ==
  /\ bua' = TRUE
  /\ low' = IF AP_BUA \in T THEN low ELSE [low EXCEPT ![r] = T \ {r}]
  /\ buda' = [buda EXCEPT !.is_booted = IF AP_BUDA = l THEN 1 ELSE IF AP_BUDA = r THEN 0 ELSE @]
  /\ intact' = (intact /\ AP_BUA \notin T /\ AP_BUDA \notin T)

(* cpu_init_bootspace.  The four tables are allocated in order; when one   *)
(* is missing those before it are freed, but bs keeps their addresses.     *)
InitBootspace ==
  \/ \E p4 \in free, p3 \in free, p2 \in free, p1 \in free :
       /\ p4 < p3 /\ p3 < p2 /\ p2 < p1
       /\ {p4, p3, p2, p1} = Lowest(free, 4)
       /\ bs' = [pml4 |-> p4, pml3 |-> p3, pml2 |-> p2, pml1 |-> p1]
       /\ free' = free \ {p4, p3, p2, p1}
       /\ CopyTrampoline({p4, p3, p2, p1}, p4, p1)
       /\ bs_ok' = TRUE
  \/ /\ Cardinality(free) < 4
     /\ \E filled \in [Tables -> free \cup {0}] :
          /\ {filled[t] : t \in Tables} \ {0} = free
          /\ \A s, t \in Tables : filled[s] = filled[t] /\ s # t => filled[s] = 0
          /\ \A q \in {<<"pml4", "pml3">>, <<"pml3", "pml2">>, <<"pml2", "pml1">>} :
               /\ filled[q[1]] = 0 => filled[q[2]] = 0
               /\ filled[q[2]] # 0 => filled[q[1]] < filled[q[2]]
          /\ bs' = filled
     /\ bs_ok' = FALSE
     /\ bua' = TRUE
     /\ UNCHANGED <<free, low, buda, intact>>

cpu_mtrr_save == mtrr_save' = "firmware"

(* cpu_start_aps up to cpu_start_idle, the copying of the trampoline       *)
(* included; the result of cpu_init_bootspace is not looked at.            *)
StartAps ==
  /\ bpc = "start"
  /\ cpu_list' = [cpu_list EXCEPT ![0] = Bsp]
  /\ InitBootspace
  /\ cpu_mtrr_save
  /\ bpc' = "idle"
  /\ UNCHANGED <<ap_count, aps_up, k, retval, apVars, slots, x2apic, madt>>

(* cpu_start_idle.  ap_count is still 0, so it makes one process, from the *)
(* heap, or panics.  process_init takes a PML4, a stack and the three      *)
(* tables mu_pmap_map needs to map it; all but the stack are cleared.      *)
(* When it runs out it gives back the PML4 and the stack but not the       *)
(* tables, and reports success.                                            *)
IdleFrames == 5

IdleTables == Lowest(free, 1) \cup (Lowest(free, IdleFrames) \ Lowest(free, 2))

StartIdle ==
  /\ bpc = "idle" /\ slots > 0
  /\ slots' = slots - 1
  /\ free' = IF Cardinality(free) >= IdleFrames THEN free \ Lowest(free, IdleFrames)
                                                ELSE Lowest(free, 2)
  /\ Clears(IdleTables)
  /\ bpc' = "madt"
  /\ UNCHANGED <<low, bs, ap_count, aps_up, cpu_list, k, retval, apVars, fixed>>

StartIdlePanic ==
  /\ bpc = "idle" /\ slots = 0
  /\ bpc' = "panic"
  /\ UNCHANGED <<free, low, bs, buda, ap_count, aps_up, cpu_list, k, retval, apVars, slots, fixed, area>>

(* acpi_read_madt: after an entry the walk stops when retval >= 0.  For an *)
(* entry of another type that is the value of the last call - or, before   *)
(* the first call, whatever the uninitialised local holds.                 *)
WalkEnd ==
  /\ bpc = "madt" /\ k > Len(madt)
  /\ bpc' = "wait_up"
  /\ UNCHANGED <<free, low, bs, buda, ap_count, aps_up, cpu_list, k, retval, apVars, slots, fixed, area>>

SkipOther ==
  /\ bpc = "madt" /\ k <= Len(madt) /\ madt[k].type # "lapic"
  /\ \/ retval # "zero" /\ k' = k + 1 /\ bpc' = bpc
     \/ retval = "unset" /\ k' = k /\ bpc' = "wait_up"
  /\ UNCHANGED <<free, low, bs, buda, ap_count, aps_up, cpu_list, retval, apVars, slots, fixed, area>>

Wanted(e) == e.apic_id # Bsp /\ e.online

(* cpu_lapic_cb on our own entry or on one that is not online capable.     *)
SkipEntry ==
  /\ bpc = "madt" /\ k <= Len(madt) /\ madt[k].type = "lapic" /\ ~Wanted(madt[k])
  /\ retval' = "minus1" /\ k' = k + 1
  /\ UNCHANGED <<free, low, bs, buda, ap_count, aps_up, cpu_list, bpc, apVars, slots, fixed, area>>

(* The stores to the descriptor, when its page is one of the bootspace's   *)
(* upper tables: the entry for the identity mapping is no longer present.  *)
StoreDescriptor ==
  low' = IF free # {} /\ AP_BUDA \in {bs["pml4"], bs["pml3"], bs["pml2"]}
           THEN [low EXCEPT ![bs["pml4"]] = {}] ELSE low

(* Prepare that allocates one stack and gives it to everybody.             *)
Prepare_OneStack ==
  /\ bpc = "madt" /\ k <= Len(madt) /\ madt[k].type = "lapic" /\ Wanted(madt[k])
  /\ \/ \E f \in free :
          /\ IsLowest(free, f)
          /\ free' = IF buda.rsp = 0 THEN free \ {f} ELSE free
          /\ buda' = [buda EXCEPT !.rsp = IF @ = 0 THEN f ELSE @, !.cr3 = bs["pml4"]]
          /\ bpc' = "init_ipi"
     \/ free = {} /\ bpc' = "panic" /\ UNCHANGED <<free, buda>>
  /\ StoreDescriptor
  /\ UNCHANGED <<bs, ap_count, aps_up, cpu_list, k, retval, apVars, slots, fixed, area>>

(* cpu_lapic_cb: a stack, then the descriptor.                             *)
Prepare ==
  /\ bpc = "madt" /\ k <= Len(madt) /\ madt[k].type = "lapic" /\ Wanted(madt[k])
  /\ \/ \E f \in free :
          /\ IsLowest(free, f)
          /\ free' = free \ {f}
          /\ buda' = [buda EXCEPT !.rsp = f, !.cr3 = bs["pml4"]]
          /\ bpc' = "init_ipi"
     \/ free = {} /\ bpc' = "panic" /\ UNCHANGED <<free, buda>>
  /\ StoreDescriptor
  /\ UNCHANGED <<bs, ap_count, aps_up, cpu_list, k, retval, apVars, slots, fixed, area>>

(* lapic_send_ipi.  In xAPIC mode the destination is shifted to bits 56..63 *)
(* of a value that a 32-bit store truncates, so that the destination field *)
(* keeps its reset value, 0; and the low word is or-ed to what it held, so *)
(* that STARTUP (6) after INIT (5) is the reserved delivery mode 7, which   *)
(* no processor acts on.                                                   *)
IpiTarget(a) == IF x2apic THEN a ELSE 0

SendInit ==
  /\ bpc = "init_ipi"
  /\ LET a == IpiTarget(madt[k].apic_id) IN
       /\ pc' = IF a \in Aps THEN [pc EXCEPT ![a] = "parked"] ELSE pc
       /\ bpc' = IF a = Bsp THEN "reset" ELSE "startup1"
  /\ UNCHANGED <<free, low, bs, buda, ap_count, aps_up, cpu_list, k, retval,
                 cr3, rsp, id, mtrr, slots, fixed, area>>

(* Two STARTUPs; a processor that is not parked ignores them.              *)
SendStartup ==
  /\ bpc \in {"startup1", "startup2"}
  /\ LET a == madt[k].apic_id IN
       pc' = IF x2apic /\ pc[a] = "parked" THEN [pc EXCEPT ![a] = "on"] ELSE pc
  /\ bpc' = IF bpc = "startup1" THEN "startup2" ELSE "wait"
  /\ UNCHANGED <<free, low, bs, buda, ap_count, aps_up, cpu_list, k, retval,
                 cr3, rsp, id, mtrr, slots, fixed, area>>

(* WaitBooted that does not wait.                                          *)
WaitBooted_Not ==
  /\ bpc = "wait"
  /\ bpc' = "ack"
  /\ UNCHANGED <<free, low, bs, buda, ap_count, aps_up, cpu_list, k, retval, apVars, slots, fixed, area>>

(* while (!buda->is_booted);                                               *)
WaitBooted ==
  /\ bpc = "wait" /\ buda.is_booted = 1
  /\ bpc' = "ack"
  /\ UNCHANGED <<free, low, bs, buda, ap_count, aps_up, cpu_list, k, retval, apVars, slots, fixed, area>>

(* The flag is reset, the processor counted, and the walk goes on unless   *)
(* cpu_list would overflow.                                                *)
Acknowledge ==
  /\ bpc = "ack"
  /\ buda' = [buda EXCEPT !.is_booted = 0]
  /\ ap_count' = ap_count + 1
  /\ IF ap_count + 1 >= MAX_CPUS - 1
       THEN retval' = "zero" /\ bpc' = "wait_up" /\ k' = k
       ELSE retval' = "minus1" /\ bpc' = "madt" /\ k' = k + 1
  /\ UNCHANGED <<free, low, bs, aps_up, cpu_list, apVars, slots, fixed, area>>

(* WaitUp that does not wait.                                              *)
WaitUp_Not ==
  /\ bpc = "wait_up"
  /\ bpc' = "free"
  /\ UNCHANGED <<free, low, bs, buda, ap_count, aps_up, cpu_list, k, retval, apVars, slots, fixed, area>>

(* while (aps_up < ap_count);                                              *)
WaitUp ==
  /\ bpc = "wait_up" /\ aps_up >= ap_count
  /\ bpc' = "free"
  /\ UNCHANGED <<free, low, bs, buda, ap_count, aps_up, cpu_list, k, retval, apVars, slots, fixed, area>>

(* cpu_free_bootspace: three of the four tables.                           *)
FreeBootspace ==
  /\ bpc = "free"
  /\ free' = free \cup {bs["pml3"], bs["pml2"], bs["pml1"]}
  /\ bs' = [t \in Tables |-> 0]
  /\ bpc' = "done"
  /\ UNCHANGED <<low, buda, ap_count, aps_up, cpu_list, k, retval, apVars, slots, fixed, area>>

BspStep == \/ StartAps \/ StartIdle \/ StartIdlePanic \/ WalkEnd \/ SkipOther \/ SkipEntry \/ Prepare
           \/ SendInit \/ SendStartup \/ WaitBooted \/ Acknowledge \/ WaitUp
           \/ FreeBootspace
-----------------------------------------------------------------------------
(* Application processor a.                                                *)

At(a, l, m) == pc[a] = l /\ pc' = [pc EXCEPT ![a] = m]

(* apboot.asm: real mode to long mode on the descriptor's page tables.  A  *)
(* root without the identity mapping - the bootspace failed, or was        *)
(* written over - or a trampoline that is gone ends in a triple fault.     *)
LoadCr3(a) ==
  /\ At(a, "on", IF bua /\ low[buda.cr3] # {} THEN "stack" ELSE "lost")
  /\ cr3' = [cr3 EXCEPT ![a] = buda.cr3]
  /\ UNCHANGED <<free, low, bs, buda, ap_count, aps_up, cpu_list, bspVars, rsp, id, mtrr, slots, fixed, area>>

(* thunk64: the descriptor's stack and entry point.                        *)
LoadRsp(a) ==
  /\ At(a, "stack", IF bua THEN "announce" ELSE "lost")
  /\ rsp' = [rsp EXCEPT ![a] = buda.rsp]
  /\ UNCHANGED <<free, low, bs, buda, ap_count, aps_up, cpu_list, bspVars, cr3, id, mtrr, slots, fixed, area>>

(* xchg of 1 with is_booted, and the jump to cpu_lm_entry, or nowhere if   *)
(* the descriptor was cleared.                                             *)
Announce(a) ==
  /\ At(a, "announce", IF bua /\ rsp[a] # 0 THEN "entry" ELSE "lost")
  /\ buda' = [buda EXCEPT !.is_booted = IF bua THEN 1 ELSE @]
  /\ UNCHANGED <<free, low, bs, ap_count, aps_up, cpu_list, bspVars, cr3, rsp, id, mtrr, slots, fixed, area>>

cpu_mtrr_fetch(a) == mtrr' = [mtrr EXCEPT ![a] = mtrr_save]

(* A fork of the address space with an empty lower half.  The result of    *)
(* mu_pmap_forkvas is not looked at: when it has no frame, CR3 is loaded   *)
(* from an uninitialised local, which the processor may or may not survive.*)
clean_addrsp(a) ==
  \/ \E f \in free :
       /\ IsLowest(free, f)
       /\ At(a, "entry", "alloc")
       /\ free' = free \ {f}
       /\ low' = [low EXCEPT ![f] = {}]
       /\ Clears({f})
       /\ cr3' = [cr3 EXCEPT ![a] = f]
  \/ /\ free = {}
     /\ At(a, "entry", "alloc") \/ At(a, "entry", "lost")
     /\ cr3' = [cr3 EXCEPT ![a] = Junk]
     /\ UNCHANGED <<free, low, buda, area>>

(* The start of cpu_lm_entry: the memory types, with the caches off, and   *)
(* an address space without the bring-up's mapping.                        *)
LmEntry(a) ==
  /\ cpu_mtrr_fetch(a)
  /\ clean_addrsp(a)
  /\ UNCHANGED <<bs, ap_count, aps_up, cpu_list, bspVars, rsp, id, slots, fixed>>

(* kalloc of struct cpu_info, and its id from a counter other processors   *)
(* are about to increment.                                                 *)
AllocCi(a) ==
  /\ slots > 0
  /\ At(a, "alloc", "conf")
  /\ slots' = slots - 1
  /\ id' = [id EXCEPT ![a] = aps_up + 1]
  /\ UNCHANGED <<free, low, bs, buda, ap_count, aps_up, cpu_list, bspVars, cr3, rsp, mtrr, fixed, area>>

AllocCiPanic(a) ==
  /\ slots = 0
  /\ At(a, "alloc", "panic")
  /\ UNCHANGED <<free, low, bs, buda, ap_count, aps_up, cpu_list, bspVars, cr3, rsp, id, mtrr, slots, fixed, area>>

(* cpu_loinit and cpu_conf: GS base, local APIC, run queue; nothing shared *)
(* with the other processors' bring-up.  lapic_init panics without a local *)
(* APIC, and its calibration may divide by zero, on a processor that has   *)
(* no IDT yet.                                                             *)
Conf(a) ==
  /\ At(a, "conf", "inc") \/ At(a, "conf", "panic") \/ At(a, "conf", "lost")
  /\ UNCHANGED <<free, low, bs, buda, ap_count, aps_up, cpu_list, bspVars, cr3, rsp, id, mtrr, slots, fixed, area>>

(* IncUp that is not atomic: the value read for the id is stored back.     *)
IncUp_Racy(a) ==
  /\ At(a, "inc", "publish")
  /\ aps_up' = id[a]
  /\ UNCHANGED <<free, low, bs, buda, ap_count, cpu_list, bspVars, cr3, rsp, id, mtrr, slots, fixed, area>>

(* atomic_inc_int(&aps_up)                                                 *)
IncUp(a) ==
  /\ At(a, "inc", "publish")
  /\ aps_up' = aps_up + 1
  /\ UNCHANGED <<free, low, bs, buda, ap_count, cpu_list, bspVars, cr3, rsp, id, mtrr, slots, fixed, area>>

(* cpu_list[aps_up] = ci, reading the counter again; then GDT, IDT and     *)
(* cpu_idle, which touch nothing shared.                                   *)
Publish(a) ==
  /\ At(a, "publish", "idle")
  /\ cpu_list' = [cpu_list EXCEPT ![aps_up] = a]
  /\ UNCHANGED <<free, low, bs, buda, ap_count, aps_up, bspVars, cr3, rsp, id, mtrr, slots, fixed, area>>

ApStep(a) == \/ LoadCr3(a) \/ LoadRsp(a) \/ Announce(a) \/ LmEntry(a)
             \/ AllocCi(a) \/ AllocCiPanic(a) \/ Conf(a) \/ IncUp(a) \/ Publish(a)

Next == BspStep \/ \E a \in Aps : ApStep(a)

Spec == Init /\ [][Next]_vars

(* Every processor keeps executing instructions.                           *)
FairSpec == Spec /\ WF_vars(BspStep) /\ \A a \in Aps : WF_vars(ApStep(a))
-----------------------------------------------------------------------------
(* Properties.                                                             *)

Paging == {"stack", "announce", "entry", "alloc", "conf", "inc", "publish", "idle"}

OnStack == Paging \ {"stack"}

(* TablesLive: no processor runs on page tables that were given back or    *)
(* that are somebody's stack, whatever is_booted held at boot and whatever *)
(* became of the bring-up's pages.  The boot processor frees the bootspace *)
(* when aps_up has caught up, by which time every processor it started     *)
(* must have left it in clean_addrsp.                                      *)
TablesLive ==
  \A a \in Aps :
    pc[a] \in Paging /\ cr3[a] # Junk =>
      /\ ({cr3[a]} \cup low[cr3[a]]) \cap free = {}
      /\ \A b \in Aps : pc[b] \in OnStack => rsp[b] \notin {cr3[a]} \cup low[cr3[a]]

(* OwnStack: no two processors run on one stack, although all of them read *)
(* its address from the one descriptor - as long as the descriptor works:  *)
(* is_booted was 0 at boot, and its page and the trampoline's are nobody's *)
(* page table.                                                             *)
OwnStack ==
  intact =>
    \A a, b \in Aps :
      pc[a] \in OnStack /\ pc[b] \in OnStack /\ a # b => rsp[a] # rsp[b]

(* DescriptorStable: nobody touches the descriptor's address fields while  *)
(* a processor that was woken is still to read them, on the same terms.    *)
DescriptorStable ==
  [][ intact' /\ (\E a \in Aps : pc[a] \in {"on", "stack"})
        => buda'.cr3 = buda.cr3 /\ buda'.rsp = buda.rsp ]_vars

(* TypesAgree: a processor that uses the kernel's shared data has the      *)
(* memory types of the boot processor, which are handed over in one static *)
(* (cpu_mtrr_save, cpu_mtrr_fetch); otherwise caches disagree about it.    *)
TypesAgree ==
  \A a \in Aps : pc[a] \in {"alloc", "conf", "inc", "publish", "idle"} => mtrr[a] = "firmware"

Dead == \/ bpc \in {"panic", "reset"}
        \/ \E a \in Aps : pc[a] \in {"panic", "lost"}

AllUp == bpc = "done" /\ ap_count = Cardinality({a \in Aps : pc[a] = "idle"})

(* BringUpEnds: in x2APIC mode cpu_start_aps returns, with every processor *)
(* it counted in its idle loop, unless somebody panicked or crashed:       *)
(* however short frames and heap are, the boot processor waits for nobody  *)
(* else.  Again as long as the descriptor works.                           *)
BringUpEnds == <>[](x2apic /\ intact /\ ~Dead => AllUp)

(* The next four say what comments of mp.c and cpu.h say, and do not hold. *)

(* WaitEnds: "Wait until AP is booted", in xAPIC mode too.                 *)
WaitEnds == <>[](intact /\ ~Dead => AllUp)

(* WaitMeansBooted: "Wait until AP is booted" - behind that wait it is,    *)
(* and the descriptor may be written for the next one.                     *)
WaitMeansBooted == bpc = "ack" => pc[madt[k].apic_id] \notin {"off", "parked", "on", "stack"}

(* TrampolineKept: "The startup code is copied to the processor bring up   *)
(* area to which it is executed in real mode" - it is there when a         *)
(* processor is sent to execute it.                                        *)
TrampolineKept == bpc \in {"startup1", "startup2"} => bua

(* RosterComplete: "Get a processor by index" - once everybody is up,      *)
(* cpu_get finds a processor of its own at every index up to aps_up.       *)
RosterComplete ==
  bpc = "done" /\ (\A a \in Aps : pc[a] \in {"off", "idle"}) =>
    \A i, j \in 0 .. aps_up : /\ cpu_list[i] # Nobody
                              /\ cpu_list[i] = cpu_list[j] => i = j
=============================================================================
