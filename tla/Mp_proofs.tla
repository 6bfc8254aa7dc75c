----------------------------- MODULE Mp_proofs ------------------------------
(***************************************************************************)
(* Proofs about the bring-up of any number of application processors, for  *)
(* every MADT, every supply of frames and heap, and both APIC modes.       *)
(***************************************************************************)
EXTENDS Mp, FiniteSetTheorems, TLAPS

(* The processor whose MADT entry the boot processor is at.                *)
Cur == madt[k].apic_id

Waking == bpc \in {"init_ipi", "startup1", "startup2", "wait", "ack"}

Woken == {"startup2", "wait", "ack"}

Asleep == {"off", "parked"}

(* In apboot.asm, and in cpu_lm_entry.                                     *)
InStub == {"on", "stack", "announce"}
Past == {"entry", "alloc", "conf", "inc", "publish", "idle", "panic", "lost"}

(* In an address space of its own.                                         *)
Clean == {"alloc", "conf", "inc", "publish", "idle"}

(* The entries of processors that the walk still has to reach.             *)
Ahead == {j \in DOMAIN madt : /\ madt[j].type = "lapic" /\ madt[j].apic_id \in Aps
                              /\ j > k \/ (j = k /\ bpc \notin Woken)}

(* No processor whose entry is still ahead has been woken.                 *)
Walk ==
  /\ Waking => k <= Len(madt) /\ madt[k].type = "lapic" /\ Cur \in Aps
  /\ bpc \in {"start", "idle"} => \A a \in Aps : pc[a] = "off"
  /\ Waking \/ bpc = "madt" => \A j \in Ahead : pc[madt[j].apic_id] \in Asleep
  /\ ~x2apic => \A a \in Aps : pc[a] \in Asleep

(* The second STARTUP finds its processor awake.                           *)
Wakes ==
  /\ x2apic /\ bpc = "startup1" => pc[Cur] = "parked"
  /\ x2apic /\ bpc \in Woken => pc[Cur] \notin Asleep

Up == {a \in Aps : pc[a] \in {"publish", "idle"}}
Counted == {a \in Aps : pc[a] \notin Asleep /\ ~(Waking /\ a = Cur)}

(* ap_count counts whoever was woken, whether it has answered or not; so   *)
(* when aps_up has caught up everybody has left the stub and clean_addrsp. *)
Counters ==
  /\ aps_up = Cardinality(Up) /\ ap_count >= Cardinality(Counted)
  /\ bpc \in {"free", "done"} => \A a \in Aps : pc[a] \in Asleep \cup {"publish", "idle"}

(* Frame 0, which stands for none, gets into the pool only at the end.     *)
Stacks ==
  bpc # "done" =>
    /\ 0 \notin free /\ buda.rsp \notin free
    /\ \A a \in Aps : pc[a] \in OnStack => rsp[a] \notin free

BsFrames == {bs["pml4"], bs["pml3"], bs["pml2"], bs["pml1"]}

(* The bootspace, while it is in use; without one nobody gets far.         *)
Bootspace ==
  /\ bpc = "start" => ~bs_ok /\ buda.cr3 = 0 /\ buda.rsp = 0
  /\ low[0] = {}
  /\ ~bs_ok => /\ \A f \in Frames \cup {0} : low[f] = {}
               /\ \A a \in Aps : pc[a] \notin Paging
  /\ bpc # "done" => buda.cr3 \in {0, bs["pml4"]}
  /\ \A a \in Aps : pc[a] \in {"stack", "announce", "entry"} => cr3[a] = bs["pml4"]
  /\ bs_ok /\ bpc # "done" =>
       /\ BsFrames \cap free = {} /\ 0 \notin BsFrames /\ low[bs["pml4"]] \subseteq BsFrames
       /\ buda.rsp \notin BsFrames
       /\ \A a \in Aps : pc[a] \in OnStack => rsp[a] \notin BsFrames

(* An address space of a processor's own.                                  *)
OwnSpaces ==
  \A a \in Aps : pc[a] \in Clean /\ cr3[a] # Junk =>
    /\ cr3[a] \notin free /\ cr3[a] # 0 /\ low[cr3[a]] = {}
    /\ bpc # "done" => cr3[a] \notin BsFrames /\ buda.rsp # cr3[a]
    /\ \A b \in Aps : pc[b] \in OnStack => rsp[b] # cr3[a]

(* As long as the descriptor works: one processor at a time is in the      *)
(* stub, the flag is its answer, and the stack in the descriptor is its.   *)
Handshake ==
  /\ \A a \in Aps : pc[a] \in InStub =>
       a = Cur /\ bpc \in {"startup2", "wait"} /\ buda.is_booted = 0
  /\ buda.is_booted = 1 => bpc \in Woken
  /\ buda.is_booted = 1 \/ bpc = "ack" => pc[Cur] \in Past

StackHanded ==
  /\ \A a, b \in Aps : pc[a] \in OnStack /\ pc[b] \in OnStack /\ a # b => rsp[a] # rsp[b]
  /\ Waking => \A a \in Aps : pc[a] \in OnStack /\ a # Cur => rsp[a] # buda.rsp

MemTypes ==
  /\ bpc # "start" => mtrr_save = "firmware"
  /\ TypesAgree

Inv == /\ TypeOK /\ Walk /\ Wakes /\ Counters
       /\ Stacks /\ Bootspace /\ OwnSpaces /\ MemTypes
       /\ intact => Handshake /\ StackHanded
-----------------------------------------------------------------------------
LEMMA MadtFacts ==
  ASSUME madt \in Madts
  PROVE  /\ Len(madt) \in Nat /\ DOMAIN madt = 1 .. Len(madt)
         /\ \A j \in DOMAIN madt : madt[j].apic_id \in Aps \cup {Bsp}
         /\ \A i, j \in DOMAIN madt :
              madt[i].type = "lapic" /\ madt[j].type = "lapic" /\ madt[i].apic_id = madt[j].apic_id
                => i = j
<1> DEFINE E == [type : {"lapic", "other"}, apic_id : Aps \cup {Bsp}, online : BOOLEAN]
<1>1. madt \in Seq(E)
  BY MadtAssumption
<1>2. /\ Len(madt) \in Nat /\ DOMAIN madt = 1 .. Len(madt)
      /\ \A j \in DOMAIN madt : madt[j] \in E
  <2> HIDE DEF E
  <2> QED
    BY <1>1
<1>3. \A j \in DOMAIN madt : madt[j].apic_id \in Aps \cup {Bsp}
  BY <1>2
<1> QED
  BY <1>2, <1>3, DistinctAssumption

LEMMA AtFacts ==
  ASSUME TypeOK, NEW a \in Aps, NEW l, NEW m \in ApLocations, At(a, l, m)
  PROVE  /\ pc[a] = l /\ pc'[a] = m /\ \A b \in Aps \ {a} : pc'[b] = pc[b]
         /\ pc' \in [Aps -> ApLocations]
BY DEF TypeOK, At

LEMMA BudaFacts ==
  ASSUME NEW B, NEW S, NEW d \in [cr3 : S, rsp : S, is_booted : B]
  PROVE  /\ d.cr3 \in S /\ d.rsp \in S /\ d.is_booted \in B
         /\ \A x \in B : LET e == [d EXCEPT !.is_booted = x]
                        IN  /\ e \in [cr3 : S, rsp : S, is_booted : B]
                            /\ e.cr3 = d.cr3 /\ e.rsp = d.rsp /\ e.is_booted = x
         /\ \A f, g \in S : LET e == [d EXCEPT !.rsp = f, !.cr3 = g]
                           IN  /\ e \in [cr3 : S, rsp : S, is_booted : B]
                               /\ e.cr3 = g /\ e.rsp = f /\ e.is_booted = d.is_booted
OBVIOUS

(* What a page table in one of the bring-up's pages does to them.          *)
LEMMA ClearsFacts ==
  ASSUME TypeOK, NEW F, Clears(F)
  PROVE  /\ buda' = buda \/ buda' = [cr3 |-> 0, rsp |-> 0, is_booted |-> 0]
         /\ buda'.cr3 \in {0, buda.cr3} /\ buda'.rsp \in {0, buda.rsp}
         /\ bua' \in BOOLEAN /\ intact' \in BOOLEAN
         /\ intact' => intact /\ buda' = buda
BY DEF Clears, TypeOK

(* Where a step of processor a takes it from and to.                       *)
LEMMA Moves ==
  ASSUME TypeOK, NEW a \in Aps, ApStep(a)
  PROVE  /\ pc' \in [Aps -> ApLocations] /\ \A b \in Aps \ {a} : pc'[b] = pc[b]
         /\ LoadCr3(a) => pc[a] = "on" /\ pc'[a] \in {"stack", "lost"}
         /\ LoadRsp(a) => pc[a] = "stack" /\ pc'[a] \in {"announce", "lost"}
         /\ Announce(a) => pc[a] = "announce" /\ pc'[a] \in {"entry", "lost"}
         /\ LmEntry(a) => pc[a] = "entry" /\ pc'[a] \in {"alloc", "lost"}
         /\ AllocCi(a) => pc[a] = "alloc" /\ pc'[a] = "conf"
         /\ AllocCiPanic(a) => pc[a] = "alloc" /\ pc'[a] = "panic"
         /\ Conf(a) => pc[a] = "conf" /\ pc'[a] \in {"inc", "panic", "lost"}
         /\ IncUp(a) => pc[a] = "inc" /\ pc'[a] = "publish"
         /\ Publish(a) => pc[a] = "publish" /\ pc'[a] = "idle"
<1> USE DEF ApLocations
<1>1. LoadCr3(a) => \E m \in {"stack", "lost"} : At(a, "on", m)
  BY DEF LoadCr3
<1>2. LoadRsp(a) => \E m \in {"announce", "lost"} : At(a, "stack", m)
  BY DEF LoadRsp
<1>3. Announce(a) => \E m \in {"entry", "lost"} : At(a, "announce", m)
  BY DEF Announce
<1>4. LmEntry(a) => \E m \in {"alloc", "lost"} : At(a, "entry", m)
  BY DEF LmEntry, clean_addrsp
<1>5. /\ AllocCi(a) => At(a, "alloc", "conf")
      /\ AllocCiPanic(a) => At(a, "alloc", "panic")
      /\ Conf(a) => \E m \in {"inc", "panic", "lost"} : At(a, "conf", m)
      /\ IncUp(a) => At(a, "inc", "publish")
      /\ Publish(a) => At(a, "publish", "idle")
  BY DEF AllocCi, AllocCiPanic, Conf, IncUp, Publish
<1>6. \E l, m \in ApLocations : At(a, l, m)
  BY <1>1, <1>2, <1>3, <1>4, <1>5 DEF ApStep
<1>7. pc' \in [Aps -> ApLocations] /\ \A b \in Aps \ {a} : pc'[b] = pc[b]
  BY <1>6, AtFacts
<1> QED
  BY <1>1, <1>2, <1>3, <1>4, <1>5, <1>7, AtFacts

(* What a step of processor a leaves alone.                                *)
LEMMA ApFacts ==
  ASSUME TypeOK, NEW a \in Aps, ApStep(a)
  PROVE  /\ UNCHANGED <<bs, ap_count, bpc, k, retval, bs_ok, mtrr_save, x2apic, madt>>
         /\ \A b \in Aps \ {a} : /\ pc'[b] = pc[b] /\ cr3'[b] = cr3[b]
                                 /\ rsp'[b] = rsp[b] /\ mtrr'[b] = mtrr[b]
         /\ pc[a] \notin Asleep /\ pc'[a] \notin Asleep
         /\ pc[a] \in Past => pc'[a] \in Past
         /\ pc'[a] \in ApLocations
         /\ buda'.cr3 \in {0, buda.cr3} /\ buda'.rsp \in {0, buda.rsp}
         /\ intact' => intact /\ buda'.cr3 = buda.cr3 /\ buda'.rsp = buda.rsp
<1> USE DEF Asleep, Past, ApLocations
<1>1. UNCHANGED <<bs, ap_count, bpc, k, retval, bs_ok, mtrr_save, x2apic, madt>>
  BY DEF ApStep, LoadCr3, LoadRsp, Announce, LmEntry, AllocCi, AllocCiPanic, Conf, IncUp, Publish,
         bspVars, fixed
<1>2. /\ \A b \in Aps \ {a} : pc'[b] = pc[b]
      /\ pc[a] \notin Asleep /\ pc'[a] \notin Asleep
      /\ pc[a] \in Past => pc'[a] \in Past
      /\ pc'[a] \in ApLocations
  BY Moves DEF ApStep
<1>3. cr3 \in [Aps -> Frames \cup {0, Junk}] /\ rsp \in [Aps -> Frames \cup {0}]
  BY DEF TypeOK
<1>4. \A b \in Aps \ {a} : cr3'[b] = cr3[b]
  <2>1. cr3' = cr3 \/ \E f : cr3' = [cr3 EXCEPT ![a] = f]
    BY DEF ApStep, LoadCr3, LoadRsp, Announce, LmEntry, clean_addrsp, AllocCi, AllocCiPanic, Conf,
           IncUp, Publish
  <2> QED
    BY <1>3, <2>1
<1>5. \A b \in Aps \ {a} : rsp'[b] = rsp[b]
  <2>1. rsp' = rsp \/ \E f : rsp' = [rsp EXCEPT ![a] = f]
    BY DEF ApStep, LoadCr3, LoadRsp, Announce, LmEntry, AllocCi, AllocCiPanic, Conf,
           IncUp, Publish
  <2> QED
    BY <1>3, <2>1
<1>6. \A b \in Aps \ {a} : mtrr'[b] = mtrr[b]
  <2>1. mtrr' = mtrr \/ \E f : mtrr' = [mtrr EXCEPT ![a] = f]
    BY DEF ApStep, LoadCr3, LoadRsp, Announce, LmEntry, cpu_mtrr_fetch, AllocCi, AllocCiPanic,
           Conf, IncUp, Publish
  <2>2. mtrr \in [Aps -> MemoryTypes]
    BY DEF TypeOK
  <2> QED
    BY <2>1, <2>2
<1>7. /\ buda'.cr3 \in {0, buda.cr3} /\ buda'.rsp \in {0, buda.rsp}
      /\ intact' => intact /\ buda'.cr3 = buda.cr3 /\ buda'.rsp = buda.rsp
  <2>1. \/ UNCHANGED <<buda, intact>>
        \/ UNCHANGED intact /\ buda' = [buda EXCEPT !.is_booted = IF bua THEN 1 ELSE @]
        \/ \E f : Clears({f})
    BY DEF ApStep, LoadCr3, LoadRsp, Announce, LmEntry, clean_addrsp, AllocCi, AllocCiPanic, Conf,
           IncUp, Publish, area
  <2>2. buda \in [cr3 : Frames \cup {0}, rsp : Frames \cup {0}, is_booted : {0, 1}]
    BY DEF TypeOK
  <2>3. CASE buda' = [buda EXCEPT !.is_booted = IF bua THEN 1 ELSE @] /\ UNCHANGED intact
    BY <2>2, <2>3
  <2>4. CASE \E f : Clears({f})
    BY <2>4, ClearsFacts
  <2>5. CASE UNCHANGED <<buda, intact>>
    BY <2>5
  <2> QED
    BY <2>1, <2>3, <2>4, <2>5
<1> QED
  BY <1>1, <1>2, <1>4, <1>5, <1>6, <1>7
-----------------------------------------------------------------------------
(* Types, in groups.                                                       *)
MemOK == /\ free \subseteq Frames \cup {0} /\ low \in [Frames \cup {0} -> SUBSET Frames]
         /\ bs \in [Tables -> Frames \cup {0}]
BudaOK == buda \in [cr3 : Frames \cup {0}, rsp : Frames \cup {0}, is_booted : {0, 1}]
CountOK == ap_count \in Nat /\ aps_up \in Nat /\ slots \in Nat
ListOK == cpu_list \in [0 .. MAX_CPUS - 1 -> Aps \cup {Bsp, Nobody}]
BspOK == /\ bpc \in BspLocations /\ k \in Nat \ {0} /\ retval \in {"unset", "minus1", "zero"}
         /\ mtrr_save \in MemoryTypes /\ bs_ok \in BOOLEAN /\ x2apic \in BOOLEAN /\ madt \in Madts
ApOK == pc \in [Aps -> ApLocations] /\ mtrr \in [Aps -> MemoryTypes]
FrameOK == cr3 \in [Aps -> Frames \cup {0, Junk}] /\ rsp \in [Aps -> Frames \cup {0}]
IdOK == id \in [Aps -> Nat]
AreaOK == bua \in BOOLEAN /\ intact \in BOOLEAN

LEMMA TypeParts ==
  TypeOK <=> /\ MemOK /\ BudaOK /\ CountOK /\ ListOK /\ BspOK /\ ApOK
             /\ FrameOK /\ IdOK /\ AreaOK
BY DEF TypeOK, MemOK, BudaOK, CountOK, ListOK, BspOK, ApOK, FrameOK, IdOK, AreaOK

LEMMA InitTypes == ASSUME Init PROVE TypeOK
<1>1. MemOK
  <2>1. free \subseteq Frames
    BY SupplyAssumption DEF Init
  <2>2. low = [f \in Frames \cup {0} |-> {}] /\ bs = [t \in Tables |-> 0]
    BY DEF Init
  <2> QED
    BY <2>1, <2>2 DEF MemOK
<1>2. BudaOK
  <2>1. PICK b \in StaleBooted : buda = [cr3 |-> 0, rsp |-> 0, is_booted |-> b]
    BY DEF Init
  <2> QED
    BY <2>1, StaleAssumption DEF BudaOK
<1>3. CountOK
  <2>1. PICK m \in Supplies : slots = m[2]
    BY DEF Init
  <2>2. m[2] \in Nat
    BY <2>1, SupplyAssumption
  <2> QED
    BY <2>1, <2>2 DEF Init, CountOK
<1>4. ListOK
  BY DEF Init, ListOK
<1>5. BspOK
  <2>1. /\ bpc = "start" /\ k = 1 /\ retval = "unset" /\ mtrr_save = "zero"
    BY DEF Init
  <2>2. bs_ok \in BOOLEAN /\ x2apic \in BOOLEAN /\ madt \in Madts
    BY ModeAssumption DEF Init
  <2> QED
    BY <2>1, <2>2 DEF BspOK, BspLocations, MemoryTypes
<1>6. ApOK
  BY DEF Init, ApOK, ApLocations, MemoryTypes
<1>7. FrameOK
  <2>1. cr3 = [a \in Aps |-> 0] /\ rsp = [a \in Aps |-> 0]
    BY DEF Init
  <2> QED
    BY <2>1 DEF FrameOK
<1>8. IdOK
  <2>1. id = [a \in Aps |-> 0]
    BY DEF Init
  <2> QED
    BY <2>1 DEF IdOK
<1>9. AreaOK
  BY DEF Init, AreaOK
<1> QED
  BY <1>1, <1>2, <1>3, <1>4, <1>5, <1>6, <1>7, <1>8, <1>9, TypeParts

LEMMA InitInv == ASSUME Init PROVE Inv
<1>1. TypeOK
  BY InitTypes
<1>2. bpc = "start" /\ aps_up = 0 /\ ap_count = 0 /\ \A a \in Aps : pc[a] = "off"
  BY DEF Init
<1>3. ~bs_ok /\ (intact => buda.is_booted = 0) /\ buda.cr3 = 0 /\ buda.rsp = 0
  <2>1. PICK b \in StaleBooted : /\ buda = [cr3 |-> 0, rsp |-> 0, is_booted |-> b]
                                 /\ intact = (b = 0)
    BY DEF Init
  <2>2. ~bs_ok
    BY DEF Init
  <2> QED
    BY <2>1, <2>2
<1>4. free \subseteq Frames /\ 0 \notin free /\ \A f \in Frames \cup {0} : low[f] = {}
  BY SupplyAssumption, FramesAssumption DEF Init
<1>5. Walk /\ Wakes
  BY <1>2 DEF Walk, Wakes, Waking, Asleep, Woken
<1>6. intact => Handshake /\ StackHanded
  BY <1>2, <1>3 DEF Handshake, StackHanded, InStub, Woken, OnStack, Paging, Waking
<1>7. Counters
  <2>1. Up = {} /\ Counted = {}
    BY <1>2 DEF Up, Counted, Asleep
  <2> QED
    BY <1>2, <2>1, FS_EmptySet DEF Counters
<1>8. Stacks /\ OwnSpaces /\ MemTypes
  BY <1>2, <1>3, <1>4 DEF Stacks, OnStack, Paging, OwnSpaces, MemTypes, TypesAgree, Clean
<1>9. Bootspace
  BY <1>2, <1>3, <1>4 DEF Bootspace, OnStack, Paging
<1> QED
  BY <1>1, <1>5, <1>6, <1>7, <1>8, <1>9 DEF Inv

LEMMA NextTypes == ASSUME TypeOK, [Next]_vars PROVE TypeOK'
<1>t. MemOK /\ BudaOK /\ CountOK /\ ListOK /\ BspOK /\ ApOK /\ FrameOK /\ IdOK /\ AreaOK
  BY TypeParts
<1>q. /\ MemOK' /\ BudaOK' /\ CountOK' /\ ListOK' /\ BspOK' /\ ApOK'
      /\ FrameOK' /\ IdOK' /\ AreaOK'
      => TypeOK'
  BY TypeParts DEF TypeOK, MemOK, BudaOK, CountOK, ListOK, BspOK, ApOK, FrameOK, IdOK, AreaOK
<1>m. UNCHANGED <<free, low, bs>> => MemOK'
  BY <1>t DEF MemOK
<1>b. UNCHANGED buda => BudaOK'
  BY <1>t DEF BudaOK
<1>c. UNCHANGED <<ap_count, aps_up, slots>> => CountOK'
  BY <1>t DEF CountOK
<1>l. UNCHANGED cpu_list => ListOK'
  BY <1>t DEF ListOK
<1>s. UNCHANGED <<bspVars, fixed>> => BspOK'
  BY <1>t DEF BspOK, bspVars, fixed
<1>a. UNCHANGED apVars => ApOK' /\ FrameOK' /\ IdOK'
  BY <1>t DEF ApOK, FrameOK, IdOK, apVars
<1>f. UNCHANGED <<cr3, rsp>> => FrameOK'
  BY <1>t DEF FrameOK
<1>i. UNCHANGED id => IdOK'
  BY <1>t DEF IdOK
<1>e. UNCHANGED area => AreaOK'
  BY <1>t DEF AreaOK, area
<1>d. ASSUME NEW F, Clears(F) PROVE BudaOK' /\ AreaOK'
  BY <1>d, <1>t, ClearsFacts DEF BudaOK, AreaOK
<1>1. CASE StartAps
  <2>1. MemOK'
    <3>1. CASE UNCHANGED <<free, low>> /\ \E g \in [Tables -> free \cup {0}] : bs' = g
      BY <3>1, <1>t DEF MemOK
    <3>2. ASSUME NEW p4 \in free, NEW p3 \in free, NEW p2 \in free, NEW p1 \in free,
                 p4 < p3, p3 < p2, p2 < p1,
                 bs' = [pml4 |-> p4, pml3 |-> p3, pml2 |-> p2, pml1 |-> p1],
                 free' = free \ {p4, p3, p2, p1},
                 low' = low \/ low' = [low EXCEPT ![p4] = {p4, p3, p2, p1} \ {p4}],
                 {p4, p3, p2, p1} = Lowest(free, 4)
          PROVE  MemOK'
      <4>1. bs' \in [Tables -> Frames \cup {0}]
        BY <3>2, <1>t DEF MemOK, Tables
      <4>2. {p3, p2, p1} \subseteq Frames
        <5>1. {p4, p3, p2, p1} \subseteq Nat
          BY <1>t, FramesAssumption DEF MemOK
        <5>2. p3 # 0 /\ p2 # 0 /\ p1 # 0
          BY <3>2, <5>1
        <5> QED
          BY <5>2, <1>t DEF MemOK
      <4>3. low' \in [Frames \cup {0} -> SUBSET Frames]
        BY <3>2, <4>2, <1>t DEF MemOK
      <4> QED
        BY <3>2, <4>1, <4>3, <1>t DEF MemOK
    <3> QED
      BY <1>1, <3>1, <3>2 DEF StartAps, InitBootspace, CopyTrampoline
  <2>2. ListOK'
    BY <1>1, <1>t DEF StartAps, ListOK
  <2>3. BspOK'
    <3>1. bpc' = "idle" /\ mtrr_save' = "firmware" /\ UNCHANGED <<k, retval, x2apic, madt>>
      BY <1>1 DEF StartAps, cpu_mtrr_save
    <3>2. bs_ok' \in BOOLEAN
      BY <1>1 DEF StartAps, InitBootspace
    <3> QED
      BY <1>t, <3>1, <3>2 DEF BspOK, BspLocations, MemoryTypes
  <2>4. BudaOK' /\ AreaOK'
    <3>1. /\ buda' = buda \/ \E x \in {0, 1, buda.is_booted} : buda' = [buda EXCEPT !.is_booted = x]
          /\ bua' \in BOOLEAN /\ intact' \in BOOLEAN
      <4>1. \/ \E T, r, l : CopyTrampoline(T, r, l)
            \/ bua' = TRUE /\ UNCHANGED <<buda, intact>>
        BY <1>1 DEF StartAps, InitBootspace
      <4>2. intact \in BOOLEAN
        BY <1>t DEF AreaOK
      <4> QED
        BY <4>1, <4>2 DEF CopyTrampoline
    <3>2. buda \in [cr3 : Frames \cup {0}, rsp : Frames \cup {0}, is_booted : {0, 1}]
      BY <1>t DEF BudaOK
    <3>3. buda' \in [cr3 : Frames \cup {0}, rsp : Frames \cup {0}, is_booted : {0, 1}]
      BY <3>1, <3>2
    <3> QED
      BY <3>1, <3>3 DEF BudaOK, AreaOK
  <2> QED
    BY <1>1, <1>q, <1>c, <1>a, <2>1, <2>2, <2>3, <2>4 DEF StartAps
<1>2. CASE StartIdle
  <2>1. MemOK'
    <3>1. free' \subseteq free
      BY <1>2 DEF StartIdle, Lowest
    <3> QED
      BY <1>2, <1>t, <3>1 DEF StartIdle, MemOK
  <2>2. CountOK'
    <3>1. slots' = slots - 1 /\ slots > 0 /\ UNCHANGED <<ap_count, aps_up>>
      BY <1>2 DEF StartIdle
    <3> QED
      BY <1>t, <3>1 DEF CountOK
  <2>3. BspOK'
    BY <1>2, <1>t DEF StartIdle, BspOK, BspLocations, fixed
  <2> QED
    BY <1>2, <1>q, <1>d, <1>l, <1>a, <2>1, <2>2, <2>3 DEF StartIdle
<1>3. CASE StartIdlePanic \/ WalkEnd \/ SkipOther \/ SkipEntry \/ WaitBooted \/ WaitUp
  <2>1. /\ UNCHANGED <<free, low, bs, buda, ap_count, aps_up, cpu_list, apVars, slots, fixed, area>>
    BY <1>3 DEF StartIdlePanic, WalkEnd, SkipOther, SkipEntry, WaitBooted, WaitUp
  <2>2. bpc' \in BspLocations /\ retval' \in {"unset", "minus1", "zero"}
    BY <1>3, <1>t DEF StartIdlePanic, WalkEnd, SkipOther, SkipEntry, WaitBooted, WaitUp, BspOK,
                      BspLocations
  <2>3. k' = k \/ k' = k + 1
    BY <1>3 DEF StartIdlePanic, WalkEnd, SkipOther, SkipEntry, WaitBooted, WaitUp
  <2>4. k' \in Nat \ {0}
    BY <1>t, <2>3 DEF BspOK
  <2>5. BspOK'
    BY <1>t, <2>1, <2>2, <2>4 DEF BspOK, fixed
  <2> QED
    BY <1>q, <1>m, <1>b, <1>c, <1>l, <1>a, <1>e, <2>1, <2>5
<1>4. CASE Prepare
  <2>1. /\ UNCHANGED <<bs, ap_count, aps_up, cpu_list, k, retval, apVars, slots, fixed, area>>
        /\ bpc' \in {"init_ipi", "panic"}
        /\ free' \subseteq free
        /\ low' = low \/ low' = [low EXCEPT ![bs["pml4"]] = {}]
    BY <1>4 DEF Prepare, StoreDescriptor
  <2>2. buda' = buda \/ \E f \in free : buda' = [buda EXCEPT !.rsp = f, !.cr3 = bs["pml4"]]
    BY <1>4 DEF Prepare
  <2>3. bs["pml4"] \in Frames \cup {0} /\ free \subseteq Frames \cup {0}
    BY <1>t DEF MemOK, Tables
  <2>4. BudaOK'
    <3>1. buda \in [cr3 : Frames \cup {0}, rsp : Frames \cup {0}, is_booted : {0, 1}]
      BY <1>t DEF BudaOK
    <3>2. buda' \in [cr3 : Frames \cup {0}, rsp : Frames \cup {0}, is_booted : {0, 1}]
      BY <2>2, <2>3, <3>1
    <3> QED
      BY <3>2 DEF BudaOK
  <2>5. MemOK'
    BY <1>t, <2>1 DEF MemOK
  <2>6. BspOK'
    BY <1>t, <2>1 DEF BspOK, BspLocations, fixed
  <2> QED
    BY <1>q, <1>c, <1>l, <1>a, <1>e, <2>1, <2>4, <2>5, <2>6
<1>5. CASE SendInit \/ SendStartup
  <2>1. /\ UNCHANGED <<free, low, bs, buda, ap_count, aps_up, cpu_list, k, retval>>
        /\ UNCHANGED <<cr3, rsp, id, mtrr, slots, fixed, area>>
        /\ bpc' \in {"reset", "startup1", "startup2", "wait"}
    BY <1>5 DEF SendInit, SendStartup
  <2>2. pc' = pc \/ \E b : pc' = [pc EXCEPT ![b] = "parked"] \/ pc' = [pc EXCEPT ![b] = "on"]
    BY <1>5 DEF SendInit, SendStartup
  <2>3. ApOK'
    BY <1>t, <2>1, <2>2 DEF ApOK, ApLocations
  <2>4. BspOK'
    BY <1>t, <2>1 DEF BspOK, BspLocations, fixed
  <2> QED
    BY <1>q, <1>m, <1>b, <1>c, <1>l, <1>f, <1>i, <1>e, <2>1, <2>3, <2>4
<1>6. CASE Acknowledge
  <2>1. /\ UNCHANGED <<free, low, bs, aps_up, cpu_list, apVars, slots, fixed, area>>
        /\ bpc' \in {"madt", "wait_up"} /\ retval' \in {"zero", "minus1"}
        /\ buda' = [buda EXCEPT !.is_booted = 0]
    BY <1>6 DEF Acknowledge
  <2>2. BudaOK'
    BY <1>t, <2>1, BudaFacts DEF BudaOK
  <2>3. ap_count' = ap_count + 1 /\ (k' = k \/ k' = k + 1)
    BY <1>6 DEF Acknowledge
  <2>4. CountOK' /\ k' \in Nat \ {0}
    BY <1>t, <2>1, <2>3 DEF CountOK, BspOK
  <2>5. BspOK'
    BY <1>t, <2>1, <2>4 DEF BspOK, BspLocations, fixed
  <2> QED
    BY <1>q, <1>m, <1>l, <1>a, <1>e, <2>1, <2>2, <2>4, <2>5
<1>7. CASE FreeBootspace
  <2>1. MemOK'
    BY <1>7, <1>t DEF FreeBootspace, MemOK, Tables
  <2>2. BspOK'
    BY <1>7, <1>t DEF FreeBootspace, BspOK, BspLocations, fixed
  <2> QED
    BY <1>7, <1>q, <1>b, <1>c, <1>l, <1>a, <1>e, <2>1, <2>2 DEF FreeBootspace
<1>8. ASSUME NEW a \in Aps, ApStep(a) PROVE TypeOK'
  <2>1. BspOK'
    <3>1. UNCHANGED <<bspVars, fixed>>
      BY <1>8 DEF ApStep, LoadCr3, LoadRsp, Announce, LmEntry, AllocCi, AllocCiPanic,
                  Conf, IncUp, Publish
    <3> QED
      BY <3>1, <1>s
  <2>2. ApOK'
    <3>1. pc' \in [Aps -> ApLocations]
      BY <1>8, Moves
    <3>2. mtrr' = mtrr \/ mtrr' = [mtrr EXCEPT ![a] = mtrr_save]
      BY <1>8 DEF ApStep, LoadCr3, LoadRsp, Announce, LmEntry, cpu_mtrr_fetch, AllocCi,
                  AllocCiPanic, Conf, IncUp, Publish
    <3>3. mtrr \in [Aps -> MemoryTypes] /\ mtrr_save \in MemoryTypes
      BY <1>t DEF ApOK, BspOK
    <3> QED
      BY <3>1, <3>2, <3>3 DEF ApOK
  <2>3. MemOK'
    <3>1. bs' = bs /\ free' \subseteq free /\ (low' = low \/ \E f \in free : low' = [low EXCEPT ![f] = {}])
      BY <1>8 DEF ApStep, LoadCr3, LoadRsp, Announce, LmEntry, clean_addrsp, AllocCi, AllocCiPanic,
                  Conf, IncUp, Publish
    <3> QED
      BY <1>t, <3>1 DEF MemOK
  <2>4. BudaOK' /\ AreaOK'
    <3>1. CASE LmEntry(a)
      <4>1. UNCHANGED <<buda, area>> \/ \E f : Clears({f})
        BY <3>1 DEF LmEntry, clean_addrsp
      <4> QED
        BY <4>1, <1>b, <1>e, <1>d
    <3>2. CASE ~LmEntry(a)
      <4>1. UNCHANGED area /\ (buda' = buda \/ buda' = [buda EXCEPT !.is_booted = IF bua THEN 1 ELSE @])
        BY <3>2, <1>8 DEF ApStep, LoadCr3, LoadRsp, Announce, AllocCi, AllocCiPanic, Conf, IncUp,
                          Publish
      <4>2. buda \in [cr3 : Frames \cup {0}, rsp : Frames \cup {0}, is_booted : {0, 1}]
        BY <1>t DEF BudaOK
      <4>3. buda' \in [cr3 : Frames \cup {0}, rsp : Frames \cup {0}, is_booted : {0, 1}]
        BY <4>1, <4>2
      <4> QED
        BY <4>1, <4>3, <1>e DEF BudaOK
    <3> QED
      BY <3>1, <3>2
  <2>5. CountOK'
    <3>1. /\ ap_count' = ap_count
          /\ aps_up' = aps_up \/ aps_up' = aps_up + 1
          /\ slots' = slots \/ (slots > 0 /\ slots' = slots - 1)
      BY <1>8 DEF ApStep, LoadCr3, LoadRsp, Announce, LmEntry, AllocCi, AllocCiPanic,
                  Conf, IncUp, Publish
    <3> QED
      BY <1>t, <3>1 DEF CountOK
  <2>6. ListOK'
    <3>1. cpu_list' = cpu_list \/ cpu_list' = [cpu_list EXCEPT ![aps_up] = a]
      BY <1>8 DEF ApStep, LoadCr3, LoadRsp, Announce, LmEntry, AllocCi, AllocCiPanic,
                  Conf, IncUp, Publish
    <3> QED
      BY <1>t, <3>1 DEF ListOK
  <2>7. FrameOK'
    <3>1. /\ rsp' = rsp \/ rsp' = [rsp EXCEPT ![a] = buda.rsp]
          /\ \/ cr3' = cr3 \/ cr3' = [cr3 EXCEPT ![a] = buda.cr3]
             \/ \E f \in free \cup {Junk} : cr3' = [cr3 EXCEPT ![a] = f]
      BY <1>8 DEF ApStep, LoadCr3, LoadRsp, Announce, LmEntry, clean_addrsp, AllocCi, AllocCiPanic,
                  Conf, IncUp, Publish
    <3>2. /\ buda.rsp \in Frames \cup {0} /\ buda.cr3 \in Frames \cup {0}
          /\ free \subseteq Frames \cup {0}
      BY <1>t, BudaFacts DEF BudaOK, MemOK
    <3> QED
      BY <1>t, <3>1, <3>2 DEF FrameOK
  <2>8. IdOK'
    <3>1. id' = id \/ id' = [id EXCEPT ![a] = aps_up + 1]
      BY <1>8 DEF ApStep, LoadCr3, LoadRsp, Announce, LmEntry, AllocCi, AllocCiPanic,
                  Conf, IncUp, Publish
    <3> QED
      BY <1>t, <3>1 DEF IdOK, CountOK
  <2> QED
    BY <1>q, <2>1, <2>2, <2>3, <2>4, <2>5, <2>6, <2>7, <2>8
<1>9. CASE UNCHANGED vars
  BY <1>9, <1>q, <1>m, <1>b, <1>c, <1>l, <1>s, <1>a, <1>e DEF vars
<1> QED
  BY <1>1, <1>2, <1>3, <1>4, <1>5, <1>6, <1>7, <1>8, <1>9 DEF Next, BspStep
-----------------------------------------------------------------------------
(* The walk.                                                               *)

(* An IPI moves nobody but the processor the boot processor is at, which   *)
(* is asleep.                                                              *)
LEMMA SendFacts ==
  ASSUME Inv, SendInit \/ SendStartup
  PROVE  /\ UNCHANGED <<buda, k, madt, x2apic, ap_count, aps_up>>
         /\ bpc \in {"init_ipi", "startup1", "startup2"} /\ Cur \in Aps
         /\ pc' \in [Aps -> ApLocations]
         /\ \A b \in Aps : pc'[b] = pc[b] \/ (pc[b] \in Asleep /\ pc'[b] = "parked")
                           \/ (/\ pc[b] \in Asleep /\ pc'[b] = "on" /\ b = Cur
                               /\ x2apic /\ bpc = "startup1")
<1>i. TypeOK /\ Walk /\ Wakes
  BY DEF Inv
<1>1. UNCHANGED <<buda, k, madt, x2apic, ap_count, aps_up>>
  BY DEF SendInit, SendStartup, fixed
<1>2. bpc \in {"init_ipi", "startup1", "startup2"} /\ Cur \in Aps
  BY <1>i DEF SendInit, SendStartup, Walk, Waking
<1>t. pc \in [Aps -> ApLocations] /\ k \in DOMAIN madt
  <2>1. madt \in Madts /\ k \in Nat \ {0} /\ k <= Len(madt)
    BY <1>i, <1>2 DEF TypeOK, Walk, Waking
  <2> QED
    BY <1>i, <2>1, MadtFacts DEF TypeOK
<1>3. CASE SendInit
  <2>1. pc' = pc \/ \E b \in Aps : pc' = [pc EXCEPT ![b] = "parked"] /\ (b = Cur \/ ~x2apic)
    BY <1>3 DEF SendInit, IpiTarget, Cur
  <2>2. bpc = "init_ipi"
    BY <1>3 DEF SendInit
  <2>3. k \in Ahead /\ Waking
    BY <1>i, <1>2, <1>t, <2>2 DEF Ahead, Walk, Waking, Woken, Cur
  <2>4. pc[Cur] \in Asleep /\ (~x2apic => \A b \in Aps : pc[b] \in Asleep)
    BY <1>i, <2>3 DEF Walk, Cur
  <2>5. pc' \in [Aps -> ApLocations]
    BY <1>t, <2>1 DEF ApLocations
  <2> QED
    BY <1>1, <1>2, <1>t, <2>1, <2>4, <2>5
<1>4. CASE SendStartup
  <2>1. pc' = pc \/ (pc' = [pc EXCEPT ![Cur] = "on"] /\ x2apic /\ pc[Cur] = "parked")
    BY <1>4 DEF SendStartup, Cur
  <2>2. bpc = "startup2" /\ x2apic => pc[Cur] \notin Asleep
    BY <1>i DEF Wakes, Woken
  <2>3. bpc \in {"startup1", "startup2"}
    BY <1>4 DEF SendStartup
  <2>4. pc' \in [Aps -> ApLocations]
    BY <1>t, <2>1 DEF ApLocations
  <2>5. pc' # pc => bpc = "startup1"
    BY <2>1, <2>2, <2>3 DEF Asleep
  <2> QED
    BY <1>1, <1>2, <1>t, <2>1, <2>4, <2>5 DEF Asleep
<1> QED
  BY <1>3, <1>4

LEMMA NextWalk == ASSUME Inv, [Next]_vars PROVE Walk'
<1>i. TypeOK /\ Walk /\ Wakes
  BY DEF Inv
<1>m. /\ Len(madt) \in Nat /\ DOMAIN madt = 1 .. Len(madt) /\ k \in Nat
      /\ \A j \in DOMAIN madt : madt[j].apic_id \in Aps \cup {Bsp}
  BY <1>i, MadtFacts DEF TypeOK
<1>d. \A i, j \in DOMAIN madt :
        madt[i].type = "lapic" /\ madt[j].type = "lapic" /\ madt[i].apic_id = madt[j].apic_id
          => i = j
  BY <1>i, MadtFacts DEF TypeOK
<1>z. ~x2apic => \A a \in Aps : pc[a] \in Asleep
  BY <1>i DEF Walk
<1>1. CASE StartAps \/ StartIdle \/ StartIdlePanic
  <2>1. /\ bpc \in {"start", "idle"} /\ bpc' \in {"idle", "madt", "panic"}
        /\ UNCHANGED <<pc, madt, k, x2apic>>
    BY <1>1 DEF StartAps, StartIdle, StartIdlePanic, apVars, fixed
  <2>2. \A a \in Aps : pc[a] = "off"
    BY <1>i, <2>1 DEF Walk
  <2> QED
    BY <2>1, <2>2 DEF Walk, Waking, Ahead, Asleep
<1>2. CASE WalkEnd \/ WaitUp \/ FreeBootspace
  <2>1. bpc' \in {"wait_up", "free", "done"} /\ UNCHANGED <<pc, madt, k, x2apic>>
    BY <1>2 DEF WalkEnd, WaitUp, FreeBootspace, apVars, fixed
  <2> QED
    BY <1>z, <2>1 DEF Walk, Waking
<1>3. CASE SkipOther \/ SkipEntry
  <2>1. /\ bpc = "madt" /\ UNCHANGED <<pc, madt, x2apic>>
        /\ bpc' = "wait_up" \/ (bpc' = "madt" /\ k' = k + 1)
    BY <1>3 DEF SkipOther, SkipEntry, apVars, fixed
  <2>2. bpc' = "madt" => \A j \in Ahead' : j \in Ahead
    BY <1>m, <2>1 DEF Ahead, Woken
  <2> QED
    BY <1>i, <1>z, <2>1, <2>2 DEF Walk, Waking
<1>4. CASE Prepare
  <2>1. /\ bpc = "madt" /\ bpc' \in {"init_ipi", "panic"} /\ UNCHANGED <<pc, madt, x2apic, k>>
        /\ k <= Len(madt) /\ madt[k].type = "lapic" /\ madt[k].apic_id # Bsp
    BY <1>4 DEF Prepare, Wanted, apVars, fixed
  <2>2. Cur \in Aps
    <3>1. k \in DOMAIN madt
      BY <1>i, <1>m, <2>1 DEF TypeOK
    <3> QED
      BY <1>m, <2>1, <3>1 DEF Cur
  <2>3. \A j \in Ahead' : j \in Ahead
    BY <2>1 DEF Ahead, Woken
  <2> QED
    BY <1>i, <1>z, <2>1, <2>2, <2>3 DEF Walk, Waking, Cur
<1>5. CASE SendInit \/ SendStartup
  <2>1. /\ UNCHANGED <<k, madt, x2apic>>
        /\ bpc \in {"init_ipi", "startup1", "startup2"} /\ Cur \in Aps
        /\ \A b \in Aps : pc'[b] = pc[b] \/ (pc[b] \in Asleep /\ pc'[b] = "parked")
                          \/ (/\ pc[b] \in Asleep /\ pc'[b] = "on" /\ b = Cur
                              /\ x2apic /\ bpc = "startup1")
    BY <1>5, SendFacts
  <2>2. /\ bpc' \in {"reset", "startup1", "startup2", "wait"}
        /\ bpc = "startup1" => bpc' = "startup2"
        /\ bpc = "startup2" => bpc' = "wait"
    BY <1>5 DEF SendInit, SendStartup
  <2>3. Waking /\ k \in DOMAIN madt /\ madt[k].type = "lapic" /\ k <= Len(madt)
    BY <1>i, <1>m, <2>1 DEF Walk, Waking, TypeOK
  <2>4. ~x2apic => \A b \in Aps : pc'[b] \in Asleep
    BY <1>z, <2>1 DEF Asleep
  <2>5. \A j \in Ahead' : j \in Ahead
    BY <2>1, <2>2 DEF Ahead, Woken
  <2>6. bpc = "startup1" => \A j \in Ahead' : j # k
    BY <1>m, <2>1, <2>2 DEF Ahead, Woken
  <2>7. ASSUME NEW j \in Ahead' PROVE pc'[madt[j].apic_id] \in Asleep
    <3>1. j \in DOMAIN madt /\ madt[j].type = "lapic" /\ madt[j].apic_id \in Aps
      BY <2>5 DEF Ahead
    <3>2. pc[madt[j].apic_id] \in Asleep
      BY <1>i, <2>3, <2>5 DEF Walk
    <3>3. bpc = "startup1" => madt[j].apic_id # Cur
      BY <1>d, <2>3, <2>6, <3>1 DEF Cur
    <3> QED
      BY <2>1, <3>1, <3>2, <3>3 DEF Asleep
  <2>8. Cur' = Cur
    BY <2>1 DEF Cur
  <2>9. \A j \in Ahead' : pc'[madt'[j].apic_id] \in Asleep
    BY <2>1, <2>7
  <2> QED
    BY <2>1, <2>2, <2>3, <2>4, <2>8, <2>9 DEF Walk
<1>6. CASE WaitBooted
  <2>1. bpc = "wait" /\ bpc' = "ack" /\ UNCHANGED <<pc, madt, x2apic, k>>
    BY <1>6 DEF WaitBooted, apVars, fixed
  <2>2. Ahead' = Ahead
    BY <2>1 DEF Ahead, Woken
  <2> QED
    BY <1>i, <2>1, <2>2 DEF Walk, Waking, Cur
<1>7. CASE Acknowledge
  <2>1. /\ bpc = "ack" /\ UNCHANGED <<pc, madt, x2apic>>
        /\ bpc' = "wait_up" \/ (bpc' = "madt" /\ k' = k + 1)
    BY <1>7 DEF Acknowledge, apVars, fixed
  <2>2. bpc' = "madt" => \A j \in Ahead' : j \in Ahead
    BY <1>m, <2>1 DEF Ahead, Woken
  <2> QED
    BY <1>i, <1>z, <2>1, <2>2 DEF Walk, Waking
<1>8. ASSUME NEW a \in Aps, ApStep(a) PROVE Walk'
  <2>1. /\ UNCHANGED <<bpc, k, x2apic, madt>> /\ \A b \in Aps \ {a} : pc'[b] = pc[b]
        /\ pc[a] \notin Asleep
    BY <1>8, <1>i, ApFacts
  <2>2. x2apic /\ bpc \notin {"start", "idle"}
    BY <1>i, <2>1 DEF Walk, Asleep
  <2>3. Ahead' = Ahead /\ (Waking' <=> Waking) /\ Cur' = Cur
    BY <2>1 DEF Ahead, Waking, Cur
  <2>4. Waking \/ bpc = "madt" => \A j \in Ahead : pc'[madt[j].apic_id] \in Asleep
    <3> SUFFICES ASSUME Waking \/ bpc = "madt", NEW j \in Ahead
                 PROVE  pc'[madt[j].apic_id] \in Asleep
      OBVIOUS
    <3>1. madt[j].apic_id \in Aps /\ pc[madt[j].apic_id] \in Asleep
      BY <1>i DEF Walk, Ahead
    <3> QED
      BY <2>1, <3>1
  <2> QED
    BY <1>i, <2>1, <2>2, <2>3, <2>4 DEF Walk
<1>9. CASE UNCHANGED vars
  <2>1. UNCHANGED <<bpc, k, x2apic, madt, pc>>
    BY <1>9 DEF vars, bspVars, apVars, fixed
  <2> QED
    BY <1>i, <2>1 DEF Walk, Waking, Cur, Ahead
<1> QED
  BY <1>1, <1>2, <1>3, <1>4, <1>5, <1>6, <1>7, <1>8, <1>9 DEF Next, BspStep

LEMMA NextWakes == ASSUME Inv, [Next]_vars PROVE Wakes'
<1>i. TypeOK /\ Walk /\ Wakes
  BY DEF Inv
<1>1. CASE \/ StartAps \/ StartIdle \/ StartIdlePanic \/ WalkEnd \/ SkipOther \/ SkipEntry
           \/ Prepare \/ WaitUp \/ FreeBootspace \/ Acknowledge
  <2>1. bpc' \notin Woken \cup {"startup1"}
    BY <1>1 DEF StartAps, StartIdle, StartIdlePanic, WalkEnd, SkipOther, SkipEntry, Prepare,
                WaitUp, FreeBootspace, Acknowledge, Woken
  <2> QED
    BY <2>1 DEF Wakes
<1>2. CASE SendInit
  <2>1. UNCHANGED <<k, madt, x2apic>> /\ Cur \in Aps
    BY <1>2, SendFacts
  <2>2. bpc' \in {"startup1", "reset"}
    BY <1>2 DEF SendInit
  <2>3. x2apic => pc'[Cur] = "parked"
    <3>1. x2apic => pc' = [pc EXCEPT ![Cur] = "parked"]
      BY <1>2, <2>1 DEF SendInit, IpiTarget, Cur
    <3> QED
      BY <1>i, <2>1, <3>1 DEF TypeOK
  <2>4. Cur' = Cur
    BY <2>1 DEF Cur
  <2> QED
    BY <2>1, <2>2, <2>3, <2>4 DEF Wakes, Woken
<1>3. CASE SendStartup
  <2>1. UNCHANGED <<k, madt, x2apic>> /\ Cur \in Aps
    BY <1>3, SendFacts
  <2>2. Cur' = Cur
    BY <2>1 DEF Cur
  <2>3. bpc' \in {"startup2", "wait"} /\ bpc \in {"startup1", "startup2"}
    BY <1>3 DEF SendStartup
  <2>4. x2apic => pc'[Cur] \notin Asleep
    <3>1. CASE x2apic /\ bpc = "startup1"
      <4>1. pc' = [pc EXCEPT ![Cur] = "on"]
        BY <1>3, <1>i, <3>1 DEF SendStartup, Cur, Wakes
      <4> QED
        BY <1>i, <2>1, <4>1 DEF TypeOK, Asleep
    <3>2. CASE x2apic /\ bpc = "startup2"
      <4>1. pc[Cur] \notin Asleep
        BY <1>i, <3>2 DEF Wakes, Woken
      <4>2. pc' = pc
        BY <1>3, <4>1 DEF SendStartup, Asleep, Cur
      <4> QED
        BY <4>1, <4>2
    <3> QED
      BY <2>3, <3>1, <3>2
  <2> QED
    BY <2>1, <2>2, <2>3, <2>4 DEF Wakes
<1>4. CASE WaitBooted
  <2>1. bpc = "wait" /\ bpc' = "ack" /\ UNCHANGED <<pc, madt, x2apic, k>>
    BY <1>4 DEF WaitBooted, apVars, fixed
  <2> QED
    BY <1>i, <2>1 DEF Wakes, Woken, Cur
<1>5. ASSUME NEW a \in Aps, ApStep(a) PROVE Wakes'
  <2>1. /\ UNCHANGED <<bpc, k, x2apic, madt>> /\ \A b \in Aps \ {a} : pc'[b] = pc[b]
        /\ pc[a] \notin Asleep /\ pc'[a] \notin Asleep
    BY <1>5, <1>i, ApFacts
  <2>2. Cur' = Cur
    BY <2>1 DEF Cur
  <2>3. bpc = "startup1" \/ bpc \in Woken => Cur \in Aps
    BY <1>i DEF Walk, Waking, Woken
  <2> QED
    BY <1>i, <2>1, <2>2, <2>3 DEF Wakes, Asleep
<1>6. CASE UNCHANGED vars
  <2>1. UNCHANGED <<bpc, k, x2apic, madt, pc>>
    BY <1>6 DEF vars, bspVars, apVars, fixed
  <2> QED
    BY <1>i, <2>1 DEF Wakes, Cur
<1> QED
  BY <1>1, <1>2, <1>3, <1>4, <1>5, <1>6 DEF Next, BspStep
-----------------------------------------------------------------------------
(* The counters.                                                           *)
LEMMA NextCounters == ASSUME Inv, [Next]_vars PROVE Counters'
<1>i. TypeOK /\ Walk /\ Counters
  BY DEF Inv
<1>f. IsFiniteSet(Up) /\ IsFiniteSet(Counted)
  BY ApsAssumption, FS_Subset DEF Up, Counted
<1>1. ASSUME UNCHANGED <<ap_count, aps_up>>, Up' = Up, Counted' = Counted,
             bpc' \notin {"free", "done"}
      PROVE  Counters'
  BY <1>1, <1>i DEF Counters
<1>2. CASE StartAps \/ StartIdle \/ StartIdlePanic \/ WalkEnd \/ SkipOther \/ SkipEntry
  <2>1. /\ pc' = pc /\ ~Waking /\ ~Waking' /\ UNCHANGED <<ap_count, aps_up>>
        /\ bpc' \notin {"free", "done"}
    BY <1>2 DEF StartAps, StartIdle, StartIdlePanic, WalkEnd, SkipOther, SkipEntry, Waking, apVars
  <2>2. Up' = Up /\ Counted' = Counted
    BY <2>1 DEF Up, Counted
  <2> QED
    BY <1>1, <2>1, <2>2
<1>3. CASE Prepare
  <2>1. /\ bpc = "madt" /\ bpc' \in {"init_ipi", "panic"}
        /\ UNCHANGED <<pc, madt, k, ap_count, aps_up>>
    BY <1>3 DEF Prepare, apVars, fixed
  <2>2. Walk'
    BY NextWalk
  <2>3. bpc' = "init_ipi" => pc'[Cur'] \in Asleep
    <3> SUFFICES ASSUME bpc' = "init_ipi" PROVE pc'[Cur'] \in Asleep
      OBVIOUS
    <3>1. Waking'
      BY DEF Waking
    <3>2. k' <= Len(madt') /\ madt'[k'].type = "lapic" /\ Cur' \in Aps
      BY <2>2, <3>1 DEF Walk
    <3>3. k' \in Ahead'
      <4>1. k \in Nat \ {0} /\ Len(madt) \in Nat /\ DOMAIN madt = 1 .. Len(madt)
        BY <1>i, MadtFacts DEF TypeOK
      <4> QED
        BY <2>1, <3>2, <4>1 DEF Ahead, Woken, Cur
    <3> QED
      BY <2>2, <3>1, <3>3 DEF Walk, Cur
  <2>4. Up' = Up /\ Counted' = Counted
    BY <2>1, <2>3 DEF Up, Counted, Waking, Asleep
  <2> QED
    BY <1>1, <2>1, <2>4
<1>4. CASE SendInit \/ SendStartup
  <2>1. /\ UNCHANGED <<k, madt, ap_count, aps_up>> /\ Waking /\ Cur \in Aps
        /\ \A b \in Aps : pc'[b] = pc[b] \/ (pc[b] \in Asleep /\ pc'[b] \in {"parked", "on"})
    BY <1>4, SendFacts DEF Waking
  <2>2. bpc' \in {"startup1", "startup2", "wait", "reset"} /\ (bpc' = "reset" => bpc = "init_ipi")
    BY <1>4 DEF SendInit, SendStartup
  <2>3. \A b \in Aps : /\ b # Cur \/ bpc = "init_ipi" => (pc'[b] \in Asleep <=> pc[b] \in Asleep)
                       /\ pc'[b] \in {"publish", "idle"} <=> pc[b] \in {"publish", "idle"}
    BY <1>4, SendFacts DEF Asleep
  <2>4. bpc = "init_ipi" => pc[Cur] \in Asleep
    <3>1. k \in DOMAIN madt /\ madt[k].type = "lapic"
      <4>1. k \in Nat \ {0} /\ Len(madt) \in Nat /\ DOMAIN madt = 1 .. Len(madt) /\ k <= Len(madt)
        BY <1>i, <2>1, MadtFacts DEF TypeOK, Walk
      <4> QED
        BY <1>i, <2>1, <4>1 DEF Walk
    <3>2. bpc = "init_ipi" => k \in Ahead
      BY <2>1, <3>1 DEF Ahead, Cur, Woken
    <3> QED
      BY <1>i, <2>1, <3>2 DEF Walk, Cur
  <2>5. Up' = Up
    BY <2>3 DEF Up
  <2>6. Counted' = Counted
    <3>1. CASE Waking'
      BY <2>1, <2>3, <3>1 DEF Counted, Cur
    <3>2. CASE ~Waking'
      <4>1. pc[Cur] \in Asleep
        BY <2>2, <2>4, <3>2 DEF Waking
      <4> QED
        BY <2>1, <2>2, <2>3, <3>2, <4>1 DEF Counted, Waking
    <3> QED
      BY <3>1, <3>2
  <2> QED
    BY <1>1, <2>1, <2>2, <2>5, <2>6
<1>5. CASE WaitBooted
  <2>1. Waking /\ Waking' /\ UNCHANGED <<pc, k, madt, ap_count, aps_up>> /\ bpc' = "ack"
    BY <1>5 DEF WaitBooted, apVars, fixed, Waking
  <2>2. Up' = Up /\ Counted' = Counted
    BY <2>1 DEF Up, Counted, Cur
  <2> QED
    BY <1>1, <2>1, <2>2
<1>6. CASE Acknowledge
  <2>1. /\ bpc = "ack" /\ bpc' \in {"madt", "wait_up"} /\ UNCHANGED <<pc, aps_up>>
        /\ ap_count' = ap_count + 1
    BY <1>6 DEF Acknowledge, apVars
  <2>2. PICK a \in Aps : a = Cur
    BY <1>i, <2>1 DEF Walk, Waking
  <2>3. a \notin Counted
    BY <2>1, <2>2 DEF Counted, Waking
  <2>4. Up' = Up /\ (Counted' = Counted \cup {a} \/ Counted' = Counted)
    BY <2>1, <2>2, <2>3 DEF Up, Counted, Waking
  <2>5. Cardinality(Counted \cup {a}) = Cardinality(Counted) + 1
    BY <1>f, <2>3, FS_AddElement
  <2>6. Cardinality(Counted) \in Nat /\ ap_count \in Nat
    BY <1>i, <1>f, FS_CardinalityType DEF TypeOK
  <2>7. ap_count' >= Cardinality(Counted')
    <3>1. Cardinality(Counted') \in {Cardinality(Counted), Cardinality(Counted) + 1}
      BY <2>4, <2>5, Zenon
    <3>2. ap_count >= Cardinality(Counted)
      BY <1>i DEF Counters
    <3> QED
      BY <2>1, <2>6, <3>1, <3>2
  <2> QED
    BY <1>i, <2>1, <2>4, <2>7 DEF Counters
<1>7. CASE WaitUp
  <2>1. /\ bpc = "wait_up" /\ bpc' = "free" /\ UNCHANGED <<pc, ap_count, aps_up>>
        /\ aps_up >= ap_count
    BY <1>7 DEF WaitUp, apVars
  <2>2. Up' = Up /\ Counted' = Counted
    BY <2>1 DEF Up, Counted, Waking
  <2>3. Up \subseteq Counted
    BY <2>1 DEF Up, Counted, Waking, Asleep
  <2>4. Cardinality(Up) <= Cardinality(Counted) /\ (Cardinality(Up) = Cardinality(Counted) => Up = Counted)
    BY <1>f, <2>3, FS_Subset
  <2>5. Cardinality(Up) \in Nat /\ Cardinality(Counted) \in Nat
    BY <1>f, FS_CardinalityType
  <2>6. Up = Counted
    <3>1. ap_count \in Nat /\ aps_up \in Nat
      BY <1>i DEF TypeOK
    <3> QED
      BY <1>i, <2>1, <2>4, <2>5, <3>1 DEF Counters
  <2>7. \A a \in Aps : pc[a] \in Asleep \cup {"publish", "idle"}
    BY <2>1, <2>6 DEF Up, Counted, Waking
  <2> QED
    BY <1>i, <2>1, <2>2, <2>7 DEF Counters
<1>8. CASE FreeBootspace
  <2>1. bpc = "free" /\ bpc' = "done" /\ UNCHANGED <<pc, ap_count, aps_up>>
    BY <1>8 DEF FreeBootspace, apVars
  <2>2. Up' = Up /\ Counted' = Counted
    BY <2>1 DEF Up, Counted, Waking
  <2> QED
    BY <1>i, <2>1, <2>2 DEF Counters
<1>9. ASSUME NEW a \in Aps, ApStep(a) PROVE Counters'
  <2>1. /\ UNCHANGED <<bpc, k, madt, ap_count>> /\ \A b \in Aps \ {a} : pc'[b] = pc[b]
        /\ pc[a] \notin Asleep /\ pc'[a] \notin Asleep
    BY <1>9, <1>i, ApFacts
  <2>2. Cur' = Cur /\ (Waking' <=> Waking)
    BY <2>1 DEF Cur, Waking
  <2>3. Counted' = Counted
    BY <2>1, <2>2 DEF Counted
  <2>4. pc'[a] \in {"publish", "idle"} \/ bpc \notin {"free", "done"}
    <3>1. (pc[a] = "publish" /\ pc'[a] = "idle") \/ pc[a] \notin Asleep \cup {"publish", "idle"}
      BY <1>9, <1>i, Moves DEF ApStep, Asleep
    <3> QED
      BY <1>i, <3>1 DEF Counters
  <2>6. bpc' \in {"free", "done"} => \A b \in Aps : pc'[b] \in Asleep \cup {"publish", "idle"}
    BY <1>i, <2>1, <2>4 DEF Counters
  <2>7. CASE IncUp(a)
    <3>1. pc[a] = "inc" /\ pc'[a] = "publish"
      BY <2>7, <1>9, <1>i, Moves
    <3>2. a \notin Up /\ Up' = Up \cup {a}
      BY <2>1, <3>1 DEF Up
    <3>3. Cardinality(Up \cup {a}) = Cardinality(Up) + 1
      BY <1>f, <3>2, FS_AddElement
    <3>4. aps_up' = aps_up + 1
      BY <2>7 DEF IncUp
    <3> QED
      BY <1>i, <2>1, <2>3, <2>6, <3>2, <3>3, <3>4 DEF Counters
  <2>8. CASE ~IncUp(a)
    <3>1. /\ aps_up' = aps_up
          /\ pc'[a] \in {"publish", "idle"} <=> pc[a] \in {"publish", "idle"}
      <4>1. aps_up' = aps_up
        BY <2>8, <1>9 DEF ApStep, LoadCr3, LoadRsp, Announce, LmEntry, AllocCi, AllocCiPanic, Conf,
                          Publish
      <4>2. pc'[a] \in {"publish", "idle"} <=> pc[a] \in {"publish", "idle"}
        BY <2>8, <1>9, <1>i, Moves DEF ApStep
      <4> QED
        BY <4>1, <4>2
    <3>2. Up' = Up
      BY <2>1, <3>1 DEF Up
    <3> QED
      BY <1>i, <2>1, <2>3, <2>6, <3>1, <3>2 DEF Counters
  <2> QED
    BY <2>7, <2>8
<1>10. CASE UNCHANGED vars
  <2>1. UNCHANGED <<bpc, k, madt, pc, ap_count, aps_up>>
    BY <1>10 DEF vars, bspVars, apVars, fixed
  <2> QED
    BY <1>i, <2>1 DEF Counters, Up, Counted, Waking, Cur
<1> QED
  BY <1>2, <1>3, <1>4, <1>5, <1>6, <1>7, <1>8, <1>9, <1>10 DEF Next, BspStep
-----------------------------------------------------------------------------
(* Stacks and page tables.                                                 *)

(* What a step of the boot processor leaves alone.                         *)
LEMMA BspFacts ==
  ASSUME Inv, BspStep
  PROVE  /\ UNCHANGED <<cr3, rsp, mtrr>> /\ bpc # "done" /\ bpc' # "start"
         /\ \A b \in Aps : \/ pc'[b] = pc[b]
                           \/ pc[b] \in Asleep /\ pc'[b] \in {"parked", "on"}
         /\ StartAps \/ (UNCHANGED <<bs_ok, mtrr_save>> /\ bpc # "start")
         /\ StartAps \/ low' = low \/ low' = [low EXCEPT ![bs["pml4"]] = {}]
         /\ StartAps \/ FreeBootspace \/ bs' = bs
         /\ FreeBootspace \/ (free' \subseteq free /\ bpc' # "done")
         /\ Prepare \/ /\ buda'.cr3 \in {0, buda.cr3} /\ buda'.rsp \in {0, buda.rsp}
                       /\ intact' => buda'.cr3 = buda.cr3 /\ buda'.rsp = buda.rsp
                       /\ Waking' => Waking /\ Cur' = Cur
         /\ intact' => intact
<1>i. TypeOK /\ Walk
  BY DEF Inv
<1> USE DEF BspStep
<1>1. UNCHANGED <<cr3, rsp, mtrr>>
  BY DEF StartAps, StartIdle, StartIdlePanic, WalkEnd, SkipOther, SkipEntry, Prepare, SendInit,
         SendStartup, WaitBooted, Acknowledge, WaitUp, FreeBootspace, apVars
<1>2. /\ bpc # "done" /\ bpc' # "start"
      /\ FreeBootspace \/ bpc' # "done"
      /\ StartAps \/ bpc # "start"
  BY DEF StartAps, StartIdle, StartIdlePanic, WalkEnd, SkipOther, SkipEntry, Prepare, SendInit,
         SendStartup, WaitBooted, Acknowledge, WaitUp, FreeBootspace
<1>3. StartAps \/ UNCHANGED <<bs_ok, mtrr_save>>
  BY DEF StartIdle, StartIdlePanic, WalkEnd, SkipOther, SkipEntry, Prepare, SendInit,
         SendStartup, WaitBooted, Acknowledge, WaitUp, FreeBootspace, fixed
<1>4. StartAps \/ FreeBootspace \/ bs' = bs
  BY DEF StartIdle, StartIdlePanic, WalkEnd, SkipOther, SkipEntry, Prepare, SendInit,
         SendStartup, WaitBooted, Acknowledge, WaitUp
<1>5. FreeBootspace \/ free' \subseteq free
  <2>1. CASE StartAps
    BY <2>1 DEF StartAps, InitBootspace
  <2>2. CASE StartIdle
    BY <2>2 DEF StartIdle, Lowest
  <2>3. CASE ~StartAps /\ ~StartIdle
    BY <2>3 DEF StartIdlePanic, WalkEnd, SkipOther, SkipEntry, Prepare, SendInit,
                SendStartup, WaitBooted, Acknowledge, WaitUp
  <2> QED
    BY <2>1, <2>2, <2>3
<1>6. \A b \in Aps : pc'[b] = pc[b] \/ (pc[b] \in Asleep /\ pc'[b] \in {"parked", "on"})
  <2>1. CASE SendInit \/ SendStartup
    BY <2>1, SendFacts
  <2>2. CASE ~(SendInit \/ SendStartup)
    BY <2>2 DEF StartAps, StartIdle, StartIdlePanic, WalkEnd, SkipOther, SkipEntry, Prepare,
                WaitBooted, Acknowledge, WaitUp, FreeBootspace, apVars
  <2> QED
    BY <2>1, <2>2
<1>b. buda \in [cr3 : Frames \cup {0}, rsp : Frames \cup {0}, is_booted : {0, 1}]
  BY <1>i DEF TypeOK
<1>7. /\ Prepare \/ /\ buda'.cr3 \in {0, buda.cr3} /\ buda'.rsp \in {0, buda.rsp}
                    /\ intact' => buda'.cr3 = buda.cr3 /\ buda'.rsp = buda.rsp
      /\ intact' => intact
  <2>1. CASE StartAps
    <3>1. (\E T, r, l : CopyTrampoline(T, r, l)) \/ UNCHANGED <<buda, intact>>
      BY <2>1 DEF StartAps, InitBootspace
    <3>2. intact' => intact
      BY <3>1 DEF CopyTrampoline
    <3>3. buda' = buda \/ \E x : buda' = [buda EXCEPT !.is_booted = x]
      BY <3>1 DEF CopyTrampoline
    <3> QED
      BY <1>b, <3>2, <3>3
  <2>2. CASE StartIdle
    BY <2>2, <1>i, ClearsFacts DEF StartIdle
  <2>3. CASE ~StartAps /\ ~StartIdle
    <3>1. /\ Prepare \/ buda' = buda \/ buda' = [buda EXCEPT !.is_booted = 0]
          /\ intact' = intact
      BY <2>3 DEF StartIdlePanic, WalkEnd, SkipOther, SkipEntry, Prepare, SendInit,
                  SendStartup, WaitBooted, Acknowledge, WaitUp, FreeBootspace, area
    <3> QED
      BY <1>b, <3>1
  <2> QED
    BY <2>1, <2>2, <2>3
<1>8. Prepare \/ (Waking' => Waking /\ Cur' = Cur)
  BY DEF StartAps, StartIdle, StartIdlePanic, WalkEnd, SkipOther, SkipEntry, SendInit,
         SendStartup, WaitBooted, Acknowledge, WaitUp, FreeBootspace, Waking, Cur, fixed
<1>9. StartAps \/ low' = low \/ low' = [low EXCEPT ![bs["pml4"]] = {}]
  BY DEF StartIdle, StartIdlePanic, WalkEnd, SkipOther, SkipEntry, Prepare, StoreDescriptor,
         SendInit, SendStartup, WaitBooted, Acknowledge, WaitUp, FreeBootspace
<1> QED
  BY <1>1, <1>2, <1>3, <1>4, <1>5, <1>6, <1>7, <1>8, <1>9

LEMMA PrepareFacts ==
  ASSUME TypeOK, Prepare
  PROVE  /\ bpc = "madt" /\ bpc' \in {"init_ipi", "panic"}
         /\ UNCHANGED <<bs, bs_ok, pc, cr3, rsp, intact>>
         /\ free' \subseteq free
         /\ UNCHANGED buda \/ /\ buda'.rsp \in free /\ buda'.rsp \notin free'
                              /\ buda'.cr3 = bs["pml4"] /\ buda'.is_booted = buda.is_booted
         /\ Waking' => buda'.rsp \in free
<1>1. /\ bpc = "madt" /\ bpc' \in {"init_ipi", "panic"}
      /\ UNCHANGED <<bs, bs_ok, pc, cr3, rsp, intact>> /\ free' \subseteq free
  BY DEF Prepare, apVars, fixed, area
<1>2. /\ UNCHANGED buda \/ \E f \in free : /\ free' = free \ {f}
                                         /\ buda' = [buda EXCEPT !.rsp = f, !.cr3 = bs["pml4"]]
      /\ Waking' => \E f \in free : buda' = [buda EXCEPT !.rsp = f, !.cr3 = bs["pml4"]]
  BY DEF Prepare, Waking
<1>3. buda \in [cr3 : Frames \cup {0}, rsp : Frames \cup {0}, is_booted : {0, 1}]
  BY DEF TypeOK
<1> QED
  BY <1>1, <1>2, <1>3

(* What a step of processor a does to the pool and to the tables.           *)
LEMMA ApMemory ==
  ASSUME TypeOK, NEW a \in Aps, ApStep(a)
  PROVE  /\ free' \subseteq free
         /\ low' = low \/ \E f \in free : low' = [low EXCEPT ![f] = {}]
         /\ LmEntry(a) \/ UNCHANGED <<free, low>>
         /\ LoadRsp(a) \/ rsp' = rsp
         /\ LoadRsp(a) => rsp'[a] = buda.rsp /\ buda' = buda
         /\ LoadRsp(a) \/ \A b \in Aps : pc'[b] \in OnStack => pc[b] \in OnStack
<1>1. /\ free' \subseteq free
      /\ low' = low \/ \E f \in free : low' = [low EXCEPT ![f] = {}]
      /\ LmEntry(a) \/ UNCHANGED <<free, low>>
      /\ LoadRsp(a) \/ rsp' = rsp
  BY DEF ApStep, LoadCr3, LoadRsp, Announce, LmEntry, clean_addrsp, AllocCi, AllocCiPanic,
         Conf, IncUp, Publish
<1>2. LoadRsp(a) => rsp'[a] = buda.rsp /\ buda' = buda
  BY DEF LoadRsp, TypeOK
<1>3. LoadRsp(a) \/ \A b \in Aps : pc'[b] \in OnStack => pc[b] \in OnStack
  BY Moves DEF ApStep, OnStack, Paging
<1> QED
  BY <1>1, <1>2, <1>3

LEMMA NextStacks == ASSUME Inv, [Next]_vars PROVE Stacks'
<1>i. TypeOK /\ Stacks
  BY DEF Inv
<1>1. ASSUME rsp' = rsp, \A b \in Aps : pc'[b] \in OnStack => pc[b] \in OnStack,
             bpc' # "done" => bpc # "done" /\ free' \subseteq free,
             bpc' # "done" => buda'.rsp \in {0, buda.rsp} \/ buda'.rsp \notin free'
      PROVE  Stacks'
  BY <1>1, <1>i DEF Stacks
<1>2. CASE Prepare
  <2>1. /\ bpc = "madt" /\ UNCHANGED <<pc, rsp>> /\ free' \subseteq free
        /\ UNCHANGED buda \/ buda'.rsp \notin free'
    BY <1>2, <1>i, PrepareFacts
  <2> QED
    BY <1>1, <2>1
<1>3. CASE BspStep /\ ~Prepare
  <2>1. /\ rsp' = rsp /\ bpc # "done" /\ buda'.rsp \in {0, buda.rsp}
        /\ \A b \in Aps : pc'[b] = pc[b] \/ (pc[b] \in Asleep /\ pc'[b] \in {"parked", "on"})
        /\ FreeBootspace \/ (free' \subseteq free /\ bpc' # "done")
    BY <1>3, BspFacts
  <2>2. FreeBootspace => bpc' = "done"
    BY DEF FreeBootspace
  <2>3. \A b \in Aps : pc'[b] \in OnStack => pc[b] \in OnStack
    BY <2>1 DEF OnStack, Paging
  <2> QED
    BY <1>1, <2>1, <2>2, <2>3
<1>4. ASSUME NEW a \in Aps, ApStep(a) PROVE Stacks'
  <2>1. /\ bpc' = bpc /\ buda'.rsp \in {0, buda.rsp}
        /\ \A b \in Aps \ {a} : pc'[b] = pc[b] /\ rsp'[b] = rsp[b]
    BY <1>4, <1>i, ApFacts
  <2>2. /\ free' \subseteq free
        /\ LoadRsp(a) \/ (rsp' = rsp /\ \A b \in Aps : pc'[b] \in OnStack => pc[b] \in OnStack)
        /\ LoadRsp(a) => rsp'[a] = buda.rsp /\ buda' = buda
    BY <1>4, <1>i, ApMemory
  <2>3. CASE LoadRsp(a)
    BY <1>i, <2>1, <2>2, <2>3 DEF Stacks
  <2>4. CASE ~LoadRsp(a)
    BY <1>1, <2>1, <2>2, <2>4
  <2> QED
    BY <2>3, <2>4
<1>5. CASE UNCHANGED vars
  <2>1. UNCHANGED <<bpc, pc, rsp, buda, free>>
    BY <1>5 DEF vars, bspVars, apVars
  <2> QED
    BY <1>i, <2>1 DEF Stacks
<1> QED
  BY <1>2, <1>3, <1>4, <1>5 DEF Next

LEMMA NextBootspace == ASSUME Inv, [Next]_vars PROVE Bootspace'
<1>i. TypeOK /\ Walk /\ Counters /\ Stacks /\ Bootspace
  BY DEF Inv
<1>t. /\ low \in [Frames \cup {0} -> SUBSET Frames] /\ bs["pml4"] \in Frames \cup {0}
      /\ free \subseteq Frames \cup {0} /\ bs_ok \in BOOLEAN
  BY <1>i DEF TypeOK, Tables
<1>1. CASE StartAps
  <2>1. bpc = "start" /\ bpc' = "idle" /\ pc' = pc /\ \A a \in Aps : pc[a] = "off"
    BY <1>1, <1>i DEF StartAps, apVars, Walk
  <2>2. /\ ~bs_ok /\ buda.cr3 = 0 /\ buda.rsp = 0 /\ 0 \notin free
        /\ \A f \in Frames \cup {0} : low[f] = {}
    BY <1>i, <2>1 DEF Bootspace, Stacks
  <2>3. buda'.cr3 = 0 /\ buda'.rsp = 0
    <3>1. BspStep /\ ~Prepare
      BY <1>1, <2>1 DEF BspStep, Prepare
    <3> QED
      BY <2>2, <3>1, BspFacts
  <2>4. CASE bs_ok' = FALSE /\ low' = low
    BY <2>1, <2>2, <2>3, <2>4 DEF Bootspace, OnStack, Paging
  <2>5. ASSUME NEW p4 \in free, NEW p3 \in free, NEW p2 \in free, NEW p1 \in free,
               bs' = [pml4 |-> p4, pml3 |-> p3, pml2 |-> p2, pml1 |-> p1],
               free' = free \ {p4, p3, p2, p1}, bs_ok' = TRUE,
               CopyTrampoline({p4, p3, p2, p1}, p4, p1)
        PROVE  Bootspace'
    <3>1. BsFrames' = {p4, p3, p2, p1} /\ bs'["pml4"] = p4
      BY <2>5 DEF BsFrames
    <3>2. low' = low \/ low' = [low EXCEPT ![p4] = {p4, p3, p2, p1} \ {p4}]
      BY <2>5 DEF CopyTrampoline
    <3>3. p4 \in Frames \cup {0} /\ p4 # 0
      BY <1>t, <2>2
    <3>4. low'[0] = {} /\ low'[p4] \subseteq {p4, p3, p2, p1}
      BY <1>t, <2>2, <3>2, <3>3
    <3>5. BsFrames' \cap free' = {} /\ 0 \notin BsFrames'
      BY <2>2, <2>5, <3>1
    <3> QED
      BY <2>1, <2>3, <2>5, <3>1, <3>4, <3>5 DEF Bootspace, OnStack, Paging
  <2> QED
    BY <1>1, <2>4, <2>5 DEF StartAps, InitBootspace
<1>2. CASE FreeBootspace
  <2>1. bpc = "free" /\ bpc' = "done" /\ UNCHANGED <<pc, low, bs_ok>>
    BY <1>2 DEF FreeBootspace, apVars, fixed
  <2>2. \A a \in Aps : pc[a] \notin {"stack", "announce", "entry"}
    BY <1>i, <2>1 DEF Counters, Asleep
  <2> QED
    BY <1>i, <2>1, <2>2 DEF Bootspace
<1>s. ASSUME low' = low \/ low' = [low EXCEPT ![bs["pml4"]] = {}], bs' = bs, bs_ok' = bs_ok
      PROVE  /\ low'[0] = {} /\ (~bs_ok => \A f \in Frames \cup {0} : low'[f] = {})
             /\ bs_ok /\ bpc # "done" => low'[bs["pml4"]] \subseteq BsFrames
  BY <1>s, <1>t, <1>i DEF Bootspace
<1>3. CASE Prepare
  <2>1. /\ bpc = "madt" /\ bpc' \in {"init_ipi", "panic"}
        /\ UNCHANGED <<bs, bs_ok, pc, cr3, rsp>> /\ free' \subseteq free
        /\ UNCHANGED buda \/ (buda'.rsp \in free /\ buda'.cr3 = bs["pml4"])
    BY <1>3, <1>i, PrepareFacts
  <2>2. BsFrames' = BsFrames
    BY <2>1 DEF BsFrames
  <2>3. low' = low \/ low' = [low EXCEPT ![bs["pml4"]] = {}]
    BY <1>3 DEF Prepare, StoreDescriptor
  <2>4. /\ low'[0] = {} /\ (~bs_ok => \A f \in Frames \cup {0} : low'[f] = {})
        /\ bs_ok /\ bpc # "done" => low'[bs["pml4"]] \subseteq BsFrames
    BY <1>s, <2>1, <2>3
  <2> QED
    BY <1>i, <2>1, <2>2, <2>4 DEF Bootspace
<1>4. CASE BspStep /\ ~StartAps /\ ~FreeBootspace /\ ~Prepare
  <2>1. /\ UNCHANGED <<cr3, rsp, bs_ok, bs>> /\ bpc # "done" /\ bpc' # "start"
        /\ \A b \in Aps : pc'[b] = pc[b] \/ (pc[b] \in Asleep /\ pc'[b] \in {"parked", "on"})
        /\ free' \subseteq free /\ bpc' # "done"
        /\ buda'.cr3 \in {0, buda.cr3} /\ buda'.rsp \in {0, buda.rsp}
        /\ low' = low \/ low' = [low EXCEPT ![bs["pml4"]] = {}]
    BY <1>4, BspFacts
  <2>2. BsFrames' = BsFrames
    BY <2>1 DEF BsFrames
  <2>3. \A b \in Aps : /\ pc'[b] \in OnStack => pc[b] \in OnStack
                       /\ pc'[b] \in Paging => pc[b] \in Paging
                       /\ pc'[b] \in {"stack", "announce", "entry"} => pc'[b] = pc[b]
    BY <2>1 DEF OnStack, Paging
  <2>4. /\ low'[0] = {} /\ (~bs_ok => \A f \in Frames \cup {0} : low'[f] = {})
        /\ bs_ok /\ bpc # "done" => low'[bs["pml4"]] \subseteq BsFrames
    BY <1>s, <2>1
  <2> QED
    BY <1>i, <2>1, <2>2, <2>3, <2>4 DEF Bootspace
<1>5. ASSUME NEW a \in Aps, ApStep(a) PROVE Bootspace'
  <2>1. /\ UNCHANGED <<bpc, bs, bs_ok>> /\ pc[a] \notin Asleep
        /\ buda'.rsp \in {0, buda.rsp} /\ buda'.cr3 \in {0, buda.cr3}
        /\ \A b \in Aps \ {a} : pc'[b] = pc[b] /\ rsp'[b] = rsp[b] /\ cr3'[b] = cr3[b]
    BY <1>5, <1>i, ApFacts
  <2>2. BsFrames' = BsFrames
    BY <2>1 DEF BsFrames
  <2>3. /\ free' \subseteq free
        /\ low' = low \/ \E f \in free : low' = [low EXCEPT ![f] = {}]
        /\ LoadRsp(a) \/ (rsp' = rsp /\ \A b \in Aps : pc'[b] \in OnStack => pc[b] \in OnStack)
        /\ LoadRsp(a) => rsp'[a] = buda.rsp /\ buda' = buda
    BY <1>5, <1>i, ApMemory
  <2>4. /\ LoadCr3(a) => pc[a] = "on" /\ pc'[a] \in {"stack", "lost"}
        /\ ~LoadCr3(a) => pc[a] \in Paging
        /\ LoadRsp(a) \/ Announce(a) => pc[a] \in {"stack", "announce"}
        /\ ~LoadCr3(a) /\ ~LoadRsp(a) /\ ~Announce(a) => pc'[a] \notin {"stack", "announce", "entry"}
    BY <1>5, <1>i, Moves DEF ApStep, Paging
  <2>5. pc'[a] \in {"stack", "announce", "entry"} => cr3'[a] = bs["pml4"]
    <3>1. CASE LoadCr3(a)
      <4>1. bpc # "done"
        BY <1>i, <2>4, <3>1 DEF Counters, Asleep
      <4>2. cr3'[a] = buda.cr3 /\ (pc'[a] = "stack" => low[buda.cr3] # {})
        BY <3>1, <1>i DEF LoadCr3, At, TypeOK
      <4> QED
        BY <1>i, <2>4, <3>1, <4>1, <4>2 DEF Bootspace
    <3>2. CASE LoadRsp(a) \/ Announce(a)
      <4>1. cr3' = cr3
        BY <3>2 DEF LoadRsp, Announce
      <4> QED
        BY <1>i, <2>4, <3>2, <4>1 DEF Bootspace
    <3> QED
      BY <2>4, <3>1, <3>2
  <2>6. ~bs_ok => pc'[a] \notin Paging
    <3>1. ~bs_ok => LoadCr3(a)
      BY <1>i, <2>4 DEF Bootspace
    <3>2. LoadCr3(a) /\ pc'[a] = "stack" => low[buda.cr3] # {}
      BY <1>i DEF LoadCr3, At, TypeOK
    <3>3. buda.cr3 \in Frames \cup {0}
      BY <1>i, BudaFacts DEF TypeOK
    <3> QED
      BY <1>i, <2>4, <3>1, <3>2, <3>3 DEF Bootspace, Paging
  <2>7. \A f \in Frames \cup {0} : low'[f] \in {{}, low[f]}
    BY <1>t, <2>3
  <2>8. ASSUME bs_ok, bpc # "done"
        PROVE  /\ BsFrames \cap free' = {} /\ low'[bs["pml4"]] \subseteq BsFrames
               /\ buda'.rsp \notin BsFrames
               /\ \A b \in Aps : pc'[b] \in OnStack => rsp'[b] \notin BsFrames
    <3>1. /\ BsFrames \cap free = {} /\ 0 \notin BsFrames /\ low[bs["pml4"]] \subseteq BsFrames
          /\ \A b \in Aps : pc[b] \in OnStack => rsp[b] \notin BsFrames
          /\ buda.rsp \notin BsFrames
      BY <2>8, <1>i DEF Bootspace
    <3>2. low'[bs["pml4"]] \subseteq BsFrames
      BY <1>t, <2>7, <3>1
    <3>3. \A b \in Aps : pc'[b] \in OnStack => rsp'[b] \notin BsFrames
      BY <2>1, <2>3, <3>1
    <3> QED
      BY <2>1, <2>3, <3>1, <3>2, <3>3
  <2>9. /\ low'[0] = {} /\ (~bs_ok => \A f \in Frames \cup {0} : low'[f] = {})
        /\ ~bs_ok => \A b \in Aps : pc'[b] \notin Paging
    BY <1>i, <2>1, <2>6, <2>7 DEF Bootspace
  <2>10. /\ bpc # "start"
         /\ bpc # "done" => buda'.cr3 \in {0, bs["pml4"]}
         /\ bs_ok /\ bpc # "done" => 0 \notin BsFrames
    BY <1>i, <2>1 DEF Bootspace, Walk, Asleep
  <2>11. \A b \in Aps : pc'[b] \in {"stack", "announce", "entry"} => cr3'[b] = bs["pml4"]
    BY <1>i, <2>1, <2>5 DEF Bootspace
  <2> QED
    BY <2>1, <2>2, <2>8, <2>9, <2>10, <2>11 DEF Bootspace
<1>6. CASE UNCHANGED vars
  <2>1. UNCHANGED <<bpc, pc, rsp, cr3, buda, free, bs, bs_ok, low>>
    BY <1>6 DEF vars, bspVars, apVars, fixed
  <2> QED
    BY <1>i, <2>1 DEF Bootspace, BsFrames
<1> QED
  BY <1>1, <1>2, <1>3, <1>4, <1>5, <1>6 DEF Next

LEMMA NextOwnSpaces == ASSUME Inv, [Next]_vars PROVE OwnSpaces'
<1>i. TypeOK /\ Walk /\ Counters /\ Stacks /\ Bootspace /\ OwnSpaces
  BY DEF Inv
<1>t. /\ low \in [Frames \cup {0} -> SUBSET Frames] /\ free \subseteq Frames \cup {0}
      /\ bs["pml4"] \in Frames \cup {0}
      /\ \A b \in Aps : cr3[b] \in Frames \cup {0, Junk}
  BY <1>i DEF TypeOK, Tables
<1>1. CASE StartAps
  <2>1. pc' = pc /\ \A a \in Aps : pc[a] = "off"
    BY <1>1, <1>i DEF StartAps, apVars, Walk
  <2> QED
    BY <2>1 DEF OwnSpaces, Clean
<1>2. CASE FreeBootspace
  <2>1. /\ bpc = "free" /\ bpc' = "done" /\ UNCHANGED <<pc, cr3, rsp, low>>
        /\ free' \subseteq free \cup BsFrames
    BY <1>2 DEF FreeBootspace, apVars, BsFrames
  <2> QED
    BY <1>i, <2>1 DEF OwnSpaces
<1>3. CASE BspStep /\ ~StartAps /\ ~FreeBootspace
  <2>1. /\ UNCHANGED <<cr3, rsp, bs>> /\ bpc # "done"
        /\ \A b \in Aps : pc'[b] = pc[b] \/ (pc[b] \in Asleep /\ pc'[b] \in {"parked", "on"})
        /\ free' \subseteq free
        /\ low' = low \/ low' = [low EXCEPT ![bs["pml4"]] = {}]
    BY <1>3, BspFacts
  <2>2. BsFrames' = BsFrames
    BY <2>1 DEF BsFrames
  <2>3. \A b \in Aps : /\ pc'[b] \in OnStack => pc[b] \in OnStack
                       /\ pc'[b] \in Clean => pc[b] \in Clean
    BY <2>1 DEF OnStack, Paging, Clean
  <2>4. buda'.rsp \in {0, buda.rsp} \/ buda'.rsp \in free
    <3>1. CASE Prepare
      BY <3>1, <1>i, PrepareFacts
    <3>2. CASE ~Prepare
      BY <3>2, <1>3, BspFacts
    <3> QED
      BY <3>1, <3>2
  <2>5. \A f \in Frames \cup {0} : low'[f] \in {{}, low[f]}
    BY <1>t, <2>1
  <2> QED
    BY <1>i, <1>t, <2>1, <2>2, <2>3, <2>4, <2>5 DEF OwnSpaces
<1>4. ASSUME NEW a \in Aps, ApStep(a) PROVE OwnSpaces'
  <2>1. /\ UNCHANGED <<bpc, bs>> /\ buda'.rsp \in {0, buda.rsp}
        /\ \A b \in Aps \ {a} : pc'[b] = pc[b] /\ rsp'[b] = rsp[b] /\ cr3'[b] = cr3[b]
    BY <1>4, <1>i, ApFacts
  <2>2. BsFrames' = BsFrames
    BY <2>1 DEF BsFrames
  <2>3. \A b \in Aps : pc[b] \in Clean /\ cr3[b] # Junk =>
          /\ cr3[b] \notin free /\ cr3[b] # 0 /\ low[cr3[b]] = {}
          /\ bpc # "done" => cr3[b] \notin BsFrames /\ buda.rsp # cr3[b]
          /\ \A c \in Aps : pc[c] \in OnStack => rsp[c] # cr3[b]
    BY <1>i DEF OwnSpaces
  <2>m. /\ LmEntry(a) \/ UNCHANGED <<free, low>>
        /\ LoadRsp(a) \/ (rsp' = rsp /\ \A b \in Aps : pc'[b] \in OnStack => pc[b] \in OnStack)
        /\ LoadRsp(a) => rsp'[a] = buda.rsp /\ buda' = buda
    BY <1>4, <1>i, ApMemory
  <2>p. /\ LmEntry(a) => pc[a] = "entry" /\ pc'[a] \in {"alloc", "lost"}
        /\ LoadRsp(a) => pc[a] = "stack" /\ pc'[a] \in {"announce", "lost"}
        /\ ~LmEntry(a) => (pc'[a] \in Clean => pc[a] \in Clean)
    BY <1>4, <1>i, Moves DEF ApStep, Clean
  <2>4. CASE LmEntry(a)
    <3>1. bpc # "done" /\ ~LoadRsp(a)
      BY <1>i, <2>4, <2>p DEF Counters, Asleep
    <3>2. bs_ok
      BY <1>i, <2>4, <2>p DEF Bootspace, Paging, TypeOK
    <3>4. CASE \E f \in free : /\ free' = free \ {f} /\ low' = [low EXCEPT ![f] = {}]
                               /\ cr3' = [cr3 EXCEPT ![a] = f]
      <4>1. PICK f \in free : /\ free' = free \ {f} /\ low' = [low EXCEPT ![f] = {}]
                              /\ cr3' = [cr3 EXCEPT ![a] = f]
        BY <3>4
      <4>2. cr3'[a] = f
        BY <4>1, <1>i DEF TypeOK
      <4>3. low'[f] = {} /\ \A g \in Frames \cup {0} : g # f => low'[g] = low[g]
        BY <1>t, <4>1
      <4>4. f \notin BsFrames /\ f # 0 /\ buda'.rsp # f
            /\ \A c \in Aps : pc[c] \in OnStack => rsp[c] # f
        BY <1>i, <2>1, <3>1, <3>2 DEF Bootspace, Stacks
      <4>5. ASSUME NEW b \in Aps, pc'[b] \in Clean, cr3'[b] # Junk
            PROVE  /\ cr3'[b] \notin free' /\ cr3'[b] # 0 /\ low'[cr3'[b]] = {}
                   /\ cr3'[b] \notin BsFrames /\ buda'.rsp # cr3'[b]
                   /\ \A c \in Aps : pc'[c] \in OnStack => rsp'[c] # cr3'[b]
        <5>1. CASE b = a
          BY <5>1, <2>m, <3>1, <4>1, <4>2, <4>3, <4>4
        <5>2. CASE b # a
          <6>1. pc[b] \in Clean /\ cr3'[b] = cr3[b] /\ cr3[b] # Junk
            BY <5>2, <4>5, <2>1
          <6>2. cr3[b] # f /\ cr3[b] \in Frames \cup {0} /\ cr3[b] # 0 /\ buda'.rsp # cr3[b]
            BY <1>t, <2>1, <2>3, <3>1, <6>1
          <6> QED
            BY <2>3, <2>m, <3>1, <4>1, <4>3, <6>1, <6>2
        <5> QED
          BY <5>1, <5>2
      <4> QED
        BY <2>1, <2>2, <3>1, <4>5 DEF OwnSpaces
    <3>5. CASE cr3' = [cr3 EXCEPT ![a] = Junk] /\ UNCHANGED <<free, low>>
      <4>1. cr3'[a] = Junk
        BY <3>5, <1>i DEF TypeOK
      <4>2. \A b \in Aps : pc'[b] \in Clean /\ cr3'[b] # Junk => pc[b] \in Clean /\ cr3'[b] = cr3[b]
        BY <2>1, <4>1
      <4> QED
        BY <2>1, <2>2, <2>3, <2>m, <3>1, <3>5, <4>2 DEF OwnSpaces
    <3> QED
      BY <2>4, <3>4, <3>5 DEF LmEntry, clean_addrsp
  <2>5. CASE LoadRsp(a)
    <3>1. UNCHANGED <<cr3, free, low>> /\ bpc # "done"
      BY <2>5, <1>i, <2>p DEF LoadRsp, Counters, Asleep
    <3>2. \A b \in Aps : pc'[b] \in Clean => pc[b] \in Clean
      BY <2>1, <2>p, <2>5 DEF Clean
    <3>3. \A b \in Aps : pc[b] \in Clean /\ cr3[b] # Junk =>
            \A c \in Aps : pc'[c] \in OnStack => rsp'[c] # cr3[b]
      BY <2>1, <2>3, <2>m, <2>5, <3>1
    <3> QED
      BY <2>1, <2>2, <2>3, <3>1, <3>2, <3>3 DEF OwnSpaces
  <2>6. CASE ~LmEntry(a) /\ ~LoadRsp(a)
    <3>1. pc'[a] \in Clean => cr3' = cr3
      BY <2>6, <1>4, <1>i, Moves
         DEF ApStep, LoadCr3, Announce, AllocCi, AllocCiPanic, Conf, IncUp, Publish, Clean
    <3>2. \A b \in Aps : pc'[b] \in Clean => pc[b] \in Clean /\ cr3'[b] = cr3[b]
      BY <2>1, <2>p, <2>6, <3>1
    <3> QED
      BY <2>1, <2>2, <2>3, <2>m, <2>6, <3>2 DEF OwnSpaces
  <2> QED
    BY <2>4, <2>5, <2>6
<1>5. CASE UNCHANGED vars
  <2>1. UNCHANGED <<bpc, pc, rsp, cr3, buda, free, bs, low>>
    BY <1>5 DEF vars, bspVars, apVars
  <2> QED
    BY <1>i, <2>1 DEF OwnSpaces, BsFrames
<1> QED
  BY <1>1, <1>2, <1>3, <1>4, <1>5 DEF Next

(* The descriptor, as long as it works.                                    *)
LEMMA NextHandshake == ASSUME Inv, [Next]_vars, intact' PROVE Handshake'
<1>t. TypeOK /\ Walk /\ Wakes
  BY DEF Inv
<1>a. ASSUME NEW a \in Aps, ApStep(a) PROVE intact
  BY <1>a, <1>t, ApFacts
<1>h. intact /\ Handshake
  <2>1. intact
    BY <1>a, BspFacts DEF Next, vars, area
  <2> QED
    BY <2>1 DEF Inv
<1>b. buda \in [cr3 : Frames \cup {0}, rsp : Frames \cup {0}, is_booted : {0, 1}]
  BY <1>t DEF TypeOK
<1>z. buda.is_booted \in {0, 1}
  BY <1>b
<1>q. /\ bpc \notin Woken => buda.is_booted = 0
      /\ bpc \notin {"startup2", "wait"} => \A a \in Aps : pc[a] \notin InStub
  BY <1>h, <1>z DEF Handshake
<1>1. CASE \/ StartAps \/ StartIdle \/ StartIdlePanic \/ WalkEnd \/ SkipOther \/ SkipEntry
           \/ Prepare \/ WaitUp \/ FreeBootspace
  <2>1. bpc \notin Woken /\ bpc' \notin Woken /\ pc' = pc
    BY <1>1 DEF StartAps, StartIdle, StartIdlePanic, WalkEnd, SkipOther, SkipEntry, Prepare,
                WaitUp, FreeBootspace, apVars, Woken
  <2>2. buda'.is_booted = buda.is_booted
    <3>1. CASE StartAps
      <4>1. UNCHANGED buda \/ \E p4, p3, p2, p1 : CopyTrampoline({p4, p3, p2, p1}, p4, p1)
        BY <3>1 DEF StartAps, InitBootspace
      <4>2. ASSUME NEW p4, NEW p3, NEW p2, NEW p1, CopyTrampoline({p4, p3, p2, p1}, p4, p1)
            PROVE  buda'.is_booted = buda.is_booted
        <5>1. AP_BUDA # p4 /\ AP_BUDA # p1
          BY <4>2 DEF CopyTrampoline
        <5>2. buda' = [buda EXCEPT !.is_booted = buda.is_booted]
          BY <4>2, <5>1 DEF CopyTrampoline
        <5> QED
          BY <1>b, <5>2
      <4> QED
        BY <4>1, <4>2
    <3>2. CASE StartIdle
      <4>1. Clears(IdleTables)
        BY <3>2 DEF StartIdle
      <4> QED
        BY <1>t, <4>1, ClearsFacts
    <3>3. CASE Prepare
      BY <3>3, <1>t, PrepareFacts
    <3>4. CASE StartIdlePanic \/ WalkEnd \/ SkipOther \/ SkipEntry \/ WaitUp \/ FreeBootspace
      BY <3>4 DEF StartIdlePanic, WalkEnd, SkipOther, SkipEntry, WaitUp, FreeBootspace
    <3> QED
      BY <1>1, <3>1, <3>2, <3>3, <3>4
  <2>3. buda'.is_booted = 0 /\ \A a \in Aps : pc[a] \notin InStub
    BY <1>q, <2>1, <2>2 DEF Woken
  <2> QED
    BY <2>1, <2>3 DEF Handshake, Woken
<1>2. CASE SendInit
  <2>1. /\ UNCHANGED buda
        /\ \A b \in Aps : pc'[b] = pc[b] \/ (pc[b] \in Asleep /\ pc'[b] = "parked")
                          \/ (pc'[b] = "on" /\ bpc = "startup1")
    BY <1>2, SendFacts
  <2>2. bpc = "init_ipi" /\ bpc' \in {"startup1", "reset"}
    BY <1>2 DEF SendInit
  <2>3. buda'.is_booted = 0 /\ \A b \in Aps : pc'[b] \notin InStub
    BY <1>q, <2>1, <2>2 DEF Woken, InStub
  <2> QED
    BY <2>2, <2>3 DEF Handshake
<1>3. CASE SendStartup
  <2>1. /\ UNCHANGED <<buda, k, madt, x2apic>> /\ Cur \in Aps
        /\ \A b \in Aps : pc'[b] = pc[b] \/ (pc[b] \in Asleep /\ pc'[b] = "parked")
                          \/ (pc'[b] = "on" /\ b = Cur /\ bpc = "startup1")
    BY <1>3, SendFacts
  <2>2. Cur' = Cur
    BY <2>1 DEF Cur
  <2>3. CASE bpc = "startup1"
    <3>1. bpc' = "startup2" /\ buda'.is_booted = 0
      BY <1>3, <1>q, <2>1, <2>3 DEF SendStartup, Woken
    <3>2. \A b \in Aps : pc'[b] \in InStub => b = Cur
      BY <1>q, <2>1, <2>3 DEF InStub
    <3> QED
      BY <2>1, <2>2, <3>1, <3>2 DEF Handshake
  <2>4. CASE bpc = "startup2"
    <3>1. bpc' = "wait"
      BY <1>3, <2>4 DEF SendStartup
    <3>2. pc' = pc
      BY <1>3, <1>t, <2>4 DEF SendStartup, Wakes, Woken, Asleep, Cur
    <3> QED
      BY <1>h, <2>1, <2>2, <2>4, <3>1, <3>2 DEF Handshake, Woken
  <2> QED
    BY <1>3, <2>3, <2>4 DEF SendStartup
<1>4. CASE WaitBooted
  <2>1. /\ bpc = "wait" /\ bpc' = "ack" /\ buda.is_booted = 1
        /\ UNCHANGED <<pc, buda, madt, k>>
    BY <1>4 DEF WaitBooted, apVars, fixed
  <2> QED
    BY <1>h, <2>1 DEF Handshake, Woken, Cur
<1>5. CASE Acknowledge
  <2>1. /\ bpc = "ack" /\ pc' = pc /\ buda' = [buda EXCEPT !.is_booted = 0]
        /\ bpc' \in {"wait_up", "madt"}
    BY <1>5 DEF Acknowledge, apVars
  <2>2. buda'.is_booted = 0
    BY <1>b, <2>1
  <2>3. \A a \in Aps : pc'[a] \notin InStub
    BY <1>q, <2>1
  <2> QED
    BY <2>1, <2>2, <2>3 DEF Handshake
<1>6. ASSUME NEW a \in Aps, ApStep(a) PROVE Handshake'
  <2>1. /\ UNCHANGED <<bpc, k, madt>> /\ \A b \in Aps \ {a} : pc'[b] = pc[b]
        /\ pc[a] \in Past => pc'[a] \in Past
    BY <1>6, <1>t, ApFacts
  <2>2. Cur' = Cur
    BY <2>1 DEF Cur
  <2>m. /\ LoadCr3(a) \/ LoadRsp(a) \/ Announce(a) => pc[a] \in InStub
        /\ Announce(a) => pc'[a] \in Past
        /\ LoadCr3(a) \/ LoadRsp(a) \/ Announce(a) \/ (pc[a] \in Past /\ pc'[a] \in Past)
    BY <1>6, <1>t, Moves DEF ApStep, InStub, Past
  <2>3. CASE Announce(a)
    <3>1. a = Cur /\ bpc \in {"startup2", "wait"} /\ \A b \in Aps \ {a} : pc[b] \notin InStub
      BY <1>h, <2>m, <2>3 DEF Handshake
    <3>2. pc'[Cur] \in Past /\ \A b \in Aps : pc'[b] \notin InStub
      BY <2>1, <2>m, <2>3, <3>1 DEF Past, InStub
    <3> QED
      BY <2>1, <2>2, <3>1, <3>2 DEF Handshake, Woken
  <2>4. CASE LoadCr3(a) \/ LoadRsp(a)
    <3>1. buda' = buda
      BY <2>4 DEF LoadCr3, LoadRsp
    <3>2. a = Cur /\ bpc \in {"startup2", "wait"} /\ buda.is_booted = 0
      BY <1>h, <2>m, <2>4 DEF Handshake
    <3>3. \A b \in Aps : pc'[b] \in InStub => pc[b] \in InStub
      BY <2>1, <2>m, <2>4
    <3> QED
      BY <1>h, <2>1, <2>2, <3>1, <3>2, <3>3 DEF Handshake
  <2>5. CASE LmEntry(a) \/ AllocCi(a) \/ AllocCiPanic(a) \/ Conf(a) \/ IncUp(a) \/ Publish(a)
    <3>0. ~LoadCr3(a) /\ ~LoadRsp(a) /\ ~Announce(a)
      BY <2>5 DEF LmEntry, clean_addrsp, AllocCi, AllocCiPanic, Conf, IncUp, Publish,
                  LoadCr3, LoadRsp, Announce, At
    <3>1. buda' = buda
      <4>1. UNCHANGED buda \/ \E f : Clears({f})
        BY <2>5 DEF LmEntry, clean_addrsp, AllocCi, AllocCiPanic, Conf, IncUp, Publish
      <4> QED
        BY <1>t, <4>1, ClearsFacts
    <3>2. \A b \in Aps : pc'[b] \in InStub => pc[b] \in InStub
      BY <2>1, <2>m, <3>0 DEF Past, InStub
    <3>3. buda.is_booted = 1 \/ bpc = "ack" => pc'[Cur] \in Past
      <4> SUFFICES ASSUME buda.is_booted = 1 \/ bpc = "ack" PROVE pc'[Cur] \in Past
        OBVIOUS
      <4>1. pc[Cur] \in Past /\ Cur \in Aps
        BY <1>h, <1>t DEF Handshake, Walk, Waking, Woken
      <4> QED
        BY <2>1, <4>1
    <3> QED
      BY <1>h, <2>1, <2>2, <3>1, <3>2, <3>3 DEF Handshake
  <2> QED
    BY <1>6, <2>3, <2>4, <2>5 DEF ApStep
<1>7. CASE UNCHANGED vars
  <2>1. UNCHANGED <<bpc, k, madt, pc, buda>>
    BY <1>7 DEF vars, bspVars, apVars, fixed
  <2> QED
    BY <1>h, <2>1 DEF Handshake, Cur
<1> QED
  BY <1>1, <1>2, <1>3, <1>4, <1>5, <1>6, <1>7 DEF Next, BspStep

LEMMA NextStackHanded == ASSUME Inv, [Next]_vars, intact' PROVE StackHanded'
<1>t. TypeOK /\ Walk /\ Stacks /\ Counters
  BY DEF Inv
<1>a. ASSUME NEW a \in Aps, ApStep(a) PROVE intact
  BY <1>a, <1>t, ApFacts
<1>h. Handshake /\ StackHanded
  <2>1. intact
    BY <1>a, BspFacts DEF Next, vars, area
  <2> QED
    BY <2>1 DEF Inv
<1>1. CASE Prepare
  <2>1. /\ bpc = "madt" /\ UNCHANGED <<pc, rsp>> /\ (Waking' => buda'.rsp \in free)
    BY <1>1, <1>t, PrepareFacts
  <2> QED
    BY <1>t, <1>h, <2>1 DEF StackHanded, Stacks
<1>2. CASE BspStep /\ ~Prepare
  <2>1. /\ rsp' = rsp /\ (Waking' => Waking /\ Cur' = Cur /\ buda'.rsp = buda.rsp)
        /\ \A b \in Aps : pc'[b] = pc[b] \/ (pc[b] \in Asleep /\ pc'[b] \in {"parked", "on"})
    BY <1>2, BspFacts
  <2>2. \A b \in Aps : pc'[b] \in OnStack => pc[b] \in OnStack
    BY <2>1 DEF OnStack, Paging
  <2> QED
    BY <1>h, <2>1, <2>2 DEF StackHanded
<1>3. ASSUME NEW a \in Aps, ApStep(a) PROVE StackHanded'
  <2>1. /\ UNCHANGED <<bpc, k, madt>> /\ buda'.rsp = buda.rsp
        /\ \A b \in Aps \ {a} : pc'[b] = pc[b] /\ rsp'[b] = rsp[b]
    BY <1>3, <1>t, ApFacts
  <2>2. Cur' = Cur /\ (Waking' <=> Waking)
    BY <2>1 DEF Cur, Waking
  <2>3. /\ LoadRsp(a) \/ (rsp' = rsp /\ \A b \in Aps : pc'[b] \in OnStack => pc[b] \in OnStack)
        /\ LoadRsp(a) => rsp'[a] = buda.rsp
    BY <1>3, <1>t, ApMemory
  <2>4. CASE LoadRsp(a)
    <3>1. pc[a] = "stack"
      BY <1>3, <1>t, <2>4, Moves
    <3>2. Waking /\ a = Cur
      BY <1>h, <3>1 DEF Handshake, InStub, Waking
    <3>3. \A b \in Aps : pc[b] \in OnStack /\ b # a => rsp[b] # buda.rsp
      BY <1>h, <3>2 DEF StackHanded
    <3>4. \A b, c \in Aps : pc'[b] \in OnStack /\ pc'[c] \in OnStack /\ b # c => rsp'[b] # rsp'[c]
      BY <1>h, <2>1, <2>3, <2>4, <3>3 DEF StackHanded
    <3>5. \A b \in Aps : pc'[b] \in OnStack /\ b # Cur => rsp'[b] # buda.rsp
      BY <2>1, <3>2, <3>3
    <3> QED
      BY <2>1, <2>2, <3>4, <3>5 DEF StackHanded
  <2>5. CASE ~LoadRsp(a)
    BY <1>h, <2>1, <2>2, <2>3, <2>5 DEF StackHanded
  <2> QED
    BY <2>4, <2>5
<1>4. CASE UNCHANGED vars
  <2>1. UNCHANGED <<bpc, k, madt, pc, rsp, buda>>
    BY <1>4 DEF vars, bspVars, apVars, fixed
  <2> QED
    BY <1>h, <2>1 DEF StackHanded, Waking, Cur
<1> QED
  BY <1>1, <1>2, <1>3, <1>4 DEF Next

LEMMA NextMemTypes == ASSUME Inv, [Next]_vars PROVE MemTypes'
<1>i. TypeOK /\ Walk /\ MemTypes
  BY DEF Inv
<1>1. CASE BspStep
  <2>1. /\ mtrr' = mtrr
        /\ \A b \in Aps : pc'[b] = pc[b] \/ (pc[b] \in Asleep /\ pc'[b] \in {"parked", "on"})
        /\ StartAps \/ (mtrr_save' = mtrr_save /\ bpc # "start")
    BY <1>1, BspFacts
  <2>2. StartAps => mtrr_save' = "firmware"
    BY DEF StartAps, cpu_mtrr_save
  <2> QED
    BY <1>i, <2>1, <2>2 DEF MemTypes, TypesAgree
<1>2. ASSUME NEW a \in Aps, ApStep(a) PROVE MemTypes'
  <2>1. /\ UNCHANGED <<bpc, mtrr_save>> /\ pc[a] \notin Asleep
        /\ \A b \in Aps \ {a} : pc'[b] = pc[b] /\ mtrr'[b] = mtrr[b]
    BY <1>2, <1>i, ApFacts
  <2>2. bpc # "start"
    BY <1>i, <2>1 DEF Walk, Asleep
  <2>3. CASE LmEntry(a)
    <3>1. mtrr'[a] = mtrr_save
      BY <2>3, <1>i DEF LmEntry, cpu_mtrr_fetch, TypeOK
    <3> QED
      BY <1>i, <2>1, <2>2, <3>1 DEF MemTypes, TypesAgree
  <2>4. CASE ~LmEntry(a)
    <3>1. /\ mtrr' = mtrr
          /\ pc'[a] \in Clean => pc[a] \in Clean
      BY <2>4, <1>2, <1>i, AtFacts
         DEF ApStep, LoadCr3, LoadRsp, Announce, AllocCi, AllocCiPanic, Conf, IncUp, Publish,
             ApLocations, Clean
    <3> QED
      BY <1>i, <2>1, <3>1 DEF MemTypes, TypesAgree, Clean
  <2> QED
    BY <2>3, <2>4
<1>3. CASE UNCHANGED vars
  BY <1>3, <1>i DEF vars, bspVars, apVars, fixed, MemTypes, TypesAgree
<1> QED
  BY <1>1, <1>2, <1>3 DEF Next
-----------------------------------------------------------------------------
LEMMA Invariance == Spec => []Inv
<1>1. Inv /\ [Next]_vars => Inv'
  <2> SUFFICES ASSUME Inv, [Next]_vars PROVE Inv'
    OBVIOUS
  <2>1. TypeOK'
    BY NextTypes DEF Inv
  <2> QED
    BY <2>1, NextWalk, NextWakes, NextCounters, NextStacks, NextBootspace, NextOwnSpaces,
       NextMemTypes, NextHandshake, NextStackHanded DEF Inv
<1>2. Init => Inv
  BY InitInv
<1> QED
  BY <1>1, <1>2, PTL DEF Spec

(* Every variable keeps its type, whatever the descriptor's flag held at   *)
(* boot and whatever is allocated over the bring-up's pages.               *)
THEOREM TypeCorrect == Spec => []TypeOK
<1>1. Init => TypeOK
  BY InitTypes
<1>2. TypeOK /\ [Next]_vars => TypeOK'
  BY NextTypes
<1> QED
  BY <1>1, <1>2, PTL DEF Spec

(* No two processors run on one stack, for any number of processors, as    *)
(* long as the descriptor works: intact is part of the state, lost in the  *)
(* step that hands out one of the bring-up's pages.                        *)
THEOREM StacksApart == Spec => []OwnStack
<1>1. Inv => OwnStack
  BY DEF Inv, StackHanded, OwnStack
<1> QED
  BY Invariance, <1>1, PTL

(* No processor runs on page tables that are free or somebody's stack:     *)
(* when the counters agree and cpu_free_bootspace runs, everybody who was  *)
(* counted has left the bring-up's address space.  This needs neither a    *)
(* clean descriptor nor a bootspace that could be allocated.               *)
THEOREM TablesStayLive == Spec => []TablesLive
<1>1. Inv => TablesLive
  <2> SUFFICES ASSUME Inv, NEW a \in Aps, pc[a] \in Paging, cr3[a] # Junk
               PROVE  /\ ({cr3[a]} \cup low[cr3[a]]) \cap free = {}
                      /\ \A b \in Aps : pc[b] \in OnStack => rsp[b] \notin {cr3[a]} \cup low[cr3[a]]
    BY DEF TablesLive
  <2>1. CASE pc[a] \in Clean
    BY <2>1 DEF Inv, OwnSpaces
  <2>2. CASE pc[a] \in {"stack", "announce", "entry"}
    <3>1. bpc # "done"
      BY <2>2 DEF Inv, Counters, Asleep
    <3>2. bs_ok
      BY DEF Inv, Bootspace, TypeOK
    <3>3. /\ cr3[a] = bs["pml4"]
          /\ BsFrames \cap free = {} /\ low[bs["pml4"]] \subseteq BsFrames
          /\ \A b \in Aps : pc[b] \in OnStack => rsp[b] \notin BsFrames
      BY <2>2, <3>1, <3>2 DEF Inv, Bootspace
    <3>4. {cr3[a]} \cup low[cr3[a]] \subseteq BsFrames
      BY <3>3 DEF BsFrames
    <3> QED
      BY <3>3, <3>4
  <2> QED
    BY <2>1, <2>2 DEF Paging, Clean
<1> QED
  BY Invariance, <1>1, PTL

(* The descriptor's addresses do not change between a processor's start    *)
(* and its reading them, up to the step that hands out one of the          *)
(* bring-up's pages.                                                       *)
THEOREM DescriptorHeld == Spec => DescriptorStable
<1>1. ASSUME Inv, [Next]_vars, intact', NEW a \in Aps, pc[a] \in {"on", "stack"}
      PROVE  buda'.cr3 = buda.cr3 /\ buda'.rsp = buda.rsp
  <2>1. TypeOK
    BY <1>1 DEF Inv
  <2>2. ASSUME NEW b \in Aps, ApStep(b)
        PROVE  intact /\ buda'.cr3 = buda.cr3 /\ buda'.rsp = buda.rsp
    BY <1>1, <2>1, <2>2, ApFacts
  <2>3. CASE BspStep
    <3>1. intact
      BY <1>1, <2>3, BspFacts
    <3>2. ~Prepare
      BY <1>1, <3>1 DEF Prepare, Inv, Handshake, InStub
    <3> QED
      BY <1>1, <2>3, <3>2, BspFacts
  <2>4. CASE UNCHANGED vars
    BY <2>4 DEF vars
  <2> QED
    BY <1>1, <2>2, <2>3, <2>4 DEF Next
<1>2. Inv /\ [Next]_vars =>
        [intact' /\ (\E a \in Aps : pc[a] \in {"on", "stack"})
           => buda'.cr3 = buda.cr3 /\ buda'.rsp = buda.rsp]_vars
  BY <1>1
<1> QED
  BY Invariance, <1>2, PTL DEF Spec, DescriptorStable

(* A processor that touches the kernel's shared data works with the boot   *)
(* processor's memory types.                                               *)
THEOREM TypesShared == Spec => []TypesAgree
<1>1. Inv => TypesAgree
  BY DEF Inv, MemTypes
<1> QED
  BY Invariance, <1>1, PTL
=============================================================================
