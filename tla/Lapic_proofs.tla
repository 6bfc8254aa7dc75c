---------------------------- MODULE Lapic_proofs ----------------------------
(***************************************************************************)
(* Proofs about the local APIC timers and the interprocessor interrupts,   *)
(* for any set of APIC ids and any readings of the 8254.                   *)
(***************************************************************************)
EXTENDS Lapic, Library, WellFoundedInduction, TLAPS

Sending == {"init", "startup1", "startup2", "booted"}
Locations == Sending \cup
             {"acpi", "off", "wait", "enable", "panic", "calibrate", "sample", "divide_error",
              "gate", "madt", "done", "arm", "hlt", "isr", "parked", "reset"}

Entries == [vector : Nat, mask : BOOLEAN]
Settings == [has_x2apic : BOOLEAN, lapic_tmr_freq : Nat]
Commands == [dest : Cpus, delmod : SUBSET (0 .. 2), vector : SUBSET BuaVector]
Messages == [sent : Commands, asked : Commands]

TypeOK ==
  /\ x2apic \in BOOLEAN /\ bsp \in Cpus /\ gate \in BOOLEAN
  /\ lvt \in [Cpus -> Entries]
  /\ count \in [Cpus -> Nat]
  /\ pending \in [Cpus -> Nat \cup {None}] /\ inService \in [Cpus -> Nat \cup {None}]
  /\ mcb \in [Cpus -> Settings]
  /\ begin \in [Cpus -> 0 .. 255]
  /\ icr \in Commands /\ wire \in Seq(Messages)
  /\ todo \subseteq Cpus /\ target \in Cpus \cup {None}
  /\ pc \in [Cpus -> Locations]

(* No interrupt of the timer is asked for or in service.                   *)
Quiet(c) == pending[c] = None /\ inService[c] = None

(* A timer is unmasked only with its vector and after the gate; it counts  *)
(* only where the code waits for it, or has been reset out of there, and   *)
(* but for a parked processor while nothing is asked for or in service.    *)
TimerState ==
  \A c \in Cpus :
    /\ ~lvt[c].mask => lvt[c].vector = LAPIC_TMR_VEC /\ gate
    /\ pc[c] \notin {"arm", "hlt", "isr", "parked", "reset"} => lvt[c].mask /\ Quiet(c)
    /\ count[c] # 0 => pc[c] \in {"sample", "hlt", "parked", "reset"}
    /\ count[c] # 0 /\ pc[c] \notin {"parked", "reset"} => Quiet(c)
    /\ pc[c] = "arm" => Quiet(c) /\ gate
    /\ pc[c] = "hlt" => inService[c] = None /\ gate
    /\ pc[c] = "isr" => pending[c] = None /\ gate

(* The boot processor knows its mode before it sends; an xAPIC's command   *)
(* register is free whenever the code writes it.                           *)
SenderState ==
  /\ pc[bsp] \notin {"off", "wait"}
  /\ pc[bsp] \in Sending \cup {"calibrate", "sample", "gate", "madt"} =>
       mcb[bsp].has_x2apic = x2apic
  /\ pc[bsp] \in Sending => target \in Cpus
  /\ x2apic /\ pc[bsp] \in Sending => target # bsp /\ target \notin todo
  /\ ~x2apic /\ wire # <<>> => pc[bsp] \in {"startup1", "startup2", "booted", "reset"}

(* A message that was sent as asked, to a processor other than the first,  *)
(* b.                                                                      *)
Sound(m, b) ==
  /\ m.sent = m.asked /\ m.sent.dest # b
  /\ <<m.sent.delmod, m.sent.vector>> \in {<<INIT, NoVector>>, <<STARTUP, BuaVector>>}

(* A message to t, the processor being started, or one that is ignored;    *)
(* p is pc.                                                                *)
Placed(m, b, t, p) ==
  \/ p[b] \in Sending /\ m.sent.dest = t
  \/ m.sent.delmod = STARTUP /\ p[m.sent.dest] \notin {"off", "wait"}

(* Nothing is under way (w) to h, and it has not been started.             *)
Untouched(h, p, w) == p[h] = "off" /\ \A i \in DOMAIN w : w[i].sent.dest # h

(* In x2APIC mode: INIT finds its processor off and is under way once;     *)
(* the processors still to be started, and the one about to be, are off    *)
(* with nothing under way to them.                                         *)
WireState ==
  x2apic =>
    /\ \A i \in DOMAIN wire : Sound(wire[i], bsp) /\ Placed(wire[i], bsp, target, pc)
    /\ \A i \in DOMAIN wire : wire[i].sent.delmod = INIT => pc[wire[i].sent.dest] = "off"
    /\ \A i, j \in DOMAIN wire :
         /\ wire[i].sent.delmod = INIT /\ wire[j].sent.delmod = INIT
         /\ wire[i].sent.dest = wire[j].sent.dest
         => i = j
    /\ \A h \in todo \ {bsp} : Untouched(h, pc, wire)
    /\ pc[bsp] = "init" => Untouched(target, pc, wire)

(* In xAPIC mode, which is polled, one command is under way at a time.     *)
IpisSerial == ~x2apic => Len(wire) <= 1

Inv == TypeOK /\ TimerState /\ TimerDelivered /\ SenderState /\ IpisSerial /\ WireState
-----------------------------------------------------------------------------
(* Arithmetic of the calibration: a sample is positive, and what is        *)
(* divided by it or by USEC is a natural number.                           *)
LEMMA Quotient == ASSUME NEW a \in Nat, NEW b \in Nat \ {0} PROVE a \div b \in Nat
OBVIOUS

LEMMA Product == ASSUME NEW a \in Nat, NEW b \in Nat PROVE a * b \in Nat
OBVIOUS

(* What the functions make of an LVT entry and of the settings.            *)
LEMMA EntryFacts ==
  ASSUME NEW e \in Entries
  PROVE  /\ lapic_tmr_disable(e) \in Entries /\ lapic_tmr_disable(e).mask
         /\ lapic_tmr_enable(e) \in Entries /\ ~lapic_tmr_enable(e).mask
         /\ lapic_tmr_enable(e).vector = LAPIC_TMR_VEC
BY DEF Entries, lapic_tmr_disable, lapic_tmr_enable, LAPIC_TMR_VEC

LEMMA SettingFacts ==
  ASSUME NEW m \in Settings, x2apic \in BOOLEAN, NEW f \in Nat
  PROVE  /\ lapic_enable(m) \in Settings /\ lapic_enable(m).has_x2apic = x2apic
         /\ [m EXCEPT !.lapic_tmr_freq = f] \in Settings
         /\ [m EXCEPT !.lapic_tmr_freq = f].has_x2apic = m.has_x2apic
BY DEF Settings, lapic_enable

LEMMA WireFacts ==
  ASSUME NEW S, NEW w \in Seq(S)
  PROVE  /\ Len(w) \in Nat /\ (w = <<>> <=> Len(w) = 0)
         /\ DOMAIN w = 1 .. Len(w) /\ \A i \in 1 .. Len(w) : w[i] \in S
         /\ w # <<>> => /\ Head(w) = w[1] /\ Head(w) \in S /\ Tail(w) \in Seq(S)
                        /\ Len(Tail(w)) = Len(w) - 1
                        /\ \A i \in 1 .. Len(w) - 1 : Tail(w)[i] = w[i + 1]
OBVIOUS

LEMMA AppendFacts ==
  ASSUME NEW S, NEW w \in Seq(S), NEW m \in S
  PROVE  /\ Append(w, m) \in Seq(S) /\ Len(Append(w, m)) = Len(w) + 1
         /\ \A i \in 1 .. Len(w) : Append(w, m)[i] = w[i]
         /\ Append(w, m)[Len(w) + 1] = m
OBVIOUS

LEMMA Apart == INIT # STARTUP
<1>1. 0 \in INIT /\ 0 \notin STARTUP
  BY DEF INIT, STARTUP
<1> QED
  BY <1>1

LEMMA MessageFacts ==
  ASSUME NEW w \in Seq(Messages)
  PROVE  \A i \in DOMAIN w : w[i] \in Messages /\ w[i].sent.dest \in Cpus
<1>1. \A i \in DOMAIN w : w[i] \in Messages
  BY WireFacts
<1>2. \A m \in Messages : m.sent.dest \in Cpus
  BY DEF Messages, Commands
<1> QED
  BY <1>1, <1>2

(* lapic_send_ipi: in x2APIC mode the command is the one asked for.        *)
LEMMA CommandFacts ==
  ASSUME TypeOK, NEW ipi \in Commands
  PROVE  /\ Command(ipi) \in Commands
         /\ mcb[bsp].has_x2apic => Command(ipi) = ipi
<1>1. 0 \in Cpus /\ mcb[bsp].has_x2apic \in BOOLEAN
  BY LapicAssumption DEF TypeOK, Settings
<1>2. CASE mcb[bsp].has_x2apic
  <2>1. Command(ipi) = [dest |-> ipi.dest, delmod |-> {} \cup ipi.delmod,
                        vector |-> {} \cup ipi.vector]
    BY <1>2 DEF Command, lapic_write, NoCommand, NoVector
  <2> QED
    BY <1>2, <2>1 DEF Commands
<1>3. CASE ~mcb[bsp].has_x2apic
  <2>1. Command(ipi) = [dest |-> icr.dest, delmod |-> icr.delmod \cup ipi.delmod,
                        vector |-> icr.vector \cup ipi.vector]
    BY <1>3 DEF Command, lapic_write, lapic_read, TypeOK, Commands
  <2> QED
    BY <1>3, <2>1 DEF TypeOK, Commands
<1> QED
  BY <1>1, <1>2, <1>3

LEMMA InitInv == Init => Inv
<1> SUFFICES ASSUME Init PROVE Inv
  OBVIOUS
<1> USE LapicAssumption DEF Init
<1>1. TypeOK
  <2>1. NoCommand \in Commands
    BY DEF NoCommand, NoVector, Commands
  <2> QED
    <3>1. lvt \in [Cpus -> Entries] /\ mcb \in [Cpus -> Settings]
      BY DEF Entries, Settings
    <3>2. pc \in [Cpus -> Locations]
      BY DEF Locations, Sending
    <3>3. /\ pending \in [Cpus -> Nat \cup {None}] /\ inService \in [Cpus -> Nat \cup {None}]
          /\ count \in [Cpus -> Nat] /\ begin \in [Cpus -> 0 .. 255]
      OBVIOUS
    <3>4. /\ x2apic \in BOOLEAN /\ bsp \in Cpus /\ gate \in BOOLEAN
          /\ todo \subseteq Cpus /\ target \in Cpus \cup {None}
      OBVIOUS
    <3>5. icr \in Commands
      BY <2>1
    <3>6. wire \in Seq(Messages)
      OBVIOUS
    <3> HIDE DEF Init
    <3> QED
      BY <3>1, <3>2, <3>3, <3>4, <3>5, <3>6 DEF TypeOK
<1>2. TimerState
  BY DEF TimerState, Quiet
<1>3. TimerDelivered
  BY DEF TimerDelivered
<1>4. SenderState
  BY DEF SenderState, Sending
<1>5. IpisSerial
  BY DEF IpisSerial
<1>6. WireState
  BY DEF WireState, Untouched
<1> QED
  BY <1>1, <1>2, <1>3, <1>4, <1>5, <1>6 DEF Inv
-----------------------------------------------------------------------------
(* The steps of one processor.                                             *)

LEMMA StepTypes == ASSUME Inv, NEW c \in Cpus, Step(c) \/ Expire(c) PROVE TypeOK'
<1> USE DEF Goto, ipis, Locations
<1>t. TypeOK
  BY DEF Inv
<1>1. CASE lapic_init(c)
  <2>1. mcb[c] \in Settings /\ lapic_enable(mcb[c]) \in Settings
    BY <1>t, SettingFacts DEF TypeOK
  <2>2. mcb' \in [Cpus -> Settings] /\ pc' \in [Cpus -> Locations]
    BY <1>1, <1>t, <2>1, ZenonT(30) DEF lapic_init, TypeOK
  <2> QED
    BY <1>1, <1>t, <2>2 DEF lapic_init, timer, TypeOK
<1>2. CASE BeginSample(c)
  <2>1. LAPIC_TMR_SAMPLES \in Nat /\ Counts \subseteq 0 .. 255
    BY LapicAssumption
  <2>2. lvt' \in [Cpus -> Entries]
    BY <1>2, <1>t, EntryFacts DEF BeginSample, TypeOK
  <2>3. begin' \in [Cpus -> 0 .. 255] /\ count' \in [Cpus -> Nat] /\ pc' \in [Cpus -> Locations]
    BY <1>2, <1>t, <2>1 DEF BeginSample, i8254_get_count, TypeOK
  <2> QED
    BY <1>2, <1>t, <2>2, <2>3 DEF BeginSample, TypeOK
<1>3. CASE EndSample(c)
  <2> DEFINE ticks(n) == (n - begin[c]) % 65536
             freq(n) == (LAPIC_TMR_SAMPLES \div ticks(n)) * I8254_DIVIDEND
  <2>1. PICK n \in Counts :
          IF ticks(n) = 0
          THEN Goto(c, "sample", "divide_error") /\ UNCHANGED mcb
          ELSE Goto(c, "sample", "gate") /\ mcb' = [mcb EXCEPT ![c].lapic_tmr_freq = freq(n)]
    BY <1>3 DEF EndSample, i8254_get_count
  <2>2. ticks(n) \in Nat
    <3>1. n \in 0 .. 255
      BY LapicAssumption
    <3>2. begin[c] \in 0 .. 255
      BY <1>t DEF TypeOK
    <3> QED
      BY <3>1, <3>2
  <2>3. ticks(n) # 0 => freq(n) \in Nat
    <3> HIDE DEF ticks
    <3>1. LAPIC_TMR_SAMPLES \in Nat /\ I8254_DIVIDEND \in Nat
      BY LapicAssumption
    <3>2. ticks(n) # 0 => LAPIC_TMR_SAMPLES \div ticks(n) \in Nat
      BY <2>2, <3>1, Quotient
    <3> QED
      BY <3>1, <3>2, Product
  <2> HIDE DEF ticks, freq
  <2>5. pc' \in [Cpus -> Locations]
    BY <1>t, <2>1 DEF TypeOK
  <2>6. mcb' \in [Cpus -> Settings]
    <3>1. mcb \in [Cpus -> Settings] /\ x2apic \in BOOLEAN
      BY <1>t DEF TypeOK
    <3>2. \/ mcb' = mcb
          \/ freq(n) \in Nat /\ mcb' = [mcb EXCEPT ![c] = [mcb[c] EXCEPT !.lapic_tmr_freq = freq(n)]]
      BY <2>1, <2>3
    <3>3. freq(n) \in Nat => [mcb[c] EXCEPT !.lapic_tmr_freq = freq(n)] \in Settings
      BY <3>1, SettingFacts
    <3> QED
      BY <3>1, <3>2, <3>3
  <2>7. lvt' \in [Cpus -> Entries]
    BY <1>3, <1>t, EntryFacts DEF EndSample, TypeOK
  <2>8. begin' \in [Cpus -> 0 .. 255]
    BY <1>3, <1>t DEF EndSample, TypeOK
  <2> QED
    BY <1>3, <1>t, <2>5, <2>6, <2>7, <2>8, SMTT(30) DEF EndSample, TypeOK
<1>4. CASE idt_set_gate(c)
  BY <1>4, <1>t DEF idt_set_gate, timer, TypeOK
<1>5. CASE lapic_oneshot_usec(c)
  <2>1. mcb[c].lapic_tmr_freq \div USEC \in Nat
    BY <1>t, LapicAssumption, Quotient DEF TypeOK, Settings
  <2>2. lvt' \in [Cpus -> Entries]
    BY <1>5, <1>t, EntryFacts DEF lapic_oneshot_usec, lapic_timer_oneshot, TypeOK
  <2>3. count' \in [Cpus -> Nat] /\ pc' \in [Cpus -> Locations]
    BY <1>5, <1>t, <2>1 DEF lapic_oneshot_usec, lapic_timer_oneshot, TypeOK
  <2> QED
    BY <1>5, <1>t, <2>2, <2>3 DEF lapic_oneshot_usec, TypeOK
<1>6. CASE lapic_tmr_isr(c)
  BY <1>6, <1>t DEF lapic_tmr_isr, TypeOK
<1>7. CASE lapic_eoi(c)
  BY <1>7, <1>t DEF lapic_eoi, TypeOK
<1>8. CASE Expire(c)
  <2>1. lvt[c].vector \in Nat
    BY <1>t DEF TypeOK, Entries
  <2> QED
    BY <1>8, <1>t, <2>1 DEF Expire, TypeOK
<1>9. CASE sched_enter(c)
  <2>1. mcb[c].lapic_tmr_freq \div USEC \in Nat
    BY <1>t, LapicAssumption, Quotient DEF TypeOK, Settings
  <2>2. lvt' \in [Cpus -> Entries]
    BY <1>9, <1>t, EntryFacts DEF sched_enter, lapic_timer_oneshot, TypeOK
  <2>3. count' \in [Cpus -> Nat] /\ pc' \in [Cpus -> Locations]
    BY <1>9, <1>t, <2>1 DEF sched_enter, lapic_timer_oneshot, TypeOK
  <2> QED
    BY <1>9, <1>t, <2>2, <2>3 DEF sched_enter, TypeOK
<1> QED
  BY <1>1, <1>2, <1>3, <1>4, <1>5, <1>6, <1>7, <1>8, <1>9 DEF Step

LEMMA StepTimer ==
  ASSUME Inv, NEW c \in Cpus, Step(c) \/ Expire(c) PROVE TimerState' /\ TimerDelivered'
<1> USE DEF Goto, ipis, Quiet, TimerState, TimerDelivered
<1>t. TypeOK /\ TimerState /\ TimerDelivered
  BY DEF Inv
<1>1. CASE lapic_init(c)
  <2>1. /\ pc[c] = "enable"
        /\ (pc' = [pc EXCEPT ![c] = "calibrate"] \/ pc' = [pc EXCEPT ![c] = "panic"])
        /\ UNCHANGED <<gate, lvt, count, pending, inService>>
    BY <1>1 DEF lapic_init, timer
  <2>2. pc \in [Cpus -> Locations]
    BY <1>t DEF TypeOK
  <2>3. pc'[c] \in {"calibrate", "panic"} /\ \A d \in Cpus : d # c => pc'[d] = pc[d]
    BY <2>1, <2>2
  <2> QED
    BY <1>t, <2>1, <2>3
<1>2. CASE BeginSample(c)
  <2>1. /\ pc[c] = "calibrate" /\ pc' = [pc EXCEPT ![c] = "sample"]
        /\ lvt' = [lvt EXCEPT ![c] = lapic_tmr_disable(@)]
        /\ count' = [count EXCEPT ![c] = LAPIC_TMR_SAMPLES]
        /\ UNCHANGED <<gate, pending, inService>>
    BY <1>2 DEF BeginSample
  <2>2. lvt \in [Cpus -> Entries] /\ pc \in [Cpus -> Locations] /\ count \in [Cpus -> Nat]
    BY <1>t DEF TypeOK
  <2>3. lapic_tmr_disable(lvt[c]).mask
    BY <2>2, EntryFacts
  <2>4. /\ lvt'[c].mask /\ pc'[c] = "sample"
        /\ \A d \in Cpus : d # c => lvt'[d] = lvt[d] /\ pc'[d] = pc[d] /\ count'[d] = count[d]
    BY <2>1, <2>2, <2>3
  <2> QED
    BY <1>t, <2>1, <2>4
<1>3. CASE EndSample(c)
  <2>1. /\ pc[c] = "sample" /\ count[c] = 0
        /\ pc' = [pc EXCEPT ![c] = "gate"] \/ pc' = [pc EXCEPT ![c] = "divide_error"]
        /\ lvt' = [lvt EXCEPT ![c] = lapic_tmr_disable(@)]
        /\ UNCHANGED <<gate, count, pending, inService>>
    BY <1>3 DEF EndSample
  <2>2. lvt \in [Cpus -> Entries] /\ pc \in [Cpus -> Locations]
    BY <1>t DEF TypeOK
  <2>3. lapic_tmr_disable(lvt[c]).mask
    BY <2>2, EntryFacts
  <2>4. /\ lvt'[c].mask /\ pc'[c] \in {"gate", "divide_error"}
        /\ \A d \in Cpus : d # c => lvt'[d] = lvt[d] /\ pc'[d] = pc[d]
    BY <2>1, <2>2, <2>3
  <2> QED
    BY <1>t, <2>1, <2>4
<1>4. CASE idt_set_gate(c)
  BY <1>4, <1>t DEF idt_set_gate, timer, TypeOK
<1>5. CASE lapic_oneshot_usec(c)
  BY <1>5, <1>t, EntryFacts DEF lapic_oneshot_usec, lapic_timer_oneshot, TypeOK
<1>6. CASE lapic_tmr_isr(c)
  BY <1>6, <1>t DEF lapic_tmr_isr, TypeOK
<1>7. CASE lapic_eoi(c)
  BY <1>7, <1>t DEF lapic_eoi, TypeOK
<1>8. CASE Expire(c)
  <2>1. /\ count[c] # 0 /\ count' = [count EXCEPT ![c] = 0]
        /\ pending' = [pending EXCEPT ![c] = IF lvt[c].mask THEN @ ELSE lvt[c].vector]
        /\ UNCHANGED <<gate, lvt, inService, pc>>
    BY <1>8 DEF Expire
  <2> QED
    BY <1>t, <2>1 DEF TypeOK
<1>9. CASE sched_enter(c)
  BY <1>9, <1>t, EntryFacts DEF sched_enter, lapic_timer_oneshot, TypeOK
<1> QED
  BY <1>1, <1>2, <1>3, <1>4, <1>5, <1>6, <1>7, <1>8, <1>9 DEF Step

LEMMA StepSender ==
  ASSUME Inv, NEW c \in Cpus, Step(c) \/ Expire(c) PROVE SenderState' /\ IpisSerial'
<1>t. TypeOK /\ SenderState /\ IpisSerial
  BY DEF Inv
<1>s. bsp \in Cpus /\ pc \in [Cpus -> Locations] /\ mcb \in [Cpus -> Settings]
  BY <1>t DEF TypeOK
<1>1. UNCHANGED <<x2apic, bsp, ipis>>
  BY DEF Step, lapic_init, BeginSample, EndSample, idt_set_gate, lapic_oneshot_usec,
         lapic_tmr_isr, lapic_eoi, sched_enter, Expire
<1>2. IpisSerial'
  BY <1>t, <1>1 DEF ipis, IpisSerial
<1>3. SenderState'
  <2> USE DEF Goto, ipis, SenderState, Sending
  <2>1. CASE lapic_init(c)
    <3>1. \/ UNCHANGED mcb /\ pc' = [pc EXCEPT ![c] = "panic"]
          \/ /\ mcb' = [mcb EXCEPT ![c] = lapic_enable(@)]
             /\ pc[c] = "enable" /\ pc' = [pc EXCEPT ![c] = "calibrate"]
      BY <2>1 DEF lapic_init
    <3>2. lapic_enable(mcb[c]).has_x2apic = x2apic
      BY <1>s, <1>t, SettingFacts DEF TypeOK
    <3>3. CASE c = bsp
      <4>1. \/ pc'[bsp] = "panic"
            \/ pc'[bsp] = "calibrate" /\ mcb'[bsp].has_x2apic = x2apic
        BY <3>1, <3>2, <3>3, <1>s
      <4> QED
        BY <3>3, <4>1, <2>1, <1>s, <1>t, <1>1 DEF lapic_init
    <3>4. CASE c # bsp
      <4>1. pc'[bsp] = pc[bsp] /\ mcb'[bsp] = mcb[bsp]
        BY <3>1, <3>4, <1>s
      <4> QED
        BY <4>1, <1>t, <1>1
    <3> QED
      BY <3>3, <3>4
  <2>2. CASE BeginSample(c)
    BY <2>2, <1>s, <1>t, <1>1 DEF BeginSample
  <2>3. CASE EndSample(c)
    <3>1. /\ pc[c] = "sample"
          /\ pc' = [pc EXCEPT ![c] = "gate"] \/ pc' = [pc EXCEPT ![c] = "divide_error"]
      BY <2>3 DEF EndSample
    <3>2. mcb'[bsp].has_x2apic = mcb[bsp].has_x2apic
      <4>1. PICK f : mcb' = mcb \/ mcb' = [mcb EXCEPT ![c].lapic_tmr_freq = f]
        BY <2>3 DEF EndSample
      <4> QED
        BY <4>1, <1>s DEF Settings
    <3> QED
      BY <3>1, <3>2, <1>s, <1>t, <1>1
  <2>4. CASE idt_set_gate(c)
    BY <2>4, <1>s, <1>t, <1>1 DEF idt_set_gate
  <2>5. CASE lapic_oneshot_usec(c) \/ lapic_tmr_isr(c) \/ lapic_eoi(c) \/ sched_enter(c)
    BY <2>5, <1>s, <1>t, <1>1 DEF lapic_oneshot_usec, lapic_tmr_isr, lapic_eoi, sched_enter
  <2>6. CASE Expire(c)
    BY <2>6, <1>s, <1>t, <1>1 DEF Expire
  <2> QED
    BY <2>1, <2>2, <2>3, <2>4, <2>5, <2>6 DEF Step
<1> QED
  BY <1>2, <1>3

(* A step of one processor is between locations where it has been started  *)
(* and does not send.                                                      *)
LEMMA StepWire == ASSUME Inv, NEW c \in Cpus, Step(c) \/ Expire(c) PROVE WireState'
<1>t. TypeOK /\ WireState
  BY DEF Inv
<1>s. bsp \in Cpus /\ pc \in [Cpus -> Locations] /\ todo \subseteq Cpus
  BY <1>t DEF TypeOK
<1>1. UNCHANGED <<x2apic, bsp, wire, todo, target>>
  BY DEF Step, lapic_init, BeginSample, EndSample, idt_set_gate, lapic_oneshot_usec,
         lapic_tmr_isr, lapic_eoi, sched_enter, Expire, ipis
<1>2. \A h \in Cpus : /\ pc'[h] \in {"off", "wait"} <=> pc[h] \in {"off", "wait"}
                      /\ pc'[h] = "off" <=> pc[h] = "off"
                      /\ pc'[h] \in Sending <=> pc[h] \in Sending
                      /\ pc'[h] = "init" <=> pc[h] = "init"
  <2> DEFINE Started == Locations \ (Sending \cup {"off", "wait"})
  <2>0. {"enable", "panic", "calibrate", "sample", "divide_error", "gate", "madt", "arm",
         "hlt", "isr", "parked"} \subseteq Started
    BY DEF Locations, Sending
  <2>1. pc' = pc \/ \E to \in Started : pc[c] \in Started /\ pc' = [pc EXCEPT ![c] = to]
    <3> HIDE DEF Started
    <3>1. CASE lapic_init(c)
      BY <3>1, <2>0 DEF lapic_init, Goto
    <3>2. CASE BeginSample(c) \/ EndSample(c)
      BY <3>2, <2>0 DEF BeginSample, EndSample, Goto
    <3>3. CASE idt_set_gate(c) \/ lapic_oneshot_usec(c)
      BY <3>3, <2>0 DEF idt_set_gate, lapic_oneshot_usec, Goto
    <3>4. CASE lapic_tmr_isr(c) \/ lapic_eoi(c) \/ sched_enter(c)
      BY <3>4, <2>0 DEF lapic_tmr_isr, lapic_eoi, sched_enter, Goto
    <3>5. CASE Expire(c)
      BY <3>5 DEF Expire
    <3> QED
      BY <3>1, <3>2, <3>3, <3>4, <3>5 DEF Step
  <2> QED
    BY <1>s, <2>1 DEF Sending
<1>3. \A m \in Messages : (Sound(m, bsp') <=> Sound(m, bsp)) /\ (Placed(m, bsp', target', pc') <=> Placed(m, bsp, target, pc))
  BY <1>s, <1>1, <1>2 DEF Sound, Placed, Messages, Commands
<1>4. \A h \in Cpus : Untouched(h, pc', wire') <=> Untouched(h, pc, wire)
  BY <1>1, <1>2 DEF Untouched
<1>5. \A i \in DOMAIN wire : wire[i] \in Messages /\ wire[i].sent.dest \in Cpus
  BY <1>t, MessageFacts DEF TypeOK
<1>6. pc[bsp] = "init" => target \in Cpus
  BY DEF Inv, SenderState, Sending
<1> QED
  BY <1>s, <1>t, <1>1, <1>2, <1>3, <1>4, <1>5, <1>6 DEF WireState
-----------------------------------------------------------------------------
(* The boot processor's other steps and the delivery of an interrupt leave *)
(* the timers alone.                                                       *)

LEMMA BspTypes == ASSUME Inv, Bsp \/ Deliver PROVE TypeOK'
<1>t. TypeOK /\ SenderState
  BY DEF Inv
<1>p. bsp \in Cpus /\ pc \in [Cpus -> Locations]
  BY <1>t DEF TypeOK
<1>1. CASE acpi_init
  <2>1. pc' \in [Cpus -> Locations]
    BY <1>1, <1>p DEF acpi_init, Goto, Locations
  <2> QED
    BY <1>1, <1>t, <2>1 DEF acpi_init, timer, ipis, TypeOK
<1>2. CASE cpu_lapic_cb
  <2>1. pc' \in [Cpus -> Locations]
    BY <1>2, <1>p DEF cpu_lapic_cb, Goto, Locations, Sending
  <2>2. todo' \subseteq Cpus /\ target' \in Cpus \cup {None}
    BY <1>2, <1>t DEF cpu_lapic_cb, ipis, TypeOK
  <2> QED
    BY <1>2, <1>t, <2>1, <2>2 DEF cpu_lapic_cb, timer, ipis, TypeOK
<1>3. ASSUME NEW from \in Sending, NEW to \in Sending, NEW ipi \in Commands,
             lapic_send_ipi(from, to, ipi)
      PROVE  TypeOK'
  <2>1. pc' \in [Cpus -> Locations]
    BY <1>3, <1>p DEF lapic_send_ipi, Goto, Locations
  <2>2. icr' \in Commands /\ wire' = Append(wire, [sent |-> icr', asked |-> ipi])
    BY <1>3, <1>t, CommandFacts DEF lapic_send_ipi
  <2>3. wire' \in Seq(Messages)
    BY <1>t, <1>3, <2>2, AppendFacts DEF TypeOK, Messages
  <2> QED
    BY <1>3, <1>t, <2>1, <2>2, <2>3 DEF lapic_send_ipi, timer, TypeOK
<1>4. pc[bsp] \in Sending =>
        /\ [dest |-> target, delmod |-> INIT, vector |-> NoVector] \in Commands
        /\ [dest |-> target, delmod |-> STARTUP, vector |-> BuaVector] \in Commands
  BY <1>t DEF SenderState, Commands, INIT, STARTUP, NoVector
<1>5. CASE SendInit \/ SendStartup("startup1", "startup2") \/ SendStartup("startup2", "booted")
  <2>1. pc[bsp] \in Sending
    BY <1>5 DEF SendInit, SendStartup, lapic_send_ipi, Goto, Sending
  <2> QED
    BY <1>3, <1>4, <1>5, <2>1 DEF SendInit, SendStartup, Sending
<1>6. CASE WaitBooted
  <2>1. pc' \in [Cpus -> Locations]
    BY <1>6, <1>p DEF WaitBooted, Goto, Locations
  <2> QED
    BY <1>6, <1>t, <2>1 DEF WaitBooted, timer, TypeOK
<1>7. CASE Deliver
  <2>1. wire \in Seq(Messages) /\ wire # <<>>
    BY <1>7, <1>t DEF Deliver, TypeOK
  <2>2. wire' \in Seq(Messages) /\ Head(wire) \in Messages
    BY <1>7, <2>1, WireFacts DEF Deliver
  <2>3. Head(wire).sent.dest \in Cpus
    BY <2>2 DEF Commands, Messages
  <2>4. pc' \in [Cpus -> Locations]
    BY <1>7, <1>p, <2>3 DEF Deliver, Locations
  <2> QED
    BY <1>7, <1>t, <2>2, <2>4 DEF Deliver, timer, TypeOK
<1> QED
  BY <1>1, <1>2, <1>5, <1>6, <1>7 DEF Bsp

LEMMA BspTimer == ASSUME Inv, Bsp \/ Deliver PROVE TimerState' /\ TimerDelivered'
<1>t. TypeOK /\ TimerState /\ TimerDelivered
  BY DEF Inv
<1>p. bsp \in Cpus /\ pc \in [Cpus -> Locations]
  BY <1>t DEF TypeOK
<1>1. UNCHANGED <<gate, timer>>
  BY DEF Bsp, acpi_init, cpu_lapic_cb, SendInit, SendStartup, lapic_send_ipi, WaitBooted, Deliver
<1>2. \A c \in Cpus : \/ pc'[c] = pc[c]
                      \/ pc'[c] = "reset"
                      \/ /\ pc[c] \notin {"sample", "arm", "hlt", "isr", "parked", "reset"}
                         /\ pc'[c] \notin {"arm", "hlt", "isr", "parked"}
  <2>1. CASE Bsp
    BY <2>1, <1>p DEF Bsp, acpi_init, cpu_lapic_cb, SendInit, SendStartup, lapic_send_ipi,
                      WaitBooted, Goto
  <2>2. CASE Deliver
    BY <2>2, <1>p DEF Deliver
  <2> QED
    BY <2>1, <2>2
<1> QED
  BY <1>t, <1>1, <1>2 DEF timer, Quiet, TimerState, TimerDelivered

LEMMA BspSender == ASSUME Inv, Bsp \/ Deliver PROVE SenderState' /\ IpisSerial'
<1>t. TypeOK /\ SenderState /\ IpisSerial /\ WireState
  BY DEF Inv
<1>p. /\ bsp \in Cpus /\ pc \in [Cpus -> Locations] /\ x2apic \in BOOLEAN
      /\ wire \in Seq(Messages) /\ Len(wire) \in Nat /\ (wire = <<>> <=> Len(wire) = 0)
      /\ DOMAIN wire = 1 .. Len(wire)
  BY <1>t, WireFacts DEF TypeOK
<1>u. UNCHANGED <<x2apic, bsp, mcb>>
  BY DEF Bsp, acpi_init, cpu_lapic_cb, SendInit, SendStartup, lapic_send_ipi, WaitBooted, Deliver
<1>1. CASE acpi_init
  <2>1. pc'[bsp] \in {"enable", "panic"} /\ pc[bsp] = "acpi" /\ UNCHANGED <<wire, target>>
    BY <1>1, <1>p DEF acpi_init, Goto, ipis
  <2> QED
    BY <2>1, <1>t, <1>u DEF SenderState, IpisSerial, Sending
<1>2. CASE cpu_lapic_cb
  <2>1. /\ pc[bsp] = "madt" /\ UNCHANGED wire
        /\ \/ pc'[bsp] \in {"madt", "done"}
           \/ /\ pc'[bsp] = "init" /\ target' \in todo /\ target' # lapic_read_id(bsp)
              /\ target' \notin todo'
    BY <1>2, <1>p DEF cpu_lapic_cb, Goto, ipis
  <2>2. mcb[bsp].has_x2apic = x2apic /\ todo \subseteq Cpus
    BY <2>1, <1>t DEF SenderState, TypeOK
  <2>3. x2apic => lapic_read_id(bsp) = bsp
    BY <2>2 DEF lapic_read_id
  <2> QED
    BY <2>1, <2>2, <2>3, <1>t, <1>u DEF SenderState, IpisSerial, Sending
<1>3. ASSUME NEW from \in Sending, NEW to \in Sending \ {"init"}, NEW ipi \in Commands,
             from = "init" \/ lapic_ipi_poll, lapic_send_ipi(from, to, ipi)
      PROVE  SenderState' /\ IpisSerial'
  <2>1. /\ pc[bsp] = from /\ pc'[bsp] = to /\ UNCHANGED <<target, todo>>
        /\ icr' = Command(ipi) /\ wire' = Append(wire, [sent |-> icr', asked |-> ipi])
    BY <1>3, <1>p DEF lapic_send_ipi, Goto
  <2>2. /\ mcb[bsp].has_x2apic = x2apic /\ target \in Cpus
        /\ (x2apic => target # bsp /\ target \notin todo)
    BY <1>3, <1>t, <2>1 DEF SenderState
  <2>3. [sent |-> icr', asked |-> ipi] \in Messages
    BY <1>t, <2>1, CommandFacts DEF Messages
  <2>4. Len(wire') = Len(wire) + 1
    BY <1>p, <2>1, <2>3, AppendFacts
  <2>6. ~x2apic => wire = <<>>
    <3>1. from = "init" /\ ~x2apic => wire = <<>>
      BY <1>t, <2>1 DEF SenderState
    <3>2. lapic_ipi_poll /\ ~x2apic => wire = <<>>
      BY <2>2 DEF lapic_ipi_poll
    <3> QED
      BY <1>3, <3>1, <3>2
  <2>7. IpisSerial'
    BY <2>4, <2>6, <1>p, <1>u DEF IpisSerial
  <2>8. SenderState'
    BY <1>3, <1>u, <2>1, <2>2 DEF SenderState, Sending
  <2> QED
    BY <2>7, <2>8
<1>4. CASE SendInit \/ SendStartup("startup1", "startup2") \/ SendStartup("startup2", "booted")
  <2> DEFINE init == [dest |-> target, delmod |-> INIT, vector |-> NoVector]
             startup == [dest |-> target, delmod |-> STARTUP, vector |-> BuaVector]
  <2>1. target \in Cpus
    BY <1>4, <1>t DEF SendInit, SendStartup, lapic_send_ipi, Goto, SenderState, Sending
  <2>2. init \in Commands /\ startup \in Commands
    BY <2>1 DEF Commands, INIT, STARTUP, NoVector
  <2>3. \/ lapic_send_ipi("init", "startup1", init)
        \/ lapic_ipi_poll /\ lapic_send_ipi("startup1", "startup2", startup)
        \/ lapic_ipi_poll /\ lapic_send_ipi("startup2", "booted", startup)
    BY <1>4 DEF SendInit, SendStartup
  <2> HIDE DEF init, startup
  <2>4. CASE lapic_send_ipi("init", "startup1", init)
    BY <1>3, <2>2, <2>4 DEF Sending
  <2>5. CASE lapic_ipi_poll /\ lapic_send_ipi("startup1", "startup2", startup)
    BY <1>3, <2>2, <2>5 DEF Sending
  <2>6. CASE lapic_ipi_poll /\ lapic_send_ipi("startup2", "booted", startup)
    BY <1>3, <2>2, <2>6 DEF Sending
  <2> QED
    BY <2>3, <2>4, <2>5, <2>6
<1>5. CASE WaitBooted
  <2>1. pc[bsp] = "booted" /\ pc'[bsp] = "madt" /\ lapic_ipi_poll /\ UNCHANGED wire
    BY <1>5, <1>p DEF WaitBooted, Goto
  <2>2. mcb[bsp].has_x2apic = x2apic
    BY <2>1, <1>t DEF SenderState, Sending
  <2> QED
    BY <2>1, <2>2, <1>t, <1>u DEF SenderState, IpisSerial, Sending, lapic_ipi_poll
<1>6. CASE Deliver
  <2> DEFINE m == Head(wire).sent
  <2>1. /\ wire # <<>> /\ wire' = Tail(wire) /\ UNCHANGED <<target, todo>>
        /\ pc' = [pc EXCEPT ![m.dest] =
                    CASE m.delmod = INIT -> IF @ = "off" THEN "wait" ELSE "reset"
                      [] m.delmod = STARTUP /\ @ = "wait" -> "enable"
                      [] OTHER -> @]
    BY <1>6 DEF Deliver
  <2>2. /\ Head(wire) = wire[1] /\ 1 \in DOMAIN wire /\ Len(wire') = Len(wire) - 1
        /\ (wire' = <<>> <=> Len(wire') = 0)
    <3>1. /\ Head(wire) = wire[1] /\ Len(wire) # 0
          /\ wire' \in Seq(Messages) /\ Len(wire') = Len(wire) - 1
      BY <2>1, <1>p, WireFacts
    <3>2. wire' = <<>> <=> Len(wire') = 0
      BY <3>1, WireFacts
    <3> QED
      BY <3>1, <3>2, <1>p
  <2>3. x2apic => m.dest # bsp
    BY <1>t, <2>2 DEF WireState, Sound
  <2> HIDE DEF m
  <2>4. pc'[bsp] = pc[bsp] \/ (~x2apic /\ pc'[bsp] = "reset")
    <3>1. pc[bsp] \notin {"off", "wait"}
      BY <1>t DEF SenderState
    <3> QED
      BY <1>p, <2>1, <2>3, <3>1
  <2>5. SenderState'
    BY <1>t, <1>u, <2>1, <2>4 DEF SenderState, Sending
  <2>6. IpisSerial'
    BY <1>p, <1>t, <1>u, <2>2 DEF IpisSerial
  <2> QED
    BY <2>5, <2>6
<1> QED
  BY <1>1, <1>2, <1>4, <1>5, <1>6 DEF Bsp
-----------------------------------------------------------------------------
(* In x2APIC mode, sending adds one sound message to the processor being   *)
(* started; the INIT is the first message to it.                           *)
LEMMA SendWire ==
  ASSUME Inv, SendInit \/ SendStartup("startup1", "startup2") \/ SendStartup("startup2", "booted")
  PROVE  WireState'
<1>t. TypeOK /\ SenderState /\ WireState
  BY DEF Inv
<1>p. /\ bsp \in Cpus /\ pc \in [Cpus -> Locations] /\ x2apic \in BOOLEAN /\ todo \subseteq Cpus
      /\ wire \in Seq(Messages) /\ Len(wire) \in Nat /\ DOMAIN wire = 1 .. Len(wire)
  BY <1>t, WireFacts DEF TypeOK
<1>u. UNCHANGED <<x2apic, bsp, mcb, todo, target>>
  BY DEF SendInit, SendStartup, lapic_send_ipi
<1> SUFFICES ASSUME x2apic PROVE WireState'
  BY <1>u DEF WireState
<1>1. PICK from \in Sending, to \in Sending \ {"init"}, d \in {INIT, STARTUP} :
        /\ from = "init" <=> d = INIT
        /\ lapic_send_ipi(from, to, [dest |-> target, delmod |-> d,
                                     vector |-> IF d = INIT THEN NoVector ELSE BuaVector])
  <2>1. INIT # STARTUP
    BY Apart
  <2> QED
    BY <2>1 DEF SendInit, SendStartup, Sending
<1> DEFINE ipi == [dest |-> target, delmod |-> d,
                   vector |-> IF d = INIT THEN NoVector ELSE BuaVector]
<1>2. /\ pc[bsp] = from /\ pc' = [pc EXCEPT ![bsp] = to]
      /\ icr' = Command(ipi) /\ wire' = Append(wire, [sent |-> icr', asked |-> ipi])
  BY <1>1 DEF lapic_send_ipi, Goto
<1>3. mcb[bsp].has_x2apic /\ target \in Cpus /\ target # bsp /\ target \notin todo
  BY <1>t, <1>2 DEF SenderState
<1>4. ipi \in Commands
  BY <1>3 DEF Commands, INIT, STARTUP, NoVector
<1>5. icr' = ipi
  BY <1>t, <1>2, <1>3, <1>4, CommandFacts
<1> DEFINE new == [sent |-> ipi, asked |-> ipi]
<1>6. new \in Messages /\ wire' = Append(wire, new)
  BY <1>2, <1>4, <1>5 DEF Messages
<1>7. /\ new.sent = new.asked /\ new.sent.dest = target /\ new.sent.delmod = d
      /\ <<new.sent.delmod, new.sent.vector>> \in {<<INIT, NoVector>>, <<STARTUP, BuaVector>>}
  OBVIOUS
<1> HIDE DEF ipi, new
<1>8. /\ wire' \in Seq(Messages) /\ DOMAIN wire' = 1 .. Len(wire) + 1
      /\ \A i \in 1 .. Len(wire) : wire'[i] = wire[i]
      /\ wire'[Len(wire) + 1] = new
      /\ \A i \in 1 .. Len(wire) + 1 : i \in 1 .. Len(wire) \/ i = Len(wire) + 1
  <2>1. wire' \in Seq(Messages) /\ Len(wire') = Len(wire) + 1
        /\ \A i \in 1 .. Len(wire) : wire'[i] = wire[i] /\ wire'[Len(wire) + 1] = new
    BY <1>p, <1>6, AppendFacts
  <2>2. DOMAIN wire' = 1 .. Len(wire')
    BY <2>1, WireFacts
  <2>3. \A i \in 1 .. Len(wire) + 1 : i \in 1 .. Len(wire) \/ i = Len(wire) + 1
    BY <1>p
  <2>4. wire'[Len(wire) + 1] = new
    BY <1>p, <1>6, AppendFacts
  <2> QED
    BY <2>1, <2>2, <2>3, <2>4
<1>9. /\ pc'[bsp] = to /\ to \in Sending /\ to # "init"
      /\ \A h \in Cpus : h # bsp => pc'[h] = pc[h]
  BY <1>p, <1>2
<1>10. /\ \A i \in 1 .. Len(wire) : Sound(wire[i], bsp) /\ Placed(wire[i], bsp, target, pc)
       /\ \A i \in 1 .. Len(wire) : wire[i].sent.dest \in Cpus
       /\ \A i \in 1 .. Len(wire) : wire[i].sent.delmod = INIT => pc[wire[i].sent.dest] = "off"
  BY <1>p, <1>t, MessageFacts DEF WireState
<1>11. \A i \in DOMAIN wire' : Sound(wire'[i], bsp') /\ Placed(wire'[i], bsp', target', pc')
  <2>1. Sound(new, bsp') /\ Placed(new, bsp', target', pc')
    BY <1>3, <1>7, <1>9, <1>u DEF Sound, Placed
  <2>2. \A i \in 1 .. Len(wire) : Sound(wire[i], bsp') /\ Placed(wire[i], bsp', target', pc')
    BY <1>2, <1>8, <1>9, <1>10, <1>u DEF Sound, Placed
  <2> QED
    BY <1>8, <2>1, <2>2
<1>12. d = INIT => Untouched(target, pc, wire)
  BY <1>1, <1>2, <1>t DEF WireState
<1>13. \A i \in DOMAIN wire' : wire'[i].sent.delmod = INIT => pc'[wire'[i].sent.dest] = "off"
  <2>1. \A i \in 1 .. Len(wire) : wire[i].sent.delmod = INIT => pc'[wire[i].sent.dest] = "off"
    BY <1>9, <1>10 DEF Sound
  <2>2. new.sent.delmod = INIT => pc'[new.sent.dest] = "off"
    BY <1>3, <1>7, <1>9, <1>12 DEF Untouched
  <2> QED
    BY <1>8, <2>1, <2>2
<1>14. \A i, j \in DOMAIN wire' :
         /\ wire'[i].sent.delmod = INIT /\ wire'[j].sent.delmod = INIT
         /\ wire'[i].sent.dest = wire'[j].sent.dest
         => i = j
  <2>1. \A i, j \in 1 .. Len(wire) :
          /\ wire[i].sent.delmod = INIT /\ wire[j].sent.delmod = INIT
          /\ wire[i].sent.dest = wire[j].sent.dest
          => i = j
    BY <1>p, <1>t DEF WireState
  <2>2. \A i \in 1 .. Len(wire) : ~(new.sent.delmod = INIT /\ wire[i].sent.dest = new.sent.dest)
    BY <1>p, <1>7, <1>12 DEF Untouched
  <2> QED
    BY <1>8, <2>1, <2>2
<1>15. \A h \in todo' \ {bsp'} : Untouched(h, pc', wire')
  <2> SUFFICES ASSUME NEW h \in todo \ {bsp} PROVE Untouched(h, pc', wire')
    BY <1>u
  <2>1. Untouched(h, pc, wire) /\ h # target /\ h \in Cpus
    BY <1>p, <1>t, <1>3 DEF WireState
  <2>2. \A i \in DOMAIN wire' : wire'[i].sent.dest # h
    BY <1>p, <1>7, <1>8, <2>1 DEF Untouched
  <2> QED
    BY <1>9, <2>1, <2>2 DEF Untouched
<1> QED
  BY <1>9, <1>11, <1>13, <1>14, <1>15, <1>u DEF WireState

(* The other steps in x2APIC mode: the callback goes on to a processor     *)
(* nothing was sent to, the wait ends when only ignored messages to its    *)
(* processor are left, and a delivery starts the processor it names.       *)
LEMMA OtherWire ==
  ASSUME Inv, acpi_init \/ cpu_lapic_cb \/ WaitBooted \/ Deliver PROVE WireState'
<1>t. TypeOK /\ SenderState /\ WireState
  BY DEF Inv
<1>p. /\ bsp \in Cpus /\ pc \in [Cpus -> Locations] /\ x2apic \in BOOLEAN /\ todo \subseteq Cpus
      /\ wire \in Seq(Messages) /\ Len(wire) \in Nat /\ DOMAIN wire = 1 .. Len(wire)
  BY <1>t, WireFacts DEF TypeOK
<1>u. UNCHANGED <<x2apic, bsp, mcb>>
  BY DEF acpi_init, cpu_lapic_cb, WaitBooted, Deliver
<1> SUFFICES ASSUME x2apic PROVE WireState'
  BY <1>u DEF WireState
<1>m. \A i \in DOMAIN wire : wire[i] \in Messages /\ wire[i].sent.dest \in Cpus /\ wire[i].sent.dest # bsp
  BY <1>p, <1>t, MessageFacts DEF WireState, Sound
<1>1. CASE acpi_init \/ cpu_lapic_cb \/ WaitBooted
  <2>1. /\ UNCHANGED wire /\ todo' \subseteq todo
        /\ \A h \in Cpus : h # bsp => pc'[h] = pc[h]
    BY <1>1, <1>p DEF acpi_init, cpu_lapic_cb, WaitBooted, Goto, ipis
  <2>2. \A h \in Cpus \ {bsp} : Untouched(h, pc', wire') <=> Untouched(h, pc, wire)
    BY <2>1 DEF Untouched
  <2>3. \A i \in DOMAIN wire :
          /\ wire[i].sent.delmod = STARTUP
          /\ pc[wire[i].sent.dest] \notin {"off", "wait"}
    <3>1. CASE pc[bsp] \notin Sending
      BY <3>1, <1>t DEF WireState, Placed
    <3>2. CASE pc[bsp] \in Sending
      <4>1. WaitBooted
        BY <1>1, <3>2 DEF acpi_init, cpu_lapic_cb, Goto, Sending
      <4>2. pc[target] \notin {"off", "wait"}
        BY <4>1 DEF WaitBooted
      <4>3. \A i \in DOMAIN wire : wire[i].sent.dest = target => wire[i].sent.delmod = STARTUP
        BY <4>2, <1>t DEF WireState, Sound
      <4> QED
        BY <4>2, <4>3, <1>t DEF WireState, Placed
    <3> QED
      BY <3>1, <3>2
  <2>4. \A i \in DOMAIN wire : Sound(wire[i], bsp') /\ Placed(wire[i], bsp', target', pc')
    BY <1>m, <1>t, <1>u, <2>1, <2>3 DEF WireState, Sound, Placed
  <2>5. pc'[bsp] = "init" => Untouched(target', pc', wire')
    <3>1. ASSUME pc'[bsp] = "init" PROVE target' \in todo \ {bsp}
      <4>1. cpu_lapic_cb
        BY <1>1, <1>p, <3>1 DEF acpi_init, WaitBooted, Goto
      <4>2. target' \in todo /\ target' # lapic_read_id(bsp) /\ pc[bsp] = "madt"
        BY <3>1, <4>1, <1>p DEF cpu_lapic_cb, Goto
      <4>3. lapic_read_id(bsp) = bsp
        BY <4>2, <1>t DEF SenderState, lapic_read_id
      <4> QED
        BY <4>2, <4>3
    <3>2. \A h \in todo \ {bsp} : Untouched(h, pc', wire')
      BY <1>p, <1>t, <2>2 DEF WireState
    <3> QED
      BY <2>1, <3>1, <3>2 DEF Untouched
  <2>6. \A i \in DOMAIN wire : wire[i].sent.delmod = INIT => pc'[wire[i].sent.dest] = "off"
    BY <1>m, <1>t, <2>1 DEF WireState
  <2>7. \A h \in todo' \ {bsp'} : Untouched(h, pc', wire')
    BY <1>p, <1>t, <1>u, <2>1, <2>2 DEF WireState
  <2> QED
    BY <1>t, <1>u, <2>1, <2>4, <2>5, <2>6, <2>7 DEF WireState
<1>2. CASE Deliver
  <2> DEFINE m == wire[1].sent
             c == m.dest
  <2>1. /\ wire # <<>> /\ wire' = Tail(wire) /\ UNCHANGED <<target, todo>> /\ Head(wire) = wire[1]
        /\ Len(wire) - 1 \in Nat /\ DOMAIN wire' = 1 .. Len(wire) - 1 /\ 1 \in DOMAIN wire
        /\ \A i \in 1 .. Len(wire) - 1 : wire'[i] = wire[i + 1] /\ i + 1 \in DOMAIN wire /\ i + 1 # 1
    <3>1. wire # <<>> /\ wire' = Tail(wire) /\ UNCHANGED <<target, todo>>
      BY <1>2 DEF Deliver
    <3>2. /\ Head(wire) = wire[1] /\ wire' \in Seq(Messages) /\ Len(wire') = Len(wire) - 1
          /\ \A i \in 1 .. Len(wire) - 1 : wire'[i] = wire[i + 1]
          /\ Len(wire) # 0
      BY <3>1, <1>p, WireFacts
    <3>3. DOMAIN wire' = 1 .. Len(wire')
      BY <3>2, WireFacts
    <3> QED
      BY <3>1, <3>2, <3>3, <1>p
  <2>2. pc' = [pc EXCEPT ![c] =
                 CASE m.delmod = INIT -> IF @ = "off" THEN "wait" ELSE "reset"
                   [] m.delmod = STARTUP /\ @ = "wait" -> "enable"
                   [] OTHER -> @]
    BY <1>2, <2>1 DEF Deliver
  <2>3. /\ c \in Cpus /\ c # bsp /\ m.delmod \in {INIT, STARTUP} /\ INIT # STARTUP
        /\ m.delmod = INIT => pc[c] = "off"
    BY <1>m, <1>t, <2>1, Apart DEF WireState, Sound
  <2> HIDE DEF m
  <2>4. /\ \A h \in Cpus : h # c => pc'[h] = pc[h]
        /\ \/ m.delmod = INIT /\ pc[c] = "off" /\ pc'[c] = "wait"
           \/ pc[c] = "wait" /\ pc'[c] = "enable"
           \/ pc'[c] = pc[c]
    BY <1>p, <2>2, <2>3
  <2>5. \A i \in DOMAIN wire \ {1} :
          /\ Sound(wire[i], bsp') /\ Placed(wire[i], bsp', target', pc')
          /\ wire[i].sent.delmod = INIT => pc'[wire[i].sent.dest] = "off"
    <3> SUFFICES ASSUME NEW i \in DOMAIN wire, i # 1
                 PROVE  /\ Sound(wire[i], bsp') /\ Placed(wire[i], bsp', target', pc')
                        /\ wire[i].sent.delmod = INIT => pc'[wire[i].sent.dest] = "off"
      BY <2>1
    <3>1. /\ Sound(wire[i], bsp) /\ Placed(wire[i], bsp, target, pc)
          /\ wire[i].sent.delmod = INIT => pc[wire[i].sent.dest] = "off"
          /\ ~(m.delmod = INIT /\ wire[i].sent.delmod = INIT /\ wire[i].sent.dest = c)
      BY <1>t, <2>1 DEF WireState, m
    <3>2. wire[i].sent.dest \in Cpus
      BY <1>m
    <3>3. Sound(wire[i], bsp')
      BY <3>1, <1>u, <2>1 DEF Sound
    <3>4. pc'[bsp] = pc[bsp]
      BY <1>p, <2>3, <2>4
    <3>5. Placed(wire[i], bsp', target', pc')
      BY <3>1, <3>2, <3>4, <1>u, <2>1, <2>4 DEF Placed
    <3>6. wire[i].sent.delmod = INIT => pc'[wire[i].sent.dest] = "off"
      BY <3>1, <3>2, <2>3, <2>4
    <3> QED
      BY <3>3, <3>5, <3>6
  <2>6. \A h \in Cpus : Untouched(h, pc, wire) => Untouched(h, pc', wire')
    <3> SUFFICES ASSUME NEW h \in Cpus, Untouched(h, pc, wire) PROVE Untouched(h, pc', wire')
      OBVIOUS
    <3>1. h # c
      BY <2>1 DEF Untouched, m
    <3>2. \A i \in DOMAIN wire' : wire'[i].sent.dest # h
      BY <2>1 DEF Untouched
    <3> QED
      BY <3>1, <3>2, <2>4 DEF Untouched
  <2>7. \A i \in DOMAIN wire' : /\ Sound(wire'[i], bsp') /\ Placed(wire'[i], bsp', target', pc')
                                /\ wire'[i].sent.delmod = INIT => pc'[wire'[i].sent.dest] = "off"
    BY <2>1, <2>5
  <2>8. \A i, j \in DOMAIN wire' :
          /\ wire'[i].sent.delmod = INIT /\ wire'[j].sent.delmod = INIT
          /\ wire'[i].sent.dest = wire'[j].sent.dest
          => i = j
    <3> SUFFICES ASSUME NEW i \in DOMAIN wire', NEW j \in DOMAIN wire',
                        wire'[i].sent.delmod = INIT, wire'[j].sent.delmod = INIT,
                        wire'[i].sent.dest = wire'[j].sent.dest
                 PROVE  i = j
      OBVIOUS
    <3>1. /\ i \in Int /\ i + 1 \in DOMAIN wire /\ wire'[i] = wire[i + 1]
          /\ j \in Int /\ j + 1 \in DOMAIN wire /\ wire'[j] = wire[j + 1]
      BY <2>1
    <3>2. i + 1 = j + 1
      BY <1>t, <3>1 DEF WireState
    <3> QED
      BY <3>1, <3>2
  <2>9. \A h \in todo' \ {bsp'} : Untouched(h, pc', wire')
    BY <1>p, <1>t, <1>u, <2>1, <2>6 DEF WireState
  <2>10. pc'[bsp] = "init" => Untouched(target', pc', wire')
    <3>1. pc'[bsp] = pc[bsp]
      BY <1>p, <2>3, <2>4
    <3>2. pc[bsp] = "init" => target \in Cpus /\ Untouched(target, pc, wire)
      BY <1>t DEF WireState, SenderState, Sending
    <3> QED
      BY <2>1, <2>6, <3>1, <3>2 DEF Untouched
  <2> QED
    BY <1>u, <2>1, <2>7, <2>8, <2>9, <2>10 DEF WireState
<1> QED
  BY <1>1, <1>2

LEMMA Invariance == Spec => []Inv
<1>1. Inv /\ [Next]_vars => Inv'
  <2> SUFFICES ASSUME Inv, [Next]_vars PROVE Inv'
    OBVIOUS
  <2>1. ASSUME NEW c \in Cpus, Step(c) \/ Expire(c) PROVE Inv'
    BY <2>1, StepTypes, StepTimer, StepSender, StepWire DEF Inv
  <2>2. CASE Bsp \/ Deliver
    BY <2>2, BspTypes, BspTimer, BspSender, SendWire, OtherWire DEF Inv, Bsp
  <2>3. CASE UNCHANGED vars
    <3>1. TypeOK'
      <4>1. /\ UNCHANGED <<x2apic, bsp, gate, mcb, begin, pc>>
            /\ UNCHANGED <<lvt, count, pending, inService>>
            /\ UNCHANGED <<icr, wire, todo, target>>
        BY <2>3 DEF vars, timer, ipis
      <4>2. TypeOK
        BY DEF Inv
      <4> QED
        BY <4>1, <4>2 DEF TypeOK
    <3>2. TimerState' /\ TimerDelivered'
      BY <2>3 DEF vars, timer, Inv, TimerState, TimerDelivered, Quiet
    <3>3. SenderState' /\ IpisSerial'
      BY <2>3 DEF vars, timer, ipis, Inv, SenderState, IpisSerial
    <3>4. WireState'
      BY <2>3 DEF vars, timer, ipis, Inv, WireState, Sound, Placed, Untouched
    <3> QED
      BY <3>1, <3>2, <3>3, <3>4 DEF Inv
  <2> QED
    BY <2>1, <2>2, <2>3 DEF Next
<1> QED
  BY InitInv, <1>1, PTL DEF Spec

(* Every register keeps its type: the calibration never divides by zero    *)
(* without stopping, and its frequency is a number.                        *)
THEOREM TypeCorrect == Spec => []TypeOK
<1>1. Inv => TypeOK
  BY DEF Inv
<1> QED
  BY Invariance, <1>1, PTL

(* lapic_tmr_clbr, lapic_init and lapic_timer_oneshot: on no processor     *)
(* does a timer raise anything but its vector, or that one before its gate *)
(* is there or, but for a processor parked in sched_enter, while the       *)
(* interrupt before is in service.                                         *)
THEOREM TimersDelivered == Spec => []TimerDelivered
<1>1. Inv => TimerDelivered
  BY DEF Inv
<1> QED
  BY Invariance, <1>1, PTL

(* lapic_send_ipi in x2APIC mode, for any APIC ids: every command on its   *)
(* way is the one asked for, to the processor being started, or a second   *)
(* STARTUP that an earlier one no longer waits for.                        *)
THEOREM CommandsExact == Spec => []IpisExact
<1>1. Inv => IpisExact
  BY DEF Inv, WireState, Sound, Placed, IpisExact
<1> QED
  BY Invariance, <1>1, PTL

(* lapic_ipi_poll: in xAPIC mode there is never a second command under     *)
(* way.                                                                    *)
THEOREM CommandsSerial == Spec => []IpisSerial
<1>1. Inv => IpisSerial
  BY DEF Inv
<1> QED
  BY Invariance, <1>1, PTL

-----------------------------------------------------------------------------
(* The library functions the processors are started with: how acpi_query   *)
(* finds the MADT and how hpet_msleep waits (Library), for every call.     *)

AnswerInv ==
  /\ call \in Calls
  /\ result # <<>> => call # Nil /\ result = <<Answer(call)>>

LEMMA AnswersKept == LibrarySpec => []AnswerInv
<1>1. LibraryInit => AnswerInv
  BY DEF LibraryInit, AnswerInv
<1>2. AnswerInv /\ [Run]_libraryVars => AnswerInv'
  BY DEF AnswerInv, Run, libraryVars
<1> QED
  BY <1>1, <1>2, PTL DEF LibrarySpec

(* The whole clock periods in m units of u femtoseconds make up that time  *)
(* but for less than one period in each unit.                              *)
LEMMA WholePeriods ==
  ASSUME NEW u \in Nat, NEW p \in Nat, p > 0, NEW m \in Nat
  PROVE  /\ u \div p \in Nat /\ m * (u \div p) \in Nat
         /\ (m * (u \div p)) * p <= m * u
         /\ m > 0 => (m * (u \div p)) * p > m * u - m * p
<1> DEFINE q == u \div p
           r == u % p
<1>1. q \in Nat /\ r \in 0 .. p - 1 /\ u = q * p + r
  BY SMT
<1> HIDE DEF q, r
<1>2. m * q \in Nat /\ m * r \in Nat /\ q * p \in Nat
  BY <1>1
<1>3. m * u = m * (q * p) + m * r
  BY <1>1, <1>2
<1>4. m * (q * p) = (m * q) * p
  BY <1>1
<1>5. m > 0 => m * r < m * p
  <2>1. r + 1 <= p /\ r \in Nat
    BY <1>1
  <2>2. \E k \in Nat : p = r + 1 + k
    <3>1. p - r - 1 \in Nat /\ p = r + 1 + (p - r - 1)
      BY <2>1
    <3> QED
      BY <3>1
  <2>3. PICK k \in Nat : p = r + 1 + k
    BY <2>2
  <2>4. m * p = m * r + m + m * k /\ m * k \in Nat
    BY <2>1, <2>3
  <2> QED
    BY <1>2, <2>4
<1>6. (m * q) * p \in Nat /\ m * p \in Nat
  BY <1>2
<1>7. m * u = (m * q) * p + m * r
  BY <1>3, <1>4
<1>8. (m * q) * p <= m * u /\ (m > 0 => (m * q) * p > m * u - m * p)
  BY <1>2, <1>5, <1>6, <1>7
<1> QED
  BY <1>1, <1>2, <1>8 DEF q

(* The sum in hpet_sleep, counter below 2^Bits: it wraps if it reaches     *)
(* 2^Bits, and is never more than the sum.                                 *)
LEMMA WrappedSum ==
  ASSUME NEW w \in Nat, w > 0, NEW c \in 0 .. w - 1, NEW d \in Nat
  PROVE  /\ (c + d) % w \in Nat
         /\ c + d < w => (c + d) % w = c + d
         /\ (c + d) % w <= c + d
<1>1. (c + d) % w \in 0 .. w - 1 /\ (c + d) % w <= c + d
  BY SMT
<1>2. c + d < w => (c + d) % w = c + d
  BY SMT
<1> QED
  BY <1>1, <1>2

LEMMA CounterType ==
  ASSUME NEW c \in Calls, c # Nil, c.op = "hpet_msleep" PROVE CounterNow(c) \in 0 .. 2^Bits - 1
<1>1. c.counter \in Nat /\ c.elapsed \in Nat
  BY CallsAssumption
<1> DEFINE half == 2^(Bits \div 2)
           w == 2^Bits
<1>2. half \in Nat \ {0} /\ w \in Nat \ {0}
  BY LibraryAssumption
<1>3. CounterNow(c) = ((c.counter \div half) * half + (0 % half) + c.elapsed) % w
  BY DEF CounterNow, hpet_writeq
<1> HIDE DEF half, w
<1>4. c.counter \div half \in Nat /\ 0 % half \in Nat
  BY <1>1, <1>2
<1>5. (c.counter \div half) * half \in Nat
  BY <1>2, <1>4
<1>6. (c.counter \div half) * half + (0 % half) + c.elapsed \in Nat
  BY <1>1, <1>4, <1>5
<1>7. CounterNow(c) \in 0 .. w - 1
  BY <1>2, <1>3, <1>6
<1> QED
  BY <1>7 DEF w

(* hpet_msleep, whatever the clock, its counter and the delay: it never    *)
(* waits longer than it is asked to, and too short by less than a period   *)
(* for each millisecond if its counter does not wrap in that time.         *)
THEOREM SleepsExact == LibrarySpec => []SleepExact
<1>1. AnswerInv => SleepExact
  <2> SUFFICES ASSUME AnswerInv, Returned("hpet_msleep") PROVE SleepExact
    BY DEF SleepExact
  <2>1. call \in Calls /\ call # Nil /\ call.op = "hpet_msleep" /\ value = hpet_msleep(call)
    BY DEF AnswerInv, Returned, value, Answer
  <2>2. /\ call.period \in Nat /\ call.period > 0 /\ call.ms \in Nat
        /\ call.hpet_enabled \in BOOLEAN /\ FEMTOS \in Nat
    BY <2>1, CallsAssumption, LibraryAssumption
  <2> DEFINE due == call.ms * (FEMTOS \div call.period)
             asked == call.ms * FEMTOS
             now == CounterNow(call)
             w == 2^Bits
  <2>3. /\ due \in Nat /\ due * call.period <= asked
        /\ call.ms > 0 => due * call.period > asked - call.ms * call.period
    BY <2>2, WholePeriods
  <2>4. w \in Nat /\ w > 0 /\ now \in 0 .. w - 1
    BY <2>1, CounterType, LibraryAssumption
  <2>5. value = IF call.hpet_enabled
                THEN IF now < (now + due) % w THEN ((now + due) % w) - now ELSE 0
                ELSE 0
    BY <2>1 DEF hpet_msleep, hpet_sleep
  <2>6. asked \in Nat /\ call.ms * call.period \in Nat
    BY <2>2
  <2> HIDE DEF due, asked, now, w
  <2>7. /\ (now + due) % w \in Nat
        /\ now + due < w => (now + due) % w = now + due
        /\ (now + due) % w <= now + due
    BY <2>3, <2>4, WrappedSum
  <2>8. value \in Nat /\ value <= due
    BY <2>3, <2>4, <2>5, <2>7
  <2>9. value * call.period <= due * call.period /\ value * call.period \in Nat
    <3>1. \E k \in Nat : due = value + k
      <4>1. due - value \in Nat /\ due = value + (due - value)
        BY <2>3, <2>8
      <4> QED
        BY <4>1
    <3>2. PICK k \in Nat : due = value + k
      BY <3>1
    <3>3. due * call.period = value * call.period + k * call.period /\ k * call.period \in Nat
          /\ value * call.period \in Nat
      BY <2>2, <2>8, <3>2
    <3> QED
      BY <3>3
  <2>10. call.hpet_enabled /\ now + due < w => value = due
    BY <2>3, <2>4, <2>5, <2>7
  <2>12. value * call.period <= asked
    BY <2>2, <2>3, <2>6, <2>9
  <2> QED
    BY <2>3, <2>10, <2>12 DEF SleepExact, due, asked, now, w
<1> QED
  BY <1>1, AnswersKept, PTL

LEMMA LeastIndex ==
  ASSUME NEW T, T \subseteq Nat, T # {} PROVE Min(T) \in T /\ \A i \in T : Min(T) <= i
<1>1. PICK n \in T : \A i \in T : ~(<<i, n>> \in OpToRel(<, Nat))
  BY NatLessThanWellFounded, WFMin
<1>2. \A i \in T : ~(i < n)
  BY <1>1 DEF OpToRel
<1>3. \A i \in T : n <= i
  BY <1>2
<1> QED
  BY <1>3 DEF Min

(* acpi_query, on every root table: what it returns is a table with that   *)
(* signature and a correct checksum, one of the firmware's or of an XSDT   *)
(* also one at address 0, and of an RSDT it does not miss the first one.   *)
THEOREM QueriesFound == LibrarySpec => []QueryFound
<1>1. AnswerInv => QueryFound
  <2> SUFFICES ASSUME AnswerInv, Returned("acpi_query") PROVE QueryFound
    BY DEF QueryFound
  <2>1. call \in Calls /\ call # Nil /\ call.op = "acpi_query" /\ value = acpi_query(call.root, call.s)
    BY DEF AnswerInv, Returned, value, Answer
  <2> DEFINE tables == call.root.tables
             seen == Seen(call.root)
             low == call.root.low
             hits == {i \in DOMAIN seen : seen[i].signature = call.s}
             same == {i \in DOMAIN tables : tables[i].signature = call.s}
             valid == {i \in same : tables[i].checksum = 0}
  <2>2. /\ call.root.revision \in Nat /\ Len(tables) \in Nat /\ DOMAIN tables = 1 .. Len(tables)
        /\ (\A i \in DOMAIN tables : tables[i] # Nil) /\ low # Nil
    BY <2>1, CallsAssumption
  <2>3. value = IF hits # {} /\ seen[Min(hits)].checksum = 0 THEN seen[Min(hits)] ELSE Nil
    BY <2>1 DEF acpi_query
  <2>4. seen = IF call.root.revision > 1
               THEN [i \in DOMAIN tables |-> IF i % 2 = 0 THEN low ELSE tables[(i + 1) \div 2]]
               ELSE tables
    BY DEF Seen
  <2>5. hits \subseteq Nat /\ same \subseteq Nat /\ hits \subseteq DOMAIN tables /\ DOMAIN seen = DOMAIN tables
    BY <2>2, <2>4
  <2>6. ASSUME value # Nil
        PROVE  \/ \E i \in valid : value = tables[i]
               \/ /\ call.root.revision > 1 /\ value = low
                  /\ value.signature = call.s /\ value.checksum = 0
    <3>1. hits # {} /\ value = seen[Min(hits)] /\ value.checksum = 0
      BY <2>3, <2>6
    <3>2. Min(hits) \in hits
      BY <2>5, <3>1, LeastIndex
    <3>3. \/ \E i \in DOMAIN tables : value = tables[i]
          \/ call.root.revision > 1 /\ value = low
      <4>1. CASE call.root.revision > 1
        <5>1. Min(hits) \in 1 .. Len(tables)
          BY <2>2, <2>5, <3>2
        <5>2. value = low \/ value = tables[(Min(hits) + 1) \div 2]
          <6>1. \A i \in DOMAIN tables : seen[i] = IF i % 2 = 0 THEN low ELSE tables[(i + 1) \div 2]
            BY <2>4, <4>1
          <6>2. Min(hits) \in DOMAIN tables
            BY <2>5, <3>2
          <6> QED
            BY <3>1, <6>1, <6>2
        <5>3. \A n \in Nat : \A k \in 1 .. n : (k + 1) \div 2 \in 1 .. n
          OBVIOUS
        <5>4. (Min(hits) + 1) \div 2 \in 1 .. Len(tables)
          BY <2>2, <5>1, <5>3
        <5> QED
          BY <2>2, <4>1, <5>2, <5>4
      <4>2. CASE ~(call.root.revision > 1)
        BY <2>4, <2>5, <3>1, <3>2, <4>2
      <4> QED
        BY <4>1, <4>2
    <3> QED
      BY <3>1, <3>2, <3>3
  <2>7. ASSUME call.root.revision < 2, same # {}, Min(same) \in valid PROVE value = tables[Min(same)]
    <3>1. seen = tables
      BY <2>2, <2>4, <2>7
    <3>2. hits = same
      BY <2>2, <3>1
    <3> QED
      BY <2>3, <2>7, <3>1, <3>2
  <2> QED
    BY <2>6, <2>7 DEF QueryFound
<1> QED
  BY <1>1, AnswersKept, PTL
=============================================================================
