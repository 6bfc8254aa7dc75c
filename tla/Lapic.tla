------------------------------- MODULE Lapic -------------------------------
(***************************************************************************)
(* The local APICs: sys/arch/amd64/cpu/lapic.c with the 8254 it calibrates *)
(* against (sys/arch/amd64/isa/i8254.S), the interprocessor interrupts     *)
(* cpu_lapic_cb sends (mp.c) and the timer interrupt of a running          *)
(* processor (lapic_tmr_isr, mu_process_switch).  Registers are private to *)
(* their processor: what interleaves with the code is the hardware, timers *)
(* running out and interrupts arriving, and the other processors.  A       *)
(* processor is its APIC id.  Delivery modes and vectors are sets of bits, *)
(* as the code combines them with |.                                       *)
(***************************************************************************)
EXTENDS Integers, Sequences, FiniteSets

CONSTANTS Cpus,               \* APIC ids in the MADT
          Counts,             \* what i8254_get_count may return: it ORs the
                              \* counter's two bytes, so at most 255
          LAPIC_TMR_SAMPLES,
          I8254_DIVIDEND, USEC,   \* 1193182 and 1000000, both in thousands
          None

ASSUME LapicAssumption ==
  /\ Cpus \subseteq Nat /\ 0 \in Cpus /\ Cardinality(Cpus) > 1
  /\ Counts \subseteq 0 .. 255
  /\ {LAPIC_TMR_SAMPLES, I8254_DIVIDEND, USEC} \subseteq Nat \ {0}

LAPIC_TMR_VEC == 129
INIT == {0, 2}       \* IPI_DELMOD_INIT, 5
STARTUP == {1, 2}    \* IPI_DELMOD_STARTUP, 6
NoVector == {}
BuaVector == {"AP_BUA_PADDR >> 12"}
NoCommand == [dest |-> 0, delmod |-> {}, vector |-> NoVector]

VARIABLES x2apic,     \* CPUID says the processors have an x2APIC
          bsp,        \* who runs kmain
          gate,       \* the timer's gate in the IDT, which all share
          lvt, count, pending, inService,    \* per processor: LVT timer entry,
                      \* timer running, vector requested, vector in service
          mcb,        \* per processor: has_x2apic, lapic_tmr_freq
          begin,      \* per processor: ticks_begin
          icr,        \* the first processor's interrupt command register
          wire,       \* interrupts on their way: as sent, and the struct
                      \* lapic_ipi that asked for them
          todo, target,   \* MADT entries left, and the one in the callback
          pc

timer == <<lvt, count, pending, inService>>
ipis == <<icr, wire, todo, target>>
vars == <<x2apic, bsp, gate, timer, mcb, begin, ipis, pc>>

Init ==
  /\ x2apic \in BOOLEAN /\ bsp \in Cpus /\ gate = FALSE
  /\ lvt = [c \in Cpus |-> [vector |-> 0, mask |-> TRUE]]
  /\ count = [c \in Cpus |-> 0]
  /\ pending = [c \in Cpus |-> None]
  /\ inService = [c \in Cpus |-> None]
  /\ mcb = [c \in Cpus |-> [has_x2apic |-> FALSE, lapic_tmr_freq |-> 0]]
  /\ begin = [c \in Cpus |-> 0]
  /\ icr = NoCommand
  /\ wire = <<>>
  /\ todo = Cpus /\ target = None
  /\ pc = [c \in Cpus |-> IF c = bsp THEN "acpi" ELSE "off"]

Goto(c, from, to) == pc[c] = from /\ pc' = [pc EXCEPT ![c] = to]
-----------------------------------------------------------------------------
(* The clock is usable if the firmware lists it and its capabilities have  *)
(* a revision and a period.                                                *)
hpet_init(found, rev_id, clk_period) == found /\ rev_id /\ clk_period

(* The boot processor goes on with a root table that adds up and a clock.  *)
acpi_init ==
  /\ \E sdt_valid, found, rev_id, clk_period \in BOOLEAN :
       Goto(bsp, "acpi", IF sdt_valid /\ hpet_init(found, rev_id, clk_period)
                           THEN "enable" ELSE "panic")
  /\ UNCHANGED <<x2apic, bsp, gate, timer, mcb, begin, ipis>>

lapic_enable(m) == [m EXCEPT !.has_x2apic = x2apic]

(* Without a local APIC or an MADT the processor panics.                   *)
lapic_init(c) ==
  /\ \E present, madt_found \in BOOLEAN :
       IF present /\ madt_found
       THEN Goto(c, "enable", "calibrate") /\ mcb' = [mcb EXCEPT ![c] = lapic_enable(@)]
       ELSE Goto(c, "enable", "panic") /\ UNCHANGED mcb
  /\ UNCHANGED <<x2apic, bsp, gate, timer, begin, ipis>>

(* lapic_tmr_disable that leaves the entry unmasked.                       *)
lapic_tmr_disable_Unmasked(entry) == [entry EXCEPT !.vector = 0, !.mask = FALSE]

(* The LVT entry as the two functions leave it.                            *)
lapic_tmr_disable(entry) == [entry EXCEPT !.vector = 0, !.mask = TRUE]
lapic_tmr_enable(entry) == [entry EXCEPT !.vector = LAPIC_TMR_VEC, !.mask = FALSE]

(* The counter is read as the OR of its two bytes.                         *)
i8254_get_count == Counts

(* lapic_tmr_clbr up to the write of TICR, and from the moment TCCR is 0:  *)
(* the difference is a uint16_t, and zero divides.                         *)
BeginSample(c) ==
  /\ Goto(c, "calibrate", "sample")
  /\ lvt' = [lvt EXCEPT ![c] = lapic_tmr_disable(@)]
  /\ \E n \in i8254_get_count : begin' = [begin EXCEPT ![c] = n]
  /\ count' = [count EXCEPT ![c] = LAPIC_TMR_SAMPLES]
  /\ UNCHANGED <<x2apic, bsp, gate, pending, inService, mcb, ipis>>

EndSample(c) ==
  /\ count[c] = 0
  /\ lvt' = [lvt EXCEPT ![c] = lapic_tmr_disable(@)]
  /\ \E n \in i8254_get_count :
       LET ticks_total == (n - begin[c]) % 65536
       IN  IF ticks_total = 0
           THEN Goto(c, "sample", "divide_error") /\ UNCHANGED mcb
           ELSE /\ Goto(c, "sample", "gate")
                /\ mcb' = [mcb EXCEPT ![c].lapic_tmr_freq =
                             (LAPIC_TMR_SAMPLES \div ticks_total) * I8254_DIVIDEND]
  /\ begin' = [begin EXCEPT ![c] = 0]
  /\ UNCHANGED <<x2apic, bsp, gate, count, pending, inService, ipis>>

(* The rest of lapic_init.  The first processor walks the MADT, another    *)
(* one goes to cpu_idle.                                                   *)
idt_set_gate(c) ==
  /\ Goto(c, "gate", IF c = bsp THEN "madt" ELSE "arm")
  /\ gate' = TRUE
  /\ UNCHANGED <<x2apic, bsp, timer, mcb, begin, ipis>>
-----------------------------------------------------------------------------
lapic_timer_oneshot(c, n) ==
  /\ lvt' = [lvt EXCEPT ![c] = lapic_tmr_enable(@)]
  /\ count' = [count EXCEPT ![c] = n]

(* lapic_oneshot_usec with a tenth of the quantum.                         *)
lapic_oneshot_usec_Tenth(c) ==
  /\ Goto(c, "arm", "hlt")
  /\ lapic_timer_oneshot(c, mcb[c].lapic_tmr_freq \div (10 * USEC))
  /\ UNCHANGED <<x2apic, bsp, gate, pending, inService, mcb, begin, ipis>>

(* The timer.  usec is not used: the count is the frequency in MHz.        *)
lapic_oneshot_usec(c) ==
  /\ Goto(c, "arm", "hlt")
  /\ lapic_timer_oneshot(c, mcb[c].lapic_tmr_freq \div USEC)
  /\ UNCHANGED <<x2apic, bsp, gate, pending, inService, mcb, begin, ipis>>

(* The counter reaches zero and stays there.                               *)
Expire(c) ==
  /\ count[c] > 0
  /\ count' = [count EXCEPT ![c] = 0]
  /\ pending' = [pending EXCEPT ![c] = IF lvt[c].mask THEN @ ELSE lvt[c].vector]
  /\ UNCHANGED <<x2apic, bsp, gate, lvt, inService, mcb, begin, ipis, pc>>

(* Interrupts are enabled at "sti; hlt" and in a process, and one is not   *)
(* taken while the same vector is in service.                              *)
lapic_tmr_isr(c) ==
  /\ pending[c] # None /\ inService[c] = None /\ Goto(c, "hlt", "isr")
  /\ inService' = [inService EXCEPT ![c] = pending[c]]
  /\ pending' = [pending EXCEPT ![c] = None]
  /\ UNCHANGED <<x2apic, bsp, gate, lvt, count, mcb, begin, ipis>>

(* The end of mu_process_switch, before the timer is armed again.          *)
lapic_eoi(c) ==
  /\ Goto(c, "isr", "arm")
  /\ inService' = [inService EXCEPT ![c] = None]
  /\ UNCHANGED <<x2apic, bsp, gate, lvt, count, pending, mcb, begin, ipis>>

(* Its other way out, when the run queue has nothing left: the timer is    *)
(* armed and the processor halts with the interrupt still in service, so   *)
(* that the next one is never taken.                                       *)
sched_enter(c) ==
  /\ Goto(c, "isr", "parked")
  /\ lapic_timer_oneshot(c, mcb[c].lapic_tmr_freq \div USEC)
  /\ UNCHANGED <<x2apic, bsp, gate, pending, inService, mcb, begin, ipis>>
-----------------------------------------------------------------------------
(* The callback for one MADT entry; itself is skipped by an id of which an *)
(* xAPIC is only asked four bits.                                          *)
lapic_read_id(c) == IF mcb[c].has_x2apic THEN c ELSE c % 16

cpu_lapic_cb ==
  \/ \E h \in todo :
       /\ todo' = todo \ {h}
       /\ IF h = lapic_read_id(bsp)
          THEN Goto(bsp, "madt", "madt") /\ UNCHANGED target
          ELSE Goto(bsp, "madt", "init") /\ target' = h
       /\ UNCHANGED <<x2apic, bsp, gate, timer, mcb, begin, icr, wire>>
  \/ /\ todo = {} /\ Goto(bsp, "madt", "done")
     /\ UNCHANGED <<x2apic, bsp, gate, timer, mcb, begin, ipis>>

(* Command that keeps the old bits in x2APIC mode, too.                    *)
Command_KeepBits(ipi) ==
  IF mcb[bsp].has_x2apic
  THEN [ipi EXCEPT !.delmod = icr.delmod \cup @, !.vector = icr.vector \cup @]
  ELSE [icr EXCEPT !.delmod = @ \cup ipi.delmod, !.vector = @ \cup ipi.vector]

(* The command register: an x2APIC's is read and written as a whole, an    *)
(* xAPIC's by halves of 32 bits, of which the upper one has the            *)
(* destination in bits that a shift by 56 does not reach.                  *)
lapic_read(c) == IF mcb[c].has_x2apic THEN icr ELSE [icr EXCEPT !.dest = 0]

lapic_write(c, val) == IF mcb[c].has_x2apic THEN val ELSE [val EXCEPT !.dest = icr.dest]

(* What lapic_send_ipi makes of the command register: it clears what it    *)
(* read of an x2APIC's and ORs to what it read of an xAPIC's.              *)
Command(ipi) ==
  LET old == IF mcb[bsp].has_x2apic THEN NoCommand ELSE lapic_read(bsp)
  IN  lapic_write(bsp, [dest |-> ipi.dest, delmod |-> old.delmod \cup ipi.delmod,
                        vector |-> old.vector \cup ipi.vector])

(* Only an xAPIC shows that an interrupt is under way.                     *)
lapic_ipi_poll == mcb[bsp].has_x2apic \/ wire = <<>>

lapic_send_ipi(from, to, ipi) ==
  /\ Goto(bsp, from, to)
  /\ icr' = Command(ipi)
  /\ wire' = Append(wire, [sent |-> icr', asked |-> ipi])
  /\ UNCHANGED <<x2apic, bsp, gate, timer, mcb, begin, todo, target>>

SendInit ==
  lapic_send_ipi("init", "startup1", [dest |-> target, delmod |-> INIT, vector |-> NoVector])
SendStartup(from, to) ==
  /\ lapic_ipi_poll
  /\ lapic_send_ipi(from, to, [dest |-> target, delmod |-> STARTUP, vector |-> BuaVector])

(* while (!buda->is_booted), once the last command has gone out.           *)
WaitBooted ==
  /\ Goto(bsp, "booted", "madt") /\ target' = None
  /\ lapic_ipi_poll /\ pc[target] \notin {"off", "wait"}
  /\ UNCHANGED <<x2apic, bsp, gate, timer, mcb, begin, icr, wire, todo>>

(* The interrupt reaches the processor it names.  INIT makes one that runs *)
(* start over in the firmware; STARTUP is for one that waits for it.       *)
Deliver ==
  /\ wire # <<>>
  /\ LET m == Head(wire).sent
         c == m.dest
     IN  pc' = [pc EXCEPT ![c] =
           CASE m.delmod = INIT -> IF @ = "off" THEN "wait" ELSE "reset"
             [] m.delmod = STARTUP /\ @ = "wait" -> "enable"
             [] OTHER -> @]
  /\ wire' = Tail(wire)
  /\ UNCHANGED <<x2apic, bsp, gate, timer, mcb, begin, icr, todo, target>>

Step(c) ==
  \/ lapic_init(c) \/ BeginSample(c) \/ EndSample(c) \/ idt_set_gate(c)
  \/ lapic_oneshot_usec(c) \/ lapic_tmr_isr(c) \/ lapic_eoi(c) \/ sched_enter(c)

Bsp ==
  \/ acpi_init \/ cpu_lapic_cb \/ SendInit
  \/ SendStartup("startup1", "startup2") \/ SendStartup("startup2", "booted")
  \/ WaitBooted

Next == Bsp \/ Deliver \/ \E c \in Cpus : Step(c) \/ Expire(c)

(* Timers run out, interrupts arrive, and a processor that can go on does. *)
Fairness ==
  /\ WF_vars(Bsp) /\ WF_vars(Deliver)
  /\ \A c \in Cpus : WF_vars(Step(c)) /\ WF_vars(Expire(c))

Spec == Init /\ [][Next]_vars /\ Fairness
-----------------------------------------------------------------------------
(* TimerDelivered: a timer that runs out, while it is calibrated, before   *)
(* the gate is in the IDT or later, requests nothing or the timer's vector *)
(* with its gate set, and the request before has been taken and ended by   *)
(* then.  The exception is a processor that left mu_process_switch through *)
(* sched_enter, and may have been reset there: its interrupt never ends.   *)
TimerDelivered ==
  \A c \in Cpus : pending[c] # None =>
    /\ pending[c] = LAPIC_TMR_VEC /\ gate
    /\ inService[c] = None \/ pc[c] \in {"parked", "reset"}

(* IpisExact: in x2APIC mode the command that goes out is the one that was *)
(* asked for, an INIT or a STARTUP with its vector and nothing of the      *)
(* command before, and its destination is the processor being started; a   *)
(* STARTUP may also still be under way to an earlier one, which has        *)
(* started and ignores it.                                                 *)
IpisExact ==
  x2apic => \A i \in DOMAIN wire :
    LET m == wire[i].sent
    IN  /\ m = wire[i].asked
        /\ <<m.delmod, m.vector>> \in {<<INIT, NoVector>>, <<STARTUP, BuaVector>>}
        /\ m.dest = target \/ (m.delmod = STARTUP /\ pc[m.dest] \notin {"off", "wait"})

(* IpisAsAsked: lapic_ipi's dest_id, delmod and vector are those of the    *)
(* interrupt, in either mode.  Violated: what lapic_send_ipi makes of an   *)
(* xAPIC's command register has the bits of the command before and not the *)
(* destination.                                                            *)
IpisAsAsked == \A i \in DOMAIN wire : wire[i].sent = wire[i].asked

(* Ticking: a processor that halts for its next quantum, first in cpu_idle *)
(* and later in or under the process it returned to from the interrupt, is *)
(* woken by its timer, every time: the count is never zero and the         *)
(* interrupt before has been ended.  A processor that halts in sched_enter *)
(* ("parked") is not among them: it is not woken again.                    *)
Ticking == \A c \in Cpus : pc[c] = "hlt" ~> pc[c] = "isr"
=============================================================================
