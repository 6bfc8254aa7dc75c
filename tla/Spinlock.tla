------------------------------ MODULE Spinlock ------------------------------
(***************************************************************************)
(* mu_spinlock_acq / mu_spinlock_rel (sys/arch/amd64/cpu/spinlock.c) and   *)
(* the named wrapper spinlock_acquire / spinlock_release                   *)
(* (sys/kern/kern_spinlock.c), one action per instruction that another     *)
(* processor or the timer can observe.                                     *)
(*                                                                         *)
(* Threads run on processors.  The local APIC timer (lapic_tmr_isr) may    *)
(* replace the running thread of a processor by another of its threads,    *)
(* but only while that processor has interrupts enabled; a thread that     *)
(* executed cli therefore stays where it is.  A thread that is not running *)
(* was interrupted with the interrupt flag set and resumes with it set, so *)
(* one flag per processor is enough.                                       *)
(***************************************************************************)
EXTENDS Integers, FiniteSets

CONSTANTS Threads,   \* kernel threads that use the lock
          Cpus,      \* processors
          Home,      \* the processor each thread is queued on
          None       \* "no owner", for the abstract lock

ASSUME HomeAssumption   == Home \in [Threads -> Cpus]
ASSUME CpusAssumption   == \A c \in Cpus : \E t \in Threads : Home[t] = c
ASSUME NoneAssumption   == None \notin Threads

VARIABLES inttog,   \* do the callers of this lock pass SPINLOCK_INTTOG?
          lock,     \* the lock word, 0 or 1
          irq,      \* irq[c]: RFLAGS.IF of processor c
          running,  \* running[c]: the thread processor c executes
          pc,       \* where each thread is in the lock routines
          irq_en    \* irq_en[t]: mu_spinlock_acq's local of that name

vars == <<inttog, lock, irq, running, pc, irq_en>>

Locations == {"outside", "saved", "spin", "taken", "held"}

TypeOK ==
  /\ inttog \in BOOLEAN
  /\ lock \in {0, 1}
  /\ irq \in [Cpus -> BOOLEAN]
  /\ running \in [Cpus -> Threads]
  /\ pc \in [Threads -> Locations]
  /\ irq_en \in [Threads -> BOOLEAN]

(* Interrupts are off in boot code (boot.S) and on in scheduled threads.   *)
(* The callers of one lock agree on the flag: bitmap_lock and the heap's   *)
(* lock are taken without it, mount_lock and the panic lock with it.       *)
Init ==
  /\ inttog \in BOOLEAN
  /\ lock = 0
  /\ irq \in [Cpus -> BOOLEAN]
  /\ running \in {r \in [Cpus -> Threads] : \A c \in Cpus : Home[r[c]] = c}
  /\ pc = [t \in Threads |-> "outside"]
  /\ irq_en = [t \in Threads |-> FALSE]

Runs(t) == running[Home[t]] = t

Goto(t, l) == pc' = [pc EXCEPT ![t] = l]

(* spinlock_acquire: enter mu_spinlock_acq and read mu_irq_state().        *)
Enter(t) ==
  /\ Runs(t) /\ pc[t] = "outside"
  /\ irq_en' = [irq_en EXCEPT ![t] = irq[Home[t]]]
  /\ Goto(t, "saved")
  /\ UNCHANGED <<inttog, lock, irq, running>>

(* cli, when the caller allows it and interrupts were enabled.             *)
Cli(t) ==
  /\ Runs(t) /\ pc[t] = "saved"
  /\ irq' = IF inttog /\ irq_en[t] THEN [irq EXCEPT ![Home[t]] = FALSE] ELSE irq
  /\ Goto(t, "spin")
  /\ UNCHANGED <<inttog, lock, running, irq_en>>

(* Xchg with the outcome of the exchange not looked at, and one that halts *)
(* until an interrupt between two tries.                                   *)
Xchg_Untested(t) ==
  /\ Runs(t) /\ pc[t] = "spin"
  /\ lock' = 1
  /\ Goto(t, "taken")
  /\ UNCHANGED <<inttog, irq, running, irq_en>>

Xchg_Halting(t) ==
  /\ Runs(t) /\ pc[t] = "spin" /\ lock = 0 /\ irq[Home[t]]
  /\ lock' = 1
  /\ Goto(t, "taken")
  /\ UNCHANGED <<inttog, irq, running, irq_en>>

(* xchg of 1 with the lock word.  A failed exchange writes the 1 that was  *)
(* there, so only the successful one is a step.                            *)
Xchg(t) ==
  /\ Runs(t) /\ pc[t] = "spin" /\ lock = 0
  /\ lock' = 1
  /\ Goto(t, "taken")
  /\ UNCHANGED <<inttog, irq, running, irq_en>>

(* Sti that does not look at irq_en.                                       *)
Sti_Always(t) ==
  /\ Runs(t) /\ pc[t] = "taken"
  /\ irq' = IF inttog /\ ~irq[Home[t]]
              THEN [irq EXCEPT ![Home[t]] = TRUE] ELSE irq
  /\ Goto(t, "held")
  /\ UNCHANGED <<inttog, lock, running, irq_en>>

(* sti, when this call had disabled interrupts; mu_spinlock_acq returns.   *)
Sti(t) ==
  /\ Runs(t) /\ pc[t] = "taken"
  /\ irq' = IF inttog /\ irq_en[t] /\ ~irq[Home[t]]
              THEN [irq EXCEPT ![Home[t]] = TRUE] ELSE irq
  /\ Goto(t, "held")
  /\ UNCHANGED <<inttog, lock, running, irq_en>>

(* mu_spinlock_rel: xchg of 0 with the lock word; flags are not looked at. *)
Release(t) ==
  /\ Runs(t) /\ pc[t] = "held"
  /\ lock' = 0
  /\ Goto(t, "outside")
  /\ UNCHANGED <<inttog, irq, running, irq_en>>

(* The timer interrupt of processor c switches to thread t of its queue.   *)
Preempt(c, t) ==
  /\ irq[c] /\ Home[t] = c /\ running[c] # t
  /\ running' = [running EXCEPT ![c] = t]
  /\ UNCHANGED <<inttog, lock, irq, pc, irq_en>>

Step(t) == Enter(t) \/ Cli(t) \/ Xchg(t) \/ Sti(t) \/ Release(t)

Next == \/ \E t \in Threads : Step(t)
        \/ \E c \in Cpus, t \in Threads : Preempt(c, t)

Spec == Init /\ [][Next]_vars

(* The timer is re-armed on every switch and the run queue is FIFO, so     *)
(* every thread of a processor that keeps taking timer interrupts runs     *)
(* again and again, and a running thread executes its next instruction.    *)
(* Nothing makes a thread outside the lock call it.                        *)
Fairness ==
  \A t \in Threads :
    /\ SF_vars(Cli(t) \/ Xchg(t) \/ Sti(t) \/ Release(t))
    /\ SF_vars(Preempt(Home[t], t))

FairSpec == Spec /\ Fairness
-----------------------------------------------------------------------------
(* Properties.                                                             *)

Owns(t) == pc[t] \in {"taken", "held"}

(* MutualExclusion: the exchange admits one thread at a time past the spin *)
(* loop, on whatever processor and however often it is preempted there.    *)
MutualExclusion ==
  \A s, t \in Threads : Owns(s) /\ Owns(t) => s = t

(* IrqRestored: when the pair mu_spinlock_acq / mu_spinlock_rel is over,   *)
(* the caller has the interrupt state the pair found, although cli and sti *)
(* ran in between, the thread may have been preempted and others used the  *)
(* lock: a section entered with interrupts off is not left with them on,   *)
(* nor the other way round.  What the state is inside is another matter:   *)
(* see IrqMaskedWhileHeld.                                                 *)
IrqRestored ==
  [][ \A t \in Threads :
        pc[t] = "held" /\ pc'[t] = "outside" => irq'[Home[t]] = irq_en[t] ]_vars

(* NoSwitchWhileMasked: from the xchg loop of a SPINLOCK_INTTOG caller to   *)
(* its sti no timer interrupt takes the processor away from the caller.    *)
NoSwitchWhileMasked ==
  [][ \A t \in Threads :
        inttog /\ pc[t] \in {"spin", "taken"} /\ Runs(t)
          => running'[Home[t]] = t ]_vars

(* LockTaken: a free lock somebody spins on is taken, although the spinner *)
(* may be preempted between any two tries.  Which thread gets it is open:  *)
(* test-and-set serves nobody in particular.                               *)
LockTaken ==
  (lock = 0 /\ \E t \in Threads : pc[t] = "spin") ~> (lock = 1)

(* IrqMaskedWhileHeld: what spinlock.h says irqclr does - "Mask            *)
(* interrupts" - of a caller that is between acquire and release.          *)
IrqMaskedWhileHeld ==
  \A t \in Threads :
    inttog /\ Runs(t) /\ pc[t] = "held" => ~irq[Home[t]]

(* Abstract: the lock word protocol implements the abstract lock, with the *)
(* thread past its exchange as the owner.                                  *)
Abs == INSTANCE LockSpec WITH
         owner <- IF \E t \in Threads : Owns(t)
                    THEN CHOOSE t \in Threads : Owns(t) ELSE None

(* LockImplemented: every behaviour of the xchg protocol is one of the     *)
(* abstract lock.                                                          *)
LockImplemented == Abs!Spec
-----------------------------------------------------------------------------
(* LockWord: the lock word is 0 exactly when no thread is past the         *)
(* exchange.  With it MutualExclusion is inductive.                        *)
LockWord == lock = 0 <=> \A t \in Threads : ~Owns(t)

Inv == TypeOK /\ LockWord /\ MutualExclusion

(* Masked: a SPINLOCK_INTTOG caller between its cli and its sti is the     *)
(* running thread of its processor and has interrupts off; any other       *)
(* thread inside the lock routines finds interrupts as its call found      *)
(* them, those that are not running having been interrupted with them on.  *)
(* Inductive behind IrqRestored and NoSwitchWhileMasked.                   *)
Toggling(t) == inttog /\ pc[t] \in {"spin", "taken"}

MaskedIn(t) ==
  /\ Toggling(t) => Runs(t) /\ ~irq[Home[t]]
  /\ pc[t] # "outside" /\ ~Toggling(t) /\ Runs(t) => irq[Home[t]] = irq_en[t]
  /\ pc[t] # "outside" /\ ~Toggling(t) /\ ~Runs(t) => irq_en[t]

Masked == \A t \in Threads : MaskedIn(t)

IrqInv == TypeOK /\ Masked
=============================================================================
