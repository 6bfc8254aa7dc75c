-------------------------- MODULE Spinlock_proofs ---------------------------
(***************************************************************************)
(* Proofs about the spin lock for any number of threads and processors,    *)
(* any placement of the threads and both settings of SPINLOCK_INTTOG.      *)
(***************************************************************************)
EXTENDS Spinlock, Report, TLAPS

(* The initial state: lock word 0, no thread inside.                       *)
LEMMA InitInv == Init => Inv
BY HomeAssumption
DEF Init, Inv, TypeOK, LockWord, MutualExclusion, Owns, Locations

(* Every instruction keeps the types, the meaning of the lock word and the *)
(* exclusion: the exchange succeeds only on 0, when nobody owns.           *)
LEMMA NextInv == Inv /\ [Next]_vars => Inv'
<1> SUFFICES ASSUME Inv, [Next]_vars PROVE Inv'
  OBVIOUS
<1> USE HomeAssumption DEF Inv, TypeOK, Locations
<1>1. ASSUME NEW t \in Threads, Enter(t) PROVE Inv'
  <2>1. TypeOK'
    BY <1>1 DEF Enter, Goto
  <2>2. \A s \in Threads : Owns(s)' <=> Owns(s)
    BY <1>1 DEF Enter, Goto, Owns
  <2> QED
    BY <1>1, <2>1, <2>2 DEF Enter, LockWord, MutualExclusion
<1>2. ASSUME NEW t \in Threads, Cli(t) PROVE Inv'
  <2>1. TypeOK'
    BY <1>2 DEF Cli, Goto
  <2>2. \A s \in Threads : Owns(s)' <=> Owns(s)
    BY <1>2 DEF Cli, Goto, Owns
  <2> QED
    BY <1>2, <2>1, <2>2 DEF Cli, LockWord, MutualExclusion
<1>3. ASSUME NEW t \in Threads, Xchg(t) PROVE Inv'
  <2>1. TypeOK'
    BY <1>3 DEF Xchg, Goto
  <2>2. \A s \in Threads : Owns(s)' <=> s = t
    BY <1>3 DEF Xchg, Goto, Owns, LockWord
  <2> QED
    BY <1>3, <2>1, <2>2 DEF Xchg, LockWord, MutualExclusion
<1>4. ASSUME NEW t \in Threads, Sti(t) PROVE Inv'
  <2>1. TypeOK'
    BY <1>4 DEF Sti, Goto
  <2>2. \A s \in Threads : Owns(s)' <=> Owns(s)
    BY <1>4 DEF Sti, Goto, Owns
  <2> QED
    BY <1>4, <2>1, <2>2 DEF Sti, LockWord, MutualExclusion
<1>5. ASSUME NEW t \in Threads, Release(t) PROVE Inv'
  <2>1. TypeOK'
    BY <1>5 DEF Release, Goto
  <2>2. \A s \in Threads : ~Owns(s)'
    BY <1>5 DEF Release, Goto, Owns, MutualExclusion
  <2> QED
    BY <1>5, <2>1, <2>2 DEF Release, LockWord, MutualExclusion
<1>6. ASSUME NEW c \in Cpus, NEW t \in Threads, Preempt(c, t) PROVE Inv'
  BY <1>6 DEF Preempt, LockWord, MutualExclusion, Owns
<1>7. CASE UNCHANGED vars
  BY <1>7 DEF vars, LockWord, MutualExclusion, Owns
<1> QED
  BY <1>1, <1>2, <1>3, <1>4, <1>5, <1>6, <1>7 DEF Next, Step

(* Typing: the lock word is always 0 or 1 - the counting a broken exchange *)
(* would do never happens - and the other variables keep their types.      *)
THEOREM TypeCorrect == Spec => []TypeOK
<1>1. Inv => TypeOK
  BY DEF Inv
<1> QED
  BY InitInv, NextInv, <1>1, PTL DEF Spec

(* mu_spinlock_acq lets one thread at a time past its exchange, for any    *)
(* number of threads and processors and any preemption.                    *)
THEOREM Exclusion == Spec => []MutualExclusion
<1>1. Inv => MutualExclusion
  BY DEF Inv
<1> QED
  BY InitInv, NextInv, <1>1, PTL DEF Spec
-----------------------------------------------------------------------------
(* Interrupts.                                                             *)

LEMMA InitIrqInv == Init => IrqInv
BY InitInv DEF Init, Inv, IrqInv, Masked, MaskedIn, Toggling

(* A thread that is not running cannot have interrupts toggled under it,   *)
(* and a thread between cli and sti cannot stop running.                   *)
LEMMA NextIrqInv == IrqInv /\ Inv /\ [Next]_vars => IrqInv'
<1> SUFFICES ASSUME IrqInv, Inv, [Next]_vars, NEW s \in Threads
             PROVE  MaskedIn(s)'
  BY NextInv DEF IrqInv, Inv, Masked
<1>0. MaskedIn(s)
  BY DEF IrqInv, Masked
<1> USE HomeAssumption, <1>0
    DEF IrqInv, TypeOK, Locations, MaskedIn, Toggling, Runs, Goto
<1>1. ASSUME NEW t \in Threads, Enter(t) PROVE MaskedIn(s)'
  BY <1>1 DEF Enter
<1>2. ASSUME NEW t \in Threads, Cli(t) PROVE MaskedIn(s)'
  <2>1. CASE s = t
    BY <1>2, <2>1 DEF Cli
  <2>2. CASE s # t
    BY <1>2, <2>2 DEF Cli
  <2> QED
    BY <2>1, <2>2
<1>3. ASSUME NEW t \in Threads, Xchg(t) PROVE MaskedIn(s)'
  BY <1>3 DEF Xchg
<1>4. ASSUME NEW t \in Threads, Sti(t) PROVE MaskedIn(s)'
  <2>1. CASE s = t
    BY <1>4, <2>1 DEF Sti
  <2>2. CASE s # t
    BY <1>4, <2>2 DEF Sti
  <2> QED
    BY <2>1, <2>2
<1>5. ASSUME NEW t \in Threads, Release(t) PROVE MaskedIn(s)'
  BY <1>5 DEF Release
<1>6. ASSUME NEW c \in Cpus, NEW t \in Threads, Preempt(c, t)
      PROVE  MaskedIn(s)'
  BY <1>6 DEF Preempt
<1>7. CASE UNCHANGED vars
  BY <1>7 DEF vars
<1> QED
  BY <1>1, <1>2, <1>3, <1>4, <1>5, <1>6, <1>7 DEF Next, Step

(* Whoever leaves a section has the interrupt flag it entered the section  *)
(* with, for any interleaving of callers and timer interrupts.             *)
THEOREM IrqKept == Spec => IrqRestored
<1>1. IrqInv /\ [Next]_vars
        => [\A t \in Threads :
              pc[t] = "held" /\ pc'[t] = "outside" => irq'[Home[t]] = irq_en[t]]_vars
  <2> SUFFICES ASSUME IrqInv, Next, NEW t \in Threads,
                      pc[t] = "held", pc'[t] = "outside"
               PROVE  irq'[Home[t]] = irq_en[t]
    OBVIOUS
  <2>1. MaskedIn(t)
    BY DEF IrqInv, Masked
  <2>2. CASE \E s \in Threads : Enter(s) \/ Cli(s) \/ Xchg(s) \/ Sti(s)
    BY <2>2 DEF Enter, Cli, Xchg, Sti, Goto, IrqInv, TypeOK
  <2>3. ASSUME NEW s \in Threads, Release(s) PROVE irq'[Home[t]] = irq_en[t]
    <3>1. s = t /\ Runs(t) /\ irq' = irq
      BY <2>3 DEF Release, Goto, IrqInv, TypeOK
    <3> QED
      BY <2>1, <3>1 DEF MaskedIn, Toggling
  <2>4. CASE \E c \in Cpus, s \in Threads : Preempt(c, s)
    BY <2>4 DEF Preempt
  <2> QED
    BY <2>2, <2>3, <2>4 DEF Next, Step
<1> QED
  BY InitInv, NextInv, InitIrqInv, NextIrqInv, <1>1, PTL DEF Spec, IrqRestored

(* A SPINLOCK_INTTOG caller is never switched away from between its cli    *)
(* and its sti.                                                            *)
THEOREM Unpreempted == Spec => NoSwitchWhileMasked
<1>1. IrqInv /\ [Next]_vars
        => [\A t \in Threads :
              inttog /\ pc[t] \in {"spin", "taken"} /\ Runs(t)
                => running'[Home[t]] = t]_vars
  <2> SUFFICES ASSUME IrqInv, Next, NEW t \in Threads,
                      Toggling(t), Runs(t)
               PROVE  running'[Home[t]] = t
    BY DEF Toggling
  <2>1. ~irq[Home[t]]
    BY DEF IrqInv, Masked, MaskedIn
  <2>2. CASE \E s \in Threads : Step(s)
    BY <2>2 DEF Step, Enter, Cli, Xchg, Sti, Release, Runs
  <2>3. CASE \E c \in Cpus, s \in Threads : Preempt(c, s)
    BY <2>1, <2>3, HomeAssumption DEF Preempt, Runs, IrqInv, TypeOK
  <2> QED
    BY <2>2, <2>3 DEF Next
<1> QED
  BY InitInv, NextInv, InitIrqInv, NextIrqInv, <1>1, PTL
  DEF Spec, NoSwitchWhileMasked
-----------------------------------------------------------------------------
(* The abstract lock.                                                      *)

(* The thread the refinement mapping names.                                *)
Owner == IF \E t \in Threads : Owns(t)
           THEN CHOOSE t \in Threads : Owns(t) ELSE None

(* Exclusion makes the CHOOSE of the mapping pick the one owner.           *)
LEMMA OwnerIs == ASSUME MutualExclusion, NEW t \in Threads, Owns(t)
                 PROVE  Owner = t
BY DEF Owner, MutualExclusion

LEMMA OwnerNone == (\A t \in Threads : ~Owns(t)) => Owner = None
BY DEF Owner

(* The exchange is the abstract acquisition, the release the abstract      *)
(* release, and everything else - masking, unmasking, preemption, spinning *)
(* - is invisible to the callers.                                          *)
LEMMA StepAbs == Inv /\ Inv' /\ [Next]_vars
                   => \/ Owner' = Owner
                      \/ \E t \in Threads : Owner = None /\ Owner' = t
                      \/ \E t \in Threads : Owner = t /\ Owner' = None
<1> SUFFICES ASSUME Inv, Inv', [Next]_vars,
                    ~ \E t \in Threads : Owner = None /\ Owner' = t,
                    ~ \E t \in Threads : Owner = t /\ Owner' = None
             PROVE  Owner' = Owner
  OBVIOUS
<1> USE DEF Inv
<1>1. CASE \A t \in Threads : Owns(t)' <=> Owns(t)
  BY <1>1 DEF Owner
<1>2. ASSUME NEW t \in Threads, Xchg(t) PROVE FALSE
  <2>1. Owner = None
    BY <1>2, OwnerNone DEF Xchg, LockWord
  <2>2. Owns(t)'
    BY <1>2 DEF Xchg, Goto, Owns, TypeOK
  <2>3. Owner' = t
    BY <2>2 DEF Owner, MutualExclusion
  <2> QED
    BY <2>1, <2>3
<1>3. ASSUME NEW t \in Threads, Release(t) PROVE FALSE
  <2>1. Owner = t
    BY <1>3, OwnerIs DEF Release, Owns
  <2>2. \A s \in Threads : ~Owns(s)'
    BY <1>3 DEF Release, LockWord
  <2>3. Owner' = None
    BY <2>2 DEF Owner
  <2> QED
    BY <2>1, <2>3
<1>4. CASE \E t \in Threads : Enter(t) \/ Cli(t) \/ Sti(t)
  BY <1>1, <1>4 DEF Enter, Cli, Sti, Goto, Owns, TypeOK
<1>5. CASE \E c \in Cpus, t \in Threads : Preempt(c, t)
  BY <1>1, <1>5 DEF Preempt, Owns
<1>6. CASE UNCHANGED vars
  BY <1>1, <1>6 DEF vars, Owns
<1> QED
  BY <1>2, <1>3, <1>4, <1>5, <1>6 DEF Next, Step

(* The xchg protocol implements the abstract lock, which is all PhysMem    *)
(* relies on.                                                              *)
THEOREM ImplementsLock == Spec => LockImplemented
<1>1. Init => Abs!Init
  BY OwnerNone DEF Init, Abs!Init, Owns, Owner
<1>2. Inv /\ Inv' /\ [Next]_vars => [Abs!Next]_Owner
  BY StepAbs DEF Abs!Next, Abs!Acquire, Abs!Release, Owner
<1> QED
  BY InitInv, NextInv, <1>1, <1>2, PTL
  DEF Spec, LockImplemented, Abs!Spec, Owner
-----------------------------------------------------------------------------
(***************************************************************************)
(* The other lock of the kernel, panic's __sync, and what it does and does *)
(* not protect: panic's report and the console's cursor (Report), for any  *)
(* number of contexts and processors, any messages, and any font and frame *)
(* with room for two glyphs either way.                                    *)
(***************************************************************************)
ReportLocations ==
  {"idle", "uart", "runaway", "char", "blit", "store_tx", "test_tx",
   "newline", "store_ty", "zero_tx", "test_ty",
   "trap", "spin", "dump", "hcf", "halt"}

ReportTypeOK ==
  /\ active \in {0, 1} /\ tx \in Nat /\ ty \in Nat
  /\ writers \subseteq Contexts /\ home \in [Contexts -> Processors]
  /\ off \subseteq Contexts /\ masked \subseteq Contexts /\ toggled \subseteq Contexts
  /\ trapped \subseteq Contexts
  /\ sync \in Contexts \cup {Nobody} /\ buf \in Contexts \cup {Nobody}
  /\ report \in [Contexts -> {"none", "message", "dump"}]
  /\ at \in [Contexts -> ReportLocations]
  /\ left \in [Contexts -> Nat] /\ reg \in [Contexts -> Nat]

(* A context has a report to write only if it is the one that took the     *)
(* lock, and nobody gives the lock back; in "dump" its message is out.     *)
Holder ==
  \A c \in Contexts : /\ report[c] # "none" => sync = c /\ buf = c
                      /\ at[c] = "dump" => report[c] = "message"

(* Between adding FONT_WIDTH to tx and bounding it, and the same for ty.   *)
Widening == {"test_tx", "newline", "store_ty", "zero_tx"}
Lowering == {"zero_tx", "test_ty"}

(* Each coordinate fits unless some processor still has to bound it.  The  *)
(* two are apart, because a processor on its way through cons_newline is   *)
(* done with one before it is done with the other.                         *)
Bounded ==
  trapped = {} =>
    /\ (\A c \in Contexts : at[c] \notin Widening) => tx + FONT_WIDTH <= Width
    /\ (\A c \in Contexts : at[c] \notin Lowering) => ty + FONT_HEIGHT <= Height

ReportInv == ReportTypeOK /\ Holder /\ Bounded

LEMMA InitReportInv == ReportInit => ReportInv
BY ReportAssumption
DEF ReportInit, ReportInv, ReportTypeOK, Holder, Bounded, Widening, Lowering, ReportLocations

(* Advance adds and never leaves the naturals.                             *)
LEMMA AdvanceType ==
  ASSUME NEW n \in Nat, NEW d \in Nat PROVE Advance(n, d) \in Nat
BY ReportAssumption DEF Advance

(* No step gives an ill-typed state.                                       *)
LEMMA ReportNextTypes == ReportInv /\ [ReportNext]_reportVars => ReportTypeOK'
<1> SUFFICES ASSUME ReportInv, [ReportNext]_reportVars PROVE ReportTypeOK'
  OBVIOUS
<1> USE ReportAssumption DEF ReportInv, ReportTypeOK, ReportLocations
<1>1. CASE console_reset
  BY <1>1 DEF console_reset, panicVars, timerVars
<1>2. ASSUME NEW c \in Contexts, trace(c) \/ panic(c) \/ Trap(c) PROVE ReportTypeOK'
  BY <1>2 DEF trace, panic, Trap, SpinMasked, MoveTo, cursor, panicVars, timerVars
<1>3. ASSUME NEW c \in Contexts, uart_write(c) \/ console_putch(c) \/ cons_blit_ch(c)
      PROVE ReportTypeOK'
  <2>1. CASE uart_write(c)
    BY <2>1 DEF uart_write, MoveTo, cursor, panicVars, timerVars
  <2>2. CASE console_putch(c)
    BY <2>2 DEF console_putch, MoveTo, cursor, panicVars, timerVars
  <2>3. CASE cons_blit_ch(c)
    BY <2>3 DEF cons_blit_ch, MoveTo, cursor, panicVars, timerVars
  <2> QED
    BY <1>3, <2>1, <2>2, <2>3
<1>4. ASSUME NEW c \in Contexts, StoreTx(c) \/ StoreTy(c) PROVE ReportTypeOK'
  <2>1. /\ FONT_WIDTH \in Nat /\ FONT_HEIGHT \in Nat /\ reg[c] \in Nat
    OBVIOUS
  <2>2. Advance(reg[c], FONT_WIDTH) \in Nat /\ Advance(reg[c], FONT_HEIGHT) \in Nat
    BY <2>1, AdvanceType
  <2> QED
    BY <1>4, <2>2 DEF StoreTx, StoreTy, MoveTo, cursor, panicVars, timerVars
<1>5. ASSUME NEW c \in Contexts, TestTx(c) \/ cons_newline(c) \/ ZeroTx(c) \/ TestTy(c)
      PROVE ReportTypeOK'
  BY <1>5 DEF TestTx, cons_newline, ZeroTx, TestTy, MoveTo, cursor, panicVars, timerVars
<1>6. ASSUME NEW c \in Contexts,
             trap_dispatch(c) \/ TakeSync(c) \/ mu_panic_dump(c) \/ mu_panic_hcf(c)
      PROVE ReportTypeOK'
  BY <1>6 DEF trap_dispatch, SpinMasked, TakeSync, mu_panic_dump, mu_panic_hcf, MoveTo, cursor, panicVars, timerVars
<1>7. CASE UNCHANGED reportVars
  BY <1>7 DEF reportVars, cursor, panicVars, timerVars
<1>8. ASSUME NEW c \in Contexts, NEW d \in Contexts, Switch(c, d) PROVE ReportTypeOK'
  BY <1>8 DEF Switch, cursor, panicVars
<1> QED
  BY <1>1, <1>2, <1>3, <1>4, <1>5, <1>6, <1>7, <1>8 DEF ReportNext, Write

(* The lock is taken once: TakeSync finds every report[c] still "none".    *)
LEMMA ReportNextHolder == ReportInv /\ [ReportNext]_reportVars => Holder'
<1> SUFFICES ASSUME ReportInv, [ReportNext]_reportVars PROVE Holder'
  OBVIOUS
<1> USE ReportAssumption DEF ReportInv, ReportTypeOK, ReportLocations, Holder
<1>1. CASE console_reset
  BY <1>1 DEF console_reset, panicVars, timerVars
<1>2. ASSUME NEW c \in Contexts, trace(c) \/ panic(c) \/ Trap(c) PROVE Holder'
  BY <1>2 DEF trace, panic, Trap, SpinMasked, MoveTo, cursor, panicVars, timerVars
<1>3. ASSUME NEW c \in Contexts, uart_write(c) \/ console_putch(c) \/ cons_blit_ch(c)
      PROVE Holder'
  <2>1. CASE uart_write(c)
    BY <2>1 DEF uart_write, MoveTo, cursor, panicVars, timerVars
  <2>2. CASE console_putch(c)
    BY <2>2 DEF console_putch, MoveTo, cursor, panicVars, timerVars
  <2>3. CASE cons_blit_ch(c)
    BY <2>3 DEF cons_blit_ch, MoveTo, cursor, panicVars, timerVars
  <2> QED
    BY <1>3, <2>1, <2>2, <2>3
<1>4. ASSUME NEW c \in Contexts, StoreTx(c) \/ StoreTy(c) PROVE Holder'
  BY <1>4 DEF StoreTx, StoreTy, MoveTo, cursor, panicVars, timerVars
<1>5. ASSUME NEW c \in Contexts, TestTx(c) \/ cons_newline(c) \/ ZeroTx(c) \/ TestTy(c)
      PROVE Holder'
  BY <1>5 DEF TestTx, cons_newline, ZeroTx, TestTy, MoveTo, cursor, panicVars, timerVars
<1>6. ASSUME NEW c \in Contexts,
             trap_dispatch(c) \/ TakeSync(c) \/ mu_panic_dump(c) \/ mu_panic_hcf(c)
      PROVE Holder'
  BY <1>6 DEF trap_dispatch, SpinMasked, TakeSync, mu_panic_dump, mu_panic_hcf, MoveTo, cursor, panicVars, timerVars
<1>7. CASE UNCHANGED reportVars
  BY <1>7 DEF reportVars, cursor, panicVars, timerVars
<1>8. ASSUME NEW c \in Contexts, NEW d \in Contexts, Switch(c, d) PROVE Holder'
  BY <1>8 DEF Switch, cursor, panicVars
<1> QED
  BY <1>1, <1>2, <1>3, <1>4, <1>5, <1>6, <1>7, <1>8 DEF ReportNext, Write

(* A coordinate grows only in a step into its group of locations, and the  *)
(* only steps out of the group leave it in bounds.                         *)
LEMMA ReportNextBounded == ReportInv /\ [ReportNext]_reportVars => Bounded'
<1> SUFFICES ASSUME ReportInv, [ReportNext]_reportVars, trapped' = {} PROVE Bounded'
  BY DEF Bounded
<1> USE ReportAssumption DEF ReportInv, ReportTypeOK, ReportLocations, Bounded, Widening, Lowering
<1>1. CASE console_reset
  BY <1>1 DEF console_reset, panicVars, timerVars
<1>2. ASSUME NEW c \in Contexts, trace(c) \/ panic(c) PROVE Bounded'
  BY <1>2 DEF trace, panic, SpinMasked, MoveTo, cursor, panicVars, timerVars
<1>3. ASSUME NEW c \in Contexts, Trap(c) PROVE FALSE
  BY <1>3 DEF Trap
<1>4. ASSUME NEW c \in Contexts, uart_write(c) \/ console_putch(c) \/ cons_blit_ch(c)
      PROVE Bounded'
  <2>1. CASE uart_write(c)
    BY <2>1 DEF uart_write, MoveTo, cursor, panicVars, timerVars
  <2>2. CASE console_putch(c)
    BY <2>2 DEF console_putch, MoveTo, cursor, panicVars, timerVars
  <2>3. CASE cons_blit_ch(c)
    BY <2>3 DEF cons_blit_ch, MoveTo, cursor, panicVars, timerVars
  <2> QED
    BY <1>4, <2>1, <2>2, <2>3
<1>5. ASSUME NEW c \in Contexts, StoreTx(c) PROVE Bounded'
  <2>1. at'[c] = "test_tx" /\ ty' = ty /\ trapped' = trapped
    BY <1>5 DEF StoreTx, MoveTo, panicVars, timerVars
  <2>2. \A d \in Contexts : at[d] \in Lowering => at'[d] \in Lowering
    BY <1>5 DEF StoreTx, MoveTo
  <2> QED
    BY <2>1, <2>2
<1>6. ASSUME NEW c \in Contexts, StoreTy(c) PROVE Bounded'
  <2>1. at'[c] = "zero_tx"
    BY <1>6 DEF StoreTy, MoveTo
  <2> QED
    BY <2>1
<1>7. ASSUME NEW c \in Contexts, TestTx(c) PROVE Bounded'
  BY <1>7 DEF TestTx, MoveTo, cursor, panicVars, timerVars
<1>8. ASSUME NEW c \in Contexts, cons_newline(c) \/ ZeroTx(c) PROVE Bounded'
  BY <1>8 DEF cons_newline, ZeroTx, MoveTo, cursor, panicVars, timerVars
<1>9. ASSUME NEW c \in Contexts, TestTy(c) PROVE Bounded'
  BY <1>9 DEF TestTy, MoveTo, cursor, panicVars, timerVars
<1>10. ASSUME NEW c \in Contexts,
              trap_dispatch(c) \/ TakeSync(c) \/ mu_panic_dump(c) \/ mu_panic_hcf(c)
       PROVE Bounded'
  BY <1>10 DEF trap_dispatch, SpinMasked, TakeSync, mu_panic_dump, mu_panic_hcf, MoveTo, cursor, panicVars, timerVars
<1>11. CASE UNCHANGED reportVars
  BY <1>11 DEF reportVars, cursor, panicVars, timerVars
<1>12. ASSUME NEW c \in Contexts, NEW d \in Contexts, Switch(c, d) PROVE Bounded'
  BY <1>12 DEF Switch, cursor, panicVars
<1> QED
  BY <1>1, <1>2, <1>3, <1>4, <1>5, <1>6, <1>7, <1>8, <1>9, <1>10, <1>11, <1>12 DEF ReportNext, Write

LEMMA ReportInvariance == ReportSpec => []ReportInv
<1>1. ReportInv /\ [ReportNext]_reportVars => ReportInv'
  BY ReportNextTypes, ReportNextHolder, ReportNextBounded DEF ReportInv
<1> QED
  BY InitReportInv, <1>1, PTL DEF ReportSpec

(* panic's static buffer is written by one call in the kernel's life, so   *)
(* the text a report traces is its own, however many processors panic or   *)
(* trap, a second time included.                                           *)
THEOREM BufferOwned == ReportSpec => []ReportOwnsBuffer
<1>1. ReportInv => ReportOwnsBuffer
  BY DEF ReportInv, Holder, ReportOwnsBuffer
<1> QED
  BY ReportInvariance, <1>1, PTL

(* console_putch and cons_newline: whatever the unlocked writers do to     *)
(* each other, once none of them is half way the next glyph fits.          *)
THEOREM CursorFits == ReportSpec => []CursorHeals
<1>1. ReportInv => CursorHeals
  BY DEF ReportInv, Bounded, Widening, Lowering, CursorHeals
<1> QED
  BY ReportInvariance, <1>1, PTL
=============================================================================
