------------------------------- MODULE Report -------------------------------
(***************************************************************************)
(* How the kernel talks: trace (sys/os/os_trace.c) writes to the serial    *)
(* port (sys/arch/amd64/io/uart.S) and to the console (sys/dev/cons/       *)
(* cons.c), and panic (sys/kern/kern_panic.c) reports through trace and    *)
(* halts.  Whatever runs traces, on every processor, and nothing but panic *)
(* takes a lock, so the console's cursor is read, added to and tested by   *)
(* all of them: one action per access to it.  Panic's lock is taken with   *)
(* SPINLOCK_INTTOG, which has interrupts on again when the lock is taken,  *)
(* so the timer takes the processor from a report like from anything else. *)
(* Glyphs and text are left out; a message is its length, and a character  *)
(* is a newline or not.                                                    *)
(***************************************************************************)
EXTENDS Integers, FiniteSets

CONSTANTS Contexts,     \* what runs: boot code and kernel threads
          Processors, Nobody,
          Lengths,      \* lengths of messages; 0 is trace("%c", 0), which
                        \* acpi_oemid_print may call
          ReportLength, \* length of panic's message, and of the register dump
          FONT_WIDTH, FONT_HEIGHT, Width, Height,   \* in pixels
          Outside       \* bound: coordinates beyond this one are not told apart

ASSUME ReportAssumption ==
  /\ Nobody \notin Contexts
  /\ Lengths \subseteq Nat /\ ReportLength \in Nat \ {0}
  /\ {FONT_WIDTH, FONT_HEIGHT} \subseteq Nat \ {0}
  /\ Width \in Nat /\ Width >= 2 * FONT_WIDTH
  /\ Height \in Nat /\ Height >= 2 * FONT_HEIGHT
  /\ Outside \in Nat /\ Outside >= Width /\ Outside >= Height

VARIABLES active, tx, ty,   \* g_bootcons: set up, cursor
          writers,          \* the contexts there are once kmain has begun
          home,             \* the processor each context runs on
          off,              \* contexts the timer took their processor from
          masked,           \* contexts that run with interrupts masked
          toggled,          \* callers of panic that found interrupts on
          sync,             \* panic's lock: who took __sync
          buf,              \* whose message panic's static buffer holds
          report,           \* per context past the lock in panic: what it
                            \* writes, "message" or "dump"; else "none"
          trapped,          \* contexts a trap took out of what they did
          at, left, reg     \* per context: location, characters left of the
                            \* message, coordinate in a register

cursor == <<active, tx, ty>>
panicVars == <<sync, buf, report, trapped>>
timerVars == <<off, masked, toggled>>
reportVars == <<cursor, writers, home, timerVars, panicVars, at, left, reg>>

ReportInit ==
  /\ active = 0 /\ tx = 0 /\ ty = 0
  /\ writers = {} /\ home \in [Contexts -> Processors]
  /\ off = {} /\ masked = {} /\ toggled = {}
  /\ sync = Nobody /\ buf = Nobody /\ trapped = {}
  /\ report = [c \in Contexts |-> "none"]
  /\ at = [c \in Contexts |-> "idle"]
  /\ left = [c \in Contexts |-> 0]
  /\ reg = [c \in Contexts |-> 0]

(* Two contexts that overtake each other between reading the cursor and  *)
(* bounding it can drive it as far as they like: see Outside.              *)
Advance(coordinate, by) == IF coordinate + by > Outside THEN Outside ELSE coordinate + by

OnCpu(c) == c \in writers \ off

MoveTo(c, from, to) == OnCpu(c) /\ at[c] = from /\ at' = [at EXCEPT ![c] = to]

(* kmain, before it does anything else; it does not look at the result, so *)
(* without a frame buffer the console stays inactive.  From here on any    *)
(* context may run, one to a processor, in boot code with interrupts off.  *)
console_reset ==
  /\ writers = {} /\ writers' \in SUBSET Contexts \ {{}}
  /\ active' \in {0, 1} /\ UNCHANGED <<tx, ty>>
  /\ off' \in SUBSET writers'
  /\ \A c \in writers' : \E d \in writers' \ off' : home[d] = home[c]
  /\ \A c, d \in writers' \ off' : home[d] = home[c] => c = d
  /\ masked' \in SUBSET (writers' \ off')
  /\ UNCHANGED <<home, toggled, panicVars, at, left, reg>>

(* lapic_tmr_isr: the next context of the processor's queue goes on.       *)
Switch(c, d) ==
  /\ OnCpu(c) /\ c \notin masked /\ d \in off /\ home[d] = home[c]
  /\ off' = (off \ {d}) \cup {c}
  /\ UNCHANGED <<cursor, writers, home, masked, toggled, panicVars, at, left, reg>>

(* trace: to the serial port and, if there is one, to the console.         *)
trace(c) ==
  /\ MoveTo(c, "idle", "uart")
  /\ \E n \in Lengths : left' = [left EXCEPT ![c] = n]
  /\ UNCHANGED <<cursor, writers, home, timerVars, panicVars, reg>>

(* uart_write that decrements before it sends.                             *)
uart_write_Short(c) ==
  /\ MoveTo(c, "uart", IF left[c] <= 1 THEN "runaway" ELSE "char")
  /\ left' = [left EXCEPT ![c] = IF active = 0 THEN 0 ELSE @]
  /\ UNCHANGED <<cursor, writers, home, timerVars, panicVars, reg>>

(* lodsb, out, loop: rcx is tested after it is decremented, so no          *)
(* characters are 2^64.  trace_write leaves an inactive console alone.     *)
uart_write(c) ==
  /\ MoveTo(c, "uart", IF left[c] = 0 THEN "runaway" ELSE "char")
  /\ left' = [left EXCEPT ![c] = IF active = 0 THEN 0 ELSE @]
  /\ UNCHANGED <<cursor, writers, home, timerVars, panicVars, reg>>
-----------------------------------------------------------------------------
(* console_putch of the next character; after the last one trace returns,  *)
(* in panic to the register dump, and from there to mu_panic_hcf.          *)
console_putch(c) ==
  /\ IF left[c] = 0
     THEN /\ MoveTo(c, "char", CASE report[c] = "none" -> "idle"
                                 [] report[c] = "message" -> "dump"
                                 [] report[c] = "dump" -> "hcf")
          /\ UNCHANGED left
     ELSE /\ MoveTo(c, "char", "newline") \/ MoveTo(c, "char", "blit")
          /\ left' = [left EXCEPT ![c] = @ - 1]
  /\ UNCHANGED <<cursor, writers, home, timerVars, panicVars, reg>>

(* cons_blit_ch at the cursor, then cons->tx += FONT_WIDTH and the test.   *)
cons_blit_ch(c) ==
  /\ MoveTo(c, "blit", "store_tx")
  /\ reg' = [reg EXCEPT ![c] = tx]
  /\ UNCHANGED <<cursor, writers, home, timerVars, panicVars, left>>

StoreTx(c) ==
  /\ MoveTo(c, "store_tx", "test_tx")
  /\ tx' = Advance(reg[c], FONT_WIDTH)
  /\ reg' = [reg EXCEPT ![c] = 0]
  /\ UNCHANGED <<active, ty, writers, home, timerVars, panicVars, left>>

(* TestTx without room for the glyph.                                      *)
TestTx_Width(c) ==
  /\ MoveTo(c, "test_tx", IF tx >= Width THEN "newline" ELSE "char")
  /\ UNCHANGED <<cursor, writers, home, timerVars, panicVars, left, reg>>

TestTx(c) ==
  /\ MoveTo(c, "test_tx", IF tx >= Width - FONT_WIDTH THEN "newline" ELSE "char")
  /\ UNCHANGED <<cursor, writers, home, timerVars, panicVars, left, reg>>

(* cons_newline.                                                           *)
cons_newline(c) ==
  /\ MoveTo(c, "newline", "store_ty")
  /\ reg' = [reg EXCEPT ![c] = ty]
  /\ UNCHANGED <<cursor, writers, home, timerVars, panicVars, left>>

StoreTy(c) ==
  /\ MoveTo(c, "store_ty", "zero_tx")
  /\ ty' = Advance(reg[c], FONT_HEIGHT)
  /\ reg' = [reg EXCEPT ![c] = 0]
  /\ UNCHANGED <<active, tx, writers, home, timerVars, panicVars, left>>

ZeroTx(c) ==
  /\ MoveTo(c, "zero_tx", "test_ty")
  /\ tx' = 0
  /\ UNCHANGED <<active, ty, writers, home, timerVars, panicVars, left, reg>>

(* At the bottom the cursor goes home and the screen is cleared.           *)
TestTy(c) ==
  /\ MoveTo(c, "test_ty", "char")
  /\ IF ty >= Height - FONT_HEIGHT THEN tx' = 0 /\ ty' = 0 ELSE UNCHANGED <<tx, ty>>
  /\ UNCHANGED <<active, writers, home, timerVars, panicVars, left, reg>>
-----------------------------------------------------------------------------
(* The loop of panic's lock, entered by cli; irq_en remembers whether      *)
(* interrupts were on.                                                     *)
SpinMasked(c) ==
  /\ toggled' = IF c \in masked THEN toggled \ {c} ELSE toggled \cup {c}
  /\ masked' = masked \cup {c}
  /\ UNCHANGED off

(* panic is called, where it spins with interrupts masked ...              *)
panic(c) ==
  /\ MoveTo(c, "idle", "spin") /\ SpinMasked(c)
  /\ UNCHANGED <<cursor, writers, home, panicVars, left, reg>>

(* ... or an instruction traps: whatever the context was doing, a report   *)
(* included, is not continued.  The loops of panic's lock and of           *)
(* mu_panic_hcf have no instruction that could.  A trap gate leaves the    *)
(* interrupt flag alone.                                                   *)
Trap(c) ==
  /\ OnCpu(c) /\ at[c] \notin {"trap", "spin", "hcf", "halt"}
  /\ at' = [at EXCEPT ![c] = "trap"]
  /\ trapped' = trapped \cup {c}
  /\ report' = [report EXCEPT ![c] = "none"]
  /\ left' = [left EXCEPT ![c] = 0]
  /\ reg' = [reg EXCEPT ![c] = 0]
  /\ UNCHANGED <<cursor, writers, home, timerVars, sync, buf>>

(* Every vector that has a stub has a message, with which panic is called. *)
trap_dispatch(c) ==
  /\ MoveTo(c, "trap", "spin") /\ SpinMasked(c)
  /\ UNCHANGED <<cursor, writers, home, panicVars, left, reg>>

(* TakeSync that does not wait for the lock.                               *)
TakeSync_Blindly(c) ==
  /\ MoveTo(c, "spin", "uart")
  /\ sync' = c /\ buf' = c /\ report' = [report EXCEPT ![c] = "message"]
  /\ left' = [left EXCEPT ![c] = ReportLength]
  /\ masked' = masked \ (toggled \cap {c}) /\ toggled' = toggled \ {c}
  /\ UNCHANGED <<cursor, writers, home, off, trapped, reg>>

(* The lock is taken for good, interrupts are on again if the call found   *)
(* them on, and the message is formatted and traced.                       *)
TakeSync(c) ==
  /\ sync = Nobody /\ MoveTo(c, "spin", "uart")
  /\ sync' = c /\ buf' = c /\ report' = [report EXCEPT ![c] = "message"]
  /\ left' = [left EXCEPT ![c] = ReportLength]
  /\ masked' = masked \ (toggled \cap {c}) /\ toggled' = toggled \ {c}
  /\ UNCHANGED <<cursor, writers, home, off, trapped, reg>>

mu_panic_dump(c) ==
  /\ MoveTo(c, "dump", "uart")
  /\ report' = [report EXCEPT ![c] = "dump"]
  /\ left' = [left EXCEPT ![c] = ReportLength]
  /\ UNCHANGED <<cursor, writers, home, timerVars, sync, buf, trapped, reg>>

(* cli; hlt.                                                               *)
mu_panic_hcf(c) ==
  /\ MoveTo(c, "hcf", "halt")
  /\ masked' = masked \cup {c}
  /\ UNCHANGED <<cursor, writers, home, off, toggled, panicVars, left, reg>>

Write(c) ==
  \/ uart_write(c) \/ console_putch(c) \/ cons_blit_ch(c) \/ StoreTx(c) \/ TestTx(c)
  \/ cons_newline(c) \/ StoreTy(c) \/ ZeroTx(c) \/ TestTy(c)
  \/ trap_dispatch(c) \/ TakeSync(c) \/ mu_panic_dump(c) \/ mu_panic_hcf(c)

ReportNext ==
  \/ console_reset
  \/ \E c \in Contexts : trace(c) \/ Write(c) \/ panic(c) \/ Trap(c)
  \/ \E c, d \in Contexts : Switch(c, d)

(* A context that has something to write goes on when it runs, and the     *)
(* timer's round robin comes back to every context of a processor that     *)
(* keeps taking timer interrupts.                                          *)
ReportFairness ==
  \A d \in Contexts : /\ SF_reportVars(Write(d))
                      /\ SF_reportVars(\E c \in Contexts : Switch(c, d))

ReportSpec == ReportInit /\ [][ReportNext]_reportVars /\ ReportFairness
-----------------------------------------------------------------------------
(* CursorHeals: contexts that race for it can draw outside the frame, but  *)
(* once none of them is between adding to a coordinate and bounding it the *)
(* next glyph fits, whatever they read and stored before, as long as none  *)
(* was taken away there by a trap (console_putch and cons_newline).  One   *)
(* context on its own so stays inside the frame.                           *)
CursorHeals ==
  /\ trapped = {}
  /\ \A c \in Contexts :
       at[c] \notin {"test_tx", "newline", "store_ty", "zero_tx", "test_ty"}
  => tx + FONT_WIDTH <= Width /\ ty + FONT_HEIGHT <= Height

(* ReportOwnsBuffer: the text panic traces is the text the same call has   *)
(* formatted: its static buffer is not reused while the report is written. *)
ReportOwnsBuffer == \A c \in Contexts : report[c] # "none" => buf = c

(* ReportEnds: the first context that panics gets its report out and halts *)
(* its processor, however often the timer takes the processor away, unless *)
(* a second call of panic on that processor - its own after a trap, or     *)
(* that of a context that runs in between - spins on the lock there with   *)
(* interrupts masked (kern_panic.c).                                       *)
ReportEnds ==
  \A c \in Contexts :
    sync = c ~> at[c] = "halt" \/ \E d \in Contexts : home[d] = home[c] /\ at[d] = "spin"

(* PanicReported: panic.h says that panic is there to "Signal to the user  *)
(* that a fatal error has occured and the system needs to halt": the first *)
(* call gets that far unless a trap ends it.                               *)
PanicReported ==
  \A c \in Contexts : sync = c ~> at[c] = "halt" \/ c \in trapped
=============================================================================
