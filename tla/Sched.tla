------------------------------- MODULE Sched --------------------------------
(***************************************************************************)
(* The process scheduler: sched_enqueue_proc and sched_dequeue_proc        *)
(* (sys/os/os_sched.c), process_init (sys/os/os_process.c), and the timer  *)
(* path lapic_tmr_isr -> mu_process_switch -> sched_enter                  *)
(* (sys/arch/amd64/os/os_process.c).                                       *)
(*                                                                         *)
(* Bring-up is over: cpu_list holds a processor at every index below       *)
(* cpu_count().  The boot processor, index 0, creates processes; it never  *)
(* arms its timer and ends in the cli/hlt loop of boot.S.  The others run  *)
(* cpu_idle until their timer interrupts it.  An interrupt handler runs    *)
(* with interrupts off, so a processor's handler is not itself             *)
(* interrupted; its steps interleave with those of the other processors.   *)
(*                                                                         *)
(* No lock guards a run queue, and an insertion or a removal is several    *)
(* stores (TailQueue).  A call takes effect in one step unless another     *)
(* processor's call on that queue overlaps it.  Insertion by the boot      *)
(* processor has a beginning and an end; when a handler works on the queue *)
(* in between, nothing is known of the queue from then on: what a dequeue  *)
(* returns is any process that was ever inserted there, or none.           *)
(*                                                                         *)
(* A context is what a trap frame holds: <<"proc", p>> is process p's own  *)
(* computation, <<"idle", c>> the idle loop of processor c, <<"junk", p>>  *)
(* the never initialised frame of p.                                       *)
(***************************************************************************)
EXTENDS Integers, Sequences, FiniteSets

CONSTANTS NCpu,         \* cpu_count()
          MaxProcs,     \* bound: processes created
          Affinities,   \* values creators store in process->affinity
          InitOutcomes, \* does mu_process_init succeed?
          StaleCurproc  \* what an application processor's curproc may hold
                        \* at first: kalloc returns memory as it was, and
                        \* nothing assigns the field

ASSUME NCpuAssumption     == NCpu \in Nat \ {0}
ASSUME ProcsAssumption    == MaxProcs \in Nat
ASSUME AffinityAssumption == Affinities \subseteq Int
ASSUME OutcomeAssumption  == InitOutcomes \subseteq BOOLEAN
ASSUME StaleAssumption    == StaleCurproc # {} /\ StaleCurproc \subseteq {-1, -2}

Cores == 0 .. NCpu - 1
Procs == 0 .. MaxProcs - 1
NULL  == -1
WILD  == -2    \* an address that is not a process

Contexts == ({"proc", "junk"} \X Procs) \cup ({"idle"} \X Cores)

VARIABLES pqueue,     \* pqueue[c]: run queue of processor c
          curproc,    \* curproc[c]
          regs,       \* regs[c]: the context processor c executes or has
                      \* interrupted
          tf,         \* tf[p]: the context saved in p's pcb
          affinity,   \* affinity[p]
          next_pid,   \* the next pid, and the number of processes created
          pc,         \* pc[c]: "run", or a step of the interrupt handler
          armed,      \* armed[c]: the one-shot timer is counting
          service,    \* service[c]: a timer interrupt awaits its EOI
          new,        \* the process the boot processor is inserting, or NULL
          raced       \* history, raced[c]: two calls on the queue of c have
                      \* overlapped; pqueue[c] is then <<>> and means nothing

vars == <<pqueue, curproc, regs, tf, affinity, next_pid, pc, armed, service,
          new, raced>>

TypeOK ==
  /\ pqueue \in [Cores -> Seq(Procs)]
  /\ curproc \in [Cores -> Procs \cup {NULL, WILD}]
  /\ regs \in [Cores -> Contexts]
  /\ tf \in [Procs -> Contexts]
  /\ affinity \in [Procs -> Int]
  /\ next_pid \in 0 .. MaxProcs
  /\ pc \in [Cores -> {"run", "isr", "save", "next", "parked", "lost"}]
  /\ armed \in [Cores -> BOOLEAN]
  /\ service \in [Cores -> BOOLEAN]
  /\ new \in Procs \cup {NULL}
  /\ raced \in [Cores -> BOOLEAN]

Init ==
  /\ pqueue = [c \in Cores |-> <<>>]
  /\ curproc \in {f \in [Cores -> StaleCurproc \cup {NULL}] :
                   /\ f[0] = NULL
                   /\ \A c \in Cores \ {0} : f[c] \in StaleCurproc}
  /\ regs = [c \in Cores |-> <<"idle", c>>]
  /\ tf = [p \in Procs |-> <<"junk", p>>]
  /\ affinity = [p \in Procs |-> -1]
  /\ next_pid = 0
  /\ pc = [c \in Cores |-> "run"]
  /\ armed = [c \in Cores |-> c # 0]
  /\ service = [c \in Cores |-> FALSE]
  /\ new = NULL
  /\ raced = [c \in Cores |-> FALSE]

(* sched_enqueue_proc.  cpu_get succeeds for every index in Cores, so a    *)
(* process with a valid affinity is not inserted anywhere, and the scan    *)
(* stops at its first candidate.                                           *)
Pinned(aff) == aff \in Cores

Home(p) == (p % 256) % NCpu

(* sched_enqueue_proc that takes "no affinity" for an affinity, and one    *)
(* that inserts at the head.                                               *)
sched_enqueue_proc_AllPinned(q, p, aff) ==
  IF aff >= -1 THEN q ELSE [q EXCEPT ![Home(p)] = Append(@, p)]

sched_enqueue_proc_Head(q, p, aff) ==
  IF Pinned(aff) THEN q ELSE [q EXCEPT ![Home(p)] = <<p>> \o @]

sched_enqueue_proc(q, p, aff) ==
  IF Pinned(aff) THEN q ELSE [q EXCEPT ![Home(p)] = Append(@, p)]

(* What is known of the queues q when the calls on those of r overlapped.  *)
Known(q, r) == [c \in Cores |-> IF r[c] THEN <<>> ELSE q[c]]

(* A handler works on the queue of c: that overlaps the boot processor's   *)
(* insertion into it.                                                      *)
Overlap(c) == [raced EXCEPT ![c] = @ \/ (new # NULL /\ Home(new) = c)]

Residents(c) == {p \in Procs : p < next_pid /\ Home(p) = c /\ ~Pinned(affinity[p])}

(* sched_dequeue_proc on c: what it may return, and what it leaves.        *)
Firsts(c) ==
  IF Overlap(c)[c] THEN Residents(c) \cup {NULL}
  ELSE IF pqueue[c] = <<>> THEN {NULL} ELSE {Head(pqueue[c])}

Remaining(c) == [pqueue EXCEPT ![c] = IF @ = <<>> THEN @ ELSE Tail(@)]

(* process_init on the boot processor, which goes on to insert the process *)
(* unless it has an affinity.  When mu_process_init fails, process_init    *)
(* still returns 0.                                                        *)
Spawn(aff, ok) ==
  /\ next_pid < MaxProcs /\ new = NULL
  /\ LET p == next_pid IN
       /\ affinity' = [affinity EXCEPT ![p] = aff]
       /\ tf' = [tf EXCEPT ![p] = IF ok THEN <<"proc", p>> ELSE <<"junk", p>>]
       /\ new' = IF Pinned(aff) THEN NULL ELSE p
  /\ next_pid' = next_pid + 1
  /\ UNCHANGED <<pqueue, curproc, regs, pc, armed, service, raced>>

(* Its insertion is complete.                                              *)
EnqueueNew ==
  /\ new # NULL
  /\ pqueue' = Known(sched_enqueue_proc(pqueue, new, affinity[new]), raced)
  /\ new' = NULL
  /\ UNCHANGED <<curproc, regs, tf, affinity, next_pid, pc, armed, service, raced>>

(* The one-shot timer expires and, unless an earlier timer interrupt is    *)
(* still in service, interrupts processor c.                               *)
Tick(c) ==
  /\ pc[c] = "run" /\ armed[c] /\ ~service[c]
  /\ armed' = [armed EXCEPT ![c] = FALSE]
  /\ service' = [service EXCEPT ![c] = TRUE]
  /\ pc' = [pc EXCEPT ![c] = "isr"]
  /\ UNCHANGED <<pqueue, curproc, regs, tf, affinity, next_pid, new, raced>>

(* "done:" - EOI, timer, return to the frame on the stack.                 *)
Resume(c) ==
  /\ armed' = [armed EXCEPT ![c] = TRUE]
  /\ service' = [service EXCEPT ![c] = FALSE]
  /\ pc' = [pc EXCEPT ![c] = "run"]

(* mu_process_switch without a current process: one is dequeued and        *)
(* becomes current, and the interrupted context continues.                 *)
Adopt(c) ==
  /\ pc[c] = "isr" /\ curproc[c] = NULL
  /\ raced' = Overlap(c)
  /\ \E p \in Firsts(c) : curproc' = [curproc EXCEPT ![c] = p]
  /\ pqueue' = Known(Remaining(c), raced')
  /\ Resume(c)
  /\ UNCHANGED <<regs, tf, affinity, next_pid, new>>

(* With one: it is put on a queue first ...  With a wild pointer the       *)
(* handler goes astray.                                                    *)
Requeue(c) ==
  /\ pc[c] = "isr" /\ curproc[c] # NULL
  /\ IF curproc[c] = WILD
       THEN pc' = [pc EXCEPT ![c] = "lost"] /\ UNCHANGED <<pqueue, raced>>
       ELSE LET self == curproc[c] IN
            /\ raced' = IF Pinned(affinity[self]) THEN raced ELSE Overlap(Home(self))
            /\ pqueue' = Known(sched_enqueue_proc(pqueue, self, affinity[self]), raced')
            /\ pc' = [pc EXCEPT ![c] = "save"]
  /\ UNCHANGED <<curproc, regs, tf, affinity, next_pid, armed, service, new>>

(* Save into the pcb of the process that is about to run.                  *)
Save_InNext(c) ==
  /\ pc[c] = "save" /\ pqueue[c] # <<>>
  /\ tf' = [tf EXCEPT ![Head(pqueue[c])] = regs[c]]
  /\ pc' = [pc EXCEPT ![c] = "next"]
  /\ UNCHANGED <<pqueue, curproc, regs, affinity, next_pid, armed, service, new, raced>>

(* ... its frame is saved after that ...                                   *)
Save(c) ==
  /\ pc[c] = "save"
  /\ tf' = [tf EXCEPT ![curproc[c]] = regs[c]]
  /\ pc' = [pc EXCEPT ![c] = "next"]
  /\ UNCHANGED <<pqueue, curproc, regs, affinity, next_pid, armed, service, new, raced>>

(* Switch to the first process of the queue without removing it.           *)
Switch_Peek(c) ==
  /\ pc[c] = "next" /\ pqueue[c] # <<>>
  /\ regs' = [regs EXCEPT ![c] = tf[Head(pqueue[c])]]
  /\ curproc' = [curproc EXCEPT ![c] = Head(pqueue[c])]
  /\ Resume(c)
  /\ UNCHANGED <<pqueue, tf, affinity, next_pid, new, raced>>

(* ... and the next process is loaded; with none, sched_enter arms the     *)
(* timer and halts inside the handler, its interrupt still in service: no  *)
(* later tick is delivered.                                                *)
Switch(c) ==
  /\ pc[c] = "next"
  /\ raced' = Overlap(c)
  /\ pqueue' = Known(Remaining(c), raced')
  /\ \E next \in Firsts(c) :
       \/ /\ next = NULL
          /\ armed' = [armed EXCEPT ![c] = TRUE]
          /\ pc' = [pc EXCEPT ![c] = "parked"]
          /\ UNCHANGED <<curproc, regs, service>>
       \/ /\ next # NULL
          /\ regs' = [regs EXCEPT ![c] = tf[next]]
          /\ curproc' = [curproc EXCEPT ![c] = next]
          /\ Resume(c)
  /\ UNCHANGED <<tf, affinity, next_pid, new>>

Step(c) == Tick(c) \/ Adopt(c) \/ Requeue(c) \/ Save(c) \/ Switch(c)

Next == \/ EnqueueNew
        \/ \E aff \in Affinities, ok \in InitOutcomes : Spawn(aff, ok)
        \/ \E c \in Cores : Step(c)

Spec == Init /\ [][Next]_vars

(* An armed timer expires, handlers run and an insertion ends; nothing     *)
(* makes anybody create processes.                                         *)
FairSpec == Spec /\ WF_vars(EnqueueNew) /\ \A c \in Cores : WF_vars(Step(c))
-----------------------------------------------------------------------------
(* Properties.                                                             *)

Queued == {q \in Cores \X (1 .. MaxProcs) : q[2] <= Len(pqueue[q[1]])}

At(q) == pqueue[q[1]][q[2]]

(* OnePlace: a process is at most once on the run queues of all processors *)
(* together, and on none while it is somebody's current process - except   *)
(* inside its own processor's handler, between requeueing and switching.   *)
OnePlace ==
  /\ \A q, r \in Queued : At(q) = At(r) => q = r
  /\ \A c, d \in Cores : curproc[c] = curproc[d] /\ curproc[c] \in Procs => c = d
  /\ \A q \in Queued, c \in Cores :
       At(q) = curproc[c] => pc[c] \in {"save", "next"} /\ q[1] = c

(* OneContext: no computation is on two processors, or running on one and  *)
(* saved for another process: a frame is loaded only after it was saved,   *)
(* although the process is on the queue before that, and even when calls   *)
(* on the queue overlapped.                                                *)
OneContext ==
  /\ \A c, d \in Cores : regs[c] = regs[d] => c = d
  /\ \A p \in Procs, c \in Cores :
       p < next_pid /\ p # curproc[c] => tf[p] # regs[c]

(* NoProcessLost: a process that was created without an affinity and       *)
(* inserted is on the run queue of its home processor or its current       *)
(* process, as long as no two calls on that queue overlapped.              *)
NoProcessLost ==
  \A p \in Procs :
    p < next_pid /\ ~Pinned(affinity[p]) /\ p # new /\ ~raced[Home(p)] =>
      \/ curproc[Home(p)] = p
      \/ \E i \in 1 .. Len(pqueue[Home(p)]) : pqueue[Home(p)][i] = p

(* RoundRobin: a process without an affinity whose home is an application  *)
(* processor becomes current again and again, unless two calls on its      *)
(* queue overlapped or that processor was lost to a curproc nobody had     *)
(* assigned.                                                               *)
RoundRobin ==
  \A p \in Procs :
    (p < next_pid /\ ~Pinned(affinity[p]) /\ Home(p) # 0)
      ~> (curproc[Home(p)] = p \/ pc[Home(p)] = "lost" \/ raced[Home(p)])

(* OwnFrame: "Context switch to the next process": the frame saved for an  *)
(* initialised process is its own computation.                             *)
OwnFrame == \A p \in Procs : tf[p] \in {<<"proc", p>>, <<"junk", p>>}
=============================================================================
