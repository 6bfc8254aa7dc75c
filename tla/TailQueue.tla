----------------------------- MODULE TailQueue ------------------------------
(***************************************************************************)
(* One run queue at the level of its pointers: TAILQ_INSERT_TAIL and       *)
(* TAILQ_REMOVE (sys/inc/sys/queue.h) as sched_enqueue_proc and            *)
(* sched_dequeue_proc (sys/os/os_sched.c) use them, without a lock.  One   *)
(* actor, the owning processor, requeues its current process and takes the *)
(* first one, as mu_process_switch does; the other, the boot processor,    *)
(* inserts new processes.  Their stores interleave freely.                 *)
(*                                                                         *)
(* A struct process ** is the object whose next-pointer it addresses: the  *)
(* head, for &head->tqh_first, or an element.                              *)
(***************************************************************************)
EXTENDS Integers, Sequences, FiniteSets

CONSTANTS Elems,     \* processes
          Head0,     \* the queue head
          Null

ASSUME DistinctAssumption == Head0 \notin Elems /\ Null \notin Elems /\ Head0 # Null

Actors == {"core", "boot"}
Objects == Elems \cup {Head0}

VARIABLES next,      \* next[o]: tqe_next of an element, tqh_first of the head
          prev,      \* prev[e]: tqe_prev
          last,      \* tqh_last
          nelem,     \* nelem
          tmp,       \* tmp[x]: the register nelem is incremented in
          at,        \* at[x]: where actor x is
          elm,       \* elm[x]: the element actor x works on
          current,   \* the owner's current process
          created,   \* elements the boot processor has begun to insert
          fifo,      \* history: the queue the completed calls should have left
          overlapped \* history: a call began while the other was under way

queueVars == <<next, prev, last, nelem, tmp, at, elm, current, created, fifo,
               overlapped>>

QueueLocations == {"idle", "ins1", "ins2", "ins3", "ins4", "ins5", "ins6",
              "first", "rem1", "rem2", "rem3", "rem4", "parked"}

QueueTypeOK ==
  /\ next \in [Objects -> Elems \cup {Null}]
  /\ prev \in [Elems -> Objects]
  /\ last \in Objects
  /\ nelem \in Int /\ tmp \in [Actors -> Int]
  /\ at \in [Actors -> QueueLocations]
  /\ elm \in [Actors -> Elems \cup {Null}]
  /\ current \in Elems \cup {Null}
  /\ created \subseteq Elems
  /\ fifo \in Seq(Elems)
  /\ overlapped \in BOOLEAN

(* TAILQ_INIT, from cpu_conf.  The links of a process are what its memory  *)
(* held before.                                                            *)
QueueInit ==
  /\ next \in [Objects -> Elems \cup {Null}] /\ next[Head0] = Null
  /\ prev \in [Elems -> Objects]
  /\ last = Head0
  /\ nelem = 0 /\ tmp = [x \in Actors |-> 0]
  /\ at = [x \in Actors |-> "idle"]
  /\ elm = [x \in Actors |-> Null]
  /\ current = Null
  /\ created = {}
  /\ fifo = <<>>
  /\ overlapped = FALSE

GoTo(x, l) == at' = [at EXCEPT ![x] = l]

Resting(x) == at[x] \in {"idle", "parked"}

(* Actor x begins a call on the queue.                                     *)
Begin(x) ==
  /\ at[x] = "idle"
  /\ overlapped' = (overlapped \/ \E y \in Actors : ~Resting(y))

(* The boot processor calls sched_enqueue_proc with a new process.         *)
Create(e) ==
  /\ Begin("boot") /\ e \notin created
  /\ created' = created \cup {e}
  /\ elm' = [elm EXCEPT !["boot"] = e]
  /\ GoTo("boot", "ins1")
  /\ UNCHANGED <<next, prev, last, nelem, tmp, current, fifo>>

(* The owner's timer interrupt: mu_process_switch.                         *)
Interrupt ==
  /\ Begin("core")
  /\ elm' = [elm EXCEPT !["core"] = current]
  /\ GoTo("core", IF current = Null THEN "first" ELSE "ins1")
  /\ UNCHANGED <<next, prev, last, nelem, tmp, current, created, fifo>>

(* Ins1 that leaves the link as it is.                                     *)
Ins1_Stale(x) ==
  /\ at[x] = "ins1"
  /\ GoTo(x, "ins2")
  /\ UNCHANGED <<next, prev, last, nelem, tmp, elm, current, created, fifo, overlapped>>

(* TAILQ_INSERT_TAIL, one store per step.                                  *)
Ins1(x) ==
  /\ at[x] = "ins1"
  /\ next' = [next EXCEPT ![elm[x]] = Null]
  /\ GoTo(x, "ins2")
  /\ UNCHANGED <<prev, last, nelem, tmp, elm, current, created, fifo, overlapped>>

Ins2(x) ==
  /\ at[x] = "ins2"
  /\ prev' = [prev EXCEPT ![elm[x]] = last]
  /\ GoTo(x, "ins3")
  /\ UNCHANGED <<next, last, nelem, tmp, elm, current, created, fifo, overlapped>>

(* The store through tqh_last, loaded again: the kernel is built without   *)
(* optimisation.                                                           *)
Ins3(x) ==
  /\ at[x] = "ins3"
  /\ next' = [next EXCEPT ![last] = elm[x]]
  /\ GoTo(x, "ins4")
  /\ UNCHANGED <<prev, last, nelem, tmp, elm, current, created, fifo, overlapped>>

Ins4(x) ==
  /\ at[x] = "ins4"
  /\ last' = elm[x]
  /\ GoTo(x, "ins5")
  /\ UNCHANGED <<next, prev, nelem, tmp, elm, current, created, fifo, overlapped>>

(* The load of nelem, for ++ and for --.                                   *)
LoadNelem(x) ==
  /\ at[x] \in {"ins5", "rem3"}
  /\ tmp' = [tmp EXCEPT ![x] = nelem]
  /\ GoTo(x, IF at[x] = "ins5" THEN "ins6" ELSE "rem4")
  /\ UNCHANGED <<next, prev, last, nelem, elm, current, created, fifo, overlapped>>

(* Its store.  After the insertion the owner goes on to dequeue.           *)
Ins6(x) ==
  /\ at[x] = "ins6"
  /\ nelem' = tmp[x] + 1
  /\ fifo' = Append(fifo, elm[x])
  /\ GoTo(x, IF x = "core" THEN "first" ELSE "idle")
  /\ UNCHANGED <<next, prev, last, tmp, elm, current, created, overlapped>>

(* sched_dequeue_proc: TAILQ_FIRST.  Without a first process the handler   *)
(* of a processor that has a current one ends in sched_enter.              *)
First(x) ==
  /\ at[x] = "first"
  /\ elm' = [elm EXCEPT ![x] = next[Head0]]
  /\ GoTo(x, IF next[Head0] # Null THEN "rem1"
             ELSE IF current = Null THEN "idle" ELSE "parked")
  /\ UNCHANGED <<next, prev, last, nelem, tmp, current, created, fifo, overlapped>>

(* Rem1 that does not move the successor's back link.                      *)
Rem1_OldPrev(x) ==
  /\ at[x] = "rem1"
  /\ last' = IF next[elm[x]] # Null THEN last ELSE prev[elm[x]]
  /\ GoTo(x, "rem2")
  /\ UNCHANGED <<next, prev, nelem, tmp, elm, current, created, fifo, overlapped>>

(* TAILQ_REMOVE.                                                           *)
Rem1(x) ==
  /\ at[x] = "rem1"
  /\ IF next[elm[x]] # Null
       THEN prev' = [prev EXCEPT ![next[elm[x]]] = prev[elm[x]]] /\ last' = last
       ELSE last' = prev[elm[x]] /\ prev' = prev
  /\ GoTo(x, "rem2")
  /\ UNCHANGED <<next, nelem, tmp, elm, current, created, fifo, overlapped>>

Rem2(x) ==
  /\ at[x] = "rem2"
  /\ next' = [next EXCEPT ![prev[elm[x]]] = next[elm[x]]]
  /\ GoTo(x, "rem3")
  /\ UNCHANGED <<prev, last, nelem, tmp, elm, current, created, fifo, overlapped>>

(* The count, and the return to mu_process_switch, which makes the process *)
(* current: the queue should have lost its first element.                  *)
Rem4(x) ==
  /\ at[x] = "rem4"
  /\ nelem' = tmp[x] - 1
  /\ current' = elm[x]
  /\ fifo' = SubSeq(fifo, 2, Len(fifo))
  /\ GoTo(x, "idle")
  /\ UNCHANGED <<next, prev, last, tmp, elm, created, overlapped>>

QueueNext ==
  \/ Interrupt
  \/ \E e \in Elems : Create(e)
  \/ \E x \in Actors :
       Ins1(x) \/ Ins2(x) \/ Ins3(x) \/ Ins4(x) \/ LoadNelem(x) \/ Ins6(x)
  \/ First("core") \/ Rem1("core") \/ Rem2("core") \/ Rem4("core")

QueueSpec == QueueInit /\ [][QueueNext]_queueVars
-----------------------------------------------------------------------------
(* Properties.                                                             *)

(* The first n elements met when walking the queue from its head.          *)
Walk[n \in Nat] ==
  IF n = 0 THEN Head0
  ELSE IF Walk[n - 1] = Null THEN Null ELSE next[Walk[n - 1]]

Quiet == \A x \in Actors : Resting(x)

(* QueueIsFifo: between calls, none of which overlapped another, walking   *)
(* the queue meets exactly the processes that were inserted and not        *)
(* removed, in that order, tqh_last addresses the last of them, nelem is   *)
(* their number, and every tqe_prev addresses the pointer to its element,  *)
(* which TAILQ_REMOVE stores through.                                      *)
QueueIsFifo ==
  Quiet /\ ~overlapped =>
    /\ \A i \in 1 .. Len(fifo) : Walk[i] = fifo[i] /\ next[prev[fifo[i]]] = fifo[i]
    /\ Walk[Len(fifo) + 1] = Null
    /\ last = Walk[Len(fifo)]
    /\ nelem = Len(fifo)

(* Processes whose links have been assigned.                               *)
Inserted == created \ {e \in Elems : e = elm["boot"] /\ at["boot"] \in {"ins1", "ins2"}}

(* PointersKnown: whatever overlaps, the pointers from the head on lead to *)
(* processes that were inserted, to the head and to Null, never where      *)
(* memory nobody assigned leads, and a dequeue returns one of these        *)
(* processes or none.  A torn queue can lose processes, repeat them or end *)
(* early, and nothing else.                                                *)
PointersKnown ==
  /\ \A o \in Inserted \cup {Head0} : next[o] \in Inserted \cup {Null}
  /\ \A e \in Inserted : prev[e] \in Inserted \cup {Head0}
  /\ last \in Inserted \cup {Head0}
  /\ current \in Inserted \cup {Null}

(* EnqueuedReachable: "Enqueue a process into a runqueue" (sched.h):       *)
(* between calls every process that was enqueued is current or can be      *)
(* reached from the head.                                                  *)
EnqueuedReachable ==
  Quiet => \A e \in created :
             e = current \/ \E i \in 1 .. Cardinality(Elems) : Walk[i] = e
=============================================================================
