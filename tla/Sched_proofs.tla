---------------------------- MODULE Sched_proofs ----------------------------
(***************************************************************************)
(* Proofs about the scheduler for any number of processors and processes,  *)
(* any affinities and either outcome of mu_process_init.                   *)
(***************************************************************************)
EXTENDS Sched, TailQueue, SequenceTheorems, WellFoundedInduction, TLAPS

(* A process has one processor in its life, its home, and is in one place  *)
(* of that processor's queue at most; a current process is queued exactly  *)
(* between requeueing and switching.  Nothing is known of a queue on which *)
(* calls overlapped, except whose processes are on it.                     *)
Placed(p, c) == p < next_pid /\ Home(p) = c /\ ~Pinned(affinity[p])

PlacesAt(c) ==
  /\ \A i \in 1 .. Len(pqueue[c]) : Placed(pqueue[c][i], c) /\ pqueue[c][i] # new
  /\ \A i, j \in 1 .. Len(pqueue[c]) : pqueue[c][i] = pqueue[c][j] => i = j
  /\ curproc[c] \in Procs => Placed(curproc[c], c)
  /\ \A i \in 1 .. Len(pqueue[c]) :
       pqueue[c][i] = curproc[c] => pc[c] \in {"save", "next"}
  /\ pc[c] \in {"save", "next"} =>
       /\ curproc[c] \in Procs
       /\ raced[c] \/ \E i \in 1 .. Len(pqueue[c]) : pqueue[c][i] = curproc[c]
  /\ raced[c] => pqueue[c] = <<>>

Places == \A c \in Cores : PlacesAt(c)

(* The process being inserted is nobody's current process yet.             *)
NewPlaced ==
  new # NULL => /\ Placed(new, Home(new))
                /\ curproc[Home(new)] = new => raced[Home(new)]

PlaceInv == TypeOK /\ Places /\ NewPlaced /\ NoProcessLost

(* The contexts that can be on processor c or saved by one of its own      *)
(* processes: frames never travel to another processor.                    *)
Local(x, c) ==
  \/ x = <<"idle", c>>
  \/ \E p \in Procs : /\ p < next_pid /\ Home(p) = c
                      /\ x = <<"proc", p>> \/ x = <<"junk", p>>

(* Leaving out the stale frame of the current process, the saved frames    *)
(* and what the processor runs are all different.                          *)
Frames ==
  /\ \A c \in Cores : Local(regs[c], c)
  /\ \A p \in Procs : p < next_pid => Local(tf[p], Home(p))
  /\ \A p, r \in Procs :
       /\ p < next_pid /\ r < next_pid /\ p # r /\ Home(p) = Home(r)
       /\ curproc[Home(p)] # p /\ curproc[Home(p)] # r
       => tf[p] # tf[r]
  /\ \A p \in Procs :
       p < next_pid /\ curproc[Home(p)] # p => tf[p] # regs[Home(p)]
  /\ \A c \in Cores : pc[c] = "next" => tf[curproc[c]] = regs[c]

Inv == PlaceInv /\ Frames
-----------------------------------------------------------------------------
(* Queues.                                                                 *)

LEMMA AppendFacts ==
  ASSUME NEW S, NEW s \in Seq(S), NEW x \in S
  PROVE  /\ Append(s, x) \in Seq(S)
         /\ Len(Append(s, x)) = Len(s) + 1 /\ Len(s) \in Nat
         /\ \A i \in 1 .. Len(s) : Append(s, x)[i] = s[i]
         /\ Append(s, x)[Len(s) + 1] = x
OBVIOUS

LEMMA TailFacts ==
  ASSUME NEW S, NEW s \in Seq(S), s # <<>>
  PROVE  /\ Len(s) \in Nat /\ Len(s) >= 1
         /\ Head(s) = s[1] /\ Head(s) \in S
         /\ Tail(s) \in Seq(S) /\ Len(Tail(s)) = Len(s) - 1
         /\ \A i \in 1 .. Len(s) - 1 : Tail(s)[i] = s[i + 1]
OBVIOUS

(* A step that works on the queue of c leaves the other queues alone.      *)
LEMMA KnownFacts ==
  ASSUME TypeOK, Places, NEW c \in Cores, NEW q \in [Cores -> Seq(Procs)],
         NEW r \in [Cores -> BOOLEAN],
         \A d \in Cores : d # c => q[d] = pqueue[d] /\ r[d] = raced[d]
  PROVE  /\ Known(q, r) \in [Cores -> Seq(Procs)]
         /\ \A d \in Cores : d # c => Known(q, r)[d] = pqueue[d]
         /\ Known(q, r)[c] = IF r[c] THEN <<>> ELSE q[c]
<1>1. <<>> \in Seq(Procs)
  OBVIOUS
<1>2. \A d \in Cores : raced[d] => pqueue[d] = <<>>
  BY DEF Places, PlacesAt
<1> QED
  BY <1>1, <1>2 DEF Known

LEMMA NotProcs == NULL \notin Procs /\ WILD \notin Procs
BY ProcsAssumption DEF NULL, WILD, Procs

LEMMA OverlapFacts ==
  ASSUME TypeOK, NEW c \in Cores
  PROVE  /\ Overlap(c) \in [Cores -> BOOLEAN]
         /\ \A d \in Cores : d # c => Overlap(c)[d] = raced[d]
         /\ ~Overlap(c)[c] => ~raced[c] /\ (new = NULL \/ Home(new) # c)
         /\ Overlap(c)[c] = (raced[c] \/ (new # NULL /\ Home(new) = c))
BY DEF Overlap, TypeOK

(* A pid's home is one of the processors.                                  *)
LEMMA HomeType == ASSUME NEW p \in Procs PROVE Home(p) \in Cores
BY NCpuAssumption, ProcsAssumption DEF Procs, Cores, Home

(* sched_enqueue_proc: a process with an affinity is inserted nowhere,     *)
(* any other at the end of its home's queue.                               *)
LEMMA EnqueueFacts ==
  ASSUME TypeOK, NEW p \in Procs, NEW aff, NEW q,
         q = sched_enqueue_proc(pqueue, p, aff)
  PROVE  /\ q \in [Cores -> Seq(Procs)]
         /\ Pinned(aff) => q = pqueue
         /\ \A c \in Cores : c # Home(p) => q[c] = pqueue[c]
         /\ ~Pinned(aff) => LET h == Home(p) IN
              /\ Len(pqueue[h]) \in Nat /\ Len(q[h]) = Len(pqueue[h]) + 1
              /\ \A i \in 1 .. Len(pqueue[h]) : q[h][i] = pqueue[h][i]
              /\ q[h][Len(pqueue[h]) + 1] = p
<1> DEFINE h == Home(p)
           s == Append(pqueue[h], p)
<1>1. h \in Cores /\ pqueue[h] \in Seq(Procs)
  BY HomeType DEF TypeOK
<1>2. /\ s \in Seq(Procs)
      /\ Len(s) = Len(pqueue[h]) + 1 /\ Len(pqueue[h]) \in Nat
      /\ \A i \in 1 .. Len(pqueue[h]) : s[i] = pqueue[h][i]
      /\ s[Len(pqueue[h]) + 1] = p
  BY <1>1, AppendFacts
<1>3. CASE Pinned(aff)
  BY <1>3 DEF sched_enqueue_proc, TypeOK
<1>4. CASE ~Pinned(aff)
  <2>1. q = [pqueue EXCEPT ![h] = s]
    BY <1>4 DEF sched_enqueue_proc
  <2> HIDE DEF s, h
  <2>2. q \in [Cores -> Seq(Procs)] /\ q[h] = s /\ \A c \in Cores : c # h => q[c] = pqueue[c]
    BY <1>1, <1>2, <2>1 DEF TypeOK
  <2> QED
    BY <1>2, <1>4, <2>2 DEF h
<1> QED
  BY <1>3, <1>4
-----------------------------------------------------------------------------
(* Places.                                                                 *)

LEMMA InitPlaces == Init => PlaceInv
<1> SUFFICES ASSUME Init PROVE PlaceInv
  OBVIOUS
<1> USE NCpuAssumption, ProcsAssumption, StaleAssumption
<1>1. TypeOK
  <2>1. /\ pqueue \in [Cores -> Seq(Procs)] /\ affinity \in [Procs -> Int]
        /\ next_pid \in 0 .. MaxProcs
        /\ pc \in [Cores -> {"run", "isr", "save", "next", "parked", "lost"}]
        /\ armed \in [Cores -> BOOLEAN] /\ service \in [Cores -> BOOLEAN]
    BY DEF Init
  <2>2. curproc \in [Cores -> Procs \cup {NULL, WILD}]
    BY DEF Init, NULL, WILD
  <2>3. regs \in [Cores -> Contexts] /\ tf \in [Procs -> Contexts]
    BY DEF Init, Contexts
  <2>4. new \in Procs \cup {NULL} /\ raced \in [Cores -> BOOLEAN]
    BY DEF Init
  <2> QED
    BY <2>1, <2>2, <2>3, <2>4 DEF TypeOK
<1>2. \A c \in Cores : pqueue[c] = <<>> /\ curproc[c] \notin Procs /\ pc[c] = "run"
  BY DEF Init, Procs, Cores, NULL
<1>3. Places
  BY <1>2 DEF Places, PlacesAt
<1>4. NoProcessLost /\ NewPlaced
  BY DEF Init, NoProcessLost, NewPlaced, Procs
<1> QED
  BY <1>1, <1>3, <1>4 DEF PlaceInv

(* A processor whose own state a step leaves alone.                        *)
LEMMA KeepPlaces ==
  ASSUME TypeOK, NEW d \in Cores, PlacesAt(d), new' \in {new, NULL},
         pqueue'[d] = pqueue[d], curproc'[d] = curproc[d], raced'[d] = raced[d],
         pc'[d] \in {"save", "next"} <=> pc[d] \in {"save", "next"},
         UNCHANGED <<affinity, next_pid>>
  PROVE  PlacesAt(d)'
<1>1. \A i \in 1 .. Len(pqueue[d]) : pqueue[d][i] \in Procs /\ pqueue[d][i] # NULL
  BY NotProcs DEF TypeOK
<1> QED
  BY <1>1 DEF PlacesAt, Placed

(* A step that leaves queues, current processes and the insertion alone.   *)
LEMMA KeepAll ==
  ASSUME PlaceInv, TypeOK',
         UNCHANGED <<pqueue, curproc, affinity, next_pid, new, raced>>,
         \A d \in Cores : pc'[d] \in {"save", "next"} <=> pc[d] \in {"save", "next"}
  PROVE  PlaceInv'
<1>1. Places'
  BY KeepPlaces DEF PlaceInv, Places
<1>2. NewPlaced' /\ NoProcessLost'
  BY DEF PlaceInv, NewPlaced, NoProcessLost, Placed
<1> QED
  BY <1>1, <1>2 DEF PlaceInv

(* sched_dequeue_proc on c, whether its queue is torn or not.              *)
LEMMA DequeuePlaces ==
  ASSUME PlaceInv, NEW c \in Cores, NEW n \in Firsts(c), NEW l \in {"run", "parked"},
         raced' = Overlap(c), pqueue' = Known(Remaining(c), raced'),
         curproc' = [curproc EXCEPT ![c] = n] \/ (n = NULL /\ curproc' = curproc),
         pc' = [pc EXCEPT ![c] = l],
         curproc[c] \notin Procs \/ pc[c] = "next",
         UNCHANGED <<affinity, next_pid, new>>
  PROVE  /\ Places' /\ NewPlaced' /\ NoProcessLost'
         /\ pqueue' \in [Cores -> Seq(Procs)] /\ raced' \in [Cores -> BOOLEAN]
         /\ n \in Procs \cup {NULL}
         /\ n # NULL => Placed(n, c)
<1>t. TypeOK /\ Places /\ NewPlaced /\ NoProcessLost /\ PlacesAt(c)
  BY DEF PlaceInv, Places
<1>l. /\ pqueue[c] \in Seq(Procs) /\ NULL \notin Procs
      /\ \A d \in Cores : Len(pqueue[d]) \in Nat
      /\ \A i \in 1 .. Len(pqueue[c]) : pqueue[c][i] \in Procs
  BY <1>t, NotProcs DEF TypeOK
<1>r. Remaining(c) \in [Cores -> Seq(Procs)] /\ \A d \in Cores : d # c => Remaining(c)[d] = pqueue[d]
  <2>1. pqueue[c] # <<>> => Tail(pqueue[c]) \in Seq(Procs)
    BY <1>l, TailFacts
  <2> QED
    BY <1>t, <1>l, <2>1 DEF Remaining, TypeOK
<1>o. /\ raced' \in [Cores -> BOOLEAN] /\ \A d \in Cores : d # c => raced'[d] = raced[d]
      /\ ~raced'[c] => ~raced[c] /\ (new = NULL \/ Home(new) # c)
      /\ raced'[c] = (raced[c] \/ (new # NULL /\ Home(new) = c))
  BY <1>t, OverlapFacts
<1>q. /\ pqueue' \in [Cores -> Seq(Procs)]
      /\ \A d \in Cores : d # c => pqueue'[d] = pqueue[d]
      /\ pqueue'[c] = IF raced'[c] THEN <<>> ELSE Remaining(c)[c]
  BY <1>t, <1>r, <1>o, KnownFacts
<1>d. \A d \in Cores : d # c => curproc'[d] = curproc[d] /\ pc'[d] = pc[d]
  BY <1>t DEF TypeOK
<1>c. pc'[c] = l /\ pc'[c] \notin {"save", "next"} /\ (curproc'[c] = n \/ (n = NULL /\ curproc'[c] = curproc[c]))
  BY <1>t DEF TypeOK
<1>e. \A d \in Cores : d # c => PlacesAt(d)'
  BY <1>t, <1>o, <1>q, <1>d, KeepPlaces DEF Places
<1>p. \A x, d : Placed(x, d)' <=> Placed(x, d)
  BY DEF Placed
<1>1. CASE raced'[c]
  <2>1. n \in Residents(c) \cup {NULL} /\ pqueue'[c] = <<>>
    BY <1>1, <1>q DEF Firsts
  <2>2. n \in Procs \cup {NULL} /\ (n # NULL => Placed(n, c))
    BY <2>1 DEF Residents, Placed
  <2>3. curproc'[c] \in Procs => Placed(curproc'[c], c)
    BY <1>t, <1>c, <1>l, <2>2 DEF PlacesAt
  <2>4. PlacesAt(c)'
    BY <1>c, <2>1, <2>3 DEF PlacesAt, Placed
  <2>5. Places'
    BY <1>e, <2>4 DEF Places
  <2>6. NewPlaced'
    <3> SUFFICES ASSUME new # NULL PROVE NewPlaced'
      BY DEF NewPlaced
    <3>1. new \in Procs /\ Home(new) \in Cores
      BY <1>t, HomeType DEF TypeOK
    <3>2. Home(new) # c => curproc'[Home(new)] = curproc[Home(new)] /\ raced'[Home(new)] = raced[Home(new)]
      BY <1>d, <1>o, <3>1
    <3> QED
      BY <1>1, <1>t, <3>2 DEF NewPlaced, Placed, Home, Pinned
  <2>7. NoProcessLost'
    <3> SUFFICES ASSUME NEW r \in Procs, r < next_pid, ~Pinned(affinity[r]), r # new, ~raced'[Home(r)]
                 PROVE  \/ curproc'[Home(r)] = r
                        \/ \E i \in 1 .. Len(pqueue'[Home(r)]) : pqueue'[Home(r)][i] = r
      BY DEF NoProcessLost
    <3>1. Home(r) \in Cores /\ Home(r) # c
      BY <1>1, HomeType
    <3>2. ~raced[Home(r)] /\ curproc'[Home(r)] = curproc[Home(r)] /\ pqueue'[Home(r)] = pqueue[Home(r)]
      BY <1>d, <1>o, <1>q, <3>1
    <3> QED
      BY <1>t, <3>2 DEF NoProcessLost
  <2> QED
    BY <1>q, <1>o, <2>2, <2>5, <2>6, <2>7
<1>2. CASE ~raced'[c]
  <2>1. ~raced[c] /\ (new = NULL \/ Home(new) # c) /\ pqueue'[c] = Remaining(c)[c]
    BY <1>2, <1>o, <1>q
  <2>2. NewPlaced'
    <3> SUFFICES ASSUME new # NULL PROVE NewPlaced'
      BY DEF NewPlaced
    <3>1. new \in Procs /\ Home(new) \in Cores /\ Home(new) # c
      BY <1>t, <2>1, HomeType DEF TypeOK
    <3>2. curproc'[Home(new)] = curproc[Home(new)] /\ raced'[Home(new)] = raced[Home(new)]
      BY <1>d, <1>o, <3>1
    <3> QED
      BY <1>t, <3>2 DEF NewPlaced, Placed, Home, Pinned
  <2>3. CASE pqueue[c] = <<>>
    <3>1. n = NULL /\ pqueue'[c] = <<>>
      BY <1>2, <1>l, <1>t, <2>1, <2>3 DEF Firsts, Remaining, TypeOK
    <3>2. curproc[c] \notin Procs
      BY <1>t, <2>1, <2>3 DEF PlacesAt
    <3>3. PlacesAt(c)'
      BY <1>2, <1>l, <1>c, <3>1, <3>2 DEF PlacesAt
    <3>4. NoProcessLost'
      <4> SUFFICES ASSUME NEW r \in Procs, r < next_pid, ~Pinned(affinity[r]), r # new, ~raced'[Home(r)]
                   PROVE  \/ curproc'[Home(r)] = r
                          \/ \E i \in 1 .. Len(pqueue'[Home(r)]) : pqueue'[Home(r)][i] = r
        BY DEF NoProcessLost
      <4>1. Home(r) \in Cores
        BY HomeType
      <4>2. ~raced[Home(r)]
        BY <1>o, <2>1, <4>1
      <4>3. \/ curproc[Home(r)] = r
            \/ \E i \in 1 .. Len(pqueue[Home(r)]) : pqueue[Home(r)][i] = r
        BY <1>t, <4>2 DEF NoProcessLost
      <4>4. Home(r) # c
        BY <2>3, <3>2, <4>3
      <4> QED
        BY <1>d, <1>q, <4>1, <4>3, <4>4
    <3>5. Places'
      BY <1>e, <3>3 DEF Places
    <3> QED
      BY <1>q, <1>o, <2>2, <3>1, <3>4, <3>5
  <2>4. CASE pqueue[c] # <<>>
    <3> DEFINE L == Len(pqueue[c])
    <3>1. /\ L \in Nat /\ L >= 1 /\ Head(pqueue[c]) = pqueue[c][1] /\ Head(pqueue[c]) \in Procs
          /\ Len(Tail(pqueue[c])) = L - 1
          /\ \A i \in 1 .. L - 1 : Tail(pqueue[c])[i] = pqueue[c][i + 1]
      BY <1>l, <2>4, TailFacts
    <3>2. n = Head(pqueue[c]) /\ pqueue'[c] = Tail(pqueue[c])
      BY <1>2, <1>t, <2>1, <2>4 DEF Firsts, Remaining, TypeOK
    <3>3. n = pqueue[c][1] /\ n \in Procs /\ n # NULL /\ curproc'[c] = n
      BY <1>c, <1>l, <3>1, <3>2
    <3>4. /\ Len(pqueue'[c]) = L - 1
          /\ \A i \in 1 .. L - 1 : i + 1 \in 1 .. L /\ pqueue'[c][i] = pqueue[c][i + 1]
      BY <3>1, <3>2
    <3>5. 1 \in 1 .. L /\ \A i \in 1 .. L : i = 1 \/ (i - 1 \in 1 .. L - 1 /\ i - 1 + 1 = i)
      BY <3>1
    <3> HIDE DEF L
    <3>6. /\ \A i, j \in 1 .. L : pqueue[c][i] = pqueue[c][j] => i = j
          /\ \A i \in 1 .. L : Placed(pqueue[c][i], c) /\ pqueue[c][i] # new
      BY <1>t DEF PlacesAt, L
    <3>7. PlacesAt(c)'
      <4>1. \A i \in 1 .. L - 1 : /\ Placed(pqueue'[c][i], c) /\ pqueue'[c][i] # new
                                  /\ pqueue'[c][i] # n
        BY <3>1, <3>3, <3>4, <3>5, <3>6
      <4>2. \A i, j \in 1 .. L - 1 : pqueue'[c][i] = pqueue'[c][j] => i = j
        <5> SUFFICES ASSUME NEW i \in 1 .. L - 1, NEW j \in 1 .. L - 1, pqueue'[c][i] = pqueue'[c][j]
                     PROVE  i = j
          OBVIOUS
        <5>1. i + 1 \in 1 .. L /\ j + 1 \in 1 .. L /\ pqueue[c][i + 1] = pqueue[c][j + 1]
          BY <3>4
        <5>2. i + 1 = j + 1
          BY <3>6, <5>1
        <5> QED
          BY <3>1, <5>2
      <4>3. Placed(n, c)
        BY <3>3, <3>5, <3>6
      <4>4. \A i \in 1 .. Len(pqueue'[c]) : Placed(pqueue[c][i], c)' /\ pqueue'[c][i] # new'
        BY <3>4, <4>1 DEF Placed
      <4> QED
        BY <1>2, <1>c, <3>3, <3>4, <4>1, <4>2, <4>3, <4>4 DEF PlacesAt, Placed
    <3>8. NoProcessLost'
      <4> SUFFICES ASSUME NEW r \in Procs, r < next_pid, ~Pinned(affinity[r]), r # new, ~raced'[Home(r)]
                   PROVE  \/ curproc'[Home(r)] = r
                          \/ \E i \in 1 .. Len(pqueue'[Home(r)]) : pqueue'[Home(r)][i] = r
        BY DEF NoProcessLost
      <4>1. Home(r) \in Cores
        BY HomeType
      <4>2. ~raced[Home(r)]
        BY <1>o, <2>1, <4>1
      <4>3. \/ curproc[Home(r)] = r
            \/ \E i \in 1 .. Len(pqueue[Home(r)]) : pqueue[Home(r)][i] = r
        BY <1>t, <4>2 DEF NoProcessLost
      <4>4. CASE Home(r) # c
        BY <1>d, <1>q, <4>1, <4>3, <4>4
      <4>5. CASE Home(r) = c
        <5>1. PICK i \in 1 .. L : pqueue[c][i] = r
          BY <1>t, <2>1, <4>3, <4>5 DEF PlacesAt, L
        <5>2. CASE i = 1
          BY <5>1, <5>2, <4>5, <3>3
        <5>3. CASE i # 1
          BY <5>1, <5>3, <4>5, <3>4, <3>5
        <5> QED
          BY <5>2, <5>3
      <4> QED
        BY <4>4, <4>5
    <3>9. Places'
      BY <1>e, <3>7 DEF Places
    <3> QED
      BY <1>q, <1>o, <2>2, <3>3, <3>5, <3>6, <3>8, <3>9
  <2> QED
    BY <2>3, <2>4
<1> QED
  BY <1>1, <1>2

(* What sched_enqueue_proc of p does to its home's queue h: p is added, or *)
(* the queue is torn.                                                      *)
Holds(q, p) == \E i \in 1 .. Len(q) : q[i] = p

Enqueued(h, p) ==
  /\ pqueue' \in [Cores -> Seq(Procs)]
  /\ \A d \in Cores : d # h => pqueue'[d] = pqueue[d]
  /\ raced'[h] => pqueue'[h] = <<>>
  /\ \A i \in 1 .. Len(pqueue'[h]) : pqueue'[h][i] = p \/ Holds(pqueue[h], pqueue'[h][i])
  /\ \A i, j \in 1 .. Len(pqueue'[h]) : pqueue'[h][i] = pqueue'[h][j] => i = j
  /\ ~raced'[h] => /\ Holds(pqueue'[h], p)
                   /\ \A r \in Procs : Holds(pqueue[h], r) => Holds(pqueue'[h], r)

LEMMA EnqueuePlaces ==
  ASSUME PlaceInv, NEW h \in Cores, NEW p \in Procs, Placed(p, h),
         raced' \in [Cores -> BOOLEAN], \A d \in Cores : d # h => raced'[d] = raced[d],
         \A i \in 1 .. Len(pqueue[h]) : pqueue[h][i] # p,
         pqueue' = Known(sched_enqueue_proc(pqueue, p, affinity[p]), raced')
  PROVE  Enqueued(h, p)
<1>t. TypeOK /\ Places /\ PlacesAt(h) /\ Home(p) = h /\ ~Pinned(affinity[p])
  BY DEF PlaceInv, Places, Placed
<1> DEFINE q == sched_enqueue_proc(pqueue, p, affinity[p])
           L == Len(pqueue[h])
<1>1. /\ q \in [Cores -> Seq(Procs)]
      /\ \A d \in Cores : d # h => q[d] = pqueue[d]
      /\ L \in Nat /\ Len(q[h]) = L + 1
      /\ \A i \in 1 .. L : q[h][i] = pqueue[h][i]
      /\ q[h][L + 1] = p
  BY <1>t, EnqueueFacts
<1>0. pqueue' = Known(q, raced')
  OBVIOUS
<1> HIDE DEF q, L
<1>2. /\ pqueue' \in [Cores -> Seq(Procs)]
      /\ \A d \in Cores : d # h => pqueue'[d] = pqueue[d]
      /\ pqueue'[h] = IF raced'[h] THEN <<>> ELSE q[h]
  <2>1. \A d \in Cores : d # h => q[d] = pqueue[d] /\ raced'[d] = raced[d]
    BY <1>1
  <2>2. /\ Known(q, raced') \in [Cores -> Seq(Procs)]
        /\ \A d \in Cores : d # h => Known(q, raced')[d] = pqueue[d]
        /\ Known(q, raced')[h] = IF raced'[h] THEN <<>> ELSE q[h]
    BY <1>1, <1>t, <2>1, KnownFacts
  <2> QED
    BY <1>0, <2>2
<1>3. CASE raced'[h]
  BY <1>2, <1>3 DEF Enqueued
<1>4. CASE ~raced'[h]
  <2>1. /\ \A i \in 1 .. L + 1 : i \in 1 .. L \/ i = L + 1
        /\ \A i \in 1 .. L : i \in 1 .. L + 1
        /\ L + 1 \in 1 .. L + 1
    BY <1>1
  <2>2. \A i, j \in 1 .. L : pqueue[h][i] = pqueue[h][j] => i = j
    BY <1>t DEF PlacesAt, L
  <2>3. \A i \in 1 .. L : pqueue[h][i] # p
    BY <1>4 DEF L
  <2>4. pqueue'[h] = q[h]
    BY <1>2, <1>4
  <2>5. \A i, j \in 1 .. L + 1 : q[h][i] = q[h][j] => i = j
    BY <1>1, <2>1, <2>2, <2>3
  <2>6. \A i \in 1 .. L + 1 : q[h][i] = p \/ Holds(pqueue[h], q[h][i])
    BY <1>1, <2>1 DEF Holds, L
  <2>7. Holds(q[h], p) /\ \A r \in Procs : Holds(pqueue[h], r) => Holds(q[h], r)
    BY <1>1, <2>1 DEF Holds, L
  <2> QED
    BY <1>1, <1>2, <1>4, <2>4, <2>5, <2>6, <2>7 DEF Enqueued
<1> QED
  BY <1>3, <1>4

LEMMA NextPlaces == PlaceInv /\ [Next]_vars => PlaceInv'
<1> SUFFICES ASSUME PlaceInv, [Next]_vars PROVE PlaceInv'
  OBVIOUS
<1>t. TypeOK /\ Places /\ NewPlaced /\ NoProcessLost
  BY DEF PlaceInv
<1>l. /\ \A c \in Cores : pqueue[c] \in Seq(Procs) /\ Len(pqueue[c]) \in Nat
                         /\ \A i \in 1 .. Len(pqueue[c]) : pqueue[c][i] \in Procs
      /\ NULL \notin Procs /\ WILD \notin Procs
  BY <1>t, NotProcs DEF TypeOK
<1>1. ASSUME NEW aff \in Affinities, NEW ok \in InitOutcomes, Spawn(aff, ok)
      PROVE  PlaceInv'
  <2>0. PICK p \in Procs : p = next_pid
    BY <1>1, <1>t, ProcsAssumption DEF Spawn, TypeOK, Procs
  <2>1. /\ next_pid' = p + 1 /\ p \in Int /\ new = NULL
        /\ new' = IF Pinned(aff) THEN NULL ELSE p
        /\ affinity' = [affinity EXCEPT ![p] = aff]
        /\ pqueue' = pqueue /\ curproc' = curproc /\ pc' = pc /\ raced' = raced
    BY <1>1, <1>t, <2>0 DEF Spawn, TypeOK
  <2>2. TypeOK'
    <3>1. new' \in Procs \cup {NULL}
      BY <2>1
    <3>2. affinity' \in [Procs -> Int]
      BY <2>1, <1>t, AffinityAssumption DEF TypeOK
    <3>3. next_pid' \in 0 .. MaxProcs
      BY <1>1, <1>t, ProcsAssumption DEF Spawn, TypeOK
    <3>4. tf' \in [Procs -> Contexts]
      <4>1. <<"proc", p>> \in Contexts /\ <<"junk", p>> \in Contexts
        BY <2>1 DEF Contexts
      <4> QED
        BY <1>1, <1>t, <2>0, <4>1 DEF Spawn, TypeOK
    <3> QED
      BY <1>1, <1>t, <3>1, <3>2, <3>3, <3>4 DEF Spawn, TypeOK
  <2>3. \A r \in Procs : r < p => affinity'[r] = affinity[r] /\ r # p
    BY <1>t, <2>1 DEF TypeOK, Procs
  <2>4. \A r \in Procs, c \in Cores : Placed(r, c) => /\ r < next_pid' /\ Home(r) = c /\ r # p
                                                     /\ ~Pinned(affinity'[r])
    BY <1>t, <2>0, <2>1, <2>3 DEF Placed, Procs
  <2>5. affinity'[p] = aff /\ ~(p < p) /\ p < p + 1
    BY <1>t, <2>1 DEF TypeOK
  <2>6. \A c \in Cores : curproc[c] \in Procs => curproc[c] # p
    BY <1>t, <2>4 DEF Places, PlacesAt
  <2>7. \A c \in Cores : \A i \in 1 .. Len(pqueue[c]) : Placed(pqueue[c][i], c) /\ pqueue[c][i] # p
    BY <1>t, <1>l, <2>4 DEF Places, PlacesAt
  <2>8. Places'
    <3> SUFFICES ASSUME NEW c \in Cores PROVE PlacesAt(c)'
      BY DEF Places
    <3>1. \A i \in 1 .. Len(pqueue[c]) : Placed(pqueue[c][i], c)' /\ pqueue[c][i] # new'
      BY <1>l, <2>1, <2>4, <2>7 DEF Placed
    <3>2. curproc[c] \in Procs => Placed(curproc[c], c)'
      BY <1>t, <2>1, <2>4 DEF Places, PlacesAt, Placed
    <3>3. PlacesAt(c)
      BY <1>t DEF Places
    <3> QED
      BY <2>1, <3>1, <3>2, <3>3 DEF PlacesAt
  <2>9. NewPlaced'
    <3> SUFFICES ASSUME ~Pinned(aff) PROVE NewPlaced'
      BY <2>1 DEF NewPlaced
    <3>1. Home(p) \in Cores /\ new' = p
      BY <2>1, HomeType
    <3>2. curproc[Home(p)] # p
      BY <1>t, <2>6, <3>1 DEF TypeOK
    <3> QED
      BY <2>1, <2>5, <3>1, <3>2 DEF NewPlaced, Placed, Home, Pinned
  <2>10. NoProcessLost'
    <3> SUFFICES ASSUME NEW r \in Procs, r < next_pid', ~Pinned(affinity'[r]), r # new', ~raced[Home(r)]
                 PROVE  \/ curproc[Home(r)] = r
                        \/ \E i \in 1 .. Len(pqueue[Home(r)]) : pqueue[Home(r)][i] = r
      BY <2>1 DEF NoProcessLost
    <3>1. r # p
      BY <2>1, <2>5
    <3>2. r < next_pid /\ ~Pinned(affinity[r]) /\ r # new
      BY <1>l, <2>0, <2>1, <2>3, <3>1 DEF Procs
    <3> QED
      BY <1>t, <3>2 DEF NoProcessLost
  <2> QED
    BY <2>2, <2>8, <2>9, <2>10 DEF PlaceInv
<1>2. CASE EnqueueNew
  <2>0. PICK p \in Procs : p = new /\ new # NULL
    BY <1>2, <1>t DEF EnqueueNew, TypeOK
  <2>1. PICK h \in Cores : h = Home(p)
    BY HomeType
  <2>2. /\ pqueue' = Known(sched_enqueue_proc(pqueue, p, affinity[p]), raced')
        /\ new' = NULL /\ raced' = raced
        /\ UNCHANGED <<curproc, regs, tf, affinity, next_pid, pc, armed, service>>
    BY <1>2, <2>0 DEF EnqueueNew
  <2>3. Placed(p, h) /\ (curproc[h] = p => raced[h])
    BY <1>t, <2>0, <2>1 DEF NewPlaced
  <2>4. \A i \in 1 .. Len(pqueue[h]) : pqueue[h][i] # p
    BY <1>t, <2>0 DEF Places, PlacesAt
  <2>5. Enqueued(h, p)
    <3>1. raced' \in [Cores -> BOOLEAN] /\ \A d \in Cores : d # h => raced'[d] = raced[d]
      BY <1>t, <2>2 DEF TypeOK
    <3> QED
      BY <2>2, <2>3, <2>4, <3>1, EnqueuePlaces
  <2>6. TypeOK'
    BY <1>t, <2>2, <2>5 DEF TypeOK, Enqueued
  <2>7. PlacesAt(h)'
    <3>1. PlacesAt(h)
      BY <1>t DEF Places
    <3>2. \A i \in 1 .. Len(pqueue'[h]) : Placed(pqueue'[h][i], h) /\ pqueue'[h][i] \in Procs
      <4>1. \A i \in 1 .. Len(pqueue'[h]) : pqueue'[h][i] \in Procs
        BY <2>5 DEF Enqueued
      <4> SUFFICES ASSUME NEW i \in 1 .. Len(pqueue'[h]) PROVE Placed(pqueue'[h][i], h)
        BY <4>1
      <4>2. pqueue'[h][i] = p \/ \E j \in 1 .. Len(pqueue[h]) : pqueue[h][j] = pqueue'[h][i]
        BY <2>5 DEF Enqueued, Holds
      <4>3. \A j \in 1 .. Len(pqueue[h]) : Placed(pqueue[h][j], h)
        BY <3>1 DEF PlacesAt
      <4> QED
        BY <2>3, <4>2, <4>3
    <3>3. \A i \in 1 .. Len(pqueue'[h]) : Placed(pqueue[h][i], h)' /\ pqueue'[h][i] # new'
      BY <1>l, <2>2, <3>2 DEF Placed
    <3>4. \A i \in 1 .. Len(pqueue'[h]) : pqueue'[h][i] = curproc[h] => pc[h] \in {"save", "next"}
      <4> SUFFICES ASSUME NEW i \in 1 .. Len(pqueue'[h]), pqueue'[h][i] = curproc[h]
                   PROVE  pc[h] \in {"save", "next"}
        OBVIOUS
      <4>1. ~raced[h]
        BY <2>2, <2>5 DEF Enqueued
      <4>2. pqueue'[h][i] = p \/ \E j \in 1 .. Len(pqueue[h]) : pqueue[h][j] = pqueue'[h][i]
        BY <2>5 DEF Enqueued, Holds
      <4> QED
        BY <2>3, <3>1, <4>1, <4>2 DEF PlacesAt
    <3>5. pc[h] \in {"save", "next"} =>
            /\ curproc[h] \in Procs
            /\ raced[h] \/ \E i \in 1 .. Len(pqueue'[h]) : pqueue'[h][i] = curproc[h]
      BY <2>2, <2>5, <3>1 DEF PlacesAt, Enqueued, Holds
    <3>6. curproc[h] \in Procs => Placed(curproc[h], h)
      BY <3>1 DEF PlacesAt
    <3> QED
      BY <2>2, <2>5, <3>3, <3>4, <3>5, <3>6 DEF PlacesAt, Placed, Enqueued
  <2>8. Places'
    <3>1. \A d \in Cores : d # h => PlacesAt(d)'
      BY <1>t, <2>2, <2>5, KeepPlaces DEF Places, Enqueued
    <3> QED
      BY <2>7, <3>1 DEF Places
  <2>9. NewPlaced'
    BY <2>2 DEF NewPlaced
  <2>10. NoProcessLost'
    <3> SUFFICES ASSUME NEW r \in Procs, r < next_pid, ~Pinned(affinity[r]), ~raced[Home(r)]
                 PROVE  \/ curproc[Home(r)] = r
                        \/ \E i \in 1 .. Len(pqueue'[Home(r)]) : pqueue'[Home(r)][i] = r
      BY <2>2 DEF NoProcessLost
    <3>1. Home(r) \in Cores
      BY HomeType
    <3>2. CASE r = p
      BY <2>1, <2>2, <2>5, <3>2 DEF Enqueued, Holds
    <3>3. CASE r # p
      <4>1. \/ curproc[Home(r)] = r
            \/ \E i \in 1 .. Len(pqueue[Home(r)]) : pqueue[Home(r)][i] = r
        BY <1>t, <2>0, <3>3 DEF NoProcessLost
      <4>2. CASE Home(r) = h
        BY <2>2, <2>5, <4>1, <4>2, SMTT(30) DEF Enqueued, Holds
      <4>3. CASE Home(r) # h
        BY <2>5, <3>1, <4>1, <4>3 DEF Enqueued
      <4> QED
        BY <4>2, <4>3
    <3> QED
      BY <3>2, <3>3
  <2> QED
    BY <2>6, <2>8, <2>9, <2>10 DEF PlaceInv
<1>3. ASSUME NEW c \in Cores, Tick(c) PROVE PlaceInv'
  <2>1. TypeOK'
    BY <1>3, <1>t DEF Tick, TypeOK
  <2>2. \A d \in Cores : pc'[d] \in {"save", "next"} <=> pc[d] \in {"save", "next"}
    BY <1>3, <1>t DEF Tick, TypeOK
  <2> QED
    BY <1>3, <2>1, <2>2, KeepAll DEF Tick
<1>4. ASSUME NEW c \in Cores, Adopt(c) PROVE PlaceInv'
  <2>0. curproc[c] \notin Procs
    BY <1>4, <1>l DEF Adopt
  <2>1. PICK n \in Firsts(c) : curproc' = [curproc EXCEPT ![c] = n]
    BY <1>4 DEF Adopt
  <2>2. /\ raced' = Overlap(c) /\ pqueue' = Known(Remaining(c), raced')
        /\ pc' = [pc EXCEPT ![c] = "run"] /\ UNCHANGED <<regs, tf, affinity, next_pid, new>>
        /\ armed' = [armed EXCEPT ![c] = TRUE] /\ service' = [service EXCEPT ![c] = FALSE]
    BY <1>4 DEF Adopt, Resume
  <2>3. /\ Places' /\ NewPlaced' /\ NoProcessLost'
        /\ pqueue' \in [Cores -> Seq(Procs)] /\ raced' \in [Cores -> BOOLEAN]
        /\ n \in Procs \cup {NULL}
    BY <2>0, <2>1, <2>2, DequeuePlaces
  <2>4. TypeOK'
    BY <1>t, <2>1, <2>2, <2>3 DEF TypeOK
  <2> QED
    BY <2>3, <2>4 DEF PlaceInv
<1>5. ASSUME NEW c \in Cores, Requeue(c) PROVE PlaceInv'
  <2>1. CASE curproc[c] = WILD
    <3>1. /\ UNCHANGED <<pqueue, raced, curproc, regs, tf, affinity, next_pid, armed, service, new>>
          /\ pc[c] = "isr" /\ pc' = [pc EXCEPT ![c] = "lost"]
      BY <1>5, <2>1 DEF Requeue
    <3>2. TypeOK' /\ \A d \in Cores : pc'[d] \in {"save", "next"} <=> pc[d] \in {"save", "next"}
      BY <3>1, <1>t DEF TypeOK
    <3> QED
      BY <3>1, <3>2, KeepAll
  <2>2. CASE curproc[c] # WILD
    <3>0. PICK p \in Procs : p = curproc[c]
      BY <1>5, <2>2, <1>t DEF Requeue, TypeOK
    <3>1. PlacesAt(c) /\ Placed(p, c) /\ Home(p) = c /\ ~Pinned(affinity[p])
      BY <1>t, <3>0 DEF Places, PlacesAt, Placed
    <3>2. /\ pqueue' = Known(sched_enqueue_proc(pqueue, p, affinity[p]), raced')
          /\ raced' = Overlap(c)
          /\ pc[c] = "isr" /\ pc' = [pc EXCEPT ![c] = "save"]
          /\ UNCHANGED <<curproc, regs, tf, affinity, next_pid, armed, service, new>>
      BY <1>5, <2>2, <3>0, <3>1 DEF Requeue
    <3>3. /\ raced' \in [Cores -> BOOLEAN] /\ \A d \in Cores : d # c => raced'[d] = raced[d]
          /\ ~raced'[c] => ~raced[c] /\ (new = NULL \/ Home(new) # c)
      BY <1>t, <3>2, OverlapFacts
    <3>4. \A i \in 1 .. Len(pqueue[c]) : pqueue[c][i] # p
      BY <3>0, <3>1, <3>2 DEF PlacesAt
    <3>5. Enqueued(c, p)
      BY <3>1, <3>2, <3>3, <3>4, EnqueuePlaces
    <3>6. TypeOK'
      BY <1>t, <3>2, <3>3, <3>5 DEF TypeOK, Enqueued
    <3>7. pc'[c] = "save" /\ \A d \in Cores : d # c => pc'[d] = pc[d]
      BY <3>2, <1>t DEF TypeOK
    <3>8. PlacesAt(c)'
      <4>1. ~raced'[c] => p # new
        BY <3>1, <3>3, <1>l
      <4>2. \A i \in 1 .. Len(pqueue'[c]) : Placed(pqueue'[c][i], c) /\ pqueue'[c][i] # new
        <5> SUFFICES ASSUME NEW i \in 1 .. Len(pqueue'[c])
                     PROVE  Placed(pqueue'[c][i], c) /\ pqueue'[c][i] # new
          OBVIOUS
        <5>1. ~raced'[c]
          BY <3>5 DEF Enqueued
        <5> QED
          BY <3>1, <3>5, <4>1, <5>1 DEF PlacesAt, Enqueued, Holds
      <4>3. ~raced'[c] => \E i \in 1 .. Len(pqueue'[c]) : pqueue'[c][i] = p
        BY <3>5 DEF Enqueued, Holds
      <4>4. \A i \in 1 .. Len(pqueue'[c]) : Placed(pqueue[c][i], c)' /\ pqueue'[c][i] # new'
        BY <3>2, <4>2 DEF Placed
      <4>5. curproc'[c] = p /\ Placed(p, c)'
        BY <3>0, <3>1, <3>2 DEF Placed
      <4>6. Placed(curproc[c], c)'
        BY <4>5 DEF Placed
      <4>7. /\ raced'[c] => pqueue'[c] = <<>>
            /\ \A i, j \in 1 .. Len(pqueue'[c]) : pqueue'[c][i] = pqueue'[c][j] => i = j
        BY <3>5 DEF Enqueued
      <4> QED
        BY <3>7, <4>3, <4>4, <4>5, <4>6, <4>7 DEF PlacesAt
    <3>9. Places'
      <4>1. \A d \in Cores : d # c => PlacesAt(d)'
        BY <1>t, <3>2, <3>3, <3>5, <3>7, KeepPlaces DEF Places, Enqueued
      <4> QED
        BY <3>8, <4>1 DEF Places
    <3>10. \A d \in Cores : ~raced'[d] => ~raced[d]
      BY <3>3
    <3>11. NewPlaced'
      <4>1. new # NULL => Home(new) \in Cores
        BY <1>t, HomeType DEF TypeOK
      <4> QED
        BY <1>t, <3>2, <3>10, <4>1 DEF NewPlaced, Placed, Home, Pinned
    <3>12. NoProcessLost'
      <4> SUFFICES ASSUME NEW r \in Procs, r < next_pid, ~Pinned(affinity[r]), r # new, ~raced'[Home(r)]
                   PROVE  \/ curproc[Home(r)] = r
                          \/ \E i \in 1 .. Len(pqueue'[Home(r)]) : pqueue'[Home(r)][i] = r
        BY <3>2 DEF NoProcessLost
      <4>1. Home(r) \in Cores
        BY HomeType
      <4>2. \/ curproc[Home(r)] = r
            \/ \E i \in 1 .. Len(pqueue[Home(r)]) : pqueue[Home(r)][i] = r
        BY <1>t, <3>10, <4>1 DEF NoProcessLost
      <4>3. CASE Home(r) = c
        BY <3>5, <4>2, <4>3 DEF Enqueued, Holds
      <4>4. CASE Home(r) # c
        BY <3>5, <4>1, <4>2, <4>4 DEF Enqueued
      <4> QED
        BY <4>3, <4>4
    <3> QED
      BY <3>6, <3>9, <3>11, <3>12 DEF PlaceInv
  <2> QED
    BY <2>1, <2>2
<1>6. ASSUME NEW c \in Cores, Save(c) PROVE PlaceInv'
  <2>1. /\ UNCHANGED <<pqueue, curproc, regs, affinity, next_pid, armed, service, new, raced>>
        /\ pc[c] = "save" /\ pc' = [pc EXCEPT ![c] = "next"]
        /\ tf' = [tf EXCEPT ![curproc[c]] = regs[c]]
    BY <1>6 DEF Save
  <2>2. TypeOK'
    BY <2>1, <1>t DEF TypeOK
  <2>3. \A d \in Cores : pc'[d] \in {"save", "next"} <=> pc[d] \in {"save", "next"}
    BY <2>1, <1>t DEF TypeOK
  <2> QED
    BY <2>1, <2>2, <2>3, KeepAll
<1>7. ASSUME NEW c \in Cores, Switch(c) PROVE PlaceInv'
  <2>0. pc[c] = "next"
    BY <1>7 DEF Switch
  <2>1. PICK n \in Firsts(c), l \in {"run", "parked"} :
          /\ pc' = [pc EXCEPT ![c] = l]
          /\ \/ n = NULL /\ curproc' = curproc /\ regs' = regs /\ service' = service
             \/ n # NULL /\ curproc' = [curproc EXCEPT ![c] = n] /\ regs' = [regs EXCEPT ![c] = tf[n]]
                /\ service' = [service EXCEPT ![c] = FALSE]
          /\ armed' = [armed EXCEPT ![c] = TRUE]
    BY <1>7 DEF Switch, Resume
  <2>2. /\ raced' = Overlap(c) /\ pqueue' = Known(Remaining(c), raced')
        /\ UNCHANGED <<tf, affinity, next_pid, new>>
    BY <1>7 DEF Switch
  <2>3. /\ Places' /\ NewPlaced' /\ NoProcessLost'
        /\ pqueue' \in [Cores -> Seq(Procs)] /\ raced' \in [Cores -> BOOLEAN]
        /\ n \in Procs \cup {NULL}
    BY <2>0, <2>1, <2>2, DequeuePlaces
  <2>4. TypeOK'
    <3>1. regs' \in [Cores -> Contexts]
      <4>1. n # NULL => tf[n] \in Contexts
        BY <1>t, <2>3 DEF TypeOK
      <4> QED
        BY <1>t, <2>1, <4>1 DEF TypeOK
    <3>2. curproc' \in [Cores -> Procs \cup {NULL, WILD}] /\ service' \in [Cores -> BOOLEAN]
      BY <1>t, <2>1, <2>3 DEF TypeOK
    <3>3. pc' \in [Cores -> {"run", "isr", "save", "next", "parked", "lost"}] /\ armed' \in [Cores -> BOOLEAN]
      BY <1>t, <2>1 DEF TypeOK
    <3> QED
      BY <1>t, <2>2, <2>3, <3>1, <3>2, <3>3 DEF TypeOK
  <2> QED
    BY <2>3, <2>4 DEF PlaceInv
<1>8. CASE UNCHANGED vars
  <2>1. TypeOK'
    BY <1>8, <1>t DEF vars, TypeOK
  <2> QED
    BY <2>1, <1>8, KeepAll DEF vars
<1> QED
  BY <1>1, <1>2, <1>3, <1>4, <1>5, <1>6, <1>7, <1>8 DEF Next, Step
-----------------------------------------------------------------------------
(* Contexts.                                                               *)

(* A context is local to one processor.                                    *)
LEMMA LocalUnique ==
  ASSUME NEW x, NEW c, NEW d, Local(x, c), Local(x, d) PROVE c = d
BY DEF Local

(* The frame of a process that is about to be created is nowhere yet.      *)
LEMMA LocalOld ==
  ASSUME NEW x, NEW c, Local(x, c), next_pid \in Int
  PROVE  x # <<"proc", next_pid>> /\ x # <<"junk", next_pid>>
BY ProcsAssumption DEF Local, Procs

LEMMA InitFrames == Init => Frames
BY ProcsAssumption DEF Init, Frames, Local, Procs

LEMMA NextFrames == Inv /\ [Next]_vars => Frames'
<1> SUFFICES ASSUME Inv, [Next]_vars PROVE Frames'
  OBVIOUS
<1>t. TypeOK /\ Places /\ Frames
  BY DEF Inv, PlaceInv
<1>h. \A p \in Procs : Home(p) \in Cores
  BY HomeType
<1>c. \A c \in Cores : curproc[c] \in Procs => curproc[c] < next_pid /\ Home(curproc[c]) = c
  BY <1>t DEF Places, PlacesAt, Placed
<1>1. ASSUME NEW aff \in Affinities, NEW ok \in InitOutcomes, Spawn(aff, ok)
      PROVE  Frames'
  <2>0. PICK p \in Procs : p = next_pid
    BY <1>1, <1>t, ProcsAssumption DEF Spawn, TypeOK, Procs
  <2>1. /\ next_pid' = p + 1 /\ p \in Int
        /\ curproc' = curproc /\ pc' = pc /\ regs' = regs
        /\ tf' = [tf EXCEPT ![p] = IF ok THEN <<"proc", p>> ELSE <<"junk", p>>]
    BY <1>1, <1>t, <2>0 DEF Spawn, TypeOK
  <2>2. /\ tf'[p] = <<"proc", p>> \/ tf'[p] = <<"junk", p>>
        /\ \A q \in Procs : q # p => tf'[q] = tf[q]
    BY <1>t, <2>1 DEF TypeOK
  <2>3. \A x, c : Local(x, c) => Local(x, c)'
    BY <2>0, <2>1 DEF Local, Procs
  <2>4. \A x, c : Local(x, c) => x # tf'[p]
    BY <2>0, <2>1, <2>2, LocalOld
  <2>6. \A q \in Procs : q < next_pid' <=> q < next_pid \/ q = p
    BY <2>0, <2>1 DEF Procs
  <2>7. \A c \in Cores : Local(regs[c], c)
    BY <1>t DEF Frames
  <2>8. \A q \in Procs : q < next_pid => q # p /\ Local(tf[q], Home(q)) /\ tf'[q] = tf[q]
    BY <1>t, <2>0, <2>1, <2>2 DEF Frames
  <2>9. \A q \in Procs : q < next_pid' => Local(tf[q], Home(q))'
    <3> SUFFICES ASSUME NEW q \in Procs, q < next_pid' PROVE Local(tf[q], Home(q))'
      OBVIOUS
    <3>1. CASE q = p
      <4>1. p < next_pid'
        BY <2>1
      <4> QED
        BY <2>2, <3>1, <4>1 DEF Local
    <3>2. CASE q # p
      BY <2>3, <2>6, <2>8, <3>2
    <3> QED
      BY <3>1, <3>2
  <2>10. \A c \in Cores : Local(regs[c], c)'
    BY <2>1, <2>3, <2>7
  <2>11. \A q, r \in Procs :
           /\ q < next_pid' /\ r < next_pid' /\ q # r /\ Home(q) = Home(r)
           /\ curproc'[Home(q)] # q /\ curproc'[Home(q)] # r
           => tf'[q] # tf'[r]
    BY <1>t, <2>1, <2>4, <2>6, <2>8 DEF Frames
  <2>12. \A q \in Procs :
           q < next_pid' /\ curproc'[Home(q)] # q => tf'[q] # regs'[Home(q)]
    BY <1>t, <1>h, <2>1, <2>4, <2>6, <2>7, <2>8 DEF Frames
  <2>13. \A c \in Cores : pc'[c] = "next" => tf'[curproc'[c]] = regs'[c]
    <3>1. \A c \in Cores : pc[c] = "next" => curproc[c] \in Procs /\ curproc[c] < next_pid
      BY <1>t, <1>c DEF Places, PlacesAt
    <3> QED
      BY <1>t, <2>1, <2>8, <3>1 DEF Frames
  <2> QED
    BY <2>9, <2>10, <2>11, <2>12, <2>13 DEF Frames
<1>2. ASSUME NEW c \in Cores, UNCHANGED <<regs, tf, next_pid>>,
             curproc' = curproc \/ \E n \in Procs : curproc' = [curproc EXCEPT ![c] = n],
             curproc' = curproc \/ curproc[c] \notin Procs,
             NEW l \in {"run", "isr", "save", "lost", "parked"}, pc' = [pc EXCEPT ![c] = l]
      PROVE  Frames'
  <2>1. \A x, d : Local(x, d)' <=> Local(x, d)
    BY <1>2 DEF Local
  <2>2. \A d \in Cores : pc'[d] = "next" => d # c /\ pc[d] = "next"
    BY <1>2, <1>t DEF TypeOK
  <2>3. \A d \in Cores : d # c => curproc'[d] = curproc[d]
    BY <1>2, <1>t DEF TypeOK
  <2>4. \A p \in Procs : curproc'[Home(p)] # p => curproc[Home(p)] # p
    BY <1>2, <1>h, <1>t DEF TypeOK
  <2>5. /\ \A d \in Cores : Local(regs[d], d)'
        /\ \A p \in Procs : p < next_pid' => Local(tf[p], Home(p))'
    BY <1>2, <1>t, <2>1 DEF Frames
  <2>6. \A p, r \in Procs :
          /\ p < next_pid' /\ r < next_pid' /\ p # r /\ Home(p) = Home(r)
          /\ curproc'[Home(p)] # p /\ curproc'[Home(p)] # r
          => tf'[p] # tf'[r]
    BY <1>2, <1>t, <2>4 DEF Frames
  <2>7. \A p \in Procs :
          p < next_pid' /\ curproc'[Home(p)] # p => tf'[p] # regs'[Home(p)]
    BY <1>2, <1>t, <2>4 DEF Frames
  <2>8. \A d \in Cores : pc'[d] = "next" => tf'[curproc'[d]] = regs'[d]
    BY <1>2, <1>t, <2>2, <2>3 DEF Frames
  <2> QED
    BY <2>5, <2>6, <2>7, <2>8 DEF Frames
<1>3. ASSUME NEW c \in Cores, Tick(c) PROVE Frames'
  BY <1>2, <1>3 DEF Tick
<1>n. ASSUME NEW c \in Cores, NEW n \in Firsts(c), n # NULL PROVE n \in Procs /\ Home(n) = c /\ n < next_pid
  <2>1. CASE Overlap(c)[c]
    BY <1>n, <2>1 DEF Firsts, Residents
  <2>2. CASE ~Overlap(c)[c]
    <3>1. n = Head(pqueue[c]) /\ pqueue[c] # <<>> /\ pqueue[c] \in Seq(Procs)
      BY <1>n, <1>t, <2>2 DEF Firsts, TypeOK
    <3>2. n \in Procs /\ n = pqueue[c][1] /\ 1 \in 1 .. Len(pqueue[c])
      BY <3>1, TailFacts
    <3> QED
      BY <1>t, <3>2 DEF Places, PlacesAt, Placed
  <2> QED
    BY <2>1, <2>2
<1>4. ASSUME NEW c \in Cores, Adopt(c) PROVE Frames'
  <2>1. curproc[c] = NULL /\ NULL \notin Procs /\ UNCHANGED <<regs, tf, next_pid>> /\ pc' = [pc EXCEPT ![c] = "run"]
    BY <1>4 DEF Adopt, Resume, NULL, Procs
  <2>2. PICK n \in Firsts(c) : curproc' = [curproc EXCEPT ![c] = n]
    BY <1>4 DEF Adopt
  <2>3. n = NULL => curproc' = curproc
    BY <1>t, <2>1, <2>2 DEF TypeOK
  <2>4. curproc' = curproc \/ \E m \in Procs : curproc' = [curproc EXCEPT ![c] = m]
    BY <1>n, <2>2, <2>3
  <2> QED
    BY <1>2, <2>1, <2>4
<1>e. CASE EnqueueNew
  <2>1. UNCHANGED <<regs, tf, next_pid, curproc, pc>>
    BY <1>e DEF EnqueueNew
  <2>2. \A x, d : Local(x, d)' <=> Local(x, d)
    BY <2>1 DEF Local
  <2> QED
    BY <2>1, <2>2, <1>t DEF Frames
<1>5. ASSUME NEW c \in Cores, Requeue(c) PROVE Frames'
  BY <1>2, <1>5 DEF Requeue
<1>6. ASSUME NEW c \in Cores, Save(c) PROVE Frames'
  <2>0. PICK o \in Procs : o = curproc[c] /\ Home(o) = c /\ o < next_pid
    BY <1>6, <1>t, <1>c DEF Save, Places, PlacesAt
  <2>1. /\ UNCHANGED <<regs, curproc, next_pid>> /\ pc' = [pc EXCEPT ![c] = "next"]
        /\ tf' = [tf EXCEPT ![o] = regs[c]]
    BY <1>6, <2>0 DEF Save
  <2>2. tf'[o] = regs[c] /\ \A p \in Procs : p # o => tf'[p] = tf[p]
    BY <1>t, <2>1 DEF TypeOK
  <2>3. \A x, d : Local(x, d)' <=> Local(x, d)
    BY <2>1 DEF Local
  <2>4. \A d \in Cores : Local(regs[d], d)'
    BY <1>t, <2>1, <2>3 DEF Frames
  <2>5. \A p \in Procs : p < next_pid' => Local(tf[p], Home(p))'
    <3>1. \A p \in Procs : p < next_pid => Local(tf'[p], Home(p))
      BY <1>t, <2>0, <2>2 DEF Frames
    <3> QED
      BY <2>1, <3>1 DEF Local
  <2>6. \A p, r \in Procs :
          /\ p < next_pid' /\ r < next_pid' /\ p # r /\ Home(p) = Home(r)
          /\ curproc'[Home(p)] # p /\ curproc'[Home(p)] # r
          => tf'[p] # tf'[r]
    BY <1>t, <2>0, <2>1, <2>2 DEF Frames
  <2>7. \A p \in Procs :
          p < next_pid' /\ curproc'[Home(p)] # p => tf'[p] # regs'[Home(p)]
    BY <1>t, <2>0, <2>1, <2>2 DEF Frames
  <2>8. \A d \in Cores : pc'[d] = "next" => tf'[curproc'[d]] = regs'[d]
    <3>1. \A d \in Cores : d # c /\ pc'[d] = "next" => pc[d] = "next" /\ curproc[d] \in Procs
      BY <1>t, <2>1 DEF TypeOK, Places, PlacesAt
    <3>2. \A d \in Cores : d # c /\ curproc[d] \in Procs => curproc[d] # o
      BY <1>c, <2>0
    <3> QED
      BY <1>t, <2>0, <2>1, <2>2, <3>1, <3>2 DEF Frames
  <2> QED
    BY <2>4, <2>5, <2>6, <2>7, <2>8 DEF Frames
<1>7. ASSUME NEW c \in Cores, Switch(c) PROVE Frames'
  <2>0. PICK o \in Procs : o = curproc[c] /\ Home(o) = c /\ o < next_pid
    BY <1>7, <1>t, <1>c DEF Switch, Places, PlacesAt
  <2>1. pc[c] = "next"
    BY <1>7 DEF Switch
  <2>2. CASE pc' = [pc EXCEPT ![c] = "parked"] /\ UNCHANGED <<curproc, regs>>
    BY <1>2, <1>7, <2>2 DEF Switch
  <2>3. SUFFICES ASSUME NEW n \in Procs, Home(n) = c, n < next_pid, UNCHANGED <<tf, next_pid>>,
                        pc' = [pc EXCEPT ![c] = "run"],
                        regs' = [regs EXCEPT ![c] = tf[n]], curproc' = [curproc EXCEPT ![c] = n]
                 PROVE  Frames'
    <3>1. PICK n \in Firsts(c) :
            \/ n = NULL /\ pc' = [pc EXCEPT ![c] = "parked"] /\ UNCHANGED <<curproc, regs>>
            \/ /\ n # NULL /\ pc' = [pc EXCEPT ![c] = "run"]
               /\ regs' = [regs EXCEPT ![c] = tf[n]] /\ curproc' = [curproc EXCEPT ![c] = n]
      BY <1>7 DEF Switch, Resume
    <3>2. UNCHANGED <<tf, next_pid>>
      BY <1>7 DEF Switch
    <3> QED
      BY <1>n, <2>2, <2>3, <3>1, <3>2
  <2>4. /\ UNCHANGED <<tf, next_pid>> /\ pc' = [pc EXCEPT ![c] = "run"]
        /\ regs' = [regs EXCEPT ![c] = tf[n]] /\ curproc' = [curproc EXCEPT ![c] = n]
    BY <2>3
  <2>5. /\ regs'[c] = tf[n] /\ curproc'[c] = n /\ pc'[c] = "run"
        /\ \A d \in Cores : d # c => /\ regs'[d] = regs[d] /\ curproc'[d] = curproc[d]
                                     /\ pc'[d] = pc[d]
    BY <1>t, <2>4 DEF TypeOK
  <2>6. \A x, d : Local(x, d)' <=> Local(x, d)
    BY <2>4 DEF Local
  <2>7. \A d \in Cores : Local(regs[d], d)'
    <3>1. \A d \in Cores : Local(regs'[d], d)
      BY <1>t, <2>3, <2>5 DEF Frames
    <3> QED
      BY <2>4, <3>1 DEF Local
  <2>8. \A p \in Procs : p < next_pid' => Local(tf[p], Home(p))'
    BY <1>t, <2>4, <2>6 DEF Frames
  <2>9. tf[o] = regs[c]
    BY <1>t, <2>0, <2>1 DEF Frames
  <2>10. \A p \in Procs : p < next_pid /\ p # o /\ Home(p) = c => tf[p] # regs[c]
    BY <1>t, <2>0 DEF Frames
  <2>11. \A p, r \in Procs :
           p < next_pid /\ r < next_pid /\ p # r /\ Home(p) = c /\ Home(r) = c => tf[p] # tf[r]
    BY <1>t, <2>0, <2>9, <2>10 DEF Frames
  <2>12. \A p, r \in Procs :
           /\ p < next_pid' /\ r < next_pid' /\ p # r /\ Home(p) = Home(r)
           /\ curproc'[Home(p)] # p /\ curproc'[Home(p)] # r
           => tf'[p] # tf'[r]
    BY <1>t, <1>h, <2>4, <2>5, <2>11 DEF Frames
  <2>13. \A p \in Procs :
           p < next_pid' /\ curproc'[Home(p)] # p => tf'[p] # regs'[Home(p)]
    BY <1>t, <1>h, <2>3, <2>4, <2>5, <2>11 DEF Frames
  <2>14. \A d \in Cores : pc'[d] = "next" => tf'[curproc'[d]] = regs'[d]
    BY <1>t, <2>4, <2>5 DEF Frames
  <2> QED
    BY <2>7, <2>8, <2>12, <2>13, <2>14 DEF Frames
<1>8. CASE UNCHANGED vars
  <2>1. \A x, d : Local(x, d)' <=> Local(x, d)
    BY <1>8 DEF Local, vars
  <2> QED
    BY <2>1, <1>8, <1>t DEF vars, Frames
<1> QED
  BY <1>1, <1>e, <1>3, <1>4, <1>5, <1>6, <1>7, <1>8 DEF Next, Step

LEMMA Invariance == Spec => []Inv
<1>1. Init => Inv
  BY InitPlaces, InitFrames DEF Inv
<1>2. Inv /\ [Next]_vars => Inv'
  BY NextPlaces, NextFrames DEF Inv
<1> QED
  BY <1>1, <1>2, PTL DEF Spec
-----------------------------------------------------------------------------
(* Every queue and every current process holds processes, and every frame  *)
(* a context.                                                              *)
THEOREM TypeCorrect == Spec => []TypeOK
<1>1. Inv => TypeOK
  BY DEF Inv, PlaceInv
<1> QED
  BY Invariance, <1>1, PTL

(* sched_enqueue_proc and sched_dequeue_proc, called by handlers of any    *)
(* number of processors, keep a process in one place.                      *)
THEOREM InOnePlace == Spec => []OnePlace
<1>1. Inv => OnePlace
  <2> SUFFICES ASSUME Inv PROVE OnePlace
    OBVIOUS
  <2>1. TypeOK /\ Places
    BY DEF Inv, PlaceInv
  <2>2. \A q \in Queued : /\ q[1] \in Cores /\ q[2] \in 1 .. Len(pqueue[q[1]])
                          /\ q = <<q[1], q[2]>> /\ At(q) \in Procs /\ Home(At(q)) = q[1]
    <3> SUFFICES ASSUME NEW q \in Queued
                 PROVE  /\ q[1] \in Cores /\ q[2] \in 1 .. Len(pqueue[q[1]])
                        /\ q = <<q[1], q[2]>> /\ At(q) \in Procs /\ Home(At(q)) = q[1]
      OBVIOUS
    <3>1. q[1] \in Cores /\ q[2] \in 1 .. MaxProcs /\ q = <<q[1], q[2]>> /\ q[2] <= Len(pqueue[q[1]])
      BY DEF Queued
    <3>2. pqueue[q[1]] \in Seq(Procs)
      BY <2>1, <3>1 DEF TypeOK
    <3>3. q[2] \in 1 .. Len(pqueue[q[1]])
      BY <3>1, <3>2, ProcsAssumption
    <3> QED
      BY <2>1, <3>1, <3>2, <3>3 DEF Places, PlacesAt, Placed, At
  <2>3. \A c \in Cores : curproc[c] \in Procs => Home(curproc[c]) = c
    BY <2>1 DEF Places, PlacesAt, Placed
  <2>4. ASSUME NEW q \in Queued, NEW r \in Queued, At(q) = At(r) PROVE q = r
    <3>1. q[1] = r[1]
      BY <2>2, <2>4
    <3>2. q[2] = r[2]
      BY <2>1, <2>2, <2>4, <3>1 DEF Places, PlacesAt, At
    <3> QED
      BY <2>2, <3>1, <3>2
  <2>5. ASSUME NEW q \in Queued, NEW c \in Cores, At(q) = curproc[c]
        PROVE  pc[c] \in {"save", "next"} /\ q[1] = c
    <3>1. q[1] = c
      BY <2>2, <2>3, <2>5
    <3> QED
      BY <2>1, <2>2, <2>5, <3>1 DEF Places, PlacesAt, At
  <2> QED
    BY <2>3, <2>4, <2>5 DEF OnePlace
<1> QED
  BY Invariance, <1>1, PTL

(* mu_process_switch: although a process is on the queue before its frame  *)
(* is saved, and although nothing locks the queue, no computation is ever  *)
(* in two places.                                                          *)
THEOREM ContextsApart == Spec => []OneContext
<1>1. Inv => OneContext
  <2> SUFFICES ASSUME Inv PROVE OneContext
    OBVIOUS
  <2>1. TypeOK /\ Places /\ Frames
    BY DEF Inv, PlaceInv
  <2>2. \A c, d \in Cores : regs[c] = regs[d] => c = d
    BY <2>1, LocalUnique DEF Frames
  <2>3. ASSUME NEW p \in Procs, NEW c \in Cores, p < next_pid, p # curproc[c]
        PROVE  tf[p] # regs[c]
    <3>1. Local(tf[p], Home(p)) /\ Local(regs[c], c)
      BY <2>1, <2>3 DEF Frames
    <3>2. CASE Home(p) = c
      BY <2>1, <2>3, <3>2 DEF Frames
    <3>3. CASE Home(p) # c
      BY <3>1, <3>3, LocalUnique
    <3> QED
      BY <3>2, <3>3
  <2> QED
    BY <2>2, <2>3 DEF OneContext
<1> QED
  BY Invariance, <1>1, PTL

(* sched_enqueue_proc drops only processes with an affinity: every other   *)
(* one is queued or current on its home processor, until the first time a  *)
(* handler works on a queue while the boot processor inserts into it.      *)
THEOREM NoneLost == Spec => []NoProcessLost
<1>1. Inv => NoProcessLost
  BY DEF Inv, PlaceInv
<1> QED
  BY Invariance, <1>1, PTL

-----------------------------------------------------------------------------
(* The run queue at the level of its pointers (TailQueue), for any number  *)
(* of processes.  First what holds while no call has overlapped another.   *)

(* The object that holds the pointer to the element after the first i.     *)
Holder(s, i) == IF i = 0 THEN Head0 ELSE s[i]

(* The links of the elements of s, both ways; and the end of the list.     *)
Chained(s) == \A i \in 1 .. Len(s) : next[Holder(s, i - 1)] = s[i] /\ prev[s[i]] = Holder(s, i - 1)

Ended(s) == next[Holder(s, Len(s))] = Null /\ last = Holder(s, Len(s))

Linked(s) == Chained(s) /\ Ended(s)

Inserts == {"ins1", "ins2", "ins3", "ins4", "ins5", "ins6"}
Removes == {"rem1", "rem2", "rem3", "rem4"}

(* Who is in the queue: each process once, the current one only while its  *)
(* processor is choosing the next, an element being inserted not yet.      *)
QueueMembers ==
  /\ \A i \in 1 .. Len(fifo) : fifo[i] \in created
  /\ \A i, j \in 1 .. Len(fifo) : fifo[i] = fifo[j] => i = j
  /\ current \in created \cup {Null}
  /\ at["core"] \in {"idle"} \cup Inserts => \A i \in 1 .. Len(fifo) : fifo[i] # current
  /\ at["core"] \in Inserts => elm["core"] = current
  /\ at["boot"] \in {"idle"} \cup Inserts
  /\ at["boot"] \in Inserts => elm["boot"] # current
  /\ at["core"] = "idle" \/ at["boot"] = "idle"
  /\ at["core"] = "first" /\ current # Null => Len(fifo) > 0
  /\ at["core"] # "parked"

(* The pointers during an insertion by x.                                  *)
Inserting(x) ==
  /\ at[x] \in Inserts => /\ elm[x] \in created
                          /\ \A i \in 1 .. Len(fifo) : fifo[i] # elm[x]
  /\ at[x] \in {"ins1", "ins2", "ins3"} => Linked(fifo)
  /\ at[x] \in {"ins2", "ins3", "ins4"} => next[elm[x]] = Null
  /\ at[x] = "ins3" => prev[elm[x]] = last
  /\ at[x] = "ins4" => Chained(Append(fifo, elm[x]))
  /\ at[x] \in {"ins5", "ins6"} => Linked(Append(fifo, elm[x]))
  /\ at[x] = "ins6" => tmp[x] = nelem

Rest == SubSeq(fifo, 2, Len(fifo))

(* The pointers during a removal.  After its first store the element is    *)
(* bypassed backwards and not yet forwards.                                *)
Removing ==
  /\ at["core"] \in {"first", "rem1"} => Linked(fifo)
  /\ at["core"] \in Removes => Len(fifo) > 0 /\ elm["core"] = fifo[1]
  /\ at["core"] = "rem2" =>
       /\ prev[fifo[1]] = Head0
       /\ \A i \in 1 .. Len(fifo) :
            next[fifo[i]] = IF i = Len(fifo) THEN Null ELSE fifo[i + 1]
       /\ \A i \in 2 .. Len(fifo) : prev[fifo[i]] = IF i = 2 THEN Head0 ELSE fifo[i - 1]
       /\ last = IF Len(fifo) = 1 THEN Head0 ELSE fifo[Len(fifo)]
  /\ at["core"] \in {"rem3", "rem4"} => Linked(Rest)
  /\ at["core"] = "rem4" => tmp["core"] = nelem

QueueInv ==
  /\ QueueTypeOK
  /\ nelem = Len(fifo)
  /\ QueueMembers
  /\ \A x \in Actors : Inserting(x)
  /\ Removing
  /\ Quiet => Linked(fifo)

(* Without an overlap nobody is parked: calm is everybody idle.            *)
LEMMA QuietIdle ==
  ASSUME QueueMembers PROVE Quiet <=> at["core"] = "idle" /\ at["boot"] = "idle"
BY DEF QueueMembers, Quiet, Resting, Actors, Inserts

LEMMA RestFacts ==
  ASSUME NEW s \in Seq(Elems), Len(s) > 0
  PROVE  /\ Len(s) \in Nat
         /\ SubSeq(s, 2, Len(s)) \in Seq(Elems) /\ Len(SubSeq(s, 2, Len(s))) = Len(s) - 1
         /\ \A i \in 1 .. Len(s) - 1 : SubSeq(s, 2, Len(s))[i] = s[i + 1]
<1>1. Len(s) \in Nat /\ \A i \in 2 .. Len(s) : s[i] \in Elems
  OBVIOUS
<1>2. /\ SubSeq(s, 2, Len(s)) \in Seq(Elems)
      /\ Len(SubSeq(s, 2, Len(s))) = IF 2 <= Len(s) THEN Len(s) - 2 + 1 ELSE 0
      /\ \A i \in 1 .. Len(s) - 2 + 1 : SubSeq(s, 2, Len(s))[i] = s[2 + i - 1]
  BY <1>1, SubSeqProperties
<1>3. \A i \in 1 .. Len(s) - 1 : i \in 1 .. Len(s) - 2 + 1 /\ 2 + i - 1 = i + 1
  BY <1>1
<1>4. Len(SubSeq(s, 2, Len(s))) = Len(s) - 1
  <2>1. \A n \in Nat : n > 0 => (IF 2 <= n THEN n - 2 + 1 ELSE 0) = n - 1
    OBVIOUS
  <2> QED
    BY <1>1, <1>2, <2>1
<1> QED
  BY <1>1, <1>2, <1>3, <1>4

LEMMA MemberType == ASSUME NEW s \in Seq(Elems), NEW i \in 1 .. Len(s) PROVE s[i] \in Elems
OBVIOUS

LEMMA InitQueue == QueueInit => QueueInv
<1> SUFFICES ASSUME QueueInit PROVE QueueInv
  OBVIOUS
<1>1. fifo = <<>> /\ Len(fifo) = 0 /\ fifo \in Seq(Elems)
  BY DEF QueueInit
<1>2. QueueTypeOK
  <2>1. next \in [Objects -> Elems \cup {Null}] /\ prev \in [Elems -> Objects]
    BY DEF QueueInit
  <2>2. /\ last \in Objects /\ nelem \in Int /\ tmp \in [Actors -> Int]
        /\ elm \in [Actors -> Elems \cup {Null}] /\ current \in Elems \cup {Null}
        /\ created \subseteq Elems /\ at \in [Actors -> QueueLocations]
    BY DEF QueueInit, Objects, QueueLocations
  <2>3. overlapped \in BOOLEAN
    BY DEF QueueInit
  <2> QED
    BY <1>1, <2>1, <2>2, <2>3 DEF QueueTypeOK
<1>3. at["core"] = "idle" /\ at["boot"] = "idle" /\ \A x \in Actors : at[x] = "idle"
  BY DEF QueueInit, Actors
<1>4. Linked(fifo)
  BY <1>1 DEF QueueInit, Linked, Chained, Ended, Holder, Objects
<1>5. QueueMembers
  BY <1>1, <1>3 DEF QueueInit, QueueMembers, Inserts
<1>6. \A x \in Actors : Inserting(x)
  BY <1>3 DEF Inserting, Inserts
<1>7. Removing
  BY <1>3 DEF Removing, Removes
<1> QED
  BY <1>1, <1>2, <1>4, <1>5, <1>6, <1>7 DEF QueueInv, QueueInit

(* What holds while x runs: the other actor is idle, and the element being *)
(* inserted is neither the head nor in the queue.                          *)
LEMMA ActorFacts ==
  ASSUME QueueInv, NEW x \in Actors, at[x] # "idle"
  PROVE  /\ \A y \in Actors : y # x => at[y] = "idle"
         /\ at[x] \in Inserts => /\ elm[x] \in Elems /\ elm[x] # Head0 /\ elm[x] # Null
                                 /\ \A i \in 0 .. Len(fifo) : Holder(fifo, i) # elm[x]
         /\ \A i \in 0 .. Len(fifo) : Holder(fifo, i) \in Objects
         /\ fifo \in Seq(Elems) /\ Len(fifo) \in Nat /\ ~Quiet /\ x \in {"core", "boot"}
<1>1. fifo \in Seq(Elems) /\ Len(fifo) \in Nat /\ created \subseteq Elems /\ x \in {"core", "boot"}
  BY DEF QueueInv, QueueTypeOK, Actors
<1>2. \A i \in 1 .. Len(fifo) : fifo[i] \in Elems
  BY <1>1, MemberType
<1>3. ASSUME at[x] \in Inserts
      PROVE  elm[x] \in Elems /\ \A i \in 1 .. Len(fifo) : fifo[i] # elm[x]
  BY <1>1, <1>3 DEF QueueInv, Inserting
<1> QED
  BY <1>1, <1>2, <1>3, DistinctAssumption DEF QueueInv, QueueMembers, Actors, Holder, Objects, Quiet, Resting, Inserts

LEMMA NextQueue == ~overlapped' /\ QueueInv /\ [QueueNext]_queueVars => QueueInv'
<1> SUFFICES ASSUME ~overlapped', QueueInv, [QueueNext]_queueVars PROVE QueueInv'
  OBVIOUS
<1> USE DEF GoTo
<1>t. QueueTypeOK /\ Actors = {"core", "boot"} /\ fifo \in Seq(Elems) /\ Len(fifo) \in Nat
  BY DEF QueueInv, QueueTypeOK, Actors
<1>o. overlapped' \in BOOLEAN
  BY <1>t DEF QueueNext, queueVars, Interrupt, Create, Begin, Ins1, Ins2, Ins3, Ins4, LoadNelem,
              Ins6, First, Rem1, Rem2, Rem4, QueueTypeOK
<1>1. CASE Interrupt
  <2>1. at["core"] = "idle" /\ at["boot"] = "idle" /\ Linked(fifo)
    BY <1>1, <1>t, QuietIdle DEF Interrupt, Begin, QueueInv, Quiet, Resting, QueueMembers
  <2>2. QueueTypeOK'
    BY <1>1, <1>t DEF Interrupt, Begin, QueueTypeOK, QueueLocations
  <2>3. at' = [at EXCEPT !["core"] = IF current = Null THEN "first" ELSE "ins1"]
        /\ at'["core"] = (IF current = Null THEN "first" ELSE "ins1") /\ at'["boot"] = "idle"
        /\ elm'["core"] = current
    BY <1>1, <1>t, <2>1 DEF Interrupt, QueueTypeOK
  <2>4. Linked(fifo)'
    BY <1>1, <2>1 DEF Interrupt, Linked, Chained, Ended, Holder
  <2>5. QueueMembers'
    BY <1>1, <2>1, <2>3 DEF Interrupt, QueueMembers, QueueInv, Inserts
  <2>6. current # Null => current \in created /\ \A i \in 1 .. Len(fifo) : fifo[i] # current
    BY <2>1 DEF QueueInv, QueueMembers, Inserts
  <2>7. \A y \in Actors : Inserting(y)'
    BY <1>1, <1>t, <2>3, <2>4, <2>6 DEF Interrupt, Inserting, Inserts
  <2>8. Removing'
    BY <1>1, <2>3, <2>4 DEF Interrupt, Removing, Removes
  <2>9. ~Quiet'
    BY <1>t, <2>3 DEF Quiet, Resting
  <2> QED
    BY <1>1, <2>2, <2>5, <2>7, <2>8, <2>9 DEF QueueInv, Interrupt
<1>2. ASSUME NEW e \in Elems, Create(e) PROVE QueueInv'
  <2>1. at["core"] = "idle" /\ at["boot"] = "idle" /\ Linked(fifo)
    BY <1>2, <1>t, QuietIdle DEF Create, Begin, QueueInv, Quiet, Resting, QueueMembers
  <2>2. QueueTypeOK'
    BY <1>2, <1>t DEF Create, Begin, QueueTypeOK, QueueLocations
  <2>3. at'["core"] = "idle" /\ at'["boot"] = "ins1" /\ elm'["boot"] = e
    BY <1>2, <1>t, <2>1 DEF Create, QueueTypeOK
  <2>4. Linked(fifo)'
    BY <1>2, <2>1 DEF Create, Linked, Chained, Ended, Holder
  <2>5. e \notin created /\ e # Null /\ created' = created \cup {e} /\ fifo' = fifo /\ current' = current
    BY <1>2, DistinctAssumption DEF Create
  <2>6. QueueMembers'
    BY <2>1, <2>3, <2>5 DEF QueueMembers, QueueInv, Inserts
  <2>7. \A y \in Actors : Inserting(y)'
    BY <1>t, <2>3, <2>4, <2>5 DEF Inserting, Inserts, QueueInv, QueueMembers
  <2>8. Removing'
    BY <2>3, <2>4 DEF Removing, Removes
  <2>9. ~Quiet'
    BY <1>t, <2>3 DEF Quiet, Resting
  <2> QED
    BY <1>2, <2>2, <2>6, <2>7, <2>8, <2>9 DEF QueueInv, Create
<1>3. ASSUME NEW x \in Actors, Ins1(x) \/ Ins2(x) \/ Ins3(x) \/ Ins4(x) PROVE QueueInv'
  <2> DEFINE e == elm[x]
             l == at'[x]
  <2>1. at[x] \in Inserts /\ at[x] # "idle" /\ Inserting(x)
    BY <1>3 DEF Ins1, Ins2, Ins3, Ins4, Inserts, QueueInv
  <2>2. /\ \A y \in Actors : y # x => at[y] = "idle"
        /\ elm[x] \in Elems /\ elm[x] # Head0 /\ elm[x] # Null
        /\ \A i \in 0 .. Len(fifo) : Holder(fifo, i) # elm[x] /\ Holder(fifo, i) \in Objects
        /\ elm[x] \in Objects
    BY <2>1, ActorFacts DEF Objects
  <2>3. /\ fifo' = fifo /\ nelem' = nelem /\ tmp' = tmp /\ elm' = elm /\ current' = current /\ created' = created
        /\ at' = [at EXCEPT ![x] = l] /\ l \in {"ins2", "ins3", "ins4", "ins5"}
    BY <1>3, <1>t DEF Ins1, Ins2, Ins3, Ins4, QueueTypeOK
  <2> HIDE DEF l
  <2>4. /\ \A y \in Actors : at'[y] = IF y = x THEN l ELSE "idle"
        /\ at'[x] \in Inserts
    BY <1>t, <2>2, <2>3 DEF QueueTypeOK, Inserts
  <2>5. QueueTypeOK'
    BY <1>3, <1>t, <2>2, <2>3 DEF Ins1, Ins2, Ins3, Ins4, QueueTypeOK, QueueLocations, Objects
  <2>6. QueueMembers'
    BY <1>t, <2>1, <2>2, <2>3, <2>4 DEF QueueMembers, QueueInv, Inserts
  <2>7. Removing'
    BY <1>t, <2>4 DEF Removing, Inserts, Removes, QueueInv, QueueMembers
  <2>8. ~Quiet'
    BY <2>4 DEF Quiet, Resting, Inserts
  <2>9. elm'[x] \in created' /\ \A i \in 1 .. Len(fifo') : fifo'[i] # elm'[x]
    BY <2>1, <2>3 DEF Inserting
  <2>10. \A y \in Actors : y # x => Inserting(y)'
    BY <2>4 DEF Inserting, Inserts
  <2>11. Inserting(x)'
    <3>1. CASE Ins1(x)
      <4>1. /\ l = "ins2" /\ next' = [next EXCEPT ![elm[x]] = Null] /\ prev' = prev /\ last' = last
            /\ Linked(fifo)
        BY <1>t, <2>1, <3>1 DEF Ins1, Inserting, l, QueueTypeOK
      <4>2. Linked(fifo)'
        BY <1>t, <2>2, <2>3, <4>1 DEF Linked, Chained, Ended, QueueTypeOK, Holder
      <4>3. next'[elm'[x]] = Null
        BY <1>t, <2>2, <2>3, <4>1 DEF QueueTypeOK
      <4> QED
        BY <2>4, <2>9, <4>1, <4>2, <4>3 DEF Inserting
    <3>2. CASE Ins2(x)
      <4>1. /\ l = "ins3" /\ next' = next /\ prev' = [prev EXCEPT ![elm[x]] = last] /\ last' = last
            /\ Linked(fifo) /\ next[elm[x]] = Null
        BY <1>t, <2>1, <3>2 DEF Ins2, Inserting, l, QueueTypeOK
      <4>2. \A i \in 1 .. Len(fifo) : fifo[i] # elm[x]
        BY <2>3, <2>9
      <4>3. Linked(fifo)'
        BY <1>t, <2>2, <2>3, <4>1, <4>2 DEF Linked, Chained, Ended, QueueTypeOK, Holder
      <4>4. prev'[elm'[x]] = last'
        BY <1>t, <2>2, <2>3, <4>1 DEF QueueTypeOK
      <4> QED
        BY <2>3, <2>4, <2>9, <4>1, <4>3, <4>4 DEF Inserting
    <3>3. CASE Ins3(x)
      <4>1. /\ l = "ins4" /\ next' = [next EXCEPT ![last] = elm[x]] /\ prev' = prev /\ last' = last
            /\ Linked(fifo) /\ next[elm[x]] = Null /\ prev[elm[x]] = last
        BY <1>t, <2>1, <3>3 DEF Ins3, Inserting, l, QueueTypeOK
      <4>2. last = Holder(fifo, Len(fifo)) /\ last # elm[x] /\ last \in Objects
        BY <1>t, <2>2, <4>1 DEF Linked, Ended
      <4>3. next'[elm'[x]] = Null /\ next'[last] = elm[x]
        BY <1>t, <2>2, <2>3, <4>1, <4>2 DEF QueueTypeOK
      <4> DEFINE s == Append(fifo, elm[x])
      <4>4. /\ Len(s) = Len(fifo) + 1
            /\ \A i \in 1 .. Len(fifo) : s[i] = fifo[i]
            /\ s[Len(fifo) + 1] = elm[x]
        BY <1>t, <2>2, AppendFacts
      <4> HIDE DEF s
      <4>5. \A i \in 0 .. Len(fifo) : Holder(s, i) = Holder(fifo, i)
        BY <1>t, <4>4 DEF Holder
      <4>6. \A i \in 0 .. Len(fifo) - 1 : Holder(fifo, i) # last
        <5> SUFFICES ASSUME NEW i \in 0 .. Len(fifo) - 1, Holder(fifo, i) = last PROVE FALSE
          OBVIOUS
        <5>1. i + 1 \in 1 .. Len(fifo) /\ (i + 1) - 1 = i
          BY <1>t
        <5>2. next[Holder(fifo, i)] = fifo[i + 1]
          BY <4>1, <5>1 DEF Linked, Chained
        <5>3. fifo[i + 1] \in Elems
          BY <1>t, <5>1, MemberType
        <5> QED
          BY <4>1, <4>2, <5>2, <5>3, DistinctAssumption DEF Linked, Ended
      <4>7. ASSUME NEW i \in 1 .. Len(fifo)
            PROVE  next'[Holder(s, i - 1)] = s[i] /\ prev'[s[i]] = Holder(s, i - 1)
        <5>1. i - 1 \in 0 .. Len(fifo) - 1 /\ i - 1 \in 0 .. Len(fifo)
          BY <1>t
        <5>2. next[Holder(fifo, i - 1)] = fifo[i] /\ prev[fifo[i]] = Holder(fifo, i - 1)
          BY <4>1 DEF Linked, Chained
        <5>3. next'[Holder(fifo, i - 1)] = next[Holder(fifo, i - 1)]
          BY <1>t, <2>2, <4>1, <4>2, <4>6, <5>1 DEF QueueTypeOK
        <5> QED
          BY <4>1, <4>4, <4>5, <5>1, <5>2, <5>3
      <4>8. next'[Holder(s, Len(fifo))] = s[Len(fifo) + 1] /\ prev'[s[Len(fifo) + 1]] = Holder(s, Len(fifo))
        BY <1>t, <4>1, <4>2, <4>3, <4>4, <4>5
      <4>9. \A i \in 1 .. Len(s) : next'[Holder(s, i - 1)] = s[i] /\ prev'[s[i]] = Holder(s, i - 1)
        <5> TAKE i \in 1 .. Len(s)
        <5>1. i \in 1 .. Len(fifo) \/ (i = Len(fifo) + 1 /\ i - 1 = Len(fifo))
          BY <1>t, <4>4
        <5> QED
          BY <4>7, <4>8, <5>1
      <4>10. Chained(Append(fifo, elm[x]))'
        BY <2>3, <4>9 DEF Chained, s, Holder
      <4> QED
        BY <2>3, <2>4, <2>9, <4>1, <4>3, <4>10 DEF Inserting
    <3>4. CASE Ins4(x)
      <4>1. /\ l = "ins5" /\ next' = next /\ prev' = prev /\ last' = elm[x]
            /\ Chained(Append(fifo, elm[x])) /\ next[elm[x]] = Null
        BY <1>t, <2>1, <3>4 DEF Ins4, Inserting, l, QueueTypeOK
      <4>2. Holder(Append(fifo, elm[x]), Len(Append(fifo, elm[x]))) = elm[x]
        BY <1>t, <2>2, AppendFacts DEF Holder
      <4>3. Chained(Append(fifo, elm[x]))' /\ Ended(Append(fifo, elm[x]))'
        BY <2>3, <4>1, <4>2 DEF Chained, Ended, Holder
      <4> QED
        BY <2>4, <2>9, <4>1, <4>3 DEF Inserting, Linked
    <3> QED
      BY <1>3, <3>1, <3>2, <3>3, <3>4
  <2> QED
    BY <2>3, <2>5, <2>6, <2>7, <2>8, <2>10, <2>11 DEF QueueInv
<1>4. ASSUME NEW x \in Actors, LoadNelem(x) PROVE QueueInv'
  <2> DEFINE l == at'[x]
  <2>1. at[x] \in {"ins5", "rem3"} /\ at[x] # "idle" /\ (x = "boot" => at[x] = "ins5")
    BY <1>4, <1>t DEF LoadNelem, QueueInv, QueueMembers, Inserts
  <2>2. \A y \in Actors : y # x => at[y] = "idle"
    BY <2>1, ActorFacts
  <2>3. /\ UNCHANGED <<next, prev, last, nelem, elm, current, created, fifo>>
        /\ at' = [at EXCEPT ![x] = l] /\ l = (IF at[x] = "ins5" THEN "ins6" ELSE "rem4")
        /\ tmp' = [tmp EXCEPT ![x] = nelem] /\ tmp'[x] = nelem
    BY <1>4, <1>t DEF LoadNelem, QueueTypeOK
  <2> HIDE DEF l
  <2>4. \A y \in Actors : at'[y] = IF y = x THEN l ELSE "idle"
    BY <1>t, <2>2, <2>3 DEF QueueTypeOK
  <2>5. QueueTypeOK'
    BY <1>t, <1>o, <2>1, <2>3 DEF QueueTypeOK, QueueLocations
  <2>6. QueueMembers'
    BY <1>t, <2>1, <2>2, <2>3, <2>4 DEF QueueMembers, QueueInv, Inserts
  <2>7. ~Quiet'
    BY <2>1, <2>3, <2>4 DEF Quiet, Resting
  <2>9. Linked(Append(fifo, elm[x])) => Linked(Append(fifo, elm[x]))'
    BY <2>3 DEF Linked, Chained, Ended, Holder
  <2>10. Linked(Rest) => Linked(Rest)'
    BY <2>3 DEF Linked, Chained, Ended, Holder, Rest
  <2>11. Inserting(x)
    BY DEF QueueInv
  <2>12. \A y \in Actors : Inserting(y)'
    <3>1. \A y \in Actors : y # x => Inserting(y)'
      BY <2>4 DEF Inserting, Inserts
    <3>2. CASE at[x] = "ins5"
      BY <2>3, <2>4, <2>9, <2>11, <3>1, <3>2 DEF Inserting, Inserts
    <3>3. CASE at[x] = "rem3"
      BY <2>3, <2>4, <3>1, <3>3 DEF Inserting, Inserts
    <3> QED
      BY <2>1, <3>2, <3>3
  <2>13. Removing'
    <3>1. CASE at[x] = "ins5"
      BY <1>t, <2>3, <2>4, <3>1 DEF Removing, Removes
    <3>2. CASE at[x] = "rem3"
      <4>1. x = "core" /\ l = "rem4" /\ at'["core"] = "rem4"
        BY <1>t, <2>1, <2>3, <2>4, <3>2
      <4>2. Linked(Rest) /\ Len(fifo) > 0 /\ elm["core"] = fifo[1]
        BY <3>2, <4>1 DEF QueueInv, Removing, Removes
      <4> QED
        BY <2>3, <2>10, <4>1, <4>2 DEF Removing, Removes
    <3> QED
      BY <2>1, <3>1, <3>2
  <2> QED
    BY <2>3, <2>5, <2>6, <2>7, <2>12, <2>13 DEF QueueInv
<1>5. ASSUME NEW x \in Actors, Ins6(x) PROVE QueueInv'
  <2> DEFINE l == at'[x]
  <2>1. at[x] = "ins6" /\ at[x] # "idle" /\ at[x] \in Inserts /\ Inserting(x)
    BY <1>5 DEF Ins6, Inserts, QueueInv
  <2>2. /\ \A y \in Actors : y # x => at[y] = "idle"
        /\ elm[x] \in Elems
    BY <2>1, ActorFacts
  <2>3. /\ UNCHANGED <<next, prev, last, tmp, elm, current, created>>
        /\ at' = [at EXCEPT ![x] = l] /\ l = (IF x = "core" THEN "first" ELSE "idle")
        /\ nelem' = nelem + 1 /\ fifo' = Append(fifo, elm[x])
    BY <1>5, <1>t, <2>1 DEF Ins6, QueueTypeOK, Inserting
  <2> HIDE DEF l
  <2>4. /\ fifo' \in Seq(Elems) /\ Len(fifo') = Len(fifo) + 1
        /\ \A i \in 1 .. Len(fifo) : fifo'[i] = fifo[i]
        /\ fifo'[Len(fifo) + 1] = elm[x]
    BY <1>t, <2>2, <2>3, AppendFacts
  <2>5. \A i \in 1 .. Len(fifo') : i \in 1 .. Len(fifo) \/ i = Len(fifo) + 1
    BY <1>t, <2>4
  <2>6. \A y \in Actors : at'[y] = IF y = x THEN l ELSE "idle"
    BY <1>t, <2>2, <2>3 DEF QueueTypeOK
  <2>7. QueueTypeOK' /\ nelem' = Len(fifo')
    BY <1>t, <1>o, <2>2, <2>3, <2>4 DEF QueueTypeOK, QueueLocations, QueueInv
  <2>8. Linked(fifo)'
    BY <2>1, <2>3 DEF Inserting, Linked, Chained, Ended, Holder
  <2>9. QueueMembers'
    <3>1. elm[x] \in created /\ \A i \in 1 .. Len(fifo) : fifo[i] # elm[x]
      BY <2>1 DEF Inserting
    <3>2. QueueMembers
      BY DEF QueueInv
    <3>3. \A i \in 1 .. Len(fifo') : fifo'[i] \in created'
      BY <2>3, <2>4, <2>5, <3>1, <3>2 DEF QueueMembers
    <3>4. \A i, j \in 1 .. Len(fifo') : fifo'[i] = fifo'[j] => i = j
      BY <2>4, <2>5, <3>1, <3>2 DEF QueueMembers
    <3>5. x = "boot" => \A i \in 1 .. Len(fifo') : fifo'[i] # current
      BY <1>t, <2>1, <2>2, <2>4, <2>5, <3>2 DEF QueueMembers
    <3> QED
      BY <1>t, <2>3, <2>6, <3>2, <3>3, <3>4, <3>5, SMTT(30) DEF QueueMembers, Inserts
  <2>10. \A y \in Actors : Inserting(y)'
    BY <2>3, <2>6 DEF Inserting, Inserts
  <2>11. Removing'
    BY <1>t, <2>3, <2>6, <2>8 DEF Removing, Removes
  <2> QED
    BY <2>7, <2>8, <2>9, <2>10, <2>11 DEF QueueInv
<1>6. CASE First("core")
  <2>1. /\ at["core"] = "first" /\ Linked(fifo)
        /\ UNCHANGED <<next, prev, last, nelem, tmp, current, created, fifo>>
        /\ elm' = [elm EXCEPT !["core"] = next[Head0]]
    BY <1>6 DEF First, QueueInv, Removing
  <2>2. at["boot"] = "idle"
    BY <1>t, <2>1, ActorFacts
  <2>7. next[Head0] = Null => Len(fifo) = 0
    <3> SUFFICES ASSUME next[Head0] = Null, Len(fifo) # 0 PROVE FALSE
      OBVIOUS
    <3>1. 1 \in 1 .. Len(fifo)
      BY <1>t
    <3>2. next[Head0] = fifo[1] /\ fifo[1] \in Elems
      BY <1>t, <2>1, <3>1, MemberType DEF Linked, Chained, Holder
    <3> QED
      BY <3>2, DistinctAssumption
  <2>a. next[Head0] = Null => current = Null
    BY <1>t, <2>1, <2>7 DEF QueueInv, QueueMembers
  <2>b. at' = [at EXCEPT !["core"] = IF next[Head0] = Null THEN "idle" ELSE "rem1"]
    BY <1>6, <2>a DEF First
  <2>3. /\ at'["core"] = (IF next[Head0] = Null THEN "idle" ELSE "rem1") /\ at'["boot"] = "idle"
        /\ elm'["core"] = next[Head0]
    BY <1>t, <2>1, <2>2, <2>b DEF QueueTypeOK
  <2>4. QueueTypeOK'
    BY <1>6, <1>t, <2>1, <2>b DEF First, QueueTypeOK, QueueLocations, Objects
  <2>5. Linked(fifo)'
    BY <2>1 DEF Linked, Chained, Ended, Holder
  <2>6. next[Head0] # Null => Len(fifo) > 0 /\ next[Head0] = fifo[1]
    BY <1>t, <2>1 DEF Linked, Chained, Ended, Holder
  <2>8. QueueMembers'
    BY <1>t, <2>1, <2>2, <2>3, <2>7 DEF QueueMembers, QueueInv, Inserts
  <2>9. \A y \in Actors : Inserting(y)'
    BY <1>t, <2>3 DEF Inserting, Inserts
  <2>10. Removing'
    BY <2>1, <2>3, <2>5, <2>6 DEF Removing, Removes
  <2> QED
    BY <2>1, <2>4, <2>5, <2>8, <2>9, <2>10 DEF QueueInv
<1>7. CASE Rem1("core")
  <2>1. /\ at["core"] = "rem1" /\ Linked(fifo) /\ Len(fifo) > 0 /\ elm["core"] = fifo[1]
        /\ UNCHANGED <<next, nelem, tmp, elm, current, created, fifo>>
        /\ at' = [at EXCEPT !["core"] = "rem2"]
    BY <1>7 DEF Rem1, QueueInv, Removing, Removes
  <2>2. at["boot"] = "idle" /\ at'["core"] = "rem2" /\ at'["boot"] = "idle"
    BY <1>t, <2>1, ActorFacts DEF QueueTypeOK
  <2>3. \A i \in 1 .. Len(fifo) : fifo[i] \in Elems /\ fifo[i] # Null /\ fifo[i] # Head0
    BY <1>t, MemberType, DistinctAssumption
  <2>4. \A i, j \in 1 .. Len(fifo) : fifo[i] = fifo[j] => i = j
    BY DEF QueueInv, QueueMembers
  <2>5. prev[fifo[1]] = Head0
    BY <1>t, <2>1 DEF Linked, Chained, Holder
  <2>6. ASSUME NEW i \in 1 .. Len(fifo)
        PROVE  next[fifo[i]] = IF i = Len(fifo) THEN Null ELSE fifo[i + 1]
    <3>1. CASE i = Len(fifo)
      BY <1>t, <2>1, <3>1 DEF Linked, Ended, Holder
    <3>2. CASE i # Len(fifo)
      <4>1. i + 1 \in 1 .. Len(fifo) /\ (i + 1) - 1 = i /\ i # 0
        BY <1>t, <3>2
      <4>2. next[Holder(fifo, i)] = fifo[i + 1]
        BY <2>1, <4>1 DEF Linked, Chained
      <4> QED
        BY <3>2, <4>1, <4>2 DEF Holder
    <3> QED
      BY <3>1, <3>2
  <2>7. \A i \in 2 .. Len(fifo) : prev[fifo[i]] = fifo[i - 1]
    BY <1>t, <2>1 DEF Linked, Chained, Holder
  <2>8. CASE Len(fifo) = 1
    <3>1. next[fifo[1]] = Null /\ last' = Head0 /\ prev' = prev
      BY <1>7, <2>1, <2>5, <2>6, <2>8 DEF Rem1
    <3>2. QueueTypeOK'
      BY <1>t, <1>o, <2>1, <3>1 DEF QueueTypeOK, QueueLocations, Objects
    <3>3. QueueMembers'
      BY <1>t, <2>1, <2>2 DEF QueueMembers, QueueInv, Inserts
    <3>4. \A y \in Actors : Inserting(y)'
      BY <1>t, <2>2 DEF Inserting, Inserts
    <3>5. Removing'
      BY <1>t, <2>1, <2>2, <2>5, <2>6, <2>8, <3>1 DEF Removing, Removes
    <3>6. ~Quiet'
      BY <1>t, <2>2 DEF Quiet, Resting
    <3> QED
      BY <2>1, <3>2, <3>3, <3>4, <3>5, <3>6 DEF QueueInv
  <2>9. CASE Len(fifo) # 1
    <3>1. 1 \in 1 .. Len(fifo) /\ 2 \in 1 .. Len(fifo) /\ Len(fifo) >= 2
      <4>1. \A n \in Nat : n > 0 /\ n # 1 => 1 \in 1 .. n /\ 2 \in 1 .. n /\ n >= 2
        OBVIOUS
      <4> QED
        BY <1>t, <2>1, <2>9, <4>1
    <3>2. next[fifo[1]] = fifo[2] /\ fifo[2] # Null /\ fifo[2] \in Elems
      BY <2>3, <2>6, <2>9, <3>1
    <3>3. last' = last /\ prev' = [prev EXCEPT ![fifo[2]] = Head0] /\ last = fifo[Len(fifo)]
      BY <1>7, <1>t, <2>1, <2>5, <3>1, <3>2 DEF Rem1, Linked, Ended, Holder
    <3>4. QueueTypeOK'
      BY <1>t, <1>o, <2>1, <3>2, <3>3 DEF QueueTypeOK, QueueLocations, Objects
    <3>5. QueueMembers'
      BY <1>t, <2>1, <2>2 DEF QueueMembers, QueueInv, Inserts
    <3>6. \A y \in Actors : Inserting(y)'
      BY <1>t, <2>2 DEF Inserting, Inserts
    <3>7. \A i \in 2 .. Len(fifo) : prev'[fifo[i]] = IF i = 2 THEN Head0 ELSE fifo[i - 1]
      <4> TAKE i \in 2 .. Len(fifo)
      <4>1. i \in 1 .. Len(fifo) /\ fifo[i] \in Elems
        BY <1>t, <2>3
      <4>2. i # 2 => fifo[i] # fifo[2]
        BY <2>4, <3>1, <4>1
      <4> QED
        BY <1>t, <2>7, <3>2, <3>3, <4>1, <4>2 DEF QueueTypeOK
    <3>8. prev'[fifo[1]] = Head0
      <4>1. fifo[1] # fifo[2] /\ fifo[1] \in Elems
        BY <2>3, <2>4, <3>1
      <4> QED
        BY <1>t, <2>5, <3>3, <4>1 DEF QueueTypeOK
    <3>9. Removing'
      BY <2>1, <2>2, <2>6, <2>9, <3>3, <3>7, <3>8 DEF Removing, Removes
    <3>10. ~Quiet'
      BY <1>t, <2>2 DEF Quiet, Resting
    <3> QED
      BY <2>1, <3>4, <3>5, <3>6, <3>9, <3>10 DEF QueueInv
  <2> QED
    BY <2>8, <2>9
<1>8. CASE Rem2("core")
  <2>1. /\ at["core"] = "rem2" /\ Len(fifo) > 0 /\ elm["core"] = fifo[1]
        /\ UNCHANGED <<prev, last, nelem, tmp, elm, current, created, fifo>>
        /\ at' = [at EXCEPT !["core"] = "rem3"]
        /\ next' = [next EXCEPT ![prev[fifo[1]]] = next[fifo[1]]]
    BY <1>8 DEF Rem2, QueueInv, Removing, Removes
  <2>2. at["boot"] = "idle" /\ at'["core"] = "rem3" /\ at'["boot"] = "idle"
    BY <1>t, <2>1, ActorFacts DEF QueueTypeOK
  <2>3. /\ prev[fifo[1]] = Head0
        /\ \A i \in 1 .. Len(fifo) : next[fifo[i]] = IF i = Len(fifo) THEN Null ELSE fifo[i + 1]
        /\ \A i \in 2 .. Len(fifo) : prev[fifo[i]] = IF i = 2 THEN Head0 ELSE fifo[i - 1]
        /\ last = IF Len(fifo) = 1 THEN Head0 ELSE fifo[Len(fifo)]
    BY <2>1 DEF QueueInv, Removing
  <2>4. \A i \in 1 .. Len(fifo) : fifo[i] \in Elems /\ fifo[i] # Null /\ fifo[i] # Head0
    BY <1>t, MemberType, DistinctAssumption
  <2>5. 1 \in 1 .. Len(fifo) /\ fifo[1] \in Elems /\ next[fifo[1]] \in Elems \cup {Null}
    BY <1>t, <2>1, <2>4 DEF QueueTypeOK, Objects
  <2>6. /\ next'[Head0] = next[fifo[1]]
        /\ \A i \in 1 .. Len(fifo) : next'[fifo[i]] = next[fifo[i]]
    BY <1>t, <2>1, <2>3, <2>4 DEF QueueTypeOK, Objects
  <2>7. QueueTypeOK'
    BY <1>t, <1>o, <2>1, <2>3, <2>5 DEF QueueTypeOK, QueueLocations, Objects
  <2>8. QueueMembers'
    BY <1>t, <2>1, <2>2 DEF QueueMembers, QueueInv, Inserts
  <2>9. \A y \in Actors : Inserting(y)'
    BY <1>t, <2>2 DEF Inserting, Inserts
  <2> DEFINE r == Rest
             m == Len(fifo) - 1
  <2>10. /\ m \in Nat /\ Len(fifo) = m + 1 /\ Len(r) = m
         /\ \A i \in 1 .. m : r[i] = fifo[i + 1]
    BY <1>t, <2>1, RestFacts DEF Rest
  <2> HIDE DEF r, m
  <2>11. ASSUME NEW i \in 0 .. m PROVE Holder(r, i) = IF i = 0 THEN Head0 ELSE fifo[i + 1]
    BY <2>10 DEF Holder
  <2>12. ASSUME NEW i \in 0 .. m
         PROVE  next'[Holder(r, i)] = IF i = m THEN Null ELSE fifo[i + 2]
    <3>1. i + 1 \in 1 .. Len(fifo) /\ (i + 1 = Len(fifo) <=> i = m) /\ (i + 1) + 1 = i + 2
      BY <2>10
    <3>2. next[fifo[i + 1]] = IF i = m THEN Null ELSE fifo[i + 2]
      BY <2>3, <3>1
    <3>3. next'[Holder(r, i)] = next[fifo[i + 1]]
      <4>1. CASE i = 0
        BY <2>6, <2>11, <4>1
      <4>2. CASE i # 0
        BY <2>6, <2>11, <3>1, <4>2
      <4> QED
        BY <4>1, <4>2
    <3> QED
      BY <3>2, <3>3
  <2>13. ASSUME NEW i \in 1 .. Len(r)
         PROVE  next'[Holder(r, i - 1)] = r[i] /\ prev'[r[i]] = Holder(r, i - 1)
    <3>1. i - 1 \in 0 .. m /\ i - 1 # m /\ (i - 1) + 2 = i + 1 /\ (i - 1) + 1 = i /\ i \in 1 .. m
      BY <2>10
    <3>2. next'[Holder(r, i - 1)] = fifo[i + 1]
      BY <2>12, <3>1
    <3>3. i + 1 \in 2 .. Len(fifo) /\ (i + 1 = 2 <=> i - 1 = 0) /\ (i + 1) - 1 = i
      BY <2>10
    <3>4. prev[fifo[i + 1]] = IF i - 1 = 0 THEN Head0 ELSE fifo[i]
      BY <2>3, <3>3
    <3> QED
      BY <2>1, <2>10, <2>11, <3>1, <3>2, <3>4
  <2>14. next'[Holder(r, Len(r))] = Null /\ last' = Holder(r, Len(r))
    <3>1. m \in 0 .. m /\ (Len(fifo) = 1 <=> m = 0)
      BY <2>10
    <3> QED
      BY <2>1, <2>3, <2>10, <2>11, <2>12, <3>1
  <2>15. Rest' = r /\ Linked(Rest)'
    <3>1. Rest' = r
      BY <2>1 DEF Rest, r
    <3> QED
      BY <2>13, <2>14, <3>1 DEF Linked, Chained, Ended, Holder
  <2>16. Removing'
    BY <2>1, <2>2, <2>15 DEF Removing, Removes
  <2>17. ~Quiet'
    BY <1>t, <2>2 DEF Quiet, Resting
  <2> QED
    BY <2>1, <2>7, <2>8, <2>9, <2>16, <2>17 DEF QueueInv
<1>9. CASE Rem4("core")
  <2>1. /\ at["core"] = "rem4" /\ Len(fifo) > 0 /\ elm["core"] = fifo[1] /\ Linked(Rest)
        /\ UNCHANGED <<next, prev, last, tmp, elm, created>>
        /\ at' = [at EXCEPT !["core"] = "idle"]
        /\ nelem' = Len(fifo) - 1 /\ current' = fifo[1] /\ fifo' = Rest
    BY <1>9 DEF Rem4, QueueInv, Removing, Removes, Rest
  <2>2. at["boot"] = "idle" /\ at'["core"] = "idle" /\ at'["boot"] = "idle"
    BY <1>t, <2>1, ActorFacts DEF QueueTypeOK
  <2>3. /\ fifo' \in Seq(Elems) /\ Len(fifo') = Len(fifo) - 1
        /\ \A i \in 1 .. Len(fifo') : fifo'[i] = fifo[i + 1] /\ i + 1 \in 1 .. Len(fifo) /\ i + 1 # 1
    BY <1>t, <2>1, RestFacts DEF Rest
  <2>4. 1 \in 1 .. Len(fifo) /\ fifo[1] \in Elems
    BY <1>t, <2>1, MemberType
  <2>5. QueueTypeOK'
    BY <1>t, <1>o, <2>1, <2>3, <2>4 DEF QueueTypeOK, QueueLocations
  <2>6. Linked(fifo)'
    BY <2>1 DEF Linked, Chained, Ended, Holder
  <2>7. QueueMembers'
    <3>1. QueueMembers
      BY DEF QueueInv
    <3>2. \A i \in 1 .. Len(fifo') : fifo'[i] \in created' /\ fifo'[i] # fifo[1]
      BY <2>1, <2>3, <2>4, <3>1 DEF QueueMembers
    <3>3. \A i, j \in 1 .. Len(fifo') : fifo'[i] = fifo'[j] => i = j
      <4> SUFFICES ASSUME NEW i \in 1 .. Len(fifo'), NEW j \in 1 .. Len(fifo'), fifo'[i] = fifo'[j] PROVE i = j
        OBVIOUS
      <4>1. i + 1 = j + 1
        BY <2>3, <3>1 DEF QueueMembers
      <4> QED
        BY <4>1
    <3>4. fifo[1] \in created
      BY <2>4, <3>1 DEF QueueMembers
    <3> QED
      BY <2>1, <2>2, <3>2, <3>3, <3>4 DEF QueueMembers, Inserts
  <2>8. \A y \in Actors : Inserting(y)'
    BY <1>t, <2>2 DEF Inserting, Inserts
  <2>9. Removing'
    BY <2>2 DEF Removing, Removes
  <2> QED
    BY <2>1, <2>3, <2>5, <2>6, <2>7, <2>8, <2>9 DEF QueueInv
<1>10. CASE UNCHANGED queueVars
  BY <1>10 DEF queueVars, QueueInv, QueueTypeOK, QueueMembers, Inserting, Removing, Rest, Quiet,
               Resting, Linked, Chained, Ended, Holder
<1> QED
  BY <1>1, <1>2, <1>3, <1>4, <1>5, <1>6, <1>7, <1>8, <1>9, <1>10 DEF QueueNext

(* The recursive definition of Walk has a solution, so walking is what its *)
(* equation says.  Finite walks first, by induction on their length, as    *)
(* the least one that fails.                                               *)
WalkStep(g, n) ==
  IF n = 0 THEN Head0 ELSE IF g[n - 1] = Null THEN Null ELSE next[g[n - 1]]

IsWalk(g, m) == g = [n \in 0 .. m |-> WalkStep(g, n)]

LEMMA LeastOf ==
  ASSUME NEW T, T \subseteq Nat, T # {} PROVE \E n \in T : \A k \in T : n <= k
<1>1. PICK n \in T : \A k \in T : ~(<<k, n>> \in OpToRel(<, Nat))
  BY NatLessThanWellFounded, WFMin
<1>2. \A k \in T : ~(k < n)
  BY <1>1 DEF OpToRel
<1> QED
  BY <1>2

LEMMA WalkExists == \A m \in Nat : \E g : IsWalk(g, m)
<1> DEFINE Bad == {m \in Nat : ~\E g : IsWalk(g, m)}
<1>1. SUFFICES ASSUME Bad # {} PROVE FALSE
  OBVIOUS
<1>2. PICK m \in Bad : \A k \in Bad : m <= k
  BY <1>1, LeastOf
<1>3. m # 0
  <2>1. IsWalk([n \in 0 .. 0 |-> Head0], 0)
    BY DEF IsWalk, WalkStep
  <2> QED
    BY <2>1
<1>4. m - 1 \in Nat /\ m \in Nat /\ ~(m <= m - 1)
  BY <1>3
<1>5. PICK g : IsWalk(g, m - 1)
  BY <1>2, <1>4
<1> HIDE DEF Bad
<1> DEFINE h == [n \in 0 .. m |-> IF n = m THEN WalkStep(g, m) ELSE g[n]]
<1>6. ASSUME NEW n \in 0 .. m PROVE h[n] = WalkStep(h, n)
  <2>1. n = 0 \/ (n - 1 \in 0 .. m /\ n - 1 # m)
    BY <1>4
  <2>2. WalkStep(h, n) = WalkStep(g, n)
    BY <2>1 DEF WalkStep
  <2>3. CASE n = m
    BY <2>2, <2>3
  <2>4. CASE n # m
    <3>1. n \in 0 .. m - 1
      BY <1>4, <2>4
    <3>2. g[n] = WalkStep(g, n)
      BY <1>5, <3>1 DEF IsWalk
    <3> QED
      BY <2>2, <2>4, <3>2
  <2> QED
    BY <2>3, <2>4
<1>7. IsWalk(h, m)
  BY <1>6 DEF IsWalk
<1> QED
  BY <1>2, <1>7 DEF Bad

LEMMA WalksAgree ==
  ASSUME NEW g, NEW h, NEW m \in Nat, NEW k \in Nat, IsWalk(g, m), IsWalk(h, k)
  PROVE  \A n \in Nat : n <= m /\ n <= k => g[n] = h[n]
<1> DEFINE Bad == {n \in Nat : n <= m /\ n <= k /\ g[n] # h[n]}
<1>1. SUFFICES ASSUME Bad # {} PROVE FALSE
  OBVIOUS
<1>2. PICK n \in Bad : \A j \in Bad : n <= j
  BY <1>1, LeastOf
<1>3. g[n] = WalkStep(g, n) /\ h[n] = WalkStep(h, n) /\ n \in Nat
  <2>1. n \in 0 .. m /\ n \in 0 .. k /\ n \in Nat
    OBVIOUS
  <2>2. \A i \in 0 .. m : g[i] = WalkStep(g, i)
    BY Zenon DEF IsWalk
  <2>3. \A i \in 0 .. k : h[i] = WalkStep(h, i)
    BY Zenon DEF IsWalk
  <2> QED
    BY <2>1, <2>2, <2>3
<1>4. n # 0
  BY <1>3 DEF WalkStep
<1>5. n - 1 \in Nat /\ ~(n <= n - 1) /\ n - 1 <= m /\ n - 1 <= k
  BY <1>4
<1>6. g[n - 1] = h[n - 1]
  BY <1>2, <1>5
<1> QED
  BY <1>3, <1>6 DEF WalkStep

LEMMA WalkDef == \A n \in Nat : Walk[n] = WalkStep(Walk, n)
<1> DEFINE G(n) == CHOOSE g : IsWalk(g, n)
           f == [n \in Nat |-> G(n)[n]]
<1>1. \A n \in Nat : IsWalk(G(n), n)
  BY WalkExists
<1> HIDE DEF G
<1>2. ASSUME NEW n \in Nat PROVE f[n] = WalkStep(f, n)
  <2>1. G(n)[n] = WalkStep(G(n), n)
    BY <1>1 DEF IsWalk
  <2>2. CASE n = 0
    BY <2>1, <2>2 DEF WalkStep
  <2>3. CASE n # 0
    <3>1. n - 1 \in Nat /\ n - 1 <= n /\ n - 1 <= n - 1
      BY <2>3
    <3>2. G(n)[n - 1] = G(n - 1)[n - 1]
      BY <1>1, <3>1, WalksAgree
    <3> QED
      BY <2>1, <2>3, <3>1, <3>2 DEF WalkStep
  <2> QED
    BY <2>2, <2>3
<1>3. f = [n \in Nat |-> WalkStep(f, n)]
  BY <1>2
<1> HIDE DEF f
<1>4. \E w : w = [n \in Nat |-> WalkStep(w, n)]
  BY <1>3
<1>5. Walk = CHOOSE w : w = [n \in Nat |-> WalkStep(w, n)]
  BY DEF Walk, WalkStep
<1>6. Walk = [n \in Nat |-> WalkStep(Walk, n)]
  BY <1>4, <1>5
<1> QED
  BY <1>6

LEMMA QueueInvImplies == QueueInv => QueueIsFifo
<1> SUFFICES ASSUME QueueInv, Quiet, ~overlapped PROVE QueueIsFifo
  BY DEF QueueIsFifo
<1>1. Linked(fifo) /\ fifo \in Seq(Elems) /\ Len(fifo) \in Nat /\ nelem = Len(fifo)
  BY DEF QueueInv, QueueTypeOK
<1>2. \A i \in 1 .. Len(fifo) : fifo[i] \in Elems
  BY <1>1, MemberType
<1> DEFINE Bad == {n \in Nat : n <= Len(fifo) /\ Walk[n] # Holder(fifo, n)}
<1>3. Bad = {}
  <2>1. SUFFICES ASSUME Bad # {} PROVE FALSE
    OBVIOUS
  <2>2. PICK n \in Bad : \A k \in Bad : n <= k
    BY <2>1, LeastOf
  <2>3. n # 0
    BY WalkDef DEF WalkStep, Holder
  <2>4. n - 1 \in Nat /\ ~(n <= n - 1) /\ n - 1 <= Len(fifo) /\ n \in 1 .. Len(fifo)
    BY <1>1, <2>3
  <2>5. Walk[n - 1] = Holder(fifo, n - 1)
    BY <2>2, <2>4
  <2>6. Holder(fifo, n - 1) # Null
    BY <1>1, <1>2, <2>4, DistinctAssumption DEF Holder
  <2>7. Walk[n] = next[Holder(fifo, n - 1)]
    BY <2>3, <2>5, <2>6, WalkDef DEF WalkStep
  <2> QED
    BY <1>1, <2>3, <2>4, <2>7 DEF Linked, Chained, Holder
<1>4. \A n \in 0 .. Len(fifo) : Walk[n] = Holder(fifo, n)
  BY <1>1, <1>3
<1>5. \A i \in 1 .. Len(fifo) : Walk[i] = fifo[i]
  BY <1>1, <1>4 DEF Holder
<1>6. \A i \in 1 .. Len(fifo) : next[prev[fifo[i]]] = fifo[i]
  BY <1>1 DEF Linked, Chained
<1>7. Walk[Len(fifo)] = Holder(fifo, Len(fifo)) /\ Holder(fifo, Len(fifo)) # Null
  BY <1>1, <1>2, <1>4, DistinctAssumption DEF Holder
<1>8. Walk[Len(fifo) + 1] = Null
  <2>1. Len(fifo) + 1 \in Nat /\ Len(fifo) + 1 # 0 /\ (Len(fifo) + 1) - 1 = Len(fifo)
    BY <1>1
  <2>2. Walk[Len(fifo) + 1] = next[Walk[Len(fifo)]]
    BY <1>7, <2>1, WalkDef DEF WalkStep
  <2> QED
    BY <1>1, <1>7, <2>2 DEF Linked, Ended
<1> QED
  BY <1>1, <1>5, <1>6, <1>7, <1>8 DEF QueueIsFifo, Linked, Ended

-----------------------------------------------------------------------------
(* What holds whatever overlaps: every pointer that is followed was        *)
(* assigned.                                                               *)
PointersInv ==
  /\ QueueTypeOK
  /\ PointersKnown
  /\ at["boot"] \in {"idle"} \cup Inserts
  /\ at["boot"] \in Inserts => elm["boot"] \in created
  /\ at["core"] \in Inserts \cup Removes => elm["core"] \in Inserted
  /\ at["boot"] = "ins2" => next[elm["boot"]] = Null

LEMMA InitPointers == QueueInit => PointersInv
<1> SUFFICES ASSUME QueueInit PROVE PointersInv
  OBVIOUS
<1>1. QueueTypeOK
  BY InitQueue DEF QueueInv
<1>2. at["core"] = "idle" /\ at["boot"] = "idle" /\ Inserted = {} /\ next[Head0] = Null
  BY DEF QueueInit, Actors, Inserted
<1> QED
  BY <1>1, <1>2 DEF QueueInit, PointersInv, PointersKnown, Inserts, Removes

(* A step of either actor, however the other's steps fall.                 *)
LEMMA NextPointers == PointersInv /\ [QueueNext]_queueVars => PointersInv'
<1> SUFFICES ASSUME PointersInv, [QueueNext]_queueVars PROVE PointersInv'
  OBVIOUS
<1> USE DEF GoTo
<1>t. /\ QueueTypeOK /\ PointersKnown /\ Actors = {"core", "boot"}
      /\ Inserted \subseteq Elems /\ Inserted \subseteq created /\ created \subseteq Elems
  BY DEF PointersInv, QueueTypeOK, Inserted, Actors
<1>d. Head0 \notin Elems /\ Null \notin Elems /\ Head0 # Null
  BY DistinctAssumption
<1>e. /\ at["core"] \in Inserts \cup Removes => elm["core"] \in Inserted
      /\ at["boot"] \in Inserts => elm["boot"] \in created
      /\ at["boot"] \in {"ins3", "ins4", "ins5", "ins6"} => elm["boot"] \in Inserted
      /\ at["boot"] \in {"ins1", "ins2"} => elm["boot"] \notin Inserted
  BY <1>t DEF PointersInv, Inserted, Inserts
<1>1. CASE Interrupt
  <2>1. /\ UNCHANGED <<next, prev, last, nelem, tmp, current, created, fifo>>
        /\ at["core"] = "idle"
        /\ at' = [at EXCEPT !["core"] = IF current = Null THEN "first" ELSE "ins1"]
        /\ elm' = [elm EXCEPT !["core"] = current]
    BY <1>1 DEF Interrupt, Begin
  <2>2. QueueTypeOK'
    BY <1>1, <1>t DEF Interrupt, Begin, QueueTypeOK, QueueLocations
  <2>3. /\ at'["boot"] = at["boot"] /\ elm'["boot"] = elm["boot"] /\ elm'["core"] = current
        /\ at'["core"] = IF current = Null THEN "first" ELSE "ins1"
    BY <1>t, <2>1 DEF QueueTypeOK
  <2>4. Inserted' = Inserted
    BY <2>1, <2>3 DEF Inserted
  <2>5. PointersKnown'
    BY <1>t, <2>1, <2>4 DEF PointersKnown
  <2> QED
    BY <1>t, <2>1, <2>2, <2>3, <2>4, <2>5 DEF PointersInv, PointersKnown, Inserts, Removes
<1>2. ASSUME NEW e \in Elems, Create(e) PROVE PointersInv'
  <2>1. /\ UNCHANGED <<next, prev, last, nelem, tmp, current, fifo>>
        /\ at["boot"] = "idle" /\ at' = [at EXCEPT !["boot"] = "ins1"]
        /\ elm' = [elm EXCEPT !["boot"] = e] /\ created' = created \cup {e} /\ e \notin created
    BY <1>2 DEF Create, Begin
  <2>2. QueueTypeOK'
    BY <1>2, <1>t DEF Create, Begin, QueueTypeOK, QueueLocations
  <2>3. /\ at'["boot"] = "ins1" /\ elm'["boot"] = e /\ at'["core"] = at["core"]
        /\ elm'["core"] = elm["core"]
    BY <1>t, <2>1 DEF QueueTypeOK
  <2>4. Inserted' = Inserted
    BY <1>t, <2>1, <2>3 DEF Inserted
  <2>5. PointersKnown'
    BY <1>t, <2>1, <2>4 DEF PointersKnown
  <2> QED
    BY <1>t, <2>1, <2>2, <2>3, <2>4, <2>5 DEF PointersInv, Inserts, Removes
<1>3. ASSUME NEW x \in Actors, Ins1(x) PROVE PointersInv'
  <2>1. /\ UNCHANGED <<prev, last, nelem, tmp, elm, current, created, fifo, overlapped>>
        /\ at[x] = "ins1" /\ at' = [at EXCEPT ![x] = "ins2"]
        /\ next' = [next EXCEPT ![elm[x]] = Null]
    BY <1>3 DEF Ins1
  <2>2. elm[x] \in Elems /\ elm[x] \in Objects
    BY <1>t, <1>e, <2>1 DEF Inserts, Objects
  <2>3. QueueTypeOK'
    BY <1>t, <2>1, <2>2 DEF QueueTypeOK, QueueLocations
  <2>4. at'[x] = "ins2" /\ \A y \in Actors : y # x => at'[y] = at[y]
    BY <1>t, <2>1 DEF QueueTypeOK
  <2>5. Inserted' = Inserted
    BY <1>t, <2>1, <2>4 DEF Inserted
  <2>6. next'[elm[x]] = Null /\ \A o \in Objects : o # elm[x] => next'[o] = next[o]
    BY <1>t, <2>1, <2>2 DEF QueueTypeOK
  <2>7. PointersKnown'
    BY <1>t, <2>1, <2>5, <2>6 DEF PointersKnown, Objects
  <2>8. x = "core" => elm["core"] # elm["boot"] \/ at["boot"] \notin {"ins1", "ins2"}
    BY <1>e, <2>1 DEF Inserts
  <2>9. at'["boot"] = "ins2" => next'[elm'["boot"]] = Null
    BY <1>t, <1>e, <2>1, <2>2, <2>4, <2>6, <2>8 DEF PointersInv, Objects, QueueTypeOK, Inserts
  <2> QED
    BY <1>t, <1>e, <2>1, <2>3, <2>4, <2>5, <2>7, <2>9 DEF PointersInv, Inserts, Removes
<1>4. ASSUME NEW x \in Actors, Ins2(x) PROVE PointersInv'
  <2>1. /\ UNCHANGED <<next, last, nelem, tmp, elm, current, created, fifo, overlapped>>
        /\ at[x] = "ins2" /\ at' = [at EXCEPT ![x] = "ins3"]
        /\ prev' = [prev EXCEPT ![elm[x]] = last]
    BY <1>4 DEF Ins2
  <2>2. elm[x] \in Elems /\ elm[x] \in created
    BY <1>t, <1>e, <2>1 DEF Inserts
  <2>3. QueueTypeOK'
    BY <1>t, <2>1, <2>2 DEF QueueTypeOK, QueueLocations
  <2>4. at'[x] = "ins3" /\ \A y \in Actors : y # x => at'[y] = at[y]
    BY <1>t, <2>1 DEF QueueTypeOK
  <2>5. Inserted' = Inserted \cup {elm[x]}
    <3>1. CASE x = "core"
      BY <1>e, <1>t, <2>1, <2>4, <3>1 DEF Inserted, Inserts
    <3>2. CASE x = "boot"
      BY <1>t, <2>1, <2>2, <2>4, <3>2 DEF Inserted
    <3> QED
      BY <1>t, <3>1, <3>2
  <2>6. prev'[elm[x]] = last /\ \A o \in Elems : o # elm[x] => prev'[o] = prev[o]
    BY <1>t, <2>1, <2>2 DEF QueueTypeOK
  <2>7. next[elm[x]] \in Inserted \cup {Null}
    BY <1>t, <1>e, <2>1 DEF PointersInv, PointersKnown, Inserts
  <2>8. PointersKnown'
    BY <1>t, <2>1, <2>5, <2>6, <2>7 DEF PointersKnown
  <2>9. at'["boot"] = "ins2" => next'[elm'["boot"]] = Null
    BY <1>t, <2>1, <2>4 DEF PointersInv
  <2> QED
    BY <1>t, <1>e, <2>1, <2>2, <2>3, <2>4, <2>5, <2>8, <2>9 DEF PointersInv, Inserts, Removes
<1>5. ASSUME NEW x \in Actors, Ins3(x) \/ Ins4(x) \/ LoadNelem(x) \/ Ins6(x) PROVE PointersInv'
  <2>1. /\ UNCHANGED <<prev, elm, current, created, overlapped>>
        /\ at[x] \in {"ins3", "ins4", "ins5", "ins6", "rem3"}
        /\ at'[x] \in {"ins4", "ins5", "ins6", "rem4", "first", "idle"}
        /\ at'[x] = "rem4" => at[x] = "rem3"
        /\ at'[x] = "first" => x = "core"
        /\ at'[x] \in {"ins4", "ins5", "ins6"} => at[x] \in {"ins3", "ins4", "ins5"}
        /\ at' = [at EXCEPT ![x] = at'[x]]
        /\ next' = next \/ (next' = [next EXCEPT ![last] = elm[x]] /\ at[x] = "ins3")
        /\ last' = last \/ (last' = elm[x] /\ at[x] = "ins4")
    BY <1>5, <1>t DEF Ins3, Ins4, LoadNelem, Ins6, QueueTypeOK
  <2>2. \A y \in Actors : y # x => at'[y] = at[y]
    BY <1>t, <2>1 DEF QueueTypeOK
  <2>3. x = "boot" => at[x] # "rem3"
    BY DEF PointersInv, Inserts
  <2>4. elm[x] \in Inserted
    BY <1>t, <1>e, <2>1, <2>3 DEF Inserts, Removes
  <2>5. QueueTypeOK'
    <3>1. /\ nelem' \in Int /\ tmp' \in [Actors -> Int] /\ fifo' \in Seq(Elems)
          /\ at' \in [Actors -> QueueLocations]
      <4>1. nelem \in Int /\ tmp \in [Actors -> Int] /\ elm[x] \in Elems /\ fifo \in Seq(Elems)
        BY <1>t, <2>4 DEF QueueTypeOK
      <4>2. Append(fifo, elm[x]) \in Seq(Elems)
        BY <4>1, AppendFacts
      <4>3. fifo' = fifo \/ fifo' = Append(fifo, elm[x])
        BY <1>5 DEF Ins3, Ins4, LoadNelem, Ins6
      <4>4. nelem' \in Int /\ tmp' \in [Actors -> Int]
        BY <1>5, <4>1 DEF Ins3, Ins4, LoadNelem, Ins6
      <4>5. at' \in [Actors -> QueueLocations]
        BY <1>t, <2>1 DEF QueueTypeOK, QueueLocations
      <4> QED
        BY <4>1, <4>2, <4>3, <4>4, <4>5
    <3>2. next' \in [Objects -> Elems \cup {Null}] /\ last' \in Objects
      BY <1>t, <2>1, <2>4 DEF QueueTypeOK, Objects
    <3> QED
      BY <1>t, <2>1, <3>1, <3>2 DEF QueueTypeOK
  <2>6. Inserted' = Inserted
    BY <1>t, <2>1, <2>2, <2>3 DEF Inserted
  <2>7. \A o \in Objects : next'[o] = next[o] \/ (o = last /\ next'[o] = elm[x])
    BY <1>t, <2>1 DEF QueueTypeOK
  <2>8. PointersKnown'
    BY <1>t, <2>1, <2>4, <2>6, <2>7 DEF PointersKnown, Objects
  <2>9. at'["boot"] = "ins2" => next'[elm'["boot"]] = Null
    <3>1. ASSUME at'["boot"] = "ins2" PROVE at["boot"] = "ins2" /\ elm["boot"] \notin Inserted
      BY <1>t, <1>e, <2>1, <2>2, <3>1
    <3>2. at["boot"] = "ins2" => elm["boot"] \in Objects /\ last # elm["boot"]
      BY <1>t, <1>e, <1>d DEF PointersKnown, Objects, Inserts
    <3> QED
      BY <2>1, <2>7, <3>1, <3>2 DEF PointersInv
  <2> QED
    BY <1>t, <1>e, <2>1, <2>2, <2>3, <2>4, <2>5, <2>6, <2>8, <2>9 DEF PointersInv, Inserts, Removes
<1>6. CASE First("core") \/ Rem1("core") \/ Rem2("core") \/ Rem4("core")
  <2> DEFINE e == elm["core"]
  <2>1. /\ UNCHANGED created /\ at' = [at EXCEPT !["core"] = at'["core"]]
        /\ at'["boot"] = at["boot"] /\ elm'["boot"] = elm["boot"]
        /\ UNCHANGED overlapped /\ fifo' \in {fifo, SubSeq(fifo, 2, Len(fifo))}
        /\ at["core"] \in {"first", "rem1", "rem2", "rem4"}
        /\ at'["core"] \in {"rem1", "rem2", "rem3", "idle", "parked"}
    BY <1>6, <1>t DEF First, Rem1, Rem2, Rem4, QueueTypeOK
  <2>2. Inserted' = Inserted
    BY <2>1 DEF Inserted
  <2>3. \A o \in Inserted \cup {Head0} : o \in Objects /\ next[o] \in Inserted \cup {Null}
    BY <1>t DEF PointersKnown, Objects
  <2>4. at["core"] # "first" => e \in Inserted /\ e \in Elems
    BY <1>t, <1>e, <2>1 DEF Removes
  <2>5. at["core"] # "first" => prev[e] \in Inserted \cup {Head0} /\ next[e] \in Inserted \cup {Null}
    BY <1>t, <2>3, <2>4 DEF PointersKnown
  <2>6. fifo' \in Seq(Elems)
    <3>1. fifo \in Seq(Elems)
      BY <1>t DEF QueueTypeOK
    <3>3. SubSeq(fifo, 2, Len(fifo)) \in Seq(Elems)
      <4>1. \A i \in 2 .. Len(fifo) : fifo[i] \in Elems
        BY <3>1
      <4> QED
        BY <3>1, <4>1, SubSeqProperties
    <3> QED
      BY <2>1, <3>1, <3>3
  <2>7. /\ (next' = next \/ (at["core"] = "rem2" /\ next' = [next EXCEPT ![prev[e]] = next[e]]))
        /\ (prev' = prev \/ (at["core"] = "rem1" /\ next[e] # Null
                             /\ prev' = [prev EXCEPT ![next[e]] = prev[e]]))
        /\ (last' = last \/ (at["core"] = "rem1" /\ last' = prev[e]))
        /\ (current' = current \/ (at["core"] = "rem4" /\ current' = e))
        /\ (elm' = elm \/ (at["core"] = "first" /\ elm' = [elm EXCEPT !["core"] = next[Head0]]))
        /\ (at["core"] = "first" =>
             /\ elm' = [elm EXCEPT !["core"] = next[Head0]]
             /\ (next[Head0] = Null => at'["core"] \in {"idle", "parked"}))
    <3>1. CASE First("core")
      BY <1>t, <3>1 DEF First, QueueTypeOK
    <3>2. CASE Rem1("core")
      BY <3>2 DEF Rem1
    <3>3. CASE Rem2("core")
      BY <3>3 DEF Rem2
    <3>4. CASE Rem4("core")
      BY <3>4 DEF Rem4
    <3> QED
      BY <1>6, <3>1, <3>2, <3>3, <3>4
  <2> HIDE DEF e
  <2>8. QueueTypeOK'
    <3>1. next' \in [Objects -> Elems \cup {Null}]
      BY <1>t, <2>5, <2>7 DEF QueueTypeOK, Objects
    <3>2. prev' \in [Elems -> Objects] /\ last' \in Objects
      BY <1>t, <2>5, <2>7 DEF QueueTypeOK, Objects
    <3>3. current' \in Elems \cup {Null} /\ elm' \in [Actors -> Elems \cup {Null}]
      BY <1>t, <2>3, <2>4, <2>7 DEF QueueTypeOK
    <3>4. at' \in [Actors -> QueueLocations]
      BY <1>t, <2>1 DEF QueueTypeOK, QueueLocations
    <3>5. nelem' \in Int /\ tmp' \in [Actors -> Int]
      BY <1>6, <1>t DEF First, Rem1, Rem2, Rem4, QueueTypeOK
    <3> QED
      BY <1>t, <2>1, <2>6, <3>1, <3>2, <3>3, <3>4, <3>5 DEF QueueTypeOK
  <2>9. \A o \in Objects : next'[o] = next[o] \/ (at["core"] = "rem2" /\ o = prev[e] /\ next'[o] = next[e])
    BY <1>t, <2>7 DEF QueueTypeOK
  <2>10. \A o \in Elems : prev'[o] = prev[o] \/ (at["core"] = "rem1" /\ prev'[o] = prev[e])
    BY <1>t, <2>7 DEF QueueTypeOK
  <2>11. PointersKnown'
    <3>1. \A o \in Inserted \cup {Head0} : next'[o] \in Inserted \cup {Null}
      BY <2>3, <2>5, <2>9
    <3>2. \A o \in Inserted : prev'[o] \in Inserted \cup {Head0}
      BY <1>t, <2>5, <2>10 DEF PointersKnown
    <3>3. last' \in Inserted \cup {Head0} /\ current' \in Inserted \cup {Null}
      BY <1>t, <2>4, <2>5, <2>7 DEF PointersKnown
    <3> QED
      BY <2>2, <3>1, <3>2, <3>3 DEF PointersKnown
  <2>12. at'["core"] \in Inserts \cup Removes => elm'["core"] \in Inserted
    <3>1. CASE at["core"] = "first"
      <4>1. elm'["core"] = next[Head0]
        BY <1>t, <2>7, <3>1 DEF QueueTypeOK
      <4> QED
        BY <2>1, <2>3, <2>7, <3>1, <4>1 DEF Inserts, Removes
    <3>2. CASE at["core"] # "first"
      BY <2>4, <2>7, <3>2 DEF e
    <3> QED
      BY <3>1, <3>2
  <2>13. at'["boot"] = "ins2" => next'[elm'["boot"]] = Null
    <3>1. at["boot"] = "ins2" => elm["boot"] \in Objects /\ elm["boot"] \notin Inserted /\ elm["boot"] # Head0
      BY <1>t, <1>e, <1>d DEF Objects, Inserts
    <3>2. at["core"] = "rem2" => prev[e] \in Inserted \cup {Head0}
      BY <2>5
    <3> QED
      BY <2>1, <2>9, <3>1, <3>2 DEF PointersInv
  <2> QED
    BY <1>t, <1>e, <2>1, <2>2, <2>8, <2>11, <2>12, <2>13 DEF PointersInv, Inserts, Removes
<1>7. CASE UNCHANGED queueVars
  BY <1>7, <1>t DEF queueVars, PointersInv, PointersKnown, Inserted, QueueTypeOK
<1> QED
  BY <1>1, <1>2, <1>3, <1>4, <1>5, <1>6, <1>7 DEF QueueNext

(* Without a lock, and however the stores of two processors interleave,    *)
(* following the pointers of a run queue ends at processes that were       *)
(* inserted: sched_dequeue_proc returns one of them or NULL.               *)
THEOREM PointersSound == QueueSpec => []PointersKnown
<1>1. PointersInv => PointersKnown
  BY DEF PointersInv
<1> QED
  BY <1>1, InitPointers, NextPointers, PTL DEF QueueSpec

(* For any number of processes: store by store, TAILQ_INSERT_TAIL and      *)
(* TAILQ_REMOVE keep the run queue first in first out between calls, with  *)
(* tqh_last, nelem and every tqe_prev right, from the first call to the    *)
(* first that overlaps another.                                            *)
THEOREM FifoKept == QueueSpec => []QueueIsFifo
<1> DEFINE SoFar == ~overlapped => QueueInv
<1>1. QueueInit => SoFar
  BY InitQueue
<1>2. PointersInv /\ SoFar /\ [QueueNext]_queueVars => SoFar'
  <2> SUFFICES ASSUME PointersInv, SoFar, [QueueNext]_queueVars, ~overlapped' PROVE QueueInv'
    OBVIOUS
  <2>1. overlapped \in BOOLEAN
    BY DEF PointersInv, QueueTypeOK
  <2>2. overlapped => overlapped'
    BY <2>1 DEF QueueNext, Interrupt, Create, Begin, Ins1, Ins2, Ins3, Ins4, LoadNelem, Ins6,
                First, Rem1, Rem2, Rem4, queueVars
  <2> QED
    BY <2>2, NextQueue
<1>3. SoFar => QueueIsFifo
  BY QueueInvImplies DEF QueueIsFifo
<1> QED
  BY <1>1, <1>2, <1>3, InitPointers, NextPointers, PTL DEF QueueSpec
=============================================================================
