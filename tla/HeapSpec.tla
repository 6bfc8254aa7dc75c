------------------------------ MODULE HeapSpec ------------------------------
(***************************************************************************)
(* What the kernel heap promises, with no blocks, lists or lock in sight:  *)
(* the bytes given to one caller are in the pool and belong to nobody      *)
(* else until they are given back.                                         *)
(***************************************************************************)
EXTENDS Integers

CONSTANTS Top,      \* addresses are at most Top
          Places    \* where an allocation may start

VARIABLES pool,     \* the addresses the heap manages
          live      \* live[p]: bytes asked for at p, 0 if p is not allocated

vars == <<pool, live>>

Extent(p, n) == p .. p + n - 1

Live == {p \in Places : live[p] # 0}

Fits(p, n, others) ==
  /\ Extent(p, n) \subseteq pool
  /\ \A q \in others : Extent(p, n) \cap Extent(q, live[q]) = {}

Init == pool = {} /\ live = [p \in Places |-> 0]

Alloc ==
  \E p \in Places \ Live :
    /\ live' = [live EXCEPT ![p] = live'[p]]
    /\ live'[p] \in 1 .. Top /\ Fits(p, live'[p], Live)
    /\ UNCHANGED pool

Free == \E p \in Live : live' = [live EXCEPT ![p] = 0] /\ UNCHANGED pool

(* The contents are copied, so a new place overlaps neither the old one    *)
(* nor anybody else's.                                                     *)
Resize ==
  \E p \in Live, q \in Places :
    /\ live' = [live EXCEPT ![p] = 0, ![q] = live'[q]]
    /\ live'[q] \in 1 .. Top /\ Fits(q, live'[q], IF q = p THEN Live \ {p} ELSE Live)
    /\ UNCHANGED pool

AddPool == pool = {} /\ pool' \subseteq 0 .. Top /\ UNCHANGED live

RemovePool == Live = {} /\ pool' = {} /\ UNCHANGED live

Next == Alloc \/ Free \/ Resize \/ AddPool \/ RemovePool

Spec == Init /\ [][Next]_vars
=============================================================================
