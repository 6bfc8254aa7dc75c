---------------------------- MODULE MCSpinlock ------------------------------
(* Three threads on two processors, two of them sharing the first.         *)
EXTENDS Spinlock, TLC

CONSTANTS t1, t2, t3, c1, c2

SharedHome == (t1 :> c1) @@ (t2 :> c1) @@ (t3 :> c2)
=============================================================================
