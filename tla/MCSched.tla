------------------------------ MODULE MCSched -------------------------------
(* Instances of Sched: the boot processor and one or two others.           *)
EXTENDS Sched

Unpinned == {-1}
SomePinned == {-1, 1}

(* curproc of a new processor: zero by luck, or anything.                  *)
Zeroed == {-1}
AnyWord == {-1, -2}
=============================================================================
