------------------------------ MODULE LockSpec ------------------------------
(***************************************************************************)
(* What a kernel spin lock promises its callers, with no lock word, no     *)
(* interrupt flag and no processor in sight: at most one thread owns the   *)
(* lock, a thread takes it only when nobody owns it, and only the owner    *)
(* gives it up.  Spinlock implements this specification; PhysMem, whose    *)
(* operations run under bitmap_lock, is written against it.                *)
(***************************************************************************)

CONSTANTS Threads,   \* the threads that may call the lock
          None       \* "nobody"

VARIABLE owner

TypeOK == owner \in Threads \cup {None}

Init == owner = None

Acquire(t) == owner = None /\ owner' = t

Release(t) == owner = t /\ owner' = None

Next == \E t \in Threads : Acquire(t) \/ Release(t)

Spec == Init /\ [][Next]_owner
=============================================================================
