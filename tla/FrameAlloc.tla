----------------------------- MODULE FrameAlloc -----------------------------
(***************************************************************************)
(* What the physical memory manager promises the rest of the kernel for    *)
(* single frames, the only size anything but the heap asks for: a frame is *)
(* free or belongs to exactly one caller, and goes from one to the other   *)
(* only when that caller allocates or frees it.  The address 0 stands for  *)
(* failure, so frame 0 is never handed out; it may drop out of the pool.   *)
(***************************************************************************)
EXTENDS Integers

CONSTANTS Threads,    \* callers
          Frames,     \* frame numbers
          Pool        \* the possible sets of frames that are free at the start

VARIABLES free,       \* frames nobody owns
          owned       \* owned[t]: frames thread t was given and did not free

vars == <<free, owned>>

Init == free \in Pool /\ owned = [t \in Threads |-> {}]

Alloc(t) ==
  \E f \in free \ {0} :
    /\ free' = free \ {f}
    /\ owned' = [owned EXCEPT ![t] = @ \cup {f}]

Free(t) ==
  \E f \in owned[t] :
    /\ owned' = [owned EXCEPT ![t] = @ \ {f}]
    /\ free' = free \cup {f}

DropFrameZero == 0 \in free /\ free' = free \ {0} /\ UNCHANGED owned

Next == DropFrameZero \/ \E t \in Threads : Alloc(t) \/ Free(t)

Spec == Init /\ [][Next]_vars
=============================================================================
