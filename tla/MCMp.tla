-------------------------------- MODULE MCMp --------------------------------
(* Instances of Mp: boot processor 0, up to five application processors.   *)
EXTENDS Mp

L(i, on) == [type |-> "lapic", apic_id |-> i, online |-> on]
Other    == [type |-> "other", apic_id |-> 0, online |-> FALSE]

(* The boot processor, an entry of another type, a processor that is not   *)
(* online capable, and one more processor than cpu_list has room for.      *)
FullMadt == <<L(0, TRUE), L(1, TRUE), Other, L(2, FALSE), L(3, TRUE),
              L(4, TRUE), L(5, TRUE)>>

(* Starts with an entry of another type; two processors.                   *)
PairMadt == <<Other, L(1, TRUE), L(0, TRUE), L(2, TRUE)>>

BothMadts == {FullMadt, PairMadt}
JustPair  == {PairMadt}

(* The boot processor is number 2.                                         *)
OtherBspMadt == {<<L(2, TRUE), L(0, TRUE), L(1, TRUE)>>}

(* Frame numbers: the pages of the trampoline and of the descriptor are 8  *)
(* and 9 (0x8000 and 0x9000), in the pool or not.                          *)
Reserved == Frames \ {AP_BUA, AP_BUDA}

Low(S, n) == {f \in S : Cardinality({g \in S : g <= f}) <= n}

(* The two pages not in the pool: memory for everything; a heap for the    *)
(* idle process and one processor, or for nothing; one stack after         *)
(* bootspace and idle process; frames for the bootspace but not the idle   *)
(* process; and not even for the bootspace.                                *)
KeptApart == {<<Reserved, 5>>, <<Reserved, 2>>, <<Reserved, 0>>, <<Low(Reserved, 10), 5>>,
              <<Low(Reserved, 8), 5>>, <<Low(Reserved, 3), 5>>}

(* The two pages in the pool: they become tables of the idle process, its  *)
(* root and stack, the last two or the first tables of the bootspace, or,  *)
(* when the idle process had to give them back, a stack and the root of a  *)
(* processor.                                                              *)
InPool == {<<Frames, 5>>, <<Frames \ (1 .. 3), 5>>, <<Frames \ (1 .. 5), 5>>,
           <<Frames \ (1 .. 8), 5>>, <<(1 .. 4) \cup {8, 9}, 5>>}

AnySupply  == KeptApart \cup InPool
FullSupply == {<<Reserved, 5>>}
PoolSupply == {<<Frames, 5>>}
=============================================================================
