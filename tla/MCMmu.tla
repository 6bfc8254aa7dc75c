------------------------------- MODULE MCMmu -------------------------------
(* Four slots a table, two of them in the upper half.  STACK_TOP has the   *)
(* shape of 0xBFFFFFFF: slot 0 of PML4, another lower slot of PML3, and    *)
(* the last slots of PML2 and PML1.                                        *)
EXTENDS Mmu, TLC

MCStackTop == 3 + 3 * Slots + 1 * Slots * Slots

AnyProcess == Permutations(Processes)
=============================================================================
