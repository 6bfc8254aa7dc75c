------------------------------ MODULE PhysScan ------------------------------
(***************************************************************************)
(* The loop of __vm_phys_alloc as it is written, one iteration per step,   *)
(* on an arbitrary bitmap: the evidence that PhysBitmap's IndexStart,      *)
(* which PhysMem uses in its place, is what the loop computes.             *)
(***************************************************************************)
EXTENDS PhysBitmap

CONSTANT MaxCount    \* longest run asked for

ASSUME MaxCountAssumption == MaxCount \in Nat

VARIABLES bits, wanted,         \* the inputs: the bitmap and count
          index,                \* the loop's i
          frames_found, index_start,
          done                  \* has the loop been left?

scanVars == <<bits, wanted, index, frames_found, index_start, done>>

ScanInit ==
  /\ bits \in [Frames -> BOOLEAN]
  /\ wanted \in 1 .. MaxCount
  /\ index = 0 /\ frames_found = 0 /\ index_start = -1
  /\ done = FALSE

(* Iterate that breaks one frame too late.                                 *)
Iterate_Late ==
  /\ ~done /\ index < max_index
  /\ IF bits[index]
       THEN index_start' = -1 /\ UNCHANGED <<frames_found, done>>
       ELSE /\ index_start' = IF index_start < 0 THEN index ELSE index_start
            /\ frames_found' = frames_found + 1
            /\ done' = (frames_found + 1 > wanted)
  /\ index' = index + 1
  /\ UNCHANGED <<bits, wanted>>

(* One iteration: a free frame opens a run if none is open and is counted, *)
(* and the loop breaks at the count-th; a used frame closes the run.       *)
Iterate ==
  /\ ~done /\ index < max_index
  /\ IF bits[index]
       THEN /\ index_start' = -1
            /\ UNCHANGED <<frames_found, done>>
       ELSE /\ index_start' = IF index_start < 0 THEN index ELSE index_start
            /\ frames_found' = frames_found + 1
            /\ done' = (frames_found + 1 >= wanted)
  /\ index' = index + 1
  /\ UNCHANGED <<bits, wanted>>

Finish ==
  /\ ~done /\ index = max_index
  /\ done' = TRUE
  /\ UNCHANGED <<bits, wanted, index, frames_found, index_start>>

ScanNext == Iterate \/ Finish

ScanSpec == ScanInit /\ [][ScanNext]_scanVars

(* ScanIsIndexStart: when the loop is left, index_start is what the closed *)
(* form says, for every bitmap and every count.                            *)
ScanIsIndexStart ==
  done => IndexStart(bits, wanted) = {index_start} \ {-1}

=============================================================================
