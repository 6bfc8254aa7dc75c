---------------------------- MODULE MCAlgorithms ----------------------------
(* The code the components rest on: the tail queue, store by store; the    *)
(* scan for a free frame over every bitmap of 8 frames; and the functions  *)
(* of module Library over all inputs within bounds.  A behaviour is the    *)
(* life of one queue, one scan or one call; what it does not use rests.    *)
EXTENDS PhysScan, Library, TailQueue

EightFrames == <<[base |-> 0, length |-> 16, usable |-> TRUE]>>

Item(conv, arg, pad) == [conv |-> conv, arg |-> arg, pad |-> pad]

(* Every integer by itself, and short formats in buffers they may fill:    *)
(* with a width that is not used up, an unknown conversion, and a '%' at   *)
(* the end with something behind it.                                       *)
Integers8 == -128 .. 127
Single == {Item(conv, v, <<>>) : conv \in {"d", "x", "p"}, v \in Integers8}
            \cup {Item("d", v, <<4>>) : v \in 0 .. 127}
Mixed == {Item("literal", "A", <<>>), Item("c", "B", <<>>), Item("s", <<"C", "D">>, <<>>),
          Item("d", -17, <<>>), Item("d", 5, <<3>>), Item("x", 10, <<4>>), Item("p", 175, <<>>),
          Item("other", 0, <<>>)}
Zero == Item("end", 0, <<>>)
RunOn == <<Item("trail", 0, <<>>), Item("s", <<"Y", "Z">>, <<>>), Zero>>
Formats ==
  [op : {"vsnprintf"}, size : {8}, fmt : {<<item, Zero>> : item \in Single}]
    \cup [op : {"vsnprintf"}, size : 1 .. 7,
           fmt : {f \o tail : f \in BoundedSeq(Mixed, 3), tail \in {<<Zero>>, RunOn}}]

Tables == [signature : {"APIC", "HPET"}, checksum : {0, 1}]
Queries == [op : {"acpi_query"}, s : {"APIC"},
            root : [revision : {0, 2}, tables : BoundedSeq(Tables, 4),
                    low : Tables \cup {[signature |-> "none", checksum |-> 1]}]]

Delays == [op : {"hpet_msleep"}, hpet_enabled : BOOLEAN, counter : {0, 9, 37, 240},
           elapsed : {0, 6, 15}, period : 1 .. 5, ms : 0 .. 9]

AllCalls == {Nil} \cup Formats \cup Queries \cup Delays

ScanRests ==
  /\ bits = [f \in Frames |-> TRUE] /\ wanted = 1
  /\ index = 0 /\ frames_found = 0 /\ index_start = -1 /\ done = TRUE

LibraryRests == call = Nil /\ result = <<>>

QueueRests ==
  /\ next = [o \in Objects |-> Null] /\ prev = [e \in Elems |-> Head0] /\ last = Head0
  /\ nelem = 0 /\ tmp = [x \in Actors |-> 0]
  /\ at = [x \in Actors |-> "parked"] /\ elm = [x \in Actors |-> Null]
  /\ current = Null /\ created = {} /\ fifo = <<>> /\ overlapped = FALSE

OneInit ==
  \/ ScanInit /\ LibraryRests /\ QueueRests
  \/ ScanRests /\ LibraryInit /\ call # Nil /\ QueueRests
  \/ ScanRests /\ LibraryRests /\ QueueInit

OneNext ==
  \/ ScanNext /\ UNCHANGED <<libraryVars, queueVars>>
  \/ Run /\ UNCHANGED <<scanVars, queueVars>>
  \/ QueueNext /\ UNCHANGED <<scanVars, libraryVars>>

(* The queue's elements are alike.                                         *)
Symmetry == Permutations(Elems)

OneSpec == OneInit /\ [][OneNext]_<<scanVars, libraryVars, queueVars>>
=============================================================================
