--------------------------- MODULE CircularBuffer ---------------------------
(***************************************************************************)
(* The circular buffer (packages/circular_buffer): an array that is        *)
(* written at a head which moves round, and is read by positions that are  *)
(* taken modulo the capacity.                                              *)
(***************************************************************************)
EXTENDS Integers, FiniteSetsExt

CONSTANTS Capacity,  \* OBSERVATIONS_SIZE
          NoValue    \* what an empty position reads as

ASSUME CapacityAssumption == Capacity \in Nat \ {0}

VARIABLES head,   \* the state's head
          array   \* what is stored, by position

bufferVars == <<head, array>>

BufferInit ==
  /\ head = 0
  /\ array = [i \in 0..(Capacity - 1) |-> NoValue]

(* read_single: positions may run past the end.                            *)
ReadSingle(i) == array[i % Capacity]
Exists(i) == ReadSingle(i) # NoValue
ReadLast == ReadSingle(Capacity + head - 1)

(* instant_push: the value is written and the head moves on, in one step.  *)
InstantPush(value) ==
  /\ array' = [array EXCEPT ![head] = value]
  /\ head' = (head + 1) % Capacity
=============================================================================
