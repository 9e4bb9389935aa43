------------------------------ MODULE HeapState -----------------------------
(***************************************************************************)
(* The state of class Heap that does not depend on how its free bytes are  *)
(* kept: Heap and HeapList differ in that alone.                           *)
(***************************************************************************)
EXTENDS Ranges

VARIABLES
    allocations,   \* Heap._allocations: address |-> bytes
    reply          \* what the last call returned or raised
=============================================================================
