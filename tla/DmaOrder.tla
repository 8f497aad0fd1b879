------------------------------ MODULE DmaOrder ------------------------------
(***************************************************************************)
(* The descriptors libdev_copy_dma_doorbells gives a user DMA engine, and  *)
(* the order in which the engine finishes them, as the code relies on it   *)
(* (AICDefsInternal.h:60-61): descriptors start in list order and may      *)
(* finish in any order, but one whose order bit is set starts only when    *)
(* all earlier ones are finished.                                          *)
(***************************************************************************)
EXTENDS Integers, Sequences

\* Payload, doorbell in the NSP's own L2TCM, doorbell multicast to the other NSPs.
Kinds == {"payload", "local", "global"}

\* Mutant: the local doorbell's order bit is not set.
NotOrdered(kind) == FALSE

\* The order bit: only the local doorbell's is set.
Ordered(kind) == kind = "local"

\* queue is the list of unfinished descriptors.  The i-th may finish unless it, or one
\* the list has to start before it, still waits for earlier ones.
CanFinish(queue, i) == \A j \in 2 .. i : ~Ordered(queue[j].kind)

\* The unfinished descriptors after the i-th has finished.
Finished(queue, i) ==
  [j \in 1 .. Len(queue) - 1 |-> IF j < i THEN queue[j] ELSE queue[j + 1]]

=============================================================================
