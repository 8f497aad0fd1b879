------------------------------ MODULE Handover ------------------------------
(***************************************************************************)
(* What the I/O handshake promises, without semaphores, doorbells or DMA   *)
(* requests: the I/O buffers of a program go back and forth between the    *)
(* NSPs and the host.  Each NSP gives its buffers to the host, the host    *)
(* moves one inference's data once every NSP has, and an NSP takes its     *)
(* buffers back after the move.  HostInputs and HostOutputs implement it.  *)
(***************************************************************************)
EXTENDS Integers

CONSTANTS
  Members,   \* the NSPs that take part
  AtHost     \* whether the buffers start on the host's side

VARIABLES
  owner,     \* owner[n]: who may touch n's buffers, "nsp" or "host"
  gives,     \* gives[n]: how many times n has given its buffers
  moves      \* how many inferences the host has moved

vars == <<owner, gives, moves>>

Init ==
  /\ owner = [n \in Members |-> IF AtHost THEN "host" ELSE "nsp"]
  /\ gives = [n \in Members |-> 0]
  /\ moves = 0

Give(n) ==
  /\ owner[n] = "nsp"
  /\ gives[n] = moves
  /\ owner' = [owner EXCEPT ![n] = "host"]
  /\ gives' = [gives EXCEPT ![n] = @ + 1]
  /\ UNCHANGED moves

\* Every member has given, and none has taken back: the data moves.
Move ==
  /\ \A n \in Members : owner[n] = "host" /\ gives[n] = moves + 1
  /\ moves' = moves + 1
  /\ UNCHANGED <<owner, gives>>

Take(n) ==
  /\ owner[n] = "host"
  /\ gives[n] = moves
  /\ owner' = [owner EXCEPT ![n] = "nsp"]
  /\ UNCHANGED <<gives, moves>>

Next == Move \/ \E n \in Members : Give(n) \/ Take(n)

Spec == Init /\ [][Next]_vars

=============================================================================
