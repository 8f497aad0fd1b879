-------------------------- MODULE OrderedBroadcast --------------------------
(***************************************************************************)
(* What broadcastToBuffer promises the program, without descriptors: the   *)
(* broadcasts of a thread become visible at each NSP they are meant for    *)
(* one after another, in the order of the calls.  UdmaRing implements it.  *)
(***************************************************************************)
EXTENDS Integers, Sequences

CONSTANTS NSPs

VARIABLES
  sent,      \* sent[b]: the NSPs broadcast b is for
  visible    \* visible[n]: the last broadcast n has been told of, 0 if none

vars == <<sent, visible>>

Init ==
  /\ sent = <<>>
  /\ visible = [n \in NSPs |-> 0]

Send(nsps) ==
  /\ sent' = Append(sent, nsps)
  /\ UNCHANGED visible

\* Broadcast b becomes visible at some of its NSPs: the earlier ones for them already are.
Arrive(b) ==
  /\ \E ns \in SUBSET sent[b] :
       /\ \A n \in ns : visible[n] < b
       /\ \A n \in ns, c \in 1 .. b - 1 : n \in sent[c] => c <= visible[n]
       /\ visible' = [n \in NSPs |-> IF n \in ns THEN b ELSE visible[n]]
  /\ UNCHANGED sent

Next ==
  \/ \E nsps \in SUBSET NSPs : Send(nsps)
  \/ \E b \in 1 .. Len(sent) : Arrive(b)

Spec == Init /\ [][Next]_vars

=============================================================================
