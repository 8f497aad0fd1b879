---------------------------- MODULE MCHostInputs ----------------------------
(* Model of HostInputs: two NSPs share input 0, only n1 gets input 1, and n3 *)
(* has no inputs but runs the same program and waits for input 0 only.       *)
EXTENDS PartialInputs

CONSTANTS n1, n2, n3

MCNSPs == {n1, n2, n3}
MCInputNsps == [i \in 0 .. 1 |-> IF i = 0 THEN {n1, n2} ELSE {n1}]
MCAwaits == [n \in MCNSPs |-> IF n = n3 THEN {0} ELSE {0, 1}]
=============================================================================
