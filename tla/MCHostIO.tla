------------------------------ MODULE MCHostIO ------------------------------
(* Model of HostIO: n1 and n2 both take part in inputs and outputs.         *)
EXTENDS HostIO

CONSTANTS n1, n2

MCNSPs == {n1, n2}
MCInputNsps == [i \in 0 .. NumInputs - 1 |-> IF i = 0 THEN {n1, n2} ELSE {n1}]
MCOutputNsps == [o \in 0 .. NumOutputs - 1 |-> IF o = 0 THEN {n1, n2} ELSE {n2}]
MCAwaits == [n \in MCNSPs |-> 0 .. NumInputs - 1]
=============================================================================
