---------------------------- MODULE MCHostOutputs ---------------------------
(* Models of HostOutputs.  MCOutputNsps: n1 and n2 have parts in output 0,  *)
(* n1 alone writes output 1.  MCOneSender: only n1 has outputs.              *)
EXTENDS HostOutputs

CONSTANTS n1, n2, n3

MCNSPs == {n1, n2, n3}
MCOutputNsps == [o \in 0 .. 1 |-> IF o = 0 THEN {n1, n2} ELSE {n1}]
MCMask == {n1, n2}

MCTwoNSPs == {n1, n2}
MCOneSender == [o \in 0 .. 0 |-> {n1}]
=============================================================================
