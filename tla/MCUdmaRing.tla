----------------------------- MODULE MCUdmaRing -----------------------------
(* Models of UdmaRing.  MCMasks: buffers of this NSP, of one other, of both    *)
(* others.  MCSelfMask: a buffer of this NSP only.                             *)
EXTENDS UdmaRing

CONSTANTS n0, n1, n2

MCOthers == {n1, n2}
MCMasks == {{n0}, {n1}, {n1, n2}}
MCSelfMask == {{n0}}
=============================================================================
