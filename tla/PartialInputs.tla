--------------------------- MODULE PartialInputs ---------------------------
(***************************************************************************)
(* Lookups of partial inputs (getBufferAddr and getBufferSize of           *)
(* runtime/lib/BufferDesc.cpp) by the I/O thread of an NSP, on top of the  *)
(* input handshake.  The host writes how much it sends, and where, into a  *)
(* header of the buffer; a lookup first tests the doorbell and then reads  *)
(* the header, two steps between which everybody else moves on.  If the    *)
(* doorbell is not there the runtime ends the program on this NSP.         *)
(***************************************************************************)
EXTENDS HostInputs

CONSTANTS Partial,   \* the inputs with allowPartial
          Lookers    \* the NSPs whose program looks buffers up

ASSUME PartialAssumption == Partial \subseteq Inputs /\ Lookers \subseteq NSPs

VARIABLES
  look,     \* look[n]: the lookup n is in, between the test and the header, or Idle
  found,    \* found[n][i][l]: the inference whose header lookup l of i last read, 0 if none
  fatal,    \* the NSPs that ended in ERR_FATAL
  cleared   \* cleared[n]: did n's wait for its current inputs clear their doorbells?

lookVars == <<look, found, fatal, cleared>>
allVars == <<vars, lookVars>>

Lookups == {"getBufferAddr", "getBufferSize"}
Idle == <<>>
NothingFound == [i \in Inputs |-> [l \in Lookups |-> 0]]

LookInit ==
  /\ Init
  /\ look = [n \in NSPs |-> Idle]
  /\ found = [n \in NSPs |-> NothingFound]
  /\ fatal = {}
  /\ cleared = [n \in NSPs |-> FALSE]

\* The program has the thread: before its first call, and between two calls.
InProgram(n) == n \in Lookers /\ pc[n] \in {"owns", "called"} /\ look[n] = Idle /\ n \notin fatal

\* The two tests of a lookup: is the buffer in this NSP, has the host rung?
Tests(n, i) == n \in InputNsps[i] /\ isBufferValid(n, i)

\* A partial input passes the tests, and the header comes next.
StartLookup(n, i, l) ==
  /\ InProgram(n) /\ i \in Partial /\ Tests(n, i)
  /\ look' = [look EXCEPT ![n] = <<i, l>>]
  /\ UNCHANGED <<vars, found, fatal, cleared>>

\* ... or does not: ERR_FATAL does not return.
LookupDies(n, i) ==
  /\ InProgram(n) /\ i \in Partial /\ ~Tests(n, i)
  /\ fatal' = fatal \union {n}
  /\ UNCHANGED <<vars, look, found, cleared>>

\* Other inputs: the address needs the buffer to be in this NSP, the size is the descriptor's.
AddrDies(n, i) ==
  /\ InProgram(n) /\ i \notin Partial /\ n \notin InputNsps[i]
  /\ fatal' = fatal \union {n}
  /\ UNCHANGED <<vars, look, found, cleared>>

\* pHeader->offset or pHeader->size.
ReadHeader(n) ==
  /\ look[n] # Idle
  /\ found' = [found EXCEPT ![n][look[n][1]][look[n][2]] = ver[n][look[n][1]]]
  /\ look' = [look EXCEPT ![n] = Idle]
  /\ UNCHANGED <<vars, fatal, cleared>>

\* The handshake's steps of n; what was looked up goes with the inputs.
Handshake(n) ==
  /\ look[n] = Idle /\ n \notin fatal
  /\ NspStep(n)
  /\ found' = [found EXCEPT ![n] = IF pc'[n] = "clearing" THEN NothingFound ELSE @]
  /\ cleared' = [cleared EXCEPT ![n] = IF pc'[n] = "clearing" THEN FALSE ELSE @ \/ clear'[n]]
  /\ UNCHANGED <<look, fatal>>

LookNext ==
  \/ (DmaStep \/ \E n \in NSPs : DeliverDoorbell(n)) /\ UNCHANGED lookVars
  \/ \E n \in NSPs : Handshake(n) \/ ReadHeader(n)
  \/ \E n \in NSPs, i \in Inputs : LookupDies(n, i) \/ AddrDies(n, i)
  \/ \E n \in NSPs, i \in Inputs, l \in Lookups : StartLookup(n, i, l)

LookSpec == LookInit /\ [][LookNext]_allVars

-----------------------------------------------------------------------------
\* Address and size an NSP has looked up belong to one and the same inference, the one it
\* last asked for, even if it looked up the one before waiting and the other after: the
\* doorbell tested is never one that an earlier inference left, and the host does not
\* overwrite the header between the test and the read (BufferDesc.cpp:50,59,68,77).
LookupsAreCurrent ==
  /\ \A n \in NSPs, i \in Partial, l \in Lookups : found[n][i][l] \in {0, signals[n]}
  /\ dmaPhase = "xfer" => \A n \in InputNsps[dmaIdx] : look[n] # Idle => look[n][1] # dmaIdx

\* A program that waited for its inputs and did not have their doorbells cleared is not
\* ended by a lookup, until it signals again (BufferDesc.cpp:51).
WaitedLookupsSucceed ==
  \A n \in HasInputsMask : pc[n] = "owns" /\ signals[n] > 0 /\ ~cleared[n] =>
    \A i \in Awaited(n) : isBufferValid(n, i)
=============================================================================
