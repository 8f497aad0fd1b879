----------------------------- MODULE HostOutputs ----------------------------
(***************************************************************************)
(* The output half of the host I/O handshake.                              *)
(*                                                                         *)
(* NSP side: waitForAllOutputsReady and sendAllOutputs of                  *)
(* runtime/lib/ComputeAPI.cpp.  Host side: the DMA requests Program.cpp    *)
(* generates for the outputs (WAITEQ 0, transfer to the host, INIT         *)
(* popcount(outMask) after the last one, doorbell to every NSP).  The      *)
(* engine and the doorbells behave as in HostInputs.                       *)
(*                                                                         *)
(* HasInputsMask is a parameter because sendAllOutputs tests it: the line  *)
(* reads hasInputsMask where the semaphore values are computed from the    *)
(* outputs' masks.                                                         *)
(***************************************************************************)
EXTENDS Integers, FiniteSets

CONSTANTS
  NSPs,           \* the NSPs the program runs on
  NumOutputs,     \* number of output buffers of the program config
  OutputNsps,     \* OutputNsps[o]: the NSPs that write a part of output o
  HasInputsMask,  \* the NSPs that have inputs
  WaitArgs,       \* the values the program passes for waitForArrival
  ClearArgs,      \* the values the program passes for clear
  Inferences,     \* number of inferences the host submits (bounds the model)
  SemMax          \* largest value of a host semaphore (12 bits: 4095)

Outputs == 0 .. NumOutputs - 1

ASSUME NSPsAssumption    == IsFiniteSet(NSPs)
ASSUME OutputsAssumption == /\ NumOutputs \in Nat \ {0}
                            /\ OutputNsps \in [Outputs -> SUBSET NSPs]
ASSUME MaskAssumption    == HasInputsMask \subseteq NSPs
ASSUME ArgsAssumption    == WaitArgs \subseteq BOOLEAN /\ ClearArgs \subseteq BOOLEAN
ASSUME InferencesAssumption == Inferences \in Nat
ASSUME SemMaxAssumption  == SemMax \in Nat /\ Cardinality(NSPs) <= SemMax

\* Mutant: each output overwrites the mask instead of adding to it.
LastOutputMask == OutputNsps[NumOutputs - 1]

\* progDesc.hasOutputsMask, the union of the output buffers' nspMasks.
HasOutputsMask == UNION {OutputNsps[o] : o \in Outputs}

\* Mutant: the semaphore lets the engine start one decrement early.
OutputSemOneLess == Cardinality(HasOutputsMask) - 1

\* The value the output semaphore starts from and is re-initialised to.
OutputSemInitVal == Cardinality(HasOutputsMask)

VARIABLES
  db,        \* db[n][o]: the doorbell word of output o in the L2TCM of NSP n
  flight,    \* flight[n]: output doorbells written by the engine, not yet landed at n
  sem,       \* the output semaphore
  dmaRound,  \* number of inferences whose outputs the host has received
  dmaIdx,    \* the output DMA request being executed
  dmaPhase,  \* what it does next: "pre", "xfer", "post" or "ring"
  part,      \* part[n]: the inference whose results are in n's output buffers
  pc,        \* pc[n]: where the thread of n that sends outputs is
  k,         \* k[n]: the loop counter buffNum of the call n is in
  wait,      \* wait[n]: argument waitForArrival of the call n is in
  clear,     \* clear[n]: argument clear of the call n is in
  sends      \* sends[n]: number of completed sendAllOutputs signals of n

dmaVars == <<dmaRound, dmaIdx, dmaPhase>>
nspVars == <<pc, k, wait, clear, sends>>
vars == <<db, flight, sem, dmaVars, part, nspVars>>

(***************************************************************************)
(* pc: "called"    the program has not waited for its output buffers       *)
(*     "waiting"   in waitForAllOutputsReady                               *)
(*     "seen"      in waitForBuffer, doorbell observed, about to clear it  *)
(*     "owns"      the program may write its output buffers                *)
(*     "written"   it has, and is about to call sendAllOutputs             *)
(*     "clearing"  in sendAllOutputs, clearing doorbells                   *)
(***************************************************************************)
PCs == {"called", "waiting", "seen", "owns", "written", "clearing"}
Phases == {"pre", "xfer", "post", "ring"}

TypeOK ==
  /\ db \in [NSPs -> [Outputs -> {0, 1}]]
  /\ flight \in [NSPs -> SUBSET Outputs]
  /\ sem \in 0 .. SemMax
  /\ dmaRound \in Nat
  /\ dmaIdx \in Outputs
  /\ dmaPhase \in Phases
  /\ part \in [NSPs -> Nat]
  /\ pc \in [NSPs -> PCs]
  /\ k \in [NSPs -> Nat]
  /\ wait \in [NSPs -> BOOLEAN]
  /\ clear \in [NSPs -> BOOLEAN]
  /\ sends \in [NSPs -> Nat]

\* Mutant: output doorbells start at 0, as those of inputs do.
InitDoorbellsClear ==
  /\ db = [n \in NSPs |-> [o \in Outputs |-> 0]]
  /\ flight = [n \in NSPs |-> {}]
  /\ sem = OutputSemInitVal
  /\ dmaRound = 0 /\ dmaIdx = 0 /\ dmaPhase = "pre"
  /\ part = [n \in NSPs |-> 0]
  /\ pc = [n \in NSPs |-> "called"]
  /\ k = [n \in NSPs |-> 0]
  /\ wait = [n \in NSPs |-> FALSE]
  /\ clear = [n \in NSPs |-> FALSE]
  /\ sends = [n \in NSPs |-> 0]

\* Output doorbells start at 1: the buffers are free for the program to write.
Init ==
  /\ db = [n \in NSPs |-> [o \in Outputs |-> 1]]
  /\ flight = [n \in NSPs |-> {}]
  /\ sem = OutputSemInitVal
  /\ dmaRound = 0
  /\ dmaIdx = 0
  /\ dmaPhase = "pre"
  /\ part = [n \in NSPs |-> 0]
  /\ pc = [n \in NSPs |-> "called"]
  /\ k = [n \in NSPs |-> 0]
  /\ wait = [n \in NSPs |-> FALSE]
  /\ clear = [n \in NSPs |-> FALSE]
  /\ sends = [n \in NSPs |-> 0]

-----------------------------------------------------------------------------
(* NSP n *)

isBufferValid(n, o) == db[n][o] = 1

clearBufferValid(n, o) == db' = [db EXCEPT ![n][o] = 0]

\* The program calls waitForAllOutputsReady before it writes.
WaitForAllOutputsReady(n) ==
  /\ pc[n] = "called"
  /\ pc' = [pc EXCEPT ![n] = "waiting"]
  /\ k' = [k EXCEPT ![n] = 0]
  /\ \E c \in ClearArgs : clear' = [clear EXCEPT ![n] = c]
  /\ UNCHANGED <<db, flight, sem, dmaVars, part, wait, sends>>

\* waitForBuffer(k): os_doorbell_wait_eq returns when the doorbell has its value.
WaitForBuffer(n) ==
  /\ pc[n] = "waiting"
  /\ k[n] < NumOutputs
  /\ isBufferValid(n, k[n])
  /\ IF clear[n] THEN /\ pc' = [pc EXCEPT ![n] = "seen"]
                      /\ k' = k
                 ELSE /\ pc' = pc
                      /\ k' = [k EXCEPT ![n] = @ + 1]
  /\ UNCHANGED <<db, flight, sem, dmaVars, part, wait, clear, sends>>

\* The store of waitForBuffer(..., clear = true), after the wait.
ClearSeenBuffer(n) ==
  /\ pc[n] = "seen"
  /\ clearBufferValid(n, k[n])
  /\ pc' = [pc EXCEPT ![n] = "waiting"]
  /\ k' = [k EXCEPT ![n] = @ + 1]
  /\ UNCHANGED <<flight, sem, dmaVars, part, wait, clear, sends>>

\* The wait loop is over.
OutputsReady(n) ==
  /\ pc[n] = "waiting"
  /\ k[n] = NumOutputs
  /\ pc' = [pc EXCEPT ![n] = "owns"]
  /\ k' = [k EXCEPT ![n] = 0]
  /\ clear' = [clear EXCEPT ![n] = FALSE]
  /\ UNCHANGED <<db, flight, sem, dmaVars, part, wait, sends>>

\* The program writes the results of inference v.
WriteOutputs(n, v) ==
  /\ pc[n] = "owns"
  /\ part' = [part EXCEPT ![n] = v]
  /\ pc' = [pc EXCEPT ![n] = "written"]
  /\ UNCHANGED <<db, flight, sem, dmaVars, k, wait, clear, sends>>

\* Mutant: sendAllOutputs tests no mask.
NoSendMask == NSPs

\* The mask sendAllOutputs tests, ComputeAPI.cpp:129.
SendMask == HasInputsMask

\* sendAllOutputs entered by an NSP of the mask: the clear loop starts.
SendAllOutputs(n) ==
  /\ pc[n] = "written"
  /\ n \in SendMask
  /\ pc' = [pc EXCEPT ![n] = "clearing"]
  /\ k' = [k EXCEPT ![n] = 0]
  /\ \E w \in WaitArgs, c \in ClearArgs :
       /\ wait' = [wait EXCEPT ![n] = w]
       /\ clear' = [clear EXCEPT ![n] = c]
  /\ UNCHANGED <<db, flight, sem, dmaVars, part, sends>>

\* sendAllOutputs entered by an NSP outside the mask: only a warning.
SendWithoutOutputs(n) ==
  /\ pc[n] = "written"
  /\ n \notin SendMask
  /\ pc' = [pc EXCEPT ![n] = "called"]
  /\ UNCHANGED <<db, flight, sem, dmaVars, part, k, wait, clear, sends>>

\* Mutant: the clear loop leaves the doorbells as they are.
KeepOutputDoorbell(n) ==
  /\ pc[n] = "clearing"
  /\ k[n] < NumOutputs
  /\ k' = [k EXCEPT ![n] = @ + 1]
  /\ UNCHANGED <<db, flight, sem, dmaVars, part, pc, wait, clear, sends>>

\* One iteration of the loop that clears the doorbells of all outputs.
ClearOutputDoorbell(n) ==
  /\ pc[n] = "clearing"
  /\ k[n] < NumOutputs
  /\ clearBufferValid(n, k[n])
  /\ k' = [k EXCEPT ![n] = @ + 1]
  /\ UNCHANGED <<flight, sem, dmaVars, part, pc, wait, clear, sends>>

\* What a semaphore decrement leaves.  What the hardware does below 0 is not in
\* the sources: the value may stick at 0 or wrap around its 12 bits.
Decremented(s) == IF s > 0 THEN {s - 1} ELSE {0, SemMax}

\* The loop is over: os_global_memsync, os_hostsem_dec.
DecOutputSem(n) ==
  /\ pc[n] = "clearing"
  /\ k[n] = NumOutputs
  /\ sem' \in Decremented(sem)
  /\ sends' = [sends EXCEPT ![n] = @ + 1]
  /\ pc' = [pc EXCEPT ![n] = IF wait[n] THEN "waiting" ELSE "called"]
  /\ k' = [k EXCEPT ![n] = 0]
  /\ wait' = [wait EXCEPT ![n] = FALSE]
  /\ clear' = [clear EXCEPT ![n] = @ /\ wait[n]]
  /\ UNCHANGED <<db, flight, dmaVars, part>>

\* Every step of n but the write, which depends on what n has computed.
NspStep(n) ==
  \/ WaitForAllOutputsReady(n) \/ WaitForBuffer(n) \/ ClearSeenBuffer(n)
  \/ OutputsReady(n)
  \/ SendAllOutputs(n) \/ SendWithoutOutputs(n)
  \/ ClearOutputDoorbell(n) \/ DecOutputSem(n)

-----------------------------------------------------------------------------
(* The host DMA engine, on the output requests *)

\* Pre-semaphore WAITEQ 0 of request dmaIdx.
DmaWaitSem ==
  /\ dmaPhase = "pre"
  /\ dmaRound < Inferences
  /\ sem = 0
  /\ dmaPhase' = "xfer"
  /\ UNCHANGED <<db, flight, sem, dmaRound, dmaIdx, part, nspVars>>

\* The transfer of the output to the host ends.
DmaTransfer ==
  /\ dmaPhase = "xfer"
  /\ dmaPhase' = "post"
  /\ UNCHANGED <<db, flight, sem, dmaRound, dmaIdx, part, nspVars>>

\* Mutant: no request re-initialises the semaphore.
DmaPostSemNoInit ==
  /\ dmaPhase = "post"
  /\ dmaPhase' = "ring"
  /\ UNCHANGED <<db, flight, sem, dmaRound, dmaIdx, part, nspVars>>

\* Post-semaphore: the last request re-initialises the semaphore.
DmaPostSem ==
  /\ dmaPhase = "post"
  /\ sem' = IF dmaIdx = NumOutputs - 1 THEN OutputSemInitVal ELSE sem
  /\ dmaPhase' = "ring"
  /\ UNCHANGED <<db, flight, dmaRound, dmaIdx, part, nspVars>>

\* Doorbell write through multicast entry 0, to every NSP; then the next request.
DmaRingDoorbell ==
  /\ dmaPhase = "ring"
  /\ flight' = [n \in NSPs |-> flight[n] \union {dmaIdx}]
  /\ IF dmaIdx = NumOutputs - 1
       THEN dmaIdx' = 0 /\ dmaRound' = dmaRound + 1
       ELSE dmaIdx' = dmaIdx + 1 /\ dmaRound' = dmaRound
  /\ dmaPhase' = "pre"
  /\ UNCHANGED <<db, sem, part, nspVars>>

\* A doorbell write lands in the L2TCM of n.
DeliverDoorbell(n) ==
  /\ \E o \in flight[n] :
       /\ flight' = [flight EXCEPT ![n] = @ \ {o}]
       /\ db' = [db EXCEPT ![n][o] = 1]
  /\ UNCHANGED <<sem, dmaVars, part, nspVars>>

DmaStep == DmaWaitSem \/ DmaTransfer \/ DmaPostSem \/ DmaRingDoorbell

\* On its own, the program writes the results of its next inference.
Next ==
  \/ DmaStep
  \/ \E n \in NSPs : NspStep(n) \/ WriteOutputs(n, sends[n] + 1) \/ DeliverDoorbell(n)

Spec == Init /\ [][Next]_vars

-----------------------------------------------------------------------------
(* n may write output o: it has seen its doorbell and has not sent since. *)
MayWrite(n, o) ==
  \/ pc[n] \in {"owns", "written", "clearing"}
  \/ pc[n] = "waiting" /\ o < k[n]
  \/ pc[n] = "seen" /\ o <= k[n]

\* While the engine reads an output buffer, no NSP that has a part in it may
\* write it (ComputeAPI.h:37-39, 66-67).
NoOutputRace ==
  dmaPhase = "xfer" => \A n \in OutputNsps[dmaIdx] : ~MayWrite(n, dmaIdx)

\* The engine starts on an inference's outputs only when each NSP that has
\* outputs has signalled for it (ComputeAPI.h:69-70).
StartsWhenAllHaveSent ==
  dmaPhase = "xfer" => \A n \in HasOutputsMask : sends[n] = dmaRound + 1

\* A decrement never finds the semaphore at 0: what it would do is nowhere said.
SemNeverUnderflows ==
  \A n \in NSPs : pc[n] = "clearing" /\ k[n] = NumOutputs => sem > 0

-----------------------------------------------------------------------------
(* The handshake implements the abstract handover: an NSP's output buffers    *)
(* are the host's from the decrement until the wait loop ends, and at the     *)
(* start, when their doorbells say so.                                        *)
LastTransferDone == dmaIdx = NumOutputs - 1 /\ dmaPhase \in {"post", "ring"}

Abstract == INSTANCE Handover WITH
  Members <- HasOutputsMask,
  AtHost  <- TRUE,
  owner   <- [n \in HasOutputsMask |->
                IF pc[n] \in {"owns", "written", "clearing"} THEN "nsp" ELSE "host"],
  gives   <- [n \in HasOutputsMask |-> sends[n]],
  moves   <- dmaRound + (IF LastTransferDone THEN 1 ELSE 0)

ImplementsHandover == Abstract!Spec

=============================================================================
