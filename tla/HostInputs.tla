----------------------------- MODULE HostInputs -----------------------------
(***************************************************************************)
(* The input half of the host I/O handshake.                               *)
(*                                                                         *)
(* NSP side: readyForAllInputs, waitForAllInputsReady and waitForBuffer of *)
(* runtime/lib/ComputeAPI.cpp, one action per store, semaphore command or  *)
(* doorbell observation.                                                   *)
(* Host side: the DMA requests that Program.cpp generates for the inputs   *)
(* (WAITEQ popcount(inMask), transfer, INIT 0 after the last one, doorbell *)
(* to every NSP), executed by a DMA engine with the order documented in    *)
(* AICMetadata.h:106-122: requests on one semaphore run one after another, *)
(* each as pre-semaphore, transfer, post-semaphore, doorbells.             *)
(*                                                                         *)
(* A doorbell write travels on its own: it is put in flight by the engine  *)
(* and lands in each NSP's L2TCM later, in any order.                      *)
(***************************************************************************)
EXTENDS Integers, FiniteSets

CONSTANTS
  NSPs,        \* the NSPs the program runs on
  NumInputs,   \* number of input buffers of the program config
  InputNsps,   \* InputNsps[i]: the NSPs input i is multicast to (its nspMask)
  Awaits,      \* Awaits[n]: the inputs n waits for when readyForAllInputs does not
  WaitArgs,    \* the values the program passes for waitForArrival
  ClearArgs,   \* the values the program passes for clear
  Inferences   \* number of inferences the host submits (bounds the model)

Inputs == 0 .. NumInputs - 1

ASSUME NSPsAssumption   == IsFiniteSet(NSPs)
ASSUME InputsAssumption == /\ NumInputs \in Nat \ {0}
                           /\ InputNsps \in [Inputs -> SUBSET NSPs]
ASSUME AwaitsAssumption == Awaits \in [NSPs -> SUBSET Inputs]
ASSUME ArgsAssumption   == WaitArgs \subseteq BOOLEAN /\ ClearArgs \subseteq BOOLEAN
ASSUME InferencesAssumption == Inferences \in Nat

\* Mutant: each input overwrites the mask instead of adding to it.
LastInputMask == InputNsps[NumInputs - 1]

\* progDesc.hasInputsMask, the union of the input buffers' nspMasks.
HasInputsMask == UNION {InputNsps[i] : i \in Inputs}

\* The value input DMA requests wait for: the number of NSPs in the mask.
InputSemWaitVal == Cardinality(HasInputsMask)

VARIABLES
  db,        \* db[n][i]: the doorbell word of input i in the L2TCM of NSP n
  flight,    \* flight[n]: input doorbells written by the engine, not yet landed at n
  sem,       \* the input semaphore
  dmaRound,  \* number of inferences whose inputs are completely transferred
  dmaIdx,    \* the input DMA request being executed
  dmaPhase,  \* what it does next: "pre", "xfer", "post" or "ring"
  ver,       \* ver[n][i]: the inference whose data is in n's copy of input i
  pc,        \* pc[n]: where the I/O thread of n is
  k,         \* k[n]: the loop counter buffNum of the call n is in
  wait,      \* wait[n]: argument waitForArrival of the call n is in
  clear,     \* clear[n]: argument clear of the call n is in
  signals    \* signals[n]: number of increments n has sent

dmaVars == <<dmaRound, dmaIdx, dmaPhase, ver>>
nspVars == <<pc, k, wait, clear, signals>>
vars == <<db, flight, sem, dmaVars, nspVars>>

(***************************************************************************)
(* pc of the I/O thread:                                                   *)
(*   "owns"      the program may read its inputs (or has not started)      *)
(*   "clearing"  in readyForAllInputs, clearing doorbells                  *)
(*   "called"    the increment is sent, the program has not waited yet     *)
(*   "waiting"   in waitForAllInputsReady                                  *)
(*   "seen"      in waitForBuffer, doorbell observed, about to clear it    *)
(***************************************************************************)
PCs == {"owns", "clearing", "called", "waiting", "seen"}
Phases == {"pre", "xfer", "post", "ring"}

TypeOK ==
  /\ db \in [NSPs -> [Inputs -> {0, 1}]]
  /\ flight \in [NSPs -> SUBSET Inputs]
  /\ sem \in Nat
  /\ dmaRound \in Nat
  /\ dmaIdx \in Inputs
  /\ dmaPhase \in Phases
  /\ ver \in [NSPs -> [Inputs -> Nat]]
  /\ pc \in [NSPs -> PCs]
  /\ k \in [NSPs -> Nat]
  /\ wait \in [NSPs -> BOOLEAN]
  /\ clear \in [NSPs -> BOOLEAN]
  /\ signals \in [NSPs -> Nat]

\* Doorbells and the semaphore start at 0 (initL2TCMWord, initSemaphore).
Init ==
  /\ db = [n \in NSPs |-> [i \in Inputs |-> 0]]
  /\ flight = [n \in NSPs |-> {}]
  /\ sem = 0
  /\ dmaRound = 0
  /\ dmaIdx = 0
  /\ dmaPhase = "pre"
  /\ ver = [n \in NSPs |-> [i \in Inputs |-> 0]]
  /\ pc = [n \in NSPs |-> "owns"]
  /\ k = [n \in NSPs |-> 0]
  /\ wait = [n \in NSPs |-> FALSE]
  /\ clear = [n \in NSPs |-> FALSE]
  /\ signals = [n \in NSPs |-> 0]

-----------------------------------------------------------------------------
(* NSP n *)

isBufferValid(n, i) == db[n][i] = 1

clearBufferValid(n, i) == db' = [db EXCEPT ![n][i] = 0]

\* readyForAllInputs entered by an NSP of the mask: the clear loop starts.
ReadyForAllInputs(n) ==
  /\ pc[n] = "owns"
  /\ n \in HasInputsMask
  /\ pc' = [pc EXCEPT ![n] = "clearing"]
  /\ k' = [k EXCEPT ![n] = 0]
  /\ \E w \in WaitArgs, c \in ClearArgs :
       /\ wait' = [wait EXCEPT ![n] = w]
       /\ clear' = [clear EXCEPT ![n] = c]
  /\ UNCHANGED <<db, flight, sem, dmaVars, signals>>

\* readyForAllInputs entered by an NSP without inputs: only a warning, and the
\* call returns without waiting whatever waitForArrival says.
ReadyWithoutInputs(n) ==
  /\ pc[n] = "owns"
  /\ n \notin HasInputsMask
  /\ pc' = [pc EXCEPT ![n] = "called"]
  /\ UNCHANGED <<db, flight, sem, dmaVars, k, wait, clear, signals>>

\* Mutant: the clear loop leaves the doorbells as they are.
KeepInputDoorbell(n) ==
  /\ pc[n] = "clearing"
  /\ k[n] < NumInputs
  /\ k' = [k EXCEPT ![n] = @ + 1]
  /\ UNCHANGED <<db, flight, sem, dmaVars, pc, wait, clear, signals>>

\* One iteration of the loop that clears the doorbells of all inputs.
ClearInputDoorbell(n) ==
  /\ pc[n] = "clearing"
  /\ k[n] < NumInputs
  /\ clearBufferValid(n, k[n])
  /\ k' = [k EXCEPT ![n] = @ + 1]
  /\ UNCHANGED <<flight, sem, dmaVars, pc, wait, clear, signals>>

\* The loop is over: os_release_allthreads, os_load_acquire, os_hostsem_inc.
IncInputSem(n) ==
  /\ pc[n] = "clearing"
  /\ k[n] = NumInputs
  /\ sem' = sem + 1
  /\ signals' = [signals EXCEPT ![n] = @ + 1]
  /\ pc' = [pc EXCEPT ![n] = IF wait[n] THEN "waiting" ELSE "called"]
  /\ k' = [k EXCEPT ![n] = 0]
  /\ clear' = [clear EXCEPT ![n] = @ /\ wait[n]]
  /\ UNCHANGED <<db, flight, dmaVars, wait>>

\* After a readyForAllInputs that did not wait, the program calls
\* waitForAllInputsReady, or waitForBuffer on each of the inputs it uses.
WaitForAllInputsReady(n) ==
  /\ pc[n] = "called"
  /\ pc' = [pc EXCEPT ![n] = "waiting"]
  /\ k' = [k EXCEPT ![n] = 0]
  /\ \E c \in ClearArgs : clear' = [clear EXCEPT ![n] = c]
  /\ UNCHANGED <<db, flight, sem, dmaVars, wait, signals>>

\* A wait inside readyForAllInputs is for every input, whatever the program uses.
Awaited(n) == IF wait[n] THEN Inputs ELSE Awaits[n]

\* Mutant: clear is not looked at.
WaitForBufferClears(n) ==
  /\ pc[n] = "waiting"
  /\ k[n] \in Awaited(n)
  /\ isBufferValid(n, k[n])
  /\ pc' = [pc EXCEPT ![n] = "seen"]
  /\ UNCHANGED <<db, flight, sem, dmaVars, k, wait, clear, signals>>

\* waitForBuffer(k): os_doorbell_wait_eq returns when the doorbell has its value.
WaitForBuffer(n) ==
  /\ pc[n] = "waiting"
  /\ k[n] \in Awaited(n)
  /\ isBufferValid(n, k[n])
  /\ IF clear[n] THEN /\ pc' = [pc EXCEPT ![n] = "seen"]
                      /\ k' = k
                 ELSE /\ pc' = pc
                      /\ k' = [k EXCEPT ![n] = @ + 1]
  /\ UNCHANGED <<db, flight, sem, dmaVars, wait, clear, signals>>

\* The store of waitForBuffer(..., clear = true), after the wait.
ClearSeenBuffer(n) ==
  /\ pc[n] = "seen"
  /\ clearBufferValid(n, k[n])
  /\ pc' = [pc EXCEPT ![n] = "waiting"]
  /\ k' = [k EXCEPT ![n] = @ + 1]
  /\ UNCHANGED <<flight, sem, dmaVars, wait, clear, signals>>

\* A program that does not use input k does not wait for it.
SkipBuffer(n) ==
  /\ pc[n] = "waiting"
  /\ k[n] \in Inputs \ Awaited(n)
  /\ k' = [k EXCEPT ![n] = @ + 1]
  /\ UNCHANGED <<db, flight, sem, dmaVars, pc, wait, clear, signals>>

\* The wait loop is over.
InputsReady(n) ==
  /\ pc[n] = "waiting"
  /\ k[n] = NumInputs
  /\ pc' = [pc EXCEPT ![n] = "owns"]
  /\ k' = [k EXCEPT ![n] = 0]
  /\ wait' = [wait EXCEPT ![n] = FALSE]
  /\ clear' = [clear EXCEPT ![n] = FALSE]
  /\ UNCHANGED <<db, flight, sem, dmaVars, signals>>

NspStep(n) ==
  \/ ReadyForAllInputs(n) \/ ReadyWithoutInputs(n)
  \/ ClearInputDoorbell(n) \/ IncInputSem(n)
  \/ WaitForAllInputsReady(n) \/ WaitForBuffer(n) \/ ClearSeenBuffer(n)
  \/ SkipBuffer(n) \/ InputsReady(n)

-----------------------------------------------------------------------------
(* The host DMA engine, on the input requests *)

\* Pre-semaphore WAITEQ popcount(inMask) of request dmaIdx.
DmaWaitSem ==
  /\ dmaPhase = "pre"
  /\ dmaRound < Inferences
  /\ sem = InputSemWaitVal
  /\ dmaPhase' = "xfer"
  /\ UNCHANGED <<db, flight, sem, dmaRound, dmaIdx, ver, nspVars>>

\* The data of inference dmaRound + 1 is in place on every NSP of the buffer.
DmaTransfer ==
  /\ dmaPhase = "xfer"
  /\ ver' = [n \in NSPs |->
               [i \in Inputs |-> IF i = dmaIdx /\ n \in InputNsps[i]
                                   THEN dmaRound + 1 ELSE ver[n][i]]]
  /\ dmaPhase' = "post"
  /\ UNCHANGED <<db, flight, sem, dmaRound, dmaIdx, nspVars>>

\* Mutant: no request re-initialises the semaphore.
DmaPostSemNoInit ==
  /\ dmaPhase = "post"
  /\ dmaPhase' = "ring"
  /\ UNCHANGED <<db, flight, sem, dmaRound, dmaIdx, ver, nspVars>>

\* Post-semaphore: the last request re-initialises the semaphore to 0.
DmaPostSem ==
  /\ dmaPhase = "post"
  /\ sem' = IF dmaIdx = NumInputs - 1 THEN 0 ELSE sem
  /\ dmaPhase' = "ring"
  /\ UNCHANGED <<db, flight, dmaRound, dmaIdx, ver, nspVars>>

\* Mutant: only the NSPs that receive the input get its doorbell.
DmaRingReceivers ==
  /\ dmaPhase = "ring"
  /\ flight' = [n \in NSPs |-> flight[n] \union
                   (IF n \in InputNsps[dmaIdx] THEN {dmaIdx} ELSE {})]
  /\ IF dmaIdx = NumInputs - 1
       THEN dmaIdx' = 0 /\ dmaRound' = dmaRound + 1
       ELSE dmaIdx' = dmaIdx + 1 /\ dmaRound' = dmaRound
  /\ dmaPhase' = "pre"
  /\ UNCHANGED <<db, sem, ver, nspVars>>

\* Mutant: one request too many before the next inference.
DmaRingOneMore ==
  /\ dmaPhase = "ring"
  /\ flight' = [n \in NSPs |-> flight[n] \union {dmaIdx}]
  /\ IF dmaIdx = NumInputs
       THEN dmaIdx' = 0 /\ dmaRound' = dmaRound + 1
       ELSE dmaIdx' = dmaIdx + 1 /\ dmaRound' = dmaRound
  /\ dmaPhase' = "pre"
  /\ UNCHANGED <<db, sem, ver, nspVars>>

\* Doorbell write through multicast entry 0, to every NSP; then the next request.
DmaRingDoorbell ==
  /\ dmaPhase = "ring"
  /\ flight' = [n \in NSPs |-> flight[n] \union {dmaIdx}]
  /\ IF dmaIdx = NumInputs - 1
       THEN dmaIdx' = 0 /\ dmaRound' = dmaRound + 1
       ELSE dmaIdx' = dmaIdx + 1 /\ dmaRound' = dmaRound
  /\ dmaPhase' = "pre"
  /\ UNCHANGED <<db, sem, ver, nspVars>>

\* A doorbell write lands in the L2TCM of n.
DeliverDoorbell(n) ==
  /\ \E i \in flight[n] :
       /\ flight' = [flight EXCEPT ![n] = @ \ {i}]
       /\ db' = [db EXCEPT ![n][i] = 1]
  /\ UNCHANGED <<sem, dmaVars, nspVars>>

DmaStep == DmaWaitSem \/ DmaTransfer \/ DmaPostSem \/ DmaRingDoorbell

Next ==
  \/ DmaStep
  \/ \E n \in NSPs : NspStep(n) \/ DeliverDoorbell(n)

Spec == Init /\ [][Next]_vars

\* The engine works on, posted doorbells land, and the threads of the program,
\* hardware threads of their own, go on asking for inputs.
FairSpec ==
  /\ Spec
  /\ WF_vars(DmaStep)
  /\ \A n \in NSPs : WF_vars(NspStep(n)) /\ WF_vars(DeliverDoorbell(n))

-----------------------------------------------------------------------------
(* n has seen the doorbell of input i and has not signalled since. *)
Holds(n, i) ==
  \/ pc[n] \in {"owns", "clearing"}
  \/ pc[n] = "waiting" /\ i < k[n]
  \/ pc[n] = "seen" /\ i <= k[n]

\* While the engine writes an input buffer, no NSP that receives it holds it:
\* a program that reads inputs between waitForBuffer and readyForAllInputs never
\* races the host (ComputeAPI.h:51-56).
NoInputRace ==
  dmaPhase = "xfer" => \A n \in InputNsps[dmaIdx] : ~Holds(n, dmaIdx)

\* The data an NSP reads is that of the inference it last asked for: none is
\* skipped, delivered twice or replaced early, whichever NSP is slow.
HeldInputIsCurrent ==
  \A i \in Inputs : \A n \in InputNsps[i] : Holds(n, i) => ver[n][i] = signals[n]

\* A doorbell the engine rang is not lost: until n has seen it, the word is set
\* or the write is on its way.  (Clearing a doorbell races the next ring.)
Rings(i) == dmaRound + (IF i < dmaIdx THEN 1 ELSE 0)

NoDoorbellLost ==
  \A n \in HasInputsMask, i \in Inputs :
    Rings(i) = signals[n] /\ ~Holds(n, i) => db[n][i] = 1 \/ i \in flight[n]

\* The host starts transferring once each NSP has signalled (ComputeAPI.h:55-56).  Does not
\* hold for NSPs that wait for their own input only.
StartsOnceAllReady ==
  \A r \in 1 .. Inferences :
    (\A n \in HasInputsMask : signals[n] >= r) ~> (dmaRound >= r)

-----------------------------------------------------------------------------
(* The handshake implements the abstract handover: an NSP's input buffers are *)
(* the host's from the increment until the wait loop ends, and the host moves *)
(* an inference when the last of its transfers is done.                       *)
LastTransferDone == dmaIdx = NumInputs - 1 /\ dmaPhase \in {"post", "ring"}

Abstract == INSTANCE Handover WITH
  Members <- HasInputsMask,
  AtHost  <- FALSE,
  owner   <- [n \in HasInputsMask |->
                IF pc[n] \in {"owns", "clearing"} THEN "nsp" ELSE "host"],
  gives   <- [n \in HasInputsMask |-> signals[n]],
  moves   <- dmaRound + (IF LastTransferDone THEN 1 ELSE 0)

ImplementsHandover == Abstract!Spec

=============================================================================
