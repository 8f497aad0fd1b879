------------------------------- MODULE HostIO -------------------------------
(***************************************************************************)
(* A program that serves inferences: the input half and the output half of *)
(* the host I/O handshake, joined on each NSP by the computation.          *)
(*                                                                         *)
(* Inputs and outputs may be handled by one thread, as in                  *)
(* examples/simple_io/SimpleIOLib.cpp, or by two, as thread 0 and thread 1 *)
(* of NSP 0 in examples/multicast_example/MulticastLib.cpp.  The two halves*)
(* therefore run side by side, and meet only where the results of an       *)
(* inference are handed over; a one-thread program takes a subset of these *)
(* steps.                                                                  *)
(***************************************************************************)
EXTENDS Integers, FiniteSets

CONSTANTS NSPs, NumInputs, InputNsps, Awaits, NumOutputs, OutputNsps,
          WaitArgs, ClearArgs, Inferences, SemMax

\* The assumptions of the two halves.
ASSUME NSPsAssumption    == IsFiniteSet(NSPs)
ASSUME InputsAssumption  == /\ NumInputs \in Nat \ {0}
                            /\ InputNsps \in [0 .. NumInputs - 1 -> SUBSET NSPs]
ASSUME AwaitsAssumption  == Awaits \in [NSPs -> SUBSET (0 .. NumInputs - 1)]
ASSUME OutputsAssumption == /\ NumOutputs \in Nat \ {0}
                            /\ OutputNsps \in [0 .. NumOutputs - 1 -> SUBSET NSPs]
ASSUME ArgsAssumption    == WaitArgs \subseteq BOOLEAN /\ ClearArgs \subseteq BOOLEAN
ASSUME InferencesAssumption == Inferences \in Nat
ASSUME SemMaxAssumption  == SemMax \in Nat /\ Cardinality(NSPs) <= SemMax

VARIABLES
  inDb, inFlight, inSem, inRound, inIdx, inPhase, inVer,
  inPc, inK, inWait, inClear, inSignals,
  outDb, outFlight, outSem, outRound, outIdx, outPhase, outPart,
  outPc, outK, outWait, outClear, outSends,
  used,      \* used[n]: number of inferences whose inputs n has consumed
  result     \* result[n]: the inference whose result awaits output, 0 if none

In == INSTANCE HostInputs WITH
  db <- inDb, flight <- inFlight, sem <- inSem, dmaRound <- inRound,
  dmaIdx <- inIdx, dmaPhase <- inPhase, ver <- inVer, pc <- inPc, k <- inK,
  wait <- inWait, clear <- inClear, signals <- inSignals

Out == INSTANCE HostOutputs WITH
  HasInputsMask <- In!HasInputsMask,
  db <- outDb, flight <- outFlight, sem <- outSem, dmaRound <- outRound,
  dmaIdx <- outIdx, dmaPhase <- outPhase, part <- outPart, pc <- outPc,
  k <- outK, wait <- outWait, clear <- outClear, sends <- outSends

inVars == <<inDb, inFlight, inSem, inRound, inIdx, inPhase, inVer,
            inPc, inK, inWait, inClear, inSignals>>
outVars == <<outDb, outFlight, outSem, outRound, outIdx, outPhase, outPart,
             outPc, outK, outWait, outClear, outSends>>
vars == <<inVars, outVars, used, result>>

TypeOK ==
  /\ In!TypeOK
  /\ Out!TypeOK
  /\ used \in [NSPs -> Nat]
  /\ result \in [NSPs -> Nat]

Init ==
  /\ In!Init
  /\ Out!Init
  /\ used = [n \in NSPs |-> 0]
  /\ result = [n \in NSPs |-> 0]

-----------------------------------------------------------------------------
\* An input step.  readyForAllInputs tells the host that the inputs are no longer
\* read, so the program calls it only when it has used them.
InputStep(n) ==
  /\ inPc[n] = "owns" => used[n] = inSignals[n]
  /\ In!NspStep(n)
  /\ UNCHANGED <<outVars, used, result>>

\* n computes the results of an inference from the inputs it holds: what it gets
\* depends on the data that is in its copy of any of them.
Compute(n) ==
  /\ inPc[n] = "owns"
  /\ used[n] < inSignals[n]
  /\ result[n] = 0
  /\ \E i \in In!Inputs : n \in InputNsps[i] /\ result' = [result EXCEPT ![n] = inVer[n][i]]
  /\ used' = [used EXCEPT ![n] = @ + 1]
  /\ UNCHANGED <<inVars, outVars>>

\* n writes the results into its output buffers.
Write(n) ==
  /\ result[n] # 0
  /\ Out!WriteOutputs(n, result[n])
  /\ result' = [result EXCEPT ![n] = 0]
  /\ UNCHANGED <<inVars, used>>

OutputStep(n) ==
  /\ Out!NspStep(n)
  /\ UNCHANGED <<inVars, used, result>>

\* The engine runs input requests and output requests independently: they use
\* different semaphores.
HostStep ==
  \/ In!DmaStep /\ UNCHANGED <<outVars, used, result>>
  \/ Out!DmaStep /\ UNCHANGED <<inVars, used, result>>

Deliver(n) ==
  \/ In!DeliverDoorbell(n) /\ UNCHANGED <<outVars, used, result>>
  \/ Out!DeliverDoorbell(n) /\ UNCHANGED <<inVars, used, result>>

Next ==
  \/ HostStep
  \/ \E n \in NSPs : InputStep(n) \/ Compute(n) \/ Write(n) \/ OutputStep(n) \/ Deliver(n)

Spec == Init /\ [][Next]_vars

(***************************************************************************)
(* Fairness.  Each NSP thread is a hardware thread of its own, the engine  *)
(* works on its two request queues independently, and a posted doorbell    *)
(* write reaches its NSP.                                                  *)
(***************************************************************************)
Fairness ==
  /\ WF_vars(In!DmaStep /\ UNCHANGED <<outVars, used, result>>)
  /\ WF_vars(Out!DmaStep /\ UNCHANGED <<inVars, used, result>>)
  /\ \A n \in NSPs :
       /\ WF_vars(InputStep(n))
       /\ WF_vars(Compute(n))
       /\ WF_vars(Write(n))
       /\ WF_vars(OutputStep(n))
       /\ WF_vars(In!DeliverDoorbell(n) /\ UNCHANGED <<outVars, used, result>>)
       /\ WF_vars(Out!DeliverDoorbell(n) /\ UNCHANGED <<inVars, used, result>>)

FairSpec == Spec /\ Fairness

-----------------------------------------------------------------------------
\* What the host reads for an inference was computed from that inference's
\* inputs, on every NSP that contributes: the two halves may be as far apart as
\* they like, no result is lost, repeated or attributed to another inference.
ResultsMatchInferences ==
  outPhase = "xfer" => \A n \in OutputNsps[outIdx] : outPart[n] = outRound + 1

\* The host never moves a buffer an NSP may touch, in either direction.
NoRace == In!NoInputRace /\ Out!NoOutputRace

\* Every inference the host submits is answered: no doorbell and no semaphore
\* operation is lost.
EveryInferenceCompletes == <>(outRound = Inferences)

=============================================================================
