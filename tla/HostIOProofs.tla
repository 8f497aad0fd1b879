---------------------------- MODULE HostIOProofs ----------------------------
(***************************************************************************)
(* Proofs about HostIO, for any number of NSPs, inputs, outputs and        *)
(* inferences.  The invariants of the two halves are those of              *)
(* HostInputsProofs and HostOutputsProofs, whose lemmas are used through   *)
(* INSTANCE; what is proved here is how the computation joins them.        *)
(***************************************************************************)
EXTENDS HostIO, TLAPS

\* The program of HostIO looks nothing up.
InP == INSTANCE HostInputsProofs WITH
  Partial <- {}, Lookers <- {}, look <- <<>>, found <- <<>>, fatal <- {}, cleared <- <<>>,
  db <- inDb, flight <- inFlight, sem <- inSem, dmaRound <- inRound,
  dmaIdx <- inIdx, dmaPhase <- inPhase, ver <- inVer, pc <- inPc, k <- inK,
  wait <- inWait, clear <- inClear, signals <- inSignals

OutP == INSTANCE HostOutputsProofs WITH
  HasInputsMask <- In!HasInputsMask,
  db <- outDb, flight <- outFlight, sem <- outSem, dmaRound <- outRound,
  dmaIdx <- outIdx, dmaPhase <- outPhase, part <- outPart, pc <- outPc,
  k <- outK, wait <- outWait, clear <- outClear, sends <- outSends

\* The program waits for all its inputs, and the NSPs with inputs are those with outputs.
Disciplined == InP!WaitsForAll /\ In!HasInputsMask = Out!HasOutputsMask

-----------------------------------------------------------------------------
(* The lemmas of the two halves, in the terms of this module *)

\* The assumptions of HostInputs.
LEMMA InConstants ==
  /\ InP!IsFiniteSet(NSPs)
  /\ NumInputs \in Nat \ {0} /\ InputNsps \in [InP!Inputs -> SUBSET NSPs]
  /\ Awaits \in [NSPs -> SUBSET InP!Inputs]
  /\ WaitArgs \subseteq BOOLEAN /\ ClearArgs \subseteq BOOLEAN
  /\ Inferences \in Nat
  /\ {} \subseteq InP!Inputs /\ {} \subseteq NSPs
BY NSPsAssumption, InputsAssumption, AwaitsAssumption, ArgsAssumption, InferencesAssumption
   DEF InP!Inputs, IsFiniteSet, InP!IsFiniteSet

\* The assumptions of HostOutputs.
LEMMA OutConstants ==
  /\ OutP!IsFiniteSet(NSPs)
  /\ NumOutputs \in Nat \ {0} /\ OutputNsps \in [OutP!Outputs -> SUBSET NSPs]
  /\ In!HasInputsMask \subseteq NSPs
  /\ WaitArgs \subseteq BOOLEAN /\ ClearArgs \subseteq BOOLEAN
  /\ Inferences \in Nat
  /\ SemMax \in Nat /\ OutP!Cardinality(NSPs) <= SemMax
BY NSPsAssumption, OutputsAssumption, InputsAssumption, ArgsAssumption, InferencesAssumption,
   SemMaxAssumption
   DEF OutP!Outputs, IsFiniteSet, OutP!IsFiniteSet, Cardinality, OutP!Cardinality, In!HasInputsMask, In!Inputs

\* The initial state of the input half satisfies its invariant.
LEMMA InInit == In!Init => InP!IInv
<1>1. In!Init => InP!Init
  BY DEF In!Init, InP!Init, In!Inputs, InP!Inputs
<1> QED BY <1>1, InConstants, InP!IInvInit

\* The initial state of the output half satisfies its invariant.
LEMMA OutInit == Out!Init => OutP!IInv
<1>1. Out!Init => OutP!Init
  BY DEF Out!Init, OutP!Init, Out!Outputs, OutP!Outputs, Out!OutputSemInitVal,
     OutP!OutputSemInitVal, Out!HasOutputsMask, OutP!HasOutputsMask,
     Out!Cardinality, OutP!Cardinality, Out!IsFiniteSet, OutP!IsFiniteSet
<1> QED BY <1>1, OutConstants, OutP!IInvInit

\* No step of the input half breaks its invariant, nor does a step of the other half.
LEMMA InStepKeeps ==
  ASSUME InP!WaitsForAll, InP!IInv,
         \/ In!DmaStep
         \/ \E n \in NSPs : In!NspStep(n) \/ In!DeliverDoorbell(n)
         \/ UNCHANGED inVars
  PROVE  InP!IInv'
<1> USE DEF In!dmaVars, In!nspVars, InP!dmaVars, InP!nspVars, In!Inputs, InP!Inputs
<1>1. In!DmaStep => InP!DmaStep
  <2>1. In!InputSemWaitVal = InP!InputSemWaitVal
    BY DEF In!InputSemWaitVal, InP!InputSemWaitVal, In!HasInputsMask, InP!HasInputsMask,
       In!Cardinality, InP!Cardinality
  <2> QED
    BY <2>1 DEF In!DmaStep, In!DmaWaitSem, In!DmaTransfer, In!DmaPostSem, In!DmaRingDoorbell,
       InP!DmaStep, InP!DmaWaitSem, InP!DmaTransfer, InP!DmaPostSem, InP!DmaRingDoorbell
<1>2. ASSUME NEW n \in NSPs, In!NspStep(n) PROVE InP!NspStep(n)
  <2>1. In!HasInputsMask = InP!HasInputsMask /\ In!Awaited(n) = InP!Awaited(n)
    BY DEF In!HasInputsMask, InP!HasInputsMask, In!Awaited, InP!Awaited
  <2> USE <1>2, <2>1 DEF InP!NspStep
  <2>2. CASE In!ReadyForAllInputs(n)
    BY <2>2 DEF In!ReadyForAllInputs, InP!ReadyForAllInputs
  <2>3. CASE In!ReadyWithoutInputs(n)
    BY <2>3 DEF In!ReadyWithoutInputs, InP!ReadyWithoutInputs
  <2>4. CASE In!ClearInputDoorbell(n)
    BY <2>4 DEF In!ClearInputDoorbell, InP!ClearInputDoorbell, In!clearBufferValid,
       InP!clearBufferValid
  <2>5. CASE In!IncInputSem(n)
    BY <2>5 DEF In!IncInputSem, InP!IncInputSem
  <2>6. CASE In!WaitForAllInputsReady(n)
    BY <2>6 DEF In!WaitForAllInputsReady, InP!WaitForAllInputsReady
  <2>7. CASE In!WaitForBuffer(n)
    BY <2>7 DEF In!WaitForBuffer, InP!WaitForBuffer, In!isBufferValid, InP!isBufferValid
  <2>8. CASE In!ClearSeenBuffer(n)
    BY <2>8 DEF In!ClearSeenBuffer, InP!ClearSeenBuffer, In!clearBufferValid,
       InP!clearBufferValid
  <2>9. CASE In!SkipBuffer(n)
    BY <2>9 DEF In!SkipBuffer, InP!SkipBuffer
  <2>10. CASE In!InputsReady(n)
    BY <2>10 DEF In!InputsReady, InP!InputsReady
  <2> QED
    BY <2>2, <2>3, <2>4, <2>5, <2>6, <2>7, <2>8, <2>9, <2>10 DEF In!NspStep
<1>3. ASSUME NEW n \in NSPs, In!DeliverDoorbell(n) PROVE InP!DeliverDoorbell(n)
  BY <1>3 DEF In!DeliverDoorbell, InP!DeliverDoorbell
<1>4. UNCHANGED inVars => UNCHANGED InP!vars
  BY DEF inVars, InP!vars
<1>5. InP!Next \/ UNCHANGED InP!vars
  BY <1>1, <1>2, <1>3, <1>4 DEF InP!Next
<1> QED BY <1>5, InConstants, InP!IInvStep

\* The same for the output half, whatever the program writes.
LEMMA OutStepKeeps ==
  ASSUME OutP!SendMaskIsOutputMask, OutP!IInv,
         \/ Out!DmaStep
         \/ \E n \in NSPs : \/ Out!NspStep(n) \/ Out!DeliverDoorbell(n)
                            \/ \E v \in Nat : Out!WriteOutputs(n, v)
         \/ UNCHANGED outVars
  PROVE  OutP!IInv'
<1> USE DEF Out!dmaVars, Out!nspVars, OutP!dmaVars, OutP!nspVars, Out!Outputs, OutP!Outputs
<1>1. Out!DmaStep => OutP!DmaStep
  <2>1. Out!OutputSemInitVal = OutP!OutputSemInitVal
    BY DEF Out!OutputSemInitVal, OutP!OutputSemInitVal, Out!HasOutputsMask,
       OutP!HasOutputsMask, Out!Cardinality, OutP!Cardinality
  <2> QED
    BY <2>1 DEF Out!DmaStep, Out!DmaWaitSem, Out!DmaTransfer, Out!DmaPostSem,
       Out!DmaRingDoorbell, OutP!DmaStep, OutP!DmaWaitSem, OutP!DmaTransfer,
       OutP!DmaPostSem, OutP!DmaRingDoorbell
<1>2. ASSUME NEW n \in NSPs, Out!NspStep(n) PROVE OutP!NspStep(n)
  <2>1. Out!SendMask = OutP!SendMask /\ Out!Decremented(outSem) = OutP!Decremented(outSem)
    BY DEF Out!SendMask, OutP!SendMask, Out!Decremented, OutP!Decremented
  <2> USE <1>2, <2>1 DEF OutP!NspStep
  <2>2. CASE Out!WaitForAllOutputsReady(n)
    BY <2>2 DEF Out!WaitForAllOutputsReady, OutP!WaitForAllOutputsReady
  <2>3. CASE Out!WaitForBuffer(n)
    BY <2>3 DEF Out!WaitForBuffer, OutP!WaitForBuffer, Out!isBufferValid, OutP!isBufferValid
  <2>4. CASE Out!ClearSeenBuffer(n)
    BY <2>4 DEF Out!ClearSeenBuffer, OutP!ClearSeenBuffer, Out!clearBufferValid,
       OutP!clearBufferValid
  <2>5. CASE Out!OutputsReady(n)
    BY <2>5 DEF Out!OutputsReady, OutP!OutputsReady
  <2>6. CASE Out!SendAllOutputs(n)
    BY <2>6 DEF Out!SendAllOutputs, OutP!SendAllOutputs
  <2>7. CASE Out!SendWithoutOutputs(n)
    BY <2>7 DEF Out!SendWithoutOutputs, OutP!SendWithoutOutputs
  <2>8. CASE Out!ClearOutputDoorbell(n)
    BY <2>8 DEF Out!ClearOutputDoorbell, OutP!ClearOutputDoorbell, Out!clearBufferValid,
       OutP!clearBufferValid
  <2>9. CASE Out!DecOutputSem(n)
    BY <2>9 DEF Out!DecOutputSem, OutP!DecOutputSem
  <2> QED
    BY <2>2, <2>3, <2>4, <2>5, <2>6, <2>7, <2>8, <2>9 DEF Out!NspStep
<1>3. ASSUME NEW n \in NSPs, Out!DeliverDoorbell(n) PROVE OutP!DeliverDoorbell(n)
  BY <1>3 DEF Out!DeliverDoorbell, OutP!DeliverDoorbell
<1>4. ASSUME NEW n \in NSPs, NEW v \in Nat, Out!WriteOutputs(n, v)
      PROVE  OutP!WriteOutputs(n, v)
  BY <1>4 DEF Out!WriteOutputs, OutP!WriteOutputs
<1>5. UNCHANGED outVars => UNCHANGED OutP!vars
  BY DEF outVars, OutP!vars
<1>6. OutP!HandshakeNext \/ UNCHANGED OutP!vars
  BY <1>1, <1>2, <1>3, <1>4, <1>5 DEF OutP!HandshakeNext, OutP!ThreadStep
<1> QED BY <1>6, OutConstants, OutP!IInvStep

-----------------------------------------------------------------------------
(***************************************************************************)
(* The inductive invariant: both halves', and for each NSP with inputs how *)
(* many inferences it has consumed, against the input signals on one side  *)
(* and the results handed over on the other.                               *)
(***************************************************************************)
Mask == In!HasInputsMask

\* The inferences whose results n has written into its output buffers.
Written(n) == outSends[n] + (IF outPc[n] \in {"written", "clearing"} THEN 1 ELSE 0)

\* n consumes every inference it asks for, once, before it asks for the next.
Consumed(n) ==
  /\ inPc[n] = "clearing" => used[n] = inSignals[n]
  /\ inPc[n] \in {"called", "waiting", "seen"} => inSignals[n] = used[n] + 1
  /\ inPc[n] = "owns" => used[n] = inSignals[n] \/ inSignals[n] = used[n] + 1

\* The result that awaits output is that of the last inference n consumed, and all
\* earlier ones are written; the last one written is in the output buffers.
Handed(n) ==
  /\ result[n] # 0 => result[n] = used[n]
  /\ used[n] = Written(n) + (IF result[n] = 0 THEN 0 ELSE 1)
  /\ outPart[n] = Written(n)

IInv ==
  /\ TypeOK
  /\ InP!IInv
  /\ OutP!IInv
  /\ \A n \in Mask : Consumed(n) /\ Handed(n)
  /\ \A n \in NSPs \ Mask : result[n] = 0

-----------------------------------------------------------------------------
\* The types of the two halves, from their invariants.
LEMMA HalfTypes == InP!IInv /\ OutP!IInv => In!TypeOK /\ Out!TypeOK
BY DEF InP!IInv, OutP!IInv, In!TypeOK, InP!TypeOK, Out!TypeOK, OutP!TypeOK, In!Inputs,
   InP!Inputs, Out!Outputs, OutP!Outputs, In!PCs, InP!PCs, Out!PCs, OutP!PCs, In!Phases,
   InP!Phases, Out!Phases, OutP!Phases

\* The NSPs with inputs are NSPs, and receive the inputs multicast to them.
LEMMA MaskFacts ==
  /\ Mask \subseteq NSPs
  /\ \A i \in In!Inputs : InputNsps[i] \subseteq Mask
BY InputsAssumption DEF Mask, In!HasInputsMask, In!Inputs

\* sendAllOutputs tests the mask of the outputs when it is that of the inputs.
LEMMA MaskIsSendMask == Disciplined => OutP!SendMaskIsOutputMask /\ Out!SendMask = Mask
BY DEF Disciplined, OutP!SendMaskIsOutputMask, OutP!SendMask, Out!SendMask, Mask,
   Out!HasOutputsMask, OutP!HasOutputsMask, Out!Outputs, OutP!Outputs

\* Nothing has been asked for, computed or written.
LEMMA IInvInit == Init => IInv
<1> SUFFICES ASSUME Init PROVE IInv
  OBVIOUS
<1>1. InP!IInv /\ OutP!IInv
  BY InInit, OutInit DEF Init
<1>2. TypeOK
  BY <1>1, HalfTypes DEF Init, TypeOK
<1>3. \A n \in Mask : Consumed(n) /\ Handed(n)
  BY MaskFacts DEF Init, In!Init, Out!Init, Consumed, Handed, Written
<1>4. \A n \in NSPs \ Mask : result[n] = 0
  BY DEF Init
<1> QED BY <1>1, <1>2, <1>3, <1>4 DEF IInv

\* A step of the input thread of m keeps count of what is consumed.
LEMMA InputStepKeeps ==
  ASSUME IInv, NEW m \in NSPs, InputStep(m), NEW n \in Mask
  PROVE  Consumed(n)' /\ Handed(n)'
<1>0. In!TypeOK /\ n \in NSPs /\ Consumed(n) /\ Handed(n)
  BY MaskFacts DEF IInv, TypeOK
<1>1. Handed(n)'
  BY <1>0 DEF InputStep, Handed, Written, outVars
<1>2. used'[n] = used[n]
  BY DEF InputStep
<1>3. CASE m # n
  <2>1. inPc'[n] = inPc[n] /\ inSignals'[n] = inSignals[n]
    BY <1>0, <1>3 DEF InputStep, In!NspStep, In!ReadyForAllInputs, In!ReadyWithoutInputs,
       In!ClearInputDoorbell, In!IncInputSem, In!WaitForAllInputsReady, In!WaitForBuffer,
       In!ClearSeenBuffer, In!SkipBuffer, In!InputsReady, In!TypeOK
  <2> QED BY <1>0, <1>1, <1>2, <2>1 DEF Consumed
<1>4. CASE m = n
  <2>1. CASE In!IncInputSem(n)
    <3>1. /\ inPc[n] = "clearing" /\ inPc'[n] \in {"waiting", "called"}
          /\ inSignals'[n] = inSignals[n] + 1
      BY <1>0, <2>1 DEF In!IncInputSem, In!TypeOK
    <3> QED BY <1>0, <1>1, <1>2, <3>1 DEF Consumed
  <2>2. CASE In!ReadyForAllInputs(n)
    <3>1. inPc[n] = "owns" /\ inPc'[n] = "clearing" /\ inSignals'[n] = inSignals[n]
      BY <1>0, <2>2 DEF In!ReadyForAllInputs, In!TypeOK
    <3>2. used[n] = inSignals[n]
      BY <1>4, <3>1 DEF InputStep
    <3> QED BY <1>0, <1>1, <1>2, <3>1, <3>2 DEF Consumed
  <2>3. CASE In!ReadyWithoutInputs(n)
    BY <2>3 DEF In!ReadyWithoutInputs, Mask
  <2>4. CASE /\ ~In!IncInputSem(n) /\ ~In!ReadyForAllInputs(n)
             /\ ~In!ReadyWithoutInputs(n)
    <3>1. inSignals'[n] = inSignals[n]
      BY <1>0, <1>4, <2>4 DEF InputStep, In!NspStep, In!ClearInputDoorbell,
         In!WaitForAllInputsReady, In!WaitForBuffer, In!ClearSeenBuffer, In!SkipBuffer,
         In!InputsReady, In!TypeOK
    <3>2. \/ inPc'[n] = inPc[n]
          \/ inPc[n] \in {"called", "waiting", "seen"} /\ inPc'[n] \in {"waiting", "seen", "owns"}
      BY <1>0, <1>4, <2>4 DEF InputStep, In!NspStep, In!ClearInputDoorbell,
         In!WaitForAllInputsReady, In!WaitForBuffer, In!ClearSeenBuffer, In!SkipBuffer,
         In!InputsReady, In!TypeOK
    <3> QED BY <1>0, <1>1, <1>2, <3>1, <3>2 DEF Consumed
  <2> QED BY <1>4, <2>1, <2>2, <2>3, <2>4 DEF InputStep
<1> QED BY <1>3, <1>4

\* A computation consumes the inference last asked for: its inputs are all there.
LEMMA ComputeKeeps ==
  ASSUME IInv, NEW m \in NSPs, Compute(m), NEW n \in Mask
  PROVE  Consumed(n)' /\ Handed(n)'
<1>0. TypeOK /\ n \in NSPs /\ Consumed(n) /\ Handed(n)
  BY MaskFacts DEF IInv
<1>1. PICK i \in In!Inputs : /\ m \in InputNsps[i]
                             /\ result' = [result EXCEPT ![m] = inVer[m][i]]
  BY DEF Compute
<1>2. m \in Mask /\ Consumed(m) /\ Handed(m)
  BY <1>1, MaskFacts DEF IInv
<1>3. inVer[m][i] = inSignals[m]
  <2>1. InP!HeldInputIsCurrent
    BY InConstants, InP!IInvGivesSafety DEF IInv
  <2> QED BY <1>1, <2>1 DEF Compute, InP!HeldInputIsCurrent, InP!Holds, In!Inputs, InP!Inputs
<1>4. /\ inSignals[m] = used[m] + 1 /\ result[m] = 0 /\ used[m] \in Nat
  BY <1>0, <1>2 DEF Compute, Consumed, TypeOK, In!TypeOK
<1>5. /\ used'[n] = IF n = m THEN used[n] + 1 ELSE used[n]
      /\ result'[n] = IF n = m THEN used[m] + 1 ELSE result[n]
  BY <1>0, <1>1, <1>3, <1>4 DEF Compute, TypeOK
<1>6. UNCHANGED <<inPc, inSignals, outPc, outSends, outPart>>
  BY DEF Compute, inVars, outVars
<1>7. Consumed(n)'
  BY <1>0, <1>2, <1>4, <1>5, <1>6 DEF Consumed, Compute
<1>8. Handed(n)'
  BY <1>0, <1>4, <1>5, <1>6 DEF Handed, Written, TypeOK, Out!TypeOK
<1> QED BY <1>7, <1>8

\* A write puts the pending result into the output buffers.
LEMMA WriteKeeps ==
  ASSUME IInv, NEW m \in NSPs, Write(m), NEW n \in Mask
  PROVE  Consumed(n)' /\ Handed(n)'
<1>0. TypeOK /\ Out!TypeOK /\ n \in NSPs /\ Consumed(n) /\ Handed(n)
  BY MaskFacts DEF IInv, TypeOK
<1>1. /\ outPart'[n] = IF n = m THEN result[n] ELSE outPart[n]
      /\ outPc'[n] = IF n = m THEN "written" ELSE outPc[n]
      /\ n = m => outPc[n] = "owns" /\ result[n] # 0
      /\ UNCHANGED outSends
  BY <1>0 DEF Write, Out!WriteOutputs, Out!TypeOK
<1>2. result'[n] = IF n = m THEN 0 ELSE result[n]
  BY <1>0 DEF Write, TypeOK
<1>3. UNCHANGED <<used, inPc, inSignals>>
  BY DEF Write, inVars
<1>4. Consumed(n)'
  BY <1>0, <1>3 DEF Consumed
<1>5. outSends[n] \in Nat
  BY <1>0 DEF Out!TypeOK
<1>6. Handed(n)'
  BY <1>0, <1>1, <1>2, <1>3, <1>5 DEF Handed, Written
<1> QED BY <1>4, <1>6

\* Sending does not change what is written.
LEMMA OutputStepKeeps ==
  ASSUME Disciplined, IInv, NEW m \in NSPs, OutputStep(m), NEW n \in Mask
  PROVE  Consumed(n)' /\ Handed(n)'
<1>0. Out!TypeOK /\ n \in NSPs /\ Consumed(n) /\ Handed(n)
  BY MaskFacts DEF IInv, TypeOK
<1>1. UNCHANGED <<used, result, inPc, inSignals, outPart>>
  BY DEF OutputStep, inVars, Out!NspStep, Out!WaitForAllOutputsReady, Out!WaitForBuffer,
     Out!ClearSeenBuffer, Out!OutputsReady, Out!SendAllOutputs, Out!SendWithoutOutputs,
     Out!ClearOutputDoorbell, Out!DecOutputSem
<1>2. Written(n)' = Written(n)
  <2>1. CASE m # n
    <3>1. outPc'[n] = outPc[n] /\ outSends'[n] = outSends[n]
      BY <1>0, <2>1 DEF OutputStep, Out!NspStep, Out!WaitForAllOutputsReady,
         Out!WaitForBuffer, Out!ClearSeenBuffer, Out!OutputsReady, Out!SendAllOutputs,
         Out!SendWithoutOutputs, Out!ClearOutputDoorbell, Out!DecOutputSem, Out!TypeOK
    <3> QED BY <3>1 DEF Written
  <2>2. CASE m = n /\ Out!DecOutputSem(n)
    <3>1. /\ outPc[n] = "clearing" /\ outPc'[n] \in {"waiting", "called"}
          /\ outSends'[n] = outSends[n] + 1 /\ outSends[n] \in Nat
      BY <1>0, <2>2 DEF Out!DecOutputSem, Out!TypeOK
    <3> QED BY <3>1 DEF Written
  <2>3. CASE m = n /\ ~Out!DecOutputSem(n)
    <3>1. ~Out!SendWithoutOutputs(n)
      BY MaskIsSendMask DEF Out!SendWithoutOutputs
    <3>2. outSends'[n] = outSends[n]
      BY <1>0, <2>3 DEF OutputStep, Out!NspStep, Out!WaitForAllOutputsReady,
         Out!WaitForBuffer, Out!ClearSeenBuffer, Out!OutputsReady, Out!SendAllOutputs,
         Out!SendWithoutOutputs, Out!ClearOutputDoorbell, Out!TypeOK
    <3>3. outPc'[n] \in {"written", "clearing"} <=> outPc[n] \in {"written", "clearing"}
      BY <1>0, <2>3, <3>1 DEF OutputStep, Out!NspStep, Out!WaitForAllOutputsReady,
         Out!WaitForBuffer, Out!ClearSeenBuffer, Out!OutputsReady, Out!SendAllOutputs,
         Out!ClearOutputDoorbell, Out!TypeOK
    <3> QED BY <3>2, <3>3 DEF Written
  <2> QED BY <2>1, <2>2, <2>3
<1> QED BY <1>0, <1>1, <1>2 DEF Consumed, Handed


\* The invariant is inductive.
LEMMA IInvStep == Disciplined /\ IInv /\ [Next]_vars => IInv'
<1> SUFFICES ASSUME Disciplined, IInv, [Next]_vars PROVE IInv'
  OBVIOUS
<1>0. TypeOK /\ InP!WaitsForAll /\ OutP!SendMaskIsOutputMask
  BY MaskIsSendMask DEF Disciplined, IInv
<1>1. InP!IInv' /\ In!TypeOK'
  <2>1. \/ In!DmaStep
        \/ \E n \in NSPs : In!NspStep(n) \/ In!DeliverDoorbell(n)
        \/ UNCHANGED inVars
    BY DEF Next, HostStep, InputStep, Compute, Write, OutputStep, Deliver, vars
  <2>2. InP!IInv'
    BY <1>0, <2>1, InStepKeeps DEF IInv
  <2> QED
    BY <2>2 DEF InP!IInv, In!TypeOK, InP!TypeOK, In!Inputs, InP!Inputs, In!PCs, InP!PCs,
       In!Phases, InP!Phases
<1>2. OutP!IInv' /\ Out!TypeOK'
  <2>1. ASSUME NEW n \in NSPs, Write(n) PROVE \E v \in Nat : Out!WriteOutputs(n, v)
    BY <1>0, <2>1 DEF Write, TypeOK
  <2>2. \/ Out!DmaStep
        \/ \E n \in NSPs : \/ Out!NspStep(n) \/ Out!DeliverDoorbell(n)
                           \/ \E v \in Nat : Out!WriteOutputs(n, v)
        \/ UNCHANGED outVars
    BY <2>1 DEF Next, HostStep, InputStep, Compute, OutputStep, Deliver, vars
  <2>3. OutP!IInv'
    BY <1>0, <2>2, OutStepKeeps DEF IInv
  <2> QED
    BY <2>3 DEF OutP!IInv, Out!TypeOK, OutP!TypeOK, Out!Outputs, OutP!Outputs, Out!PCs,
       OutP!PCs, Out!Phases, OutP!Phases
<1>3. used' \in [NSPs -> Nat] /\ result' \in [NSPs -> Nat]
  <2>1. ASSUME NEW m \in NSPs, Compute(m) PROVE used' \in [NSPs -> Nat] /\ result' \in [NSPs -> Nat]
    BY <1>0, <2>1 DEF Compute, TypeOK, In!TypeOK
  <2>2. ASSUME NEW m \in NSPs, Write(m) PROVE used' \in [NSPs -> Nat] /\ result' \in [NSPs -> Nat]
    BY <1>0, <2>2 DEF Write, TypeOK
  <2>3. CASE UNCHANGED <<used, result>>
    BY <1>0, <2>3 DEF TypeOK
  <2> QED
    BY <2>1, <2>2, <2>3 DEF Next, HostStep, InputStep, OutputStep, Deliver, vars
<1>4. ASSUME NEW n \in Mask PROVE Consumed(n)' /\ Handed(n)'
  <2>1. CASE HostStep \/ UNCHANGED vars \/ \E m \in NSPs : Deliver(m)
    <3>1. UNCHANGED <<used, result, inPc, inSignals, outPc, outSends, outPart>>
      BY <2>1 DEF HostStep, Deliver, vars, inVars, outVars, In!DmaStep, In!DmaWaitSem,
         In!DmaTransfer, In!DmaPostSem, In!DmaRingDoorbell, In!DeliverDoorbell, In!dmaVars,
         In!nspVars, Out!DmaStep, Out!DmaWaitSem, Out!DmaTransfer, Out!DmaPostSem,
         Out!DmaRingDoorbell, Out!DeliverDoorbell, Out!dmaVars, Out!nspVars
    <3> QED BY <3>1 DEF IInv, Consumed, Handed, Written
  <2> QED
    BY <2>1, InputStepKeeps, ComputeKeeps, WriteKeeps, OutputStepKeeps DEF Next
<1>5. ASSUME NEW n \in NSPs \ Mask PROVE result'[n] = 0
  <2>1. result[n] = 0
    BY DEF IInv
  <2>2. ASSUME NEW m \in NSPs, Compute(m) PROVE result'[n] = 0
    <3>1. m \in Mask
      BY <2>2, MaskFacts DEF Compute
    <3> QED BY <2>1, <2>2, <3>1, <1>0 DEF Compute, TypeOK
  <2>3. ASSUME NEW m \in NSPs, Write(m) PROVE result'[n] = 0
    BY <2>1, <2>3, <1>0 DEF Write, TypeOK
  <2> QED
    BY <2>1, <2>2, <2>3 DEF Next, HostStep, InputStep, OutputStep, Deliver, vars
<1> QED BY <1>1, <1>2, <1>3, <1>4, <1>5, MaskFacts DEF IInv, TypeOK, Mask, In!HasInputsMask

-----------------------------------------------------------------------------
(* Theorems *)

\* The inductive invariant holds in every reachable state of such a program.
THEOREM InvariantHolds == Disciplined => (Spec => []IInv)
<1> SUFFICES ASSUME Disciplined PROVE Spec => []IInv
  OBVIOUS
<1>1. IInv /\ [Next]_vars => IInv'
  BY IInvStep
<1> QED BY IInvInit, <1>1, PTL DEF Spec

\* With both halves and the computation running side by side, the host never transfers a
\* buffer, in either direction, that an NSP may touch.
THEOREM BuffersNeverRace == Disciplined => (Spec => []NoRace)
<1>1. IInv => NoRace
  <2> SUFFICES ASSUME IInv PROVE NoRace
    OBVIOUS
  <2>1. InP!NoInputRace
    BY InConstants, InP!IInvGivesSafety DEF IInv
  <2>2. OutP!NoOutputRace
    BY OutConstants, OutP!IInvGivesSafety DEF IInv
  <2> QED
    BY <2>1, <2>2 DEF NoRace, In!NoInputRace, InP!NoInputRace, In!Holds, InP!Holds,
       Out!NoOutputRace, OutP!NoOutputRace, Out!MayWrite, OutP!MayWrite
<1> QED BY InvariantHolds, <1>1, PTL

\* What the host reads for an inference was computed from that inference's inputs, on
\* every NSP that contributes.
THEOREM ResultsMatch == Disciplined => (Spec => []ResultsMatchInferences)
<1>1. Disciplined /\ IInv => ResultsMatchInferences
  <2> SUFFICES ASSUME Disciplined, IInv, outPhase = "xfer", NEW n \in OutputNsps[outIdx]
              PROVE  outPart[n] = outRound + 1
    BY DEF ResultsMatchInferences
  <2>1. n \in OutP!HasOutputsMask /\ n \in Mask
    <3>1. outIdx \in Out!Outputs
      BY DEF IInv, TypeOK, Out!TypeOK
    <3> QED
      BY <3>1 DEF Disciplined, Mask, Out!HasOutputsMask, OutP!HasOutputsMask, Out!Outputs,
         OutP!Outputs
  <2>2. outSends[n] = outRound + 1 /\ ~OutP!MayWrite(n, outIdx)
    BY <2>1, OutConstants, OutP!TransferFacts DEF IInv
  <2>3. Written(n) = outRound + 1
    <3>1. outRound \in Nat
      BY DEF IInv, TypeOK, Out!TypeOK
    <3> QED BY <2>2, <3>1 DEF OutP!MayWrite, Written
  <2> QED BY <2>1, <2>3 DEF IInv, Handed
<1>2. Disciplined => (Spec => []ResultsMatchInferences)
  <2> SUFFICES ASSUME Disciplined PROVE Spec => []ResultsMatchInferences
    OBVIOUS
  <2>1. IInv => ResultsMatchInferences
    BY <1>1
  <2> QED BY InvariantHolds, <2>1, PTL
<1> QED BY <1>2

\* A program that serves inferences implements each half of the handshake: seen from the
\* inputs it is HostInputs, and seen from the outputs it is HostOutputs, whose program
\* writes its inferences one after another.
THEOREM ImplementsHalves == Disciplined => (Spec => In!Spec /\ Out!Spec)
<1> SUFFICES ASSUME Disciplined PROVE Spec => In!Spec /\ Out!Spec
  OBVIOUS
<1>1. [Next]_vars => [In!Next]_(In!vars)
  BY DEF Next, HostStep, InputStep, Compute, Write, OutputStep, Deliver, vars, inVars,
     In!Next, In!vars, In!dmaVars, In!nspVars
<1>2. IInv /\ [Next]_vars => [Out!Next]_(Out!vars)
  <2> SUFFICES ASSUME IInv, [Next]_vars PROVE Out!Next \/ UNCHANGED outVars
    BY DEF outVars, Out!vars, Out!dmaVars, Out!nspVars
  <2>1. ASSUME NEW n \in NSPs, Write(n) PROVE Out!WriteOutputs(n, outSends[n] + 1)
    <3>1. n \in Mask
      BY <2>1 DEF IInv, Write
    <3>2. outPc[n] = "owns" /\ result[n] # 0
      BY <2>1 DEF Write, Out!WriteOutputs
    <3>3. outSends[n] \in Nat /\ result[n] = outSends[n] + 1
      BY <3>1, <3>2, MaskFacts DEF IInv, Handed, Written, TypeOK, Out!TypeOK
    <3> QED BY <2>1, <3>3 DEF Write
  <2> QED
    BY <2>1 DEF Next, HostStep, InputStep, Compute, OutputStep, Deliver, vars, Out!Next
<1> QED BY InvariantHolds, <1>1, <1>2, PTL DEF Spec, Init, In!Spec, Out!Spec

=============================================================================
