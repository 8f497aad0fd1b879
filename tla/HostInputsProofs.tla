-------------------------- MODULE HostInputsProofs --------------------------
(***************************************************************************)
(* Proofs about HostInputs, for any number of NSPs, inputs and inferences, *)
(* under the one condition the documentation leaves unsaid: a program that *)
(* has inputs waits for all of them before it asks for the next ones.      *)
(* The last part is about PartialInputs: what a program reads about its    *)
(* partial inputs is as current as the inputs themselves.                  *)
(***************************************************************************)
EXTENDS PartialInputs, FiniteSetTheorems, TLAPS

WaitsForAll == \A n \in HasInputsMask : Awaits[n] = Inputs

(***************************************************************************)
(* The inductive invariant.  InitsDone counts the INIT operations of the   *)
(* engine; Ready are the NSPs whose increment came after the last one.     *)
(***************************************************************************)
InitDone == dmaIdx = NumInputs - 1 /\ dmaPhase = "ring"

InitsDone == dmaRound + (IF InitDone THEN 1 ELSE 0)

Ready == {n \in HasInputsMask : signals[n] = InitsDone + 1}

Loaded(i) == i < dmaIdx \/ (i = dmaIdx /\ dmaPhase \in {"post", "ring"})

\* No NSP is an inference ahead of or behind the engine.
InStep == \A n \in HasInputsMask : signals[n] \in {InitsDone, InitsDone + 1}

SemCountsReady == sem = Cardinality(Ready)

\* From the first WAITEQ to the INIT every NSP is ready, and from the INIT to the last
\* doorbell none is.
TransferNeedsAll ==
  dmaPhase # "pre" \/ dmaIdx # 0 => Ready = IF InitDone THEN {} ELSE HasInputsMask

\* The doorbell of input i at n.  Held means rung for the current inference; a write
\* still in flight is for the current inference, and neither seen nor landed; before
\* the ring the word is clear; the clear loop has done its part; and the doorbell is
\* not lost (the property NoDoorbellLost).
DoorbellInv(n, i) ==
  /\ Holds(n, i) => Rings(i) = signals[n]
  /\ i \in flight[n] => Rings(i) = signals[n] /\ ~Holds(n, i) /\ db[n][i] = 0
  /\ Rings(i) < signals[n] => db[n][i] = 0
  /\ pc[n] = "clearing" /\ i < k[n] => db[n][i] = 0
  /\ Rings(i) = signals[n] /\ ~Holds(n, i) => db[n][i] = 1 \/ i \in flight[n]

DoorbellsOK == \A n \in HasInputsMask, i \in Inputs : DoorbellInv(n, i)

DataFollowsEngine ==
  \A i \in Inputs : \A n \in InputNsps[i] :
    ver[n][i] = dmaRound + (IF Loaded(i) THEN 1 ELSE 0)

\* Only NSPs with inputs signal, and a seen doorbell is that of an input.
PcOK ==
  \A n \in NSPs : /\ pc[n] = "clearing" => n \in HasInputsMask
                  /\ pc[n] = "seen" => k[n] \in Inputs

IInv ==
  /\ TypeOK
  /\ PcOK
  /\ InStep
  /\ SemCountsReady
  /\ TransferNeedsAll
  /\ DoorbellsOK
  /\ DataFollowsEngine

-----------------------------------------------------------------------------
(* Facts about the constants *)

\* The mask is a finite set of NSPs, and its cardinality the value the engine waits for.
LEMMA MaskFacts ==
  /\ HasInputsMask \subseteq NSPs
  /\ IsFiniteSet(HasInputsMask)
  /\ InputSemWaitVal \in Nat
  /\ 0 \in Inputs /\ NumInputs - 1 \in Inputs
  /\ \A i \in Inputs : InputNsps[i] \subseteq HasInputsMask
<1>1. HasInputsMask \subseteq NSPs
  BY InputsAssumption DEF HasInputsMask
<1>2. IsFiniteSet(HasInputsMask)
  BY <1>1, NSPsAssumption, FS_Subset
<1>3. InputSemWaitVal \in Nat
  BY <1>2, FS_CardinalityType DEF InputSemWaitVal
<1>4. 0 \in Inputs /\ NumInputs - 1 \in Inputs
  BY InputsAssumption DEF Inputs
<1>5. \A i \in Inputs : InputNsps[i] \subseteq HasInputsMask
  BY DEF HasInputsMask
<1> QED BY <1>1, <1>2, <1>3, <1>4, <1>5

\* The number of ready NSPs is a number, and it is the awaited one only when every
\* NSP of the mask is ready.
LEMMA ReadyCounts ==
  /\ IsFiniteSet(Ready)
  /\ Cardinality(Ready) \in Nat
  /\ Cardinality(Ready) = InputSemWaitVal => Ready = HasInputsMask
<1>1. Ready \subseteq HasInputsMask
  BY DEF Ready
<1> QED BY <1>1, MaskFacts, FS_Subset, FS_CardinalityType DEF InputSemWaitVal

-----------------------------------------------------------------------------
(* Type correctness *)

\* The initial state is typed.
LEMMA TypeInit == Init => TypeOK
BY MaskFacts, InputsAssumption, InferencesAssumption
   DEF Init, TypeOK, PCs, Phases, Inputs

\* Clearing a doorbell keeps the doorbells typed.
LEMMA ClearType ==
  ASSUME TypeOK, NEW n \in NSPs, NEW i, clearBufferValid(n, i)
  PROVE  db' \in [NSPs -> [Inputs -> {0, 1}]]
<1>1. [db[n] EXCEPT ![i] = 0] \in [Inputs -> {0, 1}]
  BY DEF TypeOK
<1>2. db' = [db EXCEPT ![n] = [db[n] EXCEPT ![i] = 0]]
  BY DEF clearBufferValid
<1> QED BY <1>1, <1>2 DEF TypeOK

\* Every step of an NSP, the engine or a doorbell keeps the types.
LEMMA TypeStep == TypeOK /\ [Next]_vars => TypeOK'
<1> SUFFICES ASSUME TypeOK, [Next]_vars PROVE TypeOK'
  OBVIOUS
<1> USE DEF TypeOK, PCs, Phases, dmaVars, nspVars
<1>1. CASE DmaWaitSem
  BY <1>1 DEF DmaWaitSem
<1>2. CASE DmaTransfer
  BY <1>2 DEF DmaTransfer
<1>3. CASE DmaPostSem
  BY <1>3 DEF DmaPostSem
<1>4. CASE DmaRingDoorbell
  BY <1>4, InputsAssumption DEF DmaRingDoorbell, Inputs
<1>5. ASSUME NEW n \in NSPs, DeliverDoorbell(n) PROVE TypeOK'
  BY <1>5 DEF DeliverDoorbell
<1>6. ASSUME NEW n \in NSPs, NspStep(n) PROVE TypeOK'
  <2>1. CASE ReadyForAllInputs(n)
    BY <2>1, ArgsAssumption DEF ReadyForAllInputs
  <2>2. CASE ReadyWithoutInputs(n)
    BY <2>2 DEF ReadyWithoutInputs
  <2>3. CASE ClearInputDoorbell(n)
    <3>1. db' \in [NSPs -> [Inputs -> {0, 1}]]
      BY <2>3, ClearType DEF ClearInputDoorbell
    <3>2. k' \in [NSPs -> Nat] /\ pc' \in [NSPs -> PCs]
      BY <2>3 DEF ClearInputDoorbell
    <3> QED BY <2>3, <3>1, <3>2 DEF ClearInputDoorbell
  <2>4. CASE IncInputSem(n)
    BY <2>4 DEF IncInputSem
  <2>5. CASE WaitForAllInputsReady(n)
    BY <2>5, ArgsAssumption DEF WaitForAllInputsReady
  <2>6. CASE WaitForBuffer(n)
    <3>1. k' \in [NSPs -> Nat]
      BY <2>6, SMTT(30) DEF WaitForBuffer
    <3>2. pc' \in [NSPs -> PCs]
      BY <2>6 DEF WaitForBuffer
    <3> QED BY <2>6, <3>1, <3>2 DEF WaitForBuffer
  <2>7. CASE ClearSeenBuffer(n)
    <3>1. db' \in [NSPs -> [Inputs -> {0, 1}]]
      BY <2>7, ClearType DEF ClearSeenBuffer
    <3>2. k' \in [NSPs -> Nat] /\ pc' \in [NSPs -> PCs]
      BY <2>7 DEF ClearSeenBuffer
    <3> QED BY <2>7, <3>1, <3>2 DEF ClearSeenBuffer
  <2>8. CASE SkipBuffer(n)
    BY <2>8 DEF SkipBuffer
  <2>9. CASE InputsReady(n)
    BY <2>9 DEF InputsReady
  <2> QED
    BY <1>6, <2>1, <2>2, <2>3, <2>4, <2>5, <2>6, <2>7, <2>8, <2>9 DEF NspStep
<1>7. CASE UNCHANGED vars
  BY <1>7 DEF vars
<1> QED
  BY <1>1, <1>2, <1>3, <1>4, <1>5, <1>6, <1>7 DEF Next, DmaStep

-----------------------------------------------------------------------------
(* The invariant holds initially *)

\* Nobody has signalled, nothing is rung, the engine is at its first request.
LEMMA IInvInit == Init => IInv
<1> SUFFICES ASSUME Init PROVE IInv
  OBVIOUS
<1> USE DEF Init
<1>1. Ready = {} /\ ~InitDone
  BY MaskFacts DEF Ready, InitsDone, InitDone
<1>2. InStep
  BY <1>1, MaskFacts DEF InStep, InitsDone
<1>3. SemCountsReady
  BY <1>1, FS_EmptySet DEF SemCountsReady
<1>4. DoorbellsOK
  BY MaskFacts DEF DoorbellsOK, DoorbellInv, Holds, Rings, Inputs
<1>5. PcOK /\ TransferNeedsAll
  BY MaskFacts DEF PcOK, TransferNeedsAll
<1>6. DataFollowsEngine
  BY MaskFacts DEF DataFollowsEngine, Loaded, Inputs
<1> QED
  BY <1>2, <1>3, <1>4, <1>5, <1>6, TypeInit DEF IInv

-----------------------------------------------------------------------------
(* What the invariant says of one NSP *)

\* The engine never rings for an inference that n has not asked for.
LEMMA RingFacts ==
  ASSUME IInv, NEW n \in HasInputsMask, NEW i \in Inputs
  PROVE  Rings(i) \in Nat /\ signals[n] \in Nat /\ Rings(i) <= signals[n]
<1>1. n \in NSPs /\ signals[n] \in {InitsDone, InitsDone + 1}
  BY MaskFacts DEF IInv, InStep
<1>2. dmaRound \in Nat /\ dmaIdx \in Int /\ i \in Int /\ signals[n] \in Nat
  BY <1>1, InputsAssumption DEF IInv, TypeOK, Inputs
<1>3. dmaIdx # 0 => InitDone \/ signals[n] = InitsDone + 1
  BY DEF IInv, TransferNeedsAll, Ready
<1>4. i < dmaIdx => dmaIdx # 0
  BY <1>2 DEF Inputs
<1> QED
  BY <1>1, <1>2, <1>3, <1>4 DEF Rings, InitsDone

\* While an NSP has its inputs, the engine is between two inferences.
LEMMA OwnsMeansIdle ==
  ASSUME IInv, NEW n \in HasInputsMask, pc[n] \in {"owns", "clearing"}
  PROVE  /\ dmaIdx = 0 /\ dmaPhase = "pre" /\ ~InitDone
         /\ signals[n] = dmaRound
         /\ n \notin Ready
<1>1. \A i \in Inputs : Rings(i) = signals[n]
  BY DEF IInv, DoorbellsOK, DoorbellInv, Holds
<1>2. dmaRound \in Nat /\ dmaIdx \in 0 .. NumInputs - 1
  BY DEF IInv, TypeOK, Inputs
<1>3. signals[n] = dmaRound
  BY <1>1, <1>2, MaskFacts, InputsAssumption DEF Rings
<1>4. dmaIdx = 0
  BY <1>1, <1>2, <1>3, MaskFacts DEF Rings
<1>5. n \notin Ready
  BY <1>2, <1>3 DEF Ready, InitsDone
<1>6. ~InitDone
  BY <1>2, <1>3 DEF IInv, InStep, InitsDone
<1>7. dmaPhase = "pre"
  BY <1>5, <1>6 DEF IInv, TransferNeedsAll
<1> QED BY <1>3, <1>4, <1>5, <1>6, <1>7

-----------------------------------------------------------------------------
(* The invariant is preserved: steps of an NSP *)

\* A step that touches neither the engine nor the counters leaves their part alone.
LEMMA EngineFrame ==
  ASSUME IInv, UNCHANGED <<sem, dmaVars, signals>>
  PROVE  InStep' /\ SemCountsReady' /\ TransferNeedsAll' /\ DataFollowsEngine'
BY DEF IInv, InStep, SemCountsReady, TransferNeedsAll, DataFollowsEngine,
       Ready, InitsDone, InitDone, Loaded, dmaVars

\* A step of NSP n does not concern another NSP's doorbells.
LEMMA OtherNsp ==
  ASSUME IInv, NEW m \in HasInputsMask, NEW i \in Inputs,
         db'[m] = db[m], flight'[m] = flight[m], pc'[m] = pc[m], k'[m] = k[m],
         signals'[m] = signals[m], UNCHANGED <<dmaRound, dmaIdx>>
  PROVE  DoorbellInv(m, i)'
BY DEF IInv, DoorbellsOK, DoorbellInv, Holds, Rings

\* No step of readyForAllInputs, waitForAllInputsReady or waitForBuffer breaks the invariant.
LEMMA NspStepKeeps ==
  ASSUME WaitsForAll, IInv, NEW n \in NSPs, NspStep(n)
  PROVE  IInv'
<1>0. TypeOK /\ TypeOK'
  BY TypeStep DEF IInv, Next
<1>a. ASSUME NEW m \in HasInputsMask, m # n, NEW i \in Inputs
      PROVE  DoorbellInv(m, i)'
  <2>1. m \in NSPs
    BY MaskFacts
  <2>2. /\ db'[m] = db[m] /\ flight'[m] = flight[m] /\ pc'[m] = pc[m]
        /\ k'[m] = k[m] /\ signals'[m] = signals[m]
        /\ UNCHANGED <<dmaRound, dmaIdx>>
    BY <1>0, <1>a, <2>1 DEF NspStep, ReadyForAllInputs, ReadyWithoutInputs,
       ClearInputDoorbell, IncInputSem, WaitForAllInputsReady, WaitForBuffer,
       ClearSeenBuffer, SkipBuffer, InputsReady, clearBufferValid, TypeOK, dmaVars
  <2> QED BY <2>2, OtherNsp
<1>b. ASSUME n \in HasInputsMask => \A i \in Inputs : DoorbellInv(n, i)'
      PROVE  DoorbellsOK'
  BY <1>a, <1>b DEF DoorbellsOK
<1> USE DEF DoorbellInv, Holds, Rings, dmaVars
<1>c. \A i \in Inputs : n \in HasInputsMask => DoorbellInv(n, i)
  BY DEF IInv, DoorbellsOK
<1>d. \A i \in Inputs : i \in Nat /\ i < NumInputs
  BY InputsAssumption DEF Inputs
<1>e. ASSUME NEW j, clearBufferValid(n, j), NEW i \in Inputs
      PROVE  db'[n][i] = IF i = j THEN 0 ELSE db[n][i]
  BY <1>0, <1>e DEF clearBufferValid, TypeOK
<1>1. CASE ReadyForAllInputs(n)
  <2> USE <1>1 DEF ReadyForAllInputs
  <2>1. PcOK'
    BY <1>0 DEF IInv, PcOK, TypeOK
  <2>2. n \in HasInputsMask => \A i \in Inputs : DoorbellInv(n, i)'
    BY <1>0, <1>c, <1>d DEF TypeOK
  <2> QED BY <1>0, <1>b, <2>1, <2>2, EngineFrame DEF IInv
<1>2. CASE ReadyWithoutInputs(n)
  <2> USE <1>2 DEF ReadyWithoutInputs
  <2>1. PcOK'
    BY <1>0 DEF IInv, PcOK, TypeOK
  <2> QED BY <1>0, <1>b, <2>1, EngineFrame DEF IInv
<1>3. CASE ClearInputDoorbell(n)
  <2> USE <1>3 DEF ClearInputDoorbell
  <2>1. PcOK'
    BY <1>0 DEF IInv, PcOK, TypeOK
  <2>2. ASSUME n \in HasInputsMask, NEW i \in Inputs PROVE DoorbellInv(n, i)'
    <3>1. /\ db'[n][i] = IF i = k[n] THEN 0 ELSE db[n][i]
          /\ pc'[n] = "clearing" /\ k'[n] = k[n] + 1 /\ k[n] \in Nat
          /\ UNCHANGED <<flight, signals, dmaRound, dmaIdx>>
      BY <1>0, <1>e DEF TypeOK
    <3>2. DoorbellInv(n, i) /\ i \in Nat
      BY <1>c, <1>d, <2>2
    <3> QED BY <3>1, <3>2
  <2> QED BY <1>0, <1>b, <2>1, <2>2, EngineFrame DEF IInv
<1>4. CASE IncInputSem(n)
  <2> USE <1>4 DEF IncInputSem
  <2>1. PcOK'
    BY <1>0 DEF IInv, PcOK, TypeOK
  <2>2. ASSUME n \in HasInputsMask, NEW i \in Inputs PROVE DoorbellInv(n, i)'
    <3>1. /\ db'[n][i] = db[n][i] /\ signals'[n] = signals[n] + 1
          /\ pc'[n] \in {"waiting", "called"} /\ k'[n] = 0
          /\ UNCHANGED <<flight, dmaRound, dmaIdx>>
      BY <1>0 DEF TypeOK
    <3>2. DoorbellInv(n, i) /\ i \in Nat /\ i < NumInputs
      BY <1>c, <1>d, <2>2
    <3>3. Rings(i) = signals[n] /\ signals[n] \in Nat /\ db[n][i] = 0
      BY <3>2, <1>0 DEF TypeOK
    <3> QED BY <3>1, <3>2, <3>3
  <2>3. n \in HasInputsMask
    BY <1>0 DEF IInv, PcOK
  <2>4. /\ dmaIdx = 0 /\ dmaPhase = "pre" /\ ~InitDone
        /\ signals[n] = dmaRound /\ n \notin Ready
    BY <2>3, OwnsMeansIdle
  <2>5. \A m \in NSPs : signals'[m] = IF m = n THEN dmaRound + 1 ELSE signals[m]
    BY <1>0, <2>4 DEF TypeOK
  <2>6. InitsDone = dmaRound /\ InitsDone' = dmaRound /\ ~InitDone' /\ dmaRound \in Nat
    BY <1>0, <2>4 DEF InitsDone, InitDone, TypeOK
  <2>7. InStep'
    BY <2>3, <2>5, <2>6, MaskFacts DEF IInv, InStep
  <2>8. Ready' = Ready \union {n}
    BY <2>3, <2>5, <2>6, MaskFacts DEF Ready
  <2>9. SemCountsReady'
    BY <2>4, <2>8, ReadyCounts, FS_AddElement DEF IInv, SemCountsReady
  <2>10. TransferNeedsAll' /\ DataFollowsEngine'
    BY <2>4 DEF IInv, TransferNeedsAll, DataFollowsEngine, Loaded
  <2> QED BY <1>0, <1>b, <2>1, <2>2, <2>7, <2>9, <2>10 DEF IInv
<1>5. CASE WaitForAllInputsReady(n)
  <2> USE <1>5 DEF WaitForAllInputsReady
  <2>1. PcOK'
    BY <1>0 DEF IInv, PcOK, TypeOK
  <2>2. n \in HasInputsMask => \A i \in Inputs : DoorbellInv(n, i)'
    BY <1>0, <1>c, <1>d DEF TypeOK
  <2> QED BY <1>0, <1>b, <2>1, <2>2, EngineFrame DEF IInv
<1>6. CASE WaitForBuffer(n)
  <2> USE <1>6 DEF WaitForBuffer
  <2>0. k[n] \in Inputs
    BY AwaitsAssumption DEF Awaited
  <2>1. PcOK'
    BY <1>0, <2>0 DEF IInv, PcOK, TypeOK
  <2>2. n \in HasInputsMask => Rings(k[n]) = signals[n]
    BY <1>0, <1>c, <2>0, RingFacts DEF isBufferValid
  <2>3. n \in HasInputsMask => \A i \in Inputs : DoorbellInv(n, i)'
    BY <1>0, <1>c, <1>d, <2>0, <2>2 DEF TypeOK, isBufferValid, Inputs
  <2> QED BY <1>0, <1>b, <2>1, <2>3, EngineFrame DEF IInv
<1>7. CASE ClearSeenBuffer(n)
  <2> USE <1>7 DEF ClearSeenBuffer
  <2>1. PcOK'
    BY <1>0 DEF IInv, PcOK, TypeOK
  <2>2. ASSUME n \in HasInputsMask, NEW i \in Inputs PROVE DoorbellInv(n, i)'
    <3>1. /\ db'[n][i] = IF i = k[n] THEN 0 ELSE db[n][i]
          /\ pc'[n] = "waiting" /\ k'[n] = k[n] + 1 /\ k[n] \in Nat
          /\ UNCHANGED <<flight, signals, dmaRound, dmaIdx>>
      BY <1>0, <1>e DEF TypeOK
    <3>2. DoorbellInv(n, i) /\ i \in Nat
      BY <1>c, <1>d, <2>2
    <3> QED BY <3>1, <3>2
  <2> QED BY <1>0, <1>b, <2>1, <2>2, EngineFrame DEF IInv
<1>8. CASE SkipBuffer(n)
  <2> USE <1>8 DEF SkipBuffer
  <2>1. PcOK'
    BY <1>0 DEF IInv, PcOK, TypeOK
  <2>2. n \notin HasInputsMask
    BY DEF WaitsForAll, Awaited
  <2> QED BY <1>0, <1>b, <2>1, <2>2, EngineFrame DEF IInv
<1>9. CASE InputsReady(n)
  <2> USE <1>9 DEF InputsReady
  <2>1. PcOK'
    BY <1>0 DEF IInv, PcOK, TypeOK
  <2>2. n \in HasInputsMask => \A i \in Inputs : DoorbellInv(n, i)'
    BY <1>0, <1>c, <1>d DEF TypeOK
  <2> QED BY <1>0, <1>b, <2>1, <2>2, EngineFrame DEF IInv
<1> QED BY <1>1, <1>2, <1>3, <1>4, <1>5, <1>6, <1>7, <1>8, <1>9 DEF NspStep

-----------------------------------------------------------------------------
(* The invariant is preserved: steps of the engine *)

\* A doorbell that lands sets a word its NSP is still to see.
LEMMA DeliverKeeps ==
  ASSUME IInv, NEW n \in NSPs, DeliverDoorbell(n)
  PROVE  IInv'
<1>0. TypeOK /\ TypeOK'
  BY TypeStep DEF IInv, Next
<1>1. PICK j \in flight[n] : /\ flight' = [flight EXCEPT ![n] = @ \ {j}]
                             /\ db' = [db EXCEPT ![n][j] = 1]
  BY DEF DeliverDoorbell
<1>2. UNCHANGED <<sem, dmaRound, dmaIdx, dmaPhase, ver, pc, k, wait, clear, signals>>
  BY DEF DeliverDoorbell, dmaVars, nspVars
<1>3. ASSUME NEW m \in HasInputsMask, NEW i \in Inputs PROVE DoorbellInv(m, i)'
  <2>1. m \in NSPs /\ DoorbellInv(m, i)
    BY MaskFacts DEF IInv, DoorbellsOK
  <2>2. CASE m # n
    BY <1>0, <1>1, <1>2, <2>1, <2>2, OtherNsp DEF TypeOK
  <2>3. CASE m = n
    <3>1. /\ db'[n][i] = IF i = j THEN 1 ELSE db[n][i]
          /\ i \in flight'[n] <=> i \in flight[n] /\ i # j
      BY <1>0, <1>1 DEF TypeOK
    <3>2. i = j => Rings(i) = signals[n] /\ ~Holds(n, i)
      BY <1>1, <2>1, <2>3 DEF DoorbellInv
    <3>3. Rings(i)' = Rings(i) /\ Rings(i) \in Nat /\ signals[n] \in Nat
      BY <1>2, <2>3, RingFacts DEF Rings
    <3> QED
      BY <1>2, <2>1, <2>3, <3>1, <3>2, <3>3 DEF DoorbellInv, Holds
  <2> QED BY <2>2, <2>3
<1>4. PcOK'
  BY <1>2 DEF IInv, PcOK
<1> QED
  BY <1>0, <1>2, <1>3, <1>4, EngineFrame DEF IInv, DoorbellsOK, dmaVars

\* No step of the engine breaks the invariant: it gets past WAITEQ only with all NSPs ready.
LEMMA DmaStepKeeps == IInv /\ DmaStep => IInv'
<1> SUFFICES ASSUME IInv, DmaStep PROVE IInv'
  OBVIOUS
<1>0. TypeOK /\ TypeOK'
  BY TypeStep DEF IInv, Next
<1>1. dmaRound \in Nat /\ dmaIdx \in 0 .. NumInputs - 1 /\ NumInputs \in Nat \ {0}
  BY <1>0, InputsAssumption DEF TypeOK, Inputs
<1>2. PcOK'
  BY DEF IInv, PcOK, DmaStep, DmaWaitSem, DmaTransfer, DmaPostSem, DmaRingDoorbell, nspVars
<1>3. CASE DmaWaitSem
  <2> USE <1>3 DEF DmaWaitSem
  <2>1. Ready = HasInputsMask
    BY ReadyCounts DEF IInv, SemCountsReady
  <2>2. Ready' = Ready /\ InitsDone' = InitsDone /\ ~InitDone'
    BY DEF Ready, InitsDone, InitDone, nspVars
  <2>3. InStep' /\ SemCountsReady' /\ TransferNeedsAll'
    BY <2>1, <2>2 DEF IInv, InStep, SemCountsReady, TransferNeedsAll, nspVars
  <2>4. DataFollowsEngine' /\ DoorbellsOK'
    BY DEF IInv, DataFollowsEngine, Loaded, DoorbellsOK, DoorbellInv, Holds, Rings, nspVars
  <2> QED BY <1>0, <1>2, <2>3, <2>4 DEF IInv
<1>4. CASE DmaTransfer
  <2> USE <1>4 DEF DmaTransfer
  <2>1. Ready' = Ready /\ InitsDone' = InitsDone /\ ~InitDone /\ ~InitDone'
    BY DEF Ready, InitsDone, InitDone, nspVars
  <2>2. InStep' /\ SemCountsReady' /\ TransferNeedsAll'
    BY <2>1 DEF IInv, InStep, SemCountsReady, TransferNeedsAll, nspVars
  <2>3. DoorbellsOK'
    BY DEF IInv, DoorbellsOK, DoorbellInv, Holds, Rings, nspVars
  <2>4. DataFollowsEngine'
    BY <1>0, <1>1, InputsAssumption DEF IInv, DataFollowsEngine, Loaded, TypeOK, Inputs
  <2> QED BY <1>0, <1>2, <2>2, <2>3, <2>4 DEF IInv
<1>5. CASE DmaPostSem
  <2> USE <1>5 DEF DmaPostSem
  <2>1. Ready = HasInputsMask
    BY DEF IInv, TransferNeedsAll, InitDone
  <2>2. DoorbellsOK' /\ DataFollowsEngine'
    BY DEF IInv, DoorbellsOK, DoorbellInv, Holds, Rings, nspVars, DataFollowsEngine, Loaded
  <2>3. CASE dmaIdx = NumInputs - 1
    <3>1. InitDone' /\ InitsDone = dmaRound /\ InitsDone' = dmaRound + 1
      BY <1>1, <2>3 DEF InitsDone, InitDone
    <3>2. \A n \in HasInputsMask : signals'[n] = dmaRound + 1
      BY <2>1, <3>1 DEF Ready, nspVars
    <3>3. Ready' = {}
      BY <1>1, <3>1, <3>2 DEF Ready
    <3>4. SemCountsReady' /\ TransferNeedsAll' /\ InStep'
      BY <1>1, <2>3, <3>1, <3>2, <3>3, FS_EmptySet DEF SemCountsReady, TransferNeedsAll, InStep
    <3> QED BY <1>0, <1>2, <2>2, <3>4 DEF IInv
  <2>4. CASE dmaIdx # NumInputs - 1
    <3>1. Ready' = Ready /\ InitsDone' = InitsDone /\ ~InitDone'
      BY <2>4 DEF Ready, InitsDone, InitDone, nspVars
    <3>2. SemCountsReady' /\ TransferNeedsAll' /\ InStep'
      BY <2>1, <2>4, <3>1 DEF IInv, SemCountsReady, TransferNeedsAll, InStep, nspVars
    <3> QED BY <1>0, <1>2, <2>2, <3>2 DEF IInv
  <2> QED BY <2>3, <2>4
<1>6. CASE DmaRingDoorbell
  <2> USE <1>6 DEF DmaRingDoorbell
  <2>1. InitsDone' = InitsDone /\ ~InitDone'
    BY <1>1 DEF InitsDone, InitDone
  <2>2. Ready' = Ready
    BY <2>1 DEF Ready, nspVars
  <2>3. InStep' /\ SemCountsReady'
    BY <2>1, <2>2 DEF IInv, InStep, SemCountsReady, nspVars
  <2>4. TransferNeedsAll'
    BY <1>1, <2>1, <2>2 DEF IInv, TransferNeedsAll, InitDone
  <2>5. DataFollowsEngine'
    BY <1>1 DEF IInv, DataFollowsEngine, Loaded, Inputs
  <2>6. ASSUME NEW n \in HasInputsMask, NEW i \in Inputs PROVE DoorbellInv(n, i)'
    <3>1. n \in NSPs /\ DoorbellInv(n, i) /\ i \in 0 .. NumInputs - 1
      BY MaskFacts DEF IInv, DoorbellsOK, Inputs
    <3>2. flight'[n] = flight[n] \union {dmaIdx}
      BY <3>1
    <3>3. Rings(i)' = Rings(i) + (IF i = dmaIdx THEN 1 ELSE 0)
      BY <1>1, <3>1 DEF Rings
    <3>4. signals[n] >= dmaRound + 1 /\ signals[n] \in Nat
      <4>1. InitDone \/ signals[n] = InitsDone + 1
        BY DEF IInv, TransferNeedsAll, Ready
      <4>2. signals[n] \in {InitsDone, InitsDone + 1}
        BY DEF IInv, InStep
      <4> QED BY <1>1, <4>1, <4>2 DEF InitsDone
    <3>5. i = dmaIdx => Rings(i) = dmaRound /\ db[n][i] = 0 /\ ~Holds(n, i)
      BY <1>1, <3>1, <3>4 DEF Rings, DoorbellInv
    <3>6. i = dmaIdx => signals[n] = dmaRound + 1
      <4>1. i = dmaIdx => n \notin Ready \/ ~InitDone
        BY DEF IInv, TransferNeedsAll
      <4>2. signals[n] \in {InitsDone, InitsDone + 1}
        BY DEF IInv, InStep
      <4>3. n \notin Ready => signals[n] # InitsDone + 1
        BY DEF Ready
      <4> QED BY <1>1, <3>4, <4>1, <4>2, <4>3 DEF InitsDone
    <3> QED
      BY <1>1, <3>1, <3>2, <3>3, <3>4, <3>5, <3>6, RingFacts
         DEF DoorbellInv, Holds, nspVars
  <2> QED BY <1>0, <1>2, <2>3, <2>4, <2>5, <2>6 DEF IInv, DoorbellsOK
<1> QED BY <1>3, <1>4, <1>5, <1>6 DEF DmaStep

-----------------------------------------------------------------------------
(* Theorems *)

\* Every variable keeps its type, for any number of NSPs, inputs and inferences.
THEOREM TypeCorrect == Spec => []TypeOK
<1>1. TypeOK /\ [Next]_vars => TypeOK'
  BY TypeStep
<1> QED BY TypeInit, <1>1, PTL DEF Spec

\* The invariant is inductive.
LEMMA IInvStep == WaitsForAll /\ IInv /\ [Next]_vars => IInv'
<1> SUFFICES ASSUME WaitsForAll, IInv, [Next]_vars PROVE IInv'
  OBVIOUS
<1>1. CASE UNCHANGED vars
  BY <1>1 DEF vars, dmaVars, nspVars, IInv, TypeOK, PcOK, InStep, SemCountsReady,
     TransferNeedsAll, DoorbellsOK, DoorbellInv, DataFollowsEngine, Ready, InitsDone,
     InitDone, Loaded, Holds, Rings
<1> QED BY <1>1, NspStepKeeps, DeliverKeeps, DmaStepKeeps DEF Next

\* The inductive invariant holds in every reachable state of a program that waits for all
\* its inputs before it asks for the next ones.
THEOREM InvariantHolds == WaitsForAll => (Spec => []IInv)
<1> SUFFICES ASSUME WaitsForAll PROVE Spec => []IInv
  OBVIOUS
<1>1. IInv /\ [Next]_vars => IInv'
  BY IInvStep
<1> QED BY IInvInit, <1>1, PTL DEF Spec

\* In a transfer every NSP with inputs has asked for them, and holds none of the input's
\* earlier data; whatever it has seen of doorbells, this one has not rung yet.
LEMMA TransferFacts ==
  ASSUME IInv, dmaPhase = "xfer"
  PROVE  \A n \in HasInputsMask : /\ signals[n] = dmaRound + 1
                                  /\ Rings(dmaIdx) # signals[n]
                                  /\ ~Holds(n, dmaIdx)
<1>1. Ready = HasInputsMask /\ InitsDone = dmaRound /\ dmaRound \in Nat /\ dmaIdx \in Inputs
  BY DEF IInv, TypeOK, TransferNeedsAll, InitDone, InitsDone
<1>2. Rings(dmaIdx) = dmaRound
  BY <1>1, InputsAssumption DEF Rings, Inputs
<1> TAKE n \in HasInputsMask
<1>3. signals[n] = dmaRound + 1
  BY <1>1 DEF Ready
<1> QED BY <1>1, <1>2, <1>3 DEF IInv, DoorbellsOK, DoorbellInv

\* Once the doorbell of the inference n asked for has rung, the data is there.
LEMMA RungIsCurrent ==
  ASSUME IInv, NEW i \in Inputs, NEW n \in InputNsps[i], Rings(i) = signals[n]
  PROVE  ver[n][i] = signals[n]
<1>1. n \in HasInputsMask
  BY MaskFacts
<1>2. ver[n][i] = dmaRound + (IF Loaded(i) THEN 1 ELSE 0)
  BY DEF IInv, DataFollowsEngine
<1>3. i = dmaIdx /\ dmaPhase \in {"post", "ring"} => dmaRound # signals[n]
  <2>1. signals[n] \in {InitsDone, InitsDone + 1} /\ dmaRound \in Nat
    BY <1>1 DEF IInv, InStep, TypeOK
  <2>2. InitDone \/ (dmaPhase \in {"post", "ring"} => n \in Ready)
    BY <1>1 DEF IInv, TransferNeedsAll
  <2> QED BY <2>1, <2>2 DEF Ready, InitsDone
<1>4. i \in Int /\ dmaIdx \in Int /\ dmaRound \in Nat
  BY InputsAssumption DEF Inputs, IInv, TypeOK
<1> QED BY <1>2, <1>3, <1>4 DEF Rings, Loaded

\* The invariant rules out the race and stale data.
LEMMA IInvGivesSafety == IInv => NoInputRace /\ HeldInputIsCurrent
<1> SUFFICES ASSUME IInv PROVE NoInputRace /\ HeldInputIsCurrent
  OBVIOUS
<1>1. NoInputRace
  BY TransferFacts, MaskFacts DEF NoInputRace, IInv, TypeOK
<1>2. ASSUME NEW i \in Inputs, NEW n \in InputNsps[i], Holds(n, i) PROVE ver[n][i] = signals[n]
  <2>1. Rings(i) = signals[n]
    BY <1>2, MaskFacts DEF IInv, DoorbellsOK, DoorbellInv
  <2> QED BY <2>1, RungIsCurrent
<1> QED BY <1>1, <1>2 DEF HeldInputIsCurrent

\* No NSP whose input buffer the engine writes still holds that buffer.
THEOREM InputsNeverRace == WaitsForAll => (Spec => []NoInputRace)
BY InvariantHolds, IInvGivesSafety, PTL

\* The input data an NSP holds is that of the inference it last asked for.
THEOREM HeldInputsAreCurrent == WaitsForAll => (Spec => []HeldInputIsCurrent)
BY InvariantHolds, IInvGivesSafety, PTL

\* Clearing a doorbell never loses one that was rung for the inference asked for.
THEOREM DoorbellsNeverLost == WaitsForAll => (Spec => []NoDoorbellLost)
<1> SUFFICES ASSUME WaitsForAll PROVE Spec => []NoDoorbellLost
  OBVIOUS
<1>1. IInv => NoDoorbellLost
  BY DEF IInv, DoorbellsOK, DoorbellInv, NoDoorbellLost
<1> QED BY InvariantHolds, <1>1, PTL

-----------------------------------------------------------------------------
(* The handshake implements the abstract handover *)

\* The initial state maps to the initial state of Handover.
LEMMA AbstractInit == Init => Abstract!Init
BY MaskFacts DEF Init, Abstract!Init, LastTransferDone

Owner == [n \in HasInputsMask |->
            IF pc[n] \in {"owns", "clearing"} THEN "nsp" ELSE "host"]
Gives == [n \in HasInputsMask |-> signals[n]]
Moves == dmaRound + (IF LastTransferDone THEN 1 ELSE 0)

\* A step of n gives, takes or stutters.
LEMMA AbstractNspStep ==
  ASSUME WaitsForAll, IInv, NEW n \in NSPs, NspStep(n)
  PROVE  Abstract!Next \/ UNCHANGED <<Owner, Gives, Moves>>
<1>0. TypeOK /\ n \in NSPs /\ \A m \in HasInputsMask : m \in NSPs
  BY MaskFacts DEF IInv
<1>1. CASE IncInputSem(n)
  <2>1. n \in HasInputsMask
    BY <1>1 DEF IncInputSem, IInv, PcOK
  <2>2. dmaPhase = "pre" /\ signals[n] = dmaRound
    BY <1>1, <2>1, OwnsMeansIdle DEF IncInputSem
  <2>3. Moves = dmaRound /\ Moves' = Moves
    BY <1>0, <1>1, <2>2 DEF Moves, LastTransferDone, IncInputSem, dmaVars, TypeOK
  <2>4. Owner[n] = "nsp" /\ Gives[n] = Moves
    BY <1>1, <2>1, <2>2, <2>3 DEF Owner, Gives, IncInputSem
  <2>5. Owner' = [Owner EXCEPT ![n] = "host"]
    BY <1>0, <1>1 DEF Owner, IncInputSem, TypeOK
  <2>6. Gives' = [Gives EXCEPT ![n] = @ + 1]
    BY <1>0, <1>1 DEF Gives, IncInputSem, TypeOK
  <2>7. Abstract!Give(n)
    BY <2>3, <2>4, <2>5, <2>6 DEF Abstract!Give, Owner, Gives, Moves
  <2> QED BY <2>1, <2>7 DEF Abstract!Next
<1>2. CASE InputsReady(n) /\ n \in HasInputsMask
  <2>1. Holds(n, NumInputs - 1)
    BY <1>2, MaskFacts, InputsAssumption DEF InputsReady, Holds
  <2>2. Rings(NumInputs - 1) = signals[n]
    BY <1>2, <2>1, MaskFacts DEF IInv, DoorbellsOK, DoorbellInv
  <2>3. /\ dmaIdx \in 0 .. NumInputs - 1 /\ dmaRound \in Nat
        /\ signals[n] \in {InitsDone, InitsDone + 1}
    BY <1>2 DEF IInv, InStep, TypeOK, Inputs
  <2>4. signals[n] = dmaRound
    BY <2>2, <2>3, InputsAssumption DEF Rings
  <2>5. ~LastTransferDone
    <3>1. ~InitDone
      BY <2>3, <2>4 DEF InitsDone
    <3>2. n \notin Ready
      BY <2>3, <2>4, <3>1 DEF Ready, InitsDone
    <3> QED BY <1>2, <3>1, <3>2 DEF IInv, TransferNeedsAll, LastTransferDone
  <2>6. Moves = dmaRound /\ Moves' = Moves
    BY <1>2, <2>3, <2>5 DEF Moves, LastTransferDone, InputsReady, dmaVars
  <2>7. Owner[n] = "host" /\ Gives[n] = Moves
    BY <1>2, <2>4, <2>6 DEF Owner, Gives, InputsReady
  <2>8. Owner' = [Owner EXCEPT ![n] = "nsp"]
    BY <1>0, <1>2 DEF Owner, InputsReady, TypeOK
  <2>9. Gives' = Gives
    BY <1>2 DEF Gives, InputsReady
  <2>10. Abstract!Take(n)
    BY <2>6, <2>7, <2>8, <2>9 DEF Abstract!Take, Owner, Gives, Moves
  <2> QED BY <1>2, <2>10 DEF Abstract!Next
<1>3. CASE ~IncInputSem(n) /\ ~(InputsReady(n) /\ n \in HasInputsMask)
  <2>1. UNCHANGED <<signals, dmaRound, dmaIdx, dmaPhase>>
    BY <1>3 DEF NspStep, ReadyForAllInputs, ReadyWithoutInputs, ClearInputDoorbell,
       WaitForAllInputsReady, WaitForBuffer, ClearSeenBuffer, SkipBuffer, InputsReady, dmaVars
  <2>2. ASSUME NEW m \in HasInputsMask
        PROVE  pc'[m] \in {"owns", "clearing"} <=> pc[m] \in {"owns", "clearing"}
    BY <1>0, <1>3, <2>2 DEF NspStep, ReadyForAllInputs, ReadyWithoutInputs,
       ClearInputDoorbell, WaitForAllInputsReady, WaitForBuffer, ClearSeenBuffer,
       SkipBuffer, InputsReady, TypeOK
  <2> QED BY <2>1, <2>2 DEF Owner, Gives, Moves, LastTransferDone
<1> QED BY <1>1, <1>2, <1>3

\* The last transfer is the abstract move; the engine's other steps stutter.
LEMMA AbstractDmaStep ==
  ASSUME IInv, DmaStep
  PROVE  Abstract!Next \/ UNCHANGED <<Owner, Gives, Moves>>
<1>1. UNCHANGED <<Owner, Gives>>
  BY DEF Owner, Gives, DmaStep, DmaWaitSem, DmaTransfer, DmaPostSem, DmaRingDoorbell, nspVars
<1>2. dmaRound \in Nat /\ dmaIdx \in 0 .. NumInputs - 1 /\ NumInputs \in Nat \ {0}
  BY InputsAssumption DEF IInv, TypeOK, Inputs
<1>3. CASE DmaTransfer /\ dmaIdx = NumInputs - 1
  <2>1. Moves = dmaRound /\ Moves' = Moves + 1
    BY <1>2, <1>3 DEF Moves, LastTransferDone, DmaTransfer
  <2>2. Ready = HasInputsMask /\ InitsDone = dmaRound
    BY <1>2, <1>3 DEF DmaTransfer, IInv, TransferNeedsAll, InitDone, InitsDone
  <2>3. ASSUME NEW n \in HasInputsMask PROVE Owner[n] = "host" /\ Gives[n] = Moves + 1
    <3>1. pc[n] \notin {"owns", "clearing"}
      BY <1>3, OwnsMeansIdle DEF DmaTransfer
    <3> QED BY <2>1, <2>2, <3>1 DEF Owner, Gives, Ready
  <2> QED BY <1>1, <2>1, <2>3 DEF Abstract!Next, Abstract!Move, Owner, Gives, Moves
<1>4. CASE ~(DmaTransfer /\ dmaIdx = NumInputs - 1)
  <2>1. Moves' = Moves
    BY <1>2, <1>4 DEF Moves, LastTransferDone, DmaStep, DmaWaitSem, DmaTransfer,
       DmaPostSem, DmaRingDoorbell
  <2> QED BY <1>1, <2>1
<1> QED BY <1>3, <1>4

\* With every input awaited, the NSPs' steps and the engine's are the steps of Handover:
\* an NSP gives its inputs away once, gets them back after the move they were given for,
\* and the engine finishes an inference only while every NSP of the mask has given.
THEOREM ImplementsHandoverHolds == WaitsForAll => (Spec => ImplementsHandover)
<1> SUFFICES ASSUME WaitsForAll PROVE Spec => ImplementsHandover
  OBVIOUS
<1>1. IInv /\ [Next]_vars => [Abstract!Next]_<<Owner, Gives, Moves>>
  <2> SUFFICES ASSUME IInv, [Next]_vars
              PROVE  Abstract!Next \/ UNCHANGED <<Owner, Gives, Moves>>
    OBVIOUS
  <2>1. ASSUME NEW n \in NSPs, DeliverDoorbell(n)
        PROVE  UNCHANGED <<Owner, Gives, Moves>>
    BY <2>1 DEF DeliverDoorbell, Owner, Gives, Moves, LastTransferDone, dmaVars, nspVars
  <2>2. CASE UNCHANGED vars
    BY <2>2 DEF vars, Owner, Gives, Moves, LastTransferDone, dmaVars, nspVars
  <2> QED BY <2>1, <2>2, AbstractNspStep, AbstractDmaStep DEF Next
<1>2. [Abstract!Next]_<<Owner, Gives, Moves>> => [Abstract!Next]_(Abstract!vars)
  BY DEF Abstract!vars, Owner, Gives, Moves
<1> QED
  BY InvariantHolds, AbstractInit, <1>1, <1>2, PTL DEF Spec, ImplementsHandover, Abstract!Spec

-----------------------------------------------------------------------------
(* Lookups of partial inputs, whatever the set of them and of their readers *)

LookTypeOK ==
  /\ look \in [NSPs -> {Idle} \union (Partial \X Lookups)]
  /\ found \in [NSPs -> [Inputs -> [Lookups -> Nat]]]
  /\ cleared \in [NSPs -> BOOLEAN]

\* Between the test of the doorbell and the header, the NSP is in the program and the
\* doorbell stays set.
InLookup(n) ==
  look[n] # Idle => /\ n \in InputNsps[look[n][1]]
                    /\ pc[n] \in {"owns", "called"}
                    /\ db[n][look[n][1]] = 1

\* What n has found is about the inference it last asked for, and forgotten when it asks
\* for the next.
FoundInv(n) ==
  /\ pc[n] = "clearing" => found[n] = NothingFound
  /\ \A i \in Partial, l \in Lookups : found[n][i][l] \in {0, signals[n]}

\* A call that clears the doorbells is on record, and without one they stay set from the
\* wait on.
ClearedInv(n) ==
  /\ clear[n] /\ pc[n] # "clearing" => cleared[n]
  /\ pc[n] = "seen" => clear[n]
  /\ ~cleared[n] /\ n \in HasInputsMask /\ pc[n] \in {"owns", "waiting"} /\ signals[n] > 0 =>
       \A i \in Inputs : pc[n] = "owns" \/ i < k[n] => db[n][i] = 1

LookInv == LookTypeOK /\ \A n \in NSPs : InLookup(n) /\ FoundInv(n) /\ ClearedInv(n)

-----------------------------------------------------------------------------
\* A step of the program with its lookups is a step of the handshake, or leaves it alone.
LEMMA LookNextIsNext == [LookNext]_allVars => [Next]_vars
BY DEF LookNext, allVars, StartLookup, LookupDies, AddrDies, ReadHeader, Handshake, Next

\* Lookups do not change the handshake.
THEOREM LookupsKeepHandshake == LookSpec => Spec
BY LookNextIsNext, PTL DEF LookSpec, LookInit, Spec

\* No lookup has begun.
LEMMA LookInvInit == LookInit => LookInv
BY PartialAssumption DEF LookInit, Init, LookInv, LookTypeOK, InLookup, FoundInv, ClearedInv,
   NothingFound, Lookups, Idle

\* A header belongs to the inference last asked for when the doorbell of its input is set.
LEMMA SetDoorbellIsCurrent ==
  ASSUME IInv, NEW i \in Inputs, NEW n \in InputNsps[i], db[n][i] = 1
  PROVE  Rings(i) = signals[n] /\ ver[n][i] = signals[n]
<1>1. n \in HasInputsMask
  BY MaskFacts
<1>2. Rings(i) <= signals[n] /\ ~(Rings(i) < signals[n]) /\ Rings(i) \in Nat /\ signals[n] \in Nat
  BY <1>1, RingFacts DEF IInv, DoorbellsOK, DoorbellInv
<1> QED BY <1>2, RungIsCurrent

\* Idle is not a lookup.
LEMMA LookupsAreNotIdle == \A x \in Partial \X Lookups : x # Idle /\ x[1] \in Partial /\ x[2] \in Lookups
BY DEF Idle

-----------------------------------------------------------------------------
(* The invariant is preserved *)

\* A doorbell that lands, or a step of the engine, takes nothing away.
LEMMA HostKeepsLookups ==
  ASSUME IInv, LookInv, DmaStep \/ \E n \in NSPs : DeliverDoorbell(n), UNCHANGED lookVars
  PROVE  LookInv'
<1>1. UNCHANGED <<pc, k, clear, signals, look, found, cleared>>
  BY DEF DmaStep, DmaWaitSem, DmaTransfer, DmaPostSem, DmaRingDoorbell, DeliverDoorbell,
     nspVars, lookVars
<1>2. \A n \in NSPs, i \in Inputs : db[n][i] = 1 => db'[n][i] = 1
  <2>1. CASE DmaStep
    <3>1. UNCHANGED db
      BY <2>1 DEF DmaStep, DmaWaitSem, DmaTransfer, DmaPostSem, DmaRingDoorbell
    <3> QED BY <3>1
  <2>2. CASE \E m \in NSPs : DeliverDoorbell(m)
    <3>1. PICK m \in NSPs : \E j \in flight[m] : db' = [db EXCEPT ![m][j] = 1]
      BY <2>2 DEF DeliverDoorbell
    <3> QED BY <3>1 DEF IInv, TypeOK
  <2> QED BY <2>1, <2>2
<1>3. \A n \in NSPs : look[n] # Idle => look[n][1] \in Inputs
  BY LookupsAreNotIdle, PartialAssumption DEF LookInv, LookTypeOK
<1>4. ASSUME NEW n \in NSPs PROVE InLookup(n)' /\ FoundInv(n)' /\ ClearedInv(n)'
  BY <1>1, <1>2, <1>3 DEF LookInv, InLookup, FoundInv, ClearedInv
<1> QED BY <1>1, <1>4 DEF LookInv, LookTypeOK

\* A lookup that begins or ends the program.
LEMMA StartKeepsLookups ==
  ASSUME LookInv, NEW n \in NSPs, NEW i \in Inputs,
         \/ \E l \in Lookups : StartLookup(n, i, l)
         \/ LookupDies(n, i)
         \/ AddrDies(n, i)
  PROVE  LookInv'
<1>1. UNCHANGED <<db, pc, k, clear, signals, found, cleared>>
  BY DEF StartLookup, LookupDies, AddrDies, vars, nspVars
<1>2. CASE UNCHANGED look
  BY <1>1, <1>2 DEF LookInv, LookTypeOK, InLookup, FoundInv, ClearedInv
<1>3. ASSUME NEW l \in Lookups, StartLookup(n, i, l) PROVE LookInv'
  <2>1. look' = [look EXCEPT ![n] = <<i, l>>] /\ <<i, l>> \in Partial \X Lookups
    BY <1>3 DEF StartLookup
  <2>2. LookTypeOK'
    BY <1>1, <2>1 DEF LookInv, LookTypeOK
  <2>3. ASSUME NEW m \in NSPs PROVE InLookup(m)'
    <3>1. m # n => look'[m] = look[m]
      BY <2>1 DEF LookInv, LookTypeOK
    <3>2. look'[n] = <<i, l>>
      BY <2>1 DEF LookInv, LookTypeOK
    <3> QED
      BY <1>1, <1>3, <3>1, <3>2 DEF LookInv, InLookup, StartLookup, InProgram, Tests,
         isBufferValid
  <2>4. ASSUME NEW m \in NSPs PROVE FoundInv(m)' /\ ClearedInv(m)'
    BY <1>1 DEF LookInv, FoundInv, ClearedInv
  <2> QED BY <2>2, <2>3, <2>4 DEF LookInv
<1> QED BY <1>2, <1>3 DEF LookupDies, AddrDies

\* The header that is read is that of the inference last asked for.
LEMMA ReadKeepsLookups ==
  ASSUME IInv, LookInv, NEW n \in NSPs, ReadHeader(n)
  PROVE  LookInv'
<1>1. UNCHANGED <<db, pc, k, clear, signals, cleared>>
  BY DEF ReadHeader, vars, nspVars
<1>2. PICK i \in Partial, l \in Lookups : look[n] = <<i, l>>
  BY DEF ReadHeader, LookInv, LookTypeOK
<1>a. look[n] # Idle /\ look[n][1] = i /\ look[n][2] = l
  BY <1>2 DEF ReadHeader
<1>3. i \in Inputs /\ n \in InputNsps[i] /\ pc[n] # "clearing" /\ db[n][i] = 1
  BY <1>a, PartialAssumption DEF LookInv, InLookup
<1>4. ver[n][i] = signals[n]
  BY <1>3, SetDoorbellIsCurrent
<1>5. found' = [found EXCEPT ![n][i][l] = signals[n]] /\ look' = [look EXCEPT ![n] = Idle]
  BY <1>a, <1>4 DEF ReadHeader
<1>6. signals[n] \in Nat
  BY DEF IInv, TypeOK
<1>7. LookTypeOK'
  <2>1. found' \in [NSPs -> [Inputs -> [Lookups -> Nat]]]
    <3>1. [found[n] EXCEPT ![i] = [found[n][i] EXCEPT ![l] = signals[n]]]
             \in [Inputs -> [Lookups -> Nat]]
      BY <1>3, <1>6 DEF LookInv, LookTypeOK
    <3> QED BY <1>3, <1>5, <3>1 DEF LookInv, LookTypeOK
  <2> QED BY <1>1, <1>5, <2>1 DEF LookInv, LookTypeOK
<1>8. ASSUME NEW m \in NSPs PROVE InLookup(m)'
  BY <1>1, <1>5 DEF LookInv, LookTypeOK, InLookup
<1>9. ASSUME NEW m \in NSPs PROVE FoundInv(m)'
  <2>1. m # n => found'[m] = found[m]
    BY <1>5 DEF LookInv, LookTypeOK
  <2>2. \A j \in Inputs, h \in Lookups :
           found'[n][j][h] = IF j = i /\ h = l THEN signals[n] ELSE found[n][j][h]
    BY <1>3, <1>5 DEF LookInv, LookTypeOK
  <2> QED
    BY <1>1, <1>3, <2>1, <2>2, PartialAssumption DEF LookInv, FoundInv
<1>10. ASSUME NEW m \in NSPs PROVE ClearedInv(m)'
  BY <1>1 DEF LookInv, ClearedInv
<1> QED BY <1>7, <1>8, <1>9, <1>10 DEF LookInv

\* What a step of the handshake does to the NSP that makes it.
LEMMA HandshakeKeepsLookups ==
  ASSUME WaitsForAll, IInv, LookInv, NEW n \in NSPs, Handshake(n)
  PROVE  LookInv'
<1>0. TypeOK /\ TypeOK' /\ LookTypeOK /\ look[n] = Idle /\ NspStep(n) /\ UNCHANGED look
  BY TypeStep DEF IInv, Next, LookInv, Handshake
<1>1. /\ found'[n] = IF pc'[n] = "clearing" THEN NothingFound ELSE found[n]
      /\ cleared'[n] = IF pc'[n] = "clearing" THEN FALSE ELSE cleared[n] \/ clear'[n]
      /\ \A m \in NSPs \ {n} : found'[m] = found[m] /\ cleared'[m] = cleared[m]
  BY <1>0 DEF Handshake, LookTypeOK
<1>2. LookTypeOK'
  <2>1. NothingFound \in [Inputs -> [Lookups -> Nat]]
    BY DEF NothingFound
  <2>2. found' \in [NSPs -> [Inputs -> [Lookups -> Nat]]]
    BY <1>0, <2>1 DEF Handshake, LookTypeOK
  <2>3. cleared' \in [NSPs -> BOOLEAN]
    BY <1>0 DEF Handshake, LookTypeOK, TypeOK
  <2> QED BY <1>0, <2>2, <2>3 DEF LookTypeOK
<1>3. ASSUME NEW m \in NSPs \ {n} PROVE InLookup(m)' /\ FoundInv(m)' /\ ClearedInv(m)'
  <2>1. /\ db'[m] = db[m] /\ pc'[m] = pc[m] /\ k'[m] = k[m] /\ clear'[m] = clear[m]
        /\ signals'[m] = signals[m]
    BY <1>0, <1>3 DEF NspStep, ReadyForAllInputs, ReadyWithoutInputs, ClearInputDoorbell,
       IncInputSem, WaitForAllInputsReady, WaitForBuffer, ClearSeenBuffer, SkipBuffer,
       InputsReady, clearBufferValid, TypeOK
  <2> QED BY <1>0, <1>1, <2>1 DEF LookInv, InLookup, FoundInv, ClearedInv
<1>4. InLookup(n)'
  BY <1>0 DEF InLookup
<1>5. FoundInv(n)'
  <2>1. FoundInv(n)
    BY DEF LookInv
  <2>2. \A i \in Partial, l \in Lookups : NothingFound[i][l] = 0
    BY PartialAssumption DEF NothingFound
  <2>3. CASE IncInputSem(n)
    BY <1>1, <2>1, <2>2, <2>3 DEF IncInputSem, FoundInv
  <2>4. CASE ~IncInputSem(n)
    <3>1. signals'[n] = signals[n]
      BY <1>0, <2>4 DEF NspStep, ReadyForAllInputs, ReadyWithoutInputs, ClearInputDoorbell,
         WaitForAllInputsReady, WaitForBuffer, ClearSeenBuffer, SkipBuffer, InputsReady
    <3> QED BY <1>1, <2>1, <2>2, <3>1 DEF FoundInv
  <2> QED BY <2>3, <2>4
<1>6. ClearedInv(n)'
  <2>1. ClearedInv(n)
    BY DEF LookInv
  <2>2. \A i \in Inputs : i \in Nat /\ i < NumInputs
    BY InputsAssumption DEF Inputs
  <2> USE DEF ClearedInv
  <2>3. CASE ReadyForAllInputs(n) \/ ClearInputDoorbell(n)
    <3>1. pc'[n] = "clearing"
      BY <1>0, <2>3 DEF ReadyForAllInputs, ClearInputDoorbell, TypeOK
    <3> QED BY <3>1
  <2>4. CASE ReadyWithoutInputs(n)
    BY <1>0, <1>1, <2>1, <2>4 DEF ReadyWithoutInputs, TypeOK
  <2>5. CASE IncInputSem(n) \/ WaitForAllInputsReady(n)
    <3>1. pc'[n] \in {"called", "waiting"} /\ k'[n] = 0
      BY <1>0, <2>5 DEF IncInputSem, WaitForAllInputsReady, TypeOK
    <3>2. clear'[n] => cleared'[n]
      BY <1>1, <3>1
    <3>3. \A i \in Inputs : ~(i < k'[n])
      BY <2>2, <3>1
    <3> QED BY <3>1, <3>2, <3>3
  <2>6. CASE WaitForBuffer(n)
    <3>1. CASE clear[n]
      <4>1. pc'[n] = "seen" /\ clear'[n]
        BY <1>0, <2>6, <3>1 DEF WaitForBuffer, TypeOK
      <4> QED BY <1>1, <4>1
    <3>2. CASE ~clear[n]
      <4>1. /\ pc[n] = "waiting" /\ pc'[n] = "waiting" /\ ~clear'[n]
            /\ k'[n] = k[n] + 1 /\ k[n] \in Nat
            /\ db[n][k[n]] = 1 /\ db' = db /\ signals' = signals
        BY <1>0, <2>6, <3>2 DEF WaitForBuffer, TypeOK, isBufferValid
      <4>2. ~cleared'[n] => ~cleared[n]
        BY <1>1, <4>1
      <4>3. ASSUME NEW i \in Inputs, i < k'[n] PROVE i < k[n] \/ i = k[n]
        BY <2>2, <4>1, <4>3
      <4> QED BY <2>1, <4>1, <4>2, <4>3
    <3> QED BY <3>1, <3>2
  <2>7. CASE ClearSeenBuffer(n)
    <3>1. pc'[n] = "waiting" /\ clear'[n] = clear[n] /\ pc[n] = "seen"
      BY <1>0, <2>7 DEF ClearSeenBuffer, TypeOK
    <3> QED BY <1>1, <2>1, <3>1
  <2>8. CASE SkipBuffer(n)
    <3>1. n \notin HasInputsMask
      BY <2>8 DEF SkipBuffer, WaitsForAll, Awaited
    <3>2. pc'[n] = "waiting" /\ pc[n] = "waiting" /\ clear'[n] = clear[n]
      BY <1>0, <2>8 DEF SkipBuffer
    <3> QED BY <1>1, <2>1, <3>1, <3>2
  <2>9. CASE InputsReady(n)
    <3>1. /\ pc[n] = "waiting" /\ pc'[n] = "owns" /\ ~clear'[n] /\ k[n] = NumInputs
          /\ db' = db /\ signals' = signals
      BY <1>0, <2>9 DEF InputsReady, TypeOK
    <3> QED BY <1>1, <2>1, <2>2, <3>1
  <2> QED BY <1>0, <2>3, <2>4, <2>5, <2>6, <2>7, <2>8, <2>9 DEF NspStep
<1> QED BY <1>2, <1>3, <1>4, <1>5, <1>6 DEF LookInv

-----------------------------------------------------------------------------
(* Theorems *)

\* The invariant of the handshake and that of the lookups hold together.
THEOREM LookInvariantHolds == WaitsForAll => (LookSpec => [](IInv /\ LookInv))
<1> SUFFICES ASSUME WaitsForAll PROVE LookSpec => [](IInv /\ LookInv)
  OBVIOUS
<1>1. IInv /\ LookInv /\ [LookNext]_allVars => (IInv /\ LookInv)'
  <2> SUFFICES ASSUME IInv, LookInv, [LookNext]_allVars PROVE IInv' /\ LookInv'
    OBVIOUS
  <2>1. IInv'
    BY LookNextIsNext, IInvStep
  <2>2. CASE UNCHANGED allVars
    BY <2>1, <2>2 DEF allVars, vars, nspVars, lookVars, LookInv, LookTypeOK, InLookup, FoundInv,
       ClearedInv
  <2> QED
    BY <2>1, <2>2, HostKeepsLookups, StartKeepsLookups, ReadKeepsLookups,
       HandshakeKeepsLookups DEF LookNext
<1>2. LookInit => IInv /\ LookInv
  BY LookInvInit, IInvInit DEF LookInit
<1> QED BY <1>1, <1>2, PTL DEF LookSpec

\* Address and size an NSP has looked up belong to the inference it last asked for, and the
\* host does not overwrite a header between a lookup's test and its read.
THEOREM LookupsStayCurrent == WaitsForAll => (LookSpec => []LookupsAreCurrent)
<1>1. IInv /\ LookInv => LookupsAreCurrent
  <2> SUFFICES ASSUME IInv, LookInv PROVE LookupsAreCurrent
    OBVIOUS
  <2>1. ASSUME dmaPhase = "xfer", NEW n \in InputNsps[dmaIdx], look[n] # Idle,
               look[n][1] = dmaIdx
        PROVE  FALSE
    <3>1. dmaIdx \in Inputs /\ n \in HasInputsMask /\ n \in NSPs
      BY MaskFacts DEF IInv, TypeOK
    <3>2. db[n][dmaIdx] = 1
      BY <2>1, <3>1 DEF LookInv, InLookup
    <3> QED BY <2>1, <3>1, <3>2, SetDoorbellIsCurrent, TransferFacts
  <2>2. ASSUME NEW n \in NSPs, NEW i \in Partial, NEW l \in Lookups
        PROVE  found[n][i][l] \in {0, signals[n]}
    BY DEF LookInv, FoundInv
  <2> QED BY <2>1, <2>2 DEF LookupsAreCurrent
<1> QED BY LookInvariantHolds, <1>1, PTL

\* A program that waited for its inputs without clearing their doorbells can look all of
\* them up until it signals again.
THEOREM WaitedLookupsDoSucceed == WaitsForAll => (LookSpec => []WaitedLookupsSucceed)
<1>1. IInv /\ LookInv => WaitedLookupsSucceed
  <2> SUFFICES ASSUME IInv, LookInv,
                      NEW n \in HasInputsMask, pc[n] = "owns", signals[n] > 0, ~cleared[n],
                      NEW i \in Awaited(n)
               PROVE  isBufferValid(n, i)
    BY DEF WaitedLookupsSucceed
  <2>1. n \in NSPs /\ i \in Inputs
    BY MaskFacts, AwaitsAssumption DEF Awaited
  <2> QED BY <2>1 DEF LookInv, ClearedInv, isBufferValid
<1> QED BY LookInvariantHolds, <1>1, PTL

=============================================================================
