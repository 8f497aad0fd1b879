-------------------------- MODULE HostOutputsProofs -------------------------
(***************************************************************************)
(* Proofs about HostOutputs, for any number of NSPs, outputs and           *)
(* inferences.  Beyond types they need SendMaskIsOutputMask: sendAllOutputs*)
(* tests the mask of the inputs, and where that mask is another one than   *)
(* the outputs' the properties fail (run SendMaskBug).                     *)
(*                                                                         *)
(* What the program writes does not matter to the handshake, so the proofs *)
(* are about HandshakeNext, which lets an NSP write the results of any     *)
(* inference; the steps of HostOutputs and those of HostIO are among it.   *)
(***************************************************************************)
EXTENDS HostOutputs, FiniteSetTheorems, TLAPS

SendMaskIsOutputMask == SendMask = HasOutputsMask

ThreadStep(n) == NspStep(n) \/ \E v \in Nat : WriteOutputs(n, v)

HandshakeNext == DmaStep \/ \E n \in NSPs : ThreadStep(n) \/ DeliverDoorbell(n)

(***************************************************************************)
(* The inductive invariant.  InitsDone counts the INIT operations of the   *)
(* engine; Pending are the NSPs that have not sent since the last one.     *)
(***************************************************************************)
InitDone == dmaIdx = NumOutputs - 1 /\ dmaPhase = "ring"

InitsDone == dmaRound + (IF InitDone THEN 1 ELSE 0)

Pending == {n \in HasOutputsMask : sends[n] = InitsDone}

Rings(o) == dmaRound + (IF o < dmaIdx THEN 1 ELSE 0)

\* No NSP is an inference ahead of or behind the engine.
InStep == \A n \in HasOutputsMask : sends[n] \in {InitsDone, InitsDone + 1}

SemCountsPending == sem = Cardinality(Pending)

\* From the first WAITEQ to the INIT every NSP has sent, and from the INIT to the last
\* doorbell none has.
TransferNeedsAll ==
  dmaPhase # "pre" \/ dmaIdx # 0 => Pending = IF InitDone THEN HasOutputsMask ELSE {}

\* The doorbell of output o at n, which the program finds set before the first ring.
\* An NSP that may write has seen the doorbell of the inference it sends next; a write
\* still in flight is for that inference, and neither seen nor landed; before the ring
\* the word is clear; the clear loop has done its part; and no doorbell is lost.
DoorbellInv(n, o) ==
  /\ MayWrite(n, o) => Rings(o) = sends[n]
  /\ o \in flight[n] => Rings(o) = sends[n] /\ ~MayWrite(n, o) /\ db[n][o] = 0
  /\ Rings(o) < sends[n] => db[n][o] = 0
  /\ pc[n] = "clearing" /\ o < k[n] => db[n][o] = 0
  /\ Rings(o) = sends[n] /\ ~MayWrite(n, o) => db[n][o] = 1 \/ o \in flight[n]

DoorbellsOK == \A n \in HasOutputsMask, o \in Outputs : DoorbellInv(n, o)

\* Only NSPs with outputs send, and a seen doorbell is that of an output.
PcOK ==
  \A n \in NSPs : /\ pc[n] = "clearing" => n \in HasOutputsMask
                  /\ pc[n] = "seen" => k[n] \in Outputs

IInv ==
  /\ TypeOK
  /\ PcOK
  /\ InStep
  /\ SemCountsPending
  /\ TransferNeedsAll
  /\ DoorbellsOK

-----------------------------------------------------------------------------
(* Facts about the constants *)

\* The mask is a finite set of NSPs, and its cardinality a value the semaphore can hold.
LEMMA MaskFacts ==
  /\ HasOutputsMask \subseteq NSPs
  /\ IsFiniteSet(HasOutputsMask)
  /\ OutputSemInitVal \in 0 .. SemMax
  /\ 0 \in Outputs /\ NumOutputs - 1 \in Outputs
  /\ \A o \in Outputs : OutputNsps[o] \subseteq HasOutputsMask
<1>1. HasOutputsMask \subseteq NSPs
  BY OutputsAssumption DEF HasOutputsMask
<1>2. IsFiniteSet(HasOutputsMask) /\ Cardinality(HasOutputsMask) <= Cardinality(NSPs)
  BY <1>1, NSPsAssumption, FS_Subset
<1>3. Cardinality(HasOutputsMask) \in Nat /\ Cardinality(NSPs) \in Nat
  BY <1>2, NSPsAssumption, FS_CardinalityType
<1>4. OutputSemInitVal \in 0 .. SemMax
  BY <1>2, <1>3, SemMaxAssumption DEF OutputSemInitVal
<1>5. 0 \in Outputs /\ NumOutputs - 1 \in Outputs
  BY OutputsAssumption DEF Outputs
<1>6. \A o \in Outputs : OutputNsps[o] \subseteq HasOutputsMask
  BY DEF HasOutputsMask
<1> QED BY <1>1, <1>2, <1>4, <1>5, <1>6

\* The number of NSPs still to send is a number, and 0 only when all have sent.
LEMMA PendingCounts ==
  /\ IsFiniteSet(Pending)
  /\ Cardinality(Pending) \in Nat
  /\ Cardinality(Pending) = 0 <=> Pending = {}
<1>1. Pending \subseteq HasOutputsMask
  BY DEF Pending
<1>2. IsFiniteSet(Pending)
  BY <1>1, MaskFacts, FS_Subset
<1> QED BY <1>2, FS_CardinalityType, FS_EmptySet

-----------------------------------------------------------------------------
(* Type correctness *)

\* The initial state is typed.
LEMMA TypeInit == Init => TypeOK
BY MaskFacts, OutputsAssumption DEF Init, TypeOK, PCs, Phases, Outputs

\* Clearing a doorbell keeps the doorbells typed.
LEMMA ClearType ==
  ASSUME TypeOK, NEW n \in NSPs, NEW o, clearBufferValid(n, o)
  PROVE  db' \in [NSPs -> [Outputs -> {0, 1}]]
<1>1. [db[n] EXCEPT ![o] = 0] \in [Outputs -> {0, 1}]
  BY DEF TypeOK
<1>2. db' = [db EXCEPT ![n] = [db[n] EXCEPT ![o] = 0]]
  BY DEF clearBufferValid
<1> QED BY <1>1, <1>2 DEF TypeOK

\* Every step of an NSP, the engine or a doorbell keeps the types; a decrement below 0
\* leaves one of the values of the semaphore, too.
LEMMA TypeStep == TypeOK /\ [HandshakeNext]_vars => TypeOK'
<1> SUFFICES ASSUME TypeOK, [HandshakeNext]_vars PROVE TypeOK'
  OBVIOUS
<1> USE DEF TypeOK, PCs, Phases, dmaVars, nspVars
<1>1. CASE DmaWaitSem
  BY <1>1 DEF DmaWaitSem
<1>2. CASE DmaTransfer
  BY <1>2 DEF DmaTransfer
<1>3. CASE DmaPostSem
  BY <1>3, MaskFacts DEF DmaPostSem
<1>4. CASE DmaRingDoorbell
  BY <1>4, OutputsAssumption DEF DmaRingDoorbell, Outputs
<1>5. ASSUME NEW n \in NSPs, DeliverDoorbell(n) PROVE TypeOK'
  BY <1>5 DEF DeliverDoorbell
<1>6. ASSUME NEW n \in NSPs, ThreadStep(n) PROVE TypeOK'
  <2>1. CASE WaitForAllOutputsReady(n)
    BY <2>1, ArgsAssumption DEF WaitForAllOutputsReady
  <2>2. CASE WaitForBuffer(n)
    <3>1. k' \in [NSPs -> Nat]
      BY <2>2 DEF WaitForBuffer
    <3>2. pc' \in [NSPs -> PCs]
      BY <2>2 DEF WaitForBuffer
    <3> QED BY <2>2, <3>1, <3>2 DEF WaitForBuffer
  <2>3. CASE ClearSeenBuffer(n)
    <3>1. db' \in [NSPs -> [Outputs -> {0, 1}]]
      BY <2>3, ClearType DEF ClearSeenBuffer
    <3>2. k' \in [NSPs -> Nat] /\ pc' \in [NSPs -> PCs]
      BY <2>3 DEF ClearSeenBuffer
    <3> QED BY <2>3, <3>1, <3>2 DEF ClearSeenBuffer
  <2>4. CASE OutputsReady(n)
    BY <2>4 DEF OutputsReady
  <2>5. ASSUME NEW v \in Nat, WriteOutputs(n, v) PROVE TypeOK'
    BY <2>5 DEF WriteOutputs
  <2>6. CASE SendAllOutputs(n)
    BY <2>6, ArgsAssumption DEF SendAllOutputs
  <2>7. CASE SendWithoutOutputs(n)
    BY <2>7 DEF SendWithoutOutputs
  <2>8. CASE ClearOutputDoorbell(n)
    <3>1. db' \in [NSPs -> [Outputs -> {0, 1}]]
      BY <2>8, ClearType DEF ClearOutputDoorbell
    <3>2. k' \in [NSPs -> Nat] /\ pc' \in [NSPs -> PCs]
      BY <2>8 DEF ClearOutputDoorbell
    <3> QED BY <2>8, <3>1, <3>2 DEF ClearOutputDoorbell
  <2>9. CASE DecOutputSem(n)
    <3>1. sem' \in 0 .. SemMax
      BY <2>9, SemMaxAssumption DEF DecOutputSem, Decremented
    <3>2. /\ sends' \in [NSPs -> Nat] /\ k' \in [NSPs -> Nat] /\ pc' \in [NSPs -> PCs]
          /\ wait' \in [NSPs -> BOOLEAN]
      BY <2>9 DEF DecOutputSem
    <3>3. clear' \in [NSPs -> BOOLEAN]
      BY <2>9 DEF DecOutputSem
    <3> QED BY <2>9, <3>1, <3>2, <3>3 DEF DecOutputSem
  <2> QED
    BY <1>6, <2>1, <2>2, <2>3, <2>4, <2>5, <2>6, <2>7, <2>8, <2>9 DEF ThreadStep, NspStep
<1>7. CASE UNCHANGED vars
  BY <1>7 DEF vars
<1> QED
  BY <1>1, <1>2, <1>3, <1>4, <1>5, <1>6, <1>7 DEF HandshakeNext, DmaStep

\* The steps of a program that writes the results of its next inference are among them.
LEMMA NextIsHandshake == TypeOK /\ Next => HandshakeNext
BY DEF Next, HandshakeNext, ThreadStep, TypeOK

-----------------------------------------------------------------------------
(* The invariant holds initially *)

\* Nobody has sent, nothing is rung but every doorbell is set, the engine is at its first
\* request.
LEMMA IInvInit == Init => IInv
<1> SUFFICES ASSUME Init PROVE IInv
  OBVIOUS
<1> USE DEF Init
<1>1. ~InitDone /\ InitsDone = 0
  BY DEF InitsDone, InitDone
<1>2. Pending = HasOutputsMask
  BY <1>1, MaskFacts DEF Pending
<1>3. InStep
  BY <1>1, MaskFacts DEF InStep
<1>4. SemCountsPending
  BY <1>2 DEF SemCountsPending, OutputSemInitVal
<1>5. DoorbellsOK
  BY MaskFacts DEF DoorbellsOK, DoorbellInv, MayWrite, Rings, Outputs
<1>6. PcOK /\ TransferNeedsAll
  BY MaskFacts DEF PcOK, TransferNeedsAll
<1> QED
  BY <1>3, <1>4, <1>5, <1>6, TypeInit DEF IInv

-----------------------------------------------------------------------------
(* What the invariant says of one NSP *)

\* The engine never rings for an inference that n has not sent.
LEMMA RingFacts ==
  ASSUME IInv, NEW n \in HasOutputsMask, NEW o \in Outputs
  PROVE  Rings(o) \in Nat /\ sends[n] \in Nat /\ Rings(o) <= sends[n]
<1>1. n \in NSPs /\ sends[n] \in {InitsDone, InitsDone + 1}
  BY MaskFacts DEF IInv, InStep
<1>2. dmaRound \in Nat /\ dmaIdx \in Int /\ o \in Int /\ sends[n] \in Nat
  BY <1>1, OutputsAssumption DEF IInv, TypeOK, Outputs
<1>3. dmaIdx # 0 => InitDone \/ sends[n] = InitsDone + 1
  BY <1>1 DEF IInv, TransferNeedsAll, Pending
<1>4. o < dmaIdx => dmaIdx # 0
  BY <1>2 DEF Outputs
<1> QED
  BY <1>1, <1>2, <1>3, <1>4 DEF Rings, InitsDone

\* While an NSP has its output buffers, the engine is between two inferences.
LEMMA OwnsMeansIdle ==
  ASSUME IInv, NEW n \in HasOutputsMask, pc[n] \in {"owns", "written", "clearing"}
  PROVE  /\ dmaIdx = 0 /\ dmaPhase = "pre" /\ ~InitDone
         /\ sends[n] = dmaRound
         /\ n \in Pending
<1>1. \A o \in Outputs : Rings(o) = sends[n]
  BY DEF IInv, DoorbellsOK, DoorbellInv, MayWrite
<1>2. dmaRound \in Nat /\ dmaIdx \in 0 .. NumOutputs - 1
  BY DEF IInv, TypeOK, Outputs
<1>3. sends[n] = dmaRound
  BY <1>1, <1>2, MaskFacts, OutputsAssumption DEF Rings
<1>4. dmaIdx = 0
  BY <1>1, <1>2, <1>3, MaskFacts DEF Rings
<1>5. ~InitDone
  BY <1>2, <1>3 DEF IInv, InStep, InitsDone
<1>6. n \in Pending
  BY <1>2, <1>3, <1>5 DEF Pending, InitsDone
<1>7. dmaPhase = "pre"
  BY <1>5, <1>6 DEF IInv, TransferNeedsAll
<1> QED BY <1>3, <1>4, <1>5, <1>6, <1>7

-----------------------------------------------------------------------------
(* The invariant is preserved: steps of an NSP *)

\* A step that touches neither the engine nor the counters leaves their part alone.
LEMMA EngineFrame ==
  ASSUME IInv, UNCHANGED <<sem, dmaVars, sends>>
  PROVE  InStep' /\ SemCountsPending' /\ TransferNeedsAll'
BY DEF IInv, InStep, SemCountsPending, TransferNeedsAll, Pending, InitsDone, InitDone, dmaVars

\* A step of NSP n does not concern another NSP's doorbells.
LEMMA OtherNsp ==
  ASSUME IInv, NEW m \in HasOutputsMask, NEW o \in Outputs,
         db'[m] = db[m], flight'[m] = flight[m], pc'[m] = pc[m], k'[m] = k[m],
         sends'[m] = sends[m], UNCHANGED <<dmaRound, dmaIdx>>
  PROVE  DoorbellInv(m, o)'
BY DEF IInv, DoorbellsOK, DoorbellInv, MayWrite, Rings

\* No step of waitForAllOutputsReady, waitForBuffer or sendAllOutputs, and no write of the
\* program, breaks the invariant.
LEMMA ThreadStepKeeps ==
  ASSUME SendMaskIsOutputMask, IInv, NEW n \in NSPs, ThreadStep(n)
  PROVE  IInv'
<1>0. TypeOK /\ TypeOK'
  BY TypeStep DEF IInv, HandshakeNext
<1>a. ASSUME NEW m \in HasOutputsMask, m # n, NEW o \in Outputs
      PROVE  DoorbellInv(m, o)'
  <2>1. m \in NSPs
    BY MaskFacts
  <2>2. /\ db'[m] = db[m] /\ flight'[m] = flight[m] /\ pc'[m] = pc[m]
        /\ k'[m] = k[m] /\ sends'[m] = sends[m]
        /\ UNCHANGED <<dmaRound, dmaIdx>>
    BY <1>0, <1>a, <2>1 DEF ThreadStep, NspStep, WaitForAllOutputsReady, WaitForBuffer,
       ClearSeenBuffer, OutputsReady, WriteOutputs, SendAllOutputs, SendWithoutOutputs,
       ClearOutputDoorbell, DecOutputSem, clearBufferValid, TypeOK, dmaVars
  <2> QED BY <2>2, OtherNsp
<1>b. ASSUME n \in HasOutputsMask => \A o \in Outputs : DoorbellInv(n, o)'
      PROVE  DoorbellsOK'
  BY <1>a, <1>b DEF DoorbellsOK
<1> USE DEF DoorbellInv, MayWrite, Rings, dmaVars
<1>c. \A o \in Outputs : n \in HasOutputsMask => DoorbellInv(n, o)
  BY DEF IInv, DoorbellsOK
<1>d. \A o \in Outputs : o \in Nat /\ o < NumOutputs
  BY OutputsAssumption DEF Outputs
<1>e. ASSUME NEW j, clearBufferValid(n, j), NEW o \in Outputs
      PROVE  db'[n][o] = IF o = j THEN 0 ELSE db[n][o]
  BY <1>0, <1>e DEF clearBufferValid, TypeOK
<1>1. CASE WaitForAllOutputsReady(n)
  <2> USE <1>1 DEF WaitForAllOutputsReady
  <2>1. PcOK'
    BY <1>0 DEF IInv, PcOK, TypeOK
  <2>2. n \in HasOutputsMask => \A o \in Outputs : DoorbellInv(n, o)'
    BY <1>0, <1>c, <1>d DEF TypeOK
  <2> QED BY <1>0, <1>b, <2>1, <2>2, EngineFrame DEF IInv
<1>2. CASE WaitForBuffer(n)
  <2> USE <1>2 DEF WaitForBuffer
  <2>0. k[n] \in Outputs
    BY <1>0, OutputsAssumption DEF TypeOK, Outputs
  <2>1. PcOK'
    BY <1>0, <2>0 DEF IInv, PcOK, TypeOK
  <2>2. n \in HasOutputsMask => Rings(k[n]) = sends[n]
    BY <1>0, <1>c, <2>0, RingFacts DEF isBufferValid
  <2>3. n \in HasOutputsMask => \A o \in Outputs : DoorbellInv(n, o)'
    BY <1>0, <1>c, <1>d, <2>0, <2>2 DEF TypeOK, isBufferValid, Outputs
  <2> QED BY <1>0, <1>b, <2>1, <2>3, EngineFrame DEF IInv
<1>3. CASE ClearSeenBuffer(n)
  <2> USE <1>3 DEF ClearSeenBuffer
  <2>1. PcOK'
    BY <1>0 DEF IInv, PcOK, TypeOK
  <2>2. ASSUME n \in HasOutputsMask, NEW o \in Outputs PROVE DoorbellInv(n, o)'
    <3>1. /\ db'[n][o] = IF o = k[n] THEN 0 ELSE db[n][o]
          /\ pc'[n] = "waiting" /\ k'[n] = k[n] + 1 /\ k[n] \in Nat
          /\ UNCHANGED <<flight, sends, dmaRound, dmaIdx>>
      BY <1>0, <1>e DEF TypeOK
    <3>2. DoorbellInv(n, o) /\ o \in Nat
      BY <1>c, <1>d, <2>2
    <3> QED BY <3>1, <3>2
  <2> QED BY <1>0, <1>b, <2>1, <2>2, EngineFrame DEF IInv
<1>4. CASE OutputsReady(n)
  <2> USE <1>4 DEF OutputsReady
  <2>1. PcOK'
    BY <1>0 DEF IInv, PcOK, TypeOK
  <2>2. n \in HasOutputsMask => \A o \in Outputs : DoorbellInv(n, o)'
    BY <1>0, <1>c, <1>d DEF TypeOK
  <2> QED BY <1>0, <1>b, <2>1, <2>2, EngineFrame DEF IInv
<1>5. ASSUME NEW v \in Nat, WriteOutputs(n, v) PROVE IInv'
  <2> USE <1>5 DEF WriteOutputs
  <2>1. PcOK'
    BY <1>0 DEF IInv, PcOK, TypeOK
  <2>2. n \in HasOutputsMask => \A o \in Outputs : DoorbellInv(n, o)'
    BY <1>0, <1>c, <1>d DEF TypeOK
  <2> QED BY <1>0, <1>b, <2>1, <2>2, EngineFrame DEF IInv
<1>6. CASE SendAllOutputs(n)
  <2> USE <1>6 DEF SendAllOutputs
  <2>1. PcOK'
    BY <1>0 DEF IInv, PcOK, TypeOK, SendMaskIsOutputMask
  <2>2. n \in HasOutputsMask => \A o \in Outputs : DoorbellInv(n, o)'
    BY <1>0, <1>c, <1>d DEF TypeOK
  <2> QED BY <1>0, <1>b, <2>1, <2>2, EngineFrame DEF IInv
<1>7. CASE SendWithoutOutputs(n)
  <2> USE <1>7 DEF SendWithoutOutputs
  <2>1. PcOK' /\ n \notin HasOutputsMask
    BY <1>0 DEF IInv, PcOK, TypeOK, SendMaskIsOutputMask
  <2> QED BY <1>0, <1>b, <2>1, EngineFrame DEF IInv
<1>8. CASE ClearOutputDoorbell(n)
  <2> USE <1>8 DEF ClearOutputDoorbell
  <2>1. PcOK'
    BY <1>0 DEF IInv, PcOK, TypeOK
  <2>2. ASSUME n \in HasOutputsMask, NEW o \in Outputs PROVE DoorbellInv(n, o)'
    <3>1. /\ db'[n][o] = IF o = k[n] THEN 0 ELSE db[n][o]
          /\ pc'[n] = "clearing" /\ k'[n] = k[n] + 1 /\ k[n] \in Nat
          /\ UNCHANGED <<flight, sends, dmaRound, dmaIdx>>
      BY <1>0, <1>e DEF TypeOK
    <3>2. DoorbellInv(n, o) /\ o \in Nat
      BY <1>c, <1>d, <2>2
    <3> QED BY <3>1, <3>2
  <2> QED BY <1>0, <1>b, <2>1, <2>2, EngineFrame DEF IInv
<1>9. CASE DecOutputSem(n)
  <2> USE <1>9 DEF DecOutputSem
  <2>1. PcOK'
    BY <1>0 DEF IInv, PcOK, TypeOK
  <2>2. ASSUME n \in HasOutputsMask, NEW o \in Outputs PROVE DoorbellInv(n, o)'
    <3>1. /\ db'[n][o] = db[n][o] /\ sends'[n] = sends[n] + 1
          /\ pc'[n] \in {"waiting", "called"} /\ k'[n] = 0
          /\ UNCHANGED <<flight, dmaRound, dmaIdx>>
      BY <1>0 DEF TypeOK
    <3>2. DoorbellInv(n, o) /\ o \in Nat /\ o < NumOutputs
      BY <1>c, <1>d, <2>2
    <3>3. Rings(o) = sends[n] /\ sends[n] \in Nat /\ db[n][o] = 0
      BY <3>2, <1>0 DEF TypeOK
    <3> QED BY <3>1, <3>2, <3>3
  <2>3. n \in HasOutputsMask
    BY <1>0 DEF IInv, PcOK
  <2>4. /\ dmaIdx = 0 /\ dmaPhase = "pre" /\ ~InitDone
        /\ sends[n] = dmaRound /\ n \in Pending
    BY <2>3, OwnsMeansIdle
  <2>5. \A m \in NSPs : sends'[m] = IF m = n THEN dmaRound + 1 ELSE sends[m]
    BY <1>0, <2>4 DEF TypeOK
  <2>6. InitsDone = dmaRound /\ InitsDone' = dmaRound /\ ~InitDone' /\ dmaRound \in Nat
    BY <1>0, <2>4 DEF InitsDone, InitDone, TypeOK
  <2>7. InStep'
    BY <2>3, <2>5, <2>6, MaskFacts DEF IInv, InStep
  <2>8. Pending' = Pending \ {n}
    BY <2>3, <2>5, <2>6, MaskFacts DEF Pending
  <2>9. SemCountsPending'
    <3>1. sem = Cardinality(Pending) /\ sem > 0 /\ sem \in Nat
      BY <2>4, PendingCounts DEF IInv, SemCountsPending
    <3>2. Cardinality(Pending \ {n}) = Cardinality(Pending) - 1
      BY <2>4, PendingCounts, FS_RemoveElement
    <3> QED BY <2>8, <3>1, <3>2 DEF SemCountsPending, Decremented
  <2>10. TransferNeedsAll'
    BY <2>4 DEF TransferNeedsAll
  <2> QED BY <1>0, <1>b, <2>1, <2>2, <2>7, <2>9, <2>10 DEF IInv
<1> QED
  BY <1>1, <1>2, <1>3, <1>4, <1>5, <1>6, <1>7, <1>8, <1>9 DEF ThreadStep, NspStep

-----------------------------------------------------------------------------
(* The invariant is preserved: steps of the engine *)

\* A doorbell that lands sets a word its NSP is still to see.
LEMMA DeliverKeeps ==
  ASSUME IInv, NEW n \in NSPs, DeliverDoorbell(n)
  PROVE  IInv'
<1>0. TypeOK /\ TypeOK'
  BY TypeStep DEF IInv, HandshakeNext
<1>1. PICK j \in flight[n] : /\ flight' = [flight EXCEPT ![n] = @ \ {j}]
                             /\ db' = [db EXCEPT ![n][j] = 1]
  BY DEF DeliverDoorbell
<1>2. UNCHANGED <<sem, dmaRound, dmaIdx, dmaPhase, part, pc, k, wait, clear, sends>>
  BY DEF DeliverDoorbell, dmaVars, nspVars
<1>3. ASSUME NEW m \in HasOutputsMask, NEW o \in Outputs PROVE DoorbellInv(m, o)'
  <2>1. m \in NSPs /\ DoorbellInv(m, o)
    BY MaskFacts DEF IInv, DoorbellsOK
  <2>2. CASE m # n
    BY <1>0, <1>1, <1>2, <2>1, <2>2, OtherNsp DEF TypeOK
  <2>3. CASE m = n
    <3>1. /\ db'[n][o] = IF o = j THEN 1 ELSE db[n][o]
          /\ o \in flight'[n] <=> o \in flight[n] /\ o # j
      BY <1>0, <1>1 DEF TypeOK
    <3>2. o = j => Rings(o) = sends[n] /\ ~MayWrite(n, o)
      BY <1>1, <2>1, <2>3 DEF DoorbellInv
    <3>3. Rings(o)' = Rings(o) /\ Rings(o) \in Nat /\ sends[n] \in Nat
      BY <1>2, <2>3, RingFacts DEF Rings
    <3> QED
      BY <1>2, <2>1, <2>3, <3>1, <3>2, <3>3 DEF DoorbellInv, MayWrite
  <2> QED BY <2>2, <2>3
<1>4. PcOK'
  BY <1>2 DEF IInv, PcOK
<1> QED
  BY <1>0, <1>2, <1>3, <1>4, EngineFrame DEF IInv, DoorbellsOK, dmaVars

\* No step of the engine breaks the invariant: it gets past WAITEQ only when all have sent.
LEMMA DmaStepKeeps == IInv /\ DmaStep => IInv'
<1> SUFFICES ASSUME IInv, DmaStep PROVE IInv'
  OBVIOUS
<1>0. TypeOK /\ TypeOK'
  BY TypeStep DEF IInv, HandshakeNext
<1>1. dmaRound \in Nat /\ dmaIdx \in 0 .. NumOutputs - 1 /\ NumOutputs \in Nat \ {0}
  BY <1>0, OutputsAssumption DEF TypeOK, Outputs
<1>2. PcOK'
  BY DEF IInv, PcOK, DmaStep, DmaWaitSem, DmaTransfer, DmaPostSem, DmaRingDoorbell, nspVars
<1>3. CASE DmaWaitSem
  <2> USE <1>3 DEF DmaWaitSem
  <2>1. Pending = {}
    BY PendingCounts DEF IInv, SemCountsPending
  <2>2. Pending' = Pending /\ InitsDone' = InitsDone /\ ~InitDone'
    BY DEF Pending, InitsDone, InitDone, nspVars
  <2>3. InStep' /\ SemCountsPending' /\ TransferNeedsAll'
    BY <2>1, <2>2 DEF IInv, InStep, SemCountsPending, TransferNeedsAll, nspVars
  <2>4. DoorbellsOK'
    BY DEF IInv, DoorbellsOK, DoorbellInv, MayWrite, Rings, nspVars
  <2> QED BY <1>0, <1>2, <2>3, <2>4 DEF IInv
<1>4. CASE DmaTransfer
  <2> USE <1>4 DEF DmaTransfer
  <2>1. Pending' = Pending /\ InitsDone' = InitsDone /\ ~InitDone /\ ~InitDone'
    BY DEF Pending, InitsDone, InitDone, nspVars
  <2>2. InStep' /\ SemCountsPending' /\ TransferNeedsAll'
    BY <2>1 DEF IInv, InStep, SemCountsPending, TransferNeedsAll, nspVars
  <2>3. DoorbellsOK'
    BY DEF IInv, DoorbellsOK, DoorbellInv, MayWrite, Rings, nspVars
  <2> QED BY <1>0, <1>2, <2>2, <2>3 DEF IInv
<1>5. CASE DmaPostSem
  <2> USE <1>5 DEF DmaPostSem
  <2>1. Pending = {} /\ ~InitDone /\ InitsDone = dmaRound
    BY <1>1 DEF IInv, TransferNeedsAll, InitDone, InitsDone
  <2>2. DoorbellsOK'
    BY DEF IInv, DoorbellsOK, DoorbellInv, MayWrite, Rings, nspVars
  <2>3. CASE dmaIdx = NumOutputs - 1
    <3>1. InitDone' /\ InitsDone' = dmaRound + 1
      BY <1>1, <2>3 DEF InitsDone, InitDone
    <3>2. \A n \in HasOutputsMask : sends'[n] = dmaRound + 1
      BY <2>1 DEF IInv, InStep, Pending, nspVars
    <3>3. Pending' = HasOutputsMask
      BY <3>1, <3>2 DEF Pending
    <3>4. SemCountsPending' /\ TransferNeedsAll' /\ InStep'
      BY <2>3, <3>1, <3>2, <3>3
         DEF SemCountsPending, TransferNeedsAll, InStep, OutputSemInitVal
    <3> QED BY <1>0, <1>2, <2>2, <3>4 DEF IInv
  <2>4. CASE dmaIdx # NumOutputs - 1
    <3>1. Pending' = Pending /\ InitsDone' = InitsDone /\ ~InitDone'
      BY <2>4 DEF Pending, InitsDone, InitDone, nspVars
    <3>2. SemCountsPending' /\ TransferNeedsAll' /\ InStep'
      BY <2>1, <2>4, <3>1 DEF IInv, SemCountsPending, TransferNeedsAll, InStep, nspVars
    <3> QED BY <1>0, <1>2, <2>2, <3>2 DEF IInv
  <2> QED BY <2>3, <2>4
<1>6. CASE DmaRingDoorbell
  <2> USE <1>6 DEF DmaRingDoorbell
  <2>1. InitsDone' = InitsDone /\ ~InitDone'
    BY <1>1 DEF InitsDone, InitDone
  <2>2. Pending' = Pending
    BY <2>1 DEF Pending, nspVars
  <2>3. InStep' /\ SemCountsPending'
    BY <2>1, <2>2 DEF IInv, InStep, SemCountsPending, nspVars
  <2>4. TransferNeedsAll'
    BY <1>1, <2>1, <2>2 DEF IInv, TransferNeedsAll, InitDone
  <2>5. ASSUME NEW n \in HasOutputsMask, NEW o \in Outputs PROVE DoorbellInv(n, o)'
    <3>1. n \in NSPs /\ DoorbellInv(n, o) /\ o \in 0 .. NumOutputs - 1
      BY MaskFacts DEF IInv, DoorbellsOK, Outputs
    <3>2. flight'[n] = flight[n] \union {dmaIdx}
      BY <3>1
    <3>3. Rings(o)' = Rings(o) + (IF o = dmaIdx THEN 1 ELSE 0)
      BY <1>1, <3>1 DEF Rings
    <3>4. sends[n] = dmaRound + 1
      <4>1. InitDone => sends[n] = InitsDone
        BY DEF IInv, TransferNeedsAll, Pending
      <4>2. ~InitDone => sends[n] = InitsDone + 1
        BY DEF IInv, TransferNeedsAll, InStep, Pending
      <4> QED BY <1>1, <4>1, <4>2 DEF InitsDone
    <3>5. o = dmaIdx => Rings(o) = dmaRound /\ db[n][o] = 0 /\ ~MayWrite(n, o)
      BY <1>1, <3>1, <3>4 DEF Rings, DoorbellInv
    <3> QED
      BY <1>1, <3>1, <3>2, <3>3, <3>4, <3>5, RingFacts
         DEF DoorbellInv, MayWrite, nspVars
  <2> QED BY <1>0, <1>2, <2>3, <2>4, <2>5 DEF IInv, DoorbellsOK
<1> QED BY <1>3, <1>4, <1>5, <1>6 DEF DmaStep

-----------------------------------------------------------------------------
(* Theorems *)

\* Every variable keeps its type, for any number of NSPs, outputs and inferences; the
\* semaphore stays within its 12 bits whatever a decrement below 0 does.
THEOREM TypeCorrect == Spec => []TypeOK
<1>1. TypeOK /\ [Next]_vars => TypeOK'
  BY TypeStep, NextIsHandshake
<1> QED BY TypeInit, <1>1, PTL DEF Spec

\* The invariant is inductive, whatever the program writes.
LEMMA IInvStep == SendMaskIsOutputMask /\ IInv /\ [HandshakeNext]_vars => IInv'
<1> SUFFICES ASSUME SendMaskIsOutputMask, IInv, [HandshakeNext]_vars PROVE IInv'
  OBVIOUS
<1>1. CASE UNCHANGED vars
  BY <1>1 DEF vars, dmaVars, nspVars, IInv, TypeOK, PcOK, InStep, SemCountsPending,
     TransferNeedsAll, DoorbellsOK, DoorbellInv, Pending, InitsDone, InitDone, MayWrite, Rings
<1> QED BY <1>1, ThreadStepKeeps, DeliverKeeps, DmaStepKeeps DEF HandshakeNext

\* The inductive invariant holds in every reachable state when sendAllOutputs tests the
\* mask the semaphore is counted with.
THEOREM InvariantHolds == SendMaskIsOutputMask => (Spec => []IInv)
<1> SUFFICES ASSUME SendMaskIsOutputMask PROVE Spec => []IInv
  OBVIOUS
<1>1. IInv /\ [Next]_vars => IInv'
  BY IInvStep, NextIsHandshake DEF IInv
<1> QED BY IInvInit, <1>1, PTL DEF Spec

\* In a transfer every NSP with outputs has sent, and may not write the output again yet.
LEMMA TransferFacts ==
  ASSUME IInv, dmaPhase = "xfer"
  PROVE  \A n \in HasOutputsMask : sends[n] = dmaRound + 1 /\ ~MayWrite(n, dmaIdx)
<1>1. Pending = {} /\ InitsDone = dmaRound /\ dmaRound \in Nat /\ dmaIdx \in Outputs
  BY DEF IInv, TypeOK, TransferNeedsAll, InitDone, InitsDone
<1>2. Rings(dmaIdx) = dmaRound
  BY <1>1, OutputsAssumption DEF Rings, Outputs
<1> TAKE n \in HasOutputsMask
<1>3. sends[n] = dmaRound + 1
  BY <1>1 DEF IInv, InStep, Pending
<1> QED BY <1>1, <1>2, <1>3 DEF IInv, DoorbellsOK, DoorbellInv

\* The invariant rules out the race, an early start and an underflow.
LEMMA IInvGivesSafety == IInv => NoOutputRace /\ StartsWhenAllHaveSent /\ SemNeverUnderflows
<1> SUFFICES ASSUME IInv PROVE NoOutputRace /\ StartsWhenAllHaveSent /\ SemNeverUnderflows
  OBVIOUS
<1>1. NoOutputRace
  BY TransferFacts, MaskFacts DEF NoOutputRace, IInv, TypeOK
<1>2. StartsWhenAllHaveSent
  BY TransferFacts DEF StartsWhenAllHaveSent
<1>3. ASSUME NEW n \in NSPs, pc[n] = "clearing" PROVE sem > 0
  <2>1. n \in HasOutputsMask
    BY <1>3 DEF IInv, PcOK
  <2>2. n \in Pending
    BY <1>3, <2>1, OwnsMeansIdle
  <2> QED BY <2>2, PendingCounts DEF IInv, SemCountsPending
<1> QED BY <1>1, <1>2, <1>3 DEF SemNeverUnderflows

\* No NSP that has a part in the output the engine reads may write it.
THEOREM OutputsNeverRace == SendMaskIsOutputMask => (Spec => []NoOutputRace)
BY InvariantHolds, IInvGivesSafety, PTL

\* The engine starts on an inference's outputs only when all have sent for it.
THEOREM StartsWhenAllSent == SendMaskIsOutputMask => (Spec => []StartsWhenAllHaveSent)
BY InvariantHolds, IInvGivesSafety, PTL

\* No decrement finds the semaphore at 0.
THEOREM SemaphoreNeverUnderflows == SendMaskIsOutputMask => (Spec => []SemNeverUnderflows)
BY InvariantHolds, IInvGivesSafety, PTL

-----------------------------------------------------------------------------
(* The handshake implements the abstract handover *)

\* The initial state maps to the initial state of Handover: the host has the buffers.
LEMMA AbstractInit == Init => Abstract!Init
BY MaskFacts DEF Init, Abstract!Init, LastTransferDone

Owner == [n \in HasOutputsMask |->
            IF pc[n] \in {"owns", "written", "clearing"} THEN "nsp" ELSE "host"]
Gives == [n \in HasOutputsMask |-> sends[n]]
Moves == dmaRound + (IF LastTransferDone THEN 1 ELSE 0)

\* A step of n gives, takes or stutters.
LEMMA AbstractThreadStep ==
  ASSUME SendMaskIsOutputMask, IInv, NEW n \in NSPs, ThreadStep(n)
  PROVE  Abstract!Next \/ UNCHANGED <<Owner, Gives, Moves>>
<1>0. TypeOK /\ n \in NSPs /\ \A m \in HasOutputsMask : m \in NSPs
  BY MaskFacts DEF IInv
<1>1. CASE DecOutputSem(n)
  <2>1. n \in HasOutputsMask
    BY <1>1 DEF DecOutputSem, IInv, PcOK
  <2>2. dmaPhase = "pre" /\ sends[n] = dmaRound
    BY <1>1, <2>1, OwnsMeansIdle DEF DecOutputSem
  <2>3. Moves = dmaRound /\ Moves' = Moves
    BY <1>0, <1>1, <2>2 DEF Moves, LastTransferDone, DecOutputSem, dmaVars, TypeOK
  <2>4. Owner[n] = "nsp" /\ Gives[n] = Moves
    BY <1>1, <2>1, <2>2, <2>3 DEF Owner, Gives, DecOutputSem
  <2>5. Owner' = [Owner EXCEPT ![n] = "host"]
    BY <1>0, <1>1 DEF Owner, DecOutputSem, TypeOK
  <2>6. Gives' = [Gives EXCEPT ![n] = @ + 1]
    BY <1>0, <1>1 DEF Gives, DecOutputSem, TypeOK
  <2>7. Abstract!Give(n)
    BY <2>3, <2>4, <2>5, <2>6 DEF Abstract!Give, Owner, Gives, Moves
  <2> QED BY <2>1, <2>7 DEF Abstract!Next
<1>2. CASE OutputsReady(n) /\ n \in HasOutputsMask
  <2>1. MayWrite(n, NumOutputs - 1)
    BY <1>2, OutputsAssumption DEF OutputsReady, MayWrite
  <2>2. Rings(NumOutputs - 1) = sends[n]
    BY <1>2, <2>1, MaskFacts DEF IInv, DoorbellsOK, DoorbellInv
  <2>3. dmaIdx \in 0 .. NumOutputs - 1 /\ dmaRound \in Nat
    BY DEF IInv, TypeOK, Outputs
  <2>4. sends[n] = dmaRound
    BY <2>2, <2>3, OutputsAssumption DEF Rings
  <2>5. ~LastTransferDone
    <3>1. ~InitDone
      BY <1>2, <2>3, <2>4 DEF IInv, InStep, InitsDone
    <3>2. n \in Pending
      BY <1>2, <2>3, <2>4, <3>1 DEF Pending, InitsDone
    <3> QED BY <3>1, <3>2 DEF IInv, TransferNeedsAll, LastTransferDone
  <2>6. Moves = dmaRound /\ Moves' = Moves
    BY <1>2, <2>3, <2>5 DEF Moves, LastTransferDone, OutputsReady, dmaVars
  <2>7. Owner[n] = "host" /\ Gives[n] = Moves
    BY <1>2, <2>4, <2>6 DEF Owner, Gives, OutputsReady
  <2>8. Owner' = [Owner EXCEPT ![n] = "nsp"]
    BY <1>0, <1>2 DEF Owner, OutputsReady, TypeOK
  <2>9. Gives' = Gives
    BY <1>2 DEF Gives, OutputsReady
  <2>10. Abstract!Take(n)
    BY <2>6, <2>7, <2>8, <2>9 DEF Abstract!Take, Owner, Gives, Moves
  <2> QED BY <1>2, <2>10 DEF Abstract!Next
<1>3. CASE ~DecOutputSem(n) /\ ~(OutputsReady(n) /\ n \in HasOutputsMask)
  <2>1. UNCHANGED <<sends, dmaRound, dmaIdx, dmaPhase>>
    BY <1>3 DEF ThreadStep, NspStep, WaitForAllOutputsReady, WaitForBuffer, ClearSeenBuffer,
       OutputsReady, WriteOutputs, SendAllOutputs, SendWithoutOutputs, ClearOutputDoorbell,
       dmaVars
  <2>2. ASSUME NEW m \in HasOutputsMask
        PROVE  pc'[m] \in {"owns", "written", "clearing"}
                 <=> pc[m] \in {"owns", "written", "clearing"}
    BY <1>0, <1>3, <2>2 DEF ThreadStep, NspStep, WaitForAllOutputsReady, WaitForBuffer,
       ClearSeenBuffer, OutputsReady, WriteOutputs, SendAllOutputs, SendWithoutOutputs,
       ClearOutputDoorbell, TypeOK, SendMaskIsOutputMask
  <2> QED BY <2>1, <2>2 DEF Owner, Gives, Moves, LastTransferDone
<1> QED BY <1>1, <1>2, <1>3

\* The last transfer is the abstract move; the engine's other steps stutter.
LEMMA AbstractDmaStep ==
  ASSUME IInv, DmaStep
  PROVE  Abstract!Next \/ UNCHANGED <<Owner, Gives, Moves>>
<1>1. UNCHANGED <<Owner, Gives>>
  BY DEF Owner, Gives, DmaStep, DmaWaitSem, DmaTransfer, DmaPostSem, DmaRingDoorbell, nspVars
<1>2. dmaRound \in Nat /\ dmaIdx \in 0 .. NumOutputs - 1 /\ NumOutputs \in Nat \ {0}
  BY OutputsAssumption DEF IInv, TypeOK, Outputs
<1>3. CASE DmaTransfer /\ dmaIdx = NumOutputs - 1
  <2>1. Moves = dmaRound /\ Moves' = Moves + 1
    BY <1>2, <1>3 DEF Moves, LastTransferDone, DmaTransfer
  <2>2. ASSUME NEW n \in HasOutputsMask PROVE Owner[n] = "host" /\ Gives[n] = Moves + 1
    <3>1. pc[n] \notin {"owns", "written", "clearing"}
      BY <1>3, OwnsMeansIdle DEF DmaTransfer
    <3>2. sends[n] = dmaRound + 1
      BY <1>3, TransferFacts DEF DmaTransfer
    <3> QED BY <2>1, <3>1, <3>2 DEF Owner, Gives
  <2> QED BY <1>1, <2>1, <2>2 DEF Abstract!Next, Abstract!Move, Owner, Gives, Moves
<1>4. CASE ~(DmaTransfer /\ dmaIdx = NumOutputs - 1)
  <2>1. Moves' = Moves
    BY <1>2, <1>4 DEF Moves, LastTransferDone, DmaStep, DmaWaitSem, DmaTransfer,
       DmaPostSem, DmaRingDoorbell
  <2> QED BY <1>1, <2>1
<1> QED BY <1>3, <1>4

\* The NSPs' steps and the engine's are the steps of Handover: an NSP gives its outputs
\* away once, gets them back after the move they were given for, and the engine finishes
\* an inference only while every NSP with outputs has given.
THEOREM ImplementsHandoverHolds == SendMaskIsOutputMask => (Spec => ImplementsHandover)
<1> SUFFICES ASSUME SendMaskIsOutputMask PROVE Spec => ImplementsHandover
  OBVIOUS
<1>1. IInv /\ [HandshakeNext]_vars => [Abstract!Next]_<<Owner, Gives, Moves>>
  <2> SUFFICES ASSUME IInv, [HandshakeNext]_vars
              PROVE  Abstract!Next \/ UNCHANGED <<Owner, Gives, Moves>>
    OBVIOUS
  <2>1. ASSUME NEW n \in NSPs, DeliverDoorbell(n)
        PROVE  UNCHANGED <<Owner, Gives, Moves>>
    BY <2>1 DEF DeliverDoorbell, Owner, Gives, Moves, LastTransferDone, dmaVars, nspVars
  <2>2. CASE UNCHANGED vars
    BY <2>2 DEF vars, Owner, Gives, Moves, LastTransferDone, dmaVars, nspVars
  <2> QED BY <2>1, <2>2, AbstractThreadStep, AbstractDmaStep DEF HandshakeNext
<1>2. [Abstract!Next]_<<Owner, Gives, Moves>> => [Abstract!Next]_(Abstract!vars)
  BY DEF Abstract!vars, Owner, Gives, Moves
<1>3. IInv /\ [Next]_vars => [HandshakeNext]_vars
  BY NextIsHandshake DEF IInv
<1> QED
  BY InvariantHolds, AbstractInit, <1>1, <1>2, <1>3, PTL
     DEF Spec, ImplementsHandover, Abstract!Spec

=============================================================================
