----------------------- MODULE ThreadLifecycleProofs -----------------------
(***************************************************************************)
(* Theorems about ThreadLifecycle, for any number of threads, broadcasts,  *)
(* doorbells and any time limit.                                           *)
(***************************************************************************)
EXTENDS ThreadLifecycle, TLAPS

\* The order of the start: context, description, publication, everything else.
Started ==
  /\ \A t \in Threads : pc[t] \in {"context", "desc"} => t = 0
  /\ pc[0] \in {"context", "desc"} => ctxInit
  /\ pc[0] = "desc" => descInit \/ fatal /= "none"
  /\ initsDone => ctxInit /\ descInit
  /\ \A t \in Threads : pc[t] \notin {"start", "context", "desc"} => initsDone

\* Only one thread can have been given up: it was waiting for its DMA, and nothing moves since.
HungWaits ==
  /\ hung /= {} => fatal /= "none"
  /\ \A t \in Threads : t \in hung => Timed(t)

\* A list in which data comes before an ordered doorbell, and that ends with the last
\* descriptor submitted as long as there is data in it.
WellOrdered(queue, last) ==
  \A i \in 1 .. Len(queue) : queue[i].kind = "payload" =>
    /\ \E j \in i + 1 .. Len(queue) : Ordered(queue[j].kind)
    /\ queue[Len(queue)] = last

-----------------------------------------------------------------------------
(* Types.                                                                  *)

\* A finished descriptor leaves the others in their order.
LEMMA FinishedFacts ==
  ASSUME NEW S, NEW queue \in Seq(S), NEW i \in 1 .. Len(queue)
  PROVE  /\ Finished(queue, i) \in Seq(S)
         /\ Len(Finished(queue, i)) = Len(queue) - 1
         /\ \A j \in 1 .. Len(queue) - 1 :
              Finished(queue, i)[j] = IF j < i THEN queue[j] ELSE queue[j + 1]
  BY DEF Finished

\* What a broadcast adds to a list: data, the local doorbell and perhaps the others'.
Submitted(kinds, id) == [i \in 1 .. Len(kinds) |-> [id |-> id, kind |-> kinds[i]]]
LEMMA SubmittedFacts ==
  ASSUME NEW kinds \in {<<"payload", "local">>, <<"payload", "local", "global">>}, NEW id \in Nat
  PROVE  /\ Submitted(kinds, id) \in Seq(Descriptors)
         /\ Len(Submitted(kinds, id)) \in {2, 3}
         /\ Submitted(kinds, id)[Len(Submitted(kinds, id))] \in Descriptors
         /\ Submitted(kinds, id)[2].kind = "local"
         /\ \A i \in 1 .. Len(Submitted(kinds, id)) : i /= 1 => Submitted(kinds, id)[i].kind /= "payload"
<1>1. kinds \in Seq(Kinds) /\ Len(kinds) \in {2, 3} /\ kinds[2] = "local"
      /\ \A i \in 1 .. Len(kinds) : i /= 1 => kinds[i] /= "payload"
  <2>1. CASE kinds = <<"payload", "local">>
    BY <2>1 DEF Kinds
  <2>2. CASE kinds = <<"payload", "local", "global">>
    BY <2>2 DEF Kinds
  <2> QED
    BY <2>1, <2>2
<1>2. \A i \in 1 .. Len(kinds) : kinds[i] \in Kinds
  BY <1>1
<1>3. Len(kinds) \in Nat /\ \A i \in 1 .. Len(kinds) : [id |-> id, kind |-> kinds[i]] \in Descriptors
  BY <1>1, <1>2 DEF Descriptors
<1>4. Submitted(kinds, id) \in Seq(Descriptors) /\ Len(Submitted(kinds, id)) = Len(kinds)
  BY <1>3 DEF Submitted
<1>5. \A i \in 1 .. Len(kinds) : Submitted(kinds, id)[i].kind = kinds[i]
  BY DEF Submitted
<1>6. Len(kinds) \in 1 .. Len(kinds)
  BY <1>1
<1>7. Submitted(kinds, id)[Len(kinds)] \in Descriptors
  BY <1>3, <1>6 DEF Submitted
<1> QED
  BY <1>1, <1>4, <1>5, <1>7

\* Every state is type correct.
LEMMA TypeKept == TypeOK /\ [Next]_vars => TypeOK'
<1> SUFFICES ASSUME TypeOK, [Next]_vars PROVE TypeOK'
  OBVIOUS
<1> USE ThreadsAssumption DEF TypeOK, initVars
<1>0. DummyDesc \in Descriptors
  BY DEF DummyDesc, Descriptors, Kinds
<1>1. CASE NspContextInit
  BY <1>1 DEF NspContextInit, Goto, PCs
<1>2. CASE ProgramDescInit
  BY <1>2 DEF ProgramDescInit, Goto, PCs
<1>3. CASE PublishInits
  BY <1>3 DEF PublishInits, Goto, PCs
<1>4. CASE RingExitDoorbell
  BY <1>4 DEF RingExitDoorbell
<1>5. ASSUME NEW t \in Threads, WaitForInits(t) PROVE TypeOK'
  BY <1>5 DEF WaitForInits, Goto, PCs
<1>6. ASSUME NEW t \in Threads, UdmaContextInit(t) PROVE TypeOK'
  BY <1>0, <1>6 DEF UdmaContextInit, Goto, PCs
<1>7. ASSUME NEW t \in Threads, SubmitDma(t) PROVE TypeOK'
  <2>1. PICK kinds \in {<<"payload", "local">>, <<"payload", "local", "global">>} :
          LET descs == Submitted(kinds, tail[t].id + 1)
          IN  /\ dma' = [dma EXCEPT ![t] = @ \o descs]
              /\ tail' = [tail EXCEPT ![t] = descs[Len(descs)]]
    BY <1>7 DEF SubmitDma, Submitted
  <2> DEFINE descs == Submitted(kinds, tail[t].id + 1)
  <2>2. tail[t].id + 1 \in Nat
    BY DEF Descriptors
  <2>3. descs \in Seq(Descriptors) /\ descs[Len(descs)] \in Descriptors
    BY <2>2, SubmittedFacts
  <2>4. dma[t] \o descs \in Seq(Descriptors) /\ descs[Len(descs)] \in Descriptors
    <3>1. dma[t] \in Seq(Descriptors)
      OBVIOUS
    <3> HIDE DEF descs, TypeOK
    <3>2. dma[t] \o descs \in Seq(Descriptors)
      BY <2>3, <3>1
    <3> QED
      BY <2>3, <3>2
  <2>5. dma' \in [Threads -> Seq(Descriptors)] /\ tail' \in [Threads -> Descriptors]
    BY <2>1, <2>4
  <2> QED
    BY <2>5, <1>7 DEF SubmitDma
<1>8. ASSUME NEW t \in Threads, WaitForBuffer(t) PROVE TypeOK'
  BY <1>8 DEF WaitForBuffer, Goto, PCs
<1>9. ASSUME NEW t \in Threads, WaitForDma(t) PROVE TypeOK'
  <2>1. Head(dma[t]) \in Descriptors
    BY <1>9 DEF WaitForDma
  <2> QED
    BY <2>1, <1>9 DEF WaitForDma, Goto, PCs
<1>10. ASSUME NEW t \in Threads, RegisterExitFunc(t) PROVE TypeOK'
  BY <1>10 DEF RegisterExitFunc
<1>11. ASSUME NEW t \in Threads,
              Exit(t) \/ CheckSeesExit(t) \/ ExitDoorbellSeen(t)
       PROVE  TypeOK'
  <2>1. Leave(t) /\ UNCHANGED <<initVars, exitFn, exitDB, fatal, hung, dma, tail, host, rung>>
    BY <1>11 DEF Exit, CheckSeesExit, ExitDoorbellSeen
  <2> QED
    BY <1>0, <2>1 DEF Leave, PCs
<1>12. ASSUME NEW t \in Threads, ReturnFromActivate(t) PROVE TypeOK'
  BY <1>12 DEF ReturnFromActivate, Goto, PCs
<1>13. ASSUME NEW t \in Threads, HostDoorbellSeen(t) PROVE TypeOK'
  BY <1>13 DEF HostDoorbellSeen, Goto, PCs
<1>14. ASSUME NEW t \in Threads, DmaDoneSeen(t) \/ CleanupDone(t) PROVE TypeOK'
  <2>1. EndWait(t) /\ UNCHANGED <<initVars, exitFn, exitDB, fatal, hung, dma, tail, host, rung>>
    BY <1>14 DEF DmaDoneSeen, CleanupDone
  <2>2. pc' \in [Threads -> PCs]
    BY <1>14 DEF DmaDoneSeen, CleanupDone, Goto, PCs
  <2> QED
    BY <1>0, <2>1, <2>2 DEF EndWait
<1>15. ASSUME NEW t \in Threads, CheckExceeds(t) PROVE TypeOK'
  BY <1>15 DEF CheckExceeds
<1>16. ASSUME NEW t \in Threads, FinishDma(t) PROVE TypeOK'
  <2>1. PICK i \in 1 .. Len(dma[t]) : dma' = [dma EXCEPT ![t] = Finished(@, i)]
    BY <1>16 DEF FinishDma
  <2>2. Finished(dma[t], i) \in Seq(Descriptors)
    BY <2>1, FinishedFacts
  <2> QED
    BY <2>1, <2>2, <1>16 DEF FinishDma
<1>17. ASSUME NEW t \in Threads, RingHostDoorbell(t) PROVE TypeOK'
  BY <1>17 DEF RingHostDoorbell
<1>18. CASE UNCHANGED vars
  BY <1>18 DEF vars
<1> QED
  BY <1>1, <1>2, <1>3, <1>4, <1>5, <1>6, <1>7, <1>8, <1>9, <1>10, <1>11, <1>12, <1>13, <1>14, <1>15,
     <1>16, <1>17, <1>18 DEF Next, RuntimeStep, UserStep

\* New threads.
LEMMA InitTypeOK == Init => TypeOK
<1>1. DummyDesc \in Descriptors /\ "start" \in PCs /\ 0 \in Nat /\ <<>> \in Seq(Descriptors)
  BY DEF DummyDesc, Descriptors, Kinds, PCs
<1> QED
  BY <1>1 DEF Init, TypeOK

\* Every reachable state is type correct (_qaic_start.cpp, NSPContext.cpp, os_common.cpp).
THEOREM TypeCorrect == Spec => []TypeOK
  BY InitTypeOK, TypeKept, PTL DEF Spec

-----------------------------------------------------------------------------
(* The start.                                                              *)

\* Nobody is past the start before thread 0 has published what it set up.
LEMMA StartedKept == TypeOK /\ Started /\ [Next]_vars => Started'
<1> SUFFICES ASSUME TypeOK, Started, [Next]_vars PROVE Started'
  OBVIOUS
<1>0. 0 \in Threads /\ pc \in [Threads -> PCs] /\ (Next => fatal = "none")
  BY ThreadsAssumption DEF TypeOK, Threads, Next
<1>1. CASE NspContextInit
  BY <1>0, <1>1 DEF NspContextInit, Goto, Started
<1>2. CASE ProgramDescInit
  BY <1>0, <1>2 DEF ProgramDescInit, Goto, Started
<1>3. CASE Next /\ PublishInits
  BY <1>0, <1>3 DEF PublishInits, Goto, Started
<1>4. ASSUME NEW t \in Threads, WaitForInits(t) PROVE Started'
  BY <1>0, <1>4 DEF WaitForInits, Goto, Started, initVars
<1>5. CASE UNCHANGED <<initVars, pc, fatal>>
  BY <1>5 DEF Started, initVars
<1>6. ASSUME Next, NEW t \in Threads,
             \/ UdmaContextInit(t) \/ HostDoorbellSeen(t) \/ DmaDoneSeen(t) \/ CleanupDone(t)
             \/ ExitDoorbellSeen(t) \/ UserStep(t) \/ CheckSeesExit(t) \/ CheckExceeds(t)
      PROVE  Started'
  <2>1. UNCHANGED initVars
    BY <1>6 DEF UdmaContextInit, HostDoorbellSeen, DmaDoneSeen, CleanupDone, ExitDoorbellSeen, UserStep,
       CheckSeesExit, CheckExceeds, SubmitDma, WaitForBuffer, WaitForDma, RegisterExitFunc, Exit,
       ReturnFromActivate
  <2>2. pc[t] \notin {"start", "context", "desc"}
    BY <1>6 DEF UdmaContextInit, HostDoorbellSeen, DmaDoneSeen, CleanupDone, ExitDoorbellSeen, UserStep,
       CheckSeesExit, CheckExceeds, SubmitDma, WaitForBuffer, WaitForDma, RegisterExitFunc, Exit,
       ReturnFromActivate, Waiting, Goto
  <2>3. pc' = pc \/ \E l \in {"user", "hostwait", "dmawait", "cleanup", "exitwait", "exited"} :
                    pc' = [pc EXCEPT ![t] = l]
    BY <1>6 DEF UdmaContextInit, HostDoorbellSeen, DmaDoneSeen, CleanupDone, ExitDoorbellSeen, UserStep,
       CheckSeesExit, CheckExceeds, SubmitDma, WaitForBuffer, WaitForDma, RegisterExitFunc, Exit,
       ReturnFromActivate, Goto, Leave
  <2>4. pc'[t] \notin {"start", "context", "desc"} /\ \A s \in Threads : s /= t => pc'[s] = pc[s]
    BY <2>2, <2>3, <1>0
  <2> QED
    BY <1>0, <1>6, <2>1, <2>2, <2>4 DEF Started, initVars
<1>7. ASSUME NEW t \in Threads, FinishDma(t) \/ RingHostDoorbell(t) PROVE Started'
  BY <1>7, <1>5 DEF FinishDma, RingHostDoorbell
<1>8. CASE RingExitDoorbell
  BY <1>8, <1>5 DEF RingExitDoorbell
<1>9. CASE UNCHANGED vars
  BY <1>9, <1>5 DEF vars
<1> QED
  BY <1>1, <1>2, <1>3, <1>4, <1>6, <1>7, <1>8, <1>9 DEF Next, RuntimeStep

\* No thread runs user code or touches its ring before thread 0 has filled in the context and the
\* program description (_qaic_start.cpp:22-28).
THEOREM InitBeforeUseAlways == Spec => []InitBeforeUse
<1>1. Init => TypeOK /\ Started
  <2>1. 0 \in Threads
    BY ThreadsAssumption DEF Threads
  <2>2. \A t \in Threads : [s \in Threads |-> "start"][t] = "start"
    OBVIOUS
  <2>3. Init => Started
    BY <2>1, <2>2 DEF Init, Started
  <2> QED
    BY <2>3, InitTypeOK
<1>2. Started => InitBeforeUse
  BY DEF Started, InitBeforeUse
<1> QED
  BY <1>1, <1>2, TypeKept, StartedKept, PTL DEF Spec

-----------------------------------------------------------------------------
(* Time limits.                                                            *)

\* A thread is given up only while it waits for its own DMA, and then everything stops.
LEMMA HungWaitsKept == HungWaits /\ [Next]_vars => HungWaits'
<1> SUFFICES ASSUME HungWaits, [Next]_vars PROVE HungWaits'
  OBVIOUS
<1>1. CASE UNCHANGED vars
  BY <1>1 DEF vars, HungWaits, Timed
<1>2. ASSUME Next, NEW t \in Threads, CheckExceeds(t) PROVE HungWaits'
  BY <1>2 DEF Next, CheckExceeds, HungWaits, Timed
<1>3. CASE Next /\ hung' = hung
  BY <1>3 DEF Next, HungWaits
<1>4. Next => hung' = hung \/ \E t \in Threads : CheckExceeds(t)
  BY DEF Next, RuntimeStep, UserStep, NspContextInit, ProgramDescInit, PublishInits, WaitForInits,
     UdmaContextInit, HostDoorbellSeen, DmaDoneSeen, CleanupDone, ExitDoorbellSeen, SubmitDma,
     WaitForBuffer, WaitForDma, RegisterExitFunc, Exit, ReturnFromActivate, CheckSeesExit, FinishDma,
     RingHostDoorbell, RingExitDoorbell
<1> QED
  BY <1>1, <1>2, <1>3, <1>4

\* However long the host takes, no thread is given up for waiting for it (os_common.cpp:75-78).
THEOREM HostMayTakeItsTimeAlways == Spec => []HostMayTakeItsTime
<1>1. Init => HungWaits
  BY DEF Init, HungWaits
<1>2. HungWaits => HostMayTakeItsTime
  BY DEF HungWaits, HostMayTakeItsTime, Timed
<1> QED
  BY <1>1, <1>2, HungWaitsKept, PTL DEF Spec

-----------------------------------------------------------------------------
(* Cleanup.                                                                *)

\* While the last descriptor's data is unfinished, so is the local doorbell behind it.
LEMMA FinishedWellOrdered ==
  ASSUME NEW queue \in Seq(Descriptors), NEW last, WellOrdered(queue, last),
         NEW i \in 1 .. Len(queue), CanFinish(queue, i)
  PROVE  WellOrdered(Finished(queue, i), last)
<1> DEFINE rest == Finished(queue, i)
<1>1. /\ Len(queue) \in Nat /\ Len(rest) = Len(queue) - 1
      /\ \A j \in 1 .. Len(queue) - 1 : rest[j] = IF j < i THEN queue[j] ELSE queue[j + 1]
  BY FinishedFacts
<1> HIDE DEF rest
<1> SUFFICES ASSUME NEW p \in 1 .. Len(rest), rest[p].kind = "payload"
             PROVE  /\ \E j \in p + 1 .. Len(rest) : Ordered(rest[j].kind)
                    /\ rest[Len(rest)] = last
  BY DEF WellOrdered, rest
<1> DEFINE q == IF p < i THEN p ELSE p + 1
<1>2. q \in 1 .. Len(queue) /\ queue[q].kind = "payload"
  BY <1>1
<1>3. PICK j \in q + 1 .. Len(queue) : Ordered(queue[j].kind)
  BY <1>2 DEF WellOrdered
<1>4. j > i
  <2> SUFFICES ASSUME j \in 2 .. i PROVE FALSE
    BY <1>1, <1>2, <1>3
  <2> QED
    BY <1>3 DEF CanFinish
<1>5. j - 1 \in p + 1 .. Len(rest) /\ rest[j - 1] = queue[j]
  BY <1>1, <1>3, <1>4
<1>6. rest[Len(rest)] = queue[Len(queue)]
  BY <1>1, <1>3, <1>4
<1>7. queue[Len(queue)] = last
  BY <1>2 DEF WellOrdered
<1> QED
  BY <1>3, <1>5, <1>6, <1>7

\* After a broadcast is submitted its last descriptor is the tail.
LEMMA SubmittedWellOrdered ==
  ASSUME NEW queue \in Seq(Descriptors), NEW id \in Nat,
         NEW kinds \in {<<"payload", "local">>, <<"payload", "local", "global">>}
  PROVE  WellOrdered(queue \o Submitted(kinds, id), Submitted(kinds, id)[Len(Submitted(kinds, id))])
<1> DEFINE descs == Submitted(kinds, id)
           all == queue \o descs
<1>1. /\ descs \in Seq(Descriptors) /\ Len(descs) \in {2, 3} /\ descs[2].kind = "local"
      /\ \A i \in 1 .. Len(descs) : i /= 1 => descs[i].kind /= "payload"
  BY SubmittedFacts
<1> HIDE DEF descs
<1>2. /\ Len(all) = Len(queue) + Len(descs)
      /\ \A i \in 1 .. Len(descs) : all[Len(queue) + i] = descs[i]
      /\ Len(queue) \in Nat /\ Len(descs) \in Nat
  BY <1>1
<1> HIDE DEF all
<1>3. Len(descs) \in 1 .. Len(descs) /\ 2 \in 1 .. Len(descs)
  BY <1>1, <1>2
<1>4. all[Len(all)] = descs[Len(descs)] /\ all[Len(queue) + 2].kind = "local"
  BY <1>1, <1>2, <1>3
<1>5. ASSUME NEW p \in 1 .. Len(all), all[p].kind = "payload"
      PROVE  p \in 1 .. Len(queue) + 1
  <2>1. CASE p > Len(queue) + 1
    <3>1. p - Len(queue) \in 1 .. Len(descs) /\ p - Len(queue) /= 1
      BY <2>1, <1>2
    <3>2. all[Len(queue) + (p - Len(queue))] = descs[p - Len(queue)]
      BY <3>1, <1>2
    <3>3. all[p] = descs[p - Len(queue)]
      BY <3>2, <1>2
    <3> QED
      BY <3>1, <3>3, <1>1, <1>5
  <2> QED
    BY <2>1, <1>2
<1>6. ASSUME NEW p \in 1 .. Len(all), all[p].kind = "payload"
      PROVE  \E j \in p + 1 .. Len(all) : Ordered(all[j].kind)
  <2>1. Len(queue) + 2 \in p + 1 .. Len(all)
    BY <1>5, <1>6, <1>2, <1>3
  <2> QED
    BY <2>1, <1>4 DEF Ordered
<1> QED
  BY <1>4, <1>6 DEF WellOrdered, all, descs

\* What is well ordered and has lost its last descriptor has no data in it.
LEMMA LastIsEnough ==
  ASSUME NEW queue \in Seq(Descriptors), NEW last, WellOrdered(queue, last),
         \A i \in 1 .. Len(queue) : queue[i] /= last
  PROVE  \A i \in 1 .. Len(queue) : queue[i].kind /= "payload"
<1> SUFFICES ASSUME NEW i \in 1 .. Len(queue), queue[i].kind = "payload" PROVE FALSE
  OBVIOUS
<1>1. queue[Len(queue)] = last
  BY DEF WellOrdered
<1>2. Len(queue) \in 1 .. Len(queue)
  OBVIOUS
<1> QED
  BY <1>1, <1>2

NoPayload(queue) == \A i \in 1 .. Len(queue) : queue[i].kind /= "payload"

\* A descriptor that finishes brings no new one.
LEMMA FinishedNoPayload ==
  ASSUME NEW queue \in Seq(Descriptors), NoPayload(queue), NEW i \in 1 .. Len(queue)
  PROVE  NoPayload(Finished(queue, i))
<1> DEFINE rest == Finished(queue, i)
<1>1. /\ Len(queue) \in Nat /\ Len(rest) = Len(queue) - 1
      /\ \A j \in 1 .. Len(queue) - 1 : rest[j] = IF j < i THEN queue[j] ELSE queue[j + 1]
  BY FinishedFacts
<1> HIDE DEF rest
<1>2. \A j \in 1 .. Len(rest) : rest[j].kind /= "payload"
  BY <1>1 DEF NoPayload
<1> QED
  BY <1>2 DEF NoPayload, rest

\* One thread's list, as its cleanup relies on it.
ListFits(t) ==
  /\ WellOrdered(dma[t], tail[t])
  /\ pc[t] = "cleanup" => waitOn[t] = tail[t]
  /\ pc[t] = "exitwait" => NoPayload(dma[t])
CInv == \A t \in Threads : ListFits(t)

\* Steps that touch no list and do not start or end a cleanup.
LEMMA QuietKeeps ==
  ASSUME TypeOK, CInv, UNCHANGED <<dma, tail>>,
         \A s \in Threads : \/ pc'[s] = pc[s] /\ waitOn'[s] = waitOn[s]
                           \/ pc'[s] \notin {"cleanup", "exitwait"}
  PROVE  CInv'
  BY DEF CInv, ListFits, WellOrdered, NoPayload

\* Lists stay in order, and a thread whose cleanup is over has no data left.
LEMMA CInvKept == TypeOK /\ CInv /\ [Next]_vars => CInv'
<1> SUFFICES ASSUME TypeOK, CInv, [Next]_vars PROVE CInv'
  OBVIOUS
<1>0. /\ pc \in [Threads -> PCs] /\ waitOn \in [Threads -> Descriptors] /\ 0 \in Threads
      /\ tail \in [Threads -> Descriptors] /\ dma \in [Threads -> Seq(Descriptors)]
  BY ThreadsAssumption DEF TypeOK, Threads
<1>1. CASE NspContextInit \/ ProgramDescInit \/ PublishInits
  BY <1>0, <1>1, QuietKeeps DEF NspContextInit, ProgramDescInit, PublishInits, Goto
<1>2. CASE RingExitDoorbell \/ UNCHANGED vars
  BY <1>2, QuietKeeps DEF RingExitDoorbell, vars
<1>3. ASSUME NEW t \in Threads,
             \/ WaitForInits(t) \/ WaitForBuffer(t) \/ WaitForDma(t) \/ Exit(t) \/ CheckSeesExit(t)
             \/ ExitDoorbellSeen(t) \/ HostDoorbellSeen(t) \/ DmaDoneSeen(t)
      PROVE  CInv'
  <2>1. UNCHANGED <<dma, tail>>
    BY <1>3 DEF WaitForInits, WaitForBuffer, WaitForDma, Exit, CheckSeesExit, ExitDoorbellSeen,
       HostDoorbellSeen, DmaDoneSeen
  <2>2. \E l \in {"inited", "hostwait", "dmawait", "exited", "user"} : pc' = [pc EXCEPT ![t] = l]
    BY <1>3 DEF WaitForInits, WaitForBuffer, WaitForDma, Exit, CheckSeesExit, ExitDoorbellSeen,
       HostDoorbellSeen, DmaDoneSeen, Goto, Leave
  <2>3. \A s \in Threads : s /= t => waitOn'[s] = waitOn[s]
    BY <1>0, <1>3 DEF WaitForInits, WaitForBuffer, WaitForDma, Exit, CheckSeesExit, ExitDoorbellSeen,
       HostDoorbellSeen, DmaDoneSeen, EndWait, Leave
  <2>4. pc'[t] \notin {"cleanup", "exitwait"} /\ \A s \in Threads : s /= t => pc'[s] = pc[s]
    BY <1>0, <2>2
  <2> QED
    BY <2>1, <2>3, <2>4, QuietKeeps
<1>4. ASSUME NEW t \in Threads, RegisterExitFunc(t) \/ CheckExceeds(t) \/ RingHostDoorbell(t) PROVE CInv'
  BY <1>4, QuietKeeps DEF RegisterExitFunc, CheckExceeds, RingHostDoorbell
<1>5. ASSUME NEW t \in Threads, UdmaContextInit(t) PROVE CInv'
  <2>1. dma'[t] = <<>> /\ pc'[t] = "user"
    BY <1>0, <1>5 DEF UdmaContextInit, Goto
  <2>2. \A s \in Threads : s /= t => dma'[s] = dma[s] /\ tail'[s] = tail[s] /\ pc'[s] = pc[s]
                                   /\ waitOn'[s] = waitOn[s]
    BY <1>0, <1>5 DEF UdmaContextInit, Goto
  <2> QED
    BY <2>1, <2>2 DEF CInv, ListFits, WellOrdered, NoPayload
<1>6. ASSUME NEW t \in Threads, SubmitDma(t) PROVE CInv'
  <2>1. PICK kinds \in {<<"payload", "local">>, <<"payload", "local", "global">>} :
          LET descs == Submitted(kinds, tail[t].id + 1)
          IN  /\ dma' = [dma EXCEPT ![t] = @ \o descs]
              /\ tail' = [tail EXCEPT ![t] = descs[Len(descs)]]
    BY <1>6 DEF SubmitDma, Submitted
  <2>2. tail[t].id + 1 \in Nat /\ dma[t] \in Seq(Descriptors)
    <3>1. tail[t] \in Descriptors /\ dma[t] \in Seq(Descriptors)
      BY <1>0
    <3>2. tail[t].id \in Nat
      BY <3>1 DEF Descriptors
    <3> QED
      BY <3>1, <3>2
  <2>3. WellOrdered(dma'[t], tail'[t])
    BY <1>0, <2>1, <2>2, SubmittedWellOrdered
  <2>4. pc[t] = "user" /\ UNCHANGED <<pc, waitOn>>
    BY <1>6 DEF SubmitDma
  <2>5. \A s \in Threads : s /= t => dma'[s] = dma[s] /\ tail'[s] = tail[s]
    BY <1>0, <2>1
  <2> QED
    BY <2>3, <2>4, <2>5 DEF CInv, ListFits
<1>7. ASSUME NEW t \in Threads, ReturnFromActivate(t) PROVE CInv'
  <2>1. pc'[t] = "cleanup" /\ waitOn'[t] = tail'[t] /\ UNCHANGED <<dma, tail>>
    BY <1>0, <1>7 DEF ReturnFromActivate, Goto
  <2>2. \A s \in Threads : s /= t => pc'[s] = pc[s] /\ waitOn'[s] = waitOn[s]
    BY <1>0, <1>7 DEF ReturnFromActivate, Goto
  <2> QED
    BY <2>1, <2>2 DEF CInv, ListFits, WellOrdered, NoPayload
<1>8. ASSUME NEW t \in Threads, CleanupDone(t) PROVE CInv'
  <2>1. pc[t] = "cleanup" /\ pc'[t] = "exitwait" /\ UNCHANGED <<dma, tail>>
    BY <1>0, <1>8 DEF CleanupDone, Goto
  <2>2. \A s \in Threads : s /= t => pc'[s] = pc[s] /\ waitOn'[s] = waitOn[s]
    BY <1>0, <1>8 DEF CleanupDone, EndWait, Goto
  <2>3. WellOrdered(dma[t], tail[t]) /\ waitOn[t] = tail[t]
    BY <2>1 DEF CInv, ListFits
  <2>4. \A i \in 1 .. Len(dma[t]) : dma[t][i] /= tail[t]
    BY <1>8, <2>3 DEF CleanupDone, Done
  <2>5. NoPayload(dma[t])
    BY <1>0, <2>3, <2>4, LastIsEnough DEF NoPayload
  <2> QED
    BY <2>1, <2>2, <2>5 DEF CInv, ListFits, WellOrdered, NoPayload
<1>9. ASSUME NEW t \in Threads, FinishDma(t) PROVE CInv'
  <2>1. PICK i \in 1 .. Len(dma[t]) : CanFinish(dma[t], i) /\ dma' = [dma EXCEPT ![t] = Finished(@, i)]
    BY <1>9 DEF FinishDma
  <2>2. UNCHANGED <<pc, tail, waitOn>>
    BY <1>9 DEF FinishDma
  <2>3. dma'[t] = Finished(dma[t], i) /\ \A s \in Threads : s /= t => dma'[s] = dma[s]
    BY <1>0, <2>1
  <2>4. WellOrdered(dma'[t], tail[t])
    BY <1>0, <2>1, <2>3, FinishedWellOrdered DEF CInv, ListFits
  <2>5. NoPayload(dma[t]) => NoPayload(dma'[t])
    BY <1>0, <2>1, <2>3, FinishedNoPayload
  <2> QED
    BY <2>2, <2>3, <2>4, <2>5 DEF CInv, ListFits
<1> QED
  BY <1>1, <1>2, <1>3, <1>4, <1>5, <1>6, <1>7, <1>8, <1>9 DEF Next, RuntimeStep, UserStep

\* A thread that waits for the exit doorbell has no data left to move, though it waited only for the
\* last descriptor of its list (NSPContext.cpp:84, libdev_udma.cpp:49-57).
THEOREM CleanupFinishesPayloadsAlways == Spec => []CleanupFinishesPayloads
<1>1. Init => CInv
  <2>1. Init => \A t \in Threads : dma[t] = <<>> /\ pc[t] = "start"
    BY DEF Init
  <2> QED
    BY <2>1 DEF CInv, ListFits, WellOrdered
<1>2. CInv => CleanupFinishesPayloads
  BY DEF CInv, ListFits, NoPayload, CleanupFinishesPayloads
<1> QED
  BY <1>1, <1>2, InitTypeOK, TypeKept, CInvKept, PTL DEF Spec
=============================================================================
