-------------------------- MODULE ThreadLifecycle ---------------------------
(***************************************************************************)
(* The threads of one NSP from _qaic_start to exitThread.                  *)
(*                                                                         *)
(* Thread 0 fills in the context the threads share and publishes it with   *)
(* _initsDone; every thread then sets up its descriptor ring and runs the  *)
(* user's activate.  The user program is any sequence of DMA submissions,  *)
(* waits for its own DMAs, waits for host doorbells, registerExitFunc,     *)
(* qaic::exit and return.  A waiting thread polls, and now and then runs   *)
(* os_timeout_check, which looks at the exit doorbell and at the time.     *)
(*                                                                         *)
(* ERR_FATAL hands the NSP to the firmware's error handler, which does not *)
(* return (os_common.cpp:109): no thread takes a step after it.            *)
(***************************************************************************)
EXTENDS Integers, Sequences, DmaOrder

CONSTANTS
  NumThreads,    \* threads of the program
  HangLimit,     \* waitExceededCountLimit: 10 in the code
  MaxDmas,       \* bound: thread t copies to buffers MaxDmas[t] times
  MaxDoorbells   \* bound: doorbells the host rings for a thread

Threads == 0 .. NumThreads - 1

ASSUME ThreadsAssumption == NumThreads \in Nat \ {0}
ASSUME DmasAssumption    == MaxDmas \in [Threads -> Nat]
ASSUME LimitsAssumption  == HangLimit \in Nat \ {0} /\ MaxDoorbells \in Nat

VARIABLES
  versionOk,  \* the serialized program description has the version expected
  ctxInit,    \* NSPContext is filled in
  descInit,   \* _progDesc and _progBuffers are set
  initsDone,  \* _initsDone
  exitFn,     \* NSPContext.exitThread: "none", "qctx" or "registered"
  exitDB,     \* the exit doorbell
  fatal,      \* what called ERR_FATAL: "none", "version" or "hang"
  hung,       \* the threads the timeout check gave up on
  pc,         \* pc[t]: where thread t is
  dma,        \* dma[t]: unfinished DMA descriptors of t, in the order of its list
  tail,       \* dmaTail[t]: the descriptor t has submitted last, or the dummy
  waitOn,     \* waitOn[t]: the descriptor os_udma_wait_done of t is about
  host,       \* host[t]: doorbells rung for t that t has not waited for yet
  rung,       \* rung[t]: doorbells the host has rung for t
  exceeded    \* exceeded[t]: waitExceededCount of the wait t is in

initVars == <<versionOk, ctxInit, descInit, initsDone>>
vars == <<initVars, exitFn, exitDB, fatal, hung, pc, dma, tail, waitOn, host, rung,
          exceeded>>

(***************************************************************************)
(* pc: "start"     entered _qaic_start                                     *)
(*     "context"   thread 0 has run _nspContextInit                        *)
(*     "desc"      thread 0 has run _programDescInit                       *)
(*     "inited"    the initialisation is done; next _udmaContextInit       *)
(*     "user"      in activate                                             *)
(*     "hostwait"  in waitForBuffer                                        *)
(*     "dmawait"   in os_udma_wait_done, called from the user program      *)
(*     "cleanup"   in os_udma_wait_done, called from _udmaContextCleanup   *)
(*     "exitwait"  waiting for the exit doorbell                           *)
(*     "exited"                                                            *)
(***************************************************************************)
PCs == {"start", "context", "desc", "inited", "user", "hostwait", "dmawait",
        "cleanup", "exitwait", "exited"}

Descriptors == [id : Nat, kind : Kinds]

\* The dummy start descriptor, done from the beginning.
DummyDesc == [id |-> 0, kind |-> "payload"]

TypeOK ==
  /\ versionOk \in BOOLEAN
  /\ ctxInit \in BOOLEAN /\ descInit \in BOOLEAN /\ initsDone \in BOOLEAN
  /\ exitFn \in {"none", "qctx", "registered"}
  /\ exitDB \in {0, 1}
  /\ fatal \in {"none", "version", "hang"}
  /\ hung \in SUBSET Threads
  /\ pc \in [Threads -> PCs]
  /\ dma \in [Threads -> Seq(Descriptors)]
  /\ tail \in [Threads -> Descriptors]
  /\ waitOn \in [Threads -> Descriptors]
  /\ host \in [Threads -> Nat]
  /\ rung \in [Threads -> Nat]
  /\ exceeded \in [Threads -> Nat]

Init ==
  /\ versionOk \in BOOLEAN
  /\ ctxInit = FALSE /\ descInit = FALSE /\ initsDone = FALSE
  /\ exitFn = "none"
  /\ exitDB = 0
  /\ fatal = "none"
  /\ hung = {}
  /\ pc = [t \in Threads |-> "start"]
  /\ dma = [t \in Threads |-> <<>>]
  /\ tail = [t \in Threads |-> DummyDesc]
  /\ waitOn = [t \in Threads |-> DummyDesc]
  /\ host = [t \in Threads |-> 0]
  /\ rung = [t \in Threads |-> 0]
  /\ exceeded = [t \in Threads |-> 0]

Goto(t, from, to) == pc[t] = from /\ pc' = [pc EXCEPT ![t] = to]

-----------------------------------------------------------------------------
(* Start of a thread *)

NspContextInit ==
  /\ Goto(0, "start", "context")
  /\ ctxInit' = TRUE
  /\ exitFn' = "qctx"
  /\ UNCHANGED <<versionOk, descInit, initsDone, exitDB, fatal, hung, dma, tail, waitOn, host, rung,
                 exceeded>>

\* A description of another version is fatal, before any other thread starts.
ProgramDescInit ==
  /\ Goto(0, "context", "desc")
  /\ IF versionOk THEN descInit' = TRUE /\ fatal' = fatal
                  ELSE descInit' = descInit /\ fatal' = "version"
  /\ UNCHANGED <<versionOk, ctxInit, initsDone, exitFn, exitDB, hung, dma, tail, waitOn, host, rung,
                 exceeded>>

PublishInits ==
  /\ Goto(0, "desc", "inited")
  /\ initsDone' = TRUE
  /\ UNCHANGED <<versionOk, ctxInit, descInit, exitFn, exitDB, fatal, hung, dma, tail, waitOn, host,
                 rung, exceeded>>

\* Mutant: the other threads do not wait.
SkipWaitForInits(t) ==
  /\ t # 0
  /\ Goto(t, "start", "inited")
  /\ UNCHANGED <<initVars, exitFn, exitDB, fatal, hung, dma, tail, waitOn, host, rung, exceeded>>

\* The other threads spin on _initsDone.
WaitForInits(t) ==
  /\ t # 0
  /\ initsDone
  /\ Goto(t, "start", "inited")
  /\ UNCHANGED <<initVars, exitFn, exitDB, fatal, hung, dma, tail, waitOn, host, rung, exceeded>>

\* logActivate, _udmaContextInit (every descriptor done, dmaTail on the dummy), activate.
UdmaContextInit(t) ==
  /\ Goto(t, "inited", "user")
  /\ dma' = [dma EXCEPT ![t] = <<>>]
  /\ tail' = [tail EXCEPT ![t] = DummyDesc]
  /\ UNCHANGED <<initVars, exitFn, exitDB, fatal, hung, waitOn, host, rung, exceeded>>

-----------------------------------------------------------------------------
(* The user program *)

\* The done bit of descriptor d of t.
Done(t, d) == \A i \in 1 .. Len(dma[t]) : dma[t][i] # d

\* broadcastToBuffer: a copy within the NSP is a payload and a local doorbell, one to
\* other NSPs is followed by their doorbell too.  dmaTail becomes the last descriptor.
SubmitDma(t) ==
  /\ pc[t] = "user"
  /\ tail[t].id < MaxDmas[t]
  /\ \E kinds \in {<<"payload", "local">>, <<"payload", "local", "global">>} :
       LET descs == [i \in 1 .. Len(kinds) |-> [id |-> tail[t].id + 1, kind |-> kinds[i]]]
       IN  /\ dma' = [dma EXCEPT ![t] = @ \o descs]
           /\ tail' = [tail EXCEPT ![t] = descs[Len(descs)]]
  /\ UNCHANGED <<initVars, exitFn, exitDB, fatal, hung, pc, waitOn, host, rung, exceeded>>

\* os_doorbell_wait is entered, with a timeout context of its own.
WaitForBuffer(t) ==
  /\ Goto(t, "user", "hostwait")
  /\ UNCHANGED <<initVars, exitFn, exitDB, fatal, hung, dma, tail, waitOn, host, rung, exceeded>>

\* getNextFreeDMADesc waits for the descriptor it is about to reuse if that is still in
\* use: the oldest of the list, as the earlier ones have been reused already.
WaitForDma(t) ==
  /\ Goto(t, "user", "dmawait")
  /\ dma[t] # <<>>
  /\ waitOn' = [waitOn EXCEPT ![t] = Head(dma[t])]
  /\ UNCHANGED <<initVars, exitFn, exitDB, fatal, hung, dma, tail, host, rung, exceeded>>

RegisterExitFunc(t) ==
  /\ pc[t] = "user"
  /\ exitFn' = "registered"
  /\ UNCHANGED <<initVars, exitDB, fatal, hung, pc, dma, tail, waitOn, host, rung, exceeded>>

\* Thread t calls its exit function, registered or not.
Leave(t) ==
  /\ pc' = [pc EXCEPT ![t] = "exited"]
  /\ waitOn' = [waitOn EXCEPT ![t] = DummyDesc]
  /\ exceeded' = [exceeded EXCEPT ![t] = 0]

\* qaic::exit.
Exit(t) ==
  /\ pc[t] = "user"
  /\ Leave(t)
  /\ UNCHANGED <<initVars, exitFn, exitDB, fatal, hung, dma, tail, host, rung>>

\* activate returns; _udmaContextCleanup starts to wait for the tail.
ReturnFromActivate(t) ==
  /\ Goto(t, "user", "cleanup")
  /\ waitOn' = [waitOn EXCEPT ![t] = tail[t]]
  /\ UNCHANGED <<initVars, exitFn, exitDB, fatal, hung, dma, tail, host, rung, exceeded>>

-----------------------------------------------------------------------------
(* Waiting *)

\* The wait returns and its local state is gone.
EndWait(t) ==
  /\ waitOn' = [waitOn EXCEPT ![t] = DummyDesc]
  /\ exceeded' = [exceeded EXCEPT ![t] = 0]

\* Mutant: the wait returns before the doorbell is rung.
HostDoorbellAssumed(t) ==
  /\ Goto(t, "hostwait", "user")
  /\ host' = [host EXCEPT ![t] = @ - 1]
  /\ UNCHANGED <<initVars, exitFn, exitDB, fatal, hung, dma, tail, waitOn, rung, exceeded>>

HostDoorbellSeen(t) ==
  /\ host[t] > 0
  /\ Goto(t, "hostwait", "user")
  /\ host' = [host EXCEPT ![t] = @ - 1]
  /\ UNCHANGED <<initVars, exitFn, exitDB, fatal, hung, dma, tail, waitOn, rung, exceeded>>

DmaDoneSeen(t) ==
  /\ Done(t, waitOn[t])
  /\ Goto(t, "dmawait", "user")
  /\ EndWait(t)
  /\ UNCHANGED <<initVars, exitFn, exitDB, fatal, hung, dma, tail, host, rung>>

\* Mutant: cleanup does not wait.
CleanupSkipsWait(t) ==
  /\ Goto(t, "cleanup", "exitwait")
  /\ EndWait(t)
  /\ UNCHANGED <<initVars, exitFn, exitDB, fatal, hung, dma, tail, host, rung>>

\* _udmaContextCleanup returns: the last submitted descriptor is done.  logDeactivate.
CleanupDone(t) ==
  /\ Done(t, waitOn[t])
  /\ Goto(t, "cleanup", "exitwait")
  /\ EndWait(t)
  /\ UNCHANGED <<initVars, exitFn, exitDB, fatal, hung, dma, tail, host, rung>>

Waiting(t) == pc[t] \in {"hostwait", "dmawait", "cleanup"}

\* Mutant: the wait for the host is timed as well.
TimedAlways(t) == TRUE

\* doTimeoutCheck: waits for the host are not timed.
Timed(t) == pc[t] \in {"dmawait", "cleanup"}

\* Mutant: the exit doorbell is looked at only when the wait is timed.
CheckSeesExitIfTimed(t) ==
  /\ Timed(t)
  /\ exitDB = 1
  /\ exitFn # "none"
  /\ Leave(t)
  /\ UNCHANGED <<initVars, exitFn, exitDB, fatal, hung, dma, tail, host, rung>>

\* os_timeout_check of a thread that found its word not set yet, exit doorbell rung.
CheckSeesExit(t) ==
  /\ Waiting(t)
  /\ exitDB = 1
  /\ exitFn # "none"
  /\ Leave(t)
  /\ UNCHANGED <<initVars, exitFn, exitDB, fatal, hung, dma, tail, host, rung>>

\* os_timeout_check, exit doorbell not rung, the time limit of this round exceeded.  At
\* the HangLimit-th time the hang is reported and the NSP stopped.
CheckExceeds(t) ==
  /\ Waiting(t)
  /\ Timed(t)
  /\ exitDB # 1
  /\ exceeded' = [exceeded EXCEPT ![t] = @ + 1]
  /\ IF exceeded[t] + 1 = HangLimit
       THEN fatal' = "hang" /\ hung' = hung \union {t}
       ELSE UNCHANGED <<fatal, hung>>
  /\ UNCHANGED <<initVars, exitFn, exitDB, pc, dma, tail, waitOn, host, rung>>

\* The last loop of _qaic_start: any nonzero exit doorbell, then qctx->exitThread.
ExitDoorbellSeen(t) ==
  /\ pc[t] = "exitwait"
  /\ exitDB # 0
  /\ Leave(t)
  /\ UNCHANGED <<initVars, exitFn, exitDB, fatal, hung, dma, tail, host, rung>>

-----------------------------------------------------------------------------
(* The DMA engine of each thread, and the host *)

FinishDma(t) ==
  /\ \E i \in 1 .. Len(dma[t]) :
       /\ CanFinish(dma[t], i)
       /\ dma' = [dma EXCEPT ![t] = Finished(@, i)]
  /\ UNCHANGED <<initVars, exitFn, exitDB, fatal, hung, pc, tail, waitOn, host, rung, exceeded>>

RingHostDoorbell(t) ==
  /\ rung[t] < MaxDoorbells
  /\ exitDB = 0
  /\ host' = [host EXCEPT ![t] = @ + 1]
  /\ rung' = [rung EXCEPT ![t] = @ + 1]
  /\ UNCHANGED <<initVars, exitFn, exitDB, fatal, hung, pc, dma, tail, waitOn, exceeded>>

RingExitDoorbell ==
  /\ exitDB = 0
  /\ exitDB' = 1
  /\ UNCHANGED <<initVars, exitFn, fatal, hung, pc, dma, tail, waitOn, host, rung, exceeded>>

\* What the runtime does on its own; UserStep is what the program chooses.
RuntimeStep(t) ==
  \/ t = 0 /\ (NspContextInit \/ ProgramDescInit \/ PublishInits)
  \/ WaitForInits(t) \/ UdmaContextInit(t)
  \/ HostDoorbellSeen(t) \/ DmaDoneSeen(t) \/ CleanupDone(t)
  \/ ExitDoorbellSeen(t)

UserStep(t) ==
  \/ SubmitDma(t) \/ WaitForBuffer(t) \/ WaitForDma(t) \/ RegisterExitFunc(t)
  \/ Exit(t) \/ ReturnFromActivate(t)

Next ==
  /\ fatal = "none"
  /\ \/ \E t \in Threads :
          \/ RuntimeStep(t) \/ UserStep(t) \/ CheckSeesExit(t) \/ CheckExceeds(t)
          \/ FinishDma(t) \/ RingHostDoorbell(t)
     \/ RingExitDoorbell

Spec == Init /\ [][Next]_vars

(***************************************************************************)
(* Fairness.  The threads are hardware threads and the DMA engines work on *)
(* their lists; a wait that goes on reaches os_timeout_check again and     *)
(* again (every timeoutCheckIter rounds).  The program is assumed to go on *)
(* to its next wait, exit or return; the host need not do anything.        *)
(***************************************************************************)
FairSpec ==
  /\ Spec
  /\ \A t \in Threads :
       /\ WF_vars(fatal = "none" /\ RuntimeStep(t))
       /\ WF_vars(fatal = "none" /\ UserStep(t))
       /\ WF_vars(fatal = "none" /\ CheckSeesExit(t))
       /\ WF_vars(fatal = "none" /\ FinishDma(t))

-----------------------------------------------------------------------------
\* No thread runs user code, or touches its descriptor ring, before thread 0 has filled
\* in the context and the program description (_qaic_start.cpp:22-28).
InitBeforeUse ==
  \A t \in Threads : pc[t] \notin {"start", "context", "desc"} => ctxInit /\ descInit

\* A thread that waits for the exit doorbell has no data left to move, though it waited
\* only for the last descriptor of its list.
CleanupFinishesPayloads ==
  \A t \in Threads : pc[t] = "exitwait" =>
    \A i \in 1 .. Len(dma[t]) : dma[t][i].kind # "payload"

\* However long the host takes, no thread is given up for waiting for it: the time limit
\* applies to waits for the thread's own DMAs (os_common.cpp:75-78).
HostMayTakeItsTime ==
  \A t \in Threads : t \in hung => pc[t] \in {"dmawait", "cleanup"}

\* The exit doorbell ends every thread, wherever it is, unless a fatal error ended the
\* NSP first (AICMetadata.h:411-413).
ExitDoorbellEndsThreads ==
  exitDB = 1 ~> fatal # "none" \/ \A t \in Threads : pc[t] = "exited"

\* Cleanup makes sure that the DMAs of the thread are finished (_qaic_start.cpp:42).
\* Does not hold: only the data is sure to be there.
CleanupFinishesDmas == \A t \in Threads : pc[t] = "exitwait" => dma[t] = <<>>

=============================================================================
