--------------------------- MODULE ProgramLayout ---------------------------
(***************************************************************************)
(* ComputeProgram::generateMetadata: from a config file to the multicast   *)
(* entries, DMA requests, L2TCM init words and memory sizes that the       *)
(* firmware gets, and the program descriptor that the runtime reads.       *)
(*                                                                         *)
(* Buffers are processed one by one - inputs, outputs, internal buffers -  *)
(* and each takes numbers from several counters at once: the multicast     *)
(* entry, the doorbell, the place in the descriptor and the request.  The  *)
(* properties say that the host, the generator's other output and the      *)
(* runtime's lookup (BufferDesc.cpp) mean the same buffer by them.         *)
(***************************************************************************)
EXTENDS Integers, Sequences, FiniteSets

CONSTANTS
  Configs,         \* the configs to lay out
  MaxCores,        \* 16 in the code
  MaxThreads,      \* 6
  DefaultThreads,  \* 4
  MaxDoorbells,    \* 280: doorbells of buffers; the exit doorbell is the next
  DbSize,          \* 4 bytes
  DescSize,        \* sizeof(DMADescriptor): 16 bytes
  LineSize,        \* CACHE_LINE_SIZE: 128 bytes
  LinesPerThread,  \* NUM_UDMA_CACHELINES_PER_THREAD: 2
  PageSize,        \* 4096 bytes
  L2tcmMax,        \* 1 MB
  VtcmMax          \* 8 MB

ASSUME SizeAssumption ==
  /\ {MaxCores, MaxThreads, DefaultThreads, DbSize, DescSize, LineSize, PageSize} \subseteq Nat \ {0}
  /\ {LinesPerThread, MaxDoorbells, L2tcmMax, VtcmMax} \subseteq Nat
\* A descriptor has a word with its done bit and fits in a line, and a thread has a line.
ASSUME DescriptorAssumption ==
  2 * DbSize <= DescSize /\ DescSize <= LineSize /\ LinesPerThread >= 1

Dests == {"L2TCM", "VTCM", "DDR"}
Usages == {"input", "output", "internal"}

\* What a config says of a buffer; size stands for its dims and type.
Buffer == [dest : Dests, dev : Nat, base : Nat, size : Nat, nsps : SUBSET Nat,
           noDoorbell : BOOLEAN, allowPartial : BOOLEAN, fences : Nat \X Nat]

ASSUME ConfigAssumption ==
  \A c \in Configs :
    /\ c.numNsps \in Nat /\ c.numThreads \in Nat /\ c.numHmxThreads \in Nat
    /\ \A list \in {c.inputs, c.outputs, c.internals} : list \in Seq(Buffer)

VARIABLES
  config,    \* the config file
  pc,        \* "start", "buffers", "done", or "rejected": exit(-1) or an assertion
  mcId,      \* mcId, the next multicast entry
  dbNum,     \* DBNum, the next doorbell
  hostMc,    \* the host's multicast entries, numbered from 0
  nspMc,     \* nspMc[c]: the multicast entries of core c, numbered from 0
  requests,  \* the DMA requests, in the order of their fileNum
  words,     \* the initialised words of L2TCM: offset -> value
  sizes,     \* l2tcmBuffersSize, vtcmBuffersSize, ddrBuffersSize
  buffers    \* ProgramDesc::buffers_

vars == <<config, pc, mcId, dbNum, hostMc, nspMc, requests, words, sizes, buffers>>

-----------------------------------------------------------------------------
AlignTo(x, m) == ((x + m - 1) \div m) * m
Larger(a, b) == IF a >= b THEN a ELSE b
IsMC(b) == b.dest # "DDR"

Cores == 0 .. config.numNsps - 1
NspMask(b) == IF b.nsps = {} THEN Cores ELSE b.nsps
NspsValid(b) == b.nsps \subseteq Cores

NumThreads == IF config.numThreads = 0 THEN DefaultThreads + config.numHmxThreads
                                       ELSE config.numThreads

\* Mutant: internal buffers are laid out before the outputs.
QueueInternalsEarly ==
  LET Tag(u, list) == [i \in DOMAIN list |-> [buff |-> list[i], usage |-> u, last |-> i = Len(list)]]
  IN  Tag("input", config.inputs) \o Tag("internal", config.internals) \o Tag("output", config.outputs)

\* The calls of processBuff.
Queue ==
  LET Tag(u, list) == [i \in DOMAIN list |-> [buff |-> list[i], usage |-> u, last |-> i = Len(list)]]
  IN  Tag("input", config.inputs) \o Tag("output", config.outputs) \o Tag("internal", config.internals)

NumDbs == 1 + Cardinality({i \in DOMAIN Queue : ~Queue[i].buff.noDoorbell})

\* The exit doorbell is the last one, wherever the buffers' end.
ExitDb == MaxDoorbells
DbSpaceSize == (MaxDoorbells + 1) * DbSize

\* L2TCM: doorbells, the dummy descriptor, the rings of descriptors, user data.
DummyOffset == AlignTo(DbSpaceSize, LineSize)
RingsOffset == AlignTo(DummyOffset + DescSize, LineSize)
RingsSize == NumThreads * LineSize * LinesPerThread
ReservedSize == DummyOffset + RingsSize

\* Mutant: only the first buffer of a direction counts.
MaskOfFirst(list) == IF list = <<>> THEN {} ELSE NspMask(list[1])

\* inMask and outMask.
MaskOf(list) == UNION {NspMask(list[i]) : i \in DOMAIN list}

\* The output semaphore starts at and returns to SemInit, the input one to 0;
\* output transfers wait for 0, input transfers for SemWait.
SemWait(u) == IF u = "input" THEN Cardinality(MaskOf(config.inputs)) ELSE 0
SemInit(u) == IF u = "input" THEN 0 ELSE Cardinality(MaskOf(config.outputs))

-----------------------------------------------------------------------------
Init ==
  /\ config \in Configs
  /\ pc = "start" /\ mcId = 0 /\ dbNum = 0
  /\ hostMc = <<>> /\ nspMc = [c \in Cores |-> <<>>] /\ requests = <<>>
  /\ words = [o \in {} |-> 0]
  /\ sizes = [L2TCM |-> 1, VTCM |-> 1, DDR |-> 0]
  /\ buffers = <<>>

\* Mutant: the number of doorbells is not checked.
ConfigAcceptedAnyDoorbells ==
  /\ config.hwVersion = <<2, 0>>
  /\ config.numNsps \in 1 .. MaxCores
  /\ config.numHmxThreads <= NumThreads /\ NumThreads <= MaxThreads
  /\ \A i \in DOMAIN config.inputs : NspsValid(config.inputs[i])
  /\ \A i \in DOMAIN config.outputs : NspsValid(config.outputs[i])

\* The checks before the first buffer.
ConfigAccepted ==
  /\ config.hwVersion = <<2, 0>>
  /\ config.numNsps \in 1 .. MaxCores
  /\ config.numHmxThreads <= NumThreads /\ NumThreads <= MaxThreads
  /\ NumDbs < MaxDoorbells + 1
  /\ \A i \in DOMAIN config.inputs : NspsValid(config.inputs[i])
  /\ \A i \in DOMAIN config.outputs : NspsValid(config.outputs[i])

\* Entry 0 is for doorbells: from the host to all NSPs, from each to the others.
\* The dummy descriptor is done: its done bit is in its second word.
ReserveL2tcm ==
  /\ pc = "start" /\ ConfigAccepted
  /\ hostMc' = <<[mask |-> Cores, size |-> DbSpaceSize]>>
  /\ nspMc' = [c \in Cores |-> <<[mask |-> Cores \ {c}, size |-> DbSpaceSize,
                                  space |-> "L2TCM", offset |-> 0]>>]
  /\ mcId' = 1
  /\ sizes' = [sizes EXCEPT !.L2TCM = Larger(@, ReservedSize)]
  /\ words' = [o \in {DummyOffset + i * DbSize : i \in 0 .. (DescSize \div DbSize) - 1}
                       \union {ExitDb * DbSize}
                |-> IF o = DummyOffset + DbSize THEN 1 ELSE 0]
  /\ pc' = "buffers"
  /\ UNCHANGED <<config, dbNum, requests, buffers>>

-----------------------------------------------------------------------------
Current == Queue[Len(buffers) + 1]

\* Mutant: the end of the buffer is compared with the reserved part, not its start.
PlacedWrongByEnd(b) ==
  CASE b.dest = "L2TCM" -> \/ Larger(sizes.L2TCM, b.base + b.dev + b.size) > L2tcmMax
                           \/ b.dev + b.size < ReservedSize
    [] b.dest = "VTCM"  -> Larger(sizes.VTCM, b.base + b.dev + b.size) > VtcmMax
    [] b.dest = "DDR"   -> b.base # 0

\* Where a buffer may not be.
PlacedWrong(b) ==
  CASE b.dest = "L2TCM" -> \/ Larger(sizes.L2TCM, b.base + b.dev + b.size) > L2tcmMax
                           \/ b.dev + b.base < ReservedSize
    [] b.dest = "VTCM"  -> Larger(sizes.VTCM, b.base + b.dev + b.size) > VtcmMax
    [] b.dest = "DDR"   -> b.base # 0

\* The other errors of processBuff.
Rejected(b, usage) ==
  \/ b.size = 0
  \/ ~NspsValid(b)
  \/ IsMC(b) /\ b.base % PageSize # 0
  \/ IsMC(b) /\ usage = "output" /\ config.numNsps # 1 /\ Cardinality(NspMask(b)) > 1
  \/ PlacedWrong(b)
  \/ usage # "internal" /\ ~(b.fences \in {0, 1} \X {0, 1})
  \/ usage # "input" /\ b.allowPartial

\* Every error ends the program.
Reject ==
  /\ \/ pc = "start" /\ ~ConfigAccepted
     \/ pc = "buffers" /\ Len(buffers) < Len(Queue) /\ Rejected(Current.buff, Current.usage)
  /\ pc' = "rejected"
  /\ UNCHANGED <<config, mcId, dbNum, hostMc, nspMc, requests, words, sizes, buffers>>

\* Mutant: the NSPs' entries start at the buffer, not at baseAddrOffset.
AddMulticastAtBuffer(b, usage) ==
  IF IsMC(b)
    THEN /\ hostMc' = IF usage = "internal" THEN hostMc
                      ELSE Append(hostMc, [mask |-> NspMask(b), size |-> b.size])
         /\ nspMc' = [c \in Cores |->
              Append(nspMc[c], [mask |-> IF usage = "internal" THEN NspMask(b) ELSE {},
                                size |-> b.size, space |-> b.dest, offset |-> b.base + b.dev])]
         /\ mcId' = mcId + 1
    ELSE UNCHANGED <<hostMc, nspMc, mcId>>

\* A buffer in the NSPs' memories gets a multicast entry in every NSP, and unless
\* it is internal in the host.  mcId counts the former.
AddMulticastEntries(b, usage) ==
  IF IsMC(b)
    THEN /\ hostMc' = IF usage = "internal" THEN hostMc
                      ELSE Append(hostMc, [mask |-> NspMask(b), size |-> b.size])
         /\ nspMc' = [c \in Cores |->
              Append(nspMc[c], [mask |-> IF usage = "internal" THEN NspMask(b) ELSE {},
                                size |-> b.size, space |-> b.dest, offset |-> b.base])]
         /\ mcId' = mcId + 1
    ELSE UNCHANGED <<hostMc, nspMc, mcId>>

\* The DMA request of an input or output.
Request(b, usage, last) ==
  [dir |-> usage, space |-> IF IsMC(b) THEN "MC" ELSE "DDR", dev |-> b.dev, size |-> b.size,
   mcId |-> IF IsMC(b) THEN mcId ELSE 0, wait |-> SemWait(usage), init |-> last,
   doorbell |-> dbNum * DbSize]

\* The buffer as ProgramDesc::addBuffer records it.
BufferDesc(b, usage, waitDBNum, buffMCID, mask) ==
  [location |-> b.dest, offset |-> b.dev + b.base, size |-> b.size, waitDBNum |-> waitDBNum,
   buffMCID |-> buffMCID, nspMask |-> mask, usage |-> usage, allowPartial |-> b.allowPartial]

ProcessBuff ==
  /\ pc = "buffers" /\ Len(buffers) < Len(Queue)
  /\ LET b == Current.buff
         usage == Current.usage
     IN  /\ ~Rejected(b, usage)
         /\ AddMulticastEntries(b, usage)
         /\ sizes' = [sizes EXCEPT ![b.dest] = Larger(@, b.base + b.dev + b.size)]
         /\ requests' = IF usage = "internal" THEN requests
                        ELSE Append(requests, Request(b, usage, Current.last))
         /\ words' = [o \in DOMAIN words \union {dbNum * DbSize} |->
              IF o # dbNum * DbSize THEN words[o] ELSE IF usage = "output" THEN 1 ELSE 0]
         /\ buffers' = Append(buffers, BufferDesc(b, usage, dbNum, IF IsMC(b) THEN mcId ELSE 0,
                                                  NspMask(b)))
  /\ dbNum' = dbNum + 1
  /\ UNCHANGED <<config, pc>>

\* The rings are one more internal buffer of the descriptor, without an entry.
AddUdmaBuffer ==
  /\ pc = "buffers" /\ Len(buffers) = Len(Queue)
  /\ buffers' = Append(buffers, BufferDesc(
       [dest |-> "L2TCM", dev |-> RingsOffset, base |-> 0, size |-> RingsSize, allowPartial |-> FALSE],
       "internal", 0, 0, Cores))
  /\ pc' = "done"
  /\ UNCHANGED <<config, mcId, dbNum, hostMc, nspMc, requests, words, sizes>>

Next == ReserveL2tcm \/ Reject \/ ProcessBuff \/ AddUdmaBuffer

Spec == Init /\ [][Next]_vars

-----------------------------------------------------------------------------
(* The network descriptor, for the host, and the runtime's view.              *)

\* generateNetworkDescriptor: the host's buffer numbers and its DMA buffers.
NetworkInput(i) == i - 1
NetworkOutput(i) == Len(config.inputs) + i - 1
DmaBuffers ==
  LET Of(dir, list) == [i \in DOMAIN list |-> [dir |-> dir, size |-> list[i].size]]
  IN  Of("input", config.inputs) \o Of("output", config.outputs)

NumOf(usage) == Cardinality({i \in DOMAIN buffers : buffers[i].usage = usage})

\* inputBufferNum, outputBufferNum, internalBufferNum, from 0 as in the code.
InputBufferNum(n) == n
OutputBufferNum(n) == n + NumOf("input")
InternalBufferNum(n) == n + NumOf("input") + NumOf("output")
Info(n) == buffers[n + 1]

HasMask(usage) == UNION {buffers[i].nspMask : i \in {j \in DOMAIN buffers : buffers[j].usage = usage}}

\* getBufferBase, relative to the base address of the memory.
BufferBase(n) == <<Info(n).location, Info(n).offset>>

\* Where the window of multicast entry mc of core c begins.
McBaseAddress(c, mc) == nspMc[c][mc + 1]
HostTarget(c, r) ==
  IF r.space = "DDR" THEN <<"DDR", r.dev>>
  ELSE <<McBaseAddress(c, r.mcId).space, McBaseAddress(c, r.mcId).offset + r.dev>>

\* broadcastToBuffer to other NSPs, at dstOffset 0.
BroadcastTarget(c, n) ==
  <<McBaseAddress(c, Info(n).buffMCID).space,
    McBaseAddress(c, Info(n).buffMCID).offset + Info(n).offset>>

\* _udmaContextInit: the descriptors of thread t.
RingStart(t) == buffers[Len(buffers)].offset + t * LineSize * LinesPerThread

-----------------------------------------------------------------------------
(* Properties                                                                *)

UserBuffers == {i \in DOMAIN buffers : i <= Len(Queue)}
EndOf(i) == buffers[i].offset + buffers[i].size

\* Shape of the state.
TypeOK ==
  /\ config \in Configs
  /\ pc \in {"start", "buffers", "done", "rejected"}
  /\ mcId \in Nat /\ dbNum \in Nat
  /\ hostMc \in Seq([mask : SUBSET Cores, size : Nat])
  /\ nspMc \in [Cores -> Seq([mask : SUBSET Cores, size : Nat, space : Dests, offset : Nat])]
  /\ requests \in Seq([dir : Usages, space : {"MC", "DDR"}, dev : Nat, size : Nat, mcId : 0 .. mcId,
                       wait : 0 .. config.numNsps, init : BOOLEAN, doorbell : Nat])
  /\ DOMAIN words \subseteq Nat /\ \A o \in DOMAIN words : words[o] \in {0, 1}
  /\ sizes \in [Dests -> Nat]
  /\ buffers \in Seq([location : Dests, offset : Nat, size : Nat, waitDBNum : Nat,
                      buffMCID : 0 .. mcId, nspMask : SUBSET Cores, usage : Usages,
                      allowPartial : BOOLEAN])

\* The n-th request moves what the runtime calls buffer n: the host's entry has
\* the buffer's NSPs, size and, in each of them, the address getBufferBase gives,
\* and the request rings the doorbell the runtime waits for.
RequestsReachBuffers ==
  \A n \in DOMAIN requests :
    LET r == requests[n]
        b == buffers[n]
    IN  /\ r.dir = b.usage /\ r.doorbell = b.waitDBNum * DbSize
        /\ r.space = "MC" => hostMc[r.mcId + 1] = [mask |-> b.nspMask, size |-> b.size]
        /\ \A c \in b.nspMask : HostTarget(c, r) = BufferBase(n - 1)

\* The runtime's inputBufferNum and its like, the network descriptor's buffer
\* numbers and the config's lists name the same buffers, and the ring is found.
NumbersAgree ==
  pc = "done" =>
    /\ \A i \in DOMAIN config.inputs :
         /\ Info(InputBufferNum(i - 1)).usage = "input"
         /\ Info(InputBufferNum(i - 1)).offset = config.inputs[i].dev + config.inputs[i].base
         /\ NetworkInput(i) = InputBufferNum(i - 1)
    /\ \A i \in DOMAIN config.outputs :
         /\ Info(OutputBufferNum(i - 1)).usage = "output"
         /\ Info(OutputBufferNum(i - 1)).offset = config.outputs[i].dev + config.outputs[i].base
         /\ NetworkOutput(i) = OutputBufferNum(i - 1)
    /\ \A i \in DOMAIN config.internals :
         /\ Info(InternalBufferNum(i - 1)).usage = "internal"
         /\ Info(InternalBufferNum(i - 1)).offset = config.internals[i].dev + config.internals[i].base
    /\ DmaBuffers = [n \in DOMAIN requests |-> [dir |-> requests[n].dir, size |-> requests[n].size]]

\* What the requests wait for is what the NSPs signal: the generator's counts, from
\* the config, are those of the runtime's masks, from the descriptor, and only the
\* last transfer of a direction resets the semaphore.
SemaphoresAgree ==
  pc = "done" =>
    \A n \in DOMAIN requests :
      LET u == requests[n].dir
      IN  /\ requests[n].wait = IF u = "input" THEN Cardinality(HasMask("input")) ELSE 0
          /\ SemInit(u) = IF u = "input" THEN 0 ELSE Cardinality(HasMask("output"))
          /\ requests[n].init <=> \A m \in DOMAIN requests : m > n => requests[m].dir # u

\* If each buffer has a doorbell, all are different words, none is the exit
\* doorbell's, and they start as the handshake needs: outputs free, others clear.
DoorbellsStartRight ==
  (pc = "done" /\ \A i \in DOMAIN Queue : ~Queue[i].buff.noDoorbell) =>
    /\ \A i, j \in UserBuffers : buffers[i].waitDBNum = buffers[j].waitDBNum => i = j
    /\ \A i \in UserBuffers :
         words[buffers[i].waitDBNum * DbSize] = IF buffers[i].usage = "output" THEN 1 ELSE 0
    /\ words[ExitDb * DbSize] = 0 /\ words[DummyOffset + DbSize] = 1
    /\ \A i \in UserBuffers : buffers[i].waitDBNum < ExitDb

\* No buffer's doorbell is the exit doorbell, which the assertion of Program.cpp:182-183 ('Can only
\* have 280 buffer doorbells') is for.  Buffers with noDoorbell are not counted, but take a
\* number like the others: does not hold.
ExitDoorbellIsApart ==
  pc = "done" => \A i \in UserBuffers : buffers[i].waitDBNum < ExitDb

\* Memory asked for holds every buffer, and buffers in L2TCM are clear of the
\* doorbells and the dummy descriptor.
BuffersHaveMemory ==
  pc = "done" =>
    \A i \in UserBuffers :
      /\ EndOf(i) <= sizes[buffers[i].location]
      /\ buffers[i].location = "L2TCM" => buffers[i].offset >= DummyOffset + DescSize

\* The descriptors of the threads are for them alone (a comment, Program.cpp:195-200,
\* has user data after them; the config's documentation wants user buffers higher
\* than the reserved part).  The reserved size is a line short: does not hold.
RingsAreReserved ==
  pc = "done" =>
    \A t \in 0 .. NumThreads - 1, i \in UserBuffers :
      buffers[i].location = "L2TCM" =>
        EndOf(i) <= RingStart(t) \/ buffers[i].offset >= RingStart(t + 1)

\* A broadcast goes where the receiver reads (comment, Program.cpp:245-249).  The
\* entry's window and the descriptor's offset both contain baseAddrOffset: does
\* not hold.
BroadcastsReachBuffers ==
  pc = "done" =>
    \A i \in UserBuffers : buffers[i].usage = "internal" /\ buffers[i].location # "DDR" =>
      \A sender \in Cores : \A c \in buffers[i].nspMask \ {sender} :
        BroadcastTarget(c, i - 1) = BufferBase(i - 1)
=============================================================================
