# Verification of the Cloud AI 100 compute SDK

This directory holds TLA+ models of the runtime library, the program generator,
the QPC container, the compiler driver and the metadata writers of this
repository, TLC configurations that check them on small instances, and TLAPS
proofs of theorems about them for all instances.

Run `tlc -config MCHostInputs.cfg MCHostInputs` (and so on) for a model, and
`tlapm HostInputsProofs.tla` (and so on for every `*Proofs` module) for the proofs.
`PROJECT.json` lists the runs, the lines of code each definition stands for, the findings
and the hazards.

## The system

A program for a Cloud AI 100 card runs the same image on several NSPs, each
with up to six hardware threads. The host exchanges inputs and outputs with the
program through a DMA engine, two counting semaphores and one doorbell word per
buffer in every NSP's L2TCM. NSPs exchange data through *user DMA* engines, one
per thread, and the same doorbell words. The toolchain in `lib/` compiles the
program, lays out its memory, generates the DMA requests, semaphore operations
and doorbells as metadata, and packs everything into a QPC container.

### Inventory

| Component | Code | State it keeps | Operations | What makes it correct |
|---|---|---|---|---|
| Host I/O handshake | `runtime/lib/ComputeAPI.cpp`; the requests of `lib/program/Program.cpp` | doorbell words per NSP, input and output semaphore, position of the DMA engine | `readyForAllInputs`, `waitForAllInputsReady`, `waitForAllOutputsReady`, `sendAllOutputs`, `waitForBuffer`; WAITEQ, transfer, INIT, doorbell | host and NSPs never touch a buffer at once; every transfer is for the right inference; nothing is lost |
| Threads of an NSP | `_qaic_start.cpp`, `NSPContext.cpp`, `libdev/os_common.cpp`, `libdev/os-inlines.h`, `Exit.cpp` | `NSPContext`, `_initsDone`, exit doorbell, exit function | start, polling waits, timeout check, exits | nobody uses the context before it is there; the exit doorbell ends every wait; no false hang; DMAs are finished at exit |
| User DMA | `libdev/libdev_interface.cpp`, `libdev/libdev_udma.cpp`, `BufferDesc.cpp` | ring of 16 descriptors per thread, `dmaDescNext`, `dmaTail`, done bits | `getNextFreeDMADesc`, `fillOutDMADesc*`, `submitDMAs`, `broadcastToBuffer` | no descriptor is reused while in use; a doorbell lands after its data |
| Program layout | `lib/program/Program.cpp`, `ProgramDesc.h` | metadata under construction, sizes of L2TCM, VTCM, DDR | `generateMetadata`, `generateNetworkDescriptor`, `validateQPC` | reserved areas and buffers are disjoint; masks and doorbell numbers agree with the runtime |
| QPC container | `lib/program/QPCBuilder.cpp`, `lib/networkdesc/qpc` | builder's two maps, containers in memory with pointers and offsets, QPC file | add, remove, finalize, build, copy, rebuild, convert a section, write, load, get | whoever follows the pointers gets what was added, after any sequence of operations |
| Driver | `tools/qaic-cc`, `lib/driver` | mode, list of actions, builder, files in the working directory | deduce mode, run actions, clean up | stops at the first failure, reports it; a run that ends well has its own output, whatever other runs left |
| Toolchain wrappers | `lib/toolchain` | options collected for a command line | find tools, add options, execute | groups and option order come out as the user's options say |
| Metadata writers | `lib/metadata` | tables, L2TCM init image, features, serialised forms | `set*`, `add*`, `initL2TCM*`, `finalize`; write, read, check compatibility, load the execution context | both forms describe the same network; regions reproduce the image; no platform runs a network it does not understand |
| Support library, small tools, generated code | `lib/support`, `tools`, `*_generated*` | none | strings, paths, decoders | not modelled: text and generated code |

The components interact like this. `Program.cpp` decides semaphore values, the
order of requests and where doorbells go; `ComputeAPI.cpp` relies on them.
`ComputeAPI.cpp` and `libdev_udma.cpp` write and read the same doorbell words, from
several threads, the host's DMA and other NSPs. Every wait is the polling loop
`os_doorbell_wait`, from which `os_timeout_check` may leave the program.
`qaic-cc` runs actions one after another: compile, link, embed the metadata that
`Program.cpp` describes to the metadata writers, and pack a QPC container. The actions
hand each other files, two of which (`constants.bin`, `constantsdesc.bin`) have the same
name for every driver in a directory.

Hard behaviours: the host, all NSPs and all DMA engines run at once and share
words without locks; doorbell writes land late; descriptors finish out of order;
a thread may be told to exit anywhere. The runtime persists nothing; QPC files and the
files of a build survive killed processes, and later runs meet them. Containers and
metadata are relocated, finalized again and read by platforms of other versions. The full list, with lines, is under "hazards" in `PROJECT.json`.

## Modules

| Module | Models | Checked by |
|---|---|---|
| `Handover` | abstract: buffers go back and forth between NSPs and host | refined by `HostInputs` and `HostOutputs` (checked and proved) |
| `HostInputs` | input half of the handshake | `host_inputs`, proofs |
| `PartialInputs` | lookups of partial inputs on top of `HostInputs` | `host_inputs`, proofs |
| `HostOutputs` | output half | `host_outputs`, `send_mask`, proofs |
| `HostIO` | both halves joined by the computation of each NSP | `host_io`, proofs |
| `ThreadLifecycle` | threads of one NSP from `_qaic_start` to exit | `thread_lifecycle`, proofs |
| `DmaOrder` | order of descriptors in a user DMA engine | used by `ThreadLifecycle`, `UdmaRing` |
| `OrderedBroadcast` | abstract: broadcasts of a thread arrive in order | refined by `UdmaRing` (checked and proved) |
| `UdmaRing` | descriptor ring and `broadcastToBuffer` of one thread | `udma_ring`, `chunk_offset`, proofs |
| `ProgramLayout` | `generateMetadata`, the network descriptor's buffers, buffer lookup | `program_layout`, `broadcast_base`, proofs |
| `QpcContainer` | builder, serialised containers, section conversion, QPC file | `qpc_container`, proofs |
| `ToolCommands` | search for tools, command lines of compiler, linker, objcopy | used by `Driver` |
| `Driver` | modes, actions and files of several drivers in one directory | `driver`, proofs |
| `RawMetadata` | metadata as a C structure: writer and reader | used by `Metadata` |
| `L2tcmRegions` | how zero regions are cut out of the L2TCM image | used by `Metadata` |
| `ExecContext` | which members of the execution context are asked for | used by `Metadata` |
| `Metadata` | both writers with the same calls, the file, platforms that read it | `metadata`, proofs |
| `HostInputsProofs` | theorems about `HostInputs` and `PartialInputs` | tlapm |
| `HostOutputsProofs`, `HostIOProofs`, `ThreadLifecycleProofs`, `UdmaRingProofs`, `ProgramLayoutProofs`, `DriverProofs` | theorems about the module of that name | tlapm |
| `StoredFormsProofs` | theorems about `QpcContainer` and `Metadata`, the two stored forms of a network | tlapm |

`MC*` modules only give constants their values.  `ProgramLayout` hands the two halves of the
handshake what they take for granted: that the count a request waits for is the number of
NSPs in the runtime's mask, that only the last request resets it, and that the doorbell
rung is the one waited for, starting as it must.

### State and actions

*HostInputs, HostOutputs.* `db[n][i]` is the doorbell word at
`waitDBNum` of buffer i in NSP n, `sem` the host semaphore, `dmaIdx` and `dmaPhase`
the position in the list of requests that `processBuff` (Program.cpp) generates:
`pre` is the WAITEQ, `xfer` the transfer, `post` the INIT that only the last
request has, `ring` the doorbell, in the order of `AICMetadata.h:113-122`. The requests
of one direction use one semaphore and are processed one after another. A
doorbell is put in `flight` when rung and lands later at each NSP. On the NSP, each
store to a doorbell, each semaphore command and each observation of a doorbell is
an action of its own, so the loops of `readyForAllInputs` interleave with everything.
Release and acquire fences keep them in program order, which is what the model does.
`ver` and `part` (which inference's data is where) and `signals`, `sends` are
history that the properties speak about.

`WaitArgs` and `ClearArgs` are the arguments a program may pass; `Awaits` the inputs it
waits for one by one. Programs are assumed to call `readyForAllInputs` from one thread
per NSP (as the comment in `SimpleIOLib.cpp:11-12` asks) and to wait once per signal.

*PartialInputs* extends `HostInputs` by `getBufferAddr` and `getBufferSize`, which the
program may call between any two calls of the handshake: the test of the doorbell and the
read of the header are two steps, and a test that fails ends the NSP (`fatal`). The header is reduced to whose
inference it is. `found` and `cleared` are history.

*ThreadLifecycle.* One `pc` per thread. `dma[t]` is the list of unfinished
descriptors, `tail[t]` is `dmaTail`. A wait is a state; `HostDoorbellSeen`,
`DmaDoneSeen` and `CleanupDone` end it; `CheckSeesExit` and `CheckExceeds` are what
`os_timeout_check` does in it. A fatal error ends all steps, because `ERR_FATAL` does
not return. The user program is any sequence of calls.

*UdmaRing.* `next`, `done` and `desc` are `dmaDescNext` and the ring in L2TCM, `queue` the
engine's list. The engine reads a descriptor from `desc` when it executes it, which
is what makes premature reuse visible. `mem[n][p]` says which broadcast's data is in
chunk p of the buffer at n.

*ProgramLayout.* A config is chosen at the start; then `generateMetadata` runs: the checks and
reserved areas (`ReserveL2tcm`), one `ProcessBuff` per input, output and internal buffer, the
descriptor ring (`AddUdmaBuffer`). `Reject` stands for every `exit(-1)` and failed assertion.
Each step advances the counters the code keeps side by side (`mcId`, `DBNum`, request,
place in the descriptor). Dims and type of a buffer are one `size`; a mask is a set of
NSPs. The runtime's lookups are operators over the finished tables, and the properties
compare them with what the host and the firmware were told.

*QpcContainer.* Memory is a set of slots, each a sequence of cells at an address of its own;
a header, a segment entry, a name and a unit of data take a cell each, and pointers are
numbers that may point anywhere. `segmentBufferMap` and `segmentOffsets` are the builder's maps,
`obj[s]` what a handle records besides its buffer (`namesAt` and `startsAt` are its offset
vectors), `disk` the QPC file. Serialising, fixing up a copy, converting a section and writing
a file all move cells and recompute pointers, as `writeQAicQpcObject`,
`fixupQAicQpcObject` and `fixupQAicQpcCopyObject` do. The file is written and fixed up in two
steps and may be cut short; `Kill` empties memory. `content` and `saved` are
history: the segments that were put into a slot or the file.

*Driver, ToolCommands.* `todo[p]` lists the steps of driver p's actions, cut where they touch files:
`EmbedMetadataAction` is extracting the entry point, writing constants, metadata, objcopy,
removing; `BuildQPCAction` reads five files and writes one. `fs` maps names to contents, and a
content is whose program it is, whose entry point and whose metadata it holds. Tools succeed
or fail, a file may refuse to be removed, a driver may be killed between two steps. Command lines are
operators: options are taken in the order the code takes them, and the result says
what each tool is asked to do.

*Metadata.* The same calls feed the structure (`raw`) and the flat form (`table` and the
features); `finalize` may follow any call, twice. `FinalizeRaw` lays out the structure at
offsets, `ReadRaw` follows them. `metadataBuffer` is the serialised flat form, `file` what is on disk,
perhaps cut short, `held` a reader's copy after `stripTerminatorMetadata`, `verdict`
what the compatibility check and `nnc_load_exec_context_info` say. A flatbuffer is the object it was
packed from: the library's encoding is external.

## Runs

| Run | Instance | Question |
|---|---|---|
| `host_inputs` | 3 NSPs (one outside the mask), 2 inputs with different receivers, one of them partial, 2 inferences, all arguments | races, currency, lost doorbells, refinement of `Handover`; lookups give what the last signal asked for, never a header being written, and succeed after a wait without clear |
| `host_outputs` | 3 NSPs, 2 outputs, 2 inferences | the same for outputs; the semaphore never underflows |
| `host_io` | 2 NSPs, 1 input, 1 output, 2 inferences, fair | results belong to their inference; every inference completes |
| `thread_lifecycle` | 2 threads, thread 1 broadcasts up to twice, hang limit 2, fair | start-up, cleanup, timeouts, exit |
| `udma_ring` | 4 descriptors in 2 lines, 3 broadcasts of 1 or 2 chunks, 3 NSPs, fair | reuse, order, arrival, refinement of `OrderedBroadcast` |
| `send_mask` | 2 NSPs, only one with outputs, both with inputs | fails: finding 1 |
| `chunk_offset` | broadcasts above `UDMAMaxSize` within one NSP | fails: finding 2 |
| `program_layout` | 13000 configs: 1 or 2 NSPs, up to 2 inputs, 2 outputs and 1 internal buffer in every memory, and configs with each error | host, network descriptor and runtime agree on every number; buffers and doorbells are apart |
| `broadcast_base` | up to 1 buffer of each usage | fails: finding 3 |
| `qpc_container` | 2 slots, 3 segments, a file, at most two of builder, slots and file in use | readers see the segments that were put in, after builds, copies, conversions, saves, crashes |
| `driver` | 2 drivers in one directory, over 300 command lines, failures and kills | own output, own constants, command lines, nothing left behind |
| `metadata` | up to 5 calls, 2 finalizations, 4 platforms | both forms agree, regions reproduce the image, no platform runs what it does not know |

Bounds. Two inferences are enough for a doorbell, a semaphore value or a buffer left over
from the first to be taken for the second's; two NSPs in the mask for one to be a round
ahead of the other; the third is outside the mask and sees doorbells it never asked
for. Layout: two buffers per direction make the first differ from the last, and five in all exceed
the four doorbells that stand for 280; sizes are the code's own, except that there are 5
doorbell words and not 281. Lookups write nothing that others read, so one NSP that looks up (`Lookers`), with a buffer it has and one it has
not, is enough. Two inputs make the first request differ from the last, which alone resets
the semaphore. A ring of four descriptors is smaller than two multicasts (three
each), so the ring wraps and fills within three broadcasts; columns matter from two
lines of two on. A hang limit of 2 instead of 10 keeps "not the first time" and "the
last time" apart. Two containers are the most that one operation touches, which is
why `AtMostTwoInUse` may cut the rest (states beyond it are checked, not continued); constants of one or two chunks and a
metadata section that is not the last make moved offsets visible. `Replaces` and `MaxBuilds`
keep the callers to what the driver does (see below). Two drivers are enough for one to meet
what the other left; only the first gets every command line. `alone[p]` says that no
other driver ran meanwhile: names shared by all drivers are right only then. In `metadata`, the cut of
zero runs starts above 1 byte instead of 128, semaphore operations are at most 4 instead of 256
and NSPs 2 instead of 16; images have up to 5 bytes, so zero runs lie at the start, in the middle and at the end. A
feature can be set, reset and set again within five calls. `ReadersApart` does not
follow histories that finalize the structure and also read the flat form, which do not touch each
other. Threads, drivers and NSPs may rightly come to rest (exit, no more inferences),
so deadlock is not checked; the liveness properties say what must not stop.

Fairness. Threads are hardware threads that never yield, the DMA engines work on their
lists, and a write put in flight lands: weak fairness of each thread's runtime steps, of
each engine and of each delivery. `host_io` also assumes that the program goes on
computing and writing, and `thread_lifecycle` that it goes on to its next wait or
return. The host is never assumed to ring anything in `thread_lifecycle`.

## Findings

1. `ComputeAPI.cpp:129` tests `hasInputsMask` in `sendAllOutputs`, while semaphore values,
   the header (`ComputeAPI.h:69-70`) and the warning text speak of outputs.
2. `BufferDesc.cpp:91-122`: the loop that splits large transfers advances neither source
   nor destination.
3. `BufferDesc.cpp:114`: the multicast window starts at `baseAddrOffset`, and so does the
   descriptor's offset added to it. Only `baseAddrOffset` 0 is right.

The models show further disagreements that have no run of their own. A property named here
is defined in its module; add it to the cfg, or change the constant, to see the trace.

- `ComputeAPI.h:55-56` says that the host starts when each NSP has signalled. An NSP that
  waits only for its own input and signals again early makes the semaphore skip the value
  the host waits for: `StartsOnceAllReady` of `HostInputs`, with two NSPs, an input for each,
  `Awaits` its own, `WaitArgs = {FALSE}`, under `FairSpec`.
- `_qaic_start.cpp:42` "Make sure DMAs finish": after a multicast, `_udmaContextCleanup` may
  return with the local doorbell write unfinished (`CleanupFinishesDmas` of
  `ThreadLifecycle`). Data is always complete (`CleanupFinishesPayloads`, proved).
- `Program.cpp:210`: the reserved part of L2TCM leaves out the cache line between the dummy
  descriptor and the rings, so the lowest buffer accepted lies in a thread's last descriptors
  (`RingsAreReserved` of `ProgramLayout`).
- `Program.cpp:363`: a buffer with `noDoorbell` is not counted when doorbells are (168-177), but
  takes a number, an initialised word and a ring like the others. The documentation says that
  none is allocated (`QAICProgramConfig.txt:77-78`); with one buffer too many the last one's
  doorbell is the exit doorbell (`ExitDoorbellIsApart` of `ProgramLayout`, with `MaxLen = 2`).
- `QAicQpc.cpp:379`: building a second time into one handle appends the offsets to those of the
  first; `ReadersSeeTheSegments` fails with `MaxBuilds = 2`. Nothing in the repository does it.
- `QPCBuilder.cpp:33-54`: adding a file under a name in use replaces the data and keeps the
  old size of the static part, and a read that fails removes the data only, which the
  assertion at line 65 forbids. `MapsAgree` and `StaticPartFits` are checked with `Replaces = FALSE`,
  as the driver adds segments.
- `DriverAction.cpp:120` hands the names of `-U` to the compiler as definitions, and
  `DriverAction.cpp:163` reports an unknown `-std` but returns success; both are in the model as they
  are in the code. `CompileAction` looks at `-c`, `-E`, `-S` in another order than
  `deduceDriverMode`. The comment at `Tools.cpp:68` says that the Hexagon path always comes first,
  while the working directory does (`Tools.cpp:65-70`).

## Proofs

*HostInputsProofs* proves, for any set of NSPs, number of inputs, distribution of inputs,
arguments and number of inferences:

- `TypeCorrect`: `Spec => []TypeOK`;
- under `WaitsForAll` (each NSP of the mask waits for all inputs before it signals again;
  without it `StartsOnceAllReady` fails, see above) `InputsNeverRace`, `HeldInputsAreCurrent`,
  `DoorbellsNeverLost` and `ImplementsHandoverHolds`.

None of these is inductive. That the host may transfer when `sem` has its value follows
only from what the value counts. The inductive invariant `IInv` therefore says: each NSP's
`signals` is `dmaRound` or one more, depending on its `pc` and on whether it has seen the
doorbells of the current inference; `sem` is the number of NSPs that have signalled for it,
and 0 once the last request has reinitialised it; a doorbell is set or in flight only if it
was rung for the inference the NSP is at; past the first WAITEQ every NSP of the mask has
signalled. The counting step (`sem` equals the cardinality of the mask, so all have
signalled) rests on the library's theorems on finite sets. The proofs go action by action,
first the NSP's own steps, then deliveries, then the engine's.

Assumptions: the named ASSUMEs of `HostInputs` (finite NSPs, at least one input, masks
within the NSPs, argument sets of Booleans). TLC checks them in every run.

The same module proves what `PartialInputs` adds: `LookupsKeepHandshake` (a program with lookups
is a behaviour of the handshake, so all of the above holds of it), `LookupsStayCurrent` and
`WaitedLookupsDoSucceed`. Next to `IInv`, `LookInv` says that an NSP between its test of the doorbell and
its read of the header is still in the program with that doorbell set (`InLookup`); that what it has
found is about the inference it last asked for (`FoundInv`); and that without a call that
clears, the doorbells stay set from the wait on (`ClearedInv`).

*HostOutputsProofs* proves, for any set of NSPs, number of outputs, arguments and inferences, `TypeCorrect`, and
under `SendMaskIsOutputMask` `OutputsNeverRace`, `StartsWhenAllSent`, `SemaphoreNeverUnderflows` and
`ImplementsHandoverHolds`. The condition is that the NSPs with inputs are those with
outputs, which `sendAllOutputs` takes for granted by testing the mask of the inputs; without it the
properties are false (finding 1, run `send_mask`). The invariant mirrors the other
half with the count turned round: `sem` is the number of NSPs that have *not yet* sent, so that 0
means all have, and the INIT of the last request makes it the whole mask again. Doorbells begin
set, hence an NSP may write before the first one is rung. What is written does not matter to
the handshake: the lemmas are about `HandshakeNext`, in which an NSP writes the results of any
inference, so that the composition can use them.

*HostIOProofs* proves `BuffersNeverRace`, `ResultsMatch` and `ImplementsHalves` (every behaviour of the
composition is one of each half) under `Disciplined`, which joins the two conditions above. The invariants
and lemmas of the halves are taken through INSTANCE. What joins them is, for each NSP, the
number of inferences consumed: `Consumed` ties it to the signals of the input half, `Handed` to
the results waiting and written in the output half. `ResultsMatch` follows because a transfer
finds every NSP exactly as many results on as the engine has made rounds.

*UdmaRingProofs* proves, for any NSPs, masks and sizes, any number of broadcasts and a ring of any shape from three
descriptors on, `TypeCorrect`, `DescriptorsAlwaysOwned` and `ImplementsBroadcasts`, the refinement of
`OrderedBroadcast`.

- `RingInv`: the descriptors of a copy are taken one after another along the ring (`TakenInOrder`), those
  in the engine's list are not done and all different, and those a thread has taken are not in
  it (`BitsTell`). A copy takes up to three descriptors before it clears a bit, which is safe because
  `NextSlot`, walking the ring column by column, comes back to no slot within three steps. That is why
  the ring must have three.
- `ToldInv`: the list is in the order of the calls, and between two multicast doorbells there is a local, ordered
  one (`ListInOrder`), so doorbells cannot overtake each other; and every NSP a broadcast is for has been
  told, or its doorbell is in the list, or still to be submitted (`EveryoneToldOf`).

`ChunksAssumption` says that a broadcast is at most as large as a buffer.

*ProgramLayoutProofs* proves, for any config and any sizes of memories, lines and descriptors, `TypeCorrect`,
`RequestsAlwaysReachBuffers`, `BuffersAlwaysHaveMemory`, `DoorbellsAlwaysStartRight`, `NumbersAlwaysAgree` and
`SemaphoresAlwaysAgree`. The counters that the code keeps side by side are tied together: the descriptor lists
the buffers in the order of the calls, each with the number of its doorbell (`Described`); a multicast entry is
at its number in every NSP's table and in the host's, which stops growing when the
internal buffers come (`EntriesFit`); the n-th request is the n-th buffer's (`RequestsFollow`); initialised words
stay as they are, those of the exit doorbell and the dummy descriptor as long as the buffers'
doorbells do not reach them (`WordsStart`); and sizes never shrink (`MemoryHolds`).
`DescriptorAssumption` says that a descriptor has a second word and fits in a line, and that a thread has a line.

*DriverProofs* proves, for any number of drivers in a directory, any command lines and any interleaving with
failures and kills, `OutputAlwaysOwn`, `ConstantsAlwaysOwn` and the action property `NothingIsLeftBehind`. In
`IInv`, what a driver has still to do is the end of its mode's steps (`OnPlan`), and its `Place` in them says
what it may count on: its own files and the entry point (`OwnFiles`), the builder and the container
(`ContainerFits`), the shared files while it is alone (`SharedFiles`), and what it has removed (`Removed`). A step
changes the tables of one driver; the others keep theirs because a file outside the shared
names belongs to the one driver with its base name (`FilesHaveOwners`), and because nobody is alone
while another runs. `BasesAssumption` says that no two drivers are asked for outputs of one name: with
one name they overwrite each other and nothing can be said. The last theorem, `CommandsAlwaysFollow`, is about the command lines themselves:
groups and whole archives open and close in turn and no group stays open, the last -O counts, -g0 wins. It
follows the recursion over the options: `WordKeeps` and `LinkerTakesWord` say what one more word does to a line that is
well formed so far, and the compiler's settings fit the options taken so far (`CompilerFits`) after every
option. `OptionsAssumption` says that a command line is a sequence of options, each a name with a set of values.

*ThreadLifecycleProofs* proves, for any number of threads, broadcasts, doorbells and any hang
limit (`ThreadsAssumption`, `DmasAssumption`, `LimitsAssumption`):

- `TypeCorrect`;
- `InitBeforeUseAlways`, from `Started`: only thread 0 is ever in the context or descriptor step,
  what it has filled in by then, and that any thread past the start has seen `initsDone`;
- `HostMayTakeItsTimeAlways`, from `HungWaits`: a thread that was given up was in a wait with a time
  limit, and nothing has moved since, because fatal errors do not return;
- `CleanupFinishesPayloadsAlways`. Waiting for the last descriptor is not waiting for all, so the
  invariant `CInv` says what the list looks like: any data in it is followed by an ordered
  doorbell, and the list ends with `dmaTail` as long as it holds data. The engine keeps this whatever it
  finishes next (`DmaOrder`), a broadcast restores it, and a thread in cleanup has no data left
  once its tail is gone.

*StoredFormsProofs* is about what is stored. Both of its parts need induction over data: that a container
is laid out as its offsets say, that a scan finds every run of zeroes, that a buffer keeps what was written.
The prover cannot use the induction rule of the library, which takes an operator; `SetInduction` gets the same from
the well-foundedness of the natural numbers, for sets, and `Recursion` and `RecursionFromZero` show that a function
defined by recursion exists. With them recursive functions and folds are unrolled one step at a time.

For the container it proves, for any names, data, number of slots and order of operations, `TypesHold`,
`BuilderMapsAgree`, `SizesDoNotUnderflow`, `ConversionsRead` and `ReadersServed`. `IInv` has three parts:

- `BuilderInv`: both maps of the builder have the same names, and what is in them was given by a caller
  or made by a conversion;
- `SlotsInv`: every slot in use holds the cells of a container (`IsContainer`) of some well-formed list of
  segments, at its own address, whose map is `content`;
- `FileInv`: the file is missing, or unfinished, which its size 0 says, or a container at address 0.

`FlattenJoins` and `DataApart` say where each segment's data lies and that no two overlap; `ImageIsContainer` that
serialising makes a container; `RelocatedIsContainer` that moving one and recomputing its pointers does;
`SegmentsRead` and `ServedRead` that following the pointers of a container gives back the list. Conversion replaces the section
or inserts it beside the metadata (`ConvertedListMeans`). All five theorems are
under `OrderlyCaller` (`Replaces = FALSE` and `MaxBuilds = 1`), which is how the driver uses the builder; what
happens otherwise is told under Findings. Assumptions: slots are numbered from 1 and some amount of data fits in one
(`SlotsAssumption`, `RoomAssumption`), names are all different (`NamesAssumption`), what callers give is data, and
the network ELF they give is one (`DataAssumption`), and two literals of the model are strings
(`LiteralsAssumption`, true of every value, but unknown to the provers).

For the metadata it proves:

- `PlatformsUnderstandAlways`, for any callers, requests, platforms, calls and finalizations. `MetadataInv`
  says that the required fields of the writer follow its features at every moment
  (`FieldsFollow`: each feature in use has its field, and no request uses dynamic DDR unless the
  status says so), that every serialised form, the file and a reader's copy carry the
  fields they need (`Sealed`), and that a verdict belongs to the copy held (`VerdictFits`). It needs
  no assumption on the constants.
- `RegionsAlwaysReproduce`, for any image and threshold. `ScanInv` says of every position that the zero regions found
  so far are in order, long enough, full of zeroes, and that none is missing (`FoundUpTo`); the regions kept are the gaps
  between them (`GapsAre`), cover what is not zero, and no run worth leaving out fits into one. `ImageInv` says
  that the image is a sequence and the regions of a serialised form are its own.
  (`RegionAssumption`, `ImageSizesAssumption`.)
- `ExecContextAlwaysFits`, for any order of sections. Each use of a member makes the size that
  is told cover it (`AddKeepsWithin`); `ContextInv` says that a context that was loaded is the one of the copy held, and that
  sections are of the kind the writer has (`SectionsAssumption`).
- `ReadersAlwaysAgree`: the two forms say the same. A buffer only grows behind its start (`Grows`), so what stands in it
  (`Holds`) stays when more is written, also by a second finalization; `Structure` says that the
  header points to arrays that stand in the buffer, `FinalizeStructure` that a finalization makes it so, and
  `StructureRead` that who follows the offsets then reads the description. `DescriptionInv` says that both writers hold the same description
  after every call, but for requests in the dynamic space, and that a form finalized since the last call says it.
  The condition `WithinTheStructure` is the callers' part: a request has fewer operations than its eight bits count, and
  there are no more NSPs than the structure's writer has tables for. The code checks neither. Assumptions:
  `RequestsAssumption`, `CountsAssumption`, `SizesAssumption`.

So every invariant, action property and refinement that a passing run checks is proved, some under the conditions
named above. Only model-checked:

- liveness (`EveryInferenceCompletes`, `ExitDoorbellEndsThreads`, `BroadcastsArrive`): fairness and ENABLED are outside the prover's
  reach. The abstract specifications state no fairness, so their refinements are proved in full.

## Not modelled

Sync fences of requests (both flags default to 0), the offset and size in a partial input's header, port ids
and time stamps, UDMA errors and page faults, logging, PMU. `os_thread_nanosleep` is
a pause in the polling loop, so a missed wake-up only delays. Which exit function a
thread leaves through, the registered one or the context's, is not told apart. Direct-API programs that
enter without `_qaic_start` are left out. What the host semaphore does below 0 and whether
a multicast reaches its sender are not said in the sources; the first is a
nondeterministic choice, the second is not used by any property.

QPC containers of the FASTPATH kind, which nothing here builds; sizes and alignment within a
container (a cell per item). `metadataflatbufEncode.hpp`, which nothing in this tree includes and
which names members the structures lack, and the dumps of metadata. The archiver, which no
action uses, the external tools themselves (they succeed or fail), the texts of options that
are only passed through. Generated flatbuffer and protobuf code, the support library, small
tools and CMake files. Thread groups, names and types of the
network descriptor. `getElapsedCycles` across a wrap: it is the same 64-bit subtraction.

## Plan

Done: the handshake with its composition, the thread life cycle, user DMA, the layout, the container, the
driver, the metadata; the proofs named above, which cover the safety properties of every module. What is left, in order:

1. Thread groups of the layout.
2. The container for callers that replace segments or build into a handle twice, once the code says what they may expect.
