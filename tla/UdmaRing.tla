------------------------------ MODULE UdmaRing ------------------------------
(***************************************************************************)
(* broadcastToBuffer of one thread: its ring of DMA descriptors, the list  *)
(* of its user DMA engine, and what the NSPs get to see.                   *)
(*                                                                         *)
(* The thread takes descriptors from the ring, waiting for one that is     *)
(* still in use, fills them in and links them to its engine's list.  The   *)
(* engine reads a descriptor from memory when it executes it, so one that  *)
(* is filled in again too early would be executed with another's contents. *)
(* A descriptor whose done bit is set has landed wherever it goes.         *)
(***************************************************************************)
EXTENDS Integers, Sequences, DmaOrder

CONSTANTS
  Self,          \* the NSP of the thread
  Others,        \* the other NSPs
  Lines,         \* NUM_UDMA_CACHELINES_PER_THREAD: 2 in the code
  PerLine,       \* descriptors in a cache line: 8 in the code
  Masks,         \* the nspMasks of the buffers the program broadcasts to
  ChunkCounts,   \* the sizes it broadcasts, in units of UDMAMaxSize
  MaxBroadcasts  \* bound: number of broadcasts

NSPs == Others \union {Self}
NumSlots == Lines * PerLine
Slots == 0 .. NumSlots - 1

ASSUME SelfAssumption  == Self \notin Others
ASSUME RingAssumption  == Lines \in Nat \ {0} /\ PerLine \in Nat \ {0} /\ NumSlots >= 3
ASSUME UserAssumption  == /\ Masks \subseteq (SUBSET NSPs) \ {{}}
                          /\ ChunkCounts \subseteq Nat \ {0}
                          /\ MaxBroadcasts \in Nat
\* A broadcast is at most as large as a buffer.
ASSUME ChunksAssumption == \E m \in ChunkCounts : \A c \in ChunkCounts : c <= m

VARIABLES
  next,      \* dmaDescNext
  done,      \* done[s]: the done bit of the descriptor in slot s
  desc,      \* desc[s]: the other contents of slot s
  queue,     \* the engine's list: slots of the descriptors it has not finished
  pc,        \* "idle", "taking", "filling", "linking" or "waiting"
  taken,     \* the slots taken for the current copy
  left,      \* chunks of the current broadcast not yet submitted
  sent,      \* sent[b]: the mask and number of chunks of broadcast b
  landed,    \* landed[n]: the transfers of broadcast data that have reached n
  mem,       \* mem[n][p]: the broadcast whose data is in chunk p of n's buffer
  rung       \* rung[n]: the broadcasts whose doorbell write has reached n

threadVars == <<next, pc, taken, left, sent>>
nspVars == <<landed, mem, rung>>
vars == <<next, done, desc, queue, pc, taken, left, sent, landed, mem, rung>>

Chunks == 0 .. (CHOOSE m \in ChunkCounts : \A c \in ChunkCounts : c <= m) - 1

\* kind; the broadcast; the chunk it is for; the chunk of the buffer it goes to.
Contents == [kind : Kinds, bcast : 0 .. MaxBroadcasts, chunk : Chunks, dst : Chunks]

TypeOK ==
  /\ next \in Slots
  /\ done \in [Slots -> BOOLEAN]
  /\ desc \in [Slots -> Contents]
  /\ queue \in Seq(Slots)
  /\ pc \in {"idle", "taking", "filling", "linking", "waiting"}
  /\ taken \in Seq(Slots)
  /\ left \in Nat
  /\ sent \in Seq([mask : SUBSET NSPs, chunks : ChunkCounts])
  /\ landed \in [NSPs -> SUBSET ((1 .. MaxBroadcasts) \X Chunks)]
  /\ mem \in [NSPs -> [Chunks -> 0 .. MaxBroadcasts]]
  /\ rung \in [NSPs -> SUBSET (1 .. MaxBroadcasts)]

\* Mutant: _udmaContextInit does not set the done bits.
InitNotDone ==
  /\ next = 0
  /\ done = [s \in Slots |-> FALSE]
  /\ desc = [s \in Slots |-> [kind |-> "payload", bcast |-> 0, chunk |-> 0, dst |-> 0]]
  /\ queue = <<>> /\ pc = "idle" /\ taken = <<>> /\ left = 0 /\ sent = <<>>
  /\ landed = [n \in NSPs |-> {}]
  /\ mem = [n \in NSPs |-> [p \in Chunks |-> 0]]
  /\ rung = [n \in NSPs |-> {}]

\* _udmaContextInit: every done bit is set, nothing is linked.
Init ==
  /\ next = 0
  /\ done = [s \in Slots |-> TRUE]
  /\ desc = [s \in Slots |-> [kind |-> "payload", bcast |-> 0, chunk |-> 0, dst |-> 0]]
  /\ queue = <<>>
  /\ pc = "idle"
  /\ taken = <<>>
  /\ left = 0
  /\ sent = <<>>
  /\ landed = [n \in NSPs |-> {}]
  /\ mem = [n \in NSPs |-> [p \in Chunks |-> 0]]
  /\ rung = [n \in NSPs |-> {}]

-----------------------------------------------------------------------------
(* The thread *)

Current == Len(sent)
Mask == sent[Current].mask

\* The broadcast is a copy within the NSP if the buffer is on this NSP only, and a
\* multicast otherwise.
IsMulticast == Mask # {Self}

\* The descriptors of one libdev_copy_dma_doorbells: the last chunk rings the doorbells.
KindsOfCopy ==
  IF left > 1 THEN <<"payload">>
  ELSE IF IsMulticast THEN <<"payload", "local", "global">>
  ELSE <<"payload", "local">>

\* broadcastToBuffer is called.
Broadcast ==
  /\ pc = "idle"
  /\ Current < MaxBroadcasts
  /\ \E mask \in Masks, chunks \in ChunkCounts :
       /\ sent' = Append(sent, [mask |-> mask, chunks |-> chunks])
       /\ left' = chunks
  /\ pc' = "taking"
  /\ UNCHANGED <<next, done, desc, queue, taken, nspVars>>

\* Mutant: the stride stays in its column.
NextInColumn(s) == IF s + PerLine < NumSlots THEN s + PerLine ELSE s % PerLine

\* The ring is strided by cache line; after the last line comes the next column.
NextSlot(s) == IF s + PerLine < NumSlots THEN s + PerLine ELSE (s + 1) % PerLine

\* getNextFreeDMADesc returns, once the descriptor is done.
TakeSlot ==
  /\ pc = "taking"
  /\ done[next]
  /\ taken' = Append(taken, next)
  /\ next' = NextSlot(next)
  /\ pc' = IF Len(taken') = Len(KindsOfCopy) THEN "filling" ELSE "taking"
  /\ UNCHANGED <<done, desc, queue, left, sent, nspVars>>

\* fillOutDMADesc and its variants, which clear the done bits.  Neither src nor
\* dstOffset moves from chunk to chunk: every payload is for the first chunk.
FillOut ==
  /\ pc = "filling"
  /\ desc' = [s \in Slots |->
       IF \E i \in 1 .. Len(taken) : taken[i] = s
         THEN [kind  |-> KindsOfCopy[CHOOSE i \in 1 .. Len(taken) : taken[i] = s],
               bcast |-> Current,
               chunk |-> sent[Current].chunks - left,
               dst   |-> 0]
         ELSE desc[s]]
  /\ done' = [s \in Slots |-> done[s] /\ \A i \in 1 .. Len(taken) : taken[i] # s]
  /\ pc' = "linking"
  /\ UNCHANGED <<next, queue, taken, left, sent, nspVars>>

\* submitDMAs: the chain is linked to the end of the list, then the loop of
\* broadcastToBuffer goes on, or the call returns, waiting for the engine or not.
SubmitDMAs ==
  /\ pc = "linking"
  /\ queue' = queue \o taken
  /\ taken' = <<>>
  /\ left' = left - 1
  /\ pc' \in IF left > 1 THEN {"taking"} ELSE {"idle", "waiting"}
  /\ UNCHANGED <<next, done, desc, sent, nspVars>>

\* os_udma_wait: the engine has nothing left to do.
UdmaWait ==
  /\ pc = "waiting"
  /\ queue = <<>>
  /\ pc' = "idle"
  /\ UNCHANGED <<next, done, desc, queue, taken, left, sent, nspVars>>

ThreadStep == TakeSlot \/ FillOut \/ SubmitDMAs \/ UdmaWait

-----------------------------------------------------------------------------
(* The engine *)

\* The NSPs a descriptor writes to: its own, or all others through a multicast address,
\* which for a payload is that of the buffer.
Targets(d) ==
  IF d.kind = "local" THEN {Self}
  ELSE IF d.kind = "global" THEN Others
  ELSE IF sent[d.bcast].mask = {Self} THEN {Self}
  ELSE sent[d.bcast].mask \ {Self}

FinishSlot ==
  /\ \E i \in 1 .. Len(queue) :
       LET d == desc[queue[i]]
       IN  /\ CanFinish([j \in 1 .. Len(queue) |-> desc[queue[j]]], i)
           /\ queue' = Finished(queue, i)
           /\ done' = [done EXCEPT ![queue[i]] = TRUE]
           /\ IF d.kind = "payload"
                THEN /\ landed' = [n \in NSPs |-> IF n \in Targets(d)
                                     THEN landed[n] \union {<<d.bcast, d.chunk>>}
                                     ELSE landed[n]]
                     /\ mem' = [n \in NSPs |-> IF n \in Targets(d)
                                  THEN [mem[n] EXCEPT ![d.dst] = d.bcast] ELSE mem[n]]
                     /\ UNCHANGED rung
                ELSE /\ rung' = [n \in NSPs |-> IF n \in Targets(d)
                                   THEN rung[n] \union {d.bcast} ELSE rung[n]]
                     /\ UNCHANGED <<landed, mem>>
  /\ UNCHANGED <<desc, threadVars>>

Next == Broadcast \/ ThreadStep \/ FinishSlot

Spec == Init /\ [][Next]_vars

\* The thread is a hardware thread and its engine works on its list; whether the
\* program broadcasts again is up to it.
FairSpec == Spec /\ WF_vars(ThreadStep) /\ WF_vars(FinishSlot)

-----------------------------------------------------------------------------
\* The descriptors of a copy are different ones, none of which the engine still has:
\* what the thread fills in is never a transfer under way, however full the ring.
DescriptorsOwned ==
  \A i \in 1 .. Len(taken) :
    /\ \A j \in 1 .. i - 1 : taken[i] # taken[j]
    /\ pc # "linking" => \A j \in 1 .. Len(queue) : queue[j] # taken[i]

\* Every broadcast is told to the NSPs of its buffer: no transfer is lost when the ring
\* is full, and the thread never waits for a descriptor that nothing finishes.
BroadcastsArrive ==
  \A b \in 1 .. MaxBroadcasts :
    Len(sent) >= b ~> (Len(sent) >= b /\ \A n \in sent[b].mask : b \in rung[n])

\* An NSP that sees the doorbell finds the data of that broadcast, or of a later one, all
\* over its buffer: transfers above UDMAMaxSize are split (BufferDesc.cpp:91).
DoorbellMeansData ==
  \A b \in 1 .. Len(sent) : \A n \in sent[b].mask :
    b \in rung[n] => \A p \in 0 .. sent[b].chunks - 1 : mem[n][p] >= b

-----------------------------------------------------------------------------
\* The ring and the engine implement ordered broadcasts.
LastRung(n) ==
  LET mine == {b \in rung[n] : n \in sent[b].mask}
  IN  IF mine = {} THEN 0 ELSE CHOOSE b \in mine : \A c \in mine : c <= b

Abstract == INSTANCE OrderedBroadcast WITH
  NSPs    <- NSPs,
  sent    <- [b \in 1 .. Len(sent) |-> sent[b].mask],
  visible <- [n \in NSPs |-> LastRung(n)]

ImplementsOrderedBroadcast == Abstract!Spec

=============================================================================
