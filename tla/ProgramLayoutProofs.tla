------------------------ MODULE ProgramLayoutProofs ------------------------
(***************************************************************************)
(* Theorems about ProgramLayout: whatever the config, the numbers that the *)
(* generator gives a buffer lead host, descriptor and runtime to the same  *)
(* buffer.                                                                 *)
(***************************************************************************)
EXTENDS ProgramLayout, FiniteSetTheorems, SequenceTheorems, TLAPS

\* Inputs and outputs come first; only they have requests.
Ins == Len(config.inputs)
Outs == Len(config.outputs)
Ints == Len(config.internals)
NumHostBuffers == Len(config.inputs) + Len(config.outputs)

\* What a buffer that was not rejected keeps, however the sizes grow.
Admitted(b) ==
  /\ NspsValid(b)
  /\ b.dest = "L2TCM" => b.dev + b.base >= ReservedSize
  /\ b.dest = "DDR" => b.base = 0

\* The descriptor lists the buffers in the order of the calls, numbered like their doorbells.
Described ==
  /\ dbNum <= Len(Queue)
  /\ Len(buffers) = IF pc = "done" THEN dbNum + 1 ELSE dbNum
  /\ pc = "done" => dbNum = Len(Queue) /\ buffers[dbNum + 1].usage = "internal"
  /\ pc = "start" => dbNum = 0 /\ mcId = 0
  /\ pc \in {"buffers", "done"} => ConfigAccepted
  /\ \A i \in 1 .. dbNum :
       /\ buffers[i] = BufferDesc(Queue[i].buff, Queue[i].usage, i - 1, buffers[i].buffMCID,
                                  NspMask(Queue[i].buff))
       /\ Admitted(Queue[i].buff)

\* A buffer's multicast entry is the one with its number, in every NSP and, unless it is internal,
\* in the host, whose entries are fewer once internal buffers have come.
EntriesFit ==
  /\ \A c \in Cores : Len(nspMc[c]) = mcId
  /\ Len(hostMc) <= mcId
  /\ dbNum <= NumHostBuffers => Len(hostMc) = mcId
  /\ \A i \in 1 .. dbNum :
       LET b == Queue[i].buff
           m == buffers[i].buffMCID
       IN  IF IsMC(b)
             THEN /\ m \in Nat /\ m < mcId
                  /\ \A c \in Cores : nspMc[c][m + 1].space = b.dest /\ nspMc[c][m + 1].offset = b.base
                  /\ Queue[i].usage /= "internal" =>
                       m < Len(hostMc) /\ hostMc[m + 1] = [mask |-> NspMask(b), size |-> b.size]
             ELSE m = 0

\* The n-th request is that of the n-th buffer.
RequestsFollow ==
  /\ Len(requests) = IF dbNum <= NumHostBuffers THEN dbNum ELSE NumHostBuffers
  /\ \A n \in 1 .. Len(requests) :
       LET b == Queue[n].buff
       IN  requests[n] =
             [dir |-> Queue[n].usage, space |-> IF IsMC(b) THEN "MC" ELSE "DDR", dev |-> b.dev,
              size |-> b.size, mcId |-> buffers[n].buffMCID, wait |-> SemWait(Queue[n].usage),
              init |-> Queue[n].last, doorbell |-> (n - 1) * DbSize]

\* Words once initialised stay; those of the exit doorbell and of the dummy descriptor do as long as the
\* buffers' doorbells do not reach them.
WordsStart ==
  pc \in {"buffers", "done"} =>
    /\ \A i \in 1 .. dbNum :
         /\ (i - 1) * DbSize \in DOMAIN words
         /\ words[(i - 1) * DbSize] = IF Queue[i].usage = "output" THEN 1 ELSE 0
    /\ dbNum <= MaxDoorbells =>
         /\ {ExitDb * DbSize, DummyOffset + DbSize} \subseteq DOMAIN words
         /\ words[ExitDb * DbSize] = 0 /\ words[DummyOffset + DbSize] = 1

\* The sizes never shrink below what a buffer needs.
MemoryHolds ==
  \A i \in 1 .. dbNum : buffers[i].offset + buffers[i].size <= sizes[buffers[i].location]

IInv == TypeOK /\ Described /\ EntriesFit /\ RequestsFollow /\ WordsStart /\ MemoryHolds

-----------------------------------------------------------------------------
(* Numbers.                                                                *)

\* Multiples of a positive number are apart by at least that number.
LEMMA MultiplesApart ==
  ASSUME NEW k \in Nat \ {0}, NEW a \in Nat, NEW b \in Nat, a < b
  PROVE  a * k \in Nat /\ b * k \in Nat /\ a * k + k <= b * k
<1>1. PICK d \in Nat \ {0} : b = a + d
  <2>1. b - a \in Nat \ {0} /\ b = a + (b - a)
    OBVIOUS
  <2> QED
    BY <2>1
<1>2. b * k = a * k + d * k
  BY <1>1
<1>3. d * k >= k
  BY <1>1
<1> QED
  BY <1>2, <1>3

\* AlignTo rounds up.
LEMMA AlignToFacts ==
  ASSUME NEW x \in Nat, NEW m \in Nat \ {0}
  PROVE  AlignTo(x, m) \in Nat /\ AlignTo(x, m) >= x
<1> DEFINE y == x + m - 1
<1>1. y \in Nat
  OBVIOUS
<1> HIDE DEF y
<1>2. y \div m \in Nat /\ y % m \in 0 .. m - 1 /\ y = m * (y \div m) + (y % m)
  BY <1>1
<1>3. m * (y \div m) = (y \div m) * m
  BY <1>2
<1>4. (y \div m) * m \in Nat /\ (y \div m) * m >= y - (m - 1)
  BY <1>1, <1>2, <1>3
<1> QED
  BY <1>4 DEF AlignTo, y

\* The layout of the reserved part: doorbells, the exit doorbell, the dummy descriptor, a
\* line or more of rings.
LEMMA ReservedFacts ==
  /\ DbSize \in Nat \ {0} /\ ExitDb \in Nat /\ DummyOffset \in Nat
  /\ \A k \in 0 .. ExitDb : k * DbSize \in Nat /\ k * DbSize + DbSize <= DummyOffset
  /\ \A k, l \in Nat : k * DbSize = l * DbSize => k = l
<1>1. DbSize \in Nat \ {0} /\ LineSize \in Nat \ {0} /\ ExitDb \in Nat
  BY SizeAssumption DEF ExitDb
<1>2. DbSpaceSize \in Nat /\ DbSpaceSize = ExitDb * DbSize + DbSize
  BY <1>1 DEF DbSpaceSize, ExitDb
<1>3. DummyOffset \in Nat /\ DummyOffset >= DbSpaceSize
  BY <1>1, <1>2, AlignToFacts DEF DummyOffset
<1>4. ASSUME NEW k \in 0 .. ExitDb
      PROVE  k * DbSize \in Nat /\ k * DbSize + DbSize <= DummyOffset
  <2>1. CASE k = ExitDb
    BY <1>1, <1>2, <1>3, <2>1
  <2>2. CASE k < ExitDb
    <3>1. k * DbSize \in Nat /\ ExitDb * DbSize \in Nat /\ k * DbSize + DbSize <= ExitDb * DbSize
      BY <1>1, <2>2, MultiplesApart
    <3> QED
      BY <1>1, <1>2, <1>3, <3>1
  <2> QED
    BY <1>1, <2>1, <2>2
<1>5. ASSUME NEW k \in Nat, NEW l \in Nat, k * DbSize = l * DbSize
      PROVE  k = l
  <2>1. ~(k < l)
    BY <1>1, <1>5, MultiplesApart
  <2>2. ~(l < k)
    BY <1>1, <1>5, MultiplesApart
  <2> QED
    BY <2>1, <2>2
<1> QED
  BY <1>1, <1>3, <1>4, <1>5

-----------------------------------------------------------------------------
(* Configs and the queue of buffers.                                       *)

\* A function on 1 .. n is a sequence of length n.
LEMMA FunctionIsSeq ==
  ASSUME NEW T, NEW n \in Nat, NEW f \in [1 .. n -> T]
  PROVE  f \in Seq(T) /\ Len(f) = n /\ DOMAIN f = 1 .. n
<1>1. f \in Seq(T)
  BY SeqDef
<1>2. DOMAIN f = 1 .. Len(f) /\ Len(f) \in Nat
  BY <1>1, LenProperties
<1> QED
  BY <1>1, <1>2

\* One list of a config in the queue.
Tagged(u, list) == [i \in DOMAIN list |-> [buff |-> list[i], usage |-> u, last |-> i = Len(list)]]

\* The fields of a config.
LEMMA ConfigFacts ==
  ASSUME NEW c \in Configs
  PROVE  /\ c.numNsps \in Nat /\ c.numThreads \in Nat /\ c.numHmxThreads \in Nat
         /\ c.inputs \in Seq(Buffer) /\ c.outputs \in Seq(Buffer) /\ c.internals \in Seq(Buffer)
  BY ConfigAssumption

\* The fields of a buffer.
LEMMA BufferFacts ==
  ASSUME NEW b \in Buffer
  PROVE  /\ b.dest \in Dests /\ b.dev \in Nat /\ b.base \in Nat /\ b.size \in Nat
         /\ b.nsps \subseteq Nat /\ b.noDoorbell \in BOOLEAN /\ b.allowPartial \in BOOLEAN
  BY DEF Buffer

\* The queue holds the inputs, the outputs and the internal buffers, in that order.
LEMMA QueueFacts ==
  ASSUME config \in Configs
  PROVE  /\ Len(config.inputs) \in Nat /\ Len(config.outputs) \in Nat /\ Len(config.internals) \in Nat
         /\ Len(Queue) = Len(config.inputs) + Len(config.outputs) + Len(config.internals)
         /\ DOMAIN Queue = 1 .. Len(Queue)
         /\ \A i \in 1 .. Len(config.inputs) :
              Queue[i] = [buff |-> config.inputs[i], usage |-> "input", last |-> i = Len(config.inputs)]
         /\ \A i \in 1 .. Len(config.outputs) :
              Queue[Len(config.inputs) + i] =
                [buff |-> config.outputs[i], usage |-> "output", last |-> i = Len(config.outputs)]
         /\ \A i \in 1 .. Len(config.internals) :
              Queue[Len(config.inputs) + Len(config.outputs) + i] =
                [buff |-> config.internals[i], usage |-> "internal", last |-> i = Len(config.internals)]
         /\ \A i \in 1 .. Len(Queue) :
              Queue[i].buff \in Buffer /\ Queue[i].usage \in Usages /\ Queue[i].last \in BOOLEAN
<1> DEFINE T == [buff : Buffer, usage : Usages, last : BOOLEAN]
           I == config.inputs
           O == config.outputs
           X == config.internals
<1>1. I \in Seq(Buffer) /\ O \in Seq(Buffer) /\ X \in Seq(Buffer)
  BY ConfigFacts
<1>2. ASSUME NEW u \in Usages, NEW list \in Seq(Buffer)
      PROVE  /\ Tagged(u, list) \in Seq(T) /\ Len(Tagged(u, list)) = Len(list)
             /\ \A i \in 1 .. Len(list) :
                  Tagged(u, list)[i] = [buff |-> list[i], usage |-> u, last |-> i = Len(list)]
  <2>1. DOMAIN list = 1 .. Len(list) /\ Len(list) \in Nat
    OBVIOUS
  <2>2. \A i \in 1 .. Len(list) : list[i] \in Buffer
    BY ElementOfSeq
  <2>3. \A i \in 1 .. Len(list) : [buff |-> list[i], usage |-> u, last |-> i = Len(list)] \in T
    BY <2>2
  <2>4. Tagged(u, list) \in [1 .. Len(list) -> T]
    BY <2>1, <2>3 DEF Tagged
  <2> HIDE DEF T
  <2>5. Tagged(u, list) \in Seq(T) /\ Len(Tagged(u, list)) = Len(list)
    BY <2>1, <2>4, FunctionIsSeq
  <2> QED
    BY <2>1, <2>5 DEF Tagged
<1>3. Queue = Tagged("input", I) \o Tagged("output", O) \o Tagged("internal", X)
  BY DEF Queue, Tagged
<1> DEFINE TI == Tagged("input", I)
           TO == Tagged("output", O)
           TX == Tagged("internal", X)
<1>4. Len(I) \in Nat /\ Len(O) \in Nat /\ Len(X) \in Nat
  BY <1>1
<1>5. TI \in Seq(T) /\ Len(TI) = Len(I) /\ TO \in Seq(T) /\ Len(TO) = Len(O)
      /\ TX \in Seq(T) /\ Len(TX) = Len(X)
  BY <1>1, <1>2 DEF Usages
<1>6. (\A i \in 1 .. Len(I) : TI[i] = [buff |-> I[i], usage |-> "input", last |-> i = Len(I)])
      /\ (\A i \in 1 .. Len(O) : TO[i] = [buff |-> O[i], usage |-> "output", last |-> i = Len(O)])
      /\ (\A i \in 1 .. Len(X) : TX[i] = [buff |-> X[i], usage |-> "internal", last |-> i = Len(X)])
  BY <1>1, <1>2 DEF Usages
<1> HIDE DEF TI, TO, TX, I, O, X, T
<1> DEFINE TIO == TI \o TO
<1>7. Queue = TIO \o TX
  BY <1>3 DEF TI, TO, TX
<1>8. /\ TIO \in Seq(T) /\ Len(TIO) = Len(I) + Len(O)
      /\ \A i \in 1 .. Len(I) + Len(O) : TIO[i] = IF i <= Len(I) THEN TI[i] ELSE TO[i - Len(I)]
  <2>1. /\ TIO \in Seq(T) /\ Len(TIO) = Len(TI) + Len(TO)
        /\ \A i \in 1 .. Len(TI) + Len(TO) :
             TIO[i] = IF i <= Len(TI) THEN TI[i] ELSE TO[i - Len(TI)]
    BY <1>5, ConcatProperties, Zenon
  <2> QED
    BY <1>5, <2>1, Zenon
<1> HIDE DEF TIO
<1>9. /\ Queue \in Seq(T) /\ Len(Queue) = Len(I) + Len(O) + Len(X)
      /\ \A i \in 1 .. Len(I) + Len(O) + Len(X) :
           Queue[i] = IF i <= Len(I) + Len(O) THEN TIO[i] ELSE TX[i - (Len(I) + Len(O))]
  <2>a. TIO \in Seq(T) /\ TX \in Seq(T)
    BY <1>5, <1>8
  <2>1. Len(TIO) = Len(I) + Len(O) /\ Len(TX) = Len(X)
    BY <1>5, <1>8
  <2>2. /\ TIO \o TX \in Seq(T) /\ Len(TIO \o TX) = Len(TIO) + Len(TX)
        /\ \A i \in 1 .. Len(TIO) + Len(TX) :
             (TIO \o TX)[i] = IF i <= Len(TIO) THEN TIO[i] ELSE TX[i - Len(TIO)]
    BY <2>a, ConcatProperties, Zenon
  <2> QED
    BY <1>7, <2>1, <2>2, Zenon
<1>10. \A i \in 1 .. Len(I) : Queue[i] = TI[i]
  <2> TAKE i \in 1 .. Len(I)
  <2>1. i \in 1 .. Len(I) + Len(O) /\ i \in 1 .. Len(I) + Len(O) + Len(X)
        /\ i <= Len(I) /\ i <= Len(I) + Len(O)
    BY <1>4
  <2> QED
    BY <1>8, <1>9, <2>1
<1>11. \A i \in 1 .. Len(O) : Queue[Len(I) + i] = TO[i]
  <2> TAKE i \in 1 .. Len(O)
  <2>1. Len(I) + i \in 1 .. Len(I) + Len(O) /\ Len(I) + i \in 1 .. Len(I) + Len(O) + Len(X)
        /\ ~(Len(I) + i <= Len(I)) /\ Len(I) + i - Len(I) = i /\ Len(I) + i <= Len(I) + Len(O)
    BY <1>4
  <2>2. Queue[Len(I) + i] = TIO[Len(I) + i]
    BY <1>9, <2>1
  <2>3. TIO[Len(I) + i] = TO[Len(I) + i - Len(I)]
    BY <1>8, <2>1
  <2> QED
    BY <2>1, <2>2, <2>3
<1>12. \A i \in 1 .. Len(X) : Queue[Len(I) + Len(O) + i] = TX[i]
  <2> TAKE i \in 1 .. Len(X)
  <2>1. Len(I) + Len(O) + i \in 1 .. Len(I) + Len(O) + Len(X)
        /\ ~(Len(I) + Len(O) + i <= Len(I) + Len(O))
        /\ Len(I) + Len(O) + i - (Len(I) + Len(O)) = i
    BY <1>4
  <2> QED
    BY <1>9, <2>1
<1>13. \A i \in 1 .. Len(Queue) : Queue[i] \in T
  BY <1>9, ElementOfSeq
<1>14. DOMAIN Queue = 1 .. Len(Queue)
  BY <1>9, LenProperties
<1>15. \A i \in 1 .. Len(Queue) :
         Queue[i].buff \in Buffer /\ Queue[i].usage \in Usages /\ Queue[i].last \in BOOLEAN
  BY <1>13 DEF T
<1>16. /\ \A i \in 1 .. Len(I) : Queue[i] = [buff |-> I[i], usage |-> "input", last |-> i = Len(I)]
       /\ \A i \in 1 .. Len(O) :
            Queue[Len(I) + i] = [buff |-> O[i], usage |-> "output", last |-> i = Len(O)]
       /\ \A i \in 1 .. Len(X) :
            Queue[Len(I) + Len(O) + i] = [buff |-> X[i], usage |-> "internal", last |-> i = Len(X)]
  BY <1>6, <1>10, <1>11, <1>12, ZenonT(30)
<1> QED
  BY <1>4, <1>9, <1>14, <1>15, <1>16, Zenon DEF I, O, X

\* Inputs and outputs are first in the queue.
LEMMA UsageFacts ==
  ASSUME config \in Configs, NEW k \in 1 .. Len(Queue)
  PROVE  /\ k <= NumHostBuffers <=> Queue[k].usage /= "internal"
         /\ k <= Ins <=> Queue[k].usage = "input"
<1> DEFINE I == Len(config.inputs)
           O == Len(config.outputs)
           X == Len(config.internals)
<1>1. I \in Nat /\ O \in Nat /\ X \in Nat /\ Len(Queue) = I + O + X
  BY QueueFacts, Zenon
<1>2. /\ \A i \in 1 .. I : Queue[i].usage = "input"
      /\ \A i \in 1 .. O : Queue[I + i].usage = "output"
      /\ \A i \in 1 .. X : Queue[I + O + i].usage = "internal"
  <2>1. /\ \A i \in 1 .. I :
             Queue[i] = [buff |-> config.inputs[i], usage |-> "input", last |-> i = I]
        /\ \A i \in 1 .. O :
             Queue[I + i] = [buff |-> config.outputs[i], usage |-> "output", last |-> i = O]
        /\ \A i \in 1 .. X :
             Queue[I + O + i] = [buff |-> config.internals[i], usage |-> "internal", last |-> i = X]
    BY QueueFacts, Zenon
  <2> HIDE DEF I, O, X
  <2>2. \A i \in 1 .. I : Queue[i].usage = "input"
    <3> TAKE i \in 1 .. I
    <3>1. Queue[i] = [buff |-> config.inputs[i], usage |-> "input", last |-> i = I]
      BY <2>1
    <3> QED
      BY <3>1
  <2>3. \A i \in 1 .. O : Queue[I + i].usage = "output"
    <3> TAKE i \in 1 .. O
    <3>1. Queue[I + i] = [buff |-> config.outputs[i], usage |-> "output", last |-> i = O]
      BY <2>1
    <3> QED
      BY <3>1
  <2>4. \A i \in 1 .. X : Queue[I + O + i].usage = "internal"
    <3> TAKE i \in 1 .. X
    <3>1. Queue[I + O + i] = [buff |-> config.internals[i], usage |-> "internal", last |-> i = X]
      BY <2>1
    <3> QED
      BY <3>1
  <2> QED
    BY <2>2, <2>3, <2>4
<1>3. NumHostBuffers = I + O /\ Ins = I
  BY DEF NumHostBuffers, Ins
<1> HIDE DEF I, O, X
<1>4. CASE k \in 1 .. I
  <2>1. Queue[k].usage = "input"
    BY <1>2, <1>4
  <2>2. k <= Ins /\ k <= NumHostBuffers
    BY <1>1, <1>3, <1>4
  <2> QED
    BY <2>1, <2>2
<1>5. CASE k - I \in 1 .. O
  <2>1. k = I + (k - I) /\ ~(k <= Ins) /\ k <= NumHostBuffers
    BY <1>1, <1>3, <1>5
  <2>2. Queue[k].usage = "output"
    BY <1>2, <1>5, <2>1
  <2> QED
    BY <2>1, <2>2
<1>6. CASE k - (I + O) \in 1 .. X
  <2>1. k = I + O + (k - (I + O)) /\ ~(k <= Ins) /\ ~(k <= NumHostBuffers)
    BY <1>1, <1>3, <1>6
  <2>2. Queue[k].usage = "internal"
    BY <1>2, <1>6, <2>1
  <2> QED
    BY <2>1, <2>2
<1>7. k \in 1 .. I \/ k - I \in 1 .. O \/ k - (I + O) \in 1 .. X
  BY <1>1
<1> QED
  BY <1>4, <1>5, <1>6, <1>7

\* There are as many host buffers as inputs and outputs.
LEMMA HostBufferFacts ==
  ASSUME config \in Configs
  PROVE  Len(Queue) \in Nat /\ NumHostBuffers \in Nat /\ NumHostBuffers <= Len(Queue)
<1> DEFINE I == Len(config.inputs)
           O == Len(config.outputs)
           X == Len(config.internals)
<1>1. I \in Nat /\ O \in Nat /\ X \in Nat /\ Len(Queue) = I + O + X
  BY QueueFacts, Zenon
<1>2. NumHostBuffers = I + O
  BY DEF NumHostBuffers
<1> HIDE DEF I, O, X
<1> QED
  BY <1>1, <1>2

\* The config does not change, nor does what is computed from it.
LEMMA ConfigFixed ==
  ASSUME config' = config
  PROVE  /\ Queue' = Queue /\ Cores' = Cores /\ ConfigAccepted' = ConfigAccepted
         /\ NumHostBuffers' = NumHostBuffers /\ ReservedSize' = ReservedSize
         /\ \A b : NspMask(b)' = NspMask(b) /\ Admitted(b)' = Admitted(b)
         /\ \A u : SemWait(u)' = SemWait(u)
<1>1. Queue' = Queue
  BY DEF Queue
<1>2. Cores' = Cores
  BY DEF Cores
<1>3. ReservedSize' = ReservedSize
  BY DEF ReservedSize, RingsSize, NumThreads
<1>4. ConfigAccepted' = ConfigAccepted
  BY <1>1, <1>2 DEF ConfigAccepted, NumDbs, NspsValid, NumThreads
<1>5. \A b : NspMask(b)' = NspMask(b) /\ Admitted(b)' = Admitted(b)
  BY <1>2, <1>3 DEF NspMask, Admitted, NspsValid
<1>6. \A u : SemWait(u)' = SemWait(u)
  BY <1>2 DEF SemWait, MaskOf, NspMask
<1>7. NumHostBuffers' = NumHostBuffers
  BY DEF NumHostBuffers
<1> QED
  BY <1>1, <1>2, <1>3, <1>4, <1>5, <1>6, <1>7

\* QueueFacts in these terms.
LEMMA ListFacts ==
  ASSUME config \in Configs
  PROVE  /\ Ins \in Nat /\ Outs \in Nat /\ Ints \in Nat /\ Len(Queue) = Ins + Outs + Ints
         /\ DOMAIN config.inputs = 1 .. Ins /\ DOMAIN config.outputs = 1 .. Outs
         /\ DOMAIN config.internals = 1 .. Ints
         /\ \A i \in 1 .. Ins :
              Queue[i] = [buff |-> config.inputs[i], usage |-> "input", last |-> i = Ins]
         /\ \A i \in 1 .. Outs :
              Queue[Ins + i] = [buff |-> config.outputs[i], usage |-> "output", last |-> i = Outs]
         /\ \A i \in 1 .. Ints :
              Queue[Ins + Outs + i] =
                [buff |-> config.internals[i], usage |-> "internal", last |-> i = Ints]
<1>1. DOMAIN config.inputs = 1 .. Len(config.inputs) /\ DOMAIN config.outputs = 1 .. Len(config.outputs)
      /\ DOMAIN config.internals = 1 .. Len(config.internals)
  BY ConfigFacts
<1> QED
  BY <1>1, QueueFacts, Zenon DEF Ins, Outs, Ints

-----------------------------------------------------------------------------
(* Types.                                                                  *)

\* The members of the tables; m is the number of the next multicast entry.
HostEntries == [mask : SUBSET Cores, size : Nat]
NspEntries == [mask : SUBSET Cores, size : Nat, space : Dests, offset : Nat]
RequestsUpTo(m) ==
  [dir : Usages, space : {"MC", "DDR"}, dev : Nat, size : Nat, mcId : 0 .. m,
   wait : 0 .. config.numNsps, init : BOOLEAN, doorbell : Nat]
DescsUpTo(m) ==
  [location : Dests, offset : Nat, size : Nat, waitDBNum : Nat, buffMCID : 0 .. m,
   nspMask : SUBSET Cores, usage : Usages, allowPartial : BOOLEAN]

\* TypeOK in terms of these.
LEMMA TypeFacts ==
  TypeOK <=>
    /\ config \in Configs
    /\ pc \in {"start", "buffers", "done", "rejected"}
    /\ mcId \in Nat /\ dbNum \in Nat
    /\ hostMc \in Seq(HostEntries)
    /\ nspMc \in [Cores -> Seq(NspEntries)]
    /\ requests \in Seq(RequestsUpTo(mcId))
    /\ DOMAIN words \subseteq Nat /\ \A o \in DOMAIN words : words[o] \in {0, 1}
    /\ sizes \in [Dests -> Nat]
    /\ buffers \in Seq(DescsUpTo(mcId))
  BY DEF TypeOK, HostEntries, NspEntries, RequestsUpTo, DescsUpTo

\* TypeFacts after a step.
LEMMA PrimedTypes ==
  TypeOK' <=>
    /\ config' \in Configs
    /\ pc' \in {"start", "buffers", "done", "rejected"}
    /\ mcId' \in Nat /\ dbNum' \in Nat
    /\ hostMc' \in Seq(HostEntries')
    /\ nspMc' \in [Cores' -> Seq(NspEntries')]
    /\ requests' \in Seq(RequestsUpTo(mcId)')
    /\ DOMAIN words' \subseteq Nat /\ (\A o \in DOMAIN words' : words'[o] \in {0, 1})
    /\ sizes' \in [Dests -> Nat]
    /\ buffers' \in Seq(DescsUpTo(mcId)')
  BY DEF TypeOK, HostEntries, NspEntries, RequestsUpTo, DescsUpTo

\* There are at most as many NSPs in a mask as NSPs.
LEMMA WaitFacts ==
  ASSUME config \in Configs, ConfigAccepted, NEW u \in {"input", "output"}
  PROVE  SemWait(u) \in 0 .. config.numNsps
<1>1. config.numNsps \in Nat
  BY ConfigFacts
<1>2. IsFiniteSet(Cores) /\ Cardinality(Cores) = config.numNsps
  <2>1. 0 \in Int /\ config.numNsps - 1 \in Int
    BY <1>1
  <2>2. IsFiniteSet(0 .. config.numNsps - 1)
        /\ Cardinality(0 .. config.numNsps - 1) =
             IF 0 > config.numNsps - 1 THEN 0 ELSE config.numNsps - 1 - 0 + 1
    BY <2>1, FS_Interval
  <2> QED
    BY <1>1, <2>2 DEF Cores
<1>3. MaskOf(config.inputs) \in SUBSET Cores
  BY DEF MaskOf, ConfigAccepted, NspsValid, NspMask
<1>4. Cardinality(MaskOf(config.inputs)) \in Nat
      /\ Cardinality(MaskOf(config.inputs)) <= config.numNsps
  BY <1>2, <1>3, FS_Subset, FS_CardinalityType
<1> QED
  BY <1>1, <1>4 DEF SemWait

\* What the next buffer changes.
Processes(k, b, u) ==
  /\ pc = "buffers" /\ UNCHANGED <<config, pc>> /\ ConfigAccepted
  /\ k = dbNum + 1 /\ dbNum' = k /\ k \in 1 .. Len(Queue) /\ Len(buffers) = dbNum
  /\ b = Queue[k].buff /\ u = Queue[k].usage
  /\ b \in Buffer /\ u \in Usages /\ Admitted(b) /\ NspMask(b) \in SUBSET Cores
  /\ AddMulticastEntries(b, u)
  /\ sizes' = [sizes EXCEPT ![b.dest] = Larger(@, b.base + b.dev + b.size)]
  /\ requests' = IF u = "internal" THEN requests
                 ELSE Append(requests, Request(b, u, Queue[k].last))
  /\ words' = [o \in DOMAIN words \union {dbNum * DbSize} |->
       IF o # dbNum * DbSize THEN words[o] ELSE IF u = "output" THEN 1 ELSE 0]
  /\ buffers' = Append(buffers, BufferDesc(b, u, dbNum, IF IsMC(b) THEN mcId ELSE 0, NspMask(b)))

\* ProcessBuff handles the buffer whose turn it is.
LEMMA ProcessFacts ==
  ASSUME IInv, ProcessBuff
  PROVE  Processes(dbNum + 1, Queue[dbNum + 1].buff, Queue[dbNum + 1].usage)
<1> DEFINE k == dbNum + 1
           b == Queue[k].buff
           u == Queue[k].usage
<1>1. TypeOK /\ Described /\ config \in Configs /\ dbNum \in Nat
  BY DEF IInv, TypeOK
<1>2. pc = "buffers" /\ Len(buffers) = dbNum /\ ConfigAccepted
  BY <1>1 DEF ProcessBuff, Described
<1>3. Current = Queue[k]
  BY <1>2 DEF Current
<1>4. k \in 1 .. Len(Queue)
  BY <1>1, <1>2, QueueFacts DEF ProcessBuff
<1>5. b \in Buffer /\ u \in Usages
  BY <1>1, <1>4, QueueFacts
<1>6. ~Rejected(b, u)
  BY <1>3 DEF ProcessBuff
<1>7. Admitted(b)
  <2>1. NspsValid(b) /\ ~PlacedWrong(b)
    BY <1>6 DEF Rejected
  <2>2. b.dest = "L2TCM" => ~(b.dev + b.base < ReservedSize)
    BY <2>1 DEF PlacedWrong
  <2>3. b.dest = "DDR" => b.base = 0
    BY <2>1 DEF PlacedWrong
  <2>4. ReservedSize \in Int
    <3>1. NumThreads \in Nat
      BY <1>1, ConfigFacts, SizeAssumption DEF NumThreads
    <3>2. NumThreads * LineSize \in Nat /\ NumThreads * LineSize * LinesPerThread \in Nat
      BY <3>1, SizeAssumption
    <3> QED
      BY <3>2, ReservedFacts DEF ReservedSize, RingsSize
  <2>5. b.dest = "L2TCM" => b.dev + b.base >= ReservedSize
    BY <1>5, <2>2, <2>4, BufferFacts
  <2> QED
    BY <2>1, <2>3, <2>5 DEF Admitted
<1>8. NspMask(b) \in SUBSET Cores
  BY <1>7 DEF Admitted, NspsValid, NspMask
<1>9. /\ AddMulticastEntries(b, u)
      /\ sizes' = [sizes EXCEPT ![b.dest] = Larger(@, b.base + b.dev + b.size)]
      /\ requests' = IF u = "internal" THEN requests
                     ELSE Append(requests, Request(b, u, Queue[k].last))
      /\ words' = [o \in DOMAIN words \union {dbNum * DbSize} |->
           IF o # dbNum * DbSize THEN words[o] ELSE IF u = "output" THEN 1 ELSE 0]
      /\ buffers' = Append(buffers, BufferDesc(b, u, dbNum, IF IsMC(b) THEN mcId ELSE 0, NspMask(b)))
      /\ dbNum' = dbNum + 1 /\ UNCHANGED <<config, pc>>
  BY <1>3 DEF ProcessBuff
<1> QED
  BY <1>1, <1>2, <1>4, <1>5, <1>7, <1>8, <1>9 DEF Processes

\* At the start all tables are empty.
LEMMA InitHolds == Init => IInv
<1> SUFFICES ASSUME Init PROVE IInv
  OBVIOUS
<1>1. config \in Configs /\ pc = "start" /\ mcId = 0 /\ dbNum = 0 /\ hostMc = <<>> /\ requests = <<>>
      /\ nspMc = [c \in Cores |-> <<>>] /\ DOMAIN words = {} /\ buffers = <<>>
      /\ sizes = [L2TCM |-> 1, VTCM |-> 1, DDR |-> 0]
  BY DEF Init
<1>2. Len(Queue) \in Nat /\ NumHostBuffers \in Nat
  BY <1>1, HostBufferFacts
<1>3. TypeOK
  <2>1. hostMc \in Seq(HostEntries) /\ requests \in Seq(RequestsUpTo(mcId))
        /\ buffers \in Seq(DescsUpTo(mcId))
    BY <1>1, EmptySeq
  <2>2. nspMc \in [Cores -> Seq(NspEntries)]
    BY <1>1, EmptySeq
  <2>3. sizes \in [Dests -> Nat]
    BY <1>1 DEF Dests
  <2> QED
    BY <1>1, <2>1, <2>2, <2>3, TypeFacts
<1>4. Described
  BY <1>1, <1>2 DEF Described
<1>5. EntriesFit
  BY <1>1 DEF EntriesFit
<1>6. RequestsFollow
  BY <1>1, <1>2 DEF RequestsFollow
<1>7. WordsStart /\ MemoryHolds
  BY <1>1 DEF WordsStart, MemoryHolds
<1> QED
  BY <1>3, <1>4, <1>5, <1>6, <1>7 DEF IInv

\* The next entry leaves the types of the earlier ones valid.
LEMMA TypesGrow ==
  ASSUME NEW m \in Nat
  PROVE  RequestsUpTo(m) \subseteq RequestsUpTo(m + 1) /\ DescsUpTo(m) \subseteq DescsUpTo(m + 1)
<1>1. 0 .. m \subseteq 0 .. m + 1
  OBVIOUS
<1> QED
  BY <1>1 DEF RequestsUpTo, DescsUpTo

\* Processing a buffer keeps the types.
LEMMA ProcessTypes ==
  ASSUME IInv, ProcessBuff
  PROVE  TypeOK'
<1> DEFINE k == dbNum + 1
           b == Queue[k].buff
           u == Queue[k].usage
<1>0. /\ config \in Configs /\ mcId \in Nat /\ dbNum \in Nat
      /\ hostMc \in Seq(HostEntries) /\ nspMc \in [Cores -> Seq(NspEntries)]
      /\ requests \in Seq(RequestsUpTo(mcId)) /\ buffers \in Seq(DescsUpTo(mcId))
      /\ DOMAIN words \subseteq Nat /\ (\A o \in DOMAIN words : words[o] \in {0, 1})
      /\ sizes \in [Dests -> Nat]
  BY TypeFacts DEF IInv
<1>1. Processes(k, b, u)
  BY ProcessFacts
<1>2. b \in Buffer /\ u \in Usages /\ NspMask(b) \in SUBSET Cores /\ config' = config
      /\ pc' = "buffers" /\ dbNum' = dbNum + 1 /\ ConfigAccepted
  BY <1>1 DEF Processes
<1>3. b.dest \in Dests /\ b.dev \in Nat /\ b.base \in Nat /\ b.size \in Nat
      /\ b.allowPartial \in BOOLEAN
  BY <1>2, BufferFacts
<1>4. k \in 1 .. Len(Queue) /\ Queue[k].last \in BOOLEAN
  <2>1. k \in 1 .. Len(Queue)
    BY <1>1 DEF Processes
  <2> QED
    BY <1>0, <2>1, QueueFacts
<1> DEFINE last == Queue[k].last
<1>5. /\ AddMulticastEntries(b, u)
      /\ sizes' = [sizes EXCEPT ![b.dest] = Larger(@, b.base + b.dev + b.size)]
      /\ requests' = IF u = "internal" THEN requests ELSE Append(requests, Request(b, u, last))
      /\ words' = [o \in DOMAIN words \union {dbNum * DbSize} |->
           IF o # dbNum * DbSize THEN words[o] ELSE IF u = "output" THEN 1 ELSE 0]
      /\ buffers' = Append(buffers, BufferDesc(b, u, dbNum, IF IsMC(b) THEN mcId ELSE 0, NspMask(b)))
  BY <1>1 DEF Processes
<1> HIDE DEF b, u, last
<1>6. mcId' \in {mcId, mcId + 1} /\ hostMc' \in Seq(HostEntries)
      /\ nspMc' \in [Cores -> Seq(NspEntries)]
  <2>1. CASE IsMC(b)
    <3>1. mcId' = mcId + 1
      BY <1>5, <2>1 DEF AddMulticastEntries
    <3>2. hostMc' \in Seq(HostEntries)
      <4>1. [mask |-> NspMask(b), size |-> b.size] \in HostEntries
        BY <1>2, <1>3 DEF HostEntries
      <4>2. hostMc' = IF u = "internal" THEN hostMc
                      ELSE Append(hostMc, [mask |-> NspMask(b), size |-> b.size])
        BY <1>5, <2>1 DEF AddMulticastEntries
      <4> QED
        BY <1>0, <4>1, <4>2, AppendProperties
    <3>3. nspMc' \in [Cores -> Seq(NspEntries)]
      <4> DEFINE new == [mask |-> IF u = "internal" THEN NspMask(b) ELSE {},
                         size |-> b.size, space |-> b.dest, offset |-> b.base]
      <4>1. new \in NspEntries
        BY <1>2, <1>3 DEF NspEntries
      <4>2. nspMc' = [c \in Cores |-> Append(nspMc[c], new)]
        BY <1>5, <2>1 DEF AddMulticastEntries
      <4> HIDE DEF new
      <4> QED
        BY <1>0, <4>1, <4>2, AppendProperties
    <3> QED
      BY <3>1, <3>2, <3>3
  <2>2. CASE ~IsMC(b)
    BY <1>0, <1>5, <2>2 DEF AddMulticastEntries
  <2> QED
    BY <2>1, <2>2
<1>7. /\ mcId' \in Nat /\ mcId \in 0 .. mcId' /\ 0 \in 0 .. mcId'
      /\ requests \in Seq(RequestsUpTo(mcId')) /\ buffers \in Seq(DescsUpTo(mcId'))
  <2>1. mcId' \in Nat /\ mcId \in 0 .. mcId' /\ 0 \in 0 .. mcId'
    BY <1>0, <1>6
  <2>2. RequestsUpTo(mcId) \subseteq RequestsUpTo(mcId') /\ DescsUpTo(mcId) \subseteq DescsUpTo(mcId')
    BY <1>0, <1>6, TypesGrow
  <2> QED
    BY <1>0, <2>1, <2>2, SeqMonotonic
<1>8. dbNum * DbSize \in Nat
  BY <1>0, ReservedFacts
<1>9. requests' \in Seq(RequestsUpTo(mcId'))
  <2>1. u /= "internal" => Request(b, u, last) \in RequestsUpTo(mcId')
    <3>1. (IF IsMC(b) THEN mcId ELSE 0) \in 0 .. mcId'
      BY <1>7
    <3>2. u /= "internal" => SemWait(u) \in 0 .. config.numNsps
      BY <1>0, <1>2, WaitFacts DEF Usages
    <3>3. last \in BOOLEAN
      BY <1>4 DEF last
    <3> QED
      BY <1>2, <1>3, <1>8, <3>1, <3>2, <3>3 DEF Request, RequestsUpTo
  <2> HIDE DEF last
  <2> QED
    BY <1>5, <1>7, <2>1, AppendProperties
<1>10. buffers' \in Seq(DescsUpTo(mcId'))
  <2> DEFINE new == BufferDesc(b, u, dbNum, IF IsMC(b) THEN mcId ELSE 0, NspMask(b))
  <2>1. new \in DescsUpTo(mcId')
    <3>1. (IF IsMC(b) THEN mcId ELSE 0) \in 0 .. mcId' /\ b.dev + b.base \in Nat
      BY <1>3, <1>7
    <3> QED
      BY <1>0, <1>2, <1>3, <3>1 DEF BufferDesc, DescsUpTo
  <2>2. buffers' = Append(buffers, new)
    BY <1>5
  <2> HIDE DEF new
  <2> QED
    BY <1>7, <2>1, <2>2, AppendProperties
<1>11. sizes' \in [Dests -> Nat]
  <2>1. Larger(sizes[b.dest], b.base + b.dev + b.size) \in Nat
    BY <1>0, <1>3 DEF Larger
  <2> QED
    BY <1>0, <1>5, <2>1
<1>12. DOMAIN words' \subseteq Nat /\ \A o \in DOMAIN words' : words'[o] \in {0, 1}
  BY <1>0, <1>5, <1>8
<1>13. RequestsUpTo(mcId)' = RequestsUpTo(mcId') /\ DescsUpTo(mcId)' = DescsUpTo(mcId')
       /\ HostEntries' = HostEntries /\ NspEntries' = NspEntries /\ Cores' = Cores
  BY <1>2, ConfigFixed DEF RequestsUpTo, DescsUpTo, HostEntries, NspEntries
<1> QED
  BY <1>0, <1>2, <1>6, <1>7, <1>9, <1>10, <1>11, <1>12, <1>13, PrimedTypes

\* The processed buffer is the next of the descriptor, the earlier ones stay.
LEMMA ProcessAppends ==
  ASSUME IInv, ProcessBuff
  PROVE  LET b == Queue[dbNum + 1].buff
             u == Queue[dbNum + 1].usage
         IN  /\ dbNum \in Nat /\ Len(buffers) = dbNum /\ Len(buffers') = dbNum + 1
             /\ \A i \in 1 .. dbNum : buffers'[i] = buffers[i]
             /\ buffers'[dbNum + 1] =
                  BufferDesc(b, u, dbNum, IF IsMC(b) THEN mcId ELSE 0, NspMask(b))
             /\ \A i \in 1 .. dbNum' : i \in 1 .. dbNum \/ i = dbNum + 1
<1> DEFINE k == dbNum + 1
           b == Queue[k].buff
           u == Queue[k].usage
           new == BufferDesc(b, u, dbNum, IF IsMC(b) THEN mcId ELSE 0, NspMask(b))
<1>1. Processes(k, b, u)
  BY ProcessFacts
<1>2. dbNum \in Nat /\ buffers \in Seq(DescsUpTo(mcId)) /\ Len(buffers) = dbNum
      /\ dbNum' = dbNum + 1 /\ buffers' = Append(buffers, new)
  BY <1>1, TypeFacts DEF IInv, Processes
<1> HIDE DEF new
<1>3. Len(buffers') = dbNum + 1 /\ (\A i \in 1 .. dbNum : buffers'[i] = buffers[i])
      /\ buffers'[dbNum + 1] = new
  BY <1>2, AppendProperties
<1>4. \A i \in 1 .. dbNum' : i \in 1 .. dbNum \/ i = dbNum + 1
  BY <1>2
<1> QED
  BY <1>2, <1>3, <1>4, Zenon DEF new

\* Processing a buffer describes it.
LEMMA ProcessDescribed ==
  ASSUME IInv, ProcessBuff
  PROVE  Described'
<1> DEFINE k == dbNum + 1
           b == Queue[k].buff
           u == Queue[k].usage
<1>1. Processes(k, b, u)
  BY ProcessFacts
<1>2. Described /\ dbNum \in Nat
  BY DEF IInv, TypeOK
<1>3. /\ config' = config /\ pc' = "buffers" /\ dbNum' = k /\ k <= Len(Queue) /\ ConfigAccepted
      /\ Admitted(b)
  BY <1>1, <1>2 DEF Processes
<1>4. /\ Len(buffers') = k /\ (\A i \in 1 .. dbNum : buffers'[i] = buffers[i])
      /\ buffers'[k] = BufferDesc(b, u, dbNum, IF IsMC(b) THEN mcId ELSE 0, NspMask(b))
      /\ (\A i \in 1 .. dbNum' : i \in 1 .. dbNum \/ i = k)
  BY ProcessAppends
<1>5. Queue' = Queue /\ ConfigAccepted'
      /\ \A a : NspMask(a)' = NspMask(a) /\ Admitted(a)' = Admitted(a)
  BY <1>3, ConfigFixed
<1>6. ASSUME NEW i \in 1 .. dbNum'
      PROVE  /\ buffers'[i] = BufferDesc(Queue[i].buff, Queue[i].usage, i - 1, buffers'[i].buffMCID,
                                         NspMask(Queue[i].buff))
             /\ Admitted(Queue[i].buff)
  <2>1. CASE i \in 1 .. dbNum
    BY <1>2, <1>4, <2>1 DEF Described
  <2>2. CASE i = k
    <3>1. k - 1 = dbNum
      BY <1>2
    <3>2. buffers'[k] = BufferDesc(b, u, k - 1, buffers'[k].buffMCID, NspMask(b))
      BY <1>4, <3>1 DEF BufferDesc
    <3> QED
      BY <1>3, <2>2, <3>2
  <2> QED
    BY <1>4, <2>1, <2>2
<1> QED
  BY <1>3, <1>4, <1>5, <1>6 DEF Described

\* Processing a buffer gives it the entry of its number.
LEMMA ProcessEntries ==
  ASSUME IInv, ProcessBuff
  PROVE  EntriesFit'
<1> DEFINE k == dbNum + 1
           b == Queue[k].buff
           u == Queue[k].usage
<1>1. Processes(k, b, u)
  BY ProcessFacts
<1>2. /\ EntriesFit /\ dbNum \in Nat /\ mcId \in Nat /\ config \in Configs
      /\ hostMc \in Seq(HostEntries) /\ nspMc \in [Cores -> Seq(NspEntries)]
  BY TypeFacts DEF IInv
<1>3. config' = config /\ dbNum' = k /\ k \in 1 .. Len(Queue) /\ AddMulticastEntries(b, u)
  BY <1>1 DEF Processes
<1>4. /\ \A i \in 1 .. dbNum : buffers'[i] = buffers[i]
      /\ buffers'[k] = BufferDesc(b, u, dbNum, IF IsMC(b) THEN mcId ELSE 0, NspMask(b))
      /\ \A i \in 1 .. dbNum' : i \in 1 .. dbNum \/ i = k
  BY ProcessAppends
<1>5. Queue' = Queue /\ Cores' = Cores /\ NumHostBuffers' = NumHostBuffers
      /\ \A a : NspMask(a)' = NspMask(a)
  BY <1>3, ConfigFixed
<1>6. Len(hostMc) \in Nat /\ NumHostBuffers \in Nat
  BY <1>2, HostBufferFacts
<1>7. k <= NumHostBuffers <=> u /= "internal"
  BY <1>2, <1>3, UsageFacts
<1> HIDE DEF b, u
<1>8. CASE IsMC(b)
  <2> DEFINE hostEntry == [mask |-> NspMask(b), size |-> b.size]
             nspEntry == [mask |-> IF u = "internal" THEN NspMask(b) ELSE {},
                          size |-> b.size, space |-> b.dest, offset |-> b.base]
  <2>1. /\ mcId' = mcId + 1
        /\ hostMc' = IF u = "internal" THEN hostMc ELSE Append(hostMc, hostEntry)
        /\ nspMc' = [c \in Cores |-> Append(nspMc[c], nspEntry)]
    BY <1>3, <1>8 DEF AddMulticastEntries
  <2>2. nspEntry.space = b.dest /\ nspEntry.offset = b.base
    OBVIOUS
  <2>e. hostEntry \in HostEntries /\ nspEntry \in NspEntries
    BY <1>1, BufferFacts DEF Processes, HostEntries, NspEntries, b
  <2> HIDE DEF hostEntry, nspEntry
  <2>3. \A c \in Cores : /\ Len(nspMc[c]) = mcId /\ Len(nspMc'[c]) = mcId + 1
                         /\ nspMc'[c][mcId + 1] = nspEntry
                         /\ \A m \in 0 .. mcId - 1 : nspMc'[c][m + 1] = nspMc[c][m + 1]
    <3> TAKE c \in Cores
    <3>1. nspMc[c] \in Seq(NspEntries) /\ Len(nspMc[c]) = mcId /\ nspMc'[c] = Append(nspMc[c], nspEntry)
      BY <1>2, <2>1 DEF EntriesFit
    <3>2. \A m \in 0 .. mcId - 1 : m + 1 \in 1 .. mcId
      BY <1>2
    <3> QED
      BY <1>2, <2>e, <3>1, <3>2, AppendProperties
  <2>4. /\ Len(hostMc') = IF u = "internal" THEN Len(hostMc) ELSE Len(hostMc) + 1
        /\ \A m \in 0 .. Len(hostMc) - 1 : hostMc'[m + 1] = hostMc[m + 1]
        /\ u /= "internal" => hostMc'[Len(hostMc) + 1] = hostEntry
    <3>1. \A m \in 0 .. Len(hostMc) - 1 : m + 1 \in 1 .. Len(hostMc)
      BY <1>6
    <3> QED
      BY <1>2, <2>1, <2>e, <3>1, AppendProperties
  <2>5. Len(hostMc) <= mcId /\ (dbNum <= NumHostBuffers => Len(hostMc) = mcId)
    BY <1>2 DEF EntriesFit
  <2>6. Len(hostMc') <= mcId' /\ (dbNum' <= NumHostBuffers => Len(hostMc') = mcId')
    BY <1>2, <1>3, <1>6, <1>7, <2>1, <2>4, <2>5
  <2>7. ASSUME NEW i \in 1 .. dbNum'
        PROVE  LET a == Queue[i].buff
                   m == buffers'[i].buffMCID
               IN  IF IsMC(a)
                     THEN /\ m \in Nat /\ m < mcId'
                          /\ \A c \in Cores : nspMc'[c][m + 1].space = a.dest
                                              /\ nspMc'[c][m + 1].offset = a.base
                          /\ Queue[i].usage /= "internal" =>
                               m < Len(hostMc')
                               /\ hostMc'[m + 1] = [mask |-> NspMask(a), size |-> a.size]
                     ELSE m = 0
    <3>1. CASE i \in 1 .. dbNum
      <4> DEFINE a == Queue[i].buff
                 m == buffers[i].buffMCID
      <4>1. buffers'[i] = buffers[i]
        BY <1>4, <3>1
      <4>2. CASE IsMC(a)
        <5>1. /\ m \in Nat /\ m < mcId
              /\ \A c \in Cores : nspMc[c][m + 1].space = a.dest /\ nspMc[c][m + 1].offset = a.base
              /\ Queue[i].usage /= "internal" =>
                   m < Len(hostMc) /\ hostMc[m + 1] = [mask |-> NspMask(a), size |-> a.size]
          BY <1>2, <3>1, <4>2 DEF EntriesFit
        <5>2. m \in 0 .. mcId - 1 /\ m < mcId' /\ (m < Len(hostMc) => m \in 0 .. Len(hostMc) - 1)
              /\ (m < Len(hostMc) => m < Len(hostMc'))
          BY <1>2, <1>6, <2>1, <2>4, <5>1
        <5> HIDE DEF a, m
        <5>3. \A c \in Cores : nspMc'[c][m + 1].space = a.dest /\ nspMc'[c][m + 1].offset = a.base
          BY <2>3, <5>1, <5>2
        <5>4. Queue[i].usage /= "internal" =>
                m < Len(hostMc') /\ hostMc'[m + 1] = [mask |-> NspMask(a), size |-> a.size]
          BY <2>4, <5>1, <5>2
        <5> QED
          BY <4>1, <4>2, <5>1, <5>2, <5>3, <5>4 DEF a, m
      <4>3. CASE ~IsMC(a)
        BY <1>2, <3>1, <4>1, <4>3 DEF EntriesFit
      <4> QED
        BY <4>2, <4>3
    <3>2. CASE i = k
      <4>1. buffers'[k].buffMCID = mcId
        BY <1>4, <1>8 DEF BufferDesc
      <4>2. mcId \in Nat /\ mcId < mcId'
        BY <1>2, <2>1
      <4>3. \A c \in Cores : nspMc'[c][mcId + 1].space = b.dest /\ nspMc'[c][mcId + 1].offset = b.base
        BY <2>2, <2>3
      <4>4. u /= "internal" => mcId < Len(hostMc') /\ hostMc'[mcId + 1] = hostEntry
        BY <1>2, <1>3, <1>6, <1>7, <2>4, <2>5
      <4> QED
        BY <1>8, <3>2, <4>1, <4>2, <4>3, <4>4 DEF b, u, hostEntry
    <3> QED
      BY <1>4, <3>1, <3>2
  <2>8. \A c \in Cores : Len(nspMc'[c]) = mcId'
    BY <2>1, <2>3
  <2> QED
    BY <1>5, <2>6, <2>7, <2>8 DEF EntriesFit
<1>9. CASE ~IsMC(b)
  <2>1. hostMc' = hostMc /\ nspMc' = nspMc /\ mcId' = mcId
    BY <1>3, <1>9 DEF AddMulticastEntries
  <2>2. buffers'[k].buffMCID = 0
    BY <1>4, <1>9 DEF BufferDesc
  <2>3. dbNum' <= NumHostBuffers => dbNum <= NumHostBuffers
    BY <1>2, <1>3, <1>6
  <2>4. ASSUME NEW i \in 1 .. dbNum'
        PROVE  LET a == Queue[i].buff
                   m == buffers'[i].buffMCID
               IN  IF IsMC(a)
                     THEN /\ m \in Nat /\ m < mcId
                          /\ \A c \in Cores : nspMc[c][m + 1].space = a.dest
                                              /\ nspMc[c][m + 1].offset = a.base
                          /\ Queue[i].usage /= "internal" =>
                               m < Len(hostMc) /\ hostMc[m + 1] = [mask |-> NspMask(a), size |-> a.size]
                     ELSE m = 0
    <3>1. CASE i \in 1 .. dbNum
      BY <1>2, <1>4, <3>1 DEF EntriesFit
    <3>2. CASE i = k
      BY <1>9, <2>2, <3>2 DEF b
    <3> QED
      BY <1>4, <3>1, <3>2
  <2> QED
    BY <1>2, <1>5, <2>1, <2>3, <2>4 DEF EntriesFit
<1> QED
  BY <1>8, <1>9

\* Processing an input or output appends its request.
LEMMA ProcessRequests ==
  ASSUME IInv, ProcessBuff
  PROVE  RequestsFollow'
<1> DEFINE k == dbNum + 1
           b == Queue[k].buff
           u == Queue[k].usage
           last == Queue[k].last
<1>1. Processes(k, b, u)
  BY ProcessFacts
<1>2. RequestsFollow /\ dbNum \in Nat /\ config \in Configs /\ requests \in Seq(RequestsUpTo(mcId))
  BY TypeFacts DEF IInv
<1>3. /\ config' = config /\ dbNum' = k /\ k \in 1 .. Len(Queue)
      /\ requests' = IF u = "internal" THEN requests ELSE Append(requests, Request(b, u, last))
  BY <1>1 DEF Processes
<1>4. /\ \A i \in 1 .. dbNum : buffers'[i] = buffers[i]
      /\ buffers'[k] = BufferDesc(b, u, dbNum, IF IsMC(b) THEN mcId ELSE 0, NspMask(b))
  BY ProcessAppends
<1>5. Queue' = Queue /\ NumHostBuffers' = NumHostBuffers /\ \A a : SemWait(a)' = SemWait(a)
  BY <1>3, ConfigFixed
<1>6. NumHostBuffers \in Nat
  BY <1>2, HostBufferFacts
<1>7. k <= NumHostBuffers <=> u /= "internal"
  BY <1>2, <1>3, UsageFacts
<1> DEFINE Of(n, mc) ==
             [dir |-> Queue[n].usage, space |-> IF IsMC(Queue[n].buff) THEN "MC" ELSE "DDR",
              dev |-> Queue[n].buff.dev, size |-> Queue[n].buff.size, mcId |-> mc,
              wait |-> SemWait(Queue[n].usage), init |-> Queue[n].last, doorbell |-> (n - 1) * DbSize]
<1>8. \A n \in 1 .. Len(requests) : requests[n] = Of(n, buffers[n].buffMCID)
  BY <1>2 DEF RequestsFollow
<1>9. Len(requests) = IF dbNum <= NumHostBuffers THEN dbNum ELSE NumHostBuffers
  BY <1>2 DEF RequestsFollow
<1>10. Request(b, u, last) = Of(k, buffers'[k].buffMCID)
  <2>1. k - 1 = dbNum
    BY <1>2
  <2>2. buffers'[k].buffMCID = IF IsMC(b) THEN mcId ELSE 0
    BY <1>4 DEF BufferDesc
  <2> QED
    BY <2>1, <2>2, Zenon DEF Request
<1> HIDE DEF b, u, last, Of
<1>11. /\ Len(requests') = IF dbNum' <= NumHostBuffers THEN dbNum' ELSE NumHostBuffers
       /\ \A n \in 1 .. Len(requests') : requests'[n] = Of(n, buffers'[n].buffMCID)
  <2>1. CASE u = "internal"
    <3>1. requests' = requests /\ ~(k <= NumHostBuffers)
      BY <1>3, <1>7, <2>1
    <3>2. Len(requests) = NumHostBuffers /\ NumHostBuffers <= dbNum
      BY <1>2, <1>6, <1>9, <3>1
    <3>3. \A n \in 1 .. Len(requests) : buffers'[n] = buffers[n]
      BY <1>2, <1>4, <1>6, <3>2
    <3> QED
      BY <1>3, <1>8, <3>1, <3>2, <3>3
  <2>2. CASE u /= "internal"
    <3>1. Len(requests) = dbNum /\ k <= NumHostBuffers
      BY <1>2, <1>6, <1>7, <1>9, <2>2
    <3>2. /\ Len(requests') = k /\ requests'[k] = Request(b, u, last)
          /\ \A n \in 1 .. dbNum : requests'[n] = requests[n]
      <4> DEFINE new == Request(b, u, last)
                 T == RequestsUpTo(mcId) \union {new}
      <4>1. RequestsUpTo(mcId) \subseteq T /\ new \in T
        OBVIOUS
      <4> HIDE DEF T, new
      <4>2. requests \in Seq(T) /\ new \in T
        BY <1>2, <4>1, SeqMonotonic
      <4>3. requests' = Append(requests, new)
        BY <1>3, <2>2 DEF new
      <4>4. Len(requests') = k /\ requests'[k] = new /\ \A n \in 1 .. dbNum : requests'[n] = requests[n]
        BY <3>1, <4>2, <4>3, AppendProperties
      <4> QED
        BY <4>4 DEF new
    <3>3. ASSUME NEW n \in 1 .. Len(requests')
          PROVE  requests'[n] = Of(n, buffers'[n].buffMCID)
      <4>1. n \in 1 .. dbNum \/ n = k
        BY <1>2, <3>2
      <4> QED
        BY <1>4, <1>8, <1>10, <3>1, <3>2, <4>1
    <3> QED
      BY <1>3, <3>1, <3>2, <3>3
  <2> QED
    BY <2>1, <2>2
<1> QED
  BY <1>5, <1>11 DEF RequestsFollow, Of

\* Processing a buffer writes no word but that of its doorbell.
LEMMA ProcessWords ==
  ASSUME IInv, ProcessBuff
  PROVE  WordsStart'
<1> DEFINE k == dbNum + 1
           b == Queue[k].buff
           u == Queue[k].usage
           db == dbNum * DbSize
<1>1. Processes(k, b, u)
  BY ProcessFacts
<1>2. WordsStart /\ dbNum \in Nat /\ MaxDoorbells \in Nat
  BY SizeAssumption DEF IInv, TypeOK
<1>3. /\ config' = config /\ dbNum' = k /\ pc = "buffers"
      /\ words' = [o \in DOMAIN words \union {db} |->
           IF o # db THEN words[o] ELSE IF u = "output" THEN 1 ELSE 0]
  BY <1>1 DEF Processes
<1>4. Queue' = Queue
  BY <1>3, ConfigFixed
<1> HIDE DEF db
<1>5. /\ \A o \in DOMAIN words : o \in DOMAIN words' /\ (o /= db => words'[o] = words[o])
      /\ db \in DOMAIN words' /\ words'[db] = IF u = "output" THEN 1 ELSE 0
  BY <1>3
<1>6. ASSUME NEW i \in 1 .. dbNum'
      PROVE  /\ (i - 1) * DbSize \in DOMAIN words'
             /\ words'[(i - 1) * DbSize] = IF Queue[i].usage = "output" THEN 1 ELSE 0
  <2>1. CASE i \in 1 .. dbNum
    <3>1. i - 1 \in Nat /\ i - 1 /= dbNum
      BY <1>2, <2>1
    <3>2. (i - 1) * DbSize /= db
      BY <1>2, <3>1, ReservedFacts DEF db
    <3>3. (i - 1) * DbSize \in DOMAIN words
          /\ words[(i - 1) * DbSize] = IF Queue[i].usage = "output" THEN 1 ELSE 0
      BY <1>2, <1>3, <2>1 DEF WordsStart
    <3> QED
      BY <1>5, <3>2, <3>3
  <2>2. CASE i = k
    <3>1. i - 1 = dbNum
      BY <1>2, <2>2
    <3> QED
      BY <1>5, <2>2, <3>1 DEF db
  <2> QED
    BY <1>2, <1>3, <2>1, <2>2
<1>7. ASSUME dbNum' <= MaxDoorbells
      PROVE  /\ {ExitDb * DbSize, DummyOffset + DbSize} \subseteq DOMAIN words'
             /\ words'[ExitDb * DbSize] = 0 /\ words'[DummyOffset + DbSize] = 1
  <2>1. dbNum <= MaxDoorbells /\ dbNum \in 0 .. ExitDb /\ dbNum /= ExitDb
    BY <1>2, <1>3, <1>7 DEF ExitDb
  <2>2. ExitDb * DbSize /= db
    BY <2>1, ReservedFacts DEF db
  <2>3. DummyOffset + DbSize /= db
    BY <2>1, ReservedFacts DEF db
  <2>4. {ExitDb * DbSize, DummyOffset + DbSize} \subseteq DOMAIN words
        /\ words[ExitDb * DbSize] = 0 /\ words[DummyOffset + DbSize] = 1
    BY <1>2, <1>3, <2>1 DEF WordsStart
  <2> QED
    BY <1>5, <2>2, <2>3, <2>4
<1> QED
  BY <1>4, <1>6, <1>7 DEF WordsStart, ExitDb, DummyOffset, DbSpaceSize

\* Processing a buffer asks for memory enough.
LEMMA ProcessMemory ==
  ASSUME IInv, ProcessBuff
  PROVE  MemoryHolds'
<1> DEFINE k == dbNum + 1
           b == Queue[k].buff
           u == Queue[k].usage
<1>1. Processes(k, b, u)
  BY ProcessFacts
<1>2. MemoryHolds /\ dbNum \in Nat /\ sizes \in [Dests -> Nat] /\ buffers \in Seq(DescsUpTo(mcId))
  BY TypeFacts DEF IInv
<1>3. sizes' = [sizes EXCEPT ![b.dest] = Larger(@, b.base + b.dev + b.size)]
      /\ b \in Buffer
  BY <1>1 DEF Processes
<1>4. /\ \A i \in 1 .. dbNum : buffers'[i] = buffers[i]
      /\ buffers'[k] = BufferDesc(b, u, dbNum, IF IsMC(b) THEN mcId ELSE 0, NspMask(b))
      /\ \A i \in 1 .. dbNum' : i \in 1 .. dbNum \/ i = k
      /\ Len(buffers) = dbNum
  BY ProcessAppends
<1>5. b.dest \in Dests /\ b.dev \in Nat /\ b.base \in Nat /\ b.size \in Nat
  BY <1>3, BufferFacts
<1>6. buffers'[k].offset = b.dev + b.base /\ buffers'[k].size = b.size /\ buffers'[k].location = b.dest
  BY <1>4 DEF BufferDesc
<1> HIDE DEF b, u
<1>7. \A d \in Dests : sizes'[d] \in Nat /\ sizes[d] \in Nat /\ sizes[d] <= sizes'[d]
  BY <1>2, <1>3, <1>5 DEF Larger
<1>8. b.dev + b.base + b.size <= sizes'[b.dest]
  BY <1>2, <1>3, <1>5 DEF Larger
<1>9. ASSUME NEW i \in 1 .. dbNum
      PROVE  buffers'[i].offset + buffers'[i].size <= sizes'[buffers'[i].location]
  <2>1. buffers[i] \in DescsUpTo(mcId)
    BY <1>2, <1>4, ElementOfSeq
  <2>2. buffers[i].offset \in Nat /\ buffers[i].size \in Nat /\ buffers[i].location \in Dests
    BY <2>1 DEF DescsUpTo
  <2>3. buffers[i].offset + buffers[i].size <= sizes[buffers[i].location]
    BY <1>2 DEF MemoryHolds
  <2> QED
    BY <1>4, <1>7, <2>2, <2>3
<1> QED
  BY <1>4, <1>6, <1>8, <1>9 DEF MemoryHolds

-----------------------------------------------------------------------------
(* The other steps.                                                        *)

\* The offsets and sizes of the reserved part are numbers.
LEMMA RingFacts ==
  ASSUME config \in Configs
  PROVE  /\ NumThreads \in Nat /\ RingsOffset \in Nat /\ RingsSize \in Nat /\ ReservedSize \in Nat
         /\ NumThreads >= 1 => ReservedSize >= DummyOffset + DescSize
<1>1. NumThreads \in Nat
  BY ConfigFacts, SizeAssumption DEF NumThreads
<1>2. LineSize \in Nat \ {0} /\ DescSize \in Nat \ {0} /\ LinesPerThread \in Nat
      /\ DescSize <= LineSize /\ LinesPerThread >= 1
  BY SizeAssumption, DescriptorAssumption
<1>3. RingsOffset \in Nat
  BY <1>2, ReservedFacts, AlignToFacts DEF RingsOffset
<1>4. RingsSize \in Nat /\ (NumThreads >= 1 => RingsSize >= LineSize)
  <2>1. NumThreads * LineSize \in Nat /\ (NumThreads >= 1 => NumThreads * LineSize >= LineSize)
    BY <1>1, <1>2
  <2> DEFINE n == NumThreads * LineSize
  <2>2. n \in Nat
    BY <2>1
  <2> HIDE DEF n
  <2>3. n * LinesPerThread \in Nat /\ n * LinesPerThread >= n
    BY <1>2, <2>2
  <2> QED
    BY <1>2, <2>1, <2>3 DEF RingsSize, n
<1> QED
  BY <1>1, <1>2, <1>3, <1>4, ReservedFacts DEF ReservedSize

\* The first entries are reserved and the first words set.
LEMMA ReserveHolds ==
  ASSUME IInv, ReserveL2tcm
  PROVE  IInv'
<1>1. /\ config \in Configs /\ dbNum \in Nat /\ mcId \in Nat /\ sizes \in [Dests -> Nat]
      /\ requests \in Seq(RequestsUpTo(mcId)) /\ buffers \in Seq(DescsUpTo(mcId))
      /\ pc = "start" /\ Described /\ RequestsFollow
  BY TypeFacts DEF IInv, ReserveL2tcm
<1>2. dbNum = 0 /\ mcId = 0 /\ Len(buffers) = 0
  BY <1>1 DEF Described
<1>3. Len(Queue) \in Nat /\ NumHostBuffers \in Nat
  BY <1>1, HostBufferFacts
<1>4. Len(requests) = 0
  BY <1>1, <1>2, <1>3 DEF RequestsFollow
<1> DEFINE hostEntry == [mask |-> Cores, size |-> DbSpaceSize]
           nspEntry(c) == [mask |-> Cores \ {c}, size |-> DbSpaceSize, space |-> "L2TCM", offset |-> 0]
<1>5. /\ config' = config /\ pc' = "buffers" /\ dbNum' = 0 /\ requests' = requests /\ buffers' = buffers
      /\ mcId' = 1 /\ ConfigAccepted /\ hostMc' = <<hostEntry>>
      /\ nspMc' = [c \in Cores |-> <<nspEntry(c)>>]
      /\ sizes' = [sizes EXCEPT !.L2TCM = Larger(@, ReservedSize)]
      /\ words' = [o \in {DummyOffset + i * DbSize : i \in 0 .. (DescSize \div DbSize) - 1}
                           \union {ExitDb * DbSize}
                    |-> IF o = DummyOffset + DbSize THEN 1 ELSE 0]
  BY <1>2 DEF ReserveL2tcm
<1>6. Queue' = Queue /\ Cores' = Cores /\ ConfigAccepted' /\ NumHostBuffers' = NumHostBuffers
  BY <1>5, ConfigFixed
<1>7. /\ DbSize \in Nat \ {0} /\ DescSize \in Nat /\ 2 * DbSize <= DescSize /\ DummyOffset \in Nat
      /\ ExitDb * DbSize \in Nat /\ ExitDb * DbSize + DbSize <= DummyOffset
  BY ReservedFacts, SizeAssumption, DescriptorAssumption
<1>8. DbSpaceSize \in Nat
  BY SizeAssumption DEF DbSpaceSize
<1>9. hostEntry \in HostEntries /\ \A c \in Cores : nspEntry(c) \in NspEntries
  BY <1>8 DEF HostEntries, NspEntries, Dests
<1>10. hostMc' \in Seq(HostEntries) /\ Len(hostMc') = 1
  <2> HIDE DEF hostEntry
  <2> QED
    BY <1>5, <1>9
<1>11. nspMc' \in [Cores -> Seq(NspEntries)] /\ \A c \in Cores : Len(nspMc'[c]) = 1
  <2> HIDE DEF nspEntry
  <2> QED
    BY <1>5, <1>9
<1>12. requests' \in Seq(RequestsUpTo(1)) /\ buffers' \in Seq(DescsUpTo(1))
  <2>1. RequestsUpTo(0) \subseteq RequestsUpTo(0 + 1) /\ DescsUpTo(0) \subseteq DescsUpTo(0 + 1)
    BY TypesGrow
  <2>2. 0 + 1 = 1
    OBVIOUS
  <2> QED
    BY <1>1, <1>2, <1>5, <2>1, <2>2, SeqMonotonic
<1>13. sizes' \in [Dests -> Nat]
  <2>1. Larger(sizes.L2TCM, ReservedSize) \in Nat
    BY <1>1, RingFacts DEF Larger, Dests
  <2> QED
    BY <1>1, <1>5, <2>1
<1>14. DOMAIN words' \subseteq Nat /\ \A o \in DOMAIN words' : words'[o] \in {0, 1}
  <2>1. DescSize \div DbSize \in Nat
    BY <1>7
  <2>2. \A i \in 0 .. (DescSize \div DbSize) - 1 : i \in Nat /\ i * DbSize \in Nat
    BY <1>7, <2>1
  <2>3. \A i \in 0 .. (DescSize \div DbSize) - 1 : DummyOffset + i * DbSize \in Nat
    BY <1>7, <2>2
  <2> QED
    BY <1>5, <1>7, <2>3
<1>15. /\ {ExitDb * DbSize, DummyOffset + DbSize} \subseteq DOMAIN words'
       /\ words'[ExitDb * DbSize] = 0 /\ words'[DummyOffset + DbSize] = 1
  <2>1. DescSize \div DbSize \in Nat /\ DescSize \div DbSize >= 2
    BY <1>7
  <2>2. 1 \in 0 .. (DescSize \div DbSize) - 1 /\ 1 * DbSize = DbSize
    BY <1>7, <2>1
  <2>3. DummyOffset + DbSize \in {DummyOffset + i * DbSize : i \in 0 .. (DescSize \div DbSize) - 1}
    BY <2>2
  <2>4. ExitDb * DbSize /= DummyOffset + DbSize
    BY <1>7
  <2> QED
    BY <1>5, <2>3, <2>4
<1>16. TypeOK'
  <2>1. RequestsUpTo(mcId)' = RequestsUpTo(1) /\ DescsUpTo(mcId)' = DescsUpTo(1)
        /\ HostEntries' = HostEntries /\ NspEntries' = NspEntries
    BY <1>5, <1>6 DEF RequestsUpTo, DescsUpTo, HostEntries, NspEntries
  <2>2. /\ config' \in Configs /\ pc' \in {"start", "buffers", "done", "rejected"}
        /\ mcId' \in Nat /\ dbNum' \in Nat
    BY <1>1, <1>5
  <2> QED
    BY <1>6, <1>10, <1>11, <1>12, <1>13, <1>14, <2>1, <2>2, PrimedTypes
<1>17. Described'
  BY <1>2, <1>3, <1>5, <1>6 DEF Described
<1>18. EntriesFit'
  BY <1>3, <1>5, <1>6, <1>10, <1>11 DEF EntriesFit
<1>19. RequestsFollow'
  BY <1>3, <1>4, <1>5, <1>6 DEF RequestsFollow
<1>20. WordsStart' /\ MemoryHolds'
  BY <1>5, <1>15 DEF WordsStart, MemoryHolds, ExitDb, DummyOffset, DbSpaceSize
<1> QED
  BY <1>16, <1>17, <1>18, <1>19, <1>20 DEF IInv

\* The rings are one more buffer of the descriptor.
LEMMA AddUdmaHolds ==
  ASSUME IInv, AddUdmaBuffer
  PROVE  IInv'
<1> DEFINE new == BufferDesc(
             [dest |-> "L2TCM", dev |-> RingsOffset, base |-> 0, size |-> RingsSize,
              allowPartial |-> FALSE],
             "internal", 0, 0, Cores)
<1>1. IInv /\ TypeOK /\ Described /\ EntriesFit /\ RequestsFollow /\ WordsStart /\ MemoryHolds
      /\ config \in Configs /\ dbNum \in Nat /\ mcId \in Nat /\ buffers \in Seq(DescsUpTo(mcId))
  BY TypeFacts DEF IInv
<1>2. /\ pc = "buffers" /\ pc' = "done" /\ Len(buffers) = Len(Queue) /\ buffers' = Append(buffers, new)
      /\ UNCHANGED <<config, mcId, dbNum, hostMc, nspMc, requests, words, sizes>>
  BY DEF AddUdmaBuffer
<1>3. Len(buffers) = dbNum /\ dbNum = Len(Queue) /\ ConfigAccepted
  BY <1>1, <1>2 DEF Described
<1>4. /\ Queue' = Queue /\ Cores' = Cores /\ ConfigAccepted' = ConfigAccepted
      /\ NumHostBuffers' = NumHostBuffers
      /\ \A b : NspMask(b)' = NspMask(b) /\ Admitted(b)' = Admitted(b)
      /\ \A u : SemWait(u)' = SemWait(u)
  BY <1>2, ConfigFixed
<1>5. new \in DescsUpTo(mcId) /\ new.usage = "internal"
  <2>1. RingsOffset + 0 \in Nat /\ RingsSize \in Nat /\ 0 \in 0 .. mcId
    BY <1>1, RingFacts
  <2> QED
    BY <2>1 DEF BufferDesc, DescsUpTo, Dests, Usages
<1> HIDE DEF new
<1>6. buffers' \in Seq(DescsUpTo(mcId)) /\ Len(buffers') = dbNum + 1 /\ buffers'[dbNum + 1] = new
      /\ \A i \in 1 .. dbNum : buffers'[i] = buffers[i]
  BY <1>1, <1>2, <1>3, <1>5, AppendProperties
<1>7. TypeOK'
  <2>1. RequestsUpTo(mcId)' = RequestsUpTo(mcId) /\ DescsUpTo(mcId)' = DescsUpTo(mcId)
        /\ HostEntries' = HostEntries /\ NspEntries' = NspEntries
    BY <1>2, <1>4 DEF RequestsUpTo, DescsUpTo, HostEntries, NspEntries
  <2>2. /\ config' \in Configs /\ pc' \in {"start", "buffers", "done", "rejected"}
        /\ mcId' \in Nat /\ dbNum' \in Nat /\ hostMc' \in Seq(HostEntries)
        /\ nspMc' \in [Cores -> Seq(NspEntries)] /\ requests' \in Seq(RequestsUpTo(mcId))
        /\ DOMAIN words' \subseteq Nat /\ (\A o \in DOMAIN words' : words'[o] \in {0, 1})
        /\ sizes' \in [Dests -> Nat]
    BY <1>1, <1>2, TypeFacts
  <2> QED
    BY <1>4, <1>6, <2>1, <2>2, PrimedTypes
<1>8. Described'
  <2>1. \A i \in 1 .. dbNum :
          /\ buffers[i] = BufferDesc(Queue[i].buff, Queue[i].usage, i - 1, buffers[i].buffMCID,
                                     NspMask(Queue[i].buff))
          /\ Admitted(Queue[i].buff)
    BY <1>1 DEF Described
  <2>2. dbNum <= Len(Queue)
    BY <1>1, <1>3
  <2> QED
    BY <1>2, <1>3, <1>4, <1>5, <1>6, <2>1, <2>2 DEF Described
<1>9. EntriesFit'
  BY <1>1, <1>2, <1>4, <1>6 DEF EntriesFit
<1>10. RequestsFollow'
  <2>1. \A n \in 1 .. Len(requests) : buffers'[n] = buffers[n]
    <3>1. NumHostBuffers \in Nat
      BY <1>1, HostBufferFacts
    <3>2. \A n \in 1 .. Len(requests) : n \in 1 .. dbNum
      BY <1>1, <3>1 DEF RequestsFollow
    <3> QED
      BY <1>6, <3>2
  <2> QED
    BY <1>1, <1>2, <1>4, <2>1 DEF RequestsFollow
<1>11. WordsStart'
  BY <1>1, <1>2, <1>4 DEF WordsStart, ExitDb, DummyOffset, DbSpaceSize
<1>12. MemoryHolds'
  BY <1>1, <1>2, <1>6 DEF MemoryHolds
<1> QED
  BY <1>7, <1>8, <1>9, <1>10, <1>11, <1>12 DEF IInv

\* A step that rejects the config, or none, keeps the tables.
LEMMA RejectHolds ==
  ASSUME IInv, Reject \/ UNCHANGED vars
  PROVE  IInv'
<1>1. IInv /\ TypeOK /\ Described /\ EntriesFit /\ RequestsFollow /\ WordsStart /\ MemoryHolds
      /\ config \in Configs /\ pc \in {"start", "buffers", "done", "rejected"}
  BY TypeFacts DEF IInv
<1>2. /\ UNCHANGED <<config, mcId, dbNum, hostMc, nspMc, requests, words, sizes, buffers>>
      /\ pc' = pc \/ (pc' = "rejected" /\ pc /= "done")
  BY DEF Reject, vars
<1>3. /\ Queue' = Queue /\ Cores' = Cores /\ ConfigAccepted' = ConfigAccepted
      /\ NumHostBuffers' = NumHostBuffers
      /\ \A b : NspMask(b)' = NspMask(b) /\ Admitted(b)' = Admitted(b)
      /\ \A u : SemWait(u)' = SemWait(u)
  BY <1>2, ConfigFixed
<1>4. TypeOK'
  <2>1. RequestsUpTo(mcId)' = RequestsUpTo(mcId) /\ DescsUpTo(mcId)' = DescsUpTo(mcId)
        /\ HostEntries' = HostEntries /\ NspEntries' = NspEntries
    BY <1>2, <1>3 DEF RequestsUpTo, DescsUpTo, HostEntries, NspEntries
  <2>2. /\ config' \in Configs /\ pc' \in {"start", "buffers", "done", "rejected"}
        /\ mcId' \in Nat /\ dbNum' \in Nat /\ hostMc' \in Seq(HostEntries)
        /\ nspMc' \in [Cores -> Seq(NspEntries)] /\ requests' \in Seq(RequestsUpTo(mcId))
        /\ DOMAIN words' \subseteq Nat /\ (\A o \in DOMAIN words' : words'[o] \in {0, 1})
        /\ sizes' \in [Dests -> Nat] /\ buffers' \in Seq(DescsUpTo(mcId))
    BY <1>1, <1>2, TypeFacts
  <2> QED
    BY <1>3, <2>1, <2>2, PrimedTypes
<1>5. Described'
  BY <1>1, <1>2, <1>3 DEF Described
<1>6. EntriesFit'
  BY <1>1, <1>2, <1>3 DEF EntriesFit
<1>7. RequestsFollow'
  BY <1>1, <1>2, <1>3 DEF RequestsFollow
<1>8. WordsStart'
  BY <1>1, <1>2, <1>3 DEF WordsStart, ExitDb, DummyOffset, DbSpaceSize
<1>9. MemoryHolds'
  BY <1>1, <1>2 DEF MemoryHolds
<1> QED
  BY <1>4, <1>5, <1>6, <1>7, <1>8, <1>9 DEF IInv

\* Each step keeps the invariant.
THEOREM InvariantHolds == Spec => []IInv
<1>1. Init => IInv
  BY InitHolds
<1>2. IInv /\ [Next]_vars => IInv'
  <2> SUFFICES ASSUME IInv, [Next]_vars PROVE IInv'
    OBVIOUS
  <2>1. CASE ReserveL2tcm
    BY <2>1, ReserveHolds
  <2>2. CASE Reject \/ UNCHANGED vars
    BY <2>2, RejectHolds
  <2>3. CASE ProcessBuff
    BY <2>3, ProcessTypes, ProcessDescribed, ProcessEntries, ProcessRequests, ProcessWords,
       ProcessMemory DEF IInv
  <2>4. CASE AddUdmaBuffer
    BY <2>4, AddUdmaHolds
  <2> QED
    BY <2>1, <2>2, <2>3, <2>4 DEF Next
<1> QED
  BY <1>1, <1>2, PTL DEF Spec

-----------------------------------------------------------------------------
(* What the invariant gives.                                               *)

\* The shape of the state is kept.
THEOREM TypeCorrect == Spec => []TypeOK
  BY InvariantHolds, PTL DEF IInv

\* A buffer of the descriptor is that of the queue.
LEMMA BufferOf ==
  ASSUME IInv, NEW i \in 1 .. dbNum
  PROVE  LET b == Queue[i].buff
         IN  /\ i \in 1 .. Len(Queue) /\ b \in Buffer /\ Admitted(b)
             /\ buffers[i].location = b.dest /\ buffers[i].offset = b.dev + b.base
             /\ buffers[i].size = b.size /\ buffers[i].waitDBNum = i - 1
             /\ buffers[i].nspMask = NspMask(b) /\ buffers[i].usage = Queue[i].usage
             /\ NspMask(b) \in SUBSET Cores
<1> DEFINE b == Queue[i].buff
<1>1. Described /\ config \in Configs /\ dbNum \in Nat
  BY DEF IInv, TypeOK
<1>2. i \in 1 .. Len(Queue)
  <2>1. Len(Queue) \in Nat /\ dbNum <= Len(Queue)
    BY <1>1, HostBufferFacts DEF Described
  <2> QED
    BY <1>1, <2>1
<1>3. b \in Buffer
  BY <1>1, <1>2, QueueFacts
<1>4. Admitted(b) /\ buffers[i] = BufferDesc(b, Queue[i].usage, i - 1, buffers[i].buffMCID, NspMask(b))
  BY <1>1 DEF Described
<1>5. NspMask(b) \in SUBSET Cores
  BY <1>4 DEF Admitted, NspsValid, NspMask
<1>6. /\ buffers[i].location = b.dest /\ buffers[i].offset = b.dev + b.base
      /\ buffers[i].size = b.size /\ buffers[i].waitDBNum = i - 1
      /\ buffers[i].nspMask = NspMask(b) /\ buffers[i].usage = Queue[i].usage
  BY <1>4 DEF BufferDesc
<1> QED
  BY <1>2, <1>3, <1>4, <1>5, <1>6

\* A request is that of a host buffer of the descriptor.
LEMMA RequestOf ==
  ASSUME IInv, NEW n \in DOMAIN requests
  PROVE  LET b == Queue[n].buff
         IN  /\ n \in 1 .. dbNum /\ n <= NumHostBuffers
             /\ requests[n] =
                  [dir |-> Queue[n].usage, space |-> IF IsMC(b) THEN "MC" ELSE "DDR", dev |-> b.dev,
                   size |-> b.size, mcId |-> buffers[n].buffMCID, wait |-> SemWait(Queue[n].usage),
                   init |-> Queue[n].last, doorbell |-> (n - 1) * DbSize]
<1>1. RequestsFollow /\ config \in Configs /\ dbNum \in Nat /\ requests \in Seq(RequestsUpTo(mcId))
  BY TypeFacts DEF IInv
<1>2. n \in 1 .. Len(requests)
  BY <1>1
<1>3. NumHostBuffers \in Nat
  BY <1>1, HostBufferFacts
<1>4. n \in 1 .. dbNum /\ n <= NumHostBuffers
  BY <1>1, <1>2, <1>3 DEF RequestsFollow
<1> QED
  BY <1>1, <1>2, <1>4 DEF RequestsFollow

\* ComputeProgram::generateMetadata and ProgramDesc: whatever the config, the host's n-th request
\* fills, in every NSP of the mask, the buffer that the runtime looks up under the number n - 1.
THEOREM RequestsAlwaysReachBuffers == Spec => []RequestsReachBuffers
<1>1. IInv => RequestsReachBuffers
  <2> SUFFICES ASSUME IInv, NEW n \in DOMAIN requests
               PROVE  LET r == requests[n]
                          b == buffers[n]
                      IN  /\ r.dir = b.usage /\ r.doorbell = b.waitDBNum * DbSize
                          /\ r.space = "MC" =>
                               hostMc[r.mcId + 1] = [mask |-> b.nspMask, size |-> b.size]
                          /\ \A c \in b.nspMask : HostTarget(c, r) = BufferBase(n - 1)
    BY DEF RequestsReachBuffers
  <2> DEFINE a == Queue[n].buff
             m == buffers[n].buffMCID
             r == requests[n]
  <2>1. EntriesFit /\ dbNum \in Nat /\ config \in Configs
    BY DEF IInv, TypeOK
  <2>2. n \in 1 .. dbNum /\ n <= NumHostBuffers
        /\ r.dir = Queue[n].usage /\ r.space = (IF IsMC(a) THEN "MC" ELSE "DDR") /\ r.dev = a.dev
        /\ r.mcId = m /\ r.doorbell = (n - 1) * DbSize
    BY RequestOf
  <2>3. /\ n \in 1 .. Len(Queue) /\ a \in Buffer /\ Admitted(a)
        /\ buffers[n].location = a.dest /\ buffers[n].offset = a.dev + a.base
        /\ buffers[n].size = a.size /\ buffers[n].waitDBNum = n - 1
        /\ buffers[n].nspMask = NspMask(a) /\ buffers[n].usage = Queue[n].usage
        /\ NspMask(a) \in SUBSET Cores
    BY <2>2, BufferOf
  <2>4. Queue[n].usage /= "internal"
    BY <2>1, <2>2, <2>3, UsageFacts
  <2>5. a.dev \in Nat /\ a.base \in Nat /\ a.dest \in Dests
    BY <2>3, BufferFacts
  <2>6. BufferBase(n - 1) = <<a.dest, a.dev + a.base>>
    <3>1. n - 1 + 1 = n
      BY <2>1, <2>2
    <3> QED
      BY <2>3, <3>1 DEF BufferBase, Info
  <2>7. CASE IsMC(a)
    <3>1. /\ \A c \in Cores : nspMc[c][m + 1].space = a.dest /\ nspMc[c][m + 1].offset = a.base
          /\ hostMc[m + 1] = [mask |-> NspMask(a), size |-> a.size]
      BY <2>1, <2>2, <2>4, <2>7 DEF EntriesFit
    <3>2. r.space = "MC"
      BY <2>2, <2>7
    <3>3. \A c \in NspMask(a) : HostTarget(c, r) = <<a.dest, a.base + a.dev>>
      BY <2>2, <2>3, <3>1, <3>2 DEF HostTarget, McBaseAddress
    <3>4. a.base + a.dev = a.dev + a.base
      BY <2>5
    <3> HIDE DEF a, m, r
    <3> QED
      BY <2>2, <2>3, <2>6, <3>1, <3>3, <3>4 DEF m, r
  <2>8. CASE ~IsMC(a)
    <3>1. a.dest = "DDR" /\ a.base = 0
      BY <2>3, <2>8 DEF IsMC, Admitted
    <3>2. r.space = "DDR" /\ r.space /= "MC"
      BY <2>2, <2>8
    <3>3. a.dev = a.dev + a.base
      BY <2>5, <3>1
    <3>4. \A c : HostTarget(c, r) = <<"DDR", a.dev>>
      BY <2>2, <3>2 DEF HostTarget
    <3> HIDE DEF a, m, r
    <3> QED
      BY <2>2, <2>3, <2>6, <3>1, <3>2, <3>3, <3>4 DEF r
  <2> QED
    BY <2>7, <2>8
<1> QED
  BY <1>1, InvariantHolds, PTL

\* BuffersHaveMemory: whatever the config, the sizes asked for hold all buffers, and none in L2TCM
\* covers a doorbell or the dummy descriptor.
THEOREM BuffersAlwaysHaveMemory == Spec => []BuffersHaveMemory
<1>1. IInv => BuffersHaveMemory
  <2> SUFFICES ASSUME IInv, pc = "done", NEW i \in UserBuffers
               PROVE  /\ EndOf(i) <= sizes[buffers[i].location]
                      /\ buffers[i].location = "L2TCM" => buffers[i].offset >= DummyOffset + DescSize
    BY DEF BuffersHaveMemory
  <2>1. config \in Configs /\ i \in 1 .. dbNum /\ MemoryHolds
    <3>1. Described /\ dbNum \in Nat /\ buffers \in Seq(DescsUpTo(mcId)) /\ config \in Configs
          /\ MemoryHolds
      BY TypeFacts DEF IInv
    <3>2. i \in 1 .. Len(buffers) /\ i <= dbNum
      BY <3>1 DEF UserBuffers, Described
    <3> QED
      BY <3>1, <3>2
  <2>2. Admitted(Queue[i].buff) /\ Queue[i].buff \in Buffer
        /\ buffers[i].location = Queue[i].buff.dest
        /\ buffers[i].offset = Queue[i].buff.dev + Queue[i].buff.base
    BY <2>1, BufferOf
  <2>3. EndOf(i) <= sizes[buffers[i].location]
    BY <2>1 DEF MemoryHolds, EndOf
  <2>4. ASSUME buffers[i].location = "L2TCM"
        PROVE  buffers[i].offset >= DummyOffset + DescSize
    <3>1. NumThreads >= 1
      BY <2>1, ConfigFacts, SizeAssumption, SMTT(30) DEF NumThreads
    <3>2. ReservedSize \in Nat /\ ReservedSize >= DummyOffset + DescSize
      BY <2>1, <3>1, RingFacts
    <3>3. buffers[i].offset >= ReservedSize
      BY <2>2, <2>4 DEF Admitted
    <3>4. buffers[i].offset \in Nat /\ DummyOffset + DescSize \in Nat
      <4>1. Queue[i].buff.dev \in Nat /\ Queue[i].buff.base \in Nat
        BY <2>2, BufferFacts
      <4> QED
        BY <2>2, <4>1, ReservedFacts, SizeAssumption
    <3> QED
      BY <3>2, <3>3, <3>4
  <2> QED
    BY <2>3, <2>4
<1> QED
  BY <1>1, InvariantHolds, PTL

\* DoorbellsStartRight: in every config whose buffers all have doorbells, these are different words
\* below the exit doorbell, initialised as the handshake needs.
THEOREM DoorbellsAlwaysStartRight == Spec => []DoorbellsStartRight
<1>1. IInv => DoorbellsStartRight
  <2> SUFFICES ASSUME IInv, pc = "done", \A i \in DOMAIN Queue : ~Queue[i].buff.noDoorbell
               PROVE  /\ \A i, j \in UserBuffers : buffers[i].waitDBNum = buffers[j].waitDBNum => i = j
                      /\ \A i \in UserBuffers :
                           words[buffers[i].waitDBNum * DbSize] =
                             IF buffers[i].usage = "output" THEN 1 ELSE 0
                      /\ words[ExitDb * DbSize] = 0 /\ words[DummyOffset + DbSize] = 1
                      /\ \A i \in UserBuffers : buffers[i].waitDBNum < ExitDb
    BY DEF DoorbellsStartRight
  <2>1. Described /\ WordsStart /\ dbNum \in Nat /\ buffers \in Seq(DescsUpTo(mcId))
        /\ config \in Configs
    BY TypeFacts DEF IInv
  <2>2. dbNum = Len(Queue) /\ ConfigAccepted
    BY <2>1 DEF Described
  <2>3. dbNum < ExitDb /\ ExitDb \in Nat
    <3>1. {i \in DOMAIN Queue : ~Queue[i].buff.noDoorbell} = 1 .. dbNum
      BY <2>1, <2>2, QueueFacts
    <3>2. Cardinality(1 .. dbNum) = dbNum
      BY <2>1, FS_Interval
    <3>3. NumDbs = 1 + dbNum
      BY <3>1, <3>2 DEF NumDbs
    <3> QED
      BY <2>1, <2>2, <3>3, SizeAssumption, SMTT(30) DEF ConfigAccepted, ExitDb
  <2>4. \A i \in UserBuffers : i \in 1 .. dbNum
    <3>1. \A i \in UserBuffers : i \in 1 .. Len(buffers) /\ i <= dbNum
      BY <2>1, <2>2 DEF UserBuffers
    <3> QED
      BY <2>1, <3>1
  <2>5. \A i \in 1 .. dbNum : buffers[i].waitDBNum = i - 1 /\ buffers[i].usage = Queue[i].usage
    BY BufferOf
  <2>6. \A i \in 1 .. dbNum : words[(i - 1) * DbSize] = IF Queue[i].usage = "output" THEN 1 ELSE 0
    BY <2>1 DEF WordsStart
  <2>7. \A i, j \in 1 .. dbNum : buffers[i].waitDBNum = buffers[j].waitDBNum => i = j
    BY <2>1, <2>5
  <2>8. \A i \in 1 .. dbNum : buffers[i].waitDBNum < ExitDb
    BY <2>1, <2>3, <2>5
  <2>9. words[ExitDb * DbSize] = 0 /\ words[DummyOffset + DbSize] = 1
    <3>1. dbNum <= MaxDoorbells
      BY <2>1, <2>3 DEF ExitDb
    <3> QED
      BY <2>1, <3>1 DEF WordsStart
  <2>10. \A i \in 1 .. dbNum :
           words[buffers[i].waitDBNum * DbSize] = IF buffers[i].usage = "output" THEN 1 ELSE 0
    BY <2>5, <2>6
  <2> QED
    BY <2>4, <2>7, <2>8, <2>9, <2>10
<1> QED
  BY <1>1, InvariantHolds, PTL

\* The finished descriptor: inputs, outputs, internal buffers and the rings, the requests those of the
\* inputs and outputs.
LEMMA DoneFacts ==
  ASSUME IInv, pc = "done"
  PROVE  /\ Ins \in Nat /\ Outs \in Nat /\ Ints \in Nat /\ dbNum = Ins + Outs + Ints
         /\ DOMAIN buffers = 1 .. dbNum + 1
         /\ requests \in Seq(RequestsUpTo(mcId)) /\ Len(requests) = Ins + Outs
         /\ DOMAIN requests = 1 .. Ins + Outs
         /\ \A i \in 1 .. Ins : buffers[i].usage = "input"
         /\ \A i \in 1 .. Outs : buffers[Ins + i].usage = "output"
         /\ \A i \in 1 .. Ints + 1 : buffers[Ins + Outs + i].usage = "internal"
<1>1. /\ Described /\ RequestsFollow /\ config \in Configs /\ dbNum \in Nat
      /\ requests \in Seq(RequestsUpTo(mcId)) /\ buffers \in Seq(DescsUpTo(mcId))
  BY TypeFacts DEF IInv
<1>2. Ins \in Nat /\ Outs \in Nat /\ Ints \in Nat /\ Len(Queue) = Ins + Outs + Ints
  BY <1>1, ListFacts
<1>3. dbNum = Len(Queue) /\ Len(buffers) = dbNum + 1 /\ buffers[dbNum + 1].usage = "internal"
  BY <1>1 DEF Described
<1>4. dbNum = Ins + Outs + Ints
  BY <1>2, <1>3
<1>5. NumHostBuffers = Ins + Outs
  BY DEF NumHostBuffers, Ins, Outs
<1>6. Len(requests) = IF dbNum <= NumHostBuffers THEN dbNum ELSE NumHostBuffers
  BY <1>1 DEF RequestsFollow
<1>7. Len(requests) = Ins + Outs
  BY <1>2, <1>4, <1>5, <1>6
<1>8. \A k \in 1 .. dbNum : /\ buffers[k].usage = Queue[k].usage /\ k \in 1 .. Len(Queue)
                            /\ Queue[k].usage \in Usages
  BY <1>1, BufferOf, QueueFacts
<1>9. \A k \in 1 .. dbNum : /\ k <= Ins + Outs <=> buffers[k].usage /= "internal"
                            /\ k <= Ins <=> buffers[k].usage = "input"
  BY <1>1, <1>5, <1>8, UsageFacts
<1>10. \A i \in 1 .. Ins : buffers[i].usage = "input"
  BY <1>2, <1>4, <1>9
<1>11. \A i \in 1 .. Outs : buffers[Ins + i].usage = "output"
  <2> TAKE i \in 1 .. Outs
  <2>1. Ins + i \in 1 .. dbNum /\ Ins + i <= Ins + Outs /\ ~(Ins + i <= Ins)
    BY <1>2, <1>4
  <2> QED
    BY <1>8, <1>9, <2>1 DEF Usages
<1>12. \A i \in 1 .. Ints + 1 : buffers[Ins + Outs + i].usage = "internal"
  <2> TAKE i \in 1 .. Ints + 1
  <2>1. CASE i = Ints + 1
    <3>1. Ins + Outs + i = dbNum + 1
      BY <1>2, <1>4, <2>1
    <3> QED
      BY <1>3, <3>1
  <2>2. CASE i /= Ints + 1
    <3>1. Ins + Outs + i \in 1 .. dbNum /\ ~(Ins + Outs + i <= Ins + Outs)
      BY <1>2, <1>4, <2>2
    <3> QED
      BY <1>9, <3>1
  <2> QED
    BY <2>1, <2>2
<1> QED
  BY <1>1, <1>2, <1>3, <1>4, <1>7, <1>10, <1>11, <1>12

\* The places of the inputs and of the outputs in the finished descriptor.
LEMMA PlacesOf ==
  ASSUME IInv, pc = "done"
  PROVE  /\ {j \in DOMAIN buffers : buffers[j].usage = "input"} = 1 .. Ins
         /\ {j \in DOMAIN buffers : buffers[j].usage = "output"} = Ins + 1 .. Ins + Outs
         /\ NumOf("input") = Ins /\ NumOf("output") = Outs
<1>1. /\ Ins \in Nat /\ Outs \in Nat /\ Ints \in Nat /\ dbNum = Ins + Outs + Ints
      /\ DOMAIN buffers = 1 .. dbNum + 1
      /\ \A i \in 1 .. Ins : buffers[i].usage = "input"
      /\ \A i \in 1 .. Outs : buffers[Ins + i].usage = "output"
      /\ \A i \in 1 .. Ints + 1 : buffers[Ins + Outs + i].usage = "internal"
  BY DoneFacts
<1>2. ASSUME NEW j \in 1 .. dbNum + 1
      PROVE  /\ j \in 1 .. Ins => buffers[j].usage = "input"
             /\ j \in Ins + 1 .. Ins + Outs => buffers[j].usage = "output"
             /\ j \notin 1 .. Ins + Outs => buffers[j].usage = "internal"
  <2>1. j \in Ins + 1 .. Ins + Outs => j - Ins \in 1 .. Outs /\ j = Ins + (j - Ins)
    BY <1>1
  <2>2. j \notin 1 .. Ins + Outs =>
          j - (Ins + Outs) \in 1 .. Ints + 1 /\ j = Ins + Outs + (j - (Ins + Outs))
    BY <1>1
  <2> QED
    BY <1>1, <2>1, <2>2
<1>3. {j \in DOMAIN buffers : buffers[j].usage = "input"} = 1 .. Ins
  BY <1>1, <1>2, SMTT(30)
<1>4. {j \in DOMAIN buffers : buffers[j].usage = "output"} = Ins + 1 .. Ins + Outs
  BY <1>1, <1>2
<1>5. Cardinality(1 .. Ins) = Ins /\ Cardinality(Ins + 1 .. Ins + Outs) = Outs
  <2>1. \A x, y \in Int : Cardinality(x .. y) = IF x > y THEN 0 ELSE y - x + 1
    BY FS_Interval
  <2>2. Cardinality(1 .. Ins) = IF 1 > Ins THEN 0 ELSE Ins - 1 + 1
    BY <1>1, <2>1
  <2>3. Cardinality(Ins + 1 .. Ins + Outs) =
          IF Ins + 1 > Ins + Outs THEN 0 ELSE Ins + Outs - (Ins + 1) + 1
    BY <1>1, <2>1
  <2> QED
    BY <1>1, <2>2, <2>3
<1> QED
  BY <1>3, <1>4, <1>5 DEF NumOf

\* NumbersAgree: whatever the config, the numbers by which the host, the network descriptor and the
\* runtime call the inputs, outputs and internal buffers are those of the same buffers.
THEOREM NumbersAlwaysAgree == Spec => []NumbersAgree
<1>1. IInv => NumbersAgree
  <2> SUFFICES ASSUME IInv, pc = "done" PROVE NumbersAgree
    BY DEF NumbersAgree
  <2>1. /\ Ins \in Nat /\ Outs \in Nat /\ Ints \in Nat /\ dbNum = Ins + Outs + Ints
        /\ DOMAIN requests = 1 .. Ins + Outs
        /\ \A i \in 1 .. Ins : buffers[i].usage = "input"
        /\ \A i \in 1 .. Outs : buffers[Ins + i].usage = "output"
        /\ \A i \in 1 .. Ints + 1 : buffers[Ins + Outs + i].usage = "internal"
    BY DoneFacts
  <2>2. NumOf("input") = Ins /\ NumOf("output") = Outs
    BY PlacesOf
  <2>3. config \in Configs
    BY DEF IInv, TypeOK
  <2>4. config.inputs \in Seq(Buffer) /\ config.outputs \in Seq(Buffer)
    BY <2>3, ConfigFacts
  <2>5. DOMAIN config.inputs = 1 .. Ins /\ DOMAIN config.outputs = 1 .. Outs
        /\ DOMAIN config.internals = 1 .. Ints
    BY <2>3, ListFacts, Zenon
  <2>6. /\ \A i \in 1 .. Ins :
             Queue[i] = [buff |-> config.inputs[i], usage |-> "input", last |-> i = Ins]
        /\ \A i \in 1 .. Outs :
             Queue[Ins + i] = [buff |-> config.outputs[i], usage |-> "output", last |-> i = Outs]
        /\ \A i \in 1 .. Ints :
             Queue[Ins + Outs + i] =
                 [buff |-> config.internals[i], usage |-> "internal", last |-> i = Ints]
    BY <2>3, ListFacts, Zenon
  <2>7. \A k \in 1 .. dbNum : buffers[k].offset = Queue[k].buff.dev + Queue[k].buff.base
    BY BufferOf
  <2>8. ASSUME NEW i \in 1 .. Ins
        PROVE  /\ Info(InputBufferNum(i - 1)).usage = "input"
               /\ Info(InputBufferNum(i - 1)).offset = config.inputs[i].dev + config.inputs[i].base
               /\ NetworkInput(i) = InputBufferNum(i - 1)
    <3>1. InputBufferNum(i - 1) + 1 = i /\ i \in 1 .. dbNum
      BY <2>1 DEF InputBufferNum
    <3>2. Info(InputBufferNum(i - 1)) = buffers[i]
      BY <3>1 DEF Info
    <3>3. Queue[i].buff = config.inputs[i]
      <4>1. Queue[i] = [buff |-> config.inputs[i], usage |-> "input", last |-> i = Ins]
        BY <2>6
      <4> QED
        BY <4>1
    <3> QED
      BY <2>1, <2>7, <3>1, <3>2, <3>3 DEF NetworkInput, InputBufferNum
  <2>9. ASSUME NEW i \in 1 .. Outs
        PROVE  /\ Info(OutputBufferNum(i - 1)).usage = "output"
               /\ Info(OutputBufferNum(i - 1)).offset = config.outputs[i].dev + config.outputs[i].base
               /\ NetworkOutput(i) = OutputBufferNum(i - 1)
    <3>1. OutputBufferNum(i - 1) + 1 = Ins + i /\ Ins + i \in 1 .. dbNum
      BY <2>1, <2>2 DEF OutputBufferNum
    <3>2. Info(OutputBufferNum(i - 1)) = buffers[Ins + i]
      BY <3>1 DEF Info
    <3>3. Queue[Ins + i].buff = config.outputs[i]
      <4>1. Queue[Ins + i] = [buff |-> config.outputs[i], usage |-> "output", last |-> i = Outs]
        BY <2>6
      <4> QED
        BY <4>1
    <3>4. NetworkOutput(i) = OutputBufferNum(i - 1)
      <4>1. NetworkOutput(i) = Ins + i - 1
        BY DEF NetworkOutput, Ins
      <4> QED
        BY <2>1, <2>2, <4>1 DEF OutputBufferNum
    <3> QED
      BY <2>1, <2>7, <3>1, <3>2, <3>3, <3>4
  <2>10. ASSUME NEW i \in 1 .. Ints
         PROVE  /\ Info(InternalBufferNum(i - 1)).usage = "internal"
                /\ Info(InternalBufferNum(i - 1)).offset =
                     config.internals[i].dev + config.internals[i].base
    <3>1. InternalBufferNum(i - 1) + 1 = Ins + Outs + i /\ Ins + Outs + i \in 1 .. dbNum
          /\ i \in 1 .. Ints + 1
      BY <2>1, <2>2 DEF InternalBufferNum
    <3>2. Info(InternalBufferNum(i - 1)) = buffers[Ins + Outs + i]
      BY <3>1 DEF Info
    <3>3. Queue[Ins + Outs + i].buff = config.internals[i]
      <4>1. Queue[Ins + Outs + i] =
          [buff |-> config.internals[i], usage |-> "internal", last |-> i = Ints]
        BY <2>6
      <4> QED
        BY <4>1
    <3> QED
      BY <2>1, <2>7, <3>1, <3>2, <3>3
  <2>11. DmaBuffers = [n \in DOMAIN requests |-> [dir |-> requests[n].dir, size |-> requests[n].size]]
    <3> DEFINE Of(dir, list) == [i \in DOMAIN list |-> [dir |-> dir, size |-> list[i].size]]
               T == [dir : Usages, size : Nat]
               A == Of("input", config.inputs)
               B == Of("output", config.outputs)
    <3>1. ASSUME NEW u \in Usages, NEW list \in Seq(Buffer)
          PROVE  Of(u, list) \in Seq(T) /\ Len(Of(u, list)) = Len(list)
      <4>1. DOMAIN list = 1 .. Len(list) /\ Len(list) \in Nat
        OBVIOUS
      <4>2. \A i \in 1 .. Len(list) : [dir |-> u, size |-> list[i].size] \in T
        BY ElementOfSeq, BufferFacts
      <4>3. Of(u, list) \in [1 .. Len(list) -> T]
        BY <4>1, <4>2
      <4> HIDE DEF T, Of
      <4> QED
        BY <4>1, <4>3, FunctionIsSeq
    <3>2. A \in Seq(T) /\ Len(A) = Ins /\ B \in Seq(T) /\ Len(B) = Outs
      BY <2>4, <3>1, Zenon DEF Usages, Ins, Outs
    <3>3. (\A i \in 1 .. Ins : A[i] = [dir |-> "input", size |-> config.inputs[i].size])
          /\ (\A i \in 1 .. Outs : B[i] = [dir |-> "output", size |-> config.outputs[i].size])
      BY <2>5
    <3>4. DmaBuffers = A \o B
      BY DEF DmaBuffers
    <3> HIDE DEF A, B, T, Of
    <3>5. A \o B \in Seq(T) /\ Len(A \o B) = Ins + Outs
      BY <3>2
    <3>6. DOMAIN DmaBuffers = 1 .. Ins + Outs
      BY <2>1, <3>4, <3>5
    <3>7. \A n \in 1 .. Ins + Outs : DmaBuffers[n] = IF n <= Ins THEN A[n] ELSE B[n - Ins]
      <4>1. \A n \in 1 .. Len(A) + Len(B) : (A \o B)[n] = IF n <= Len(A) THEN A[n] ELSE B[n - Len(A)]
        BY <3>2, ConcatProperties, Zenon
      <4> QED
        BY <3>2, <3>4, <4>1, Zenon
    <3>8. ASSUME NEW n \in 1 .. Ins + Outs
          PROVE  DmaBuffers[n] = [dir |-> requests[n].dir, size |-> requests[n].size]
      <4>1. requests[n].dir = Queue[n].usage /\ requests[n].size = Queue[n].buff.size
        BY <2>1, RequestOf
      <4>2. CASE n <= Ins
        <5>1. n \in 1 .. Ins
          BY <2>1, <4>2
        <5>2. Queue[n] = [buff |-> config.inputs[n], usage |-> "input", last |-> n = Ins]
          BY <2>6, <5>1
        <5>3. DmaBuffers[n] = [dir |-> "input", size |-> config.inputs[n].size]
          BY <3>3, <3>7, <4>2, <5>1
        <5> QED
          BY <4>1, <5>2, <5>3
      <4>3. CASE ~(n <= Ins)
        <5>1. n - Ins \in 1 .. Outs /\ n = Ins + (n - Ins)
          BY <2>1, <4>3
        <5>2. PICK i \in 1 .. Outs : n = Ins + i /\ i = n - Ins
          BY <5>1
        <5>3. Queue[n] = [buff |-> config.outputs[i], usage |-> "output", last |-> i = Outs]
          BY <2>6, <5>2
        <5>4. DmaBuffers[n] = [dir |-> "output", size |-> config.outputs[i].size]
          BY <3>3, <3>7, <4>3, <5>2
        <5> QED
          BY <4>1, <5>3, <5>4
      <4> QED
        BY <4>2, <4>3
    <3>9. DmaBuffers = [n \in DOMAIN DmaBuffers |-> DmaBuffers[n]]
      <4>1. DmaBuffers \in Seq(T)
        BY <3>4, <3>5
      <4> QED
        BY <4>1
    <3> QED
      BY <2>1, <3>6, <3>8, <3>9
  <2> QED
    BY <2>5, <2>8, <2>9, <2>10, <2>11 DEF NumbersAgree
<1> QED
  BY <1>1, InvariantHolds, PTL

\* SemaphoresAgree: whatever the config, a transfer waits for as many NSPs as the runtime's masks name,
\* and the last of each direction, and no other, resets the semaphore.
THEOREM SemaphoresAlwaysAgree == Spec => []SemaphoresAgree
<1>1. IInv => SemaphoresAgree
  <2> SUFFICES ASSUME IInv, pc = "done", NEW n \in DOMAIN requests
               PROVE  LET u == requests[n].dir
                      IN  /\ requests[n].wait = IF u = "input" THEN Cardinality(HasMask("input")) ELSE 0
                          /\ SemInit(u) = IF u = "input" THEN 0 ELSE Cardinality(HasMask("output"))
                          /\ requests[n].init <=>
                               \A m \in DOMAIN requests : m > n => requests[m].dir # u
    BY DEF SemaphoresAgree
  <2> DEFINE u == requests[n].dir
  <2>1. /\ Ins \in Nat /\ Outs \in Nat /\ Ints \in Nat
        /\ dbNum = Ins + Outs + Ints
        /\ DOMAIN requests = 1 .. Ins + Outs
        /\ \A i \in 1 .. Ins : buffers[i].usage = "input"
        /\ \A i \in 1 .. Outs : buffers[Ins + i].usage = "output"
    BY DoneFacts
  <2>2. /\ {j \in DOMAIN buffers : buffers[j].usage = "input"} = 1 .. Ins
        /\ {j \in DOMAIN buffers : buffers[j].usage = "output"} = Ins + 1 .. Ins + Outs
    BY PlacesOf
  <2>3. config \in Configs
    BY DEF IInv, TypeOK
  <2>4. DOMAIN config.inputs = 1 .. Ins /\ DOMAIN config.outputs = 1 .. Outs
    BY <2>3, ListFacts, Zenon
  <2>5. /\ \A i \in 1 .. Ins :
             Queue[i] = [buff |-> config.inputs[i], usage |-> "input", last |-> i = Ins]
        /\ \A i \in 1 .. Outs :
             Queue[Ins + i] = [buff |-> config.outputs[i], usage |-> "output", last |-> i = Outs]
    BY <2>3, ListFacts, Zenon
  <2>6. \A k \in 1 .. dbNum : buffers[k].nspMask = NspMask(Queue[k].buff)
    BY BufferOf
  <2>7. \A m \in DOMAIN requests : /\ requests[m].dir = Queue[m].usage
                                   /\ requests[m].wait = SemWait(Queue[m].usage)
                                   /\ requests[m].init = Queue[m].last
    BY RequestOf
  <2>8. \A i \in 1 .. Ins : buffers[i].nspMask = NspMask(config.inputs[i])
    <3> TAKE i \in 1 .. Ins
    <3>1. i \in 1 .. dbNum
      BY <2>1
    <3>2. Queue[i] = [buff |-> config.inputs[i], usage |-> "input", last |-> i = Ins]
      BY <2>5
    <3> QED
      BY <2>6, <3>1, <3>2
  <2>9. \A i \in 1 .. Outs : buffers[Ins + i].nspMask = NspMask(config.outputs[i])
    <3> TAKE i \in 1 .. Outs
    <3>1. Ins + i \in 1 .. dbNum
      BY <2>1
    <3>2. Queue[Ins + i] = [buff |-> config.outputs[i], usage |-> "output", last |-> i = Outs]
      BY <2>5
    <3> QED
      BY <2>6, <3>1, <3>2
  <2>10. HasMask("input") = MaskOf(config.inputs)
    <3>1. HasMask("input") = UNION {buffers[i].nspMask : i \in 1 .. Ins}
      BY <2>2 DEF HasMask
    <3>2. MaskOf(config.inputs) = UNION {NspMask(config.inputs[i]) : i \in 1 .. Ins}
      BY <2>4 DEF MaskOf
    <3> QED
      BY <2>8, <3>1, <3>2
  <2>11. HasMask("output") = MaskOf(config.outputs)
    <3>1. HasMask("output") = UNION {buffers[i].nspMask : i \in Ins + 1 .. Ins + Outs}
      BY <2>2 DEF HasMask
    <3>2. MaskOf(config.outputs) = UNION {NspMask(config.outputs[i]) : i \in 1 .. Outs}
      BY <2>4 DEF MaskOf
    <3>3. (\A i \in 1 .. Outs : Ins + i \in Ins + 1 .. Ins + Outs)
          /\ (\A j \in Ins + 1 .. Ins + Outs : j - Ins \in 1 .. Outs /\ j = Ins + (j - Ins))
      BY <2>1
    <3>4. {buffers[i].nspMask : i \in Ins + 1 .. Ins + Outs} =
            {NspMask(config.outputs[i]) : i \in 1 .. Outs}
      BY <2>9, <3>3
    <3> QED
      BY <3>1, <3>2, <3>4
  <2>12. requests[n].wait = IF u = "input" THEN Cardinality(HasMask("input")) ELSE 0
    BY <2>7, <2>10 DEF SemWait
  <2>13. SemInit(u) = IF u = "input" THEN 0 ELSE Cardinality(HasMask("output"))
    BY <2>11 DEF SemInit
  <2>14. \A m \in 1 .. Ins : Queue[m].usage = "input" /\ Queue[m].last = (m = Ins)
    <3> TAKE m \in 1 .. Ins
    <3>1. Queue[m] = [buff |-> config.inputs[m], usage |-> "input", last |-> m = Ins]
      BY <2>5
    <3> QED
      BY <3>1
  <2>15. \A m \in Ins + 1 .. Ins + Outs : Queue[m].usage = "output" /\ Queue[m].last = (m = Ins + Outs)
    <3> TAKE m \in Ins + 1 .. Ins + Outs
    <3>1. m - Ins \in 1 .. Outs /\ m = Ins + (m - Ins)
      BY <2>1
    <3>2. PICK i \in 1 .. Outs : m = Ins + i
      BY <3>1
    <3>3. Queue[Ins + i] = [buff |-> config.outputs[i], usage |-> "output", last |-> i = Outs]
      BY <2>5
    <3>4. (i = Outs) = (m = Ins + Outs)
      BY <2>1, <3>2
    <3> QED
      BY <3>2, <3>3, <3>4
  <2>16. requests[n].init <=> \A m \in DOMAIN requests : m > n => requests[m].dir # u
    <3>1. CASE n \in 1 .. Ins
      <4>1. u = "input" /\ requests[n].init = (n = Ins)
        BY <2>7, <2>14, <3>1
      <4>2. \A m \in DOMAIN requests : m > Ins => requests[m].dir # "input"
        <5> TAKE m \in DOMAIN requests
        <5>1. m > Ins => m \in Ins + 1 .. Ins + Outs
          BY <2>1
        <5> QED
          BY <2>7, <2>15, <5>1
      <4>3. n /= Ins => Ins \in DOMAIN requests /\ Ins > n /\ Ins \in 1 .. Ins
        BY <2>1, <3>1
      <4>4. n /= Ins => requests[Ins].dir = "input"
        BY <2>7, <2>14, <4>3
      <4> HIDE DEF u
      <4> QED
        BY <4>1, <4>2, <4>3, <4>4
    <3>2. CASE n \in Ins + 1 .. Ins + Outs
      <4>1. u = "output" /\ requests[n].init = (n = Ins + Outs)
        BY <2>7, <2>15, <3>2
      <4>2. \A m \in DOMAIN requests : ~(m > Ins + Outs)
        BY <2>1
      <4>3. n /= Ins + Outs =>
              Ins + Outs \in DOMAIN requests /\ Ins + Outs > n /\ Ins + Outs \in Ins + 1 .. Ins + Outs
        BY <2>1, <3>2
      <4>4. n /= Ins + Outs => requests[Ins + Outs].dir = "output"
        BY <2>7, <2>15, <4>3
      <4> HIDE DEF u
      <4> QED
        BY <4>1, <4>2, <4>3, <4>4
    <3>3. n \in 1 .. Ins \/ n \in Ins + 1 .. Ins + Outs
      BY <2>1
    <3> QED
      BY <3>1, <3>2, <3>3
  <2> QED
    BY <2>12, <2>13, <2>16
<1> QED
  BY <1>1, InvariantHolds, PTL
=============================================================================
