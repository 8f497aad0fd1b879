--------------------------- MODULE UdmaRingProofs ---------------------------
(***************************************************************************)
(* Theorems about UdmaRing, for any set of NSPs, any size of the ring from *)
(* three descriptors on, any masks and sizes, and any number of broadcasts.*)
(***************************************************************************)
EXTENDS UdmaRing, SequenceTheorems, TLAPS

Busy == {"taking", "filling", "linking"}

\* The descriptors of a copy are taken one after another along the ring, as many as the copy needs.
TakenInOrder ==
  /\ pc \in Busy <=> left > 0
  /\ Current <= MaxBroadcasts
  /\ pc \in Busy => Current > 0 /\ left <= sent[Current].chunks
  /\ pc \notin Busy => taken = <<>>
  /\ pc = "taking" => Len(taken) < Len(KindsOfCopy)
  /\ pc \in {"filling", "linking"} => Len(taken) = Len(KindsOfCopy)
  /\ \A i \in 1 .. Len(taken) - 1 : taken[i + 1] = NextSlot(taken[i])
  /\ taken /= <<>> => next = NextSlot(taken[Len(taken)])

\* The done bits say whose a descriptor is: the engine's are not done, and a thread
\* takes only those that are; once it has cleared their bits, they are not the engine's yet.
BitsTell ==
  /\ \A i \in 1 .. Len(queue) : ~done[queue[i]]
  /\ \A i, j \in 1 .. Len(queue) : queue[i] = queue[j] => i = j
  /\ pc /= "linking" => \A i \in 1 .. Len(taken) : done[taken[i]]
  /\ pc = "linking" => \A i \in 1 .. Len(taken) :
       ~done[taken[i]] /\ \A j \in 1 .. Len(queue) : queue[j] /= taken[i]

RingInv == TypeOK /\ TakenInOrder /\ BitsTell

-----------------------------------------------------------------------------
\* Descriptor d tells NSP n of its broadcast.
Rings(d, n) == (d.kind = "local" /\ n = Self) \/ (d.kind = "global" /\ n \in Others)

\* The engine's list is in the order of the calls, and between two multicast doorbells there is a
\* local one, which is ordered.
ListInOrder ==
  /\ \A i \in 1 .. Len(queue) : desc[queue[i]].bcast \in 1 .. Len(sent)
  /\ \A i, j \in 1 .. Len(queue) : i < j => desc[queue[i]].bcast <= desc[queue[j]].bcast
  /\ \A i, k \in 1 .. Len(queue) :
       i < k /\ desc[queue[i]].kind = "global" /\ desc[queue[k]].kind = "global"
         => \E j \in i + 1 .. k - 1 : desc[queue[j]].kind = "local"
  /\ pc = "linking" => \A i \in 1 .. Len(taken) :
       desc[taken[i]].kind = KindsOfCopy[i] /\ desc[taken[i]].bcast = Current

\* Every NSP a broadcast is for has been told of it, or its doorbell is in the list or still to come.
EveryoneToldOf(b) ==
  \A n \in sent[b].mask :
    \/ b \in rung[n]
    \/ \E i \in 1 .. Len(queue) : desc[queue[i]].bcast = b /\ Rings(desc[queue[i]], n)
    \/ b = Current /\ left > 0

\* The broadcasts for n that it has been told of, as LastRung collects them; one is the last.
Mine(n) == {b \in rung[n] : n \in sent[b].mask}
HasLast(n) == Mine(n) = {} \/ \E b \in Mine(n) : \A c \in Mine(n) : c <= b

ToldInv ==
  /\ ListInOrder
  /\ \A b \in 1 .. Len(sent) : EveryoneToldOf(b)
  /\ \A n \in NSPs : rung[n] \subseteq 1 .. Len(sent) /\ HasLast(n)

IInv == RingInv /\ ToldInv

-----------------------------------------------------------------------------
(* The ring.                                                               *)

\* The last line of the ring follows the others, one line or more.
LEMMA RingFacts ==
  /\ PerLine \in Nat \ {0} /\ NumSlots \in Nat /\ NumSlots >= 3 /\ PerLine <= NumSlots
  /\ Slots = 0 .. NumSlots - 1
<1>1. Lines \in Nat \ {0} /\ PerLine \in Nat \ {0}
  BY RingAssumption
<1>2. Lines * PerLine \in Nat /\ Lines * PerLine >= PerLine
  BY <1>1
<1> QED
  BY <1>1, <1>2, RingAssumption DEF NumSlots, Slots

\* The next column, or the first one again.
LEMMA ColumnFacts ==
  ASSUME NEW p \in Nat \ {0}, NEW x \in Nat
  PROVE  /\ x % p \in 0 .. p - 1
         /\ x < p => x % p = x
         /\ x = p => x % p = 0
         /\ x + 1 < p => (x + p + 1) % p = x + 1
  OBVIOUS

\* From a descriptor, NextSlot leads to another one, and from there not back: the
\* descriptors of a copy, at most three, are different ones.
LEMMA NextSlotFacts ==
  ASSUME NEW s \in Slots
  PROVE  /\ NextSlot(s) \in Slots
         /\ NextSlot(s) /= s
         /\ NextSlot(NextSlot(s)) /= s
<1> DEFINE p == PerLine
           n == NumSlots
<1> USE RingFacts
<1>1. s \in Nat /\ s < n /\ p \in Nat \ {0} /\ n \in Nat /\ n >= 3 /\ p <= n
  BY DEF Slots
<1>2. \A x \in Nat : x % p \in 0 .. p - 1 /\ (x < p => x % p = x) /\ (x = p => x % p = 0)
                    /\ (x + 1 < p => (x + p + 1) % p = x + 1)
  BY ColumnFacts
<1>3. CASE s + p < n
  <2>1. NextSlot(s) = s + p
    BY <1>3 DEF NextSlot
  <2>2. s + p \in Slots /\ s + p /= s
    BY <1>1, <1>3
  <2>3. CASE s + p + p < n
    BY <2>1, <2>2, <2>3, <1>1 DEF NextSlot
  <2>4. CASE ~(s + p + p < n)
    <3>1. NextSlot(s + p) = (s + p + 1) % p
      BY <2>4 DEF NextSlot
    <3>a. s + p + 1 \in Nat
      BY <1>1
    <3>2. (s + p + 1) % p \in 0 .. p - 1
      BY <3>a, <1>2
    <3>3. CASE s + 1 < p
      <4>1. (s + p + 1) % p = s + 1
        BY <1>1, <1>2, <3>3
      <4> QED
        BY <2>1, <2>2, <3>1, <4>1, <1>1
    <3>4. CASE s + 1 = p
      <4>1. (s + p + 1) % p = 0
        BY <1>1, <3>4
      <4>2. p + p + p > n
        BY <2>4, <3>4, <1>1
      <4>3. s /= 0
        BY <4>1, <3>4, <2>4, <1>1
      <4> QED
        BY <2>1, <2>2, <3>1, <4>1, <4>3
    <3>5. CASE s + 1 > p
      BY <2>1, <2>2, <3>1, <3>2, <3>5, <1>1
    <3> QED
      BY <3>3, <3>4, <3>5, <1>1
  <2> QED
    BY <2>3, <2>4
<1>4. CASE ~(s + p < n)
  <2> DEFINE m == (s + 1) % p
  <2>1. NextSlot(s) = m
    BY <1>4 DEF NextSlot
  <2>a. s + 1 \in Nat
    BY <1>1
  <2>2. m \in 0 .. p - 1
    BY <2>a, <1>2
  <2>3. m \in Slots
    BY <2>2, <1>1
  <2> HIDE DEF m
  <2>4. s + 1 < p => m = s + 1
    BY <1>1, <1>2 DEF m
  <2>5. s + 1 = p => m = 0
    BY <1>1, <1>2 DEF m
  <2>6. m /= s
    BY <2>2, <2>4, <2>5, <1>1, <1>4
  <2>7. CASE m + p < n
    <3>1. NextSlot(m) = m + p
      BY <2>7 DEF NextSlot
    <3>2. m + p /= s
      <4>1. SUFFICES ASSUME m + p = s PROVE FALSE
        OBVIOUS
      <4>2. s + 1 = m + 1 + p /\ m + 1 \in Nat /\ m + 1 <= p
        BY <4>1, <2>2, <1>1
      <4>3. m \in Nat /\ m + p + 1 = s + 1
        BY <4>1, <2>2, <1>1
      <4>4. m + 1 < p => (m + p + 1) % p = m + 1
        BY <4>3, <1>2
      <4>5. m + 1 < p => (s + 1) % p = m + 1
        BY <4>3, <4>4
      <4>6. m + 1 = p => (s + 1) % p = 0
        BY <4>2, <1>1
      <4>7. m = 0 /\ p = 1
        BY <4>5, <4>2, <4>6, <2>2, <1>1 DEF m
      <4> QED
        BY <4>1, <4>7, <1>1, <1>4
    <3> QED
      BY <2>1, <2>3, <2>6, <3>1, <3>2
  <2>8. CASE ~(m + p < n)
    <3>1. NextSlot(m) = (m + 1) % p
      BY <2>8 DEF NextSlot
    <3>a. m + 1 \in Nat
      BY <2>2, <1>1
    <3>2. (m + 1) % p \in 0 .. p - 1 /\ (m + 1 < p => (m + 1) % p = m + 1)
          /\ (m + 1 = p => (m + 1) % p = 0)
      BY <3>a, <1>2
    <3>3. (m + 1) % p /= s
      BY <3>2, <2>2, <2>4, <2>5, <2>8, <1>1, <1>4
    <3> QED
      BY <2>1, <2>3, <2>6, <3>1, <3>3
  <2> QED
    BY <2>7, <2>8
<1> QED
  BY <1>3, <1>4

-----------------------------------------------------------------------------
(* The parts of the state.                                                 *)

\* There is a chunk for each unit of the largest broadcast.
LEMMA ChunkFacts ==
  ASSUME NEW c \in ChunkCounts
  PROVE  c \in Nat \ {0} /\ 0 .. c - 1 \subseteq Chunks
<1> DEFINE IsLargest(m) == \A x \in ChunkCounts : x <= m
           top == CHOOSE m \in ChunkCounts : IsLargest(m)
<1>1. \E m \in ChunkCounts : IsLargest(m)
  BY ChunksAssumption
<1>2. top \in ChunkCounts /\ IsLargest(top)
  BY <1>1
<1>3. Chunks = 0 .. top - 1
  BY DEF Chunks
<1> HIDE DEF top
<1> QED
  BY <1>2, <1>3, UserAssumption

\* A copy needs one to three descriptors: data, and for the last chunk the doorbells.
LEMMA KindsFacts ==
  ASSUME left \in Nat
  PROVE  /\ KindsOfCopy \in Seq(Kinds) /\ Len(KindsOfCopy) \in 1 .. 3
         /\ \A i \in 1 .. Len(KindsOfCopy) : KindsOfCopy[i] \in Kinds
         /\ \A i \in 1 .. Len(KindsOfCopy) :
              KindsOfCopy[i] = "global" => i = 3 /\ KindsOfCopy[2] = "local"
         /\ left <= 1 => Len(KindsOfCopy) >= 2 /\ KindsOfCopy[2] = "local"
         /\ left <= 1 /\ IsMulticast => Len(KindsOfCopy) = 3 /\ KindsOfCopy[3] = "global"
<1>1. CASE left > 1
  <2>1. KindsOfCopy = <<"payload">>
    BY <1>1 DEF KindsOfCopy
  <2>2. ~(left <= 1)
    BY <1>1
  <2> QED
    BY <2>1, <2>2, <1>1 DEF Kinds
<1>2. CASE ~(left > 1) /\ IsMulticast
  <2>1. KindsOfCopy = <<"payload", "local", "global">>
    BY <1>2 DEF KindsOfCopy
  <2> QED
    BY <2>1, <1>2 DEF Kinds
<1>3. CASE ~(left > 1) /\ ~IsMulticast
  <2>1. KindsOfCopy = <<"payload", "local">>
    BY <1>3 DEF KindsOfCopy
  <2> QED
    BY <2>1, <1>3 DEF Kinds
<1> QED
  BY <1>1, <1>2, <1>3

\* Before and after every step a copy needs at least one descriptor and at most three.
LEMMA KindsLength == Len(KindsOfCopy) \in 1 .. 3 /\ Len(KindsOfCopy') \in 1 .. 3
<1>1. KindsOfCopy \in {<<"payload">>, <<"payload", "local">>, <<"payload", "local", "global">>}
  BY DEF KindsOfCopy
<1>2. KindsOfCopy' \in {<<"payload">>, <<"payload", "local">>, <<"payload", "local", "global">>}
  BY DEF KindsOfCopy
<1>3. \A kinds \in {<<"payload">>, <<"payload", "local">>, <<"payload", "local", "global">>} :
        Len(kinds) \in 1 .. 3
  OBVIOUS
<1> QED
  BY <1>1, <1>2, <1>3

\* A finished descriptor leaves the others in their order.
LEMMA FinishedFacts ==
  ASSUME NEW S, NEW list \in Seq(S), NEW i \in 1 .. Len(list)
  PROVE  /\ Finished(list, i) \in Seq(S)
         /\ Len(Finished(list, i)) = Len(list) - 1
         /\ \A j \in 1 .. Len(list) - 1 :
              Finished(list, i)[j] = IF j < i THEN list[j] ELSE list[j + 1]
  BY DEF Finished

\* What the thread writes into the descriptors it has taken, and which of them are not done.
LEMMA FillFacts ==
  ASSUME IInv, FillOut
  PROVE  /\ \A i \in 1 .. Len(taken) : taken[i] \in Slots
         /\ \A s \in Slots : (\A i \in 1 .. Len(taken) : taken[i] /= s) =>
              desc'[s] = desc[s] /\ done'[s] = done[s]
         /\ \A i \in 1 .. Len(taken) : \E k \in 1 .. Len(taken) :
              /\ taken[k] = taken[i]
              /\ desc'[taken[i]] = [kind |-> KindsOfCopy[k], bcast |-> Current,
                                    chunk |-> sent[Current].chunks - left, dst |-> 0]
              /\ ~done'[taken[i]]
         /\ \A s \in Slots : done'[s] \in BOOLEAN
<1>1. TypeOK /\ pc = "filling"
  BY DEF IInv, RingInv, FillOut
<1>2. \A i \in 1 .. Len(taken) : taken[i] \in Slots
  BY <1>1 DEF TypeOK
<1>3. ASSUME NEW i \in 1 .. Len(taken)
      PROVE  \E k \in 1 .. Len(taken) :
               /\ taken[k] = taken[i]
               /\ desc'[taken[i]] = [kind |-> KindsOfCopy[k], bcast |-> Current,
                                     chunk |-> sent[Current].chunks - left, dst |-> 0]
               /\ ~done'[taken[i]]
  <2> DEFINE k == CHOOSE j \in 1 .. Len(taken) : taken[j] = taken[i]
  <2>1. k \in 1 .. Len(taken) /\ taken[k] = taken[i]
    OBVIOUS
  <2>2. desc'[taken[i]] = [kind |-> KindsOfCopy[k], bcast |-> Current,
                           chunk |-> sent[Current].chunks - left, dst |-> 0]
    BY <1>2 DEF FillOut
  <2>3. ~done'[taken[i]]
    BY <1>2 DEF FillOut
  <2> HIDE DEF k
  <2> QED
    BY <2>1, <2>2, <2>3
<1>4. \A s \in Slots : (\A i \in 1 .. Len(taken) : taken[i] /= s) =>
         desc'[s] = desc[s] /\ done'[s] = done[s]
  BY <1>1 DEF FillOut, TypeOK
<1>5. \A s \in Slots : done'[s] \in BOOLEAN
  BY <1>1 DEF FillOut
<1> QED
  BY <1>2, <1>3, <1>4, <1>5

\* What the engine does when it finishes the i-th descriptor of its list.
Finishes(i) ==
  LET d == desc[queue[i]]
  IN  /\ queue[i] \in Slots
      /\ d \in Contents /\ d.bcast \in 1 .. MaxBroadcasts /\ d.bcast \in 1 .. Len(sent)
      /\ \A j \in 2 .. i : desc[queue[j]].kind /= "local"
      /\ queue' \in Seq(Slots) /\ Len(queue') = Len(queue) - 1
      /\ \A j \in 1 .. Len(queue) - 1 : queue'[j] = IF j < i THEN queue[j] ELSE queue[j + 1]
      /\ done' = [done EXCEPT ![queue[i]] = TRUE]
      /\ rung' \in [NSPs -> SUBSET (1 .. MaxBroadcasts)]
      /\ \A n \in NSPs : rung'[n] = IF Rings(d, n) THEN rung[n] \union {d.bcast} ELSE rung[n]
      /\ \/ UNCHANGED landed
         \/ landed' = [n \in NSPs |-> IF n \in Targets(d)
                         THEN landed[n] \union {<<d.bcast, d.chunk>>} ELSE landed[n]]
      /\ \/ UNCHANGED mem
         \/ mem' = [n \in NSPs |-> IF n \in Targets(d)
                      THEN [mem[n] EXCEPT ![d.dst] = d.bcast] ELSE mem[n]]

\* It does so to some descriptor, in an order that keeps local doorbells behind what they follow.
LEMMA FinishFacts ==
  ASSUME IInv, FinishSlot
  PROVE  \E i \in 1 .. Len(queue) : Finishes(i)
<1>0. TypeOK /\ TakenInOrder /\ ListInOrder
  BY DEF IInv, RingInv, ToldInv
<1>1. PICK i \in 1 .. Len(queue) :
        LET d == desc[queue[i]]
        IN  /\ CanFinish([j \in 1 .. Len(queue) |-> desc[queue[j]]], i)
            /\ queue' = Finished(queue, i)
            /\ done' = [done EXCEPT ![queue[i]] = TRUE]
            /\ IF d.kind = "payload"
                 THEN /\ landed' = [n \in NSPs |-> IF n \in Targets(d)
                                      THEN landed[n] \union {<<d.bcast, d.chunk>>}
                                      ELSE landed[n]]
                      /\ mem' = [n \in NSPs |-> IF n \in Targets(d)
                                   THEN [mem[n] EXCEPT ![d.dst] = d.bcast] ELSE mem[n]]
                      /\ UNCHANGED rung
                 ELSE /\ rung' = [n \in NSPs |-> IF n \in Targets(d)
                                    THEN rung[n] \union {d.bcast} ELSE rung[n]]
                      /\ UNCHANGED <<landed, mem>>
  BY DEF FinishSlot
<1> DEFINE d == desc[queue[i]]
<1>2. queue[i] \in Slots /\ queue \in Seq(Slots) /\ Len(sent) \in Nat
  BY <1>0 DEF TypeOK
<1>3. d \in Contents /\ d.kind \in Kinds
  BY <1>0, <1>2 DEF TypeOK, Contents
<1>4. d.bcast \in 1 .. Len(sent) /\ d.bcast \in 1 .. MaxBroadcasts
  <2>1. Len(sent) <= MaxBroadcasts /\ MaxBroadcasts \in Nat
    BY <1>0, UserAssumption DEF TakenInOrder, Current
  <2>2. d.bcast \in 1 .. Len(sent)
    BY <1>0 DEF ListInOrder
  <2> QED
    BY <1>2, <2>1, <2>2
<1>5. \A j \in 2 .. i : desc[queue[j]].kind /= "local"
  <2>1. \A j \in 2 .. i : ~Ordered([m \in 1 .. Len(queue) |-> desc[queue[m]]][j].kind)
    BY <1>1 DEF CanFinish
  <2>2. \A j \in 2 .. i : j \in 1 .. Len(queue)
    BY <1>2
  <2> QED
    BY <2>1, <2>2 DEF Ordered
<1>6. queue' \in Seq(Slots) /\ Len(queue') = Len(queue) - 1
      /\ \A j \in 1 .. Len(queue) - 1 : queue'[j] = IF j < i THEN queue[j] ELSE queue[j + 1]
  BY <1>1, <1>2, FinishedFacts
<1>7. \A n \in NSPs : rung'[n] = IF Rings(d, n) THEN rung[n] \union {d.bcast} ELSE rung[n]
  <2>1. CASE d.kind = "payload"
    BY <1>1, <2>1 DEF Rings
  <2>2. CASE d.kind /= "payload"
    <3>1. \A n \in NSPs : n \in Targets(d) <=> Rings(d, n)
      BY <1>3, <2>2 DEF Targets, Rings, Kinds
    <3>2. \A n \in NSPs : rung'[n] = IF n \in Targets(d) THEN rung[n] \union {d.bcast} ELSE rung[n]
      BY <1>1, <2>2
    <3> QED
      BY <3>1, <3>2
  <2> QED
    BY <2>1, <2>2
<1>8. rung' \in [NSPs -> SUBSET (1 .. MaxBroadcasts)]
  <2>1. CASE d.kind = "payload"
    BY <1>0, <1>1, <2>1 DEF TypeOK
  <2>2. CASE d.kind /= "payload"
    <3>1. \A n \in NSPs : (IF n \in Targets(d) THEN rung[n] \union {d.bcast} ELSE rung[n])
                            \in SUBSET (1 .. MaxBroadcasts)
      BY <1>0, <1>4 DEF TypeOK
    <3>2. rung' = [n \in NSPs |-> IF n \in Targets(d) THEN rung[n] \union {d.bcast} ELSE rung[n]]
      BY <1>1, <2>2
    <3> QED
      BY <3>1, <3>2
  <2> QED
    BY <2>1, <2>2
<1>9. /\ \/ UNCHANGED landed
         \/ landed' = [n \in NSPs |-> IF n \in Targets(d)
                         THEN landed[n] \union {<<d.bcast, d.chunk>>} ELSE landed[n]]
      /\ \/ UNCHANGED mem
         \/ mem' = [n \in NSPs |-> IF n \in Targets(d)
                      THEN [mem[n] EXCEPT ![d.dst] = d.bcast] ELSE mem[n]]
  BY <1>1
<1> QED
  BY <1>1, <1>2, <1>3, <1>4, <1>5, <1>6, <1>7, <1>8, <1>9 DEF Finishes

-----------------------------------------------------------------------------
(* Types.                                                                  *)

\* At the start the ring is empty and every descriptor is done.
LEMMA InitHolds == Init => IInv
<1> SUFFICES ASSUME Init PROVE IInv
  OBVIOUS
<1> USE DEF Init
<1>1. TypeOK
  <2>1. 0 \in Slots
    BY RingFacts
  <2>2. 0 \in Chunks
    BY ChunkFacts, ChunksAssumption
  <2>3. desc \in [Slots -> Contents]
    BY <2>2, UserAssumption DEF Contents, Kinds
  <2>4. mem \in [NSPs -> [Chunks -> 0 .. MaxBroadcasts]]
    BY UserAssumption
  <2> QED
    BY <2>1, <2>3, <2>4 DEF TypeOK
<1>2. TakenInOrder
  BY UserAssumption DEF TakenInOrder, Busy, Current
<1>3. BitsTell
  BY DEF BitsTell
<1>4. ListInOrder
  BY DEF ListInOrder
<1>5. \A b \in 1 .. Len(sent) : EveryoneToldOf(b)
  OBVIOUS
<1>6. \A n \in NSPs : rung[n] \subseteq 1 .. Len(sent) /\ HasLast(n)
  BY DEF HasLast, Mine
<1> QED
  BY <1>1, <1>2, <1>3, <1>4, <1>5, <1>6 DEF IInv, RingInv, ToldInv

\* Every step keeps the types.
LEMMA TypeStep ==
  ASSUME IInv, [Next]_vars
  PROVE  TypeOK'
<1> USE DEF TypeOK, threadVars, nspVars
<1>0. TypeOK /\ TakenInOrder /\ ListInOrder
  BY DEF IInv, RingInv, ToldInv
<1>1. CASE Broadcast
  <2>1. PICK mask \in Masks, chunks \in ChunkCounts :
          sent' = Append(sent, [mask |-> mask, chunks |-> chunks]) /\ left' = chunks
    BY <1>1 DEF Broadcast
  <2>2. mask \in SUBSET NSPs /\ chunks \in Nat
    BY UserAssumption
  <2>3. sent' \in Seq([mask : SUBSET NSPs, chunks : ChunkCounts])
    BY <1>0, <2>1, <2>2
  <2> QED
    BY <1>0, <1>1, <2>1, <2>2, <2>3 DEF Broadcast
<1>2. CASE TakeSlot
  <2>1. next' \in Slots /\ taken' \in Seq(Slots)
    BY <1>0, <1>2, NextSlotFacts DEF TakeSlot
  <2> QED
    BY <1>0, <1>2, <2>1 DEF TakeSlot
<1>3. CASE FillOut
  <2>1. done' \in [Slots -> BOOLEAN]
    BY <1>0, <1>3 DEF FillOut
  <2>2. left \in Nat \ {0} /\ Current \in 1 .. MaxBroadcasts /\ left <= sent[Current].chunks
        /\ Len(taken) = Len(KindsOfCopy)
    BY <1>0, <1>3, UserAssumption DEF FillOut, TakenInOrder, Busy, Current
  <2>3. sent[Current].chunks \in ChunkCounts
    <3>1. Current \in 1 .. Len(sent)
      BY <2>2 DEF Current
    <3>2. sent \in Seq([mask : SUBSET NSPs, chunks : ChunkCounts])
      BY <1>0
    <3>3. sent[Current] \in [mask : SUBSET NSPs, chunks : ChunkCounts]
      BY <3>1, <3>2, ElementOfSeq
    <3> QED
      BY <3>3
  <2>4. sent[Current].chunks - left \in Chunks /\ 0 \in Chunks
    <3>1. sent[Current].chunks - left \in 0 .. sent[Current].chunks - 1
          /\ 0 \in 0 .. sent[Current].chunks - 1
      BY <2>2, <2>3, ChunkFacts
    <3> QED
      BY <2>3, <3>1, ChunkFacts
  <2>5. \A i \in 1 .. Len(taken) : KindsOfCopy[i] \in Kinds
    BY <2>2, KindsFacts
  <2>6. \A k \in 1 .. Len(taken) :
          [kind |-> KindsOfCopy[k], bcast |-> Current, chunk |-> sent[Current].chunks - left, dst |-> 0]
            \in Contents
    BY <2>2, <2>4, <2>5 DEF Contents
  <2>7. \A s \in Slots : desc'[s] \in Contents
    <3> SUFFICES ASSUME NEW s \in Slots PROVE desc'[s] \in Contents
      OBVIOUS
    <3>1. CASE \E i \in 1 .. Len(taken) : taken[i] = s
      BY <3>1, <1>3, <2>6, FillFacts
    <3>2. CASE \A i \in 1 .. Len(taken) : taken[i] /= s
      BY <3>2, <1>0, <1>3, FillFacts
    <3> QED
      BY <3>1, <3>2
  <2>8. desc' \in [Slots -> Contents]
    BY <1>3, <2>7 DEF FillOut
  <2> QED
    BY <1>0, <1>3, <2>1, <2>8 DEF FillOut
<1>4. CASE SubmitDMAs
  <2>1. left \in Nat \ {0}
    BY <1>0, <1>4 DEF SubmitDMAs, TakenInOrder, Busy
  <2> QED
    BY <1>0, <1>4, <2>1 DEF SubmitDMAs
<1>5. CASE UdmaWait
  BY <1>0, <1>5 DEF UdmaWait
<1>6. CASE FinishSlot
  <2>1. PICK i \in 1 .. Len(queue) : Finishes(i)
    BY <1>6, FinishFacts
  <2> DEFINE d == desc[queue[i]]
  <2>2. d \in Contents /\ d.bcast \in 1 .. MaxBroadcasts
    BY <2>1 DEF Finishes
  <2>3. d.bcast \in 0 .. MaxBroadcasts /\ d.chunk \in Chunks /\ d.dst \in Chunks
    BY <2>2 DEF Contents
  <2> HIDE DEF d
  <2>4. queue' \in Seq(Slots) /\ done' \in [Slots -> BOOLEAN]
    BY <1>0, <2>1 DEF Finishes
  <2>5. landed' \in [NSPs -> SUBSET ((1 .. MaxBroadcasts) \X Chunks)]
    <3>1. CASE UNCHANGED landed
      BY <1>0, <3>1
    <3>2. CASE landed' = [n \in NSPs |-> IF n \in Targets(d)
                            THEN landed[n] \union {<<d.bcast, d.chunk>>} ELSE landed[n]]
      <4>1. <<d.bcast, d.chunk>> \in (1 .. MaxBroadcasts) \X Chunks
        BY <2>2, <2>3
      <4>2. \A n \in NSPs : landed[n] \in SUBSET ((1 .. MaxBroadcasts) \X Chunks)
        BY <1>0
      <4> QED
        BY <3>2, <4>1, <4>2, Zenon
    <3> QED
      BY <2>1, <3>1, <3>2 DEF Finishes, d
  <2>6. mem' \in [NSPs -> [Chunks -> 0 .. MaxBroadcasts]]
    <3>1. CASE UNCHANGED mem
      BY <1>0, <3>1
    <3>2. CASE mem' = [n \in NSPs |-> IF n \in Targets(d)
                         THEN [mem[n] EXCEPT ![d.dst] = d.bcast] ELSE mem[n]]
      <4>1. \A n \in NSPs : [mem[n] EXCEPT ![d.dst] = d.bcast] \in [Chunks -> 0 .. MaxBroadcasts]
        BY <1>0, <2>3
      <4> QED
        BY <1>0, <3>2, <4>1, Zenon
    <3> QED
      BY <2>1, <3>1, <3>2 DEF Finishes, d
  <2>7. rung' \in [NSPs -> SUBSET (1 .. MaxBroadcasts)]
    BY <1>0, <2>1, <2>2 DEF Finishes, d
  <2> QED
    BY <1>0, <1>6, <2>4, <2>5, <2>6, <2>7 DEF FinishSlot
<1>7. CASE UNCHANGED vars
  BY <1>0, <1>7 DEF vars
<1> QED
  BY <1>1, <1>2, <1>3, <1>4, <1>5, <1>6, <1>7 DEF Next, ThreadStep

-----------------------------------------------------------------------------
(* Who owns a descriptor.                                                  *)

\* The descriptors a copy has taken, and the next one, are different ones.
LEMMA TakenApart ==
  ASSUME TypeOK, TakenInOrder
  PROVE  /\ \A i, j \in 1 .. Len(taken) : taken[i] = taken[j] => i = j
         /\ Len(taken) < 3 => \A i \in 1 .. Len(taken) : taken[i] /= next
<1>1. left \in Nat /\ taken \in Seq(Slots) /\ next \in Slots
  BY DEF TypeOK
<1>2. Len(taken) \in 0 .. 3
  <2>1. CASE pc = "taking"
    <3>1. Len(taken) \in Nat /\ Len(taken) < Len(KindsOfCopy)
      BY <1>1, <2>1 DEF TakenInOrder
    <3>2. Len(KindsOfCopy) \in 1 .. 3
      BY KindsLength
    <3>3. \A m \in Nat : \A k \in 1 .. 3 : m < k => m \in 0 .. 3
      OBVIOUS
    <3> QED
      BY <3>1, <3>2, <3>3, Zenon
  <2>2. CASE pc \in {"filling", "linking"}
    BY <1>1, <2>2, KindsLength DEF TakenInOrder
  <2>3. CASE pc \notin Busy
    BY <2>3 DEF TakenInOrder
  <2> QED
    BY <2>1, <2>2, <2>3 DEF TypeOK, Busy
<1>3. \A i \in 1 .. Len(taken) : taken[i] \in Slots
  BY <1>1
<1>4. \A i \in 1 .. Len(taken) - 1 : taken[i + 1] = NextSlot(taken[i])
  BY DEF TakenInOrder
<1>5. Len(taken) >= 2 => taken[2] = NextSlot(taken[1])
  BY <1>2, <1>4
<1>6. Len(taken) >= 3 => taken[3] = NextSlot(taken[2])
  BY <1>2, <1>4
<1>7. Len(taken) >= 2 => taken[1] /= taken[2]
  BY <1>2, <1>3, <1>5, NextSlotFacts
<1>8. Len(taken) = 3 => taken[2] /= taken[3] /\ taken[1] /= taken[3]
  BY <1>2, <1>3, <1>5, <1>6, NextSlotFacts
<1>9. \A i, j \in 1 .. Len(taken) : taken[i] = taken[j] => i = j
  BY <1>2, <1>7, <1>8
<1>10. Len(taken) = 1 => taken[1] /= next
  BY <1>2, <1>3, NextSlotFacts DEF TakenInOrder
<1>11. Len(taken) = 2 => taken[1] /= next /\ taken[2] /= next
  <2>1. SUFFICES ASSUME Len(taken) = 2 PROVE taken[1] /= next /\ taken[2] /= next
    OBVIOUS
  <2>2. next = NextSlot(taken[2])
    BY <1>1, <2>1 DEF TakenInOrder
  <2> QED
    BY <2>1, <2>2, <1>3, <1>5, NextSlotFacts
<1> QED
  BY <1>2, <1>9, <1>10, <1>11

\* A copy is taken, filled in and submitted in that order.
LEMMA TakenStep ==
  ASSUME IInv, [Next]_vars, TypeOK'
  PROVE  TakenInOrder'
<1>0. TypeOK /\ TakenInOrder /\ left \in Nat /\ Len(sent) \in Nat
  BY DEF IInv, RingInv, TypeOK
<1> USE DEF TakenInOrder, Busy
<1>1. CASE Broadcast
  <2>1. PICK mask \in Masks, chunks \in ChunkCounts :
          sent' = Append(sent, [mask |-> mask, chunks |-> chunks]) /\ left' = chunks
    BY <1>1 DEF Broadcast
  <2>2. Len(sent') = Len(sent) + 1 /\ sent'[Len(sent) + 1] = [mask |-> mask, chunks |-> chunks]
    BY <1>0, <2>1 DEF TypeOK
  <2>3. chunks \in Nat \ {0}
    BY UserAssumption
  <2>4. taken' = <<>> /\ pc' = "taking"
    BY <1>0, <1>1 DEF Broadcast
  <2>5. Len(KindsOfCopy') >= 1
    BY KindsLength
  <2> QED
    BY <1>0, <1>1, <2>1, <2>2, <2>3, <2>4, <2>5, UserAssumption DEF Broadcast, Current
<1>2. CASE TakeSlot
  <2>1. KindsOfCopy' = KindsOfCopy /\ Current' = Current
    BY <1>2 DEF TakeSlot, KindsOfCopy, IsMulticast, Mask, Current
  <2>2. taken \in Seq(Slots) /\ taken' = Append(taken, next) /\ Len(taken') = Len(taken) + 1
        /\ (\A i \in 1 .. Len(taken) : taken'[i] = taken[i]) /\ taken'[Len(taken) + 1] = next
    BY <1>0, <1>2 DEF TakeSlot, TypeOK
  <2>3. \A i \in 1 .. Len(taken') - 1 : taken'[i + 1] = NextSlot(taken'[i])
    <3>a. Len(taken) \in Nat /\ Len(taken') - 1 = Len(taken)
      BY <2>2
    <3> SUFFICES ASSUME NEW i \in 1 .. Len(taken) PROVE taken'[i + 1] = NextSlot(taken[i])
      BY <2>2, <3>a
    <3>1. CASE i < Len(taken)
      <4>1. i + 1 \in 1 .. Len(taken) /\ i \in 1 .. Len(taken) - 1
        BY <2>2, <3>1
      <4> QED
        BY <1>0, <2>2, <4>1
    <3>2. CASE i = Len(taken)
      <4>1. taken /= <<>>
        BY <2>2, <3>2
      <4> QED
        BY <1>0, <2>2, <3>2, <4>1
    <3> QED
      BY <3>1, <3>2, <2>2
  <2>4. next' = NextSlot(next) /\ UNCHANGED <<left, sent>> /\ pc = "taking"
        /\ pc' = IF Len(taken') = Len(KindsOfCopy) THEN "filling" ELSE "taking"
    BY <1>2 DEF TakeSlot
  <2>5. Len(KindsOfCopy) \in Nat /\ Len(taken) < Len(KindsOfCopy)
    BY <1>0, <2>4, KindsFacts
  <2> QED
    BY <1>0, <2>1, <2>2, <2>3, <2>4, <2>5
<1>3. CASE FillOut
  BY <1>0, <1>3 DEF FillOut, KindsOfCopy, IsMulticast, Mask, Current
<1>4. CASE SubmitDMAs
  <2>1. Len(KindsOfCopy') >= 1
    BY KindsLength
  <2>2. taken' = <<>> /\ left' = left - 1 /\ left \in Nat \ {0}
        /\ pc' \in IF left > 1 THEN {"taking"} ELSE {"idle", "waiting"}
    BY <1>0, <1>4 DEF SubmitDMAs
  <2>3. Current' = Current /\ sent' = sent
    BY <1>4 DEF SubmitDMAs, Current
  <2>4. pc' \in Busy <=> left' > 0
    BY <2>2
  <2>5. pc' \notin {"filling", "linking"} /\ (pc' = "taking" => Len(taken') < Len(KindsOfCopy'))
    BY <2>1, <2>2, KindsLength
  <2>6. pc' \in Busy => Current' > 0 /\ left' <= sent'[Current'].chunks
    <3>1. pc \in Busy
      BY <1>4 DEF SubmitDMAs
    <3>2. Current > 0 /\ left <= sent[Current].chunks
      BY <1>0, <3>1
    <3>3. sent[Current].chunks \in Nat
      <4>1. sent \in Seq([mask : SUBSET NSPs, chunks : ChunkCounts]) /\ Current \in 1 .. Len(sent)
        BY <1>0, <3>2 DEF TypeOK, Current
      <4>2. sent[Current] \in [mask : SUBSET NSPs, chunks : ChunkCounts]
        BY <4>1, ElementOfSeq
      <4> QED
        BY <4>2, UserAssumption
    <3> QED
      BY <2>2, <2>3, <3>2, <3>3
  <2>7. \A i \in 1 .. Len(taken') - 1 : taken'[i + 1] = NextSlot(taken'[i])
    BY <2>2
  <2>8. Current' <= MaxBroadcasts
    BY <1>0, <2>3
  <2> QED
    BY <2>2, <2>4, <2>5, <2>6, <2>7, <2>8
<1>5. CASE UdmaWait
  BY <1>0, <1>5 DEF UdmaWait, Current
<1>6. CASE FinishSlot
  BY <1>0, <1>6 DEF FinishSlot, threadVars, KindsOfCopy, IsMulticast, Mask, Current
<1>7. CASE UNCHANGED vars
  BY <1>0, <1>7 DEF vars, KindsOfCopy, IsMulticast, Mask, Current
<1> QED
  BY <1>1, <1>2, <1>3, <1>4, <1>5, <1>6, <1>7 DEF Next, ThreadStep

\* The done bits go on telling whose a descriptor is.
LEMMA BitsStep ==
  ASSUME IInv, [Next]_vars, TypeOK'
  PROVE  BitsTell'
<1>0. TypeOK /\ TakenInOrder /\ BitsTell
  BY DEF IInv, RingInv
<1>a. /\ queue \in Seq(Slots) /\ Len(queue) \in Nat
      /\ taken \in Seq(Slots) /\ Len(taken) \in Nat
      /\ \A i \in 1 .. Len(queue) : queue[i] \in Slots
      /\ \A i \in 1 .. Len(taken) : taken[i] \in Slots
  BY <1>0 DEF TypeOK
<1>1. CASE Broadcast
  BY <1>0, <1>1 DEF Broadcast, BitsTell, nspVars
<1>2. CASE TakeSlot
  <2>1. Len(taken') = Len(taken) + 1 /\ (\A i \in 1 .. Len(taken) : taken'[i] = taken[i])
        /\ taken'[Len(taken) + 1] = next
    BY <1>0, <1>2 DEF TakeSlot, TypeOK
  <2>2. \A i \in 1 .. Len(taken') : done[taken'[i]]
    <3> SUFFICES ASSUME NEW i \in 1 .. Len(taken) + 1 PROVE done[taken'[i]]
      BY <1>a, <2>1
    <3>1. CASE i \in 1 .. Len(taken)
      BY <1>0, <1>2, <2>1, <3>1 DEF TakeSlot, BitsTell
    <3>2. CASE i = Len(taken) + 1
      BY <1>2, <2>1, <3>2 DEF TakeSlot
    <3> QED
      BY <1>a, <3>1, <3>2
  <2> QED
    BY <1>0, <1>2, <2>2 DEF TakeSlot, BitsTell
<1>3. CASE FillOut
  <2>1. \A i \in 1 .. Len(taken) : ~done'[taken[i]]
    <3> TAKE i \in 1 .. Len(taken)
    <3>1. PICK k \in 1 .. Len(taken) : ~done'[taken[i]]
      BY <1>3, FillFacts
    <3> QED
      BY <3>1
  <2>2. \A i \in 1 .. Len(taken), j \in 1 .. Len(queue) : queue[j] /= taken[i]
    BY <1>0, <1>3 DEF FillOut, BitsTell
  <2>3. \A j \in 1 .. Len(queue) : ~done'[queue[j]]
    <3> TAKE j \in 1 .. Len(queue)
    <3>1. queue[j] \in Slots /\ \A i \in 1 .. Len(taken) : taken[i] /= queue[j]
      BY <1>a, <2>2
    <3>2. done'[queue[j]] = done[queue[j]]
      BY <1>3, <3>1, FillFacts
    <3> QED
      BY <1>0, <3>2 DEF BitsTell
  <2> QED
    BY <1>0, <1>3, <2>1, <2>2, <2>3 DEF FillOut, BitsTell
<1>4. CASE SubmitDMAs
  <2>1. Len(queue') = Len(queue) + Len(taken)
        /\ \A i \in 1 .. Len(queue') :
             queue'[i] = IF i <= Len(queue) THEN queue[i] ELSE taken[i - Len(queue)]
    BY <1>4, <1>a DEF SubmitDMAs
  <2>2. taken' = <<>> /\ done' = done /\ pc = "linking" /\ pc' /= "linking"
    BY <1>4 DEF SubmitDMAs
  <2>3. \A i \in 1 .. Len(queue) : \A j \in 1 .. Len(taken) : queue[i] /= taken[j]
    BY <1>0, <2>2 DEF BitsTell
  <2>4. \A i \in 1 .. Len(queue') : ~done'[queue'[i]]
    <3> SUFFICES ASSUME NEW i \in 1 .. Len(queue') PROVE ~done[queue'[i]]
      BY <2>2
    <3>1. CASE i <= Len(queue)
      <4>1. i \in 1 .. Len(queue)
        BY <1>a, <3>1
      <4> QED
        BY <1>0, <2>1, <3>1, <4>1 DEF BitsTell
    <3>2. CASE ~(i <= Len(queue))
      <4>1. i - Len(queue) \in 1 .. Len(taken)
        BY <1>a, <2>1, <3>2
      <4> QED
        BY <1>0, <2>1, <2>2, <3>2, <4>1 DEF BitsTell
    <3> QED
      BY <3>1, <3>2
  <2>5. \A i, j \in 1 .. Len(queue') : queue'[i] = queue'[j] => i = j
    <3> SUFFICES ASSUME NEW i \in 1 .. Len(queue'), NEW j \in 1 .. Len(queue'), queue'[i] = queue'[j]
                 PROVE  i = j
      OBVIOUS
    <3>1. i \in 1 .. Len(queue) \/ i - Len(queue) \in 1 .. Len(taken)
      BY <1>a, <2>1
    <3>2. j \in 1 .. Len(queue) \/ j - Len(queue) \in 1 .. Len(taken)
      BY <1>a, <2>1
    <3>3. CASE i \in 1 .. Len(queue) /\ j \in 1 .. Len(queue)
      BY <1>0, <1>a, <2>1, <3>3 DEF BitsTell
    <3>4. CASE i \in 1 .. Len(queue) /\ j - Len(queue) \in 1 .. Len(taken)
      BY <1>a, <2>1, <2>3, <3>4
    <3>5. CASE i - Len(queue) \in 1 .. Len(taken) /\ j \in 1 .. Len(queue)
      BY <1>a, <2>1, <2>3, <3>5
    <3>6. CASE i - Len(queue) \in 1 .. Len(taken) /\ j - Len(queue) \in 1 .. Len(taken)
      <4>1. taken[i - Len(queue)] = taken[j - Len(queue)]
        BY <1>a, <2>1, <3>6
      <4>2. i - Len(queue) = j - Len(queue)
        BY <1>0, <3>6, <4>1, TakenApart
      <4> QED
        BY <1>a, <2>1, <4>2
    <3> QED
      BY <3>1, <3>2, <3>3, <3>4, <3>5, <3>6
  <2> QED
    BY <2>2, <2>4, <2>5 DEF BitsTell
<1>5. CASE UdmaWait
  BY <1>0, <1>5 DEF UdmaWait, BitsTell
<1>6. CASE FinishSlot
  <2>1. PICK i \in 1 .. Len(queue) : Finishes(i)
    BY <1>6, FinishFacts
  <2>2. /\ Len(queue') = Len(queue) - 1
        /\ \A j \in 1 .. Len(queue') : queue'[j] = IF j < i THEN queue[j] ELSE queue[j + 1]
        /\ done' = [done EXCEPT ![queue[i]] = TRUE] /\ UNCHANGED <<pc, taken>>
    BY <1>6, <2>1, <1>a DEF Finishes, FinishSlot, threadVars
  <2>3. \A s \in Slots : s /= queue[i] => done'[s] = done[s]
    BY <1>0, <2>2 DEF TypeOK
  <2>4. \A j \in 1 .. Len(queue) : j /= i => queue[j] /= queue[i]
    BY <1>0 DEF BitsTell
  <2>5. \A j \in 1 .. Len(queue') : \E m \in 1 .. Len(queue) :
          m /= i /\ queue'[j] = queue[m] /\ m = IF j < i THEN j ELSE j + 1
    <3> TAKE j \in 1 .. Len(queue')
    <3> DEFINE m == IF j < i THEN j ELSE j + 1
    <3>1. m \in 1 .. Len(queue) /\ m /= i
      BY <1>a, <2>2
    <3> QED
      BY <2>2, <3>1
  <2>6. \A j \in 1 .. Len(queue') : ~done'[queue'[j]]
    <3> TAKE j \in 1 .. Len(queue')
    <3>1. PICK m \in 1 .. Len(queue) : m /= i /\ queue'[j] = queue[m]
      BY <2>5
    <3>2. done'[queue[m]] = done[queue[m]]
      BY <1>a, <2>3, <2>4, <3>1
    <3> QED
      BY <1>0, <3>1, <3>2 DEF BitsTell
  <2>7. \A j, k \in 1 .. Len(queue') : queue'[j] = queue'[k] => j = k
    <3> SUFFICES ASSUME NEW j \in 1 .. Len(queue'), NEW k \in 1 .. Len(queue'), queue'[j] = queue'[k]
                 PROVE  j = k
      OBVIOUS
    <3>1. PICK m \in 1 .. Len(queue) : queue'[j] = queue[m] /\ m = IF j < i THEN j ELSE j + 1
      BY <2>5
    <3>2. PICK l \in 1 .. Len(queue) : queue'[k] = queue[l] /\ l = IF k < i THEN k ELSE k + 1
      BY <2>5
    <3>3. m = l
      BY <1>0, <3>1, <3>2 DEF BitsTell
    <3> QED
      BY <1>a, <2>2, <3>1, <3>2, <3>3
  <2>8. pc /= "linking" => \A k \in 1 .. Len(taken) : done'[taken[k]]
    <3> SUFFICES ASSUME pc /= "linking", NEW k \in 1 .. Len(taken) PROVE done'[taken[k]]
      OBVIOUS
    <3>1. done[taken[k]] /\ ~done[queue[i]]
      BY <1>0 DEF BitsTell
    <3> QED
      BY <1>a, <2>3, <3>1
  <2>9. pc = "linking" => \A k \in 1 .. Len(taken) :
          ~done'[taken[k]] /\ \A j \in 1 .. Len(queue') : queue'[j] /= taken[k]
    <3> SUFFICES ASSUME pc = "linking", NEW k \in 1 .. Len(taken)
                 PROVE  ~done'[taken[k]] /\ \A j \in 1 .. Len(queue') : queue'[j] /= taken[k]
      OBVIOUS
    <3>1. ~done[taken[k]] /\ \A j \in 1 .. Len(queue) : queue[j] /= taken[k]
      BY <1>0 DEF BitsTell
    <3> QED
      BY <1>a, <2>3, <2>5, <3>1
  <2> QED
    BY <2>2, <2>6, <2>7, <2>8, <2>9 DEF BitsTell
<1>7. CASE UNCHANGED vars
  BY <1>0, <1>7 DEF vars, BitsTell
<1> QED
  BY <1>1, <1>2, <1>3, <1>4, <1>5, <1>6, <1>7 DEF Next, ThreadStep

-----------------------------------------------------------------------------
(* The order of the list.                                                  *)

\* Filling in descriptors touches none that the engine has, and each gets what the copy needs.
LEMMA FillApart ==
  ASSUME IInv, FillOut
  PROVE  /\ \A j \in 1 .. Len(queue) : desc'[queue[j]] = desc[queue[j]]
         /\ \A i \in 1 .. Len(taken) :
              desc'[taken[i]].kind = KindsOfCopy[i] /\ desc'[taken[i]].bcast = Current
<1>0. TypeOK /\ TakenInOrder /\ BitsTell
  BY DEF IInv, RingInv
<1>1. \A j \in 1 .. Len(queue) : queue[j] \in Slots
  BY <1>0 DEF TypeOK
<1>2. \A i \in 1 .. Len(taken), j \in 1 .. Len(queue) : queue[j] /= taken[i]
  BY <1>0 DEF FillOut, BitsTell
<1>3. \A j \in 1 .. Len(queue) : desc'[queue[j]] = desc[queue[j]]
  BY <1>1, <1>2, FillFacts
<1>4. ASSUME NEW i \in 1 .. Len(taken)
      PROVE  desc'[taken[i]].kind = KindsOfCopy[i] /\ desc'[taken[i]].bcast = Current
  <2>1. PICK k \in 1 .. Len(taken) :
          /\ taken[k] = taken[i]
          /\ desc'[taken[i]] = [kind |-> KindsOfCopy[k], bcast |-> Current,
                                chunk |-> sent[Current].chunks - left, dst |-> 0]
    BY FillFacts
  <2>2. k = i
    BY <1>0, <2>1, TakenApart
  <2> QED
    BY <2>1, <2>2
<1> QED
  BY <1>3, <1>4

\* The list the engine has after the thread has linked its chain.
LEMMA SubmitFacts ==
  ASSUME TypeOK, SubmitDMAs
  PROVE  /\ Len(queue) \in Nat /\ Len(taken) \in Nat /\ Len(queue') = Len(queue) + Len(taken)
         /\ \A i \in 1 .. Len(queue) : i \in 1 .. Len(queue') /\ queue'[i] = queue[i]
         /\ \A i \in 1 .. Len(taken) :
              Len(queue) + i \in 1 .. Len(queue') /\ queue'[Len(queue) + i] = taken[i]
         /\ \A i \in 1 .. Len(queue') :
              \/ i \in 1 .. Len(queue)
              \/ (i - Len(queue) \in 1 .. Len(taken) /\ queue'[i] = taken[i - Len(queue)])
<1>1. queue \in Seq(Slots) /\ taken \in Seq(Slots) /\ queue' = queue \o taken
  BY DEF TypeOK, SubmitDMAs
<1>2. Len(queue) \in Nat /\ Len(taken) \in Nat /\ Len(queue') = Len(queue) + Len(taken)
      /\ \A i \in 1 .. Len(queue') :
           queue'[i] = IF i <= Len(queue) THEN queue[i] ELSE taken[i - Len(queue)]
  BY <1>1
<1>3. \A i \in 1 .. Len(queue) : i \in 1 .. Len(queue') /\ queue'[i] = queue[i]
  BY <1>2
<1>4. \A i \in 1 .. Len(taken) :
        Len(queue) + i \in 1 .. Len(queue') /\ queue'[Len(queue) + i] = taken[i]
  <2> TAKE i \in 1 .. Len(taken)
  <2>1. Len(queue) + i \in 1 .. Len(queue') /\ ~(Len(queue) + i <= Len(queue))
        /\ Len(queue) + i - Len(queue) = i
    BY <1>2
  <2> QED
    BY <1>2, <2>1
<1>5. \A i \in 1 .. Len(queue') :
        \/ i \in 1 .. Len(queue)
        \/ (i - Len(queue) \in 1 .. Len(taken) /\ queue'[i] = taken[i - Len(queue)])
  <2> TAKE i \in 1 .. Len(queue')
  <2>1. CASE i <= Len(queue)
    BY <1>2, <2>1
  <2>2. CASE ~(i <= Len(queue))
    <3>1. i - Len(queue) \in 1 .. Len(taken)
      BY <1>2, <2>2
    <3> QED
      BY <1>2, <2>2, <3>1
  <2> QED
    BY <2>1, <2>2
<1> QED
  BY <1>2, <1>3, <1>4, <1>5

\* The list stays in the order of the calls, with a local doorbell between two multicast ones:
\* an ordered descriptor that is not the first is never finished before those ahead of it.
LEMMA ListStep ==
  ASSUME IInv, [Next]_vars, TypeOK'
  PROVE  ListInOrder'
<1> DEFINE Bcast(i) == desc[queue[i]].bcast
           Kind(i) == desc[queue[i]].kind
<1>0. TypeOK /\ TakenInOrder /\ ListInOrder /\ left \in Nat /\ Len(sent) \in Nat
      /\ Len(queue) \in Nat /\ Len(taken) \in Nat
  BY DEF IInv, RingInv, ToldInv, TypeOK
<1>a. /\ \A i \in 1 .. Len(queue) : Bcast(i) \in 1 .. Len(sent)
      /\ \A i, j \in 1 .. Len(queue) : i < j => Bcast(i) <= Bcast(j)
      /\ \A i, k \in 1 .. Len(queue) : i < k /\ Kind(i) = "global" /\ Kind(k) = "global"
           => \E j \in i + 1 .. k - 1 : Kind(j) = "local"
  BY <1>0 DEF ListInOrder
<1>1. CASE Broadcast
  <2>1. UNCHANGED <<queue, desc, taken>> /\ pc' = "taking" /\ Len(sent') = Len(sent) + 1
    BY <1>0, <1>1 DEF Broadcast, TypeOK
  <2>2. \A i \in 1 .. Len(queue') : desc'[queue'[i]].bcast \in 1 .. Len(sent')
    BY <1>0, <1>a, <2>1
  <2> QED
    BY <1>a, <2>1, <2>2 DEF ListInOrder
<1>2. CASE TakeSlot
  BY <1>0, <1>2 DEF TakeSlot, ListInOrder
<1>3. CASE FillOut
  <2>1. UNCHANGED <<queue, taken, left, sent>>
    BY <1>3 DEF FillOut
  <2>2. KindsOfCopy' = KindsOfCopy /\ Current' = Current
    BY <2>1 DEF KindsOfCopy, IsMulticast, Mask, Current
  <2>3. \A i, k \in 1 .. Len(queue) : \A j \in i + 1 .. k - 1 : j \in 1 .. Len(queue)
    BY <1>0
  <2>4. \A i \in 1 .. Len(queue) : desc'[queue'[i]] = desc[queue[i]]
    BY <1>3, <2>1, FillApart
  <2>5. \A i, k \in 1 .. Len(queue) :
          i < k /\ desc'[queue'[i]].kind = "global" /\ desc'[queue'[k]].kind = "global"
            => \E j \in i + 1 .. k - 1 : desc'[queue'[j]].kind = "local"
    BY <1>a, <2>3, <2>4
  <2>6. \A i \in 1 .. Len(taken) :
          desc'[taken[i]].kind = KindsOfCopy[i] /\ desc'[taken[i]].bcast = Current
    BY <1>3, FillApart
  <2> QED
    BY <1>a, <2>1, <2>2, <2>4, <2>5, <2>6 DEF ListInOrder
<1>4. CASE SubmitDMAs
  <2> DEFINE n == Len(queue)
  <2>1. UNCHANGED <<desc, sent>> /\ pc = "linking" /\ pc' /= "linking"
    BY <1>4 DEF SubmitDMAs
  <2>2. Current \in 1 .. Len(sent) /\ Current = Len(sent)
    BY <1>0, <2>1 DEF TakenInOrder, Busy, Current
  <2>3. \A i \in 1 .. Len(taken) :
          desc[taken[i]].kind = KindsOfCopy[i] /\ desc[taken[i]].bcast = Len(sent)
    BY <1>0, <2>1, <2>2 DEF ListInOrder
  <2>4. \A i \in 1 .. Len(taken) : KindsOfCopy[i] = "global" => i = 3 /\ KindsOfCopy[2] = "local"
    <3>1. Len(taken) = Len(KindsOfCopy)
      BY <1>0, <2>1 DEF TakenInOrder
    <3> QED
      BY <1>0, <3>1, KindsFacts
  <2>5. \A i \in 1 .. Len(queue') : desc'[queue'[i]].bcast \in 1 .. Len(sent')
    <3> TAKE i \in 1 .. Len(queue')
    <3>1. CASE i \in 1 .. n
      BY <1>0, <1>4, <1>a, <2>1, <3>1, SubmitFacts
    <3>2. CASE i - n \in 1 .. Len(taken) /\ queue'[i] = taken[i - n]
      BY <2>1, <2>2, <2>3, <3>2
    <3> QED
      BY <1>0, <1>4, <3>1, <3>2, SubmitFacts
  <2>6. ASSUME NEW i \in 1 .. Len(queue'), NEW k \in 1 .. Len(queue'), i < k
        PROVE  desc'[queue'[i]].bcast <= desc'[queue'[k]].bcast
    <3>1. CASE k \in 1 .. n
      <4>1. i \in 1 .. n
        BY <1>0, <2>6, <3>1
      <4> QED
        BY <1>0, <1>4, <1>a, <2>1, <2>6, <3>1, <4>1, SubmitFacts
    <3>2. CASE k \notin 1 .. n
      <4>1. desc'[queue'[k]].bcast = Len(sent)
        <5>1. k - n \in 1 .. Len(taken) /\ queue'[k] = taken[k - n]
          BY <1>0, <1>4, <3>2, SubmitFacts
        <5> QED
          BY <2>1, <2>3, <5>1
      <4>2. desc'[queue'[i]].bcast \in 1 .. Len(sent)
        BY <2>1, <2>5
      <4> QED
        BY <1>0, <4>1, <4>2
    <3> QED
      BY <3>1, <3>2
  <2>7. ASSUME NEW i \in 1 .. Len(queue'), NEW k \in 1 .. Len(queue'), i < k,
               desc'[queue'[i]].kind = "global", desc'[queue'[k]].kind = "global"
        PROVE  \E j \in i + 1 .. k - 1 : desc'[queue'[j]].kind = "local"
    <3>1. CASE k \in 1 .. n
      <4>1. i \in 1 .. n
        BY <1>0, <2>7, <3>1
      <4>a. Kind(i) = "global" /\ Kind(k) = "global"
        BY <1>0, <1>4, <2>1, <2>7, <3>1, <4>1, SubmitFacts
      <4>2. PICK j \in i + 1 .. k - 1 : Kind(j) = "local"
        BY <1>a, <2>7, <3>1, <4>1, <4>a
      <4>3. j \in 1 .. n
        BY <1>0, <3>1, <4>1, <4>2
      <4> QED
        BY <1>0, <1>4, <2>1, <4>2, <4>3, SubmitFacts
    <3>2. CASE k \notin 1 .. n
      <4>1. k - n \in 1 .. Len(taken) /\ queue'[k] = taken[k - n]
        BY <1>0, <1>4, <3>2, SubmitFacts
      <4>a. KindsOfCopy[k - n] = "global"
        BY <2>1, <2>3, <2>7, <4>1
      <4>2. k = n + 3 /\ KindsOfCopy[2] = "local" /\ 2 \in 1 .. Len(taken)
        BY <1>0, <2>4, <4>1, <4>a
      <4>3. desc'[queue'[n + 2]].kind = "local"
        BY <1>0, <1>4, <2>1, <2>3, <4>2, SubmitFacts
      <4>4. i /= n + 2
        BY <2>7, <4>3
      <4>5. i < n + 2
        BY <1>0, <2>7, <4>2, <4>4, SubmitFacts, <1>4
      <4> QED
        BY <1>0, <4>2, <4>3, <4>5
    <3> QED
      BY <3>1, <3>2
  <2> QED
    BY <2>1, <2>5, <2>6, <2>7 DEF ListInOrder
<1>5. CASE UdmaWait
  BY <1>0, <1>5 DEF UdmaWait, ListInOrder
<1>6. CASE FinishSlot
  <2>1. PICK i \in 1 .. Len(queue) : Finishes(i)
    BY <1>6, FinishFacts
  <2>2. /\ Len(queue') = Len(queue) - 1
        /\ \A j \in 1 .. Len(queue') : queue'[j] = IF j < i THEN queue[j] ELSE queue[j + 1]
        /\ \A j \in 2 .. i : Kind(j) /= "local"
        /\ UNCHANGED <<pc, taken, desc, left, sent>>
    BY <1>6, <2>1, <1>0 DEF Finishes, FinishSlot, threadVars
  <2> DEFINE At(j) == IF j < i THEN j ELSE j + 1
  <2>3. \A j \in 1 .. Len(queue') : At(j) \in 1 .. Len(queue) /\ queue'[j] = queue[At(j)]
    BY <1>0, <2>2
  <2>4. \A j, k \in 1 .. Len(queue') : j < k => At(j) < At(k)
    BY <1>0, <2>2
  <2>5. \A j \in 1 .. Len(queue') : desc'[queue'[j]] = desc[queue[At(j)]]
    BY <2>2, <2>3
  <2>6. ASSUME NEW j \in 1 .. Len(queue'), NEW k \in 1 .. Len(queue'), j < k,
               desc'[queue'[j]].kind = "global", desc'[queue'[k]].kind = "global"
        PROVE  \E m \in j + 1 .. k - 1 : desc'[queue'[m]].kind = "local"
    <3>1. PICK l \in At(j) + 1 .. At(k) - 1 : Kind(l) = "local"
      BY <1>a, <2>3, <2>4, <2>5, <2>6, SMTT(30)
    <3>2. l > i
      <4>1. l \in Nat /\ l >= 2
        BY <1>0, <2>3, <3>1
      <4>2. l \notin 2 .. i
        BY <2>2, <3>1
      <4> QED
        BY <4>1, <4>2
    <3>3. l - 1 \in j + 1 .. k - 1 /\ l - 1 \in 1 .. Len(queue') /\ At(l - 1) = l
      BY <1>0, <2>2, <3>1, <3>2
    <3>4. desc'[queue'[l - 1]].kind = "local"
      BY <2>5, <3>1, <3>3
    <3> QED
      BY <3>3, <3>4
  <2>7. \A j \in 1 .. Len(queue') : desc'[queue'[j]].bcast \in 1 .. Len(sent')
    BY <1>a, <2>2, <2>3, <2>5
  <2>8. \A j, k \in 1 .. Len(queue') : j < k => desc'[queue'[j]].bcast <= desc'[queue'[k]].bcast
    <3> SUFFICES ASSUME NEW j \in 1 .. Len(queue'), NEW k \in 1 .. Len(queue'), j < k
                 PROVE  desc'[queue'[j]].bcast <= desc'[queue'[k]].bcast
      OBVIOUS
    <3>1. At(j) \in 1 .. Len(queue) /\ At(k) \in 1 .. Len(queue) /\ At(j) < At(k)
      BY <2>3, <2>4
    <3> HIDE DEF At
    <3>2. Bcast(At(j)) <= Bcast(At(k))
      BY <1>a, <3>1
    <3> QED
      BY <2>5, <3>2
  <2>9. KindsOfCopy' = KindsOfCopy /\ Current' = Current
    BY <2>2 DEF KindsOfCopy, IsMulticast, Mask, Current
  <2> QED
    BY <1>0, <2>2, <2>6, <2>7, <2>8, <2>9 DEF ListInOrder
<1>7. CASE UNCHANGED vars
  <2>1. KindsOfCopy' = KindsOfCopy /\ Current' = Current
    BY <1>7 DEF vars, KindsOfCopy, IsMulticast, Mask, Current
  <2> QED
    BY <1>0, <1>7, <2>1 DEF vars, ListInOrder
<1> QED
  BY <1>1, <1>2, <1>3, <1>4, <1>5, <1>6, <1>7 DEF Next, ThreadStep

-----------------------------------------------------------------------------
(* Who has been told of what.                                              *)

\* No broadcast is forgotten on its way.
LEMMA ToldStep ==
  ASSUME IInv, [Next]_vars, TypeOK'
  PROVE  \A b \in 1 .. Len(sent') : EveryoneToldOf(b)'
<1>0. TypeOK /\ TakenInOrder /\ ListInOrder /\ left \in Nat /\ Len(sent) \in Nat
      /\ Len(queue) \in Nat /\ Len(taken) \in Nat
      /\ \A b \in 1 .. Len(sent) : EveryoneToldOf(b)
  BY DEF IInv, RingInv, ToldInv, TypeOK
<1> USE DEF EveryoneToldOf
<1>1. CASE Broadcast
  <2>1. PICK mask \in Masks, chunks \in ChunkCounts :
          sent' = Append(sent, [mask |-> mask, chunks |-> chunks]) /\ left' = chunks
    BY <1>1 DEF Broadcast
  <2>2. Len(sent') = Len(sent) + 1 /\ (\A b \in 1 .. Len(sent) : sent'[b] = sent[b])
    BY <1>0, <2>1 DEF TypeOK
  <2>3. left' > 0 /\ left = 0
    BY <1>0, <1>1, <2>1, UserAssumption DEF Broadcast, TakenInOrder, Busy
  <2>4. UNCHANGED <<queue, desc, rung>>
    BY <1>1 DEF Broadcast, nspVars
  <2> SUFFICES ASSUME NEW b \in 1 .. Len(sent) + 1, NEW n \in sent'[b].mask
               PROVE  \/ b \in rung'[n]
                      \/ \E i \in 1 .. Len(queue') :
                           desc'[queue'[i]].bcast = b /\ Rings(desc'[queue'[i]], n)
                      \/ b = Current' /\ left' > 0
    BY <2>2
  <2>5. CASE b \in 1 .. Len(sent)
    BY <1>0, <2>2, <2>3, <2>4, <2>5
  <2>6. CASE b = Len(sent) + 1
    BY <2>2, <2>3, <2>6 DEF Current
  <2> QED
    BY <1>0, <2>5, <2>6
<1>2. CASE TakeSlot
  BY <1>0, <1>2 DEF TakeSlot, nspVars, Current
<1>3. CASE FillOut
  <2>1. UNCHANGED <<queue, left, sent, rung>> /\ Current' = Current
    BY <1>3 DEF FillOut, nspVars, Current
  <2>2. \A i \in 1 .. Len(queue) : desc'[queue'[i]] = desc[queue[i]]
    BY <1>3, <2>1, FillApart
  <2> QED
    BY <1>0, <2>1, <2>2
<1>4. CASE SubmitDMAs
  <2>1. UNCHANGED <<desc, sent, rung>> /\ pc = "linking" /\ left' = left - 1 /\ Current' = Current
    BY <1>4 DEF SubmitDMAs, nspVars, Current
  <2>2. \A i \in 1 .. Len(queue) : i \in 1 .. Len(queue') /\ queue'[i] = queue[i]
    BY <1>0, <1>4, SubmitFacts
  <2>3. \A i \in 1 .. Len(taken) :
          desc[taken[i]].kind = KindsOfCopy[i] /\ desc[taken[i]].bcast = Current
    BY <1>0, <2>1 DEF ListInOrder
  <2> SUFFICES ASSUME NEW b \in 1 .. Len(sent), NEW n \in sent[b].mask
               PROVE  \/ b \in rung[n]
                      \/ \E i \in 1 .. Len(queue') :
                           desc[queue'[i]].bcast = b /\ Rings(desc[queue'[i]], n)
                      \/ b = Current /\ left' > 0
    BY <2>1
  <2>4. CASE b \in rung[n]
    BY <2>4
  <2>5. CASE \E i \in 1 .. Len(queue) : desc[queue[i]].bcast = b /\ Rings(desc[queue[i]], n)
    BY <2>2, <2>5
  <2>6. CASE b = Current /\ left > 1
    BY <1>0, <2>1, <2>6
  <2>7. CASE b = Current /\ left = 1
    <3>1. Len(taken) = Len(KindsOfCopy) /\ Mask = sent[b].mask
      BY <1>0, <2>1, <2>7 DEF TakenInOrder, Mask
    <3>2. n \in NSPs
      <4>1. sent[b] \in [mask : SUBSET NSPs, chunks : ChunkCounts]
        <5>1. sent \in Seq([mask : SUBSET NSPs, chunks : ChunkCounts])
          BY <1>0 DEF TypeOK
        <5> QED
          BY <5>1, ElementOfSeq
      <4> QED
        BY <4>1
    <3>3. \E k \in 1 .. Len(taken) : Rings(desc[taken[k]], n)
      <4>1. CASE n = Self
        <5>1. 2 \in 1 .. Len(taken) /\ KindsOfCopy[2] = "local"
          BY <1>0, <2>7, <3>1, KindsFacts
        <5> QED
          BY <2>3, <4>1, <5>1 DEF Rings
      <4>2. CASE n \in Others
        <5>1. IsMulticast
          BY <3>1, <4>2, SelfAssumption DEF IsMulticast
        <5>2. 3 \in 1 .. Len(taken) /\ KindsOfCopy[3] = "global"
          <6>1. left <= 1
            BY <2>7
          <6>2. Len(KindsOfCopy) = 3 /\ KindsOfCopy[3] = "global"
            BY <1>0, <5>1, <6>1, KindsFacts, Zenon
          <6> QED
            BY <3>1, <6>2
        <5> QED
          BY <2>3, <4>2, <5>2 DEF Rings
      <4> QED
        BY <3>2, <4>1, <4>2 DEF NSPs
    <3>4. PICK k \in 1 .. Len(taken) : Rings(desc[taken[k]], n)
      BY <3>3
    <3>5. Len(queue) + k \in 1 .. Len(queue') /\ queue'[Len(queue) + k] = taken[k]
      BY <1>0, <1>4, SubmitFacts
    <3> QED
      BY <2>3, <2>7, <3>4, <3>5
  <2> QED
    BY <1>0, <2>4, <2>5, <2>6, <2>7
<1>5. CASE UdmaWait
  BY <1>0, <1>5 DEF UdmaWait, nspVars, Current
<1>6. CASE FinishSlot
  <2>1. PICK i \in 1 .. Len(queue) : Finishes(i)
    BY <1>6, FinishFacts
  <2>2. UNCHANGED <<desc, left, sent>> /\ Current' = Current
    BY <1>6 DEF FinishSlot, threadVars, Current
  <2>3. Len(queue') = Len(queue) - 1
        /\ \A j \in 1 .. Len(queue) - 1 : queue'[j] = IF j < i THEN queue[j] ELSE queue[j + 1]
    BY <2>1 DEF Finishes
  <2>4. \A j \in 1 .. Len(queue) : j /= i => \E m \in 1 .. Len(queue') : queue'[m] = queue[j]
    <3> TAKE j \in 1 .. Len(queue)
    <3>1. CASE j < i
      BY <1>0, <2>3, <3>1
    <3>2. CASE j > i
      <4>1. j - 1 \in 1 .. Len(queue') /\ queue'[j - 1] = queue[j]
        BY <1>0, <2>3, <3>2
      <4> QED
        BY <4>1
    <3> QED
      BY <1>0, <3>1, <3>2
  <2>5. \A n \in NSPs : rung'[n] = IF Rings(desc[queue[i]], n)
                                     THEN rung[n] \union {desc[queue[i]].bcast} ELSE rung[n]
    BY <2>1 DEF Finishes
  <2> SUFFICES ASSUME NEW b \in 1 .. Len(sent), NEW n \in sent[b].mask
               PROVE  \/ b \in rung'[n]
                      \/ \E j \in 1 .. Len(queue') :
                           desc[queue'[j]].bcast = b /\ Rings(desc[queue'[j]], n)
                      \/ b = Current /\ left > 0
    BY <2>2
  <2>6. n \in NSPs
    <3>1. sent \in Seq([mask : SUBSET NSPs, chunks : ChunkCounts])
      BY <1>0 DEF TypeOK
    <3>2. sent[b] \in [mask : SUBSET NSPs, chunks : ChunkCounts]
      BY <3>1, ElementOfSeq
    <3> QED
      BY <3>2
  <2>7. CASE b \in rung[n]
    BY <2>5, <2>6, <2>7
  <2>8. CASE \E j \in 1 .. Len(queue) : desc[queue[j]].bcast = b /\ Rings(desc[queue[j]], n)
    <3>1. PICK j \in 1 .. Len(queue) : desc[queue[j]].bcast = b /\ Rings(desc[queue[j]], n)
      BY <2>8
    <3>2. CASE j = i
      BY <2>5, <2>6, <3>1, <3>2
    <3>3. CASE j /= i
      BY <2>4, <3>1, <3>3
    <3> QED
      BY <3>2, <3>3
  <2>9. CASE b = Current /\ left > 0
    BY <2>9
  <2> QED
    BY <1>0, <2>7, <2>8, <2>9
<1>7. CASE UNCHANGED vars
  BY <1>0, <1>7 DEF vars, Current
<1> QED
  BY <1>1, <1>2, <1>3, <1>4, <1>5, <1>6, <1>7 DEF Next, ThreadStep

\* An NSP knows which broadcast it was told of last.
LEMMA LastStep ==
  ASSUME IInv, [Next]_vars, TypeOK'
  PROVE  \A n \in NSPs : rung'[n] \subseteq 1 .. Len(sent') /\ HasLast(n)'
<1>0. TypeOK /\ Len(sent) \in Nat /\ \A n \in NSPs : rung[n] \subseteq 1 .. Len(sent) /\ HasLast(n)
  BY DEF IInv, RingInv, ToldInv, TypeOK
<1> USE DEF HasLast
<1>1. CASE Broadcast
  <2>1. PICK mask \in Masks, chunks \in ChunkCounts :
          sent' = Append(sent, [mask |-> mask, chunks |-> chunks]) /\ left' = chunks
    BY <1>1 DEF Broadcast
  <2>2. Len(sent') = Len(sent) + 1 /\ (\A b \in 1 .. Len(sent) : sent'[b] = sent[b])
    BY <1>0, <2>1 DEF TypeOK
  <2>3. rung' = rung
    BY <1>1 DEF Broadcast, nspVars
  <2>4. \A n \in NSPs : Mine(n)' = Mine(n)
    BY <1>0, <2>2, <2>3 DEF Mine
  <2>5. \A n \in NSPs : rung'[n] \subseteq 1 .. Len(sent')
    BY <1>0, <2>2, <2>3
  <2> QED
    BY <1>0, <2>4, <2>5
<1>2. CASE UNCHANGED <<rung, sent>>
  BY <1>0, <1>2 DEF Mine
<1>3. CASE FinishSlot
  <2>1. PICK i \in 1 .. Len(queue) : Finishes(i)
    BY <1>3, FinishFacts
  <2> DEFINE d == desc[queue[i]]
  <2>2. sent' = sent
    BY <1>3 DEF FinishSlot, threadVars
  <2>3. d.bcast \in 1 .. Len(sent)
        /\ \A n \in NSPs : rung'[n] = IF Rings(d, n) THEN rung[n] \union {d.bcast} ELSE rung[n]
    BY <2>1 DEF Finishes
  <2> HIDE DEF d
  <2> SUFFICES ASSUME NEW n \in NSPs
               PROVE  rung'[n] \subseteq 1 .. Len(sent) /\ HasLast(n)'
    BY <2>2
  <2>4. rung'[n] \subseteq 1 .. Len(sent)
    BY <1>0, <2>3
  <2>5. CASE Mine(n)' = Mine(n)
    BY <1>0, <2>4, <2>5
  <2>6. CASE Mine(n)' = Mine(n) \union {d.bcast}
    <3>1. \A c \in Mine(n) : c \in Nat
      BY <1>0 DEF Mine
    <3>2. CASE Mine(n) = {}
      <4>1. Mine(n)' = {d.bcast} /\ d.bcast <= d.bcast
        BY <2>3, <2>6, <3>2
      <4> QED
        BY <2>4, <4>1
    <3>3. CASE \E b \in Mine(n) : \A c \in Mine(n) : c <= b
      <4>1. PICK b \in Mine(n) : \A c \in Mine(n) : c <= b
        BY <3>3
      <4>2. CASE d.bcast <= b
        <5>1. b \in Mine(n)' /\ \A c \in Mine(n)' : c <= b
          BY <2>6, <4>1, <4>2
        <5> QED
          BY <2>4, <5>1
      <4>3. CASE ~(d.bcast <= b)
        <5>1. d.bcast \in Mine(n)' /\ \A c \in Mine(n)' : c <= d.bcast
          BY <2>3, <2>6, <3>1, <4>1, <4>3
        <5> QED
          BY <2>4, <5>1
      <4> QED
        BY <4>2, <4>3
    <3> QED
      BY <1>0, <3>2, <3>3
  <2>7. Mine(n)' = Mine(n) \/ Mine(n)' = Mine(n) \union {d.bcast}
    BY <2>2, <2>3 DEF Mine
  <2> QED
    BY <2>5, <2>6, <2>7, <2>4
<1> QED
  BY <1>1, <1>2, <1>3 DEF Next, ThreadStep, TakeSlot, FillOut, SubmitDMAs, UdmaWait, nspVars, vars

-----------------------------------------------------------------------------
(* Theorems.                                                               *)

\* The invariant holds in every reachable state.
THEOREM InvariantHolds == Spec => []IInv
<1>1. Init => IInv
  BY InitHolds
<1>2. IInv /\ [Next]_vars => IInv'
  <2> SUFFICES ASSUME IInv, [Next]_vars PROVE IInv'
    OBVIOUS
  <2>1. TypeOK'
    BY TypeStep
  <2> QED
    BY <2>1, TakenStep, BitsStep, ListStep, ToldStep, LastStep DEF IInv, RingInv, ToldInv
<1> QED
  BY <1>1, <1>2, PTL DEF Spec

\* The variables hold what they are meant to hold.
THEOREM TypeCorrect == Spec => []TypeOK
<1>1. IInv => TypeOK
  BY DEF IInv, RingInv
<1> QED
  BY <1>1, InvariantHolds, PTL

\* However full the ring is, the descriptors getNextFreeDMADesc hands out for one copy are
\* different ones, and the thread never fills in one that the engine still has.
THEOREM DescriptorsAlwaysOwned == Spec => []DescriptorsOwned
<1>1. IInv => DescriptorsOwned
  <2> SUFFICES ASSUME IInv PROVE DescriptorsOwned
    OBVIOUS
  <2>1. TypeOK /\ TakenInOrder /\ BitsTell /\ Len(taken) \in Nat
    BY DEF IInv, RingInv, TypeOK
  <2>2. \A i \in 1 .. Len(taken) : \A j \in 1 .. i - 1 : taken[i] /= taken[j]
    <3> TAKE i \in 1 .. Len(taken)
    <3> TAKE j \in 1 .. i - 1
    <3>1. j \in 1 .. Len(taken) /\ i /= j
      BY <2>1
    <3> QED
      BY <2>1, <3>1, TakenApart
  <2>3. \A i \in 1 .. Len(taken), j \in 1 .. Len(queue) : queue[j] /= taken[i]
    BY <2>1 DEF BitsTell
  <2> QED
    BY <2>2, <2>3 DEF DescriptorsOwned
<1> QED
  BY <1>1, InvariantHolds, PTL

-----------------------------------------------------------------------------
(* Refinement of OrderedBroadcast.                                         *)

\* The largest of a set of numbers that has one.
LastOf(S) == IF S = {} THEN 0 ELSE CHOOSE b \in S : \A c \in S : c <= b
LEMMA LastOfFacts ==
  ASSUME NEW S \in SUBSET Nat, S = {} \/ \E b \in S : \A c \in S : c <= b
  PROVE  /\ LastOf(S) \in Nat
         /\ S = {} => LastOf(S) = 0
         /\ S /= {} => LastOf(S) \in S
         /\ \A c \in S : c <= LastOf(S)
<1>1. CASE S = {}
  BY <1>1 DEF LastOf
<1>2. CASE S /= {}
  <2> DEFINE b == CHOOSE x \in S : \A c \in S : c <= x
  <2>1. b \in S /\ \A c \in S : c <= b
    BY <1>2
  <2>2. LastOf(S) = b
    BY <1>2 DEF LastOf
  <2> QED
    BY <1>2, <2>1, <2>2
<1> QED
  BY <1>1, <1>2

\* The largest number after b has joined the set.
LEMMA LastOfUnion ==
  ASSUME NEW S \in SUBSET Nat, NEW b \in Nat,
         S = {} \/ \E x \in S : \A c \in S : c <= x,
         \E x \in S \union {b} : \A c \in S \union {b} : c <= x
  PROVE  LastOf(S \union {b}) = IF S = {} \/ LastOf(S) < b THEN b ELSE LastOf(S)
<1> DEFINE new == LastOf(S \union {b})
           old == LastOf(S)
<1>1. S \union {b} \in SUBSET Nat /\ S \union {b} /= {}
  OBVIOUS
<1>2. new \in S \union {b} /\ \A c \in S \union {b} : c <= new
  BY <1>1, LastOfFacts
<1>3. old \in Nat /\ (S /= {} => old \in S) /\ \A c \in S : c <= old
  BY LastOfFacts
<1> HIDE DEF new, old
<1>4. CASE S = {}
  BY <1>2, <1>4 DEF new
<1>5. CASE S /= {}
  <2>1. new \in Nat /\ b <= new /\ old <= new
    BY <1>2, <1>3, <1>5
  <2>2. CASE new = b
    <3>1. old < b \/ old = b
      BY <1>3, <2>1, <2>2
    <3> QED
      BY <1>5, <2>2, <3>1 DEF new, old
  <2>3. CASE new \in S
    <3>1. new = old
      BY <1>3, <2>1, <2>3
    <3>2. ~(old < b)
      BY <1>3, <2>1, <3>1
    <3> QED
      BY <1>5, <3>1, <3>2 DEF new, old
  <2> QED
    BY <1>2, <2>2, <2>3
<1> QED
  BY <1>4, <1>5

\* What the abstract specification sees of a state: LastRung is the largest of Mine.
LEMMA VisibleFacts ==
  ASSUME IInv
  PROVE  \A n \in NSPs : /\ Mine(n) \in SUBSET Nat
                         /\ LastRung(n) = LastOf(Mine(n))
                         /\ Mine(n) = {} \/ \E b \in Mine(n) : \A c \in Mine(n) : c <= b
<1>1. Len(sent) \in Nat /\ \A n \in NSPs : rung[n] \subseteq 1 .. Len(sent) /\ HasLast(n)
  BY DEF IInv, RingInv, ToldInv, TypeOK
<1>2. \A n \in NSPs : Mine(n) \in SUBSET Nat
  BY <1>1 DEF Mine
<1>3. \A n \in NSPs : LastRung(n) = LastOf(Mine(n))
  BY DEF LastRung, LastOf, Mine
<1>4. \A n \in NSPs : Mine(n) = {} \/ \E b \in Mine(n) : \A c \in Mine(n) : c <= b
  BY <1>1 DEF HasLast
<1> QED
  BY <1>2, <1>3, <1>4

\* When a doorbell is finished, the NSPs it is for know of every earlier broadcast for them: its own
\* doorbell's turn comes after theirs.
LEMMA EarlierAreKnown ==
  ASSUME IInv, NEW i \in 1 .. Len(queue), Finishes(i),
         NEW n \in NSPs, Rings(desc[queue[i]], n),
         NEW c \in 1 .. desc[queue[i]].bcast - 1, n \in sent[c].mask
  PROVE  c \in rung[n]
<1> DEFINE d == desc[queue[i]]
<1>0. ListInOrder /\ Len(queue) \in Nat /\ Len(sent) \in Nat /\ Current = Len(sent)
  BY DEF IInv, RingInv, ToldInv, TypeOK, Current
<1>1. d.bcast \in 1 .. Len(sent) /\ \A j \in 2 .. i : desc[queue[j]].kind /= "local"
  BY DEF Finishes
<1>2. c \in 1 .. Len(sent) /\ c < d.bcast /\ c < Current
  BY <1>0, <1>1
<1>3. EveryoneToldOf(c)
  BY <1>2 DEF IInv, ToldInv
<1>4. ASSUME NEW j \in 1 .. Len(queue), desc[queue[j]].bcast = c, Rings(desc[queue[j]], n)
      PROVE  FALSE
  <2>1. desc[queue[j]].bcast < d.bcast
    BY <1>2, <1>4
  <2>2. j < i
    <3>1. j /= i
      BY <1>0, <1>1, <1>2, <1>4
    <3>2. ~(i < j)
      <4>1. i < j => d.bcast <= desc[queue[j]].bcast
        BY <1>0 DEF ListInOrder
      <4> QED
        BY <1>1, <1>2, <1>4, <4>1
    <3> QED
      BY <3>1, <3>2
  <2>3. CASE d.kind = "local"
    BY <1>0, <1>1, <2>2, <2>3
  <2>4. CASE d.kind = "global"
    <3>1. desc[queue[j]].kind = "global"
      BY <1>4, <2>4, SelfAssumption DEF Rings
    <3>2. PICK k \in j + 1 .. i - 1 : desc[queue[k]].kind = "local"
      BY <1>0, <2>2, <2>4, <3>1 DEF ListInOrder
    <3> QED
      BY <1>0, <1>1, <3>2
  <2> QED
    BY <2>3, <2>4 DEF Rings
<1> QED
  BY <1>2, <1>3, <1>4 DEF EveryoneToldOf

\* A call of broadcastToBuffer is a broadcast, a doorbell an arrival, everything else goes unseen.
LEMMA ImplementationStep ==
  ASSUME IInv, IInv', [Next]_vars
  PROVE  [Abstract!Next]_(Abstract!vars)
<1> DEFINE masks == [b \in 1 .. Len(sent) |-> sent[b].mask]
           known == [n \in NSPs |-> LastRung(n)]
<1>0. Len(sent) \in Nat /\ sent \in Seq([mask : SUBSET NSPs, chunks : ChunkCounts])
      /\ \A n \in NSPs : rung[n] \subseteq 1 .. Len(sent)
  BY DEF IInv, RingInv, ToldInv, TypeOK
<1>1. CASE Broadcast
  <2>1. PICK mask \in Masks, chunks \in ChunkCounts :
          sent' = Append(sent, [mask |-> mask, chunks |-> chunks])
    BY <1>1 DEF Broadcast
  <2>2. Len(sent') = Len(sent) + 1 /\ (\A b \in 1 .. Len(sent) : sent'[b] = sent[b])
        /\ sent'[Len(sent) + 1] = [mask |-> mask, chunks |-> chunks]
    BY <1>0, <2>1
  <2>3. rung' = rung
    BY <1>1 DEF Broadcast, nspVars
  <2>4. masks' = Append(masks, mask)
    <3>1. masks' = [b \in 1 .. Len(sent) + 1 |-> sent'[b].mask]
      BY <2>2
    <3>2. Len(masks) = Len(sent) /\ DOMAIN masks = 1 .. Len(sent)
      BY <1>0
    <3>3. Append(masks, mask) = [b \in 1 .. Len(sent) + 1 |-> IF b <= Len(sent) THEN masks[b] ELSE mask]
      BY <1>0, <3>2
    <3>4. \A b \in 1 .. Len(sent) + 1 : sent'[b].mask = IF b <= Len(sent) THEN masks[b] ELSE mask
      BY <1>0, <2>2
    <3> QED
      BY <3>1, <3>3, <3>4
  <2>5. known' = known
    <3>1. \A n \in NSPs : Mine(n)' = Mine(n)
      BY <1>0, <2>2, <2>3 DEF Mine
    <3>2. \A n \in NSPs : LastRung(n)' = LastRung(n)
      <4> TAKE n \in NSPs
      <4>1. LastRung(n) = LastOf(Mine(n))
        BY DEF LastRung, LastOf, Mine
      <4>2. LastRung(n)' = LastOf(Mine(n)')
        BY DEF LastRung, LastOf, Mine
      <4> QED
        BY <3>1, <4>1, <4>2
    <3> QED
      BY <3>2
  <2>6. mask \in SUBSET NSPs
    BY UserAssumption
  <2> QED
    BY <2>4, <2>5, <2>6 DEF Abstract!Next, Abstract!Send
<1>2. CASE UNCHANGED <<rung, sent>>
  <2>1. masks' = masks
    BY <1>2
  <2>2. known' = known
    BY <1>2 DEF LastRung
  <2> QED
    BY <2>1, <2>2 DEF Abstract!vars
<1>3. CASE FinishSlot
  <2>1. PICK i \in 1 .. Len(queue) : Finishes(i)
    BY <1>3, FinishFacts
  <2> DEFINE b == desc[queue[i]].bcast
             Hears(n) == Rings(desc[queue[i]], n) /\ n \in sent[b].mask
             ns == {n \in NSPs : Hears(n) /\ LastRung(n) < b}
  <2>2. sent' = sent /\ masks' = masks
    BY <1>3 DEF FinishSlot, threadVars
  <2>3. b \in 1 .. Len(sent) /\ b \in Nat /\ b > 0
        /\ \A n \in NSPs : rung'[n] = IF Rings(desc[queue[i]], n) THEN rung[n] \union {b} ELSE rung[n]
    BY <1>0, <2>1 DEF Finishes
  <2>4. ASSUME NEW n \in NSPs
        PROVE  LastRung(n)' = IF n \in ns THEN b ELSE LastRung(n)
    <3>1. Mine(n) \in SUBSET Nat /\ LastRung(n) = LastOf(Mine(n))
          /\ (Mine(n) = {} \/ \E x \in Mine(n) : \A c \in Mine(n) : c <= x)
      BY VisibleFacts
    <3>2. LastRung(n)' = LastOf(Mine(n)')
      BY DEF LastRung, LastOf, Mine
    <3>3. CASE Hears(n)
      <4>1. Mine(n)' = Mine(n) \union {b}
        BY <2>2, <2>3, <3>3 DEF Mine
      <4>2. \E x \in Mine(n)' : \A c \in Mine(n)' : c <= x
        <5>1. HasLast(n)'
          BY DEF IInv, ToldInv
        <5>2. Mine(n)' /= {}
          BY <4>1
        <5> QED
          BY <5>1, <5>2 DEF HasLast
      <4>3. LastRung(n)' = IF Mine(n) = {} \/ LastRung(n) < b THEN b ELSE LastRung(n)
        <5>1. \E x \in Mine(n) \union {b} : \A c \in Mine(n) \union {b} : c <= x
          BY <4>1, <4>2, Zenon
        <5>2. LastOf(Mine(n) \union {b})
                = IF Mine(n) = {} \/ LastOf(Mine(n)) < b THEN b ELSE LastOf(Mine(n))
          BY <2>3, <3>1, <5>1, LastOfUnion, Zenon
        <5> QED
          BY <3>1, <3>2, <4>1, <5>2, Zenon
      <4>4. Mine(n) = {} => LastRung(n) < b
        BY <2>3, <3>1, LastOfFacts
      <4> QED
        BY <3>3, <4>3, <4>4
    <3>4. CASE ~Hears(n)
      <4>1. Mine(n)' = Mine(n)
        <5>1. /\ rung[n] \subseteq rung'[n] /\ rung'[n] \subseteq rung[n] \union {b}
              /\ n \in sent[b].mask => rung'[n] = rung[n]
          BY <2>3, <3>4
        <5>2. \A c : c \in rung'[n] /\ n \in sent[c].mask <=> c \in rung[n] /\ n \in sent[c].mask
          BY <5>1
        <5> QED
          BY <2>2, <5>2 DEF Mine
      <4> QED
        BY <3>1, <3>2, <3>4, <4>1
    <3> QED
      BY <3>3, <3>4
  <2>5. known' = [n \in NSPs |-> IF n \in ns THEN b ELSE known[n]]
    BY <2>4
  <2>6. ASSUME NEW n \in ns, NEW c \in 1 .. b - 1, n \in masks[c]
        PROVE  c <= known[n]
    <3>1. n \in NSPs /\ n \in sent[c].mask /\ Rings(desc[queue[i]], n)
      BY <1>0, <2>3, <2>6
    <3>2. c \in rung[n]
      BY <2>1, <3>1, EarlierAreKnown
    <3>3. c \in Mine(n)
      BY <3>1, <3>2 DEF Mine
    <3>4. c <= LastRung(n)
      BY <3>1, <3>3, VisibleFacts, LastOfFacts, SMTT(30)
    <3> QED
      BY <3>1, <3>4
  <2>7. ns \in SUBSET masks[b] /\ \A n \in ns : known[n] < b
    BY <2>3
  <2>8. b \in 1 .. Len(masks)
    BY <1>0, <2>3
  <2> HIDE DEF masks, known, ns, b
  <2>9. Abstract!Arrive(b)
    BY <2>2, <2>5, <2>6, <2>7 DEF Abstract!Arrive, masks, known
  <2> QED
    BY <2>8, <2>9 DEF Abstract!Next, masks
<1> QED
  BY <1>1, <1>2, <1>3 DEF Next, ThreadStep, TakeSlot, FillOut, SubmitDMAs, UdmaWait, nspVars, vars

\* The ring, the engine and broadcastToBuffer implement ordered broadcasts: an NSP is never told of a
\* broadcast before the earlier ones for it, though descriptors finish out of order.
THEOREM ImplementsBroadcasts == Spec => ImplementsOrderedBroadcast
<1>1. Init => Abstract!Init
  <2> SUFFICES ASSUME Init PROVE Abstract!Init
    OBVIOUS
  <2>1. sent = <<>> /\ \A n \in NSPs : LastRung(n) = 0
    BY DEF Init, LastRung
  <2>2. [b \in 1 .. Len(sent) |-> sent[b].mask] = <<>>
    BY <2>1
  <2> QED
    BY <2>1, <2>2 DEF Abstract!Init
<1>2. IInv /\ IInv' /\ [Next]_vars => [Abstract!Next]_(Abstract!vars)
  BY ImplementationStep
<1> QED
  BY <1>1, <1>2, InvariantHolds, PTL DEF Spec, ImplementsOrderedBroadcast, Abstract!Spec
=============================================================================
