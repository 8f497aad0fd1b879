---------------------------- MODULE RawMetadata ----------------------------
(***************************************************************************)
(* Metadata as a C structure: AICMetadataWriter lays them out in one       *)
(* buffer, with offsets where the structure has pointers, and              *)
(* MDR_readMetadata follows the offsets (lib/metadata/metadata-common).    *)
(* A buffer is its size in bytes and the objects that start in it.         *)
(***************************************************************************)
EXTENDS Integers, SequencesExt

CONSTANTS
  MaxOps,      \* the operations of a request are counted modulo this (256 in the code)
  MaxNSPs,     \* the tables of NSPs the writer has (16 in the code)
  NameBytes,   \* bytes of a network name with its end
  NoDoorbell   \* the exit doorbell offset of a new writer, ~0 in the code

ASSUME SizesAssumption == MaxOps \in Nat /\ MaxNSPs \in Nat /\ NameBytes \in Nat \ {0}

\* Bytes and alignment of the structures of AICMetadata.h.
SizeOf == [header |-> 160, name |-> NameBytes, word |-> 4, byte |-> 1, semaphoreOp |-> 8,
           doorbellOp |-> 16, request |-> 48, nspEntry |-> 24, table |-> 16, hostEntry |-> 8,
           thread |-> 16, mapping |-> 16]
AlignOf == [header |-> 8, name |-> 1, word |-> 4, byte |-> 1, semaphoreOp |-> 2,
            doorbellOp |-> 8, request |-> 8, nspEntry |-> 8, table |-> 8, hostEntry |-> 4,
            thread |-> 8, mapping |-> 8]

AlignTo(x, m) == ((x + m - 1) \div m) * m
Resized(s, n) == [i \in 1 .. n |-> IF i <= Len(s) THEN s[i] ELSE 0]

\* The state of a new writer. AICMetadata is zero but for the exit doorbell.
Version == <<1, 0>>  \* AIC_METADATA_MAJOR_VERSION, AIC_METADATA_MINOR_VERSION
NewSizes == [VTCMSize |-> 0, L2TCMSize |-> 0, exitDoorbellOffset |-> NoDoorbell]
Header == [version |-> Version, sizes |-> NewSizes, networkName |-> 0, semaphoreInitState |-> 0, L2TCMInitState |-> 0, dmaRequests |-> 0,
           nspMulticastTables |-> 0, hostMulticastTable |-> 0, threadDescriptors |-> 0,
           constantMappings |-> 0, L2TCMInitSize |-> 0, numDMARequests |-> 0,
           numThreadDescriptors |-> 0, numConstantMappings |-> 0, numNSPs |-> 0, numSemaphores |-> 0]
EmptyBuffer == [size |-> 0, cells |-> [o \in {} |-> 0], at |-> 0]

NewWriter ==
  [metadata |-> Header, networkName |-> "", L2TCMInitState |-> <<>>,
   semaphoreInitState |-> <<>>, DMARequests |-> <<>>, NSPMulticastTables |-> [c \in 1 .. MaxNSPs |-> <<>>],
   HostMulticastTable |-> <<>>, constMappingCores |-> {}, ThreadDescriptors |-> <<>>,
   ConstantMappings |-> <<>>, metadataBuffer |-> EmptyBuffer, isFinal |-> FALSE]

-----------------------------------------------------------------------------
(* Writing.  "at" is the offset the last call returned.                    *)

\* Cells written over older ones.
Over(new, cells) ==
  [o \in DOMAIN new \union DOMAIN cells |-> IF o \in DOMAIN new THEN new[o] ELSE cells[o]]

Write(buf, type, elts) ==
  LET at == AlignTo(buf.size, AlignOf[type])
      place(i) == at + (i - 1) * SizeOf[type]
      new == [o \in {place(i) : i \in 1 .. Len(elts)} |->
                [type |-> type, val |-> elts[((o - at) \div SizeOf[type]) + 1]]]
  IN [size |-> at + Len(elts) * SizeOf[type], cells |-> Over(new, buf.cells), at |-> at]

Overwrite(buf, type, elt) == [buf EXCEPT !.cells = Over([o \in {0} |-> [type |-> type, val |-> elt]], @)]

WriteIfAny(buf, type, elts) ==
  IF elts = <<>> THEN [buf EXCEPT !.at = 0] ELSE Write(buf, type, elts)

\* One element at a time, which leaves no gaps as the sizes of such types are multiples of
\* their alignment; the offset of the first is kept, or an older one if there is none.
WriteEach(buf, type, elts, old) ==
  IF elts = <<>> THEN [buf EXCEPT !.at = old] ELSE Write(buf, type, elts)

\* Mutant: every request follows its own operations.
FiniDMARequestsMixed(buf, requests, old) ==
  LET one(b, r) ==
        LET sems == WriteIfAny(b, "semaphoreOp", r.semaphoreOps)
            bells == WriteIfAny(sems, "doorbellOp", r.doorbellOps)
        IN Write(bells, "request",
             <<[request |-> r.request,
                numSemaphoreOps |-> Len(r.semaphoreOps) % MaxOps, semaphoreOps |-> sems.at,
                numDoorbellOps |-> Len(r.doorbellOps) % MaxOps, doorbellOps |-> bells.at]>>)
  IN [FoldLeft(one, buf, requests) EXCEPT !.at = IF requests = <<>> THEN old ELSE one(buf, requests[1]).at]

SemaphoresOf(buf, r) == WriteIfAny(buf, "semaphoreOp", r.semaphoreOps)

\* What a request or a table points to: its operations, its entries.
WriteParts(buf, type, item) ==
  IF type = "request" THEN WriteIfAny(SemaphoresOf(buf, item), "doorbellOp", item.doorbellOps)
  ELSE Write(buf, "nspEntry", item)

\* The buffers with the parts of the first items.
Written(buf, type, items) ==
  LET after[i \in 0 .. Len(items)] == IF i = 0 THEN buf ELSE WriteParts(after[i - 1], type, items[i])
  IN after

\* The operations of all requests come first, then the requests, with the offsets.
FiniDMARequests(buf, requests, old) ==
  LET after == Written(buf, "request", requests)
      out == [i \in 1 .. Len(requests) |->
                LET r == requests[i]
                IN [request |-> r.request, numSemaphoreOps |-> Len(r.semaphoreOps) % MaxOps,
                    semaphoreOps |-> SemaphoresOf(after[i - 1], r).at,
                    numDoorbellOps |-> Len(r.doorbellOps) % MaxOps, doorbellOps |-> after[i].at]]
  IN WriteEach(after[Len(requests)], "request", out, old)

\* The entries of the tables of the NSPs, then the tables.
FiniNSPTables(buf, tables) ==
  LET after == Written(buf, "table", tables)
      out == [c \in 1 .. Len(tables) |-> [num |-> Len(tables[c]), multicastEntries |-> after[c].at]]
  IN WriteEach(after[Len(tables)], "table", out, 0)

FiniHostTable(buf, table) ==
  LET b == Write(buf, "hostEntry", table)
  IN Write(b, "table", <<[num |-> Len(table), multicastEntries |-> b.at]>>)

\* finalize: everything is written behind what an earlier call wrote, and the
\* structure at offset 0 is made to point to it.
FinalizeRaw(w) ==
  LET m == w.metadata
      named == IF w.networkName = "" THEN "unnamed" ELSE w.networkName
      header == Write(w.metadataBuffer, "header", <<m>>)
      name == Write(header, "name", <<named>>)
      sems == WriteIfAny(name, "word", w.semaphoreInitState)
      image == WriteIfAny(sems, "byte", w.L2TCMInitState)
      requests == FiniDMARequests(image, w.DMARequests, m.dmaRequests)
      nsps == FiniNSPTables(requests, SubSeq(w.NSPMulticastTables, 1, m.numNSPs))
      host == FiniHostTable(nsps, w.HostMulticastTable)
      threads == IF w.ThreadDescriptors = <<>> THEN [host EXCEPT !.at = m.threadDescriptors]
                 ELSE Write(host, "thread", w.ThreadDescriptors)
      mappings == WriteIfAny(threads, "mapping", w.ConstantMappings)
      fixed == [m EXCEPT !.networkName = name.at, !.semaphoreInitState = sems.at,
                  !.L2TCMInitState = image.at, !.L2TCMInitSize = Len(w.L2TCMInitState),
                  !.dmaRequests = requests.at, !.numDMARequests = Len(w.DMARequests),
                  !.nspMulticastTables = nsps.at, !.hostMulticastTable = host.at,
                  !.threadDescriptors = threads.at, !.numThreadDescriptors = Len(w.ThreadDescriptors),
                  !.constantMappings = mappings.at, !.numConstantMappings = Len(w.ConstantMappings)]
  IN [w EXCEPT !.metadata = fixed, !.networkName = named, !.constMappingCores = {},
        !.metadataBuffer = Overwrite(mappings, "header", fixed), !.isFinal = TRUE]

-----------------------------------------------------------------------------
(* Reading.  MDR_readMetadata adds the address of the buffer to every      *)
(* offset, once; what a pointer then shows is the object at the offset.    *)

NotRead == [sizes |-> "none"]
\* What is read where no object of the type starts.
Garbage(type) ==
  CASE type = "request" -> [request |-> [num |-> 0, devAddrSpace |-> "?", size |-> 0], numSemaphoreOps |-> 0,
                            semaphoreOps |-> 0, numDoorbellOps |-> 0, doorbellOps |-> 0]
    [] type = "table" -> [num |-> 0, multicastEntries |-> 0]
    [] type = "mapping" -> [coreMask |-> {}, offset |-> 0]
    [] type = "semaphoreOp" -> [semOp |-> "?"]
    [] type = "doorbellOp" -> [size |-> "?"]
    [] type \in {"word", "byte"} -> -1
    [] OTHER -> "?"
At(buf, type, offset) ==
  IF offset \in DOMAIN buf.cells /\ buf.cells[offset].type = type THEN buf.cells[offset].val ELSE Garbage(type)
ArrayAt(buf, type, offset, n) == [i \in 1 .. n |-> At(buf, type, offset + (i - 1) * SizeOf[type])]

ReadRaw(buf, version) ==
  LET h == At(buf, "header", 0)
      request(r) == [request |-> r.request,
                     semaphoreOps |-> ArrayAt(buf, "semaphoreOp", r.semaphoreOps, r.numSemaphoreOps),
                     doorbellOps |-> ArrayAt(buf, "doorbellOp", r.doorbellOps, r.numDoorbellOps)]
      requests == ArrayAt(buf, "request", h.dmaRequests, h.numDMARequests)
      tables == ArrayAt(buf, "table", h.nspMulticastTables, h.numNSPs)
      host == At(buf, "table", h.hostMulticastTable)
  IN IF h.version /= version THEN NotRead ELSE
     [sizes |-> h.sizes, numNSPs |-> h.numNSPs,
      networkName |-> At(buf, "name", h.networkName),
      semaphoreInitState |-> ArrayAt(buf, "word", h.semaphoreInitState, h.numSemaphores),
      L2TCMInitState |-> ArrayAt(buf, "byte", h.L2TCMInitState, h.L2TCMInitSize),
      dmaRequests |-> [i \in 1 .. Len(requests) |-> request(requests[i])],
      nspMulticastTables |->
        [c \in 1 .. h.numNSPs |-> ArrayAt(buf, "nspEntry", tables[c].multicastEntries, tables[c].num)],
      hostMulticastTable |-> ArrayAt(buf, "hostEntry", host.multicastEntries, host.num),
      threadDescriptors |-> ArrayAt(buf, "thread", h.threadDescriptors, h.numThreadDescriptors),
      constantMappings |-> ArrayAt(buf, "mapping", h.constantMappings, h.numConstantMappings)]
=============================================================================
