------------------------------ MODULE Metadata ------------------------------
(***************************************************************************)
(* A network's metadata from the calls that describe it to the platform    *)
(* that runs it: AICMetadataWriter (module RawMetadata) and                *)
(* MetadataFlatbufferWriter fed with the same calls, the file of the flat  *)
(* form, and platforms of several versions that read it (FlatDecode) and   *)
(* load the execution context.                                             *)
(*                                                                         *)
(* A call whose assertion fails ends the program: the assertion is a guard.*)
(* A flatbuffer is the object it was packed from; requiredFields is the    *)
(* set of its strings.                                                     *)
(***************************************************************************)
EXTENDS RawMetadata, L2tcmRegions, ExecContext, FiniteSets

CONSTANTS
  NSPCounts, SizeChoices, NetworkNames,      \* what callers may set
  SemaphoreCounts, SemaphoreValues,
  ImageSizes, Bytes, Words,                  \* Words: the bytes of a word, sequences of one length
  Requests, NSPEntries, HostEntries, Threads, Mappings, Ports,
  SectionOrders,     \* how a caller may use an ExecContextWriter: sequences of sections
  ExtraFields,       \* fields a caller may require by name
  Platforms,         \* [major, fields, members] of the readers
  MaxCalls,          \* calls to the writers
  MaxFinals          \* calls of finalize per writer

ConstantsField == "QNNConfig->Constants"
HeapField == "networkHeapBehavior"
DynamicField == "dynamicSharedDDRSupported"
ContextField == "execContext"
Dynamic == "DDRDynamicShared"
NoImage == [is |-> "none"]
NoContext == <<>>
NoVerdict == [result |-> "none"]

\* What addSemaphoreOp and addDoorbellOp let into the vectors a caller fills.
SemaphoreOps == [semOp : {"NOP", "INIT", "INC", "DEC", "WAITEQ", "WAITGE", "P"}]
DoorbellOps == [size : {"8", "16", "32"}]
ASSUME RequestsAssumption ==
  /\ Requests \subseteq [request : {r.request : r \in Requests},
                          semaphoreOps : Seq(SemaphoreOps), doorbellOps : Seq(DoorbellOps)]
  /\ \A r \in Requests : r.request.devAddrSpace \in {"MC", "DDR", Dynamic}
ASSUME SectionsAssumption == SectionOrders \subseteq Seq(Sections)
ASSUME ImageSizesAssumption == ImageSizes \subseteq Nat
ASSUME CountsAssumption == SemaphoreCounts \subseteq Nat /\ NSPCounts \subseteq Nat

VARIABLES
  raw,                                   \* AICMetadataWriter
  table, dmaRequests, constMappingCores, \* MetadataFlatbufferWriter: what both writers know,
  constants, heap, dynamicDDRStatus,     \* and what only this one does
  requiredFields, execContext,
  metadataBuffer,                        \* its serialised form
  file, held, verdict,                   \* the file, a reader's copy and what became of it
  calls, rawFinals, flatFinals, rawAt, flatAt   \* bounds; the calls made before the last finalize

features == <<constants, heap, dynamicDDRStatus, requiredFields, execContext>>
flat == <<table, dmaRequests, constMappingCores, features>>
reader == <<file, held, verdict>>
finals == <<metadataBuffer, rawFinals, flatFinals, rawAt, flatAt>>
metadataVars == <<raw, flat, reader, calls, finals>>

NewTable == [sizes |-> NewSizes, numNSPs |-> 0, networkName |-> "", semaphoreInitState |-> <<>>,
             L2TCMInitState |-> <<>>, nspMulticastTables |-> <<>>, hostMulticastTable |-> <<>>,
             threadDescriptors |-> <<>>, constantMappings |-> <<>>, portTable |-> <<>>]

MetadataInit ==
  /\ raw = NewWriter /\ table = NewTable /\ dmaRequests = <<>> /\ constMappingCores = {}
  /\ constants = "CACHE_DISABLED" /\ heap = "freeNetworkHeap" /\ dynamicDDRStatus = "Disabled"
  /\ requiredFields = {} /\ execContext = NoContext
  /\ metadataBuffer = NoImage /\ file = NoImage /\ held = NoImage /\ verdict = NoVerdict
  /\ calls = 0 /\ rawFinals = 0 /\ flatFinals = 0 /\ rawAt = 0 /\ flatAt = 0

-----------------------------------------------------------------------------
(* The calls both writers have.                                            *)

Call == calls < MaxCalls /\ calls' = calls + 1 /\ UNCHANGED <<reader, finals>>
Both == Call /\ UNCHANGED <<dmaRequests, constMappingCores, features>>

SetNumNSPs(n) ==
  /\ Both
  /\ raw' = [raw EXCEPT !.metadata.numNSPs = n]
  /\ LET more == IF n > Len(table.nspMulticastTables) THEN n - Len(table.nspMulticastTables) ELSE 0
     IN table' = [table EXCEPT !.numNSPs = n, !.nspMulticastTables = @ \o [c \in 1 .. more |-> <<>>]]

\* The setters of single numbers, which a caller uses one after the other.
SetSizes(s) ==
  /\ Both
  /\ raw' = [raw EXCEPT !.metadata.sizes = s] /\ table' = [table EXCEPT !.sizes = s]

SetNetworkName(n) ==
  /\ Both
  /\ raw' = [raw EXCEPT !.networkName = n] /\ table' = [table EXCEPT !.networkName = n]

SetNumSemaphores(n) ==
  /\ Both
  /\ raw' = [raw EXCEPT !.metadata.numSemaphores = n, !.semaphoreInitState = Resized(@, n)]
  /\ table' = [table EXCEPT !.semaphoreInitState = Resized(@, n)]

InitSemaphore(i, v) ==
  /\ i \in 1 .. Len(table.semaphoreInitState) /\ Both
  /\ raw' = [raw EXCEPT !.semaphoreInitState[i] = v]
  /\ table' = [table EXCEPT !.semaphoreInitState[i] = v]

InitL2TCMResize(n) ==
  /\ Both
  /\ raw' = [raw EXCEPT !.L2TCMInitState = Resized(@, n)]
  /\ table' = [table EXCEPT !.L2TCMInitState = Resized(@, n)]

\* A byte, or a word byte by byte; for words it is the caller who stays inside.
InitL2TCM(i, bytes) ==
  LET put(image) == [j \in 1 .. Len(image) |->
                       IF j \in i .. i + Len(bytes) - 1 THEN bytes[j - i + 1] ELSE image[j]]
  IN /\ i + Len(bytes) - 1 <= Len(table.L2TCMInitState) /\ Both
     /\ raw' = [raw EXCEPT !.L2TCMInitState = put(@)]
     /\ table' = [table EXCEPT !.L2TCMInitState = put(@)]

AddNSPMulticastEntry(core, e) ==
  /\ core <= table.numNSPs /\ Both
  /\ raw' = [raw EXCEPT !.NSPMulticastTables[core] = Append(@, e)]
  /\ table' = [table EXCEPT !.nspMulticastTables[core] = Append(@, e)]

AddHostMulticastEntry(e) ==
  /\ Both
  /\ raw' = [raw EXCEPT !.HostMulticastTable = Append(@, e)]
  /\ table' = [table EXCEPT !.hostMulticastTable = Append(@, e)]

AddThreadDescriptor(t) ==
  /\ Both
  /\ raw' = [raw EXCEPT !.ThreadDescriptors = Append(@, t)]
  /\ table' = [table EXCEPT !.threadDescriptors = Append(@, t)]

\* An NSP has one mapping. The structure's writer forgets which have one when it finalizes.
AddConstantMapping(m) ==
  /\ raw.constMappingCores \intersect m.coreMask = {} /\ constMappingCores \intersect m.coreMask = {}
  /\ Call
  /\ raw' = [raw EXCEPT !.constMappingCores = @ \union m.coreMask, !.ConstantMappings = Append(@, m)]
  /\ table' = [table EXCEPT !.constantMappings = Append(@, m)]
  /\ constMappingCores' = constMappingCores \union m.coreMask
  /\ UNCHANGED <<dmaRequests, features>>

-----------------------------------------------------------------------------
(* Features only the flat form has.                                        *)

\* addIntrospectionString; the fields it is called with here are all known.
WithField(f) == requiredFields \union {f}

Uses(r) == r.request.devAddrSpace = Dynamic /\ r.request.size > 0

\* Mutant: the status is tested the wrong way round.
EnabledByStatus(r) == Uses(r) /\ dynamicDDRStatus = "Enabled"

\* enableDynamicSharedDDR has something to do.
EnabledBy(r) == Uses(r) /\ dynamicDDRStatus = "Disabled"

\* A request in the dynamic space can only be described in the flat form.
AddDMARequest(r) ==
  /\ Call
  /\ raw' = IF r.request.devAddrSpace = Dynamic THEN raw
            ELSE [raw EXCEPT !.DMARequests = Append(@, r)]
  /\ dmaRequests' = Append(dmaRequests, r)
  /\ IF EnabledBy(r)
     THEN dynamicDDRStatus' = "Enabled" /\ requiredFields' = WithField(DynamicField)
     ELSE UNCHANGED <<dynamicDDRStatus, requiredFields>>
  /\ UNCHANGED <<table, constMappingCores, constants, heap, execContext>>

FlatOnly == Call /\ UNCHANGED <<raw, dmaRequests, constMappingCores, dynamicDDRStatus>>

SetCacheableConstants(setting) ==
  /\ FlatOnly /\ constants' = setting
  /\ requiredFields' = IF setting /= "CACHE_DISABLED" THEN WithField(ConstantsField) ELSE requiredFields
  /\ UNCHANGED <<table, heap, execContext>>

SetNetworkHeapBehavior(setting) ==
  /\ FlatOnly /\ heap' = setting
  /\ requiredFields' = IF setting /= "freeNetworkHeap" THEN WithField(HeapField) ELSE requiredFields
  /\ UNCHANGED <<table, constants, execContext>>

AddRequiredField(f) ==
  /\ FlatOnly /\ requiredFields' = requiredFields \union {f}
  /\ UNCHANGED <<table, constants, heap, execContext>>

AddPort(p) ==
  /\ FlatOnly /\ table' = [table EXCEPT !.portTable = Append(@, p)]
  /\ UNCHANGED <<constants, heap, requiredFields, execContext>>

\* The caller uses sections of an ExecContextWriter, in some order, and hands over its bytes.
SetExecContext(sections) ==
  /\ FlatOnly /\ execContext' = sections
  /\ requiredFields' = WithField(ContextField)
  /\ UNCHANGED <<table, constants, heap>>

-----------------------------------------------------------------------------
(* finalize, writeMetadata and the readers.                                *)

Described == table.numNSPs > 0 /\ table.sizes.VTCMSize > 0 /\ table.sizes.L2TCMSize > 0

FinalizeRawMetadata ==
  /\ rawFinals < MaxFinals /\ Described
  /\ Len(raw.L2TCMInitState) <= raw.metadata.sizes.L2TCMSize
  /\ raw.metadata.sizes.exitDoorbellOffset < Len(raw.L2TCMInitState)
  /\ raw' = FinalizeRaw(raw) /\ rawFinals' = rawFinals + 1 /\ rawAt' = calls
  /\ UNCHANGED <<flat, reader, calls, metadataBuffer, flatFinals, flatAt>>

Named(t) == [t EXCEPT !.networkName = IF @ = "" THEN "unnamed" ELSE @]
ContextOrDefault == IF execContext = NoContext THEN DefaultSections ELSE execContext
FinalFields ==
  (IF execContext = NoContext THEN WithField(ContextField) ELSE requiredFields)
  \union {"requiredFields", "networkName"}

FinalizeFlat ==
  /\ flatFinals < MaxFinals /\ Described
  /\ requiredFields' = FinalFields /\ execContext' = ContextOrDefault
  /\ table' = Named(table)
  /\ metadataBuffer' =
       [is |-> "flat", terminator |-> TRUE, table |-> Named(table), dmaRequests |-> dmaRequests,
        constants |-> constants, heap |-> heap, requiredFields |-> FinalFields,
        execContext |-> ContextOrDefault, regions |-> NonZeroRegions(table.L2TCMInitState)]
  /\ flatFinals' = flatFinals + 1 /\ flatAt' = calls
  /\ UNCHANGED <<raw, dmaRequests, constMappingCores, constants, heap, dynamicDDRStatus, reader,
                 calls, rawFinals, rawAt>>

\* The file is complete, or writing it failed part of the way.
WriteMetadata ==
  /\ metadataBuffer /= NoImage
  /\ file' \in {metadataBuffer, [is |-> "cut"]}
  /\ UNCHANGED <<raw, flat, held, verdict, calls, finals>>

LoadFile ==
  /\ file /= NoImage /\ held' = file /\ verdict' = NoVerdict
  /\ UNCHANGED <<raw, flat, file, calls, finals>>

\* stripTerminatorMetadata, on the reader's own bytes.
Stripped(image) == IF image.is = "flat" THEN [image EXCEPT !.terminator = FALSE] ELSE image

Compatible(image, p) == p.major = Version[1] /\ image.requiredFields \subseteq p.fields

\* readMetadataFlat and, if that worked, nnc_load_exec_context_info, which may lack memory.
ReadMetadataFlat(p) ==
  /\ held /= NoImage /\ held' = Stripped(held)
  /\ verdict' \in
       IF held.is /= "flat" THEN {[result |-> "failed to verify", platform |-> p]}
       ELSE IF ~Compatible(held, p) THEN {[result |-> "incompatible", platform |-> p]}
       ELSE {[result |-> "accepted", platform |-> p, context |-> c] :
               c \in {LoadExecContext(ContextBytes(held.execContext), p.members), "no memory"}}
  /\ UNCHANGED <<raw, flat, file, calls, finals>>

DescribeNetwork ==
  \/ \E n \in NSPCounts : SetNumNSPs(n)
  \/ \E s \in SizeChoices : SetSizes(s)
  \/ \E n \in NetworkNames : SetNetworkName(n)
  \/ \E n \in SemaphoreCounts : SetNumSemaphores(n)
  \/ \E i \in 1 .. Len(table.semaphoreInitState), v \in SemaphoreValues : InitSemaphore(i, v)
  \/ \E n \in ImageSizes : InitL2TCMResize(n)
  \/ \E i \in 1 .. Len(table.L2TCMInitState), w \in {<<b>> : b \in Bytes} \union Words : InitL2TCM(i, w)
  \/ \E r \in Requests : AddDMARequest(r)
  \/ \E c \in 1 .. table.numNSPs, e \in NSPEntries : AddNSPMulticastEntry(c, e)
  \/ \E e \in HostEntries : AddHostMulticastEntry(e)
  \/ \E t \in Threads : AddThreadDescriptor(t)
  \/ \E m \in Mappings : AddConstantMapping(m)

DescribeFeatures ==
  \/ \E s \in {"CACHE_DISABLED", "CACHE_ENABLED"} : SetCacheableConstants(s)
  \/ \E s \in {"freeNetworkHeap", "preserveNetworkHeap"} : SetNetworkHeapBehavior(s)
  \/ \E f \in ExtraFields : AddRequiredField(f)
  \/ \E p \in Ports : AddPort(p)
  \/ \E s \in SectionOrders : SetExecContext(s)

MetadataNext ==
  \/ DescribeNetwork
  \/ DescribeFeatures
  \/ FinalizeRawMetadata
  \/ FinalizeFlat
  \/ WriteMetadata
  \/ LoadFile
  \/ \E p \in Platforms : ReadMetadataFlat(p)

MetadataSpec == MetadataInit /\ [][MetadataNext]_metadataVars

-----------------------------------------------------------------------------
(* Properties.                                                             *)

\* The requests a structure can hold.
Expressible(requests) ==
  LET kept[i \in 0 .. Len(requests)] ==
        IF i = 0 THEN <<>>
        ELSE IF requests[i].request.devAddrSpace = Dynamic THEN kept[i - 1]
        ELSE Append(kept[i - 1], requests[i])
  IN kept[Len(requests)]

FlatView(image) ==
  LET t == image.table
  IN [sizes |-> t.sizes, numNSPs |-> t.numNSPs, networkName |-> t.networkName,
      semaphoreInitState |-> t.semaphoreInitState, L2TCMInitState |-> t.L2TCMInitState,
      dmaRequests |-> Expressible(image.dmaRequests),
      nspMulticastTables |-> SubSeq(t.nspMulticastTables, 1, t.numNSPs),
      hostMulticastTable |-> t.hostMulticastTable, threadDescriptors |-> t.threadDescriptors,
      constantMappings |-> t.constantMappings]

\* A program that follows the offsets of the structure (AICMetadataReader.c:18) finds what the flat
\* form says, also after a second finalize has written everything again behind the first
\* (AICMetadataWriter.cpp:128), when both writers
\* have been finalized since the last call.
ReadersAgree ==
  (raw.isFinal /\ metadataBuffer /= NoImage /\ rawAt = calls /\ flatAt = calls) =>
    ReadRaw(raw.metadataBuffer, Version) = FlatView(metadataBuffer)

\* Cleared memory into which the listed regions are copied is the initial L2TCM image; the
\* regions are apart, in order, and no run of zeroes worth leaving out is inside one
\* (CompressL2TCMInitState.h:23,55).
RegionsReproduceImage ==
  metadataBuffer /= NoImage =>
    LET image == metadataBuffer.table.L2TCMInitState
    IN Loaded(image, metadataBuffer.regions) = image /\ WellCut(image, metadataBuffer.regions)

\* What a network makes use of and an older platform would not honour.
Needs(image) ==
  {ContextField}
  \union (IF image.constants /= "CACHE_DISABLED" THEN {ConstantsField} ELSE {})
  \union (IF image.heap /= "freeNetworkHeap" THEN {HeapField} ELSE {})
  \union (IF \E i \in 1 .. Len(image.dmaRequests) : Uses(image.dmaRequests[i]) THEN {DynamicField} ELSE {})

\* A platform that accepts metadata knows every feature the network makes use of, however often
\* the feature was set and reset and the metadata finalized (metadataFlatbufferWriter.h:232,
\* metadataflatbufDecode.hpp:134).
PlatformsUnderstand ==
  verdict.result = "accepted" => Needs(held) \subseteq verdict.platform.fields

\* A device that loads the execution context can fill it: all members that are asked for are known
\* and lie inside the size it is told, in whatever order the sections were used
\* (execContextWriter.hpp:155, execContext_C_Decoder.h:18).
ExecContextFits ==
  (verdict.result = "accepted" /\ verdict.context = "success") =>
    LET info == ContextBytes(held.execContext)
    IN Fillable(info) /\ \A i \in 1 .. Len(info.fields) : info.fields[i].variable \in verdict.platform.members
=============================================================================
