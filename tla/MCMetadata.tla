----------------------------- MODULE MCMetadata -----------------------------
(* Small callers, three requests, four platforms.                          *)
EXTENDS Metadata

Op(n) == [semOp |-> n]
Request(n, space, size) == [num |-> n, devAddrSpace |-> space, size |-> size]
RequestChoices ==
  {[request |-> Request(1, "DDR", 1), semaphoreOps |-> <<Op("INC"), Op("WAITGE")>>, doorbellOps |-> <<>>],
   [request |-> Request(2, "MC", 1), semaphoreOps |-> <<Op("P")>>, doorbellOps |-> <<[size |-> "32"]>>],
   [request |-> Request(3, Dynamic, 1), semaphoreOps |-> <<>>, doorbellOps |-> <<>>],
   [request |-> Request(4, Dynamic, 0), semaphoreOps |-> <<>>, doorbellOps |-> <<>>]}

SizeChoice == {[VTCMSize |-> 1, L2TCMSize |-> 6, exitDoorbellOffset |-> 0]}
MappingChoices == {[coreMask |-> {1}, offset |-> 0], [coreMask |-> {1, 2}, offset |-> 1]}
WordChoices == {<<0, 1>>}
Orders == {<<"Version">>, <<"NNCfp", "Version">>, <<"RTLDapi", "VirtualAddresses">>}

AllFields == {ConstantsField, HeapField, DynamicField, ContextField, "requiredFields", "networkName"}
Platform(major, fields, members) == [major |-> major, fields |-> fields, members |-> members]
PlatformChoices ==
  {Platform(1, AllFields, Members),
   Platform(1, AllFields \ {DynamicField}, 1 .. 25),
   Platform(1, AllFields \ {ConstantsField, HeapField}, Members),
   Platform(2, AllFields, Members)}

\* Bounds of the instance.  The structure and the readers of the flat form do not touch each other:
\* histories with both are cut off, and the structure is followed for one call more, without the
\* features it cannot hold.
ReadersApart ==
  /\ file /= NoImage => rawFinals = 0
  /\ calls > 4 => file = NoImage
  /\ rawFinals > 0 \/ calls > 4 =>
       /\ constants = "CACHE_DISABLED" /\ heap = "freeNetworkHeap" /\ dynamicDDRStatus = "Disabled"
       /\ "futureField" \notin requiredFields /\ execContext \in {NoContext, DefaultSections}
=============================================================================
