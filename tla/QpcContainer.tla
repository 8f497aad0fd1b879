--------------------------- MODULE QpcContainer ---------------------------
(***************************************************************************)
(* The QPC container: the builder of lib/program/QPCBuilder.cpp and the    *)
(* serialised form of lib/networkdesc/qpc, in memory and on disk.          *)
(*                                                                         *)
(* Memory is a set of slots, each a sequence of cells that starts at an    *)
(* address of its own; a pointer is a number and may point anywhere.  A    *)
(* header, a segment entry, a name and a unit of data take one cell each,  *)
(* which abstracts sizes and the alignment to 8 bytes.  Only SLOWPATH      *)
(* containers are modelled: nothing in the repository builds another kind. *)
(***************************************************************************)
EXTENDS Integers, FiniteSets, SequencesExt

CONSTANTS
  Slots,        \* places for containers in memory, positive numbers
  Room,         \* distance between the addresses of two slots
  NameOrder,    \* the segment names, in the order of std::map
  Blobs(_),     \* Blobs(n): data a caller may add under n, sequences of chunks
  OnDisk,       \* OnDisk[n]: the file addSegmentFromFile reads for n
  DiskNames,    \* segments the caller hands over as files when it writes a QPC file
  Replaces,     \* does the caller add segments under names in use?
  MaxBuilds     \* how often the caller builds into one handle

Elf == "network.elf"
Constants == "constants.bin"
Names == Range(NameOrder)
NoFile == <<>>
NoSegments == <<>>  \* the map of an empty container
Wild == [is |-> "wild", val |-> 0]
WildChunk == [section |-> "?", text |-> <<"?">>]

\* The data of a segment is a sequence of chunks; those of an ELF file are its sections.
Chunks == [section : STRING, text : Seq(STRING)]
Converted(text) == <<"converted">> \o text
IndexOf(sections, name) == CHOOSE i \in DOMAIN sections : sections[i].section = name
HasSection(sections, name) == \E i \in DOMAIN sections : sections[i].section = name

\* At most one section is the metadata and at most one its conversion, which is of
\* the metadata that is there.
WellFormedElf(sections) ==
  /\ \A i, j \in DOMAIN sections :
       sections[i].section = sections[j].section /\ sections[i].section \in {"metadata", "metadata_fb"}
         => i = j
  /\ \A i \in DOMAIN sections : sections[i].section = "metadata_fb" =>
       \E j \in DOMAIN sections : /\ sections[j].section = "metadata"
                                 /\ sections[i].text = Converted(sections[j].text)

\* What the caller may hand over as the data of segment n.
Given(n) == Blobs(n) \union {OnDisk[n]}

\* A container whose segments have at most most chunks each fits in a slot, even if
\* the conversion adds a section.
HasRoomFor(most) ==
  /\ \A n \in Names : \A data \in Given(n) : Len(data) < most
  /\ 1 + Len(NameOrder) * (2 + most) <= Room

ASSUME SlotsAssumption == Slots \subseteq Nat \ {0} /\ Room \in Nat \ {0}
ASSUME NamesAssumption ==
  /\ NameOrder \in Seq(STRING) /\ Elf \in Names
  /\ \A i, j \in DOMAIN NameOrder : NameOrder[i] = NameOrder[j] => i = j
ASSUME DataAssumption ==
  /\ \A n \in Names : Given(n) \subseteq Seq(Chunks)
  /\ \A data \in Given(Elf) : WellFormedElf(data)
\* True of every TLA+ value; stated for the provers, which do not know it.
ASSUME LiteralsAssumption == {"converted", "metadata_fb"} \subseteq STRING
ASSUME RoomAssumption == \E most \in 1 .. Room : HasRoomFor(most)

VARIABLES
  segmentBufferMap, segmentOffsets,   \* the builder
  obj,       \* obj[s]: what the slot holds, with the offsets a handle has recorded
  mem,       \* mem[s]: the cells of the slot
  disk,      \* the QPC file
  content,   \* for the properties: the segments put into slot s,
  saved,     \* and into the file, as maps from names
  writing    \* is buildFromSegments between writing the body and fixing it up?

builder == <<segmentBufferMap, segmentOffsets>>
told == <<content, saved>>
vars == <<builder, obj, mem, disk, told, writing>>

Free == [kind |-> "free", builds |-> 0, namesAt |-> <<>>, startsAt |-> <<>>]
NewHandle == [Free EXCEPT !.kind = "handle"]
Buffer == [Free EXCEPT !.kind = "copy"]

Init ==
  /\ segmentBufferMap = <<>> /\ segmentOffsets = <<>>
  /\ obj = [s \in Slots |-> Free]
  /\ mem = [s \in Slots |-> <<>>]
  /\ disk = NoFile
  /\ content = [s \in Slots |-> NoSegments] /\ saved = NoSegments
  /\ writing = FALSE

-----------------------------------------------------------------------------
(* Cells and where they lie.                                               *)

Put(f, n, v) == [m \in DOMAIN f \union {n} |-> IF m = n THEN v ELSE f[m]]
Emplace(f, n, v) == IF n \in DOMAIN f THEN f ELSE Put(f, n, v)
Without(f, n) == Restrict(f, DOMAIN f \ {n})

Base(s) == s * Room

\* The cell at address a of memory m.
CellAt(m, a) ==
  IF a \div Room \in Slots /\ a % Room < Len(m[a \div Room])
  THEN m[a \div Room][(a % Room) + 1] ELSE Wild

\* Offsets of the names and of the data of a list of segments.
NamesAt(segs) == [i \in 1 .. Len(segs) |-> Len(segs) + i]
StartsAt(segs) ==
  LET n == Len(segs)
      at[i \in 1 .. n] == IF i = 1 THEN 1 + 2 * n ELSE at[i - 1] + Len(segs[i - 1].data)
  IN [i \in 1 .. n |-> at[i]]

\* Mutant: the names are not counted.
TotalSizeNoNames(segs) == 1 + Len(segs) + Len(FlattenSeq([i \in 1 .. Len(segs) |-> segs[i].data]))


TotalSize(segs) == 1 + 2 * Len(segs) + Len(FlattenSeq([i \in 1 .. Len(segs) |-> segs[i].data]))

\* All cells of a container, given what its header says and where its pointers point.
Image(segs, size, base, images, namePtrs, startPtrs) ==
  LET n == Len(segs)
      entry(i) == [is |-> "segment",
                   val |-> [size |-> Len(segs[i].data), offset |-> segs[i].offset,
                            name |-> namePtrs[i], start |-> startPtrs[i]]]
      data == FlattenSeq([i \in 1 .. n |-> segs[i].data])
  IN <<[is |-> "header", val |-> [size |-> size, base |-> base, numImages |-> n, images |-> images]]>>
     \o [i \in 1 .. n |-> entry(i)]
     \o [i \in 1 .. n |-> [is |-> "name", val |-> segs[i].name]]
     \o [i \in 1 .. Len(data) |-> [is |-> "data", val |-> data[i]]]

\* The handle after a serialisation: both runs of writeQAicQpcObject, the one that
\* only measures and the one that commits, append the offsets they find.
Serialized(handle, segs) ==
  [handle EXCEPT !.builds = @ + 1,
     !.namesAt = @ \o NamesAt(segs) \o NamesAt(segs),
     !.startsAt = @ \o StartsAt(segs) \o StartsAt(segs)]

\* What the handle's buffer then holds: fixupQAicQpcObject takes the first offsets.
SerializedCells(handle, segs, base) ==
  LET h == Serialized(handle, segs)
  IN Image(segs, TotalSize(segs), base, base + 1,
           [i \in 1 .. Len(segs) |-> base + h.namesAt[i]],
           [i \in 1 .. Len(segs) |-> base + h.startsAt[i]])

\* Mutant: only the names are moved along.
RelocatedNames(cells, base) ==
  LET hdr == cells[1].val
      moved(p) == base + (p - hdr.base)
  IN [i \in 1 .. Len(cells) |->
        IF i = 1 THEN [is |-> "header", val |-> [hdr EXCEPT !.images = moved(@), !.base = base]]
        ELSE IF cells[i].is = "segment" THEN [cells[i] EXCEPT !.val.name = moved(@)]
        ELSE cells[i]]

\* The cells of a buffer that was copied to base, its pointers moved along.
Relocated(cells, base) ==
  LET hdr == cells[1].val
      moved(p) == base + (p - hdr.base)
      first == moved(hdr.images) - base + 1
      inTable(i) == i \in first .. first + hdr.numImages - 1
  IN [i \in 1 .. Len(cells) |->
        IF i = 1 THEN [is |-> "header", val |-> [hdr EXCEPT !.images = moved(@), !.base = base]]
        ELSE IF inTable(i) /\ cells[i].is = "segment"
             THEN [cells[i] EXCEPT !.val.name = moved(@), !.val.start = moved(@)]
             ELSE cells[i]]

\* What a list of segments means: a map from names to what is loaded at the start
\* and what is loaded later (QAicQpc.h:51-59).
Parts(data, offset) ==
  LET cut == IF offset <= Len(data) THEN offset ELSE Len(data)
  IN [fixed |-> SubSeq(data, 1, cut), rest |-> SubSeq(data, cut + 1, Len(data))]
MapOf(segs) ==
  [n \in {segs[i].name : i \in DOMAIN segs} |->
     LET i == CHOOSE j \in DOMAIN segs : segs[j].name = n IN Parts(segs[i].data, segs[i].offset)]

-----------------------------------------------------------------------------
(* Reading.                                                                *)

NumImages(s) == IF mem[s] = <<>> THEN 0 ELSE mem[s][1].val.numImages
Entry(s, i) == CellAt(mem, mem[s][1].val.images + i - 1)
NameOf(s, i) ==
  IF Entry(s, i).is = "segment" /\ CellAt(mem, Entry(s, i).val.name).is = "name"
  THEN CellAt(mem, Entry(s, i).val.name).val ELSE "?"

\* The entry with the name, 0 if there is none: the first wins.
Find(s, n) ==
  IF \A i \in 1 .. NumImages(s) : NameOf(s, i) # n THEN 0
  ELSE CHOOSE i \in 1 .. NumImages(s) : NameOf(s, i) = n /\ \A j \in 1 .. i - 1 : NameOf(s, j) # n

ReadData(m, start, size) ==
  [i \in 1 .. size |-> LET cell == CellAt(m, start + i - 1)
                       IN IF cell.is = "data" THEN cell.val ELSE WildChunk]

\* The part of a segment that a caller gets for its argument offset.
getQPCSegment(s, n, arg) ==
  LET e == Entry(s, Find(s, n)).val
  IN IF e.offset > 0 /\ arg = 0
     THEN ReadData(mem, e.start, e.offset)
     ELSE ReadData(mem, e.start + e.offset, e.size - e.offset)

\* All of the container s, as a list of segments: what buildFromQpc and the
\* conversion of a section copy.
SegmentsOf(s) ==
  [i \in 1 .. NumImages(s) |->
     LET e == Entry(s, i)
     IN IF e.is = "segment"
        THEN [name |-> NameOf(s, i), offset |-> e.val.offset,
              data |-> ReadData(mem, e.val.start, e.val.size)]
        ELSE [name |-> "?", offset |-> 0, data |-> <<>>]]

-----------------------------------------------------------------------------
(* The builder.                                                            *)

BuilderSegments ==
  LET held == FlattenSeq([i \in DOMAIN NameOrder |->
                IF NameOrder[i] \in DOMAIN segmentBufferMap THEN <<NameOrder[i]>> ELSE <<>>])
  IN [i \in 1 .. Len(held) |->
        [name |-> held[i], data |-> segmentBufferMap[held[i]],
         offset |-> IF held[i] \in DOMAIN segmentOffsets THEN segmentOffsets[held[i]] ELSE 0]]

Fresh(n) == Replaces \/ n \notin DOMAIN segmentBufferMap \union DOMAIN segmentOffsets

AddSegment(n) ==
  /\ ~writing /\ Fresh(n)
  /\ \E data \in Blobs(n) : \E offset \in 0 .. (IF n = Constants THEN Len(data) ELSE 0) :
       /\ segmentBufferMap' = Emplace(segmentBufferMap, n, data)
       /\ segmentOffsets' = Emplace(segmentOffsets, n, offset)
  /\ UNCHANGED <<obj, mem, disk, told, writing>>

\* Mutant: the buffer is one unit too short.
AddSegmentFromFileShort(n) ==
  /\ ~writing /\ Fresh(n)
  /\ segmentBufferMap' = Put(segmentBufferMap, n, Front(OnDisk[n]))
  /\ segmentOffsets' = Emplace(segmentOffsets, n, IF n = Constants THEN Len(OnDisk[n]) ELSE 0)
  /\ UNCHANGED <<obj, mem, disk, told, writing>>


AddSegmentFromFile(n) ==
  /\ ~writing /\ Fresh(n)
  /\ segmentBufferMap' = Put(segmentBufferMap, n, OnDisk[n])
  /\ segmentOffsets' = Emplace(segmentOffsets, n, IF n = Constants THEN Len(OnDisk[n]) ELSE 0)
  /\ UNCHANGED <<obj, mem, disk, told, writing>>

\* Mutant: what could be read stays.
AddSegmentFailsLate(n) ==
  /\ ~writing /\ Fresh(n)
  /\ segmentBufferMap' = Put(segmentBufferMap, n, OnDisk[n])
  /\ UNCHANGED <<segmentOffsets, obj, mem, disk, told, writing>>

\* The file gets shorter while it is read: the buffer is taken out again.
AddSegmentFails(n) ==
  /\ ~writing /\ Fresh(n)
  /\ segmentBufferMap' = Without(segmentBufferMap, n)
  /\ UNCHANGED <<segmentOffsets, obj, mem, disk, told, writing>>

RemoveSegment(n) ==
  /\ ~writing
  /\ segmentBufferMap' = Without(segmentBufferMap, n)
  /\ segmentOffsets' = Without(segmentOffsets, n)
  /\ UNCHANGED <<obj, mem, disk, told, writing>>

Reset ==
  /\ ~writing
  /\ segmentBufferMap' = <<>> /\ segmentOffsets' = <<>>
  /\ UNCHANGED <<obj, mem, disk, told, writing>>

Finalize(s) ==
  /\ ~writing /\ obj[s].kind = "free"
  /\ obj' = [obj EXCEPT ![s] = Serialized(NewHandle, BuilderSegments)]
  /\ mem' = [mem EXCEPT ![s] = SerializedCells(NewHandle, BuilderSegments, Base(s))]
  /\ segmentBufferMap' = <<>> /\ segmentOffsets' = <<>>
  /\ content' = [content EXCEPT ![s] = MapOf(BuilderSegments)]
  /\ UNCHANGED <<disk, saved, writing>>

\* The handle is only lent: its buffer, at address 0 here, is copied and destroyed.
FinalizeToByteArray(s) ==
  /\ ~writing /\ obj[s].kind = "free"
  /\ obj' = [obj EXCEPT ![s] = Buffer]
  /\ mem' = [mem EXCEPT ![s] = Relocated(SerializedCells(NewHandle, BuilderSegments, 0), Base(s))]
  /\ segmentBufferMap' = <<>> /\ segmentOffsets' = <<>>
  /\ content' = [content EXCEPT ![s] = MapOf(BuilderSegments)]
  /\ UNCHANGED <<disk, saved, writing>>

-----------------------------------------------------------------------------
(* Handles and buffers.                                                    *)

CreateQpcHandle(s) ==
  /\ ~writing /\ obj[s].kind = "free"
  /\ obj' = [obj EXCEPT ![s] = NewHandle]
  /\ UNCHANGED <<builder, mem, disk, told, writing>>

\* buildFromByteArray, buildFromQpc and buildFromSegments into a handle.
BuildFromQpc(from, s) ==
  /\ ~writing /\ from # s /\ mem[from] # <<>>
  /\ obj[s].kind = "handle" /\ obj[s].builds < MaxBuilds
  /\ obj' = [obj EXCEPT ![s] = Serialized(@, SegmentsOf(from))]
  /\ mem' = [mem EXCEPT ![s] = SerializedCells(obj[s], SegmentsOf(from), Base(s))]
  /\ content' = [content EXCEPT ![s] = content[from]]
  /\ UNCHANGED <<builder, disk, saved, writing>>

\* copyQpcBuffer accepts only a source whose header gives the size of the buffer.
CopyQpcBuffer(from, s) ==
  /\ ~writing /\ mem[from] # <<>> /\ mem[from][1].val.size = Len(mem[from])
  /\ from = s \/ obj[s].kind = "free"
  /\ obj' = [obj EXCEPT ![s] = IF from = s THEN @ ELSE Buffer]
  /\ mem' = [mem EXCEPT ![s] = Relocated(mem[from], Base(s))]
  /\ content' = [content EXCEPT ![s] = content[from]]
  /\ UNCHANGED <<builder, disk, saved, writing>>

DestroyQpcHandle(s) ==
  /\ ~writing /\ obj[s].kind # "free"
  /\ obj' = [obj EXCEPT ![s] = Free]
  /\ mem' = [mem EXCEPT ![s] = <<>>]
  /\ content' = [content EXCEPT ![s] = NoSegments]
  /\ UNCHANGED <<builder, disk, saved, writing>>

\* Mutant: the names move along, the data behind the new section does not.
ConvertedElfNamesOnly(sections) ==
  LET src == IndexOf(sections, "metadata")
      new == [section |-> "metadata_fb", text |-> Converted(sections[src].text)]
      named == InsertAt(sections, src + 1, new)
  IN [i \in DOMAIN named |->
        [named[i] EXCEPT !.text = Append(sections, new)[i].text]]

\* The sections of an ELF file after the conversion of "metadata" to "metadata_fb":
\* its data is replaced, or it is inserted after its source by moving the sections
\* behind it one place on.
ConvertedElf(sections) ==
  LET src == IndexOf(sections, "metadata")
      new == [section |-> "metadata_fb", text |-> Converted(sections[src].text)]
  IN IF HasSection(sections, "metadata_fb")
     THEN [sections EXCEPT ![IndexOf(sections, "metadata_fb")] = new]
     ELSE InsertAt(sections, src + 1, new)

ConvertMap(map) ==
  [map EXCEPT ![Elf].rest = ConvertedElf(@)]

\* convertNetworkElfSection puts the new ELF last and serialises into a new handle.
ConvertNetworkElfSection(from, s) ==
  /\ ~writing /\ mem[from] # <<>> /\ obj[s].kind = "free"
  /\ Find(from, Elf) # 0 /\ HasSection(SegmentsOf(from)[Find(from, Elf)].data, "metadata")
  /\ LET old == SegmentsOf(from)
         at == Find(from, Elf)
         new == [name |-> Elf, offset |-> 0, data |-> ConvertedElf(old[at].data)]
         segs == Append(RemoveAt(old, at), new)
     IN /\ obj' = [obj EXCEPT ![s] = Serialized(NewHandle, segs)]
        /\ mem' = [mem EXCEPT ![s] = SerializedCells(NewHandle, segs, Base(s))]
  /\ content' = [content EXCEPT ![s] = ConvertMap(content[from])]
  /\ UNCHANGED <<builder, disk, saved, writing>>

-----------------------------------------------------------------------------
(* QPC files.                                                              *)

\* constants.bin is not copied into memory: it is read from its file when its turn
\* comes, and if that fails the file ends there.
CutShort(body, segs) ==
  {SubSeq(body, 1, StartsAt(segs)[i]) :
     i \in {j \in DOMAIN segs : segs[j].name = Constants /\ Constants \in DiskNames}}

\* buildFromSegments(vector, path): the file is truncated and everything is written
\* with a header of size 0 and null pointers.  Without a network.elf nothing happens.
WriteQpcBody ==
  /\ ~writing /\ Elf \in DOMAIN segmentBufferMap
  /\ LET segs == BuilderSegments
         nulls == [i \in 1 .. Len(segs) |-> 0]
         body == Image(segs, 0, 0, 0, nulls, nulls)
     IN \/ disk' = body /\ writing' = TRUE
        \/ disk' \in CutShort(body, segs) /\ writing' = FALSE
  /\ saved' = NoSegments
  /\ UNCHANGED <<builder, obj, mem, content>>

\* ... then header and entries are written again, with offsets from the file's start.
FixUpQpcFile ==
  /\ writing
  /\ disk' = LET segs == BuilderSegments
             IN Image(segs, TotalSize(segs), 0, 1, NamesAt(segs), StartsAt(segs))
  /\ writing' = FALSE
  /\ saved' = MapOf(BuilderSegments)
  /\ UNCHANGED <<builder, obj, mem, content>>

\* A file is read into a buffer and fixed up in place, or refused.
LoadQpcFile(s) ==
  /\ ~writing /\ disk # NoFile /\ obj[s].kind = "free"
  /\ disk[1].val.size = Len(disk)
  /\ obj' = [obj EXCEPT ![s] = Buffer]
  /\ mem' = [mem EXCEPT ![s] = Relocated(disk, Base(s))]
  /\ content' = [content EXCEPT ![s] = saved]
  /\ UNCHANGED <<builder, disk, saved, writing>>

\* The process is killed.
Kill ==
  /\ segmentBufferMap' = <<>> /\ segmentOffsets' = <<>>
  /\ obj' = [s \in Slots |-> Free] /\ mem' = [s \in Slots |-> <<>>]
  /\ content' = [s \in Slots |-> NoSegments]
  /\ writing' = FALSE
  /\ UNCHANGED <<disk, saved>>

Next ==
  \/ \E n \in Names : AddSegment(n)
  \/ \E n \in Names : AddSegmentFromFile(n)
  \/ \E n \in Names : AddSegmentFails(n)
  \/ \E n \in Names : RemoveSegment(n)
  \/ Reset
  \/ \E s \in Slots : Finalize(s)
  \/ \E s \in Slots : FinalizeToByteArray(s)
  \/ \E s \in Slots : CreateQpcHandle(s)
  \/ \E from, s \in Slots : BuildFromQpc(from, s)
  \/ \E from, s \in Slots : CopyQpcBuffer(from, s)
  \/ \E s \in Slots : DestroyQpcHandle(s)
  \/ \E from, s \in Slots : ConvertNetworkElfSection(from, s)
  \/ WriteQpcBody
  \/ FixUpQpcFile
  \/ \E s \in Slots : LoadQpcFile(s)
  \/ Kill

Spec == Init /\ [][Next]_vars

-----------------------------------------------------------------------------
(* Properties.                                                             *)

\* Types, and the size in a container's header is that of its buffer.
TypeOK ==
  /\ DOMAIN segmentBufferMap \subseteq Names /\ DOMAIN segmentOffsets \subseteq Names
  /\ \A s \in Slots :
       /\ obj[s].kind \in {"free", "handle", "copy"} /\ Len(mem[s]) <= Room
       /\ mem[s] # <<>> => mem[s][1].val.size = Len(mem[s])
  /\ writing \in BOOLEAN

\* The assertion of QPCBuilder::hasSegment: a segment has data exactly if it has an
\* offset (QPCBuilder.cpp:65).
MapsAgree == DOMAIN segmentBufferMap = DOMAIN segmentOffsets

\* getQPCSegment subtracts a segment's offset from its size, both unsigned.
StaticPartFits ==
  \A s \in Slots : \A i \in 1 .. NumImages(s) :
    Entry(s, i).is = "segment" => Entry(s, i).val.offset <= Entry(s, i).val.size

\* A converted section reads as the conversion of its source, whatever else was done
\* to the container since, or before (getNetworkElfSectionDataFromQpc).
SectionData(s, name) ==
  LET sections == SegmentsOf(s)[Find(s, Elf)].data
  IN sections[IndexOf(sections, name)].text
ConvertedSectionsRead ==
  \A s \in Slots :
    Find(s, Elf) # 0 /\ HasSection(SegmentsOf(s)[Find(s, Elf)].data, "metadata_fb")
      => SectionData(s, "metadata_fb") = Converted(SectionData(s, "metadata"))

\* What a reader of slot s gets from getQPCSegment, name by name.
Served(s) ==
  [n \in {NameOf(s, i) : i \in 1 .. NumImages(s)} |->
     [fixed |-> IF Entry(s, Find(s, n)).val.offset > 0 THEN getQPCSegment(s, n, 0) ELSE <<>>,
      rest |-> getQPCSegment(s, n, 1)]]

\* What a reader of the file would get.
ServedFromDisk ==
  LET hdr == disk[1].val
      entry(i) == disk[hdr.images + i].val
      data(p, k) == [j \in 1 .. k |-> disk[p + j].val]
  IN [n \in {disk[entry(i).name + 1].val : i \in 1 .. hdr.numImages} |->
        LET e == entry(CHOOSE i \in 1 .. hdr.numImages : disk[entry(i).name + 1].val = n)
        IN Parts(data(e.start, e.size), e.offset)]

\* Whoever reads a container sees the segments that were put into it, wherever it
\* was copied, moved, rebuilt, converted or saved.  A file that is not finished is
\* refused (QAicQpc.h:99 'Build up a QPC object from a qpc segment array').
ReadersSeeTheSegments ==
  /\ \A s \in Slots : mem[s] # <<>> => Served(s) = content[s]
  /\ disk # NoFile /\ disk[1].val.size = Len(disk) => ServedFromDisk = saved
=============================================================================
