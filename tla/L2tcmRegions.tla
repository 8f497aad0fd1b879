---------------------------- MODULE L2tcmRegions ----------------------------
(***************************************************************************)
(* The regions of the initial L2TCM image that are worth loading           *)
(* (metadata-flatbuffer/include/CompressL2TCMInitState.h): the firmware    *)
(* clears the memory and copies only the regions listed in the metadata.   *)
(* Positions count from 0, and a region ends before its "end".             *)
(***************************************************************************)
EXTENDS Integers, SequencesExt

CONSTANT MinimumZeroRegion  \* shorter runs of zeroes are loaded like the rest (128 in the code)
ASSUME RegionAssumption == MinimumZeroRegion \in Nat

Region(s, e) == [start |-> s, end |-> e, size |-> e - s]

LongEnough(s, e) == e - s > MinimumZeroRegion

\* The scan of the image: is position i in a run of zeroes, where does the run start, and
\* which runs have been found; then the run that is open at the end.
ScanStart(data) == [in |-> Len(data) > 0 /\ data[1] = 0, start |-> 0, found |-> <<>>]
Closed(st, e) == IF LongEnough(st.start, e) THEN Append(st.found, Region(st.start, e)) ELSE st.found
ScanStep(st, data, i) ==
  IF data[i] = 0 /\ ~st.in THEN [st EXCEPT !.in = TRUE, !.start = i - 1]
  ELSE IF data[i] /= 0 /\ st.in THEN [st EXCEPT !.in = FALSE, !.found = Closed(st, i - 1)]
  ELSE st

FindZeroRegions(data) ==
  LET n == Len(data)
      scan[i \in 0 .. n] == IF i = 0 THEN ScanStart(data) ELSE ScanStep(scan[i - 1], data, i)
      last == scan[n]
  IN IF last.in THEN Closed(last, n) ELSE last.found

\* What lies before, between and after the zero regions, if anything.
NotEmpty(r) == IF r.size > 0 THEN <<r>> ELSE <<>>
Between(zero) == [i \in 1 .. Len(zero) - 1 |-> Region(zero[i].end, zero[i + 1].start)]
Before(zero) == <<Region(0, zero[1].start)>>
After(zero, size) == <<Region(zero[Len(zero)].end, size)>>

\* Mutant: the region in front of the first run of zeroes is lost.
FindNonZeroRegionsNoHead(zero, size) ==
  LET gaps == Between(zero) \o After(zero, size)
  IN IF zero = <<>> THEN <<Region(0, size)>>
     ELSE FlattenSeq([i \in DOMAIN gaps |-> NotEmpty(gaps[i])])

FindNonZeroRegions(zero, size) ==
  LET gaps == Before(zero) \o Between(zero) \o After(zero, size)
  IN IF zero = <<>> THEN <<Region(0, size)>>
     ELSE FlattenSeq([i \in DOMAIN gaps |-> NotEmpty(gaps[i])])

NonZeroRegions(data) == FindNonZeroRegions(FindZeroRegions(data), Len(data))

\* What the firmware makes of the regions: cleared memory with the regions copied in.
Loaded(data, regions) ==
  [i \in 1 .. Len(data) |->
     IF \E k \in 1 .. Len(regions) : regions[k].start < i /\ i <= regions[k].end THEN data[i] ELSE 0]

\* The regions are in order and apart, and what they leave out is worth leaving out.
WellCut(data, regions) ==
  /\ \A k \in 1 .. Len(regions) :
       /\ regions[k].size = regions[k].end - regions[k].start
       /\ 0 <= regions[k].start /\ regions[k].end <= Len(data)
       /\ data /= <<>> => regions[k].size > 0
  /\ \A k \in 1 .. Len(regions) - 1 : LongEnough(regions[k].end, regions[k + 1].start)
  /\ \A k \in 1 .. Len(regions) : \A s, e \in regions[k].start .. regions[k].end :
       LongEnough(s, e) => \E i \in s + 1 .. e : data[i] /= 0
=============================================================================
