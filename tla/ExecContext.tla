---------------------------- MODULE ExecContext ----------------------------
(***************************************************************************)
(* How the metadata tell the firmware which members of the execution       *)
(* context a network needs: ExecContextWriter (execContext/include) on the *)
(* host, nnc_load_exec_context_info (execContext/include/qsm) on the       *)
(* device.  A member is named by its place in the structure.               *)
(***************************************************************************)
EXTENDS Integers, SequencesExt

\* The members of AICExecContext_32bitPointers: bytes of each, in order.
Sizes == <<2, 2, 1>>                                          \* versions, virtual NSP
         \o <<4, 4, 4, 4, 4, 4, 8>>                           \* addresses, time stamp
         \o <<4, 4, 4, 4, 4, 4, 4, 4, 4, 4, 4, 4, 4, 8, 4>>   \* functions, heap
         \o <<4, 4, 4, 4, 4, 4, 4, 4>>                        \* dynamic loading
Members == 1 .. Len(Sizes)

\* A member lies at the next multiple of its size.
NextMultiple(at, size) == ((at + size - 1) \div size) * size
OffsetOf ==
  LET offset[m \in Members] ==
        IF m = 1 THEN 0 ELSE NextMultiple(offset[m - 1] + Sizes[m - 1], Sizes[m])
  IN [m \in Members |-> offset[m]]

Sections == {"Version", "VirtualAddresses", "NNCfp", "RTLDapi"}
SectionMembers(s) ==
  LET from(first, n) == [i \in 1 .. n |-> first + i - 1]
  IN CASE s = "Version" -> from(1, 3)
       [] s = "VirtualAddresses" -> from(4, 7)
       [] s = "NNCfp" -> from(11, 15)
       [] s = "RTLDapi" -> from(26, 8)

\* addUsedElement: a required field, and room for it.
Field(m) == [variable |-> m, size |-> Sizes[m], offset |-> OffsetOf[m], isRequired |-> "required"]

NewContext == [fields |-> <<>>, maxsize |-> 0]
\* Mutant: the size of the last field is taken, not the largest.
AddUsedElementLast(c, m) ==
  [fields |-> Append(c.fields, Field(m)), maxsize |-> OffsetOf[m] + Sizes[m]]

AddUsedElement(c, m) ==
  [fields |-> Append(c.fields, Field(m)),
   maxsize |-> IF OffsetOf[m] + Sizes[m] > c.maxsize THEN OffsetOf[m] + Sizes[m] ELSE c.maxsize]

DefaultSections == <<"Version", "VirtualAddresses", "NNCfp", "RTLDapi">>

\* getExecContext: the bytes of a writer after the given calls. Elsewhere a context is
\* represented by these calls.
UsedMembers(sections) == FlattenSeq([i \in DOMAIN sections |-> SectionMembers(sections[i])])
ContextBytes(sections) ==
  LET used == UsedMembers(sections)
      c[i \in 0 .. Len(used)] == IF i = 0 THEN NewContext ELSE AddUsedElement(c[i - 1], used[i])
      end == c[Len(used)]
  IN [execContextSize |-> end.maxsize, fields |-> end.fields]

\* nnc_load_exec_context_info on a device that knows the given members.
LoadExecContext(bytes, known) ==
  IF \E i \in 1 .. Len(bytes.fields) :
        \/ bytes.fields[i].isRequired \notin {"required", "optional"}
        \/ bytes.fields[i].variable \notin known /\ bytes.fields[i].isRequired = "required"
  THEN "error" ELSE "success"

\* The device can fill the structure: every field is inside.
Fillable(info) ==
  \A i \in 1 .. Len(info.fields) : info.fields[i].offset + info.fields[i].size <= info.execContextSize
=============================================================================
