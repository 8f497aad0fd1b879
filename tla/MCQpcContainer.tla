--------------------------- MODULE MCQpcContainer ---------------------------
(* Three segments; constants of one or two chunks, so that two containers differ *)
(* in where their data lies.  The metadata is not the last section of its       *)
(* ELF file.                                                                     *)
EXTENDS QpcContainer

Chunk(t) == [section |-> "none", text |-> <<t>>]
FullElf == <<[section |-> "text", text |-> <<"t">>], [section |-> "metadata", text |-> <<"m">>],
             [section |-> "symtab", text |-> <<"s">>]>>

MCNameOrder == <<Constants, Elf, "networkdesc.bin">>
MCBlobs(n) == CASE n = Constants -> {<<Chunk("c1")>>}
                [] n = Elf -> {FullElf}
                [] OTHER -> {<<Chunk(n)>>}
MCOnDisk == [n \in Names |-> IF n = Constants THEN <<Chunk("c1"), Chunk("c2")>>
                             ELSE CHOOSE data \in MCBlobs(n) : TRUE]
MCDiskNames == {Constants, Elf}

\* No operation uses more than two of builder, slots and file: states in which
\* more are in use are checked and not continued.
InUse == Cardinality({s \in Slots : mem[s] # <<>>})
         + (IF segmentBufferMap # <<>> THEN 1 ELSE 0) + (IF disk # NoFile THEN 1 ELSE 0)
AtMostTwoInUse == InUse <= 2
=============================================================================
