------------------------- MODULE ProcessorAffinity --------------------------
(***************************************************************************)
(* The bit set ProcessorAffinity is the set of the processors whose bits   *)
(* are set.  A set of the operating system may have processors that do not *)
(* fit into the 32 bits.                                                   *)
(***************************************************************************)
EXTENDS Integers, FiniteSetsExt

MaxProcessorId == 31

ProcessorIds == 0 .. MaxProcessorId

Affinities == SUBSET ProcessorIds

\* A set that bitset::set or bitset::test takes without throwing out_of_range.
InRange(processors) == processors \subseteq ProcessorIds

IsEmpty(affinity) == affinity = {}

\* Bit 0 is not looked at: no processor and processor 0 are both 0.
GetHighestSetProcessor(affinity) == Max((affinity \ {0}) \cup {0})

-----------------------------------------------------------------------------
(* linux: cpu_set_t *)

\* The highest processor is put in without a test: an empty affinity becomes {0}.
CreateCpuSet(affinity) ==
  LET highest == GetHighestSetProcessor(affinity)
  IN  {highest} \cup {p \in 0 .. highest - 1 : p \in affinity}

\* Only of a set that is InRange: Set(p) throws for a processor above 31.
CreateAffinity(set) == {p \in ProcessorIds : p \in set}

=============================================================================
