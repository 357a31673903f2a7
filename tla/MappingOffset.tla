---------------------------- MODULE MappingOffset ----------------------------
(***************************************************************************)
(* mappingOffset_t (src/mappingOffset.hxx): a position in a file and a     *)
(* length, kept as the page-aligned position mmap() needs and the distance *)
(* from there to the first byte wanted.                                    *)
(***************************************************************************)
EXTENDS Integers

CONSTANT PageSize      \* pageSize of src/chunking.hxx

ASSUME PageSizeAssumption == PageSize \in Nat \ {0}

\* Mutant: the position is not rounded down to a page.
MappingOffset_Unaligned(position, len) ==
    [offset_ |-> position, adjust_ |-> 0, length_ |-> len]

\* The constructors, with recalcAdjustment().
MappingOffset(position, len) ==
    [offset_ |-> position - (position % PageSize),
     adjust_ |-> position % PageSize,
     length_ |-> len]

\* mappingOffset_t{}
NoOffset == MappingOffset(0, 0)

offset(m)         == m.offset_ + m.adjust_
adjustment(m)     == m.adjust_
length(m)         == m.length_
adjustedOffset(m) == m.offset_
adjustedLength(m) == m.length_ + m.adjust_

\* length(off_t): set the length.
WithLength(m, len) == [m EXCEPT !.length_ = len]

\* operator +=
Plus(m, amount) == MappingOffset(m.offset_ + amount + m.adjust_, m.length_)
=============================================================================
