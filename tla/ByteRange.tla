------------------------------ MODULE ByteRange ------------------------------
(***************************************************************************)
(* The class template Range<T> of Range.h, used as Range<int>: the record  *)
(* of which bytes of one piece have arrived, kept as a list of segments.   *)
(* A segment <<f, s>> stands for QPair(f, s), the bytes f .. s-1.          *)
(***************************************************************************)
EXTENDS Integers, Sequences, SequencesExt

\* The segments of a piece of m bytes: addSegment asserts they are not empty.
Segs(m) == {s \in (0 .. m) \X (0 .. m) : s[1] < s[2]}

Bytes(s) == s[1] .. s[2] - 1

\* operator< of QPair: lexicographic
Before(s, t) == s[1] < t[1] \/ (s[1] = t[1] /\ s[2] < t[2])

\* qLowerBound: the first position whose element is not before seg.
LowerBound(segs, seg) ==
  CHOOSE i \in 1 .. Len(segs) + 1 :
    /\ i <= Len(segs) => ~ Before(segs[i], seg)
    /\ \A j \in 1 .. i - 1 : Before(segs[j], seg)

\* Mutant of InsertOrExtend: the wrong end of the element is set.
ExtendWrongEnd(segs, ins, seg) ==
  IF ins <= Len(segs) /\ segs[ins][1] = seg[2]
  THEN [segs EXCEPT ![ins] = <<@[1], seg[1]>>]
  ELSE InsertAt(segs, ins, seg)

\* First half of addSegment: grow the segment that starts where seg ends, or
\* insert seg; either way position ins now holds a segment starting at seg[1].
InsertOrExtend(segs, ins, seg) ==
  IF ins <= Len(segs) /\ segs[ins][1] = seg[2]
  THEN [segs EXCEPT ![ins] = <<seg[1], @[2]>>]
  ELSE InsertAt(segs, ins, seg)

\* Mutants of MergePrevious: a gap is closed; the predecessor is left alone.
MergeOverGap(segs, ins, seg) ==
  IF ins > 1 /\ segs[ins - 1][2] <= seg[1]
  THEN RemoveAt([segs EXCEPT ![ins] = <<segs[ins - 1][1], @[2]>>], ins - 1)
  ELSE segs

MergeNothing(segs, ins, seg) == segs

\* Second half of addSegment: absorb the predecessor if it ends where seg starts.
MergePrevious(segs, ins, seg) ==
  IF ins > 1 /\ segs[ins - 1][2] = seg[1]
  THEN RemoveAt([segs EXCEPT ![ins] = <<segs[ins - 1][1], @[2]>>], ins - 1)
  ELSE segs

AddSegment(segs, seg) ==
  LET ins == LowerBound(segs, seg)
  IN MergePrevious(InsertOrExtend(segs, ins, seg), ins, seg)

BytesAvailable(segs) ==
  IF segs = <<>> \/ segs[1][1] # 0 THEN 0 ELSE segs[1][2] - segs[1][1]
=============================================================================
