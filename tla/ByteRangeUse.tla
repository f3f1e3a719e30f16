---------------------------- MODULE ByteRangeUse -----------------------------
(***************************************************************************)
(* One Range<int> object and its user, who adds any segments of a piece    *)
(* of MaxByte bytes.  Two history variables: written is the set of bytes   *)
(* added so far, and once says that none of them was added twice.          *)
(***************************************************************************)
EXTENDS ByteRange

CONSTANTS MaxByte,       \* bytes of the piece: offsets 0 .. MaxByte - 1
          MaxSegments    \* bound on the length of the list

ASSUME MaxByteAssumption == MaxByte \in Nat \ {0}
ASSUME MaxSegmentsAssumption == MaxSegments \in Nat \ {0}

VARIABLES segments, written, once

vars == <<segments, written, once>>

Init == segments = <<>> /\ written = {} /\ once = TRUE

Add(seg) ==
  /\ Len(segments) < MaxSegments
  /\ segments' = AddSegment(segments, seg)
  /\ written' = written \cup Bytes(seg)
  /\ once' = (once /\ Bytes(seg) \cap written = {})

Next == \E seg \in Segs(MaxByte) : Add(seg)

Spec == Init /\ [][Next]_vars

-----------------------------------------------------------------------------
TypeOK ==
  /\ segments \in Seq(Segs(MaxByte))
  /\ written \in SUBSET (0 .. MaxByte - 1)
  /\ once \in BOOLEAN

(***************************************************************************)
(* The list stays sorted by QPair's order whatever is added, overlapping   *)
(* or not: addSegment (Range.h:34) rewrites an element in place and erases *)
(* its predecessor, and a list that lost the order would send qLowerBound, *)
(* a binary search, to the wrong place.                                    *)
(***************************************************************************)
Sorted ==
  \A i \in 1 .. Len(segments), j \in 1 .. Len(segments) :
    i < j => ~ Before(segments[j], segments[i])

(***************************************************************************)
(* bytesAvailable() (Range.h:25) is what moves the writing position of the *)
(* storage: it must never count a byte that has not arrived, also when     *)
(* blocks overlap or arrive twice.                                         *)
(***************************************************************************)
PrefixSound == 0 .. BytesAvailable(segments) - 1 \subseteq written

(***************************************************************************)
(* As long as every byte is added once, in whatever order, the list is the *)
(* canonical one: exactly the maximal runs of written bytes, in order, so  *)
(* that bytesAvailable() is the whole run from byte 0.  The tests of       *)
(* RangeTest.cpp show four such orders.                                    *)
(***************************************************************************)
Canonical ==
  once =>
    /\ written = UNION {Bytes(segments[i]) : i \in 1 .. Len(segments)}
    /\ \A i \in 1 .. Len(segments) - 1 : segments[i][2] < segments[i + 1][1]

(***************************************************************************)
(* "write to the same place again - nothing happens"                       *)
(* (FlatPieceMemoryStorageTest.cpp:129): adding bytes that were all added  *)
(* before does not take back bytes already announced as available.         *)
(***************************************************************************)
RewriteHarmless ==
  [][written' = written => BytesAvailable(segments') >= BytesAvailable(segments)]_vars
=============================================================================
