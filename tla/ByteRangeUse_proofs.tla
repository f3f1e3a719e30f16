------------------------- MODULE ByteRangeUse_proofs -------------------------
(***************************************************************************)
(* One Range<int> object, for every piece length and every sequence of     *)
(* calls: the list of segments stays well-typed and sorted, neither its    *)
(* segments nor bytesAvailable() claim a byte that was not added, and the  *)
(* list is canonical as long as no byte is added twice.                    *)
(***************************************************************************)
EXTENDS ByteRangeUse, ByteRange_proofs

\* The list and the history variable are well-typed.
THEOREM TypeCorrect == Spec => []TypeOK
<1>1. Init => TypeOK
  BY DEF Init, TypeOK
<1>2. TypeOK /\ [Next]_vars => TypeOK'
  <2> SUFFICES ASSUME TypeOK, [Next]_vars
               PROVE  TypeOK'
    OBVIOUS
  <2>1. ASSUME NEW seg \in Segs(MaxByte), Add(seg)
        PROVE  TypeOK'
    <3>1. segments' \in Seq(Segs(MaxByte))
      BY <2>1, MaxByteAssumption, AddSegmentType DEF Add, TypeOK
    <3>2. Bytes(seg) \subseteq 0 .. MaxByte - 1
      BY MaxByteAssumption DEF Bytes, Segs
    <3> QED
      BY <2>1, <3>1, <3>2 DEF Add, TypeOK
  <2>2. CASE UNCHANGED vars
    BY <2>2 DEF vars, TypeOK
  <2> QED
    BY <2>1, <2>2 DEF Next
<1> QED
  BY <1>1, <1>2, PTL DEF Spec

\* addSegment keeps the list sorted (Range.h:31 searches it by bisection).
THEOREM AlwaysSorted == Spec => []Sorted
<1>1. Init => Ordered(segments)
  BY DEF Init, Ordered
<1>2. TypeOK /\ Ordered(segments) /\ [Next]_vars => Ordered(segments)'
  <2> SUFFICES ASSUME TypeOK, Ordered(segments), [Next]_vars
               PROVE  Ordered(segments')
    OBVIOUS
  <2>1. ASSUME NEW seg \in Segs(MaxByte), Add(seg)
        PROVE  Ordered(segments')
    BY <2>1, MaxByteAssumption, AddSegmentOrdered DEF Add, TypeOK
  <2>2. CASE UNCHANGED vars
    BY <2>2 DEF vars
  <2> QED
    BY <2>1, <2>2 DEF Next
<1>3. Ordered(segments) => Sorted
  BY DEF Ordered, Sorted
<1> QED
  BY <1>1, <1>2, <1>3, TypeCorrect, PTL DEF Spec

\* bytesAvailable() never counts a byte that was not added, and neither does
\* a segment: together, the list claims exactly the bytes added.
THEOREM AlwaysSound == Spec => [](PrefixSound /\ written = Claimed(segments))
<1> DEFINE Exact == written = Claimed(segments)
<1>1. Init => Exact
  BY DEF Init, Claimed
<1>2. TypeOK /\ Exact /\ [Next]_vars => Exact'
  <2> SUFFICES ASSUME TypeOK, Exact, [Next]_vars
               PROVE  written' = Claimed(segments')
    OBVIOUS
  <2>1. ASSUME NEW seg \in Segs(MaxByte), Add(seg)
        PROVE  written' = Claimed(segments')
    BY <2>1, MaxByteAssumption, AddSegmentClaims DEF Add, TypeOK
  <2>2. CASE UNCHANGED vars
    BY <2>2 DEF vars
  <2> QED
    BY <2>1, <2>2 DEF Next
<1>3. TypeOK /\ Exact => PrefixSound
  BY MaxByteAssumption, BytesAvailableIs DEF TypeOK, PrefixSound
<1> QED
  BY <1>1, <1>2, <1>3, TypeCorrect, PTL DEF Spec

\* As long as no byte is added twice, in whatever order they come, the list is
\* the canonical one: the segments are apart, and hold what was added.
THEOREM AlwaysCanonical == Spec => []Canonical
<1> DEFINE Exact == written = Claimed(segments)
           Apart == once => Gapped(segments)
<1>1. Init => Apart
  BY DEF Init, Gapped
<1>2. TypeOK /\ Exact /\ Apart /\ [Next]_vars => Apart'
  <2> SUFFICES ASSUME TypeOK, Exact, Apart, [Next]_vars, once'
               PROVE  Gapped(segments')
    OBVIOUS
  <2>1. ASSUME NEW seg \in Segs(MaxByte), Add(seg)
        PROVE  Gapped(segments')
    <3>1. once /\ Bytes(seg) \cap written = {} /\ segments' = AddSegment(segments, seg)
      BY <2>1 DEF Add
    <3>2. segments \in Seq(Segs(MaxByte)) /\ Gapped(segments) /\ MaxByte \in Nat
      BY <3>1, MaxByteAssumption DEF TypeOK
    <3> QED
      BY <3>1, <3>2, AddSegmentGapped
  <2>2. CASE UNCHANGED vars
    BY <2>2 DEF vars
  <2> QED
    BY <2>1, <2>2 DEF Next
<1>3. TypeOK /\ Exact /\ Apart => Canonical
  <2> SUFFICES ASSUME TypeOK, Exact, Gapped(segments)
               PROVE  /\ written = UNION {Bytes(segments[i]) : i \in 1 .. Len(segments)}
                      /\ \A i \in 1 .. Len(segments) - 1 : segments[i][2] < segments[i + 1][1]
    BY DEF Canonical
  <2>1. \A i \in 1 .. Len(segments) - 1 :
          i \in 1 .. Len(segments) /\ i + 1 \in 1 .. Len(segments) /\ i < i + 1
    BY DEF TypeOK
  <2> QED
    BY <2>1 DEF Claimed, Gapped
<1> QED
  BY <1>1, <1>2, <1>3, TypeCorrect, AlwaysSound, PTL DEF Spec
=============================================================================
