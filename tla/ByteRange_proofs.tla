--------------------------- MODULE ByteRange_proofs ---------------------------
(***************************************************************************)
(* Lemmas about the operators of ByteRange, for every list of segments:    *)
(* what qLowerBound returns, and what addSegment leaves.                   *)
(***************************************************************************)
EXTENDS ByteRange, SequenceTheorems, WellFoundedInduction, TLAPS

(***************************************************************************)
(* A non-empty set of natural numbers has a least element.                 *)
(***************************************************************************)
LessThan == {ss \in Nat \X Nat : ss[1] < ss[2]}

LEMMA LessThanWellFounded == IsWellFoundedOn(LessThan, Nat)
  BY NatLessThanWellFounded, Zenon DEF OpToRel, LessThan

LEMMA LeastNumber ==
  ASSUME NEW S \in SUBSET Nat, S # {}
  PROVE  \E x \in S : \A y \in S : x <= y
<1>1. \E x \in S : \A y \in S : <<y, x>> \notin LessThan
  BY LessThanWellFounded, WFMin, Zenon
<1>2. ASSUME NEW x \in S, NEW y \in S, <<y, x>> \notin LessThan
      PROVE  x <= y
  <2>1. x \in Nat /\ y \in Nat /\ <<y, x>> \in Nat \X Nat
    OBVIOUS
  <2> QED
    BY <2>1, <1>2 DEF LessThan
<1> QED
  BY <1>1, <1>2

-----------------------------------------------------------------------------
(***************************************************************************)
(* The operators, for segments of any two integers (in C: Range<int>).     *)
(***************************************************************************)
Pair == Int \X Int

LEMMA LowerBoundIs ==
  ASSUME NEW segs \in Seq(Pair), NEW seg \in Pair
  PROVE  LET n == LowerBound(segs, seg)
         IN /\ n \in 1 .. Len(segs) + 1
            /\ n <= Len(segs) => ~ Before(segs[n], seg)
            /\ \A j \in 1 .. n - 1 : Before(segs[j], seg)
<1> DEFINE NotBefore == {i \in 1 .. Len(segs) + 1 : i <= Len(segs) => ~ Before(segs[i], seg)}
<1>1. NotBefore \in SUBSET Nat /\ Len(segs) + 1 \in NotBefore
  OBVIOUS
<1>2. PICK n \in NotBefore : \A j \in NotBefore : n <= j
  BY <1>1, LeastNumber
<1>3. \A j \in 1 .. n - 1 : Before(segs[j], seg)
  <2>1. \A j \in 1 .. n - 1 : j \in 1 .. Len(segs) + 1 /\ j <= Len(segs) /\ ~ (n <= j)
    OBVIOUS
  <2> QED
    BY <2>1, <1>2
<1> HIDE DEF NotBefore
<1>4. \E i \in 1 .. Len(segs) + 1 :
        /\ i <= Len(segs) => ~ Before(segs[i], seg)
        /\ \A j \in 1 .. i - 1 : Before(segs[j], seg)
  BY <1>2, <1>3 DEF NotBefore
<1> QED
  BY <1>4, Zenon DEF LowerBound

LEMMA InsertAtIs ==
  ASSUME NEW S, NEW s \in Seq(S), NEW i \in 1 .. Len(s) + 1, NEW e \in S
  PROVE  /\ InsertAt(s, i, e) \in Seq(S)
         /\ Len(InsertAt(s, i, e)) = Len(s) + 1
         /\ \A j \in 1 .. Len(s) + 1 :
              InsertAt(s, i, e)[j] = IF j < i THEN s[j] ELSE IF j = i THEN e ELSE s[j - 1]
<1> DEFINE a == SubSeq(s, 1, i - 1)
           c == SubSeq(s, i, Len(s))
<1>1. a \in Seq(S) /\ Len(a) = i - 1 /\ \A j \in 1 .. i - 1 : a[j] = s[j]
  OBVIOUS
<1>2. c \in Seq(S) /\ Len(c) = Len(s) - i + 1 /\ \A j \in 1 .. Len(s) - i + 1 : c[j] = s[i + j - 1]
  OBVIOUS
<1>3. InsertAt(s, i, e) = a \o <<e>> \o c
  BY DEF InsertAt
<1> HIDE DEF a, c
<1>4. a \o <<e>> \in Seq(S) /\ Len(a \o <<e>>) = i
  BY <1>1
<1>5. \A j \in 1 .. i : (a \o <<e>>)[j] = IF j < i THEN s[j] ELSE e
  BY <1>1
<1> DEFINE ae == a \o <<e>>
<1>5a. ae \in Seq(S) /\ Len(ae) = i /\ \A j \in 1 .. i : ae[j] = IF j < i THEN s[j] ELSE e
  BY <1>4, <1>5, Zenon
<1>5b. InsertAt(s, i, e) = ae \o c
  BY <1>3
<1> HIDE DEF ae
<1>6. /\ ae \o c \in Seq(S)
      /\ Len(ae \o c) = Len(ae) + Len(c)
      /\ \A j \in 1 .. Len(ae) + Len(c) : (ae \o c)[j] = IF j <= Len(ae) THEN ae[j] ELSE c[j - Len(ae)]
  BY <1>2, <1>5a, ConcatProperties
<1>7. Len(ae) = i /\ Len(ae) + Len(c) = Len(s) + 1
  BY <1>2, <1>5a
<1>8. ASSUME NEW j \in 1 .. Len(s) + 1
      PROVE  (ae \o c)[j] = IF j < i THEN s[j] ELSE IF j = i THEN e ELSE s[j - 1]
  <2>1. CASE j <= i
    BY <2>1, <1>5a, <1>6, <1>7
  <2>2. CASE j > i
    <3>1. (ae \o c)[j] = c[j - i] /\ j - i \in 1 .. Len(s) - i + 1 /\ i + (j - i) - 1 = j - 1
      <4>1. ~ (j <= i) /\ j - i \in 1 .. Len(s) - i + 1 /\ i + (j - i) - 1 = j - 1
        BY <2>2
      <4>2. j \in 1 .. Len(ae) + Len(c)
        BY <1>7
      <4> QED
        BY <4>1, <4>2, <1>6, <1>7
    <3> QED
      BY <3>1, <2>2, <1>2
  <2>3. j <= i \/ j > i
    OBVIOUS
  <2> QED
    BY <2>1, <2>2, <2>3, Zenon
<1> QED
  BY <1>5b, <1>6, <1>7, <1>8

LEMMA RemoveAtIs ==
  ASSUME NEW S, NEW s \in Seq(S), NEW i \in 1 .. Len(s)
  PROVE  /\ RemoveAt(s, i) \in Seq(S)
         /\ Len(RemoveAt(s, i)) = Len(s) - 1
         /\ \A j \in 1 .. Len(s) - 1 : RemoveAt(s, i)[j] = IF j < i THEN s[j] ELSE s[j + 1]
<1> DEFINE a == SubSeq(s, 1, i - 1)
           c == SubSeq(s, i + 1, Len(s))
<1>1. a \in Seq(S) /\ Len(a) = i - 1 /\ \A j \in 1 .. i - 1 : a[j] = s[j]
  OBVIOUS
<1>2. c \in Seq(S) /\ Len(c) = Len(s) - i /\ \A j \in 1 .. Len(s) - i : c[j] = s[i + j]
  OBVIOUS
<1>3. RemoveAt(s, i) = a \o c
  BY DEF RemoveAt
<1> HIDE DEF a, c
<1>4. /\ a \o c \in Seq(S)
      /\ Len(a \o c) = Len(a) + Len(c)
      /\ \A j \in 1 .. Len(a) + Len(c) : (a \o c)[j] = IF j <= Len(a) THEN a[j] ELSE c[j - Len(a)]
  BY <1>1, <1>2, ConcatProperties
<1>5. Len(a) + Len(c) = Len(s) - 1
  BY <1>1, <1>2
<1>6. ASSUME NEW j \in 1 .. Len(s) - 1
      PROVE  (a \o c)[j] = IF j < i THEN s[j] ELSE s[j + 1]
  <2>1. CASE j < i
    BY <2>1, <1>1, <1>4, <1>5
  <2>2. CASE j >= i
    <3>1. (a \o c)[j] = c[j - (i - 1)] /\ j - (i - 1) \in 1 .. Len(s) - i /\ i + (j - (i - 1)) = j + 1
      BY <2>2, <1>1, <1>4, <1>5
    <3> QED
      BY <3>1, <2>2, <1>2
  <2>3. j < i \/ j >= i
    OBVIOUS
  <2> QED
    BY <2>1, <2>2, <2>3, Zenon
<1> QED
  BY <1>3, <1>4, <1>5, <1>6

-----------------------------------------------------------------------------
(***************************************************************************)
(* What each half of addSegment leaves at every position.                  *)
(***************************************************************************)

LEMMA LexicographicOrder ==
  ASSUME NEW s \in Pair, NEW t \in Pair, NEW u \in Pair
  PROVE  /\ ~ Before(t, s) /\ ~ Before(u, t) => ~ Before(u, s)
         /\ Before(s, t) => ~ Before(t, s)
  BY DEF Before, Pair

LEMMA LowerBoundInSegs ==
  ASSUME NEW m \in Nat, NEW segs \in Seq(Segs(m)), NEW seg \in Segs(m)
  PROVE  LET n == LowerBound(segs, seg)
         IN /\ n \in 1 .. Len(segs) + 1
            /\ n <= Len(segs) => ~ Before(segs[n], seg)
            /\ \A j \in 1 .. n - 1 : Before(segs[j], seg)
<1>1. segs \in Seq(Pair) /\ seg \in Pair
  <2>1. Segs(m) \subseteq Pair
    BY DEF Segs, Pair
  <2> QED
    BY <2>1, SeqMonotonic
<1> QED
  BY <1>1, LowerBoundIs

\* The segment that now starts where seg does ends where seg ends, or where
\* the segment does that started there.
Placed(m, segs, n, seg, mid) ==
  /\ mid \in Seq(Segs(m)) /\ n \in 1 .. Len(mid)
  /\ \A j \in 1 .. n - 1 : mid[j] = segs[j]
  /\ \/ /\ n <= Len(segs) /\ segs[n][1] = seg[2] /\ Len(mid) = Len(segs)
        /\ mid[n] = <<seg[1], segs[n][2]>>
        /\ \A j \in n + 1 .. Len(mid) : mid[j] = segs[j]
     \/ /\ n <= Len(segs) => segs[n][1] # seg[2]
        /\ Len(mid) = Len(segs) + 1
        /\ mid[n] = seg
        /\ \A j \in n + 1 .. Len(mid) : mid[j] = segs[j - 1]

\* Either nothing is absorbed, or segment n - 1 is.
Merged(m, mid, n, seg, out) ==
  \/ out = mid /\ (n > 1 => mid[n - 1][2] # seg[1])
  \/ /\ n > 1 /\ mid[n - 1][2] = seg[1]
     /\ out \in Seq(Segs(m)) /\ Len(out) = Len(mid) - 1
     /\ out[n - 1] = <<mid[n - 1][1], mid[n][2]>>
     /\ \A j \in 1 .. n - 2 : out[j] = mid[j]
     /\ \A j \in n .. Len(out) : out[j] = mid[j + 1]

LEMMA InsertOrExtendIs ==
  ASSUME NEW m \in Nat, NEW segs \in Seq(Segs(m)), NEW seg \in Segs(m),
         NEW n \in 1 .. Len(segs) + 1
  PROVE  Placed(m, segs, n, seg, InsertOrExtend(segs, n, seg))
<1>1. CASE n <= Len(segs) /\ segs[n][1] = seg[2]
  <2>1. segs[n] \in Segs(m) /\ <<seg[1], segs[n][2]>> \in Segs(m)
    <3>1. segs[n] \in Segs(m)
      BY <1>1
    <3> QED
      BY <3>1, <1>1 DEF Segs
  <2>2. InsertOrExtend(segs, n, seg) = [segs EXCEPT ![n] = <<seg[1], segs[n][2]>>]
    BY <1>1 DEF InsertOrExtend
  <2> QED
    BY <1>1, <2>1, <2>2 DEF Placed
<1>2. CASE ~ (n <= Len(segs) /\ segs[n][1] = seg[2])
  <2>1. InsertOrExtend(segs, n, seg) = InsertAt(segs, n, seg)
    BY <1>2 DEF InsertOrExtend
  <2>2. seg \in Segs(m)
    OBVIOUS
  <2> DEFINE new == InsertAt(segs, n, seg)
  <2>3. /\ new \in Seq(Segs(m)) /\ Len(new) = Len(segs) + 1
        /\ \A j \in 1 .. Len(segs) + 1 :
             new[j] = IF j < n THEN segs[j] ELSE IF j = n THEN seg ELSE segs[j - 1]
    BY <2>2, InsertAtIs
  <2> HIDE DEF new
  <2>4. n \in 1 .. Len(new) /\ new[n] = seg
    BY <2>3
  <2>5. \A j \in 1 .. n - 1 : new[j] = segs[j]
    BY <2>3
  <2>6. \A j \in n + 1 .. Len(new) : new[j] = segs[j - 1]
    BY <2>3
  <2> QED
    BY <1>2, <2>1, <2>3, <2>4, <2>5, <2>6 DEF new, Placed
<1> QED
  BY <1>1, <1>2, Zenon

LEMMA MergePreviousIs ==
  ASSUME NEW m \in Nat, NEW mid \in Seq(Segs(m)), NEW seg \in Segs(m),
         NEW n \in 1 .. Len(mid), mid[n][1] = seg[1]
  PROVE  Merged(m, mid, n, seg, MergePrevious(mid, n, seg))
<1>1. CASE n > 1 /\ mid[n - 1][2] = seg[1]
  <2> DEFINE joined == <<mid[n - 1][1], mid[n][2]>>
             list == [mid EXCEPT ![n] = joined]
  <2>1. joined \in Segs(m)
    <3>1. mid[n] \in Segs(m) /\ mid[n - 1] \in Segs(m)
      BY <1>1
    <3>2. \A s, t \in Segs(m) : s[1] < t[2] => <<s[1], t[2]>> \in Segs(m)
      BY DEF Segs
    <3>3. \A s \in Segs(m) : s[1] \in Int /\ s[2] \in Int /\ s[1] < s[2]
      BY DEF Segs
    <3>4. mid[n - 1][1] < mid[n][2]
      BY <3>1, <3>3, <1>1
    <3> QED
      BY <3>1, <3>2, <3>4
  <2>2. MergePrevious(mid, n, seg) = RemoveAt(list, n - 1)
    BY <1>1 DEF MergePrevious
  <2>3. /\ list \in Seq(Segs(m)) /\ Len(list) = Len(mid) /\ list[n] = joined
        /\ \A j \in 1 .. Len(mid) : j # n => list[j] = mid[j]
    BY <2>1
  <2>4. n - 1 \in 1 .. Len(list)
    BY <1>1, <2>3
  <2> HIDE DEF list, joined
  <2>5. /\ RemoveAt(list, n - 1) \in Seq(Segs(m))
        /\ Len(RemoveAt(list, n - 1)) = Len(mid) - 1
        /\ \A j \in 1 .. Len(mid) - 1 :
             RemoveAt(list, n - 1)[j] = IF j < n - 1 THEN list[j] ELSE list[j + 1]
    BY <2>3, <2>4, RemoveAtIs
  <2>6. RemoveAt(list, n - 1)[n - 1] = joined
    BY <2>3, <2>4, <2>5
  <2>7. ASSUME NEW j \in 1 .. n - 2
        PROVE  RemoveAt(list, n - 1)[j] = mid[j]
    <3>1. j \in 1 .. Len(mid) - 1 /\ j < n - 1 /\ j \in 1 .. Len(mid) /\ j # n
      OBVIOUS
    <3> QED
      BY <3>1, <2>3, <2>5
  <2>8. \A j \in n .. Len(mid) - 1 : RemoveAt(list, n - 1)[j] = mid[j + 1]
    BY <2>3, <2>4, <2>5
  <2> QED
    BY <1>1, <2>2, <2>5, <2>6, <2>7, <2>8 DEF joined, Merged
<1>2. CASE ~ (n > 1 /\ mid[n - 1][2] = seg[1])
  BY <1>2 DEF MergePrevious, Merged
<1> QED
  BY <1>1, <1>2, Zenon

LEMMA AddSegmentType ==
  ASSUME NEW m \in Nat, NEW segs \in Seq(Segs(m)), NEW seg \in Segs(m)
  PROVE  AddSegment(segs, seg) \in Seq(Segs(m))
<1> DEFINE n == LowerBound(segs, seg)
           mid == InsertOrExtend(segs, n, seg)
<1>1. n \in 1 .. Len(segs) + 1
  BY LowerBoundInSegs
<1> HIDE DEF n
<1>2. Placed(m, segs, n, seg, mid)
  BY <1>1, InsertOrExtendIs
<1> HIDE DEF mid
<1>2a. mid \in Seq(Segs(m)) /\ n \in 1 .. Len(mid) /\ mid[n][1] = seg[1]
  BY <1>2 DEF Placed
<1>3. MergePrevious(mid, n, seg) \in Seq(Segs(m))
  BY <1>2a, MergePreviousIs DEF Merged
<1> QED
  BY <1>3 DEF AddSegment, mid, n

-----------------------------------------------------------------------------
(***************************************************************************)
(* addSegment keeps the list sorted.                                       *)
(***************************************************************************)
Ordered(segs) == \A i, j \in 1 .. Len(segs) : i < j => ~ Before(segs[j], segs[i])

LEMMA SegsArePairs ==
  ASSUME NEW m \in Nat, NEW s \in Segs(m)
  PROVE  s \in Pair /\ s[1] \in Int /\ s[2] \in Int /\ s[1] < s[2]
  BY DEF Segs, Pair

LEMMA InsertOrExtendOrdered ==
  ASSUME NEW m \in Nat, NEW segs \in Seq(Segs(m)), NEW seg \in Segs(m), Ordered(segs)
  PROVE  Ordered(InsertOrExtend(segs, LowerBound(segs, seg), seg))
<1> DEFINE n == LowerBound(segs, seg)
           mid == InsertOrExtend(segs, n, seg)
<1>1. /\ n \in 1 .. Len(segs) + 1
      /\ n <= Len(segs) => ~ Before(segs[n], seg)
      /\ \A j \in 1 .. n - 1 : Before(segs[j], seg)
  BY LowerBoundInSegs
<1> HIDE DEF n
<1>2a. Placed(m, segs, n, seg, mid)
  BY <1>1, InsertOrExtendIs
<1> HIDE DEF mid
<1>2. /\ mid \in Seq(Segs(m)) /\ n \in 1 .. Len(mid)
      /\ \A j \in 1 .. n - 1 : mid[j] = segs[j]
      /\ \/ /\ n <= Len(segs) /\ segs[n][1] = seg[2] /\ Len(mid) = Len(segs)
            /\ mid[n] = <<seg[1], segs[n][2]>>
            /\ \A j \in n + 1 .. Len(mid) : mid[j] = segs[j]
         \/ /\ Len(mid) = Len(segs) + 1
            /\ mid[n] = seg
            /\ \A j \in n + 1 .. Len(mid) : mid[j] = segs[j - 1]
  BY <1>2a DEF Placed
<1>3. \A i \in 1 .. Len(segs) : segs[i][1] \in Int /\ segs[i][2] \in Int /\ segs[i][1] < segs[i][2]
  BY SegsArePairs
<1>4. seg[1] \in Int /\ seg[2] \in Int /\ seg[1] < seg[2]
  BY SegsArePairs
<1>5. SUFFICES ASSUME NEW i \in 1 .. Len(mid), NEW j \in 1 .. Len(mid), i < j
              PROVE  ~ Before(mid[j], mid[i])
  BY DEF Ordered, mid, n
<1>6. CASE /\ n <= Len(segs) /\ segs[n][1] = seg[2] /\ Len(mid) = Len(segs)
           /\ mid[n] = <<seg[1], segs[n][2]>>
           /\ \A k \in n + 1 .. Len(mid) : mid[k] = segs[k]
  <2>1. mid[n][1] = seg[1] /\ mid[n][2] = segs[n][2] /\ segs[n][2] > seg[2]
    BY <1>6, <1>3, <1>2
  <2>2. CASE j = n
    <3>1. mid[i] = segs[i] /\ Before(segs[i], seg) /\ i \in 1 .. Len(segs)
      BY <2>2, <1>1, <1>2, <1>5, <1>6
    <3>2. segs[i][1] \in Int /\ segs[i][2] \in Int /\ segs[n][2] \in Int
      BY <3>1, <1>3, <1>6, <1>2
    <3> QED
      BY <3>1, <3>2, <2>1, <2>2, <1>4 DEF Before
  <2>3. CASE i = n
    <3>1. mid[j] = segs[j] /\ j \in 1 .. Len(segs) /\ ~ Before(segs[j], segs[n])
      BY <2>3, <1>2, <1>5, <1>6 DEF Ordered
    <3> QED
      BY <3>1, <2>1, <2>3, <1>3, <1>4, <1>6 DEF Before
  <2>4. CASE i # n /\ j # n
    <3>1. mid[i] = segs[i] /\ mid[j] = segs[j] /\ i \in 1 .. Len(segs) /\ j \in 1 .. Len(segs)
      BY <2>4, <1>2, <1>5, <1>6
    <3> QED
      BY <3>1, <1>5 DEF Ordered
  <2> QED
    BY <2>2, <2>3, <2>4, Zenon
<1>7. CASE /\ Len(mid) = Len(segs) + 1
           /\ mid[n] = seg
           /\ \A k \in n + 1 .. Len(mid) : mid[k] = segs[k - 1]
  <2>1. CASE j < n
    <3>1. mid[i] = segs[i] /\ mid[j] = segs[j] /\ i \in 1 .. Len(segs) /\ j \in 1 .. Len(segs)
      BY <2>1, <1>1, <1>2, <1>5
    <3> QED
      BY <3>1, <1>5 DEF Ordered
  <2>2. CASE j = n
    <3>1. mid[i] = segs[i] /\ Before(segs[i], seg) /\ i \in 1 .. Len(segs)
      BY <2>2, <1>1, <1>2, <1>5
    <3> QED
      BY <3>1, <2>2, <1>3, <1>4, <1>7 DEF Before
  <2>3. CASE j > n /\ i = n
    <3>1. mid[j] = segs[j - 1] /\ j - 1 \in n .. Len(segs) /\ n \in 1 .. Len(segs)
      BY <2>3, <1>1, <1>7
    <3>2. ~ Before(segs[n], seg)
      BY <3>1, <1>1
    <3>3. j - 1 = n \/ ~ Before(segs[j - 1], segs[n])
      BY <3>1, <1>1 DEF Ordered
    <3> QED
      BY <3>1, <3>2, <3>3, <2>3, <1>3, <1>4, <1>7, SMTT(30) DEF Before
  <2>4. CASE j > n /\ i < n
    <3>1. mid[i] = segs[i] /\ mid[j] = segs[j - 1] /\ i \in 1 .. Len(segs) /\ j - 1 \in 1 .. Len(segs) /\ i < j - 1
      BY <2>4, <1>1, <1>2, <1>5, <1>7
    <3> QED
      BY <3>1 DEF Ordered
  <2>5. CASE j > n /\ i > n
    <3>1. mid[i] = segs[i - 1] /\ mid[j] = segs[j - 1] /\ i - 1 \in 1 .. Len(segs) /\ j - 1 \in 1 .. Len(segs) /\ i - 1 < j - 1
      BY <2>5, <1>1, <1>2, <1>5, <1>7
    <3> QED
      BY <3>1 DEF Ordered
  <2>6. j < n \/ j = n \/ (j > n /\ i = n) \/ (j > n /\ i < n) \/ (j > n /\ i > n)
    BY <1>1
  <2> QED
    BY <2>1, <2>2, <2>3, <2>4, <2>5, <2>6, Zenon
<1> QED
  BY <1>2, <1>6, <1>7, Zenon

LEMMA MergePreviousOrdered ==
  ASSUME NEW m \in Nat, NEW mid \in Seq(Segs(m)), NEW seg \in Segs(m),
         NEW n \in 1 .. Len(mid), mid[n][1] = seg[1], Ordered(mid)
  PROVE  Ordered(MergePrevious(mid, n, seg))
<1> DEFINE out == MergePrevious(mid, n, seg)
<1>1. Merged(m, mid, n, seg, out)
  BY MergePreviousIs
<1> HIDE DEF out
<1>2. CASE out = mid
  BY <1>2 DEF out
<1>3. CASE /\ n > 1 /\ mid[n - 1][2] = seg[1]
           /\ out \in Seq(Segs(m)) /\ Len(out) = Len(mid) - 1
           /\ out[n - 1] = <<mid[n - 1][1], mid[n][2]>>
           /\ \A j \in 1 .. n - 2 : out[j] = mid[j]
           /\ \A j \in n .. Len(out) : out[j] = mid[j + 1]
  <2>1. SUFFICES ASSUME NEW i \in 1 .. Len(out), NEW j \in 1 .. Len(out), i < j
                 PROVE  ~ Before(out[j], out[i])
    BY DEF Ordered, out
  <2>2. \A k \in 1 .. Len(mid) : mid[k][1] \in Int /\ mid[k][2] \in Int /\ mid[k][1] < mid[k][2]
    BY SegsArePairs
  <2>3. CASE j < n - 1
    <3>1. out[i] = mid[i] /\ out[j] = mid[j] /\ i \in 1 .. Len(mid) /\ j \in 1 .. Len(mid)
      BY <1>3, <2>1, <2>3
    <3> QED
      BY <3>1, <2>1 DEF Ordered
  <2>4. CASE j = n - 1
    <3>1. out[i] = mid[i] /\ i \in 1 .. Len(mid) /\ i < n - 1 /\ n - 1 \in 1 .. Len(mid)
      <4>1. i \in 1 .. n - 2 /\ i < n - 1
        BY <2>1, <2>4
      <4>2. i \in 1 .. Len(mid) /\ n - 1 \in 1 .. Len(mid)
        BY <4>1, <1>3
      <4> QED
        BY <4>1, <4>2, <1>3
    <3>2. ~ Before(mid[n - 1], mid[i])
      BY <3>1 DEF Ordered
    <3>3. out[j][1] = mid[n - 1][1] /\ out[j][2] = mid[n][2] /\ mid[n][2] > mid[n - 1][2]
      BY <1>3, <2>2, <2>4, <3>1
    <3>4. /\ mid[i][1] \in Int /\ mid[i][2] \in Int
          /\ mid[n - 1][1] \in Int /\ mid[n - 1][2] \in Int /\ mid[n][2] \in Int
      BY <3>1, <2>2
    <3>5. \/ mid[i][1] < mid[n - 1][1]
          \/ mid[i][1] = mid[n - 1][1] /\ mid[i][2] <= mid[n - 1][2]
      BY <3>2, <3>4, SMTT(30) DEF Before
    <3>6. out[i][1] = mid[i][1] /\ out[i][2] = mid[i][2]
      BY <3>1
    <3>7. \/ out[i][1] < out[j][1]
          \/ out[i][1] = out[j][1] /\ out[i][2] < out[j][2]
      BY <3>3, <3>4, <3>5, <3>6
    <3>8. out[i][1] \in Int /\ out[i][2] \in Int /\ out[j][1] \in Int /\ out[j][2] \in Int
      BY <3>3, <3>4, <3>6
    <3> QED
      BY <3>7, <3>8 DEF Before
  <2>5. CASE i < n - 1 /\ j > n - 1
    <3>1. out[i] = mid[i] /\ out[j] = mid[j + 1] /\ i \in 1 .. Len(mid) /\ j + 1 \in 1 .. Len(mid) /\ i < j + 1
      BY <1>3, <2>1, <2>5
    <3> QED
      BY <3>1 DEF Ordered
  <2>6. CASE i = n - 1
    <3>1. out[j] = mid[j + 1] /\ j + 1 \in 1 .. Len(mid) /\ n < j + 1 /\ n - 1 \in 1 .. Len(mid)
      BY <1>3, <2>1, <2>6
    <3>2. ~ Before(mid[j + 1], mid[n])
      BY <3>1 DEF Ordered
    <3>3. out[i][1] = mid[n - 1][1] /\ mid[n - 1][1] < mid[n][1]
      BY <1>3, <2>2, <2>6, <3>1
    <3>4. mid[n][1] \in Int /\ mid[n - 1][1] \in Int /\ mid[j + 1][1] \in Int
      BY <3>1, <2>2
    <3>5. mid[n][1] <= mid[j + 1][1]
      BY <3>2, <3>4 DEF Before
    <3>6. out[i][1] < out[j][1] /\ out[i][1] \in Int /\ out[j][1] \in Int
      BY <3>1, <3>3, <3>4, <3>5
    <3> QED
      BY <3>6 DEF Before
  <2>7. CASE i > n - 1
    <3>1. out[i] = mid[i + 1] /\ out[j] = mid[j + 1] /\ i + 1 \in 1 .. Len(mid) /\ j + 1 \in 1 .. Len(mid) /\ i + 1 < j + 1
      BY <1>3, <2>1, <2>7
    <3> QED
      BY <3>1 DEF Ordered
  <2>8. j < n - 1 \/ j = n - 1 \/ (i < n - 1 /\ j > n - 1) \/ i = n - 1 \/ i > n - 1
    BY <2>1
  <2> QED
    BY <2>3, <2>4, <2>5, <2>6, <2>7, <2>8, Zenon
<1> QED
  BY <1>1, <1>2, <1>3, Zenon DEF Merged

LEMMA AddSegmentOrdered ==
  ASSUME NEW m \in Nat, NEW segs \in Seq(Segs(m)), NEW seg \in Segs(m), Ordered(segs)
  PROVE  Ordered(AddSegment(segs, seg))
<1> DEFINE n == LowerBound(segs, seg)
           mid == InsertOrExtend(segs, n, seg)
<1>1. n \in 1 .. Len(segs) + 1
  BY LowerBoundInSegs
<1>2. Ordered(mid)
  BY InsertOrExtendOrdered
<1> HIDE DEF n
<1>3. Placed(m, segs, n, seg, mid)
  BY <1>1, InsertOrExtendIs
<1> HIDE DEF mid
<1>4. mid \in Seq(Segs(m)) /\ n \in 1 .. Len(mid) /\ mid[n][1] = seg[1]
  BY <1>3 DEF Placed
<1>5. Ordered(MergePrevious(mid, n, seg))
  BY <1>2, <1>4, MergePreviousOrdered
<1> QED
  BY <1>5 DEF AddSegment, mid, n

-----------------------------------------------------------------------------
(***************************************************************************)
(* addSegment adds the bytes of the segment, loses none, and claims no     *)
(* other.                                                                  *)
(***************************************************************************)
Claimed(segs) == UNION {Bytes(segs[i]) : i \in 1 .. Len(segs)}

LEMMA ClaimedIs ==
  ASSUME NEW segs, NEW b
  PROVE  b \in Claimed(segs) <=> \E i \in 1 .. Len(segs) : b \in Bytes(segs[i])
  BY DEF Claimed

LEMMA BytesAre ==
  ASSUME NEW m \in Nat, NEW s \in Segs(m), NEW b
  PROVE  b \in Bytes(s) <=> b \in Int /\ s[1] <= b /\ b < s[2]
  BY SegsArePairs DEF Bytes

LEMMA PlacedClaims ==
  ASSUME NEW m \in Nat, NEW segs \in Seq(Segs(m)), NEW seg \in Segs(m),
         NEW n \in 1 .. Len(segs) + 1, NEW mid, Placed(m, segs, n, seg, mid)
  PROVE  Claimed(mid) = Claimed(segs) \cup Bytes(seg)
<1>1. /\ mid \in Seq(Segs(m)) /\ n \in 1 .. Len(mid)
      /\ \A j \in 1 .. n - 1 : mid[j] = segs[j]
  BY DEF Placed
<1>2. \A j \in 1 .. Len(segs) : segs[j] \in Segs(m)
  OBVIOUS
<1>3. CASE /\ n <= Len(segs) /\ segs[n][1] = seg[2] /\ Len(mid) = Len(segs)
           /\ mid[n] = <<seg[1], segs[n][2]>>
           /\ \A j \in n + 1 .. Len(mid) : mid[j] = segs[j]
  <2>1. \A j \in 1 .. Len(segs) : j # n => mid[j] = segs[j]
    BY <1>1, <1>3
  <2>2. Bytes(mid[n]) = Bytes(segs[n]) \cup Bytes(seg)
    <3>1. /\ segs[n] \in Segs(m) /\ mid[n] \in Segs(m)
          /\ mid[n][1] = seg[1] /\ mid[n][2] = segs[n][2]
      <4>1. n \in 1 .. Len(segs)
        BY <1>3
      <4>2. segs[n] \in Segs(m)
        BY <4>1, <1>2
      <4>3. mid[n] \in Segs(m)
        BY <1>1, ElementOfSeq
      <4>4. mid[n][1] = seg[1] /\ mid[n][2] = segs[n][2]
        BY <1>3
      <4> QED
        BY <4>2, <4>3, <4>4
    <3>2. seg[1] < seg[2] /\ seg[2] < segs[n][2] /\ seg[1] \in Int /\ seg[2] \in Int /\ segs[n][2] \in Int
      BY <3>1, <1>3, SegsArePairs
    <3> QED
      BY <3>1, <3>2, <1>3 DEF Bytes
  <2>3. \A b : (\E j \in 1 .. Len(mid) : b \in Bytes(mid[j]))
                 <=> (\E j \in 1 .. Len(segs) : b \in Bytes(segs[j])) \/ b \in Bytes(seg)
    BY <2>1, <2>2, <1>1, <1>3
  <2> QED
    BY <2>3, ClaimedIs
<1>4. CASE /\ Len(mid) = Len(segs) + 1
           /\ mid[n] = seg
           /\ \A j \in n + 1 .. Len(mid) : mid[j] = segs[j - 1]
  <2>1. ASSUME NEW b, NEW j \in 1 .. Len(mid), b \in Bytes(mid[j])
        PROVE  b \in Claimed(segs) \cup Bytes(seg)
    <3>1. CASE j < n
      BY <3>1, <2>1, <1>1, <1>4, ClaimedIs
    <3>2. CASE j = n
      BY <3>2, <2>1, <1>4
    <3>3. CASE j > n
      <4>1. mid[j] = segs[j - 1] /\ j - 1 \in 1 .. Len(segs)
        BY <3>3, <1>1, <1>4
      <4> QED
        BY <4>1, <2>1, ClaimedIs
    <3>4. j < n \/ j = n \/ j > n
      OBVIOUS
    <3> QED
      BY <3>1, <3>2, <3>3, <3>4, Zenon
  <2>2. ASSUME NEW b, NEW j \in 1 .. Len(segs), b \in Bytes(segs[j])
        PROVE  b \in Claimed(mid)
    <3>1. CASE j < n
      <4>1. mid[j] = segs[j] /\ j \in 1 .. Len(mid)
        BY <3>1, <1>1, <1>4
      <4> QED
        BY <4>1, <2>2, ClaimedIs
    <3>2. CASE j >= n
      <4>1. j + 1 \in n + 1 .. Len(mid) /\ j + 1 \in 1 .. Len(mid) /\ (j + 1) - 1 = j
        BY <3>2, <1>1, <1>4
      <4>2. mid[j + 1] = segs[j]
        BY <4>1, <1>4
      <4> QED
        BY <4>1, <4>2, <2>2, ClaimedIs
    <3>3. j < n \/ j >= n
      OBVIOUS
    <3> QED
      BY <3>1, <3>2, <3>3, Zenon
  <2>3. \A b : b \in Bytes(seg) => b \in Claimed(mid)
    BY <1>1, <1>4, ClaimedIs
  <2> QED
    BY <2>1, <2>2, <2>3, ClaimedIs
<1> QED
  BY <1>3, <1>4, Zenon DEF Placed

LEMMA MergedClaims ==
  ASSUME NEW m \in Nat, NEW mid \in Seq(Segs(m)), NEW seg \in Segs(m),
         NEW n \in 1 .. Len(mid), mid[n][1] = seg[1],
         NEW out, Merged(m, mid, n, seg, out)
  PROVE  Claimed(out) = Claimed(mid)
<1>1. CASE out = mid
  BY <1>1
<1>2. CASE /\ n > 1 /\ mid[n - 1][2] = seg[1]
           /\ out \in Seq(Segs(m)) /\ Len(out) = Len(mid) - 1
           /\ out[n - 1] = <<mid[n - 1][1], mid[n][2]>>
           /\ \A j \in 1 .. n - 2 : out[j] = mid[j]
           /\ \A j \in n .. Len(out) : out[j] = mid[j + 1]
  <2>1. n - 1 \in 1 .. Len(mid) /\ n - 1 \in 1 .. Len(out)
    BY <1>2
  <2>2. Bytes(out[n - 1]) = Bytes(mid[n - 1]) \cup Bytes(mid[n])
    <3>1. mid[n] \in Segs(m) /\ mid[n - 1] \in Segs(m)
      BY <2>1
    <3>2. out[n - 1][1] = mid[n - 1][1] /\ out[n - 1][2] = mid[n][2]
      BY <1>2
    <3>3. /\ mid[n - 1][1] \in Int /\ mid[n - 1][2] \in Int /\ mid[n - 1][1] < mid[n - 1][2]
          /\ mid[n][1] \in Int /\ mid[n][2] \in Int /\ mid[n][1] < mid[n][2]
          /\ mid[n - 1][2] = mid[n][1]
      BY <3>1, <1>2, SegsArePairs
    <3> QED
      BY <3>2, <3>3 DEF Bytes
  <2>3. ASSUME NEW b, NEW j \in 1 .. Len(out), b \in Bytes(out[j])
        PROVE  b \in Claimed(mid)
    <3>1. CASE j < n - 1
      <4>1. out[j] = mid[j] /\ j \in 1 .. Len(mid)
        BY <3>1, <2>1, <1>2
      <4> QED
        BY <4>1, <2>3, ClaimedIs
    <3>2. CASE j = n - 1
      BY <3>2, <2>1, <2>2, <2>3, ClaimedIs
    <3>3. CASE j > n - 1
      <4>1. out[j] = mid[j + 1] /\ j + 1 \in 1 .. Len(mid)
        BY <3>3, <2>1, <1>2
      <4> QED
        BY <4>1, <2>3, ClaimedIs
    <3>4. j < n - 1 \/ j = n - 1 \/ j > n - 1
      OBVIOUS
    <3> QED
      BY <3>1, <3>2, <3>3, <3>4, Zenon
  <2>4. ASSUME NEW b, NEW j \in 1 .. Len(mid), b \in Bytes(mid[j])
        PROVE  b \in Claimed(out)
    <3>1. CASE j < n - 1
      <4>1. out[j] = mid[j] /\ j \in 1 .. Len(out)
        BY <3>1, <2>1, <1>2
      <4> QED
        BY <4>1, <2>4, ClaimedIs
    <3>2. CASE j = n - 1 \/ j = n
      BY <3>2, <2>1, <2>2, <2>4, ClaimedIs
    <3>3. CASE j > n
      <4>1. j - 1 \in n .. Len(out) /\ j - 1 \in 1 .. Len(out) /\ (j - 1) + 1 = j
        BY <3>3, <2>1, <1>2
      <4>2. out[j - 1] = mid[j]
        BY <4>1, <1>2
      <4> QED
        BY <4>1, <4>2, <2>4, ClaimedIs
    <3>4. j < n - 1 \/ (j = n - 1 \/ j = n) \/ j > n
      OBVIOUS
    <3> QED
      BY <3>1, <3>2, <3>3, <3>4, Zenon
  <2> QED
    BY <2>3, <2>4, ClaimedIs
<1> QED
  BY <1>1, <1>2, Zenon DEF Merged

LEMMA AddSegmentClaims ==
  ASSUME NEW m \in Nat, NEW segs \in Seq(Segs(m)), NEW seg \in Segs(m)
  PROVE  Claimed(AddSegment(segs, seg)) = Claimed(segs) \cup Bytes(seg)
<1> DEFINE n == LowerBound(segs, seg)
           mid == InsertOrExtend(segs, n, seg)
           out == MergePrevious(mid, n, seg)
<1>1. n \in 1 .. Len(segs) + 1
  BY LowerBoundInSegs
<1>2. AddSegment(segs, seg) = out
  BY DEF AddSegment
<1> HIDE DEF n
<1>3. Placed(m, segs, n, seg, mid)
  BY <1>1, InsertOrExtendIs
<1> HIDE DEF mid
<1>4. mid \in Seq(Segs(m)) /\ n \in 1 .. Len(mid) /\ mid[n][1] = seg[1]
  BY <1>3 DEF Placed
<1>5. Merged(m, mid, n, seg, out)
  BY <1>4, MergePreviousIs
<1> HIDE DEF out
<1>6. Claimed(out) = Claimed(mid)
  BY <1>4, <1>5, MergedClaims
<1>7. Claimed(mid) = Claimed(segs) \cup Bytes(seg)
  BY <1>1, <1>3, PlacedClaims
<1> QED
  BY <1>2, <1>6, <1>7

LEMMA BytesAvailableIs ==
  ASSUME NEW m \in Nat, NEW segs \in Seq(Segs(m))
  PROVE  /\ BytesAvailable(segs) \in 0 .. m
         /\ 0 .. BytesAvailable(segs) - 1 \subseteq Claimed(segs)
<1>1. CASE segs = <<>> \/ segs[1][1] # 0
  BY <1>1 DEF BytesAvailable
<1>2. CASE ~ (segs = <<>> \/ segs[1][1] # 0)
  <2>1. 1 \in 1 .. Len(segs) /\ segs[1] \in Segs(m)
    BY <1>2
  <2>2. segs[1][1] = 0 /\ segs[1][2] \in 0 .. m
    BY <1>2, <2>1 DEF Segs
  <2>3. BytesAvailable(segs) = segs[1][2]
    BY <1>2, <2>2 DEF BytesAvailable
  <2>4. Bytes(segs[1]) = 0 .. BytesAvailable(segs) - 1
    BY <2>2, <2>3 DEF Bytes
  <2> QED
    BY <2>1, <2>2, <2>3, <2>4, ClaimedIs
<1> QED
  BY <1>1, <1>2, Zenon

-----------------------------------------------------------------------------
(***************************************************************************)
(* As long as the bytes added are new, the segments are apart.             *)
(***************************************************************************)
Gapped(segs) == \A i, j \in 1 .. Len(segs) : i < j => segs[i][2] < segs[j][1]

LEMMA DisjointSegments ==
  ASSUME NEW m \in Nat, NEW s \in Segs(m), NEW t \in Segs(m), Bytes(s) \cap Bytes(t) = {}
  PROVE  s[2] <= t[1] \/ t[2] <= s[1]
<1>1. /\ s[1] \in Int /\ s[2] \in Int /\ s[1] < s[2]
      /\ t[1] \in Int /\ t[2] \in Int /\ t[1] < t[2]
  BY SegsArePairs
<1>2. s[1] \in Bytes(s) /\ t[1] \in Bytes(t)
  BY <1>1 DEF Bytes
<1>3. s[1] \notin Bytes(t) /\ t[1] \notin Bytes(s)
  BY <1>2
<1> QED
  BY <1>1, <1>3 DEF Bytes

\* Where a new segment belongs in a list whose segments are apart.
LEMMA NewSegmentPlace ==
  ASSUME NEW m \in Nat, NEW segs \in Seq(Segs(m)), NEW seg \in Segs(m), Gapped(segs),
         Bytes(seg) \cap Claimed(segs) = {},
         NEW n \in 1 .. Len(segs) + 1,
         n <= Len(segs) => ~ Before(segs[n], seg),
         \A j \in 1 .. n - 1 : Before(segs[j], seg)
  PROVE  /\ \A j \in 1 .. n - 1 : segs[j][2] <= seg[1] /\ (j < n - 1 => segs[j][2] < seg[1])
         /\ \A j \in n .. Len(segs) : seg[2] <= segs[j][1] /\ (j > n => seg[2] < segs[j][1])
<1>1. \A j \in 1 .. Len(segs) :
        segs[j] \in Segs(m) /\ segs[j][1] \in Int /\ segs[j][2] \in Int /\ segs[j][1] < segs[j][2]
  BY SegsArePairs
<1>2. seg[1] \in Int /\ seg[2] \in Int /\ seg[1] < seg[2]
  BY SegsArePairs
<1>3. \A j \in 1 .. Len(segs) : segs[j][2] <= seg[1] \/ seg[2] <= segs[j][1]
  <2>1. \A j \in 1 .. Len(segs) : Bytes(segs[j]) \cap Bytes(seg) = {}
    BY ClaimedIs
  <2> QED
    BY <1>1, <2>1, DisjointSegments
<1>4. ASSUME NEW j \in 1 .. n - 1
      PROVE  segs[j][2] <= seg[1]
  <2>1. j \in 1 .. Len(segs) /\ Before(segs[j], seg)
    OBVIOUS
  <2>2. segs[j][1] <= seg[1]
    BY <1>1, <1>2, <2>1 DEF Before
  <2> QED
    BY <1>1, <1>2, <1>3, <2>1, <2>2
<1>5. ASSUME NEW j \in 1 .. n - 1, j < n - 1
      PROVE  segs[j][2] < seg[1]
  <2>1. n - 1 \in 1 .. Len(segs) /\ j \in 1 .. Len(segs) /\ n - 1 \in 1 .. n - 1
    BY <1>5
  <2>2. segs[j][2] < segs[n - 1][1]
    BY <1>5, <2>1 DEF Gapped
  <2>3. segs[n - 1][2] <= seg[1]
    BY <1>4, <2>1
  <2> QED
    BY <1>1, <1>2, <2>1, <2>2, <2>3
<1>6. ASSUME n <= Len(segs)
      PROVE  seg[2] <= segs[n][1]
  <2>1. n \in 1 .. Len(segs) /\ ~ Before(segs[n], seg)
    BY <1>6
  <2>2. seg[1] <= segs[n][1]
    BY <1>1, <1>2, <2>1 DEF Before
  <2> QED
    BY <1>1, <1>2, <1>3, <2>1, <2>2
<1>7. ASSUME NEW j \in n .. Len(segs), j > n
      PROVE  seg[2] < segs[j][1]
  <2>1. n \in 1 .. Len(segs) /\ j \in 1 .. Len(segs)
    BY <1>7
  <2>2. segs[n][2] < segs[j][1]
    BY <1>7, <2>1 DEF Gapped
  <2>3. seg[2] <= segs[n][1]
    BY <1>6, <2>1
  <2> QED
    BY <1>1, <1>2, <2>1, <2>2, <2>3
<1>8. ASSUME NEW j \in n .. Len(segs)
      PROVE  seg[2] <= segs[j][1]
  <2>1. j \in 1 .. Len(segs) /\ n <= Len(segs) /\ (j = n \/ j > n)
    OBVIOUS
  <2> QED
    BY <1>1, <1>2, <1>6, <1>7, <2>1
<1> QED
  BY <1>4, <1>5, <1>7, <1>8

\* The segment that is placed may touch the one before it, and no other.
LEMMA PlacedGapped ==
  ASSUME NEW m \in Nat, NEW segs \in Seq(Segs(m)), NEW seg \in Segs(m), Gapped(segs),
         NEW n \in 1 .. Len(segs) + 1,
         \A j \in 1 .. n - 1 : segs[j][2] <= seg[1] /\ (j < n - 1 => segs[j][2] < seg[1]),
         \A j \in n .. Len(segs) : seg[2] <= segs[j][1] /\ (j > n => seg[2] < segs[j][1]),
         NEW mid, Placed(m, segs, n, seg, mid)
  PROVE  \A i, j \in 1 .. Len(mid) : i < j /\ ~ (i = n - 1 /\ j = n) => mid[i][2] < mid[j][1]
<1>1. /\ mid \in Seq(Segs(m)) /\ n \in 1 .. Len(mid)
      /\ \A j \in 1 .. n - 1 : mid[j] = segs[j]
  BY DEF Placed
<1>2. seg[1] \in Int /\ seg[2] \in Int /\ seg[1] < seg[2]
  BY SegsArePairs
<1>3. \A j \in 1 .. Len(segs) : segs[j][1] \in Int /\ segs[j][2] \in Int /\ segs[j][1] < segs[j][2]
  BY SegsArePairs
<1>4. SUFFICES ASSUME NEW i \in 1 .. Len(mid), NEW j \in 1 .. Len(mid), i < j,
                      ~ (i = n - 1 /\ j = n)
               PROVE  mid[i][2] < mid[j][1]
  OBVIOUS
<1>5. CASE /\ n <= Len(segs) /\ segs[n][1] = seg[2] /\ Len(mid) = Len(segs)
           /\ mid[n] = <<seg[1], segs[n][2]>>
           /\ \A k \in n + 1 .. Len(mid) : mid[k] = segs[k]
  <2>1. \A k \in 1 .. Len(mid) : k # n => mid[k] = segs[k]
    BY <1>1, <1>5
  <2>2. i \in 1 .. Len(segs) /\ j \in 1 .. Len(segs) /\ segs[i][2] < segs[j][1]
    BY <1>4, <1>5 DEF Gapped
  <2>3. mid[i][2] = segs[i][2]
    BY <2>1, <1>5, SMTT(30)
  <2>4. CASE j = n
    <3>1. i \in 1 .. n - 1 /\ i < n - 1
      BY <2>4, <1>4
    <3>2. segs[i][2] < seg[1]
      BY <3>1
    <3> QED
      BY <2>3, <2>4, <3>2, <1>5
  <2>5. CASE j # n
    BY <2>1, <2>2, <2>3, <2>5
  <2> QED
    BY <2>4, <2>5
<1>6. CASE /\ n <= Len(segs) => segs[n][1] # seg[2]
           /\ Len(mid) = Len(segs) + 1
           /\ mid[n] = seg
           /\ \A k \in n + 1 .. Len(mid) : mid[k] = segs[k - 1]
  <2>1. CASE j < n
    <3>1. i \in 1 .. n - 1 /\ j \in 1 .. n - 1 /\ i \in 1 .. Len(segs) /\ j \in 1 .. Len(segs)
      BY <2>1, <1>4, <1>6, <1>1
    <3>2. mid[i] = segs[i] /\ mid[j] = segs[j] /\ segs[i][2] < segs[j][1]
      BY <3>1, <1>1, <1>4 DEF Gapped
    <3> QED
      BY <3>2
  <2>2. CASE j = n
    <3>1. i \in 1 .. n - 1 /\ i < n - 1
      BY <2>2, <1>4
    <3>2. segs[i][2] < seg[1] /\ mid[i] = segs[i]
      BY <3>1, <1>1
    <3> QED
      BY <2>2, <3>2, <1>6
  <2>3. CASE j > n /\ i = n
    <3>1. mid[j] = segs[j - 1] /\ j - 1 \in n .. Len(segs) /\ j - 1 \in 1 .. Len(segs) /\ n \in 1 .. Len(segs)
      BY <2>3, <1>6
    <3>2. seg[2] <= segs[j - 1][1] /\ (j - 1 > n => seg[2] < segs[j - 1][1])
      BY <3>1
    <3>3. j - 1 = n => segs[j - 1][1] # seg[2]
      BY <3>1, <1>6
    <3>4. seg[2] < segs[j - 1][1]
      <4>1. j - 1 = n \/ j - 1 > n
        BY <3>1
      <4>2. segs[j - 1][1] \in Int
        BY <3>1, <1>3
      <4> QED
        BY <4>1, <4>2, <3>2, <3>3, <1>2
    <3> QED
      BY <2>3, <3>1, <3>4, <1>6
  <2>4. CASE j > n /\ i < n
    <3>1. /\ mid[i] = segs[i] /\ mid[j] = segs[j - 1] /\ i < j - 1
          /\ i \in 1 .. Len(segs) /\ j - 1 \in 1 .. Len(segs)
      BY <2>4, <1>1, <1>4, <1>6
    <3> QED
      BY <3>1 DEF Gapped
  <2>5. CASE j > n /\ i > n
    <3>1. /\ mid[i] = segs[i - 1] /\ mid[j] = segs[j - 1] /\ i - 1 < j - 1
          /\ i - 1 \in 1 .. Len(segs) /\ j - 1 \in 1 .. Len(segs)
      BY <2>5, <1>1, <1>4, <1>6
    <3> QED
      BY <3>1 DEF Gapped
  <2>6. j < n \/ j = n \/ (j > n /\ i = n) \/ (j > n /\ i < n) \/ (j > n /\ i > n)
    BY <1>1
  <2> QED
    BY <2>1, <2>2, <2>3, <2>4, <2>5, <2>6, Zenon
<1> QED
  BY <1>5, <1>6, Zenon DEF Placed

LEMMA MergedGapped ==
  ASSUME NEW m \in Nat, NEW mid \in Seq(Segs(m)), NEW seg \in Segs(m),
         NEW n \in 1 .. Len(mid), mid[n][1] = seg[1],
         \A j \in 1 .. n - 1 : mid[j][2] <= seg[1],
         \A i, j \in 1 .. Len(mid) : i < j /\ ~ (i = n - 1 /\ j = n) => mid[i][2] < mid[j][1],
         NEW out, Merged(m, mid, n, seg, out)
  PROVE  Gapped(out)
<1>1. \A j \in 1 .. Len(mid) : mid[j][1] \in Int /\ mid[j][2] \in Int /\ mid[j][1] < mid[j][2]
  BY SegsArePairs
<1>2. seg[1] \in Int
  BY SegsArePairs
<1>3. CASE out = mid /\ (n > 1 => mid[n - 1][2] # seg[1])
  <2>1. ASSUME n > 1
        PROVE  mid[n - 1][2] < mid[n][1]
    <3>1. n - 1 \in 1 .. n - 1 /\ n - 1 \in 1 .. Len(mid)
      BY <2>1
    <3>2. mid[n - 1][2] <= seg[1] /\ mid[n - 1][2] # seg[1] /\ mid[n - 1][2] \in Int
      BY <2>1, <3>1, <1>3, <1>1
    <3> QED
      BY <3>2, <1>2
  <2>2. \A i, j \in 1 .. Len(mid) : i < j => (i = n - 1 /\ j = n /\ n > 1) \/ mid[i][2] < mid[j][1]
    OBVIOUS
  <2> QED
    BY <1>3, <2>1, <2>2 DEF Gapped
<1>4. CASE /\ n > 1 /\ mid[n - 1][2] = seg[1]
           /\ out \in Seq(Segs(m)) /\ Len(out) = Len(mid) - 1
           /\ out[n - 1] = <<mid[n - 1][1], mid[n][2]>>
           /\ \A j \in 1 .. n - 2 : out[j] = mid[j]
           /\ \A j \in n .. Len(out) : out[j] = mid[j + 1]
  <2>1. SUFFICES ASSUME NEW i \in 1 .. Len(out), NEW j \in 1 .. Len(out), i < j
                 PROVE  out[i][2] < out[j][1]
    BY DEF Gapped
  <2>2. n - 1 \in 1 .. Len(mid) /\ n - 1 \in Nat
    BY <1>4
  <2>3. CASE j < n - 1
    <3>1. /\ out[i] = mid[i] /\ out[j] = mid[j] /\ ~ (i = n - 1 /\ j = n)
          /\ i \in 1 .. Len(mid) /\ j \in 1 .. Len(mid)
      BY <1>4, <2>1, <2>3
    <3> QED
      BY <3>1, <2>1
  <2>4. CASE j = n - 1
    <3>1. /\ out[i] = mid[i] /\ i \in 1 .. Len(mid) /\ i < n - 1 /\ ~ (i = n - 1 /\ n - 1 = n)
      <4>1. i \in 1 .. n - 2 /\ i < n - 1
        BY <2>1, <2>4
      <4>2. i \in 1 .. Len(mid)
        BY <4>1, <1>4
      <4> QED
        BY <4>1, <4>2, <1>4
    <3>2. mid[i][2] < mid[n - 1][1]
      BY <3>1, <2>2
    <3> QED
      BY <3>1, <3>2, <2>4, <1>4
  <2>5. CASE i < n - 1 /\ j > n - 1
    <3>1. /\ out[i] = mid[i] /\ out[j] = mid[j + 1] /\ i < j + 1 /\ ~ (i = n - 1 /\ j + 1 = n)
          /\ i \in 1 .. Len(mid) /\ j + 1 \in 1 .. Len(mid)
      BY <1>4, <2>1, <2>5
    <3> QED
      BY <3>1
  <2>6. CASE i = n - 1
    <3>1. /\ out[j] = mid[j + 1] /\ n < j + 1 /\ j + 1 \in 1 .. Len(mid) /\ ~ (n = n - 1 /\ j + 1 = n)
      BY <1>4, <2>1, <2>6
    <3>2. mid[n][2] < mid[j + 1][1]
      BY <3>1
    <3> QED
      BY <3>1, <3>2, <2>6, <1>4
  <2>7. CASE i > n - 1
    <3>1. /\ out[i] = mid[i + 1] /\ out[j] = mid[j + 1] /\ i + 1 < j + 1
          /\ ~ (i + 1 = n - 1 /\ j + 1 = n)
          /\ i + 1 \in 1 .. Len(mid) /\ j + 1 \in 1 .. Len(mid)
      BY <1>4, <2>1, <2>7
    <3> QED
      BY <3>1
  <2>8. j < n - 1 \/ j = n - 1 \/ (i < n - 1 /\ j > n - 1) \/ i = n - 1 \/ i > n - 1
    BY <2>1
  <2> QED
    BY <2>3, <2>4, <2>5, <2>6, <2>7, <2>8, Zenon
<1> QED
  BY <1>3, <1>4, Zenon DEF Merged

LEMMA AddSegmentGapped ==
  ASSUME NEW m \in Nat, NEW segs \in Seq(Segs(m)), NEW seg \in Segs(m), Gapped(segs),
         Bytes(seg) \cap Claimed(segs) = {}
  PROVE  Gapped(AddSegment(segs, seg))
<1> DEFINE n == LowerBound(segs, seg)
           mid == InsertOrExtend(segs, n, seg)
           out == MergePrevious(mid, n, seg)
<1>1. /\ n \in 1 .. Len(segs) + 1
      /\ n <= Len(segs) => ~ Before(segs[n], seg)
      /\ \A j \in 1 .. n - 1 : Before(segs[j], seg)
  BY LowerBoundInSegs
<1>2. AddSegment(segs, seg) = out
  BY DEF AddSegment
<1> HIDE DEF n
<1>3. Placed(m, segs, n, seg, mid)
  BY <1>1, InsertOrExtendIs
<1> HIDE DEF mid
<1>4. /\ \A j \in 1 .. n - 1 : segs[j][2] <= seg[1] /\ (j < n - 1 => segs[j][2] < seg[1])
      /\ \A j \in n .. Len(segs) : seg[2] <= segs[j][1] /\ (j > n => seg[2] < segs[j][1])
  BY <1>1, NewSegmentPlace
<1>5. \A i, j \in 1 .. Len(mid) : i < j /\ ~ (i = n - 1 /\ j = n) => mid[i][2] < mid[j][1]
  BY <1>1, <1>3, <1>4, PlacedGapped
<1>6. /\ mid \in Seq(Segs(m)) /\ n \in 1 .. Len(mid) /\ mid[n][1] = seg[1]
      /\ \A j \in 1 .. n - 1 : mid[j][2] <= seg[1]
  BY <1>3, <1>4 DEF Placed
<1>7. Merged(m, mid, n, seg, out)
  BY <1>6, MergePreviousIs
<1> HIDE DEF out
<1> QED
  BY <1>2, <1>5, <1>6, <1>7, MergedGapped
=============================================================================
