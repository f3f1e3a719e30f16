-------------------- MODULE FlatPieceMemoryStorage_proofs --------------------
(***************************************************************************)
(* What holds of FlatPieceMemoryStorage for every piece length, cache      *)
(* size, file, and choice of blocks, reads and seeks: in every             *)
(* interleaving of the two threads first, then in those where no slot      *)
(* changes under a write(), and last what the loops of its code compute.   *)
(***************************************************************************)
EXTENDS FlatPieceLoops, ByteRange_proofs

-----------------------------------------------------------------------------
(***************************************************************************)
(* Arithmetic.                                                             *)
(***************************************************************************)

LEMMA DivMod ==
  ASSUME NEW a \in Nat, NEW b \in Nat \ {0}
  PROVE  /\ a \div b \in Nat /\ a % b \in 0 .. b - 1
         /\ a = b * (a \div b) + (a % b)
  OBVIOUS

LEMMA DivBounds ==
  ASSUME NEW a \in Nat, NEW b \in Nat \ {0}
  PROVE  (a \div b) * b <= a /\ a < ((a \div b) + 1) * b
  BY DivMod

LEMMA DivMonotonic ==
  ASSUME NEW a \in Nat, NEW b \in Nat, NEW c \in Nat \ {0}, a <= b
  PROVE  a \div c <= b \div c
  OBVIOUS

LEMMA ProductMonotonic ==
  ASSUME NEW a \in Nat, NEW b \in Nat, NEW c \in Nat, a <= b
  PROVE  a * c <= b * c
  OBVIOUS

\* Two positions less than a cache apart are told apart modulo its size, and
\* so is the distance from one to the other.
LEMMA ModDistance ==
  ASSUME NEW a \in Nat, NEW b \in Nat, NEW c \in Nat \ {0}, a < b, b <= a + c
  PROVE  /\ (a % c) = (b % c) => b = a + c
         /\ (a % c) < (b % c) => (b % c) - (a % c) = b - a
         /\ (a % c) > (b % c) => (c - (a % c)) + (b % c) = b - a
<1>1. /\ a \div c \in Nat /\ b \div c \in Nat /\ a % c \in 0 .. c - 1 /\ b % c \in 0 .. c - 1
      /\ a = c * (a \div c) + (a % c) /\ b = c * (b \div c) + (b % c)
  BY DivMod
<1>2. (b \div c) = (a \div c) \/ (b \div c) = (a \div c) + 1
  <2>1. (b \div c) - (a \div c) \in {0, 1}
    BY DivMod
  <2> QED
    BY <2>1, <1>1
<1>3. c * ((a \div c) + 1) = c * (a \div c) + c /\ c * (a \div c) \in Nat
  BY <1>1
<1>4. CASE (b \div c) = (a \div c)
  BY <1>1, <1>3, <1>4
<1>5. CASE (b \div c) = (a \div c) + 1
  BY <1>1, <1>3, <1>5
<1> QED
  BY <1>2, <1>4, <1>5, Zenon

LEMMA SmallerLarger ==
  ASSUME NEW a \in Int, NEW b \in Int
  PROVE  /\ Smaller(a, b) \in {a, b} /\ Smaller(a, b) <= a /\ Smaller(a, b) <= b
         /\ Larger(a, b) \in {a, b} /\ Larger(a, b) >= a /\ Larger(a, b) >= b
  BY DEF Smaller, Larger

LEMMA Sizes ==
  /\ CacheSize \in Nat \ {0} /\ FirstPiece \in Nat /\ LastPiece \in Nat
  /\ FirstPieceOffset \in Nat /\ FirstPieceOffset <= FOffset
<1>1. CacheSize \in Nat \ {0}
  BY SizesAssumption DEF CacheSize
<1>2. FOffset + FSize - 1 \in Nat
  BY SizesAssumption
<1> QED
  BY <1>1, <1>2, SizesAssumption, DivMod, DivBounds
  DEF FirstPiece, LastPiece, FirstPieceOffset, PieceAbsPos

LEMMA Pieces ==
  ASSUME NEW pos \in Nat
  PROVE  /\ PieceOf(pos) \in Nat
         /\ PieceAbsPos(PieceOf(pos)) \in Nat
         /\ PieceAbsPos(PieceOf(pos)) <= pos
         /\ pos < PieceAbsPos(PieceOf(pos)) + PieceLen
  BY SizesAssumption, DivMod, DivBounds DEF PieceOf, PieceAbsPos

LEMMA PiecesMonotonic ==
  ASSUME NEW p \in Nat, NEW q \in Nat, p <= q
  PROVE  PieceAbsPos(p) \in Nat /\ PieceAbsPos(q) \in Nat /\ PieceAbsPos(p) <= PieceAbsPos(q)
  BY SizesAssumption, ProductMonotonic DEF PieceAbsPos

-----------------------------------------------------------------------------
(***************************************************************************)
(* requestSlots().                                                         *)
(***************************************************************************)

\* A list of slots for at most CacheSizeInPieces consecutive pieces of the
\* file, from piece k on.
Run(list, k) ==
  /\ list \in Seq(Slot)
  /\ \A i \in 1 .. Len(list) : list[i].first = k + i - 1
  /\ Len(list) <= CacheSizeInPieces
  /\ Len(list) > 0 => k + Len(list) - 1 <= LastPiece

LEMMA EmptySlotsAre ==
  ASSUME NEW piece \in Nat, NEW n \in Nat
  PROVE  /\ EmptySlots(piece, n) \in Seq(Slot)
         /\ Len(EmptySlots(piece, n)) = n
         /\ \A i \in 1 .. n : EmptySlots(piece, n)[i].first = piece + i - 1
<1>1. \A i \in 1 .. n : EmptySlot(piece + i - 1) \in Slot
  <2>1. \A p \in Nat : EmptySlot(p) \in Slot
    BY DEF EmptySlot, Slot
  <2> QED
    BY <2>1
<1>2. EmptySlots(piece, n) \in [1 .. n -> Slot]
  BY <1>1 DEF EmptySlots
<1>3. EmptySlots(piece, n) \in Seq(Slot) /\ Len(EmptySlots(piece, n)) = n
  BY <1>2
<1>4. \A i \in 1 .. n : EmptySlots(piece, n)[i].first = piece + i - 1
  BY DEF EmptySlots, EmptySlot
<1> QED
  BY <1>3, <1>4

\* Erasing the slots before `piece` leaves the rest of the run.
LEMMA DropBelowIs ==
  ASSUME NEW list, NEW k \in Nat, Run(list, k), NEW piece \in Nat
  PROVE  /\ piece < k => DropBelow(list, piece) = list
         /\ piece >= k + Len(list) => DropBelow(list, piece) = <<>>
         /\ k <= piece /\ piece < k + Len(list) =>
              /\ Run(DropBelow(list, piece), piece)
              /\ Len(DropBelow(list, piece)) = Len(list) - (piece - k)
              /\ \A i \in 1 .. Len(DropBelow(list, piece)) :
                   DropBelow(list, piece)[i] = list[(piece - k) + i]
<1> DEFINE P(n) == \A i \in 1 .. Len(list) : list[i].first < piece <=> i <= n
           drop == CHOOSE n \in 0 .. Len(list) : P(n)
<1>1. list \in Seq(Slot) /\ Len(list) \in Nat /\ \A i \in 1 .. Len(list) : list[i].first = k + i - 1
  BY DEF Run
<1>2. DropBelow(list, piece) = SubSeq(list, drop + 1, Len(list))
  BY <1>1 DEF DropBelow
<1>3. ASSUME NEW n \in 0 .. Len(list), P(n), NEW o \in 0 .. Len(list), P(o)
      PROVE  n = o
  <2>1. CASE n < o
    <3>1. o \in 1 .. Len(list) /\ ~ (o <= n)
      BY <2>1
    <3> QED
      BY <3>1, <1>3
  <2>2. CASE o < n
    <3>1. n \in 1 .. Len(list) /\ ~ (n <= o)
      BY <2>2
    <3> QED
      BY <3>1, <1>3
  <2> QED
    BY <2>1, <2>2
<1>4. ASSUME NEW n \in 0 .. Len(list), P(n)
      PROVE  drop = n
  <2>1. drop \in 0 .. Len(list) /\ P(drop)
    BY <1>4
  <2> HIDE DEF drop, P
  <2> QED
    BY <2>1, <1>3, <1>4
<1>5. CASE piece < k
  <2>1. P(0)
    BY <1>1, <1>5
  <2>2. drop = 0
    BY <2>1, <1>1, <1>4
  <2> HIDE DEF drop
  <2>3. DropBelow(list, piece) = list
    BY <2>2, <1>1, <1>2, SubSeqFull
  <2> QED
    BY <2>3, <1>1, <1>5
<1>6. CASE piece >= k + Len(list)
  <2>1. P(Len(list))
    BY <1>1, <1>6
  <2>2. drop = Len(list)
    BY <2>1, <1>1, <1>4
  <2> HIDE DEF drop
  <2>3. DropBelow(list, piece) = <<>>
    BY <2>2, <1>1, <1>2
  <2> QED
    BY <2>3, <1>1, <1>6
<1>7. CASE k <= piece /\ piece < k + Len(list)
  <2>1. P(piece - k) /\ piece - k \in 0 .. Len(list)
    BY <1>1, <1>7
  <2>2. drop = piece - k
    BY <2>1, <1>4
  <2> HIDE DEF drop
  <2> DEFINE rest == SubSeq(list, piece - k + 1, Len(list))
  <2>3. /\ rest \in Seq(Slot) /\ Len(rest) = Len(list) - (piece - k)
        /\ \A i \in 1 .. Len(rest) : rest[i] = list[(piece - k) + i]
    BY <2>1, <1>1
  <2>4. DropBelow(list, piece) = rest
    BY <2>2, <1>2
  <2> HIDE DEF rest
  <2>5. \A i \in 1 .. Len(rest) : rest[i].first = piece + i - 1
    <3> DEFINE shift == piece - k
    <3>1. shift \in Nat /\ piece = k + shift /\ Len(rest) = Len(list) - shift
      BY <2>1, <2>3, <1>1
    <3>2. \A i \in 1 .. Len(rest) : rest[i] = list[shift + i]
      BY <2>3
    <3> HIDE DEF shift
    <3> SUFFICES ASSUME NEW i \in 1 .. Len(rest)
                 PROVE  rest[i].first = piece + i - 1
      OBVIOUS
    <3>3. Len(list) \in Nat /\ \A j \in 1 .. Len(list) : list[j].first = k + j - 1
      BY <1>1
    <3>4. shift + i \in 1 .. Len(list)
      BY <3>1, <3>3
    <3>5. rest[i].first = k + (shift + i) - 1
      BY <3>2, <3>3, <3>4
    <3> QED
      BY <3>1, <3>5
  <2> QED
    BY <2>3, <2>4, <2>5, <1>1, <1>7, SizesAssumption, Sizes DEF Run
<1> QED
  BY <1>5, <1>6, <1>7, <1>1

(***************************************************************************)
(* requestSlots() leaves the slots of the pieces from `piece` on, as many  *)
(* as the cache holds and the file has.                                    *)
(***************************************************************************)
Full(list, piece) ==
  /\ list \in Seq(Slot)
  /\ Len(list) = Larger(0, Smaller(CacheSizeInPieces, LastPiece - piece + 1))
  /\ \A i \in DOMAIN list : list[i].first = piece + i - 1

LEMMA FullIsRun ==
  ASSUME NEW list, NEW piece \in Nat, Full(list, piece)
  PROVE  Run(list, piece)
  BY SizesAssumption, Sizes DEF Full, Run, Larger, Smaller

LEMMA FrontIs ==
  ASSUME NEW kept, NEW piece \in Nat, NEW k \in Nat, kept # <<>>, Run(kept, k), piece <= k
  PROVE  LET held == KeepWithGap(kept, k - piece)
         IN Run(IF held = <<>> THEN <<>> ELSE EmptySlots(piece, k - piece) \o held, piece)
<1> DEFINE gap == k - piece
           held == KeepWithGap(kept, gap)
           front == EmptySlots(piece, gap) \o held
<1>1. /\ kept \in Seq(Slot) /\ Len(kept) \in Nat \ {0} /\ Len(kept) <= CacheSizeInPieces
      /\ \A i \in 1 .. Len(kept) : kept[i].first = k + i - 1
      /\ k + Len(kept) - 1 <= LastPiece
  BY DEF Run
<1>2. CASE gap >= CacheSizeInPieces
  <2>1. held = <<>>
    BY <1>2 DEF KeepWithGap
  <2> QED
    BY <2>1, SizesAssumption DEF Run
<1>3. CASE gap < CacheSizeInPieces
  <2> DEFINE n == Smaller(Len(kept), CacheSizeInPieces - gap)
  <2>1. n \in 1 .. Len(kept) /\ gap \in Nat /\ gap + n <= CacheSizeInPieces
    BY <1>1, <1>3, SizesAssumption DEF Smaller
  <2>2. held = SubSeq(kept, 1, n)
    <3>1. ~ (gap >= CacheSizeInPieces)
      BY <2>1, <1>3, SizesAssumption
    <3> QED
      BY <3>1 DEF KeepWithGap
  <2> HIDE DEF n, held
  <2>3. /\ held \in Seq(Slot) /\ Len(held) = n /\ held # <<>>
        /\ \A i \in 1 .. n : held[i].first = k + i - 1
    <3>1. \A i \in 1 .. n : kept[i] \in Slot
      BY <2>1, <1>1
    <3>2. held \in Seq(Slot) /\ Len(held) = n /\ \A i \in 1 .. n : held[i] = kept[1 + i - 1]
      BY <3>1, <2>1, <2>2
    <3>3. ASSUME NEW i \in 1 .. n
          PROVE  held[i].first = k + i - 1
      <4>1. held[i] = kept[i] /\ i \in 1 .. Len(kept)
        BY <3>2, <2>1
      <4> QED
        BY <4>1, <1>1
    <3>4. held # <<>>
      BY <3>2, <2>1
    <3> QED
      BY <3>2, <3>3, <3>4
  <2> DEFINE new == EmptySlots(piece, gap)
  <2>4. new \in Seq(Slot) /\ Len(new) = gap /\ \A i \in 1 .. gap : new[i].first = piece + i - 1
    BY <2>1, EmptySlotsAre
  <2> HIDE DEF new
  <2>4a. /\ new \o held \in Seq(Slot) /\ Len(new \o held) = Len(new) + Len(held)
         /\ \A i \in 1 .. Len(new) + Len(held) :
              (new \o held)[i] = IF i <= Len(new) THEN new[i] ELSE held[i - Len(new)]
    BY <2>3, <2>4, ConcatProperties
  <2>5. new \o held \in Seq(Slot) /\ Len(new \o held) = gap + n
    BY <2>3, <2>4, <2>4a
  <2>6. ASSUME NEW i \in 1 .. gap + n
        PROVE  (new \o held)[i].first = piece + i - 1
    <3>1. (new \o held)[i] = IF i <= gap THEN new[i] ELSE held[i - gap]
      BY <2>3, <2>4, <2>4a
    <3>2. CASE i <= gap
      BY <3>1, <3>2, <2>1, <2>4
    <3>3. CASE i > gap
      <4>1. i - gap \in 1 .. n /\ k + (i - gap) - 1 = piece + i - 1
        BY <3>3, <2>1
      <4> QED
        BY <4>1, <3>1, <3>3, <2>1, <2>3
    <3>4. i <= gap \/ i > gap
      BY <2>1
    <3> QED
      BY <3>2, <3>3, <3>4, Zenon
  <2>7. piece + (gap + n) - 1 <= LastPiece
    BY <2>1, <1>1, Sizes
  <2>8. Run(new \o held, piece)
    BY <2>1, <2>5, <2>6, <2>7 DEF Run
  <2> QED
    BY <2>3, <2>8 DEF new, held
<1>4. gap >= CacheSizeInPieces \/ gap < CacheSizeInPieces
  BY SizesAssumption
<1> QED
  BY <1>2, <1>3, <1>4, Zenon

LEMMA RequestSlotsIs ==
  ASSUME NEW list, NEW k \in Nat, Run(list, k), NEW piece \in Nat
  PROVE  Full(RequestSlots(list, piece), piece)
<1> DEFINE kept == DropBelow(list, piece)
           gap == IF kept = <<>> THEN 0 ELSE kept[1].first - piece
           held == IF kept = <<>> THEN <<>> ELSE KeepWithGap(kept, gap)
           front == IF held = <<>> THEN <<>> ELSE EmptySlots(piece, gap) \o held
           next == IF front = <<>> THEN piece ELSE front[Len(front)].first + 1
           room == Smaller(CacheSizeInPieces - Len(front), LastPiece - next + 1)
           new == EmptySlots(next, Larger(0, room))
<1>1. RequestSlots(list, piece) = front \o new
  BY DEF RequestSlots
<1>2. \/ kept = <<>>
      \/ kept # <<>> /\ \E q \in Nat : piece <= q /\ Run(kept, q)
  <2>1. list \in Seq(Slot) /\ Len(list) \in Nat
    BY DEF Run
  <2>2. CASE piece < k
    BY <2>2, DropBelowIs
  <2>3. CASE piece >= k + Len(list)
    BY <2>3, DropBelowIs
  <2>4. CASE k <= piece /\ piece < k + Len(list)
    BY <2>4, DropBelowIs
  <2> QED
    BY <2>1, <2>2, <2>3, <2>4
<1>3. Run(front, piece)
  <2>1. CASE kept = <<>>
    BY <2>1, SizesAssumption DEF Run
  <2>2. ASSUME NEW q \in Nat, kept # <<>>, piece <= q, Run(kept, q)
        PROVE  Run(front, piece)
    <3>1. kept[1].first = q
      BY <2>2 DEF Run
    <3>2. gap = q - piece /\ held = KeepWithGap(kept, q - piece)
      BY <2>2, <3>1
    <3> HIDE DEF kept
    <3>3. Run(IF KeepWithGap(kept, q - piece) = <<>> THEN <<>>
              ELSE EmptySlots(piece, q - piece) \o KeepWithGap(kept, q - piece), piece)
      BY <2>2, FrontIs
    <3> QED
      BY <3>2, <3>3
  <2> QED
    BY <1>2, <2>1, <2>2
<1> HIDE DEF front
<1>4. /\ front \in Seq(Slot) /\ Len(front) \in Nat /\ Len(front) <= CacheSizeInPieces
      /\ \A i \in 1 .. Len(front) : front[i].first = piece + i - 1
      /\ Len(front) > 0 => piece + Len(front) - 1 <= LastPiece
  BY <1>3 DEF Run
<1>5. next = piece + Len(front) /\ next \in Nat
  BY <1>4
<1> HIDE DEF next
<1>6. Larger(0, room) \in Nat
  BY <1>4, <1>5, SizesAssumption, Sizes DEF Larger, Smaller
<1>7. Len(front) + Larger(0, room) = Larger(0, Smaller(CacheSizeInPieces, LastPiece - piece + 1))
  BY <1>4, <1>5, SizesAssumption, Sizes DEF Larger, Smaller
<1> HIDE DEF room
<1>8. /\ new \in Seq(Slot) /\ Len(new) = Larger(0, room)
      /\ \A i \in 1 .. Larger(0, room) : new[i].first = next + i - 1
  BY <1>5, <1>6, EmptySlotsAre
<1> HIDE DEF new
<1>9. /\ front \o new \in Seq(Slot) /\ Len(front \o new) = Len(front) + Len(new)
      /\ \A i \in 1 .. Len(front) + Len(new) :
           (front \o new)[i] = IF i <= Len(front) THEN front[i] ELSE new[i - Len(front)]
  BY <1>4, <1>8, ConcatProperties
<1>10. ASSUME NEW i \in 1 .. Len(front) + Len(new)
       PROVE  (front \o new)[i].first = piece + i - 1
  <2>1. CASE i <= Len(front)
    BY <2>1, <1>4, <1>9
  <2>2. CASE i > Len(front)
    <3>1. i - Len(front) \in 1 .. Larger(0, room) /\ next + (i - Len(front)) - 1 = piece + i - 1
      BY <2>2, <1>4, <1>5, <1>6, <1>8
    <3> QED
      BY <3>1, <2>2, <1>4, <1>8, <1>9
  <2>3. i <= Len(front) \/ i > Len(front)
    BY <1>4
  <2> QED
    BY <2>1, <2>2, <2>3, Zenon
<1>11. /\ front \o new \in Seq(Slot)
       /\ Len(front \o new) = Larger(0, Smaller(CacheSizeInPieces, LastPiece - piece + 1))
  BY <1>7, <1>8, <1>9
<1>12. \A i \in DOMAIN (front \o new) : (front \o new)[i].first = piece + i - 1
  <2>1. DOMAIN (front \o new) = 1 .. Len(front) + Len(new)
    BY <1>9
  <2> QED
    BY <2>1, <1>10
<1> QED
  BY <1>1, <1>11, <1>12 DEF Full

LEMMA NoSlotsIsRun == Run(<<>>, 0)
  BY SizesAssumption DEF Run

-----------------------------------------------------------------------------
(***************************************************************************)
(* read(): both formulas give the smaller of the length asked for and of   *)
(* what is available, and that many bytes are copied.                      *)
(***************************************************************************)
Available(r, w) == IF w > r THEN w - r ELSE (CacheSize - r) + w

LEMMA AmountsAgree ==
  ASSUME NEW len \in Nat \ {0}, NEW r \in 0 .. CacheSize - 1, NEW w \in 0 .. CacheSize - 1, r # w
  PROVE  /\ BytesToBeCopied(len, r, w) = Smaller(len, Available(r, w))
         /\ ObtainBytes(len, r, w) = Smaller(len, Available(r, w))
         /\ Smaller(len, Available(r, w)) \in Nat \ {0}
         /\ Smaller(len, Available(r, w)) <= Available(r, w)
<1>1. CacheSize \in Nat
  BY Sizes
<1>2. Available(r, w) \in Nat \ {0}
  BY <1>1 DEF Available
<1>3. BytesToBeCopied(len, r, w) = Smaller(len, Available(r, w))
  BY <1>1 DEF BytesToBeCopied, Available, Smaller
<1>4. ObtainBytes(len, r, w) = Smaller(len, Available(r, w))
  BY <1>1 DEF ObtainBytes, Available, Smaller, Straight
<1> QED
  BY <1>2, <1>3, <1>4 DEF Smaller

LEMMA CopyOutIs ==
  ASSUME NEW len \in Nat \ {0}, NEW r \in 0 .. CacheSize - 1, NEW w \in 0 .. CacheSize - 1, r # w,
         buffer \in [0 .. CacheSize - 1 -> Nat \cup {NoByte}]
  PROVE  /\ CopyOut(len, r, w) \in Seq(Nat \cup {NoByte})
         /\ Len(CopyOut(len, r, w)) = ObtainBytes(len, r, w)
<1> DEFINE Cell == Nat \cup {NoByte}
           n == ObtainBytes(len, r, w)
<1>1. CacheSize \in Nat
  BY Sizes
<1>2. n \in Nat \ {0}
  BY AmountsAgree
<1>3. CASE Straight(len, r, w)
  <2>1. r + n - 1 <= CacheSize - 1
    BY <1>1, <1>3 DEF ObtainBytes, Straight, Smaller
  <2> HIDE DEF n
  <2> DEFINE copy == [i \in 1 .. n |-> buffer[r + i - 1]]
  <2>2. \A i \in 1 .. n : buffer[r + i - 1] \in Cell
    BY <2>1, <1>1, <1>2
  <2>3. copy \in Seq(Cell) /\ Len(copy) = n
    BY <2>2, <1>2
  <2> QED
    BY <2>3, <1>3 DEF CopyOut, n
<1>4. CASE ~ Straight(len, r, w)
  <2>1. n - (CacheSize - r) \in Nat /\ n - (CacheSize - r) <= w /\ CacheSize - r \in Nat
    BY <1>1, <1>4 DEF ObtainBytes, Straight, Smaller
  <2> HIDE DEF n
  <2> DEFINE tail == [i \in 1 .. CacheSize - r |-> buffer[r + i - 1]]
             rest == [i \in 1 .. n - (CacheSize - r) |-> buffer[i - 1]]
  <2>2. tail \in Seq(Cell) /\ Len(tail) = CacheSize - r
    <3>1. \A i \in 1 .. CacheSize - r : buffer[r + i - 1] \in Cell
      BY <1>1
    <3> QED
      BY <3>1, <2>1
  <2>3. rest \in Seq(Cell) /\ Len(rest) = n - (CacheSize - r)
    <3>1. \A i \in 1 .. n - (CacheSize - r) : buffer[i - 1] \in Cell
      BY <1>1, <2>1
    <3> QED
      BY <3>1, <2>1
  <2> HIDE DEF tail, rest
  <2>4. tail \o rest \in Seq(Cell) /\ Len(tail \o rest) = Len(tail) + Len(rest)
    BY <2>2, <2>3, ConcatProperties
  <2>5. Len(tail \o rest) = n
    BY <2>2, <2>3, <2>4, <1>1, <1>2
  <2>6. CopyOut(len, r, w) = tail \o rest
    BY <1>4 DEF CopyOut, tail, rest, n
  <2> QED
    BY <2>4, <2>5, <2>6 DEF n
<1> QED
  BY <1>3, <1>4, Zenon

-----------------------------------------------------------------------------
(***************************************************************************)
(* write(): the loop never moves the writing position back, nor past the   *)
(* end of the last slot.                                                   *)
(***************************************************************************)
LEMMA SlotFields ==
  ASSUME NEW list \in Seq(Slot), NEW i \in 1 .. Len(list)
  PROVE  list[i] \in Slot /\ list[i].first \in Nat /\ list[i].second \in Seq(Segs(PieceLen))
<1>1. list[i] \in Slot
  OBVIOUS
<1> QED
  BY <1>1 DEF Slot

LEMMA LastVisitedIs ==
  ASSUME NEW list \in Seq(Slot), NEW i \in 1 .. Len(list)
  PROVE  LET n == LastVisited(list, i)
         IN /\ n \in i .. Len(list)
            /\ \A j \in i .. n - 1 : BytesAvailable(list[j].second) >= PieceLen
            /\ n < Len(list) => BytesAvailable(list[n].second) < PieceLen
<1> DEFINE Stops == {n \in i .. Len(list) :
                       n < Len(list) => BytesAvailable(list[n].second) < PieceLen}
<1>1. Stops \in SUBSET Nat /\ Len(list) \in Stops
  OBVIOUS
<1>2. PICK n \in Stops : \A j \in Stops : n <= j
  BY <1>1, LeastNumber
<1>3. ASSUME NEW j \in i .. n - 1
      PROVE  BytesAvailable(list[j].second) >= PieceLen
  <2>1. j \in i .. Len(list) /\ ~ (n <= j)
    BY <1>2
  <2>2. j < Len(list) /\ ~ (BytesAvailable(list[j].second) < PieceLen)
    BY <2>1, <1>2
  <2>3. BytesAvailable(list[j].second) \in Nat
    <3>1. list[j].second \in Seq(Segs(PieceLen))
      <4>1. j \in 1 .. Len(list)
        BY <2>1
      <4> QED
        BY <4>1, SlotFields
    <3> QED
      BY <3>1, BytesAvailableIs, SizesAssumption
  <2> QED
    BY <2>2, <2>3, SizesAssumption
<1>4. n \in i .. Len(list) /\ (n < Len(list) => BytesAvailable(list[n].second) < PieceLen)
  BY <1>2
<1> HIDE DEF Stops
<1>5. \E o \in i .. Len(list) :
        /\ \A j \in i .. o - 1 : BytesAvailable(list[j].second) >= PieceLen
        /\ o < Len(list) => BytesAvailable(list[o].second) < PieceLen
  BY <1>3, <1>4
<1> QED
  BY <1>5 DEF LastVisited

LEMMA AdvanceWPosIs ==
  ASSUME NEW list, NEW k \in Nat, Run(list, k), NEW i \in 1 .. Len(list),
         NEW wpos \in Nat, wpos <= PieceAbsPos(k + CacheSizeInPieces)
  PROVE  /\ AdvanceWPos(list, i, wpos) \in Nat
         /\ wpos <= AdvanceWPos(list, i, wpos)
         /\ AdvanceWPos(list, i, wpos) <= PieceAbsPos(k + CacheSizeInPieces)
<1> DEFINE n == LastVisited(list, i)
           reached == PieceAbsPos(list[n].first) + BytesAvailable(list[n].second)
<1>1. list \in Seq(Slot) /\ Len(list) <= CacheSizeInPieces
  BY DEF Run
<1>2. n \in i .. Len(list) /\ n \in 1 .. Len(list)
  BY <1>1, LastVisitedIs
<1> HIDE DEF n
<1>3. list[n].first = k + n - 1 /\ list[n].second \in Seq(Segs(PieceLen))
  BY <1>1, <1>2, SlotFields DEF Run
<1>4. BytesAvailable(list[n].second) \in 0 .. PieceLen
  BY <1>3, BytesAvailableIs, SizesAssumption
<1>5. /\ PieceAbsPos(k + n - 1) \in Nat
      /\ PieceAbsPos(k + n - 1) + PieceLen = PieceAbsPos(k + n)
  BY <1>2, SizesAssumption DEF PieceAbsPos
<1>6. PieceAbsPos(k + n) <= PieceAbsPos(k + CacheSizeInPieces)
  BY <1>1, <1>2, SizesAssumption, PiecesMonotonic
<1>7. PieceAbsPos(k + n) \in Nat /\ PieceAbsPos(k + CacheSizeInPieces) \in Nat
  BY <1>2, SizesAssumption DEF PieceAbsPos
<1>8. reached \in Nat /\ reached <= PieceAbsPos(k + CacheSizeInPieces)
  BY <1>3, <1>4, <1>5, <1>6, <1>7, SizesAssumption, SMTT(30)
<1> HIDE DEF reached
<1>9. AdvanceWPos(list, i, wpos) \in {Larger(reached, wpos), wpos}
  BY DEF AdvanceWPos, n, reached
<1> QED
  BY <1>7, <1>8, <1>9 DEF Larger

-----------------------------------------------------------------------------
(***************************************************************************)
(* The inductive invariant.  Beside the properties it is about, it says    *)
(* what a thread inside a call relies on: the copy of the writing position *)
(* taken before the unlock is still that of a position the writer has      *)
(* reached (it only moves on), less than a cache ahead; updatingBuffer is  *)
(* TRUE just while a write is under way; and the arguments are legal.      *)
(***************************************************************************)
LocalIsBehind ==
  \E w \in absRPos + 1 .. absWPos :
    w < absRPos + CacheSize /\ localWPos = PosInCacheByAbsPos(w)

PlayerInv ==
  /\ absRPos >= FOffset
  /\ rpc \in {"waitNotEmpty", "woken", "copy", "commit"} => arg > 0
  /\ rpc \in {"seekWait", "seekWoken"} => arg <= FSize
  /\ rpc = "copy" /\ fault = "none" => LocalIsBehind
  /\ rpc = "commit" <=> bytes # <<>>

SourceInv ==
  /\ updatingBuffer <=> wpc # "idle"
  /\ wpc # "idle" => block.len > 0 /\ block.offset + block.len <= PieceLen

Inv ==
  /\ TypeOK
  /\ SlotsConsecutive
  /\ Window
  /\ NoLostWakeup
  /\ NeverPastWriter
  /\ AssertsHold
  /\ PlayerInv
  /\ SourceInv

LEMMA SlotsAreFull ==
  ASSUME TypeOK
  PROVE  SlotsConsecutive <=> Full(slotList, PieceOf(absRPos))
  BY DEF TypeOK, SlotsConsecutive, Full

LEMMA InitInv == Init => Inv
<1> SUFFICES ASSUME Init
             PROVE  Inv
  OBVIOUS
<1>1. Full(slotList, FirstPiece)
  BY NoSlotsIsRun, RequestSlotsIs, Sizes DEF Init
<1>2. PieceOf(absRPos) = FirstPiece
  BY DEF Init, PieceOf, FirstPiece
<1>3. TypeOK
  <2>1. slotList \in Seq(Slot)
    BY <1>1 DEF Full
  <2>2. buffer \in [0 .. CacheSize - 1 -> Nat \cup {NoByte}] /\ localWPos \in 0 .. CacheSize - 1
    BY Sizes DEF Init
  <2>3. block \in [piece : Nat, offset : 0 .. PieceLen, len : 0 .. PieceLen]
    BY Sizes, SizesAssumption DEF Init
  <2>4. absRPos \in Nat /\ absWPos \in Nat /\ bytes \in Seq(Nat \cup {NoByte}) /\ arg \in Nat /\ itr \in Nat
    BY Sizes, SizesAssumption DEF Init
  <2> QED
    BY <2>1, <2>2, <2>3, <2>4 DEF Init, TypeOK
<1>4. SlotsConsecutive
  BY <1>1, <1>2, <1>3, SlotsAreFull
<1>5. Window
  <2>1. absWPos = PieceAbsPos(FirstPiece)
    BY DEF Init, FirstPieceOffset
  <2> QED
    BY <2>1, <1>2, SizesAssumption, Sizes, PiecesMonotonic DEF Window
<1>6. NoLostWakeup /\ NeverPastWriter /\ AssertsHold
  BY DEF Init, NoLostWakeup, NeverPastWriter, AssertsHold
<1>7. PlayerInv /\ SourceInv
  BY SizesAssumption DEF Init, PlayerInv, SourceInv
<1> QED
  BY <1>3, <1>4, <1>5, <1>6, <1>7 DEF Inv

\* What is left alone while the positions and the slots are.
LEMMA WindowUnchanged ==
  ASSUME Inv, absRPos' = absRPos, absWPos' = absWPos, slotList' = slotList
  PROVE  SlotsConsecutive' /\ Window'
  BY DEF Inv, SlotsConsecutive, Window

\* The two positions inside the cache, and how far they are apart.
LEMMA PositionsInCache ==
  ASSUME NEW r \in Nat, NEW w \in Nat, FirstPieceOffset <= r, r < w, w <= r + CacheSize
  PROVE  /\ PosInCacheByAbsPos(r) \in 0 .. CacheSize - 1
         /\ PosInCacheByAbsPos(w) \in 0 .. CacheSize - 1
         /\ PosInCacheByAbsPos(r) = PosInCacheByAbsPos(w) => w = r + CacheSize
         /\ PosInCacheByAbsPos(r) # PosInCacheByAbsPos(w) =>
              Available(PosInCacheByAbsPos(r), PosInCacheByAbsPos(w)) = w - r
<1> DEFINE a == r - FirstPieceOffset
           b == w - FirstPieceOffset
<1>1. a \in Nat /\ b \in Nat /\ a < b /\ b <= a + CacheSize /\ b - a = w - r
  BY Sizes
<1>2. PosInCacheByAbsPos(r) = a % CacheSize /\ PosInCacheByAbsPos(w) = b % CacheSize
  BY DEF PosInCacheByAbsPos
<1> HIDE DEF a, b
<1>3. a % CacheSize \in 0 .. CacheSize - 1 /\ b % CacheSize \in 0 .. CacheSize - 1
  BY <1>1, Sizes, DivMod
<1>4. /\ (a % CacheSize) = (b % CacheSize) => b = a + CacheSize
      /\ (a % CacheSize) < (b % CacheSize) => (b % CacheSize) - (a % CacheSize) = b - a
      /\ (a % CacheSize) > (b % CacheSize) => (CacheSize - (a % CacheSize)) + (b % CacheSize) = b - a
  BY <1>1, Sizes, ModDistance
<1>5. w = r + CacheSize <=> b = a + CacheSize
  BY Sizes DEF a, b
<1> QED
  BY <1>1, <1>2, <1>3, <1>4, <1>5, Sizes DEF Available

\* The writer is at most a cache ahead of the reader.
LEMMA WithinCache ==
  ASSUME Inv
  PROVE  /\ absWPos <= absRPos + CacheSize /\ FirstPieceOffset <= absRPos
         /\ absRPos \in Nat /\ absWPos \in Nat
<1>1. absRPos \in Nat /\ absWPos \in Nat /\ absRPos >= FOffset
  BY DEF Inv, TypeOK, PlayerInv
<1>2. PieceOf(absRPos) \in Nat /\ PieceAbsPos(PieceOf(absRPos)) <= absRPos /\ PieceAbsPos(PieceOf(absRPos)) \in Nat
  BY <1>1, Pieces
<1>3. PieceAbsPos(PieceOf(absRPos) + CacheSizeInPieces) = PieceAbsPos(PieceOf(absRPos)) + CacheSize
  BY <1>2, SizesAssumption DEF PieceAbsPos, CacheSize
<1> QED
  BY <1>1, <1>2, <1>3, Sizes, SizesAssumption DEF Inv, Window

-----------------------------------------------------------------------------
(***************************************************************************)
(* Every step keeps the invariant, one lemma for each action.              *)
(***************************************************************************)

LEMMA TakeLocalsInv ==
  ASSUME Inv, fault = "none", bytes = <<>>, absWPos > absRPos,
         NEW len \in Nat \ {0}, arg' = len, TakeLocals(len)
  PROVE  Inv'
<1> DEFINE r == PosInCacheByAbsPos(absRPos)
           w == PosInCacheByAbsPos(absWPos)
<1>1. /\ r \in 0 .. CacheSize - 1 /\ w \in 0 .. CacheSize - 1
      /\ r = w => absWPos = absRPos + CacheSize
  BY WithinCache, PositionsInCache
<1>2. fault' \in {"none", "distance"} /\ (fault' = "none" => w # r)
  <2>1. ~ (absWPos <= absRPos)
    BY WithinCache
  <2> QED
    BY <2>1 DEF TakeLocals
<1>3. TypeOK'
  BY <1>1, <1>2 DEF Inv, TypeOK, TakeLocals, source
<1>4. SlotsConsecutive' /\ Window'
  BY WindowUnchanged DEF TakeLocals
<1>5. NoLostWakeup' /\ NeverPastWriter' /\ AssertsHold'
  BY <1>2 DEF Inv, NoLostWakeup, NeverPastWriter, AssertsHold, TakeLocals
<1>6. PlayerInv'
  <2>1. fault' = "none" => LocalIsBehind'
    <3>1. SUFFICES ASSUME fault' = "none"
                   PROVE  LocalIsBehind'
      OBVIOUS
    <3>2. w # r /\ absWPos # absRPos + CacheSize
      <4>1. w # r => Available(r, w) = absWPos - absRPos
        BY WithinCache, PositionsInCache
      <4>2. w # r => Available(r, w) # CacheSize
        BY <1>1, Sizes DEF Available
      <4> QED
        BY <4>1, <4>2, <3>1, <1>2, WithinCache, Sizes
    <3>3. absWPos \in absRPos + 1 .. absWPos /\ absWPos < absRPos + CacheSize
      BY <3>2, WithinCache, Sizes
    <3>4. absRPos' = absRPos /\ absWPos' = absWPos /\ localWPos' = w
      BY DEF TakeLocals
    <3> QED
      BY <3>3, <3>4 DEF LocalIsBehind
  <2> QED
    BY <2>1 DEF Inv, PlayerInv, TakeLocals
<1>7. SourceInv'
  BY DEF Inv, SourceInv, TakeLocals, source
<1> QED
  BY <1>3, <1>4, <1>5, <1>6, <1>7 DEF Inv

LEMMA ReadInv ==
  ASSUME Inv, fault = "none", NEW len \in ReadLens, Read(len)
  PROVE  Inv'
<1>1. len \in Nat \ {0}
  BY InputsAssumption
<1>2. bytes = <<>>
  BY DEF Inv, PlayerInv, Read
<1> QED
  BY <1>1, <1>2, TakeLocalsInv DEF Read

LEMMA ReadWokenInv ==
  ASSUME Inv, fault = "none", ReadWoken
  PROVE  Inv'
<1>1. arg \in Nat \ {0} /\ arg' = arg /\ bytes = <<>> /\ absWPos > absRPos
  BY DEF Inv, TypeOK, PlayerInv, NoLostWakeup, ReadWoken
<1> QED
  BY <1>1, TakeLocalsInv DEF ReadWoken

LEMMA ReadBlocksInv ==
  ASSUME Inv, fault = "none", NEW len \in ReadLens, ReadBlocks(len)
  PROVE  Inv'
<1>1. len \in Nat \ {0}
  BY InputsAssumption
<1>2. TypeOK'
  BY <1>1 DEF Inv, TypeOK, ReadBlocks, source
<1>3. SlotsConsecutive' /\ Window'
  BY WindowUnchanged DEF ReadBlocks
<1>4. NoLostWakeup' /\ NeverPastWriter' /\ AssertsHold'
  BY WithinCache DEF Inv, NoLostWakeup, NeverPastWriter, AssertsHold, ReadBlocks
<1>5. PlayerInv' /\ SourceInv'
  BY <1>1 DEF Inv, PlayerInv, SourceInv, ReadBlocks, source
<1> QED
  BY <1>2, <1>3, <1>4, <1>5 DEF Inv

LEMMA ReadCopyInv ==
  ASSUME Inv, fault = "none", ReadCopy
  PROVE  Inv'
<1> DEFINE r == PosInCacheByAbsPos(absRPos)
<1>1. arg \in Nat \ {0} /\ LocalIsBehind /\ rpc = "copy"
  BY DEF Inv, TypeOK, PlayerInv, ReadCopy
<1>2. PICK w \in absRPos + 1 .. absWPos :
        w < absRPos + CacheSize /\ localWPos = PosInCacheByAbsPos(w)
  BY <1>1 DEF LocalIsBehind
<1>3. w \in Nat /\ absRPos < w /\ w <= absRPos + CacheSize /\ w # absRPos + CacheSize /\ w <= absWPos
  BY <1>2, WithinCache, Sizes
<1>4. /\ r \in 0 .. CacheSize - 1 /\ localWPos \in 0 .. CacheSize - 1 /\ r # localWPos
      /\ Available(r, localWPos) = w - absRPos
  BY <1>2, <1>3, WithinCache, PositionsInCache
<1> DEFINE n == ObtainBytes(arg, r, localWPos)
<1>5. n \in Nat \ {0} /\ n = BytesToBeCopied(arg, r, localWPos) /\ n <= w - absRPos
  BY <1>1, <1>4, AmountsAgree
<1>6. /\ CopyOut(arg, r, localWPos) \in Seq(Nat \cup {NoByte})
      /\ Len(CopyOut(arg, r, localWPos)) = n
  BY <1>1, <1>4, CopyOutIs DEF Inv, TypeOK
<1>7. bytes' \in Seq(Nat \cup {NoByte}) /\ Len(bytes') = n /\ fault' = "none" /\ rpc' = "commit"
  BY <1>5, <1>6 DEF ReadCopy
<1>8. bytes' # <<>>
  BY <1>5, <1>7
<1>9. absRPos + n <= absWPos
  BY <1>3, <1>5, WithinCache
<1> HIDE DEF n
<1>10. TypeOK'
  BY <1>7 DEF Inv, TypeOK, ReadCopy, source
<1>11. SlotsConsecutive' /\ Window'
  BY WindowUnchanged DEF ReadCopy
<1>12. NoLostWakeup' /\ NeverPastWriter' /\ AssertsHold'
  BY <1>1, <1>7, <1>9 DEF Inv, NoLostWakeup, NeverPastWriter, AssertsHold, ReadCopy
<1>13. PlayerInv' /\ SourceInv'
  BY <1>1, <1>7, <1>8 DEF Inv, PlayerInv, SourceInv, ReadCopy, source
<1> QED
  BY <1>10, <1>11, <1>12, <1>13 DEF Inv

LEMMA ReadCommitInv ==
  ASSUME Inv, fault = "none", ReadCommit
  PROVE  Inv'
<1> DEFINE pos == absRPos + Len(bytes)
<1>1. bytes \in Seq(Nat \cup {NoByte}) /\ Len(bytes) \in Nat
  BY DEF Inv, TypeOK
<1>2. pos \in Nat /\ absRPos <= pos /\ pos <= absWPos /\ absRPos \in Nat /\ absWPos \in Nat
  BY <1>1, WithinCache DEF Inv, NeverPastWriter, ReadCommit
<1>3. absRPos' = pos /\ absWPos' = absWPos /\ slotList' = RequestSlots(slotList, PieceOf(pos))
  BY DEF ReadCommit
<1> HIDE DEF pos
<1>4. PieceOf(absRPos) \in Nat /\ PieceOf(pos) \in Nat /\ PieceOf(absRPos) <= PieceOf(pos)
  BY <1>2, Pieces, DivMonotonic, SizesAssumption DEF PieceOf
<1>5. Full(slotList', PieceOf(pos))
  BY <1>3, <1>4, SlotsAreFull, FullIsRun, RequestSlotsIs DEF Inv
<1>6. Window'
  <2>1. PieceAbsPos(PieceOf(pos)) <= absWPos
    BY <1>2, Pieces
  <2>2. PieceAbsPos(PieceOf(absRPos) + CacheSizeInPieces) <= PieceAbsPos(PieceOf(pos) + CacheSizeInPieces)
    BY <1>4, SizesAssumption, PiecesMonotonic
  <2>3. /\ PieceAbsPos(PieceOf(absRPos) + CacheSizeInPieces) \in Nat
        /\ PieceAbsPos(PieceOf(pos) + CacheSizeInPieces) \in Nat
    BY <1>4, SizesAssumption, PiecesMonotonic
  <2> QED
    BY <1>2, <1>3, <2>1, <2>2, <2>3 DEF Inv, Window
<1>7. TypeOK'
  <2>1. slotList' \in Seq(Slot)
    BY <1>5 DEF Full
  <2>2. 0 \in 0 .. CacheSize - 1
    BY Sizes
  <2>3. itr' \in Nat
    BY DEF Inv, TypeOK, ReadCommit, Reindexed
  <2> QED
    BY <1>2, <1>3, <2>1, <2>2, <2>3 DEF Inv, TypeOK, ReadCommit
<1>8. SlotsConsecutive'
  BY <1>3, <1>5, <1>7 DEF SlotsConsecutive, Full
<1>9. NoLostWakeup' /\ NeverPastWriter' /\ AssertsHold'
  BY DEF Inv, NoLostWakeup, NeverPastWriter, AssertsHold, ReadCommit
<1>10. PlayerInv' /\ SourceInv'
  BY <1>2, <1>3, SizesAssumption DEF Inv, PlayerInv, SourceInv, ReadCommit
<1> QED
  BY <1>6, <1>7, <1>8, <1>9, <1>10 DEF Inv

LEMMA DoSeekInv ==
  ASSUME Inv, fault = "none", bytes = <<>>, NEW pos \in 0 .. FSize, DoSeek(pos)
  PROVE  Inv'
<1> DEFINE new == pos + FOffset
<1>1. new \in Nat /\ new >= FOffset /\ absWPos \in Nat
  BY SizesAssumption, WithinCache
<1>2. /\ absRPos' = new
      /\ absWPos' = IF PieceOf(absWPos) = PieceOf(new) THEN absWPos ELSE PieceAbsPos(PieceOf(new))
      /\ slotList' = RequestSlots(slotList, PieceOf(new))
  BY DEF DoSeek, WPosAfterSeek
<1> HIDE DEF new
<1>3. PieceOf(new) \in Nat /\ PieceOf(absRPos) \in Nat
  BY <1>1, Pieces, WithinCache
<1>4. Full(slotList', PieceOf(new))
  BY <1>2, <1>3, SlotsAreFull, FullIsRun, RequestSlotsIs DEF Inv
<1>5. Window' /\ absWPos' \in Nat
  <2>1. /\ PieceAbsPos(PieceOf(new)) \in Nat
        /\ PieceAbsPos(PieceOf(new) + 1) = PieceAbsPos(PieceOf(new)) + PieceLen
    BY <1>3, SizesAssumption DEF PieceAbsPos
  <2>2. /\ PieceAbsPos(PieceOf(new) + 1) <= PieceAbsPos(PieceOf(new) + CacheSizeInPieces)
        /\ PieceAbsPos(PieceOf(new) + CacheSizeInPieces) \in Nat
    <3>1. /\ PieceOf(new) + 1 \in Nat /\ PieceOf(new) + CacheSizeInPieces \in Nat
          /\ PieceOf(new) + 1 <= PieceOf(new) + CacheSizeInPieces
      BY <1>3, SizesAssumption
    <3> QED
      BY <3>1, PiecesMonotonic
  <2>3. CASE PieceOf(absWPos) = PieceOf(new)
    <3>1. PieceAbsPos(PieceOf(new)) <= absWPos /\ absWPos < PieceAbsPos(PieceOf(new)) + PieceLen
      BY <2>3, <1>1, Pieces
    <3> QED
      BY <3>1, <2>1, <2>2, <2>3, <1>1, <1>2, SizesAssumption DEF Window
  <2>4. CASE PieceOf(absWPos) # PieceOf(new)
    BY <2>1, <2>2, <2>4, <1>2, SizesAssumption DEF Window
  <2> QED
    BY <2>3, <2>4
<1>6. TypeOK'
  <2>1. slotList' \in Seq(Slot)
    BY <1>4 DEF Full
  <2> QED
    BY <1>1, <1>2, <1>5, <2>1 DEF Inv, TypeOK, DoSeek, WPosAfterSeek, source
<1>7. SlotsConsecutive'
  BY <1>2, <1>4, <1>6 DEF SlotsConsecutive, Full
<1>8. NoLostWakeup' /\ NeverPastWriter' /\ AssertsHold'
  BY DEF Inv, NoLostWakeup, NeverPastWriter, AssertsHold, DoSeek, WPosAfterSeek
<1>9. PlayerInv' /\ SourceInv'
  BY <1>1, <1>2 DEF Inv, PlayerInv, SourceInv, DoSeek, WPosAfterSeek, source
<1> QED
  BY <1>5, <1>6, <1>7, <1>8, <1>9 DEF Inv

LEMMA SeekInv ==
  ASSUME Inv, fault = "none",
         (\E pos \in SeekTargets : Seek(pos)) \/ SeekWoken
  PROVE  Inv'
<1>1. ASSUME NEW pos \in SeekTargets, Seek(pos)
      PROVE  Inv'
  <2>1. pos \in 0 .. FSize /\ bytes = <<>>
    BY <1>1, InputsAssumption DEF Inv, PlayerInv, Seek
  <2> QED
    BY <1>1, <2>1, DoSeekInv DEF Seek
<1>2. CASE SeekWoken
  <2>1. arg \in 0 .. FSize /\ bytes = <<>>
    BY <1>2, SizesAssumption DEF Inv, TypeOK, PlayerInv, SeekWoken
  <2> QED
    BY <1>2, <2>1, DoSeekInv DEF SeekWoken
<1> QED
  BY <1>1, <1>2

LEMMA SeekBlocksOrFaultInv ==
  ASSUME Inv, fault = "none",
         (\E pos \in SeekTargets : SeekBlocks(pos)) \/ SeekWokenTooLate \/ WriteCommitDangling
  PROVE  Inv'
<1>1. ASSUME NEW pos \in SeekTargets, SeekBlocks(pos)
      PROVE  Inv'
  <2>1. pos \in Nat /\ pos <= FSize
    BY InputsAssumption
  <2>2. TypeOK'
    BY <1>1, <2>1 DEF Inv, TypeOK, SeekBlocks, source
  <2>3. SlotsConsecutive' /\ Window'
    BY <1>1, WindowUnchanged DEF SeekBlocks
  <2>4. NoLostWakeup' /\ NeverPastWriter' /\ AssertsHold' /\ PlayerInv' /\ SourceInv'
    BY <1>1, <2>1 DEF Inv, NoLostWakeup, NeverPastWriter, AssertsHold, PlayerInv, SourceInv, SeekBlocks, source
  <2> QED
    BY <2>2, <2>3, <2>4 DEF Inv
<1>2. CASE SeekWokenTooLate \/ WriteCommitDangling
  <2>1. /\ fault' \in {"updating", "iterator"} /\ UNCHANGED <<absRPos, absWPos, updatingBuffer, slotList, buffer>>
        /\ UNCHANGED <<rpc, arg, localWPos, bytes>> /\ UNCHANGED <<wpc, block, itr>>
    BY <1>2 DEF SeekWokenTooLate, WriteCommitDangling, player, source
  <2>2. TypeOK'
    BY <2>1 DEF Inv, TypeOK
  <2>3. SlotsConsecutive' /\ Window'
    BY <2>1, WindowUnchanged
  <2>4. NoLostWakeup' /\ NeverPastWriter' /\ AssertsHold' /\ PlayerInv' /\ SourceInv'
    BY <2>1 DEF Inv, NoLostWakeup, NeverPastWriter, AssertsHold, PlayerInv, SourceInv
  <2> QED
    BY <2>2, <2>3, <2>4 DEF Inv
<1> QED
  BY <1>1, <1>2

LEMMA WriteInv ==
  ASSUME Inv, fault = "none", NEW i \in DOMAIN slotList, NEW b \in Blocks, Write(i, b)
  PROVE  Inv'
<1>1. slotList \in Seq(Slot)
  BY DEF Inv, TypeOK
<1>2. i \in 1 .. Len(slotList) /\ slotList[i].first \in Nat
  BY <1>1, SlotFields
<1>3. b[1] \in 0 .. PieceLen /\ b[2] \in 1 .. PieceLen /\ b[1] + b[2] <= PieceLen
  BY InputsAssumption
<1>4. /\ block' \in [piece : Nat, offset : 0 .. PieceLen, len : 0 .. PieceLen]
      /\ block'.len > 0 /\ block'.offset + block'.len <= PieceLen
  BY <1>2, <1>3, SizesAssumption DEF Write
<1>5. TypeOK'
  BY <1>2, <1>4 DEF Inv, TypeOK, Write, player
<1>6. SlotsConsecutive' /\ Window'
  BY WindowUnchanged DEF Write
<1>7. NoLostWakeup' /\ NeverPastWriter' /\ AssertsHold'
  BY DEF Inv, NoLostWakeup, NeverPastWriter, AssertsHold, Write, player
<1>8. PlayerInv'
  BY DEF Inv, PlayerInv, LocalIsBehind, Write, player
<1>9. SourceInv'
  BY <1>4 DEF SourceInv, Write
<1> QED
  BY <1>5, <1>6, <1>7, <1>8, <1>9 DEF Inv

LEMMA WriteCopyInv ==
  ASSUME Inv, fault = "none", WriteCopy
  PROVE  Inv'
<1> DEFINE dataPos == PosInCacheByPiece(block.piece) + block.offset
           absPos == PieceAbsPos(block.piece) + block.offset
<1>1. block.piece \in Nat /\ block.offset \in Nat /\ block.len \in Nat
  BY DEF Inv, TypeOK
<1>2. absPos \in Nat
  BY <1>1, SizesAssumption DEF PieceAbsPos
<1>3. dataPos \in Int
  BY <1>1, Sizes, SizesAssumption DEF PosInCacheByPiece
<1> HIDE DEF dataPos, absPos
<1>4. buffer' \in [0 .. CacheSize - 1 -> Nat \cup {NoByte}]
  <2>1. \A cell \in 0 .. CacheSize - 1 :
          cell \in dataPos .. dataPos + block.len - 1 => absPos + (cell - dataPos) \in Nat
    BY <1>1, <1>2, <1>3, Sizes
  <2>2. buffer' = [cell \in 0 .. CacheSize - 1 |->
                     IF cell \in dataPos .. dataPos + block.len - 1
                     THEN absPos + (cell - dataPos) ELSE buffer[cell]]
    BY DEF WriteCopy, dataPos, absPos
  <2>3. buffer \in [0 .. CacheSize - 1 -> Nat \cup {NoByte}]
    BY DEF Inv, TypeOK
  <2> QED
    BY <2>1, <2>2, <2>3
<1>5. TypeOK'
  BY <1>4 DEF Inv, TypeOK, WriteCopy, player
<1>6. SlotsConsecutive' /\ Window'
  BY WindowUnchanged DEF WriteCopy
<1>7. NoLostWakeup' /\ NeverPastWriter' /\ AssertsHold' /\ SourceInv'
  BY DEF Inv, NoLostWakeup, NeverPastWriter, AssertsHold, SourceInv, WriteCopy, player
<1>8. PlayerInv'
  BY DEF Inv, PlayerInv, LocalIsBehind, WriteCopy, player
<1> QED
  BY <1>5, <1>6, <1>7, <1>8 DEF Inv

\* What write() does to the slots and to the writing position.
LEMMA WriteCommitMoves ==
  ASSUME Inv, WriteCommit
  PROVE  /\ Full(slotList', PieceOf(absRPos))
         /\ absWPos' \in Nat /\ absWPos <= absWPos'
         /\ absWPos' <= PieceAbsPos(PieceOf(absRPos) + CacheSizeInPieces)
<1> DEFINE seg == <<block.offset, block.offset + block.len>>
           k == PieceOf(absRPos)
<1>1. /\ block.offset \in Nat /\ block.len \in Nat /\ block.len > 0
      /\ block.offset + block.len <= PieceLen
  BY DEF Inv, TypeOK, SourceInv, WriteCommit
<1>2. seg \in Segs(PieceLen)
  BY <1>1, SizesAssumption DEF Segs
<1>3. slotList' = [slotList EXCEPT ![itr].second = AddSegment(@, seg)] /\ itr \in DOMAIN slotList
  BY DEF WriteCommit
<1> HIDE DEF seg
<1>4. k \in Nat /\ Full(slotList, k)
  BY WithinCache, Pieces, SlotsAreFull DEF Inv
<1>5. slotList \in Seq(Slot) /\ itr \in 1 .. Len(slotList)
  BY <1>3, <1>4 DEF Full
<1>6. AddSegment(slotList[itr].second, seg) \in Seq(Segs(PieceLen))
  BY <1>2, <1>5, SlotFields, AddSegmentType, SizesAssumption
<1> DEFINE slot == [slotList[itr] EXCEPT !.second = AddSegment(slotList[itr].second, seg)]
<1>7. slot \in Slot /\ slot.first = slotList[itr].first
  BY <1>5, <1>6, SlotFields DEF Slot
<1>8. slotList' = [slotList EXCEPT ![itr] = slot]
  BY <1>3
<1> HIDE DEF slot
<1>9. /\ slotList' \in Seq(Slot) /\ Len(slotList') = Len(slotList)
      /\ \A i \in 1 .. Len(slotList) : slotList'[i].first = slotList[i].first
  BY <1>5, <1>7, <1>8
<1>10. Full(slotList', k)
  BY <1>4, <1>9 DEF Full
<1>11. Run(slotList', k)
  BY <1>4, <1>10, FullIsRun
<1>12. absWPos' = AdvanceWPos(slotList', itr, absWPos)
  BY DEF WriteCommit
<1>13. itr \in 1 .. Len(slotList') /\ absWPos \in Nat /\ absWPos <= PieceAbsPos(k + CacheSizeInPieces)
  BY <1>5, <1>9, WithinCache DEF Inv, Window
<1> HIDE DEF k
<1> QED
  BY <1>4, <1>10, <1>11, <1>12, <1>13, AdvanceWPosIs DEF k

LEMMA WriteCommitInv ==
  ASSUME Inv, fault = "none", WriteCommit
  PROVE  Inv'
<1>1. /\ Full(slotList', PieceOf(absRPos))
      /\ absWPos' \in Nat /\ absWPos <= absWPos'
      /\ absWPos' <= PieceAbsPos(PieceOf(absRPos) + CacheSizeInPieces)
  BY WriteCommitMoves
<1>2. absRPos' = absRPos /\ absRPos \in Nat /\ absWPos \in Nat
  BY WithinCache DEF WriteCommit
<1>3. rpc' = IF rpc = "waitNotEmpty" /\ absWPos' > absRPos THEN "woken"
             ELSE IF rpc = "seekWait" THEN "seekWoken" ELSE rpc
  BY DEF WriteCommit, Wake
<1>4. TypeOK'
  <2>1. slotList' \in Seq(Slot)
    BY <1>1 DEF Full
  <2>2. rpc' \in {"idle", "waitNotEmpty", "woken", "copy", "commit", "seekWait", "seekWoken"}
    BY <1>3 DEF Inv, TypeOK
  <2>3. block' \in [piece : Nat, offset : 0 .. PieceLen, len : 0 .. PieceLen]
    BY Sizes, SizesAssumption DEF WriteCommit
  <2> QED
    BY <1>1, <1>2, <2>1, <2>2, <2>3 DEF Inv, TypeOK, WriteCommit
<1>5. SlotsConsecutive'
  BY <1>1, <1>2 DEF SlotsConsecutive, Full
<1>6. Window'
  <2>1. PieceAbsPos(PieceOf(absRPos)) \in Nat
    BY <1>2, Pieces
  <2> QED
    BY <2>1, <1>1, <1>2 DEF Inv, Window
<1>7. NoLostWakeup'
  BY <1>1, <1>2, <1>3 DEF Inv, NoLostWakeup, WriteCommit
<1>8. NeverPastWriter' /\ AssertsHold'
  <2>1. bytes' = bytes /\ (rpc' = "commit" <=> rpc = "commit") /\ fault' = fault
    BY <1>3 DEF WriteCommit
  <2>2. Len(bytes) \in Nat
    BY DEF Inv, TypeOK
  <2> QED
    BY <2>1, <2>2, <1>1, <1>2 DEF Inv, NeverPastWriter, AssertsHold
<1>9. PlayerInv'
  <2>1. LocalIsBehind => LocalIsBehind'
    BY <1>1, <1>2 DEF LocalIsBehind, WriteCommit
  <2> QED
    BY <2>1, <1>2, <1>3 DEF Inv, PlayerInv, WriteCommit
<1>10. SourceInv'
  BY DEF SourceInv, WriteCommit
<1> QED
  BY <1>4, <1>5, <1>6, <1>7, <1>8, <1>9, <1>10 DEF Inv

LEMMA NextInv ==
  ASSUME Inv, [Next]_vars
  PROVE  Inv'
<1>1. CASE Next
  <2>1. fault = "none"
    BY <1>1 DEF Next
  <2>2. ASSUME NEW len \in ReadLens, Read(len)
        PROVE  Inv'
    BY <2>1, <2>2, ReadInv
  <2>3. ASSUME NEW len \in ReadLens, ReadBlocks(len)
        PROVE  Inv'
    BY <2>1, <2>3, ReadBlocksInv
  <2>4. CASE (\E pos \in SeekTargets : Seek(pos)) \/ SeekWoken
    BY <2>1, <2>4, SeekInv
  <2>5. CASE (\E pos \in SeekTargets : SeekBlocks(pos)) \/ SeekWokenTooLate \/ WriteCommitDangling
    BY <2>1, <2>5, SeekBlocksOrFaultInv
  <2>6. CASE ReadWoken
    BY <2>1, <2>6, ReadWokenInv
  <2>7. CASE ReadCopy
    BY <2>1, <2>7, ReadCopyInv
  <2>8. CASE ReadCommit
    BY <2>1, <2>8, ReadCommitInv
  <2>9. ASSUME NEW i \in DOMAIN slotList, NEW b \in Blocks, Write(i, b)
        PROVE  Inv'
    BY <2>1, <2>9, WriteInv
  <2>10. CASE WriteCopy
    BY <2>1, <2>10, WriteCopyInv
  <2>11. CASE WriteCommit
    BY <2>1, <2>11, WriteCommitInv
  <2> QED
    BY <1>1, <2>2, <2>3, <2>4, <2>5, <2>6, <2>7, <2>8, <2>9, <2>10, <2>11
    DEF Next, PlayerNext, PlayerInternal, SourceNext, SourceInternal
<1>2. CASE UNCHANGED vars
  <2> USE <1>2 DEF vars, player, source
  <2>1. TypeOK' /\ SlotsConsecutive' /\ Window'
    BY DEF Inv, TypeOK, SlotsConsecutive, Window
  <2>2. NoLostWakeup' /\ NeverPastWriter' /\ AssertsHold'
    BY DEF Inv, NoLostWakeup, NeverPastWriter, AssertsHold
  <2>3. PlayerInv' /\ SourceInv'
    BY DEF Inv, PlayerInv, LocalIsBehind, SourceInv
  <2> QED
    BY <2>1, <2>2, <2>3 DEF Inv
<1> QED
  BY <1>1, <1>2

-----------------------------------------------------------------------------
(***************************************************************************)
(* The theorems.                                                           *)
(***************************************************************************)

\* The inductive invariant holds in every reachable state.
THEOREM Invariance == Spec => []Inv
  BY InitInv, NextInv, PTL DEF Spec

\* The state is well-typed.
THEOREM TypeCorrect == Spec => []TypeOK
<1>1. Inv => TypeOK
  BY DEF Inv
<1> QED
  BY <1>1, Invariance, PTL

\* checkSlotsInvariant (FlatPieceMemoryStorage.cpp:179): the slots are those
\* of consecutive pieces, from the one being read on, no more than the cache
\* and the file hold.
THEOREM AlwaysConsecutive == Spec => []SlotsConsecutive
<1>1. Inv => SlotsConsecutive
  BY DEF Inv
<1> QED
  BY <1>1, Invariance, PTL

\* The writing position stays within the cache, so that positions modulo the
\* size of the cache tell how far the writer is ahead.
THEOREM AlwaysWindow == Spec => []Window
<1>1. Inv => Window
  BY DEF Inv
<1> QED
  BY <1>1, Invariance, PTL

\* Though each condition is tested once before its wait and not after, no
\* reader or seek waits for a wake-up that has already been, and none is woken
\* without the condition of bufferNotEmpty.
THEOREM NoWakeupLost == Spec => []NoLostWakeup
<1>1. Inv => NoLostWakeup
  BY DEF Inv
<1> QED
  BY <1>1, Invariance, PTL

\* read() never gives out bytes past the writing position, from the stale copy
\* of it that it works with.
THEOREM ReadsWithinWindow == Spec => []NeverPastWriter
<1>1. Inv => NeverPastWriter
  BY DEF Inv
<1> QED
  BY <1>1, Invariance, PTL

\* The assert of read() on the positions (line 37) and the one that its two
\* ways to compute the amount agree (line 86) never fail, for any sizes.
THEOREM AssertsNeverFail == Spec => []AssertsHold
<1>1. Inv => AssertsHold
  BY DEF Inv
<1> QED
  BY <1>1, Invariance, PTL

-----------------------------------------------------------------------------
(***************************************************************************)
(* The storage implements the window of ByteStream.                        *)
(***************************************************************************)

LEMMA StartIsPieceAbsPos ==
  ASSUME NEW pos \in Nat
  PROVE  Abstract!Start(pos) = PieceAbsPos(PieceOf(pos))
  BY DEF Abstract!Start, PieceAbsPos, PieceOf

LEMMA InitImplements == Init => Abstract!WindowInit
  BY DEF Init, Abstract!WindowInit, taken, Abstract!Start, FirstPieceOffset, FirstPiece, PieceAbsPos

\* The positions the window has, in every state of the invariant.
LEMMA TakenIs ==
  ASSUME Inv
  PROVE  taken \in Nat /\ absRPos <= taken
  BY WithinCache DEF taken, Inv, TypeOK, NeverPastWriter

LEMMA DoSeekImplements ==
  ASSUME Inv, rpc # "commit", NEW pos \in 0 .. FSize, DoSeek(pos)
  PROVE  Abstract!InFile(taken') /\ Abstract!Jump(taken')
<1> DEFINE new == pos + FOffset
<1>1. taken' = new /\ new \in Nat /\ FOffset <= new /\ new <= FOffset + FSize
  BY SizesAssumption DEF DoSeek, WPosAfterSeek, taken
<1>2. absWPos' = IF PieceOf(absWPos) = PieceOf(new) THEN absWPos ELSE PieceAbsPos(PieceOf(new))
  BY DEF DoSeek, WPosAfterSeek
<1> HIDE DEF new
<1>3. Abstract!Start(absWPos) = PieceOf(absWPos) * PieceLen /\ Abstract!Start(new) = PieceOf(new) * PieceLen
  BY DEF Abstract!Start, PieceOf
<1>4. PieceOf(absWPos) \in Nat /\ PieceOf(new) \in Nat
  BY <1>1, WithinCache, Pieces
<1>5. \A p, q \in Nat : p * PieceLen = q * PieceLen => p = q
  BY SizesAssumption
<1>6. absWPos' = IF Abstract!Start(absWPos) = Abstract!Start(new) THEN absWPos ELSE Abstract!Start(new)
  BY <1>2, <1>3, <1>4, <1>5 DEF PieceAbsPos
<1> QED
  BY <1>1, <1>6 DEF Abstract!InFile, Abstract!Jump

LEMMA WriteCommitImplements ==
  ASSUME Inv, WriteCommit
  PROVE  Abstract!Extend \/ UNCHANGED <<taken, absWPos>>
<1> DEFINE k == PieceOf(absRPos)
<1>1. /\ absWPos' \in Nat /\ absWPos <= absWPos'
      /\ absWPos' <= PieceAbsPos(k + CacheSizeInPieces)
  BY WriteCommitMoves
<1>2. taken' = taken
  BY DEF WriteCommit, Wake, taken
<1>3. taken \in Nat /\ absRPos <= taken /\ absRPos \in Nat
  BY TakenIs, WithinCache
<1>4. k \in Nat /\ PieceOf(taken) \in Nat /\ k <= PieceOf(taken)
  BY <1>3, Pieces, DivMonotonic, SizesAssumption DEF PieceOf
<1>5. PieceAbsPos(k + CacheSizeInPieces) <= PieceAbsPos(PieceOf(taken) + CacheSizeInPieces)
  <2>1. k + CacheSizeInPieces \in Nat /\ PieceOf(taken) + CacheSizeInPieces \in Nat
    BY <1>4, SizesAssumption
  <2> QED
    BY <2>1, <1>4, SizesAssumption, PiecesMonotonic
<1>6. PieceAbsPos(PieceOf(taken) + CacheSizeInPieces) = Abstract!Start(taken) + PieceLen * CacheSizeInPieces
  BY <1>4, SizesAssumption DEF PieceAbsPos, PieceOf, Abstract!Start
<1>7. /\ PieceAbsPos(k + CacheSizeInPieces) \in Nat
      /\ PieceAbsPos(PieceOf(taken) + CacheSizeInPieces) \in Nat
  BY <1>4, SizesAssumption DEF PieceAbsPos
<1> HIDE DEF k
<1>8. absWPos' <= Abstract!Start(taken) + PieceLen * CacheSizeInPieces
  BY <1>1, <1>5, <1>6, <1>7
<1>9. absWPos' = absWPos \/ Abstract!Extend
  BY <1>1, <1>2, <1>8, WithinCache DEF Abstract!Extend
<1> QED
  BY <1>2, <1>9

LEMMA ReadCopyImplements ==
  ASSUME Inv, fault = "none", ReadCopy
  PROVE  taken' > taken /\ Abstract!Advance(taken' - taken)
<1>1. Inv'
  BY ReadCopyInv
<1>2. taken = absRPos /\ taken' = absRPos + Len(bytes') /\ absWPos' = absWPos
  BY DEF ReadCopy, taken
<1>3. Len(bytes') \in Nat \ {0} /\ absRPos + Len(bytes') <= absWPos
  BY <1>1 DEF Inv, TypeOK, PlayerInv, NeverPastWriter, ReadCopy
<1> QED
  BY <1>2, <1>3, WithinCache DEF Abstract!Advance

LEMMA NextImplements ==
  ASSUME Inv, [Next]_vars
  PROVE  Abstract!WindowNext \/ UNCHANGED <<taken, absWPos>>
<1>1. CASE Next
  <2>1. fault = "none"
    BY <1>1 DEF Next
  <2>2. CASE \E len \in ReadLens : Read(len) \/ ReadBlocks(len)
    BY <2>2 DEF Read, ReadBlocks, TakeLocals, taken
  <2>3. CASE (\E pos \in SeekTargets : SeekBlocks(pos)) \/ SeekWokenTooLate \/ WriteCommitDangling
    BY <2>3 DEF SeekBlocks, SeekWokenTooLate, WriteCommitDangling, taken, player
  <2>4. ASSUME NEW pos \in SeekTargets, Seek(pos)
        PROVE  Abstract!WindowNext
    BY <2>4, DoSeekImplements, InputsAssumption DEF Seek, Abstract!WindowNext
  <2>5. CASE SeekWoken
    <3>1. arg \in 0 .. FSize
      BY <2>5, SizesAssumption DEF Inv, TypeOK, PlayerInv, SeekWoken
    <3> QED
      BY <3>1, <2>5, DoSeekImplements DEF SeekWoken, Abstract!WindowNext
  <2>6. CASE ReadWoken
    BY <2>6 DEF ReadWoken, TakeLocals, taken
  <2>7. CASE ReadCopy
    BY <2>1, <2>7, ReadCopyImplements DEF Abstract!WindowNext
  <2>8. CASE ReadCommit
    BY <2>8 DEF ReadCommit, taken
  <2>9. CASE \E i \in DOMAIN slotList, b \in Blocks : Write(i, b)
    BY <2>9 DEF Write, player, taken
  <2>10. CASE WriteCopy
    BY <2>10 DEF WriteCopy, player, taken
  <2>11. CASE WriteCommit
    BY <2>11, WriteCommitImplements DEF Abstract!WindowNext
  <2> QED
    BY <1>1, <2>2, <2>3, <2>4, <2>5, <2>6, <2>7, <2>8, <2>9, <2>10, <2>11
    DEF Next, PlayerNext, PlayerInternal, SourceNext, SourceInternal
<1>2. CASE UNCHANGED vars
  BY <1>2 DEF vars, player, taken
<1> QED
  BY <1>1, <1>2

\* Every interleaving of reads, seeks and writes is a behaviour of the window
\* of readable positions: positions only move as its steps allow.
THEOREM StorageImplementsWindow == Spec => ImplementsWindow
<1>1. Init => Abstract!WindowInit
  BY InitImplements
<1>2. Inv /\ [Next]_vars => [Abstract!WindowNext]_<<taken, absWPos>>
  BY NextImplements
<1> QED
  BY <1>1, <1>2, Invariance, PTL DEF Spec, ImplementsWindow, Abstract!WindowSpec

-----------------------------------------------------------------------------
(***************************************************************************)
(* Cells of the cache: what a position is modulo its size, the piece and   *)
(* the offset it is made of, and the cells of two pieces.                  *)
(***************************************************************************)

LEMMA ModIs ==
  ASSUME NEW c \in Nat \ {0}, NEW q \in Nat, NEW r \in 0 .. c - 1
  PROVE  (c * q + r) % c = r
<1> DEFINE x == c * q + r
<1>1. x \in Nat /\ c * q \in Nat
  OBVIOUS
<1>2. /\ x \div c \in Nat /\ x % c \in 0 .. c - 1
      /\ x = c * (x \div c) + (x % c)
  BY <1>1, DivMod
<1>3. PICK d \in Nat, e \in 0 .. c - 1 : x = c * d + e /\ x % c = e
  BY <1>2
<1>4. d = q
  <2>1. CASE d < q
    <3>1. c * (d + 1) <= c * q
      BY <2>1
    <3>2. c * (d + 1) = c * d + c
      OBVIOUS
    <3> QED
      BY <3>1, <3>2, <1>3
  <2>2. CASE q < d
    <3>1. c * (q + 1) <= c * d
      BY <2>2
    <3>2. c * (q + 1) = c * q + c
      OBVIOUS
    <3> QED
      BY <3>1, <3>2, <1>3
  <2> QED
    BY <2>1, <2>2
<1>5. e = r
  BY <1>1, <1>3, <1>4
<1> QED
  BY <1>3, <1>5

\* Going on by less than a cache wraps once at most.
LEMMA PosAdd ==
  ASSUME NEW pos \in Nat, FirstPieceOffset <= pos, NEW d \in 0 .. CacheSize - 1
  PROVE  LET r == PosInCacheByAbsPos(pos)
         IN PosInCacheByAbsPos(pos + d) = IF r + d < CacheSize THEN r + d ELSE r + d - CacheSize
<1> DEFINE a == pos - FirstPieceOffset
<1>1. a \in Nat /\ CacheSize \in Nat \ {0} /\ (pos + d) - FirstPieceOffset = a + d
  BY Sizes
<1>2. PosInCacheByAbsPos(pos) = a % CacheSize /\ PosInCacheByAbsPos(pos + d) = (a + d) % CacheSize
  <2>1. PosInCacheByAbsPos(pos + d) = ((pos + d) - FirstPieceOffset) % CacheSize
    BY DEF PosInCacheByAbsPos
  <2>2. (pos + d) - FirstPieceOffset = a + d
    BY <1>1
  <2>3. PosInCacheByAbsPos(pos) = a % CacheSize
    BY DEF PosInCacheByAbsPos
  <2> HIDE DEF a
  <2> QED
    BY <2>1, <2>2, <2>3, Zenon
<1> HIDE DEF a
<1>3. PICK q \in Nat, r \in 0 .. CacheSize - 1 : a = CacheSize * q + r /\ a % CacheSize = r
  BY <1>1, DivMod
<1>4. CASE r + d < CacheSize
  <2>1. a + d = CacheSize * q + (r + d) /\ r + d \in 0 .. CacheSize - 1
    BY <1>1, <1>3, <1>4
  <2>2. (CacheSize * q + (r + d)) % CacheSize = r + d
    BY <1>1, <2>1, ModIs
  <2> QED
    BY <1>2, <1>3, <1>4, <2>1, <2>2
<1>5. CASE ~ (r + d < CacheSize)
  <2>1. /\ CacheSize * (q + 1) = CacheSize * q + CacheSize /\ CacheSize * q \in Nat
        /\ q + 1 \in Nat /\ r + d - CacheSize \in 0 .. CacheSize - 1
    BY <1>1, <1>3, <1>5
  <2>2. a + d = CacheSize * (q + 1) + (r + d - CacheSize)
    BY <1>1, <1>3, <2>1
  <2>3. (CacheSize * (q + 1) + (r + d - CacheSize)) % CacheSize = r + d - CacheSize
    BY <1>1, <2>1, ModIs
  <2> QED
    BY <1>2, <1>3, <1>5, <2>2, <2>3
<1> QED
  BY <1>4, <1>5

\* The cell of a byte of a piece, by its position and by its piece.
LEMMA CellIs ==
  ASSUME NEW piece \in Nat, FirstPiece <= piece, NEW b \in 0 .. PieceLen - 1
  PROVE  /\ PosInCacheByPiece(piece) \in Nat /\ PosInCacheByPiece(piece) + b \in 0 .. CacheSize - 1
         /\ PosInCacheByAbsPos(PieceAbsPos(piece) + b) = PosInCacheByPiece(piece) + b
<1> DEFINE a == piece - FirstPiece
<1>1. a \in Nat /\ FirstPiece \in Nat /\ PieceLen \in Nat \ {0} /\ CacheSizeInPieces \in Nat \ {0}
  BY Sizes, SizesAssumption
<1>2. /\ PosInCacheByPiece(piece) = (a % CacheSizeInPieces) * PieceLen
      /\ (PieceAbsPos(piece) + b) - FirstPieceOffset = a * PieceLen + b
  BY <1>1 DEF PosInCacheByPiece, PieceAbsPos, FirstPieceOffset
<1> HIDE DEF a
<1>3. PICK q \in Nat, m \in 0 .. CacheSizeInPieces - 1 :
        a = CacheSizeInPieces * q + m /\ a % CacheSizeInPieces = m
  BY <1>1, DivMod
<1>4. m * PieceLen \in Nat /\ m * PieceLen <= (CacheSizeInPieces - 1) * PieceLen
        /\ (CacheSizeInPieces - 1) * PieceLen + PieceLen = CacheSize
  <2>1. CacheSizeInPieces - 1 \in Nat /\ m \in Nat /\ m <= CacheSizeInPieces - 1
    BY <1>1, <1>3
  <2>2. m * PieceLen <= (CacheSizeInPieces - 1) * PieceLen
    BY <2>1, <1>1, ProductMonotonic
  <2>3. (CacheSizeInPieces - 1) * PieceLen + PieceLen = CacheSize
    BY <1>1 DEF CacheSize
  <2> QED
    BY <2>1, <2>2, <2>3, <1>1
<1>5. m * PieceLen + b \in 0 .. CacheSize - 1
  <2>1. (CacheSizeInPieces - 1) * PieceLen \in Int /\ CacheSize \in Nat
    BY <1>1, Sizes
  <2> QED
    BY <1>1, <1>4, <2>1
<1>6. a * PieceLen + b = CacheSize * q + (m * PieceLen + b)
  <2>1. (CacheSizeInPieces * q + m) * PieceLen = (PieceLen * CacheSizeInPieces) * q + m * PieceLen
    BY <1>1, <1>3
  <2>2. (PieceLen * CacheSizeInPieces) * q \in Nat
    BY <1>1
  <2> QED
    BY <1>3, <1>4, <2>1, <2>2 DEF CacheSize
<1>7. (CacheSize * q + (m * PieceLen + b)) % CacheSize = m * PieceLen + b
  BY <1>5, Sizes, ModIs
<1>8. PosInCacheByPiece(piece) = m * PieceLen
  BY <1>2, <1>3
<1>9. PosInCacheByAbsPos(PieceAbsPos(piece) + b) = m * PieceLen + b
  <2>1. PosInCacheByAbsPos(PieceAbsPos(piece) + b) = ((PieceAbsPos(piece) + b) - FirstPieceOffset) % CacheSize
    BY DEF PosInCacheByAbsPos
  <2> QED
    BY <2>1, <1>2, <1>6, <1>7, Zenon
<1> QED
  BY <1>4, <1>5, <1>8, <1>9

\* Pieces that the cache holds together have no cell in common.
LEMMA CellsApart ==
  ASSUME NEW p \in Nat, NEW q \in Nat, FirstPiece <= p, p < q, q < p + CacheSizeInPieces,
         NEW b \in 0 .. PieceLen - 1, NEW d \in 0 .. PieceLen - 1
  PROVE  PosInCacheByPiece(p) + b # PosInCacheByPiece(q) + d
<1> DEFINE m == (p - FirstPiece) % CacheSizeInPieces
           n == (q - FirstPiece) % CacheSizeInPieces
<1>1. /\ p - FirstPiece \in Nat /\ q - FirstPiece \in Nat /\ PieceLen \in Nat \ {0}
      /\ CacheSizeInPieces \in Nat \ {0}
      /\ p - FirstPiece < q - FirstPiece
      /\ q - FirstPiece < (p - FirstPiece) + CacheSizeInPieces
  BY Sizes, SizesAssumption
<1>2. m \in Nat /\ n \in Nat /\ m # n
  <2>1. m \in Nat /\ n \in Nat
    <3>1. \A a \in Nat : a % CacheSizeInPieces \in Nat
      BY <1>1
    <3> QED
      BY <1>1, <3>1
  <2>2. m = n => q - FirstPiece = (p - FirstPiece) + CacheSizeInPieces
    BY <1>1, ModDistance
  <2> QED
    BY <1>1, <2>1, <2>2
<1>3. PosInCacheByPiece(p) = m * PieceLen /\ PosInCacheByPiece(q) = n * PieceLen
  BY DEF PosInCacheByPiece
<1> HIDE DEF m, n
<1>4. ASSUME NEW i \in Nat, NEW j \in Nat, i < j, NEW e \in 0 .. PieceLen - 1, NEW f \in 0 .. PieceLen - 1
      PROVE  i * PieceLen + e # j * PieceLen + f
  <2>1. (i + 1) * PieceLen <= j * PieceLen
    BY <1>1, <1>4, ProductMonotonic
  <2>2. (i + 1) * PieceLen = i * PieceLen + PieceLen /\ i * PieceLen \in Nat /\ j * PieceLen \in Nat
    BY <1>1
  <2> QED
    BY <1>1, <2>1, <2>2
<1>5. m < n \/ n < m
  BY <1>2
<1>6. m * PieceLen + b # n * PieceLen + d
  BY <1>2, <1>4, <1>5
<1> QED
  BY <1>3, <1>6

-----------------------------------------------------------------------------
(***************************************************************************)
(* requestSlots() makes no bytes up, and when the reader goes on it loses  *)
(* none of those in front of it.                                           *)
(***************************************************************************)

\* Every slot of `new` that holds bytes is a slot of `old`.
From(new, old) ==
  \A j \in 1 .. Len(new) : new[j].second = <<>> \/ \E i \in 1 .. Len(old) : new[j] = old[i]

LEMMA FromEmptySlots ==
  ASSUME NEW old, NEW piece \in Nat, NEW n \in Nat
  PROVE  From(EmptySlots(piece, n), old)
<1>1. Len(EmptySlots(piece, n)) = n
  BY EmptySlotsAre
<1>2. \A i \in 1 .. n : EmptySlots(piece, n)[i].second = <<>>
  BY DEF EmptySlots, EmptySlot
<1> QED
  BY <1>1, <1>2 DEF From

LEMMA FromConcat ==
  ASSUME NEW old, NEW a \in Seq(Slot), NEW b \in Seq(Slot), From(a, old), From(b, old)
  PROVE  From(a \o b, old)
<1>1. /\ Len(a \o b) = Len(a) + Len(b) /\ Len(a) \in Nat /\ Len(b) \in Nat
      /\ \A i \in 1 .. Len(a) + Len(b) :
           (a \o b)[i] = IF i <= Len(a) THEN a[i] ELSE b[i - Len(a)]
  BY ConcatProperties
<1>2. \A i \in 1 .. Len(a) + Len(b) :
        \/ i \in 1 .. Len(a) /\ (a \o b)[i] = a[i]
        \/ i - Len(a) \in 1 .. Len(b) /\ (a \o b)[i] = b[i - Len(a)]
  BY <1>1
<1> QED
  BY <1>1, <1>2 DEF From

\* Every slot that is not empty was there before.
LEMMA RequestSlotsFrom ==
  ASSUME NEW list, NEW k \in Nat, Run(list, k), NEW piece \in Nat
  PROVE  From(RequestSlots(list, piece), list)
<1> DEFINE kept == DropBelow(list, piece)
           gap == IF kept = <<>> THEN 0 ELSE kept[1].first - piece
           held == IF kept = <<>> THEN <<>> ELSE KeepWithGap(kept, gap)
           front == IF held = <<>> THEN <<>> ELSE EmptySlots(piece, gap) \o held
           next == IF front = <<>> THEN piece ELSE front[Len(front)].first + 1
           room == Smaller(CacheSizeInPieces - Len(front), LastPiece - next + 1)
           new == EmptySlots(next, Larger(0, room))
<1>1. RequestSlots(list, piece) = front \o new
  BY DEF RequestSlots
<1>2. list \in Seq(Slot) /\ Len(list) \in Nat
  BY DEF Run
<1>3. \/ kept = <<>>
      \/ /\ kept # <<>> /\ From(kept, list)
         /\ \E q \in Nat : piece <= q /\ Run(kept, q)
  <2>1. CASE piece < k
    BY <2>1, <1>2, DropBelowIs DEF From
  <2>2. CASE piece >= k + Len(list)
    BY <2>2, DropBelowIs
  <2>3. CASE k <= piece /\ piece < k + Len(list)
    <3>1. /\ Run(kept, piece) /\ Len(kept) = Len(list) - (piece - k)
          /\ \A i \in 1 .. Len(kept) : kept[i] = list[(piece - k) + i]
      BY <2>3, DropBelowIs
    <3> HIDE DEF kept
    <3>2. \A i \in 1 .. Len(kept) : (piece - k) + i \in 1 .. Len(list)
      BY <3>1, <2>3, <1>2
    <3>3. From(kept, list)
      BY <3>1, <3>2 DEF From
    <3> QED
      BY <3>1, <3>3
  <2> QED
    BY <1>2, <2>1, <2>2, <2>3
<1>4. front \in Seq(Slot) /\ From(front, list)
  <2>1. CASE held = <<>>
    BY <2>1 DEF From
  <2>2. CASE held # <<>>
    <3>1. kept # <<>> /\ From(kept, list)
      BY <1>3, <2>2
    <3>2. PICK q \in Nat : piece <= q /\ Run(kept, q)
      BY <1>3, <3>1
    <3>3. kept[1].first = q /\ kept \in Seq(Slot) /\ Len(kept) \in Nat
      BY <3>1, <3>2 DEF Run
    <3>4. gap = q - piece /\ gap \in Nat /\ held = KeepWithGap(kept, gap)
      BY <3>1, <3>2, <3>3
    <3> HIDE DEF kept, gap
    <3> DEFINE n == Smaller(Len(kept), CacheSizeInPieces - gap)
    <3>5. held = SubSeq(kept, 1, n) /\ ~ (gap >= CacheSizeInPieces)
      BY <2>2, <3>4 DEF KeepWithGap
    <3>6. n \in 0 .. Len(kept)
      BY <3>3, <3>4, <3>5, SizesAssumption DEF Smaller
    <3> HIDE DEF n, held
    <3>7. /\ held \in Seq(Slot) /\ Len(held) = n
          /\ \A i \in 1 .. n : held[i] = kept[i]
      BY <3>3, <3>5, <3>6
    <3>8. From(held, list)
      <4>1. \A i \in 1 .. n : i \in 1 .. Len(kept)
        BY <3>3, <3>6
      <4> QED
        BY <3>1, <3>7, <4>1 DEF From
    <3>9. front = EmptySlots(piece, gap) \o held
      BY <2>2
    <3>10. EmptySlots(piece, gap) \in Seq(Slot) /\ From(EmptySlots(piece, gap), list)
      BY <3>4, EmptySlotsAre, FromEmptySlots
    <3>11. From(EmptySlots(piece, gap) \o held, list)
      BY <3>7, <3>8, <3>10, FromConcat
    <3>12. EmptySlots(piece, gap) \o held \in Seq(Slot)
      BY <3>7, <3>10, ConcatProperties
    <3> QED
      BY <3>9, <3>11, <3>12
  <2> QED
    BY <2>1, <2>2
<1> HIDE DEF front
<1>5. next \in Nat
  <2>1. CASE front = <<>>
    BY <2>1
  <2>2. CASE front # <<>>
    <3>1. Len(front) \in 1 .. Len(front)
      BY <1>4, <2>2
    <3>2. front[Len(front)].first \in Nat
      BY <1>4, <3>1, SlotFields
    <3> QED
      BY <2>2, <3>2
  <2> QED
    BY <2>1, <2>2
<1> HIDE DEF next
<1>6. Larger(0, room) \in Nat
  BY <1>4, <1>5, SizesAssumption, Sizes DEF Larger, Smaller
<1>7. new \in Seq(Slot) /\ From(new, list)
  BY <1>5, <1>6, EmptySlotsAre, FromEmptySlots
<1> QED
  BY <1>1, <1>4, <1>7, FromConcat

\* Going on, no slot from `piece` on is lost.
LEMMA RequestSlotsKeeps ==
  ASSUME NEW list, NEW k \in Nat, Run(list, k), NEW piece \in Nat, k <= piece,
         NEW i \in 1 .. Len(list), piece <= list[i].first
  PROVE  \E j \in 1 .. Len(RequestSlots(list, piece)) : RequestSlots(list, piece)[j] = list[i]
<1> DEFINE kept == DropBelow(list, piece)
           gap == IF kept = <<>> THEN 0 ELSE kept[1].first - piece
           held == IF kept = <<>> THEN <<>> ELSE KeepWithGap(kept, gap)
           front == IF held = <<>> THEN <<>> ELSE EmptySlots(piece, gap) \o held
           next == IF front = <<>> THEN piece ELSE front[Len(front)].first + 1
           room == Smaller(CacheSizeInPieces - Len(front), LastPiece - next + 1)
           new == EmptySlots(next, Larger(0, room))
           j == i - (piece - k)
<1>1. RequestSlots(list, piece) = front \o new
  BY DEF RequestSlots
<1>2. list \in Seq(Slot) /\ Len(list) \in Nat /\ list[i].first = k + i - 1
  BY DEF Run
<1>3. piece < k + Len(list) /\ (piece - k) + j = i
  BY <1>2
<1>4. /\ Run(kept, piece) /\ Len(kept) = Len(list) - (piece - k)
      /\ \A l \in 1 .. Len(kept) : kept[l] = list[(piece - k) + l]
  <2>1. k <= piece /\ piece < k + Len(list)
    BY <1>3
  <2> HIDE DEF kept
  <2>2. /\ Run(DropBelow(list, piece), piece)
        /\ Len(DropBelow(list, piece)) = Len(list) - (piece - k)
        /\ \A l \in 1 .. Len(DropBelow(list, piece)) :
             DropBelow(list, piece)[l] = list[(piece - k) + l]
    BY <2>1, DropBelowIs, ZenonT(30)
  <2> QED
    BY <2>2 DEF kept
<1>5. j \in 1 .. Len(kept)
  BY <1>2, <1>4
<1>6. kept[j] = list[i]
  BY <1>3, <1>4, <1>5
<1>7. /\ kept \in Seq(Slot) /\ Len(kept) \in Nat /\ Len(kept) <= CacheSizeInPieces /\ kept # <<>>
      /\ kept[1].first = piece
  <2> HIDE DEF kept, j
  <2>1. /\ kept \in Seq(Slot) /\ Len(kept) \in Nat /\ Len(kept) <= CacheSizeInPieces
        /\ \A l \in 1 .. Len(kept) : kept[l].first = piece + l - 1
    BY <1>4 DEF Run
  <2>2. 1 \in 1 .. Len(kept)
    BY <1>5, <2>1
  <2>3. kept[1].first = piece + 1 - 1
    BY <2>1, <2>2
  <2>4. kept # <<>>
    BY <2>2
  <2> QED
    BY <2>1, <2>3, <2>4
<1>8. gap = 0 /\ held = KeepWithGap(kept, 0)
  BY <1>7
<1> HIDE DEF kept, j
<1>9. held = kept
  <2>1. ~ (0 >= CacheSizeInPieces) /\ Smaller(Len(kept), CacheSizeInPieces - 0) = Len(kept)
    BY <1>7, SizesAssumption DEF Smaller
  <2>2. KeepWithGap(kept, 0) = SubSeq(kept, 1, Len(kept))
    BY <2>1 DEF KeepWithGap
  <2> QED
    BY <1>7, <1>8, <2>2, SubSeqFull
<1>10. front = kept
  <2>1. EmptySlots(piece, 0) = <<>>
    <3>1. EmptySlots(piece, 0) \in Seq(Slot) /\ Len(EmptySlots(piece, 0)) = 0
      BY EmptySlotsAre
    <3> QED
      BY <3>1, EmptySeq
  <2>2. front = EmptySlots(piece, 0) \o kept
    BY <1>7, <1>8, <1>9
  <2> QED
    BY <1>7, <2>1, <2>2, ConcatEmptySeq
<1> HIDE DEF front
<1>11. new \in Seq(Slot)
  <2>1. next \in Nat
    <3>1. Len(kept) \in 1 .. Len(kept)
      BY <1>7
    <3>2. kept[Len(kept)].first \in Nat
      BY <1>7, <3>1, SlotFields
    <3> QED
      BY <1>7, <1>10, <3>2
  <2> HIDE DEF next
  <2>2. Larger(0, room) \in Nat
    BY <1>7, <1>10, <2>1, SizesAssumption, Sizes DEF Larger, Smaller
  <2> HIDE DEF room
  <2> QED
    BY <2>1, <2>2, EmptySlotsAre
<1> HIDE DEF new
<1>12. /\ Len(kept \o new) = Len(kept) + Len(new) /\ Len(new) \in Nat
       /\ \A l \in 1 .. Len(kept) + Len(new) :
            (kept \o new)[l] = IF l <= Len(kept) THEN kept[l] ELSE new[l - Len(kept)]
  BY <1>7, <1>11, ConcatProperties
<1>13. j \in 1 .. Len(kept \o new) /\ (kept \o new)[j] = kept[j]
  BY <1>5, <1>7, <1>12
<1> QED
  BY <1>1, <1>6, <1>10, <1>13

-----------------------------------------------------------------------------
(***************************************************************************)
(* read() copies consecutive cells, from the end of the cache on to its    *)
(* beginning.                                                              *)
(***************************************************************************)
LEMMA CopyOutCells ==
  ASSUME NEW len \in Nat \ {0}, NEW r \in 0 .. CacheSize - 1, NEW w \in 0 .. CacheSize - 1, r # w,
         NEW i \in 1 .. ObtainBytes(len, r, w)
  PROVE  /\ i - 1 \in 0 .. CacheSize - 1
         /\ CopyOut(len, r, w)[i] =
              buffer[IF r + (i - 1) < CacheSize THEN r + (i - 1) ELSE r + (i - 1) - CacheSize]
<1> DEFINE n == ObtainBytes(len, r, w)
<1>1. CacheSize \in Nat
  BY Sizes
<1>2. n \in Nat \ {0} /\ n <= Available(r, w) /\ Available(r, w) <= CacheSize
  BY <1>1, AmountsAgree DEF Available
<1>3. i \in Nat \ {0} /\ i <= n /\ i - 1 \in 0 .. CacheSize - 1
  <2>1. i \in 1 .. n /\ n \in Nat
    BY <1>2
  <2>2. Available(r, w) \in Int
    BY <1>1 DEF Available
  <2> HIDE DEF n
  <2> QED
    BY <1>1, <1>2, <2>1, <2>2
<1>4. CASE Straight(len, r, w)
  <2>1. r + n - 1 <= CacheSize - 1
    BY <1>1, <1>4 DEF ObtainBytes, Straight, Smaller
  <2>2. CopyOut(len, r, w) = [l \in 1 .. n |-> buffer[r + l - 1]]
    BY <1>4 DEF CopyOut
  <2> HIDE DEF n
  <2>3. i \in 1 .. n /\ r + i - 1 = r + (i - 1) /\ r + (i - 1) < CacheSize
    BY <1>1, <1>2, <1>3, <2>1
  <2>4. CopyOut(len, r, w)[i] = buffer[r + i - 1]
    BY <2>2, <2>3
  <2> QED
    BY <1>3, <2>3, <2>4
<1>5. CASE ~ Straight(len, r, w)
  <2>1. n - (CacheSize - r) \in Nat /\ CacheSize - r \in Nat
    BY <1>1, <1>5 DEF ObtainBytes, Straight, Smaller
  <2> DEFINE tail == [l \in 1 .. CacheSize - r |-> buffer[r + l - 1]]
             rest == [l \in 1 .. n - (CacheSize - r) |-> buffer[l - 1]]
  <2>2. CopyOut(len, r, w) = tail \o rest
    BY <1>5 DEF CopyOut
  <2> HIDE DEF n
  <2>3. /\ Len(tail) = CacheSize - r /\ Len(rest) = n - (CacheSize - r)
        /\ \A l \in 1 .. CacheSize - r : tail[l] = buffer[r + l - 1]
        /\ \A l \in 1 .. n - (CacheSize - r) : rest[l] = buffer[l - 1]
    BY <2>1
  <2>4. tail \in Seq({buffer[r + l - 1] : l \in 1 .. CacheSize - r})
    BY <2>1
  <2>5. rest \in Seq({buffer[l - 1] : l \in 1 .. n - (CacheSize - r)})
    BY <2>1
  <2> HIDE DEF tail, rest
  <2> DEFINE S == {buffer[r + l - 1] : l \in 1 .. CacheSize - r}
                    \cup {buffer[l - 1] : l \in 1 .. n - (CacheSize - r)}
  <2>6. tail \in Seq(S) /\ rest \in Seq(S)
    BY <2>4, <2>5, SeqMonotonic
  <2> HIDE DEF S
  <2>7. \A l \in 1 .. Len(tail) + Len(rest) :
          (tail \o rest)[l] = IF l <= Len(tail) THEN tail[l] ELSE rest[l - Len(tail)]
    BY <2>6, ConcatProperties
  <2>8. i \in 1 .. Len(tail) + Len(rest)
    BY <1>1, <1>2, <1>3, <2>1, <2>3
  <2>9. CASE i <= CacheSize - r
    <3>1. (tail \o rest)[i] = tail[i] /\ i \in 1 .. CacheSize - r
      BY <1>3, <2>1, <2>3, <2>7, <2>8, <2>9
    <3>2. r + i - 1 = r + (i - 1) /\ r + (i - 1) < CacheSize
      BY <1>1, <1>3, <2>9
    <3> QED
      BY <1>3, <2>2, <2>3, <3>1, <3>2
  <2>10. CASE ~ (i <= CacheSize - r)
    <3>1. (tail \o rest)[i] = rest[i - (CacheSize - r)]
      BY <2>3, <2>7, <2>8, <2>10
    <3>2. /\ i - (CacheSize - r) \in 1 .. n - (CacheSize - r) /\ ~ (r + (i - 1) < CacheSize)
          /\ (i - (CacheSize - r)) - 1 = r + (i - 1) - CacheSize
      BY <1>1, <1>2, <1>3, <2>1, <2>10
    <3> QED
      BY <1>3, <2>2, <2>3, <3>1, <3>2
  <2> QED
    BY <2>9, <2>10
<1> QED
  BY <1>4, <1>5

-----------------------------------------------------------------------------
(***************************************************************************)
(* Slots that do not change under a write() (SteadySpec; reads and writes  *)
(* may overlap).  Then what a slot claims to hold is in its cells, the     *)
(* bytes from the beginning of the piece being read up to the writing      *)
(* position are claimed, and write() finds its slot again after its        *)
(* memcpy.                                                                 *)
(***************************************************************************)

InCell(piece, b) == buffer[PosInCacheByPiece(piece) + b] = PieceAbsPos(piece) + b

Backed(list) ==
  \A i \in 1 .. Len(list) : \A b \in Claimed(list[i].second) : InCell(list[i].first, b)

Held(list, pos) ==
  \E i \in 1 .. Len(list) :
    list[i].first = PieceOf(pos) /\ pos - PieceAbsPos(PieceOf(pos)) \in Claimed(list[i].second)

Covered == \A pos \in PieceAbsPos(PieceOf(absRPos)) .. absWPos - 1 : Held(slotList, pos)

WriteUnderWay ==
  /\ wpc # "idle" => itr \in 1 .. Len(slotList) /\ slotList[itr].first = block.piece
  /\ wpc = "commit" =>
       \A b \in block.offset .. block.offset + block.len - 1 : InCell(block.piece, b)

SteadyInv == Backed(slotList) /\ Covered /\ WriteUnderWay /\ ReadsCorrect

LEMMA ClaimedInPiece ==
  ASSUME NEW segs \in Seq(Segs(PieceLen))
  PROVE  Claimed(segs) \subseteq 0 .. PieceLen - 1
<1> SUFFICES ASSUME NEW b \in Claimed(segs) PROVE b \in 0 .. PieceLen - 1
  OBVIOUS
<1>1. PICK i \in 1 .. Len(segs) : b \in Bytes(segs[i])
  BY ClaimedIs
<1>2. segs[i] \in Segs(PieceLen)
  OBVIOUS
<1>3. \A s \in Segs(PieceLen) : \A c \in Bytes(s) : c \in 0 .. PieceLen - 1
  BY SizesAssumption DEF Segs, Bytes
<1> QED
  BY <1>1, <1>2, <1>3

LEMMA PieceOfAtLeast ==
  ASSUME NEW pos \in Nat, NEW piece \in Nat, PieceAbsPos(piece) <= pos
  PROVE  piece <= PieceOf(pos)
<1>1. PieceOf(pos) \in Nat /\ pos < PieceAbsPos(PieceOf(pos)) + PieceLen
  BY Pieces
<1>2. SUFFICES ASSUME PieceOf(pos) + 1 <= piece PROVE FALSE
  BY <1>1
<1>3. PieceAbsPos(PieceOf(pos) + 1) <= PieceAbsPos(piece)
  BY <1>1, <1>2, PiecesMonotonic
<1>4. PieceAbsPos(PieceOf(pos) + 1) = PieceAbsPos(PieceOf(pos)) + PieceLen
  BY <1>1, SizesAssumption DEF PieceAbsPos
<1>5. PieceAbsPos(piece) \in Nat /\ PieceAbsPos(PieceOf(pos)) \in Nat
  BY <1>1, SizesAssumption DEF PieceAbsPos
<1> QED
  BY <1>1, <1>3, <1>4, <1>5, SizesAssumption

\* The piece that is read is one of the file's.
LEMMA ReadPiece ==
  ASSUME Inv
  PROVE  /\ PieceOf(absRPos) \in Nat /\ FirstPiece <= PieceOf(absRPos)
         /\ Full(slotList, PieceOf(absRPos)) /\ Run(slotList, PieceOf(absRPos))
<1>1. absRPos \in Nat /\ FOffset \in Nat /\ FOffset <= absRPos
  BY SizesAssumption DEF Inv, TypeOK, PlayerInv
<1>2. PieceOf(absRPos) \in Nat
  BY <1>1, Pieces
<1>3. FirstPiece <= PieceOf(absRPos)
  BY <1>1, DivMonotonic, SizesAssumption DEF FirstPiece, PieceOf
<1>4. Full(slotList, PieceOf(absRPos))
  BY SlotsAreFull DEF Inv
<1> QED
  BY <1>2, <1>3, <1>4, FullIsRun

\* The bytes announced as readable are those of the file.
LEMMA IntactWhenCovered ==
  ASSUME Inv, Backed(slotList), Covered
  PROVE  WindowIntact
<1> SUFFICES ASSUME NEW pos \in absRPos .. absWPos - 1
             PROVE  buffer[PosInCacheByAbsPos(pos)] = pos
  BY DEF WindowIntact
<1>1. pos \in Nat /\ absRPos \in Nat /\ absWPos \in Nat /\ absRPos <= pos /\ pos < absWPos
  BY WithinCache
<1>2. /\ PieceAbsPos(PieceOf(absRPos)) <= absRPos /\ PieceAbsPos(PieceOf(absRPos)) \in Nat
      /\ PieceOf(pos) \in Nat /\ PieceAbsPos(PieceOf(pos)) \in Nat
  BY <1>1, Pieces
<1>3. pos \in PieceAbsPos(PieceOf(absRPos)) .. absWPos - 1
  BY <1>1, <1>2
<1> DEFINE b == pos - PieceAbsPos(PieceOf(pos))
<1>4. PICK i \in 1 .. Len(slotList) :
        slotList[i].first = PieceOf(pos) /\ b \in Claimed(slotList[i].second)
  BY <1>3 DEF Covered, Held
<1>5. InCell(PieceOf(pos), b)
  BY <1>4 DEF Backed
<1>6. FirstPiece <= PieceOf(pos) /\ b \in 0 .. PieceLen - 1
  <2>1. FirstPiece \in Nat /\ PieceOf(absRPos) \in Nat /\ FirstPiece <= PieceOf(absRPos)
    BY Sizes, ReadPiece
  <2>2. PieceOf(absRPos) <= PieceOf(pos)
    BY <1>1, DivMonotonic, SizesAssumption DEF PieceOf
  <2>3. PieceAbsPos(PieceOf(pos)) <= pos /\ pos < PieceAbsPos(PieceOf(pos)) + PieceLen
    BY <1>1, Pieces
  <2>4. b \in 0 .. PieceLen - 1
    BY <1>1, <1>2, <2>3, SizesAssumption
  <2> QED
    BY <1>2, <2>1, <2>2, <2>4
<1>7. PieceAbsPos(PieceOf(pos)) + b = pos
  BY <1>1, <1>2
<1> HIDE DEF b
<1>8. PosInCacheByAbsPos(pos) = PosInCacheByPiece(PieceOf(pos)) + b
  BY <1>2, <1>6, <1>7, CellIs
<1> QED
  BY <1>5, <1>7, <1>8 DEF InCell

\* requestSlots() keeps what is backed, and what is held in front of the reader.
LEMMA BackedFrom ==
  ASSUME Backed(slotList), From(slotList', slotList), buffer' = buffer
  PROVE  Backed(slotList)'
<1> SUFFICES ASSUME NEW i \in 1 .. Len(slotList'), NEW b \in Claimed(slotList'[i].second)
             PROVE  InCell(slotList'[i].first, b)
  BY DEF Backed, InCell
<1>1. CASE slotList'[i].second = <<>>
  <2>1. Len(<<>>) = 0
    OBVIOUS
  <2> QED
    BY <1>1, <2>1, ClaimedIs
<1>2. ASSUME NEW j \in 1 .. Len(slotList), slotList'[i] = slotList[j]
      PROVE  InCell(slotList'[i].first, b)
  BY <1>2 DEF Backed
<1> QED
  BY <1>1, <1>2 DEF From

LEMMA HeldAfterRequest ==
  ASSUME NEW list, NEW k \in Nat, Run(list, k), NEW piece \in Nat, k <= piece,
         NEW pos \in Nat, PieceAbsPos(piece) <= pos, Held(list, pos)
  PROVE  Held(RequestSlots(list, piece), pos)
<1>1. PICK i \in 1 .. Len(list) :
        list[i].first = PieceOf(pos) /\ pos - PieceAbsPos(PieceOf(pos)) \in Claimed(list[i].second)
  BY DEF Held
<1>2. piece <= list[i].first
  BY <1>1, PieceOfAtLeast
<1>3. PICK j \in 1 .. Len(RequestSlots(list, piece)) : RequestSlots(list, piece)[j] = list[i]
  BY <1>2, RequestSlotsKeeps
<1> QED
  BY <1>1, <1>3 DEF Held

\* The loop of write() announces only bytes that its slots hold.
LEMMA AdvanceHeld ==
  ASSUME NEW list, NEW k \in Nat, Run(list, k), NEW i \in 1 .. Len(list), NEW wpos \in Nat,
         \A pos \in PieceAbsPos(k) .. wpos - 1 : Held(list, pos),
         NEW pos \in PieceAbsPos(k) .. AdvanceWPos(list, i, wpos) - 1
  PROVE  Held(list, pos)
<1> DEFINE n == LastVisited(list, i)
           reached == PieceAbsPos(list[n].first) + BytesAvailable(list[n].second)
<1>1. /\ list \in Seq(Slot) /\ Len(list) \in Nat
      /\ \A j \in 1 .. Len(list) : list[j].first = k + j - 1
  BY DEF Run
<1>2. /\ n \in i .. Len(list) /\ n \in 1 .. Len(list)
      /\ \A j \in i .. n - 1 : BytesAvailable(list[j].second) >= PieceLen
  BY <1>1, LastVisitedIs
<1>3. /\ AdvanceWPos(list, i, wpos) \in {Larger(reached, wpos), wpos}
      /\ AdvanceWPos(list, i, wpos) = wpos \/ \E j \in i .. n : list[j].first = PieceOf(wpos)
  BY DEF AdvanceWPos
<1> HIDE DEF n
<1>4. \A j \in 1 .. Len(list) :
        /\ BytesAvailable(list[j].second) \in 0 .. PieceLen
        /\ 0 .. BytesAvailable(list[j].second) - 1 \subseteq Claimed(list[j].second)
  BY <1>1, SlotFields, BytesAvailableIs, SizesAssumption
<1>5. /\ PieceAbsPos(k) \in Nat /\ reached \in Nat
      /\ PieceAbsPos(k + n) \in Nat /\ reached <= PieceAbsPos(k + n)
  <2>1. list[n].first = k + n - 1 /\ k + n - 1 \in Nat /\ k + n \in Nat /\ n \in Nat
    BY <1>1, <1>2
  <2>2. \A p \in Nat : PieceAbsPos(p) \in Nat /\ PieceAbsPos(p) + PieceLen = PieceAbsPos(p + 1)
    BY SizesAssumption DEF PieceAbsPos
  <2>3. (k + n - 1) + 1 = k + n
    BY <2>1
  <2>4. /\ PieceAbsPos(list[n].first) \in Nat
        /\ PieceAbsPos(list[n].first) + PieceLen = PieceAbsPos(k + n)
    BY <2>1, <2>2, <2>3
  <2>5. BytesAvailable(list[n].second) \in 0 .. PieceLen
    BY <1>2, <1>4
  <2>6. PieceAbsPos(k) \in Nat /\ PieceAbsPos(k + n) \in Nat
    BY <2>1, <2>2
  <2>7. \A a \in Nat, b \in 0 .. PieceLen : a + b \in Nat /\ a + b <= a + PieceLen
    BY SizesAssumption
  <2>8. reached \in Nat /\ reached <= PieceAbsPos(list[n].first) + PieceLen
    BY <2>4, <2>5, <2>7
  <2> QED
    BY <2>4, <2>6, <2>8
<1>6. pos \in Nat /\ PieceAbsPos(k) <= pos /\ pos < AdvanceWPos(list, i, wpos)
  BY <1>3, <1>5 DEF Larger
<1>7. CASE pos < wpos
  BY <1>5, <1>6, <1>7
<1>8. CASE wpos <= pos
  <2>1. pos < reached /\ AdvanceWPos(list, i, wpos) # wpos
    BY <1>3, <1>5, <1>6, <1>8 DEF Larger
  <2>2. PICK l \in i .. n : list[l].first = PieceOf(wpos)
    BY <1>3, <2>1
  <2>3. PieceOf(wpos) = k + l - 1 /\ l \in Nat /\ i <= l /\ l <= n
    BY <1>1, <1>2, <2>2
  <2>4. PieceOf(pos) \in Nat /\ PieceAbsPos(PieceOf(pos)) \in Nat
        /\ PieceAbsPos(PieceOf(pos)) <= pos /\ pos < PieceAbsPos(PieceOf(pos)) + PieceLen
    BY <1>6, Pieces
  <2>5. PieceOf(wpos) <= PieceOf(pos)
    BY <1>6, <1>8, DivMonotonic, SizesAssumption DEF PieceOf
  <2>6. PieceOf(pos) <= k + n - 1
    <3>1. SUFFICES ASSUME k + n <= PieceOf(pos) PROVE FALSE
      BY <1>2, <2>4
    <3>2. PieceAbsPos(k + n) <= PieceAbsPos(PieceOf(pos)) /\ PieceAbsPos(k + n) \in Nat
      BY <1>2, <2>4, <3>1, PiecesMonotonic
    <3> QED
      BY <1>5, <1>6, <2>1, <2>4, <3>2
  <2> DEFINE j == PieceOf(pos) - k + 1
             b == pos - PieceAbsPos(PieceOf(pos))
  <2>7. j \in i .. n /\ j \in 1 .. Len(list) /\ list[j].first = PieceOf(pos)
    <3>1. j \in i .. n /\ j \in 1 .. Len(list) /\ k + j - 1 = PieceOf(pos)
      BY <1>2, <2>3, <2>4, <2>5, <2>6
    <3> QED
      BY <1>1, <3>1
  <2>8. b \in 0 .. PieceLen - 1
    BY <1>6, <2>4, SizesAssumption
  <2>9. b \in 0 .. BytesAvailable(list[j].second) - 1
    <3>1. CASE j < n
      <4>1. BytesAvailable(list[j].second) >= PieceLen
        BY <1>2, <2>7, <3>1
      <4> QED
        BY <1>4, <2>7, <2>8, <4>1, SizesAssumption
    <3>2. CASE j = n
      <4>1. PieceOf(pos) = list[n].first
        BY <2>7, <3>2
      <4>2. pos < PieceAbsPos(PieceOf(pos)) + BytesAvailable(list[j].second)
        BY <2>1, <3>2, <4>1
      <4> QED
        BY <1>4, <1>6, <2>4, <2>7, <2>8, <4>2, SMTT(30)
    <3> QED
      BY <1>2, <2>7, <3>1, <3>2
  <2>10. b \in Claimed(list[j].second)
    BY <1>4, <2>7, <2>9
  <2> QED
    BY <2>7, <2>10 DEF Held
<1> QED
  BY <1>6, <1>7, <1>8

\* A block that write() copies comes into its cells, and overwrites no other
\* byte of a piece that has a slot.
LEMMA WriteCopyCells ==
  ASSUME Inv, WriteUnderWay, WriteCopy
  PROVE  /\ \A b \in block.offset .. block.offset + block.len - 1 : InCell(block.piece, b)'
         /\ \A i \in 1 .. Len(slotList) : \A b \in 0 .. PieceLen - 1 :
              InCell(slotList[i].first, b) => InCell(slotList[i].first, b)'
<1> DEFINE q == block.piece
           k == PieceOf(absRPos)
           dataPos == PosInCacheByPiece(q) + block.offset
           written == dataPos .. dataPos + block.len - 1
<1>1. /\ k \in Nat /\ FirstPiece <= k /\ FirstPiece \in Nat /\ Len(slotList) \in Nat
      /\ Len(slotList) <= CacheSizeInPieces
      /\ \A i \in 1 .. Len(slotList) : slotList[i].first = k + i - 1
  BY ReadPiece, Sizes DEF Run
<1>2. itr \in 1 .. Len(slotList) /\ q = slotList[itr].first
  BY DEF WriteUnderWay, WriteCopy
<1>3. /\ block.offset \in Nat /\ block.len \in Nat /\ q \in Nat
      /\ block.offset + block.len <= PieceLen
  BY DEF Inv, TypeOK, SourceInv, WriteCopy
<1>4. FirstPiece <= q
  BY <1>1, <1>2
<1>5. 0 \in 0 .. PieceLen - 1 /\ PieceLen \in Nat
  BY SizesAssumption
<1>6. PosInCacheByPiece(q) \in Nat
  BY <1>3, <1>4, <1>5, CellIs
<1>7. /\ buffer' = [cell \in 0 .. CacheSize - 1 |->
                     IF cell \in written
                     THEN (PieceAbsPos(q) + block.offset) + (cell - dataPos) ELSE buffer[cell]]
      /\ block' = block /\ slotList' = slotList
  BY DEF WriteCopy
<1>8. PieceAbsPos(q) \in Nat
  BY <1>3, SizesAssumption DEF PieceAbsPos
<1>9. ASSUME NEW b \in 0 .. PieceLen - 1, PosInCacheByPiece(q) + b \in written
      PROVE  buffer'[PosInCacheByPiece(q) + b] = PieceAbsPos(q) + b
  <2>1. PosInCacheByPiece(q) + b \in 0 .. CacheSize - 1
    BY <1>3, <1>4, CellIs
  <2>2. (PieceAbsPos(q) + block.offset) + ((PosInCacheByPiece(q) + b) - dataPos) = PieceAbsPos(q) + b
    BY <1>3, <1>5, <1>6, <1>8
  <2> QED
    BY <1>7, <1>9, <2>1, <2>2
<1>10. ASSUME NEW b \in block.offset .. block.offset + block.len - 1
       PROVE  InCell(q, b)'
  <2>1. b \in 0 .. PieceLen - 1 /\ PosInCacheByPiece(q) + b \in written
    BY <1>3, <1>5, <1>6
  <2> QED
    BY <1>7, <1>9, <2>1 DEF InCell
<1>11. ASSUME NEW i \in 1 .. Len(slotList), NEW b \in 0 .. PieceLen - 1,
              InCell(slotList[i].first, b)
       PROVE  buffer'[PosInCacheByPiece(slotList[i].first) + b] = PieceAbsPos(slotList[i].first) + b
  <2> DEFINE p == slotList[i].first
             cell == PosInCacheByPiece(p) + b
  <2>1. /\ p \in Nat /\ FirstPiece <= p /\ p < q + CacheSizeInPieces /\ q < p + CacheSizeInPieces
    <3>1. p = k + i - 1 /\ q = k + itr - 1
      BY <1>1, <1>2
    <3>2. i \in Nat /\ itr \in Nat /\ 1 <= i /\ 1 <= itr
          /\ i <= CacheSizeInPieces /\ itr <= CacheSizeInPieces /\ CacheSizeInPieces \in Nat
      BY <1>1, <1>2, SizesAssumption
    <3> HIDE DEF p, q, k
    <3> QED
      BY <1>1, <3>1, <3>2
  <2>2. cell \in 0 .. CacheSize - 1
    BY <2>1, CellIs
  <2>3. CASE cell \notin written
    BY <1>7, <1>11, <2>2, <2>3 DEF InCell
  <2>4. CASE cell \in written
    <3>1. PICK d \in 0 .. PieceLen - 1 : cell = PosInCacheByPiece(q) + d
      <4> HIDE DEF cell, q
      <4>1. \A x, o, l \in Nat, c \in Int :
              c \in (x + o) .. (x + o) + l - 1 /\ o + l <= PieceLen => c - x \in 0 .. PieceLen - 1
        BY <1>5
      <4>2. cell \in Int
        BY <2>2, Sizes
      <4>3. cell - PosInCacheByPiece(q) \in 0 .. PieceLen - 1
        BY <1>3, <1>6, <2>4, <4>1, <4>2
      <4>4. cell = PosInCacheByPiece(q) + (cell - PosInCacheByPiece(q))
        BY <1>6, <4>2
      <4> QED
        BY <4>3, <4>4
    <3>2. ~ (p < q) /\ ~ (q < p)
      BY <1>3, <1>4, <2>1, <3>1, CellsApart
    <3>3. p = q
      BY <1>3, <2>1, <3>2
    <3> QED
      BY <1>9, <2>4, <3>3
  <2> QED
    BY <2>3, <2>4
<1> QED
  BY <1>7, <1>10, <1>11 DEF InCell

\* What is left alone while the positions, the slots and the cells are.
LEMMA HeldUnchanged ==
  ASSUME SteadyInv, UNCHANGED <<absRPos, absWPos, slotList, buffer>>
  PROVE  Backed(slotList)' /\ Covered'
<1>1. Backed(slotList)'
  BY DEF SteadyInv, Backed, InCell
<1>2. Covered'
  BY DEF SteadyInv, Covered
<1> QED
  BY <1>1, <1>2

\* The slots after requestSlots(): their bytes are in their cells and, if the
\* writing position stays and the new reading position is not before the piece
\* that was read, the bytes up to it are still held.
LEMMA RequestKeepsBytes ==
  ASSUME Inv, SteadyInv, NEW pos \in Nat, absRPos' = pos, buffer' = buffer,
         slotList' = RequestSlots(slotList, PieceOf(pos))
  PROVE  /\ Backed(slotList)'
         /\ absWPos' = absWPos /\ PieceOf(absRPos) <= PieceOf(pos) => Covered'
<1> DEFINE k == PieceOf(absRPos)
           piece == PieceOf(pos)
<1>1. k \in Nat /\ Run(slotList, k) /\ absWPos \in Nat
  BY ReadPiece, WithinCache
<1>2. piece \in Nat
  BY Pieces
<1> HIDE DEF k, piece
<1>3. Backed(slotList)'
  <2>1. From(slotList', slotList)
    BY <1>1, <1>2, RequestSlotsFrom DEF piece
  <2> QED
    BY <2>1, BackedFrom DEF SteadyInv
<1>4. ASSUME absWPos' = absWPos, k <= piece
      PROVE  Covered'
  <2> SUFFICES ASSUME NEW p \in PieceAbsPos(piece) .. absWPos - 1
               PROVE  Held(RequestSlots(slotList, piece), p)
    BY <1>4 DEF Covered, piece
  <2>1. /\ PieceAbsPos(k) \in Nat /\ PieceAbsPos(piece) \in Nat
        /\ PieceAbsPos(k) <= PieceAbsPos(piece)
    BY <1>1, <1>2, <1>4, PiecesMonotonic
  <2>2. p \in Nat /\ PieceAbsPos(piece) <= p /\ p \in PieceAbsPos(k) .. absWPos - 1
    BY <1>1, <2>1
  <2>3. Held(slotList, p)
    BY <2>2 DEF SteadyInv, Covered, k
  <2> QED
    BY <1>1, <1>2, <1>4, <2>2, <2>3, HeldAfterRequest
<1> QED
  BY <1>3, <1>4 DEF k, piece

-----------------------------------------------------------------------------
(***************************************************************************)
(* Every step that leaves the slots steady keeps what is held, one lemma   *)
(* for each action that can disturb it.                                    *)
(***************************************************************************)

LEMMA ReadCopySteady ==
  ASSUME Inv, SteadyInv, fault = "none", ReadCopy
  PROVE  SteadyInv'
<1> DEFINE r == PosInCacheByAbsPos(absRPos)
           n == ObtainBytes(arg, r, localWPos)
<1>1. WindowIntact
  BY IntactWhenCovered DEF SteadyInv
<1>2. arg \in Nat \ {0} /\ LocalIsBehind /\ rpc = "copy"
  BY DEF Inv, TypeOK, PlayerInv, ReadCopy
<1>3. PICK w \in absRPos + 1 .. absWPos :
        w < absRPos + CacheSize /\ localWPos = PosInCacheByAbsPos(w)
  BY <1>2 DEF LocalIsBehind
<1>4. /\ w \in Nat /\ absRPos < w /\ w <= absRPos + CacheSize /\ w # absRPos + CacheSize
      /\ w <= absWPos /\ w - absRPos < CacheSize
  BY <1>3, WithinCache, Sizes
<1>5. /\ r \in 0 .. CacheSize - 1 /\ localWPos \in 0 .. CacheSize - 1 /\ r # localWPos
      /\ Available(r, localWPos) = w - absRPos
  BY <1>3, <1>4, WithinCache, PositionsInCache
<1>6. n \in Nat \ {0} /\ n <= w - absRPos
  BY <1>2, <1>5, AmountsAgree
<1>7. bytes' = CopyOut(arg, r, localWPos) /\ absRPos' = absRPos
  BY DEF ReadCopy
<1>8. CopyOut(arg, r, localWPos) \in Seq(Nat \cup {NoByte}) /\ Len(CopyOut(arg, r, localWPos)) = n
  BY <1>2, <1>5, CopyOutIs DEF Inv, TypeOK
<1>9. ASSUME NEW i \in 1 .. n
      PROVE  CopyOut(arg, r, localWPos)[i] = absRPos + i - 1
  <2>1. /\ i - 1 \in 0 .. CacheSize - 1
        /\ CopyOut(arg, r, localWPos)[i] =
             buffer[IF r + (i - 1) < CacheSize THEN r + (i - 1) ELSE r + (i - 1) - CacheSize]
    BY <1>2, <1>5, CopyOutCells
  <2>2. PosInCacheByAbsPos(absRPos + (i - 1)) =
          IF r + (i - 1) < CacheSize THEN r + (i - 1) ELSE r + (i - 1) - CacheSize
    BY <2>1, WithinCache, PosAdd
  <2>3. absRPos + (i - 1) \in absRPos .. absWPos - 1 /\ absRPos + (i - 1) = absRPos + i - 1
    BY <1>4, <1>6, WithinCache
  <2>4. buffer[PosInCacheByAbsPos(absRPos + (i - 1))] = absRPos + (i - 1)
    BY <1>1, <2>3 DEF WindowIntact
  <2> QED
    BY <2>1, <2>2, <2>3, <2>4
<1> HIDE DEF n
<1>10. DOMAIN bytes' = 1 .. n
  BY <1>6, <1>7, <1>8
<1>11. ReadsCorrect'
  BY <1>7, <1>9, <1>10 DEF ReadsCorrect
<1>12. Backed(slotList)' /\ Covered'
  BY HeldUnchanged DEF ReadCopy
<1>13. WriteUnderWay'
  BY DEF SteadyInv, WriteUnderWay, InCell, ReadCopy, source
<1> QED
  BY <1>11, <1>12, <1>13 DEF SteadyInv

\* A request that leaves the slots as they are leaves an index into them alone.
LEMMA SameSlotsSameIndex ==
  ASSUME Inv, NEW pos \in Nat, itr \in 1 .. Len(slotList), absRPos <= pos,
         RequestSlots(slotList, PieceOf(pos)) = slotList
  PROVE  Reindexed(slotList, PieceOf(pos)) = itr
<1> DEFINE k == PieceOf(absRPos)
           piece == PieceOf(pos)
<1>1. k \in Nat /\ FirstPiece <= k /\ Run(slotList, k) /\ piece \in Nat /\ absRPos \in Nat
  BY ReadPiece, Pieces, WithinCache
<1>2. k <= piece
  BY <1>1, DivMonotonic, SizesAssumption DEF PieceOf
<1> HIDE DEF k, piece
<1>3. slotList[1].first = k /\ slotList \in Seq(Slot) /\ 1 \in 1 .. Len(slotList)
  BY <1>1 DEF Run
<1>4. slotList[1].first = piece
  <2>1. Run(slotList, piece)
    BY <1>1, <1>2, RequestSlotsIs, FullIsRun DEF piece
  <2> QED
    BY <1>1, <1>3, <2>1 DEF Run
<1>5. DropBelow(slotList, piece) # <<>>
  BY <1>1, <1>3, <1>4, DropBelowIs
<1> QED
  BY <1>5 DEF Reindexed, piece

LEMMA ReadCommitSteady ==
  ASSUME Inv, SteadyInv, ReadCommit, wpc # "idle" => slotList' = slotList
  PROVE  SteadyInv'
<1> DEFINE pos == absRPos + Len(bytes)
<1>1. bytes \in Seq(Nat \cup {NoByte}) /\ Len(bytes) \in Nat
  BY DEF Inv, TypeOK
<1>2. pos \in Nat /\ absRPos \in Nat /\ absRPos <= pos
  BY <1>1, WithinCache
<1>3. absRPos' = pos /\ absWPos' = absWPos /\ buffer' = buffer
      /\ slotList' = RequestSlots(slotList, PieceOf(pos))
  BY DEF ReadCommit
<1>4. itr' = Reindexed(slotList, PieceOf(pos)) /\ wpc' = wpc /\ block' = block
  BY DEF ReadCommit
<1> HIDE DEF pos
<1>5. PieceOf(absRPos) <= PieceOf(pos)
  BY <1>2, DivMonotonic, SizesAssumption DEF PieceOf
<1>6. Backed(slotList)' /\ Covered'
  BY <1>2, <1>3, <1>5, RequestKeepsBytes
<1>7. WriteUnderWay'
  <2>1. CASE wpc = "idle"
    BY <1>4, <2>1 DEF WriteUnderWay
  <2>2. CASE wpc # "idle"
    <3>1. itr \in 1 .. Len(slotList) /\ slotList' = slotList
      BY <2>2 DEF SteadyInv, WriteUnderWay
    <3>2. itr' = itr
      BY <1>2, <1>3, <1>4, <3>1, SameSlotsSameIndex
    <3> QED
      BY <1>3, <1>4, <3>1, <3>2 DEF SteadyInv, WriteUnderWay, InCell
  <2> QED
    BY <2>1, <2>2
<1>8. ReadsCorrect'
  BY DEF ReadsCorrect, ReadCommit
<1> QED
  BY <1>6, <1>7, <1>8 DEF SteadyInv

\* After a seek the readable bytes are none, or those of the piece that both
\* the writing position and the new reading position are in.
LEMMA DoSeekSteady ==
  ASSUME Inv, SteadyInv, wpc = "idle", NEW pos \in 0 .. FSize, DoSeek(pos)
  PROVE  SteadyInv'
<1> DEFINE new == pos + FOffset
<1>1. new \in Nat /\ absRPos \in Nat /\ absWPos \in Nat
  BY SizesAssumption, WithinCache
<1>2. /\ absRPos' = new /\ buffer' = buffer
      /\ absWPos' = IF PieceOf(absWPos) = PieceOf(new) THEN absWPos ELSE PieceAbsPos(PieceOf(new))
      /\ slotList' = RequestSlots(slotList, PieceOf(new))
  BY DEF DoSeek, WPosAfterSeek
<1>3. WriteUnderWay' /\ ReadsCorrect'
  BY DEF WriteUnderWay, ReadsCorrect, DoSeek, source
<1> HIDE DEF new
<1>4. Backed(slotList)'
  BY <1>1, <1>2, RequestKeepsBytes
<1>5. CASE PieceOf(absWPos) = PieceOf(new)
  <2>1. PieceOf(absRPos) <= PieceOf(absWPos)
    BY <1>1, ReadPiece, PieceOfAtLeast DEF Inv, Window
  <2>2. Covered'
    BY <1>1, <1>2, <1>5, <2>1, RequestKeepsBytes
  <2> QED
    BY <1>3, <1>4, <2>2 DEF SteadyInv
<1>6. CASE PieceOf(absWPos) # PieceOf(new)
  <2>1. PieceAbsPos(PieceOf(new)) \in Nat /\ absWPos' = PieceAbsPos(PieceOf(absRPos'))
    BY <1>1, <1>2, <1>6, Pieces
  <2>2. Covered'
    BY <1>2, <2>1 DEF Covered
  <2> QED
    BY <1>3, <1>4, <2>2 DEF SteadyInv
<1> QED
  BY <1>5, <1>6

LEMMA WriteCopySteady ==
  ASSUME Inv, SteadyInv, WriteCopy
  PROVE  SteadyInv'
<1>1. /\ \A b \in block.offset .. block.offset + block.len - 1 : InCell(block.piece, b)'
      /\ \A i \in 1 .. Len(slotList) : \A b \in 0 .. PieceLen - 1 :
           InCell(slotList[i].first, b) => InCell(slotList[i].first, b)'
  BY WriteCopyCells DEF SteadyInv
<1>2. slotList' = slotList /\ absRPos' = absRPos /\ absWPos' = absWPos /\ block' = block /\ itr' = itr
      /\ wpc = "copy" /\ rpc' = rpc
  BY DEF WriteCopy, player
<1>3. slotList \in Seq(Slot)
  BY DEF Inv, TypeOK
<1>4. Backed(slotList)'
  <2> SUFFICES ASSUME NEW i \in 1 .. Len(slotList), NEW b \in Claimed(slotList[i].second)
               PROVE  InCell(slotList[i].first, b)'
    BY <1>2 DEF Backed, InCell
  <2>1. b \in 0 .. PieceLen - 1
    BY <1>3, SlotFields, ClaimedInPiece
  <2>2. InCell(slotList[i].first, b)
    BY DEF SteadyInv, Backed
  <2> QED
    BY <1>1, <2>1, <2>2
<1>5. Covered'
  BY <1>2 DEF SteadyInv, Covered
<1>6. WriteUnderWay'
  BY <1>1, <1>2 DEF SteadyInv, WriteUnderWay, InCell
<1>7. ReadsCorrect'
  BY DEF SteadyInv, ReadsCorrect, WriteCopy, player
<1> QED
  BY <1>4, <1>5, <1>6, <1>7 DEF SteadyInv

\* What is recorded as arrived has been copied, and the writing position moves
\* over recorded bytes only.
LEMMA WriteCommitSteady ==
  ASSUME Inv, SteadyInv, WriteCommit
  PROVE  SteadyInv'
<1> DEFINE seg == <<block.offset, block.offset + block.len>>
           k == PieceOf(absRPos)
<1>1. /\ block.offset \in Nat /\ block.len \in Nat /\ block.len > 0
      /\ block.offset + block.len <= PieceLen
  BY DEF Inv, TypeOK, SourceInv, WriteCommit
<1>2. /\ seg \in Segs(PieceLen)
      /\ Bytes(seg) = block.offset .. block.offset + block.len - 1
  <2>1. seg \in Segs(PieceLen)
    BY <1>1, SizesAssumption DEF Segs
  <2>2. Bytes(seg) = block.offset .. block.offset + block.len - 1
    BY <1>1 DEF Bytes
  <2> QED
    BY <2>1, <2>2
<1>3. /\ slotList' = [slotList EXCEPT ![itr].second = AddSegment(@, seg)]
      /\ absWPos' = AdvanceWPos(slotList', itr, absWPos)
      /\ absRPos' = absRPos /\ buffer' = buffer /\ wpc = "commit" /\ wpc' = "idle"
  BY DEF WriteCommit
<1>4. /\ itr \in 1 .. Len(slotList) /\ slotList[itr].first = block.piece
      /\ \A b \in block.offset .. block.offset + block.len - 1 : InCell(block.piece, b)
  BY <1>3 DEF SteadyInv, WriteUnderWay
<1> HIDE DEF seg
<1>5. slotList \in Seq(Slot)
  BY DEF Inv, TypeOK
<1>6. Claimed(AddSegment(slotList[itr].second, seg)) = Claimed(slotList[itr].second) \cup Bytes(seg)
  <2>1. slotList[itr].second \in Seq(Segs(PieceLen))
    BY <1>4, <1>5, SlotFields
  <2> QED
    BY <1>2, <2>1, AddSegmentClaims, SizesAssumption
<1>7. /\ Len(slotList') = Len(slotList)
      /\ \A i \in 1 .. Len(slotList) :
           /\ slotList'[i].first = slotList[i].first
           /\ Claimed(slotList'[i].second) =
                Claimed(slotList[i].second) \cup (IF i = itr THEN Bytes(seg) ELSE {})
  <2> DEFINE slot == [slotList[itr] EXCEPT !.second = AddSegment(slotList[itr].second, seg)]
  <2>1. slotList[itr] \in Slot
    BY <1>4, <1>5
  <2>2. slot.first = slotList[itr].first /\ slot.second = AddSegment(slotList[itr].second, seg)
    BY <2>1 DEF Slot
  <2>3. slotList' = [slotList EXCEPT ![itr] = slot]
    BY <1>3
  <2> HIDE DEF slot
  <2>4. /\ Len(slotList') = Len(slotList)
        /\ \A i \in 1 .. Len(slotList) : slotList'[i] = IF i = itr THEN slot ELSE slotList[i]
    BY <1>4, <1>5, <2>3
  <2> QED
    BY <1>6, <2>2, <2>4
<1>8. Backed(slotList)'
  <2> SUFFICES ASSUME NEW i \in 1 .. Len(slotList'), NEW b \in Claimed(slotList'[i].second)
               PROVE  buffer'[PosInCacheByPiece(slotList'[i].first) + b] = PieceAbsPos(slotList'[i].first) + b
    BY DEF Backed, InCell
  <2>1. i \in 1 .. Len(slotList) /\ slotList'[i].first = slotList[i].first
    BY <1>7
  <2>2. InCell(slotList[i].first, b)
    <3>1. CASE b \in Claimed(slotList[i].second)
      BY <2>1, <3>1 DEF SteadyInv, Backed
    <3>2. CASE i = itr /\ b \in Bytes(seg)
      BY <1>2, <1>4, <3>2
    <3> QED
      BY <1>7, <2>1, <3>1, <3>2
  <2> QED
    BY <1>3, <2>1, <2>2 DEF InCell
<1>9. Covered'
  <2>1. /\ k \in Nat /\ Run(slotList', k) /\ absWPos \in Nat
    BY ReadPiece, WithinCache, WriteCommitMoves, FullIsRun
  <2>2. \A pos \in PieceAbsPos(k) .. absWPos - 1 : Held(slotList', pos)
    BY <1>7 DEF SteadyInv, Covered, Held
  <2>3. itr \in 1 .. Len(slotList')
    BY <1>4, <1>7
  <2> HIDE DEF k
  <2>4. \A pos \in PieceAbsPos(k) .. AdvanceWPos(slotList', itr, absWPos) - 1 : Held(slotList', pos)
    BY <2>1, <2>2, <2>3, AdvanceHeld
  <2> QED
    BY <1>3, <2>4 DEF Covered, k
<1>10. WriteUnderWay' /\ ReadsCorrect'
  <2>1. bytes' = bytes /\ absRPos' = absRPos /\ (rpc' = "commit" => rpc = "commit")
    BY DEF WriteCommit, Wake
  <2> QED
    BY <1>3, <2>1 DEF SteadyInv, WriteUnderWay, ReadsCorrect
<1> QED
  BY <1>8, <1>9, <1>10 DEF SteadyInv

LEMMA InitSteady == Init => SteadyInv
<1> SUFFICES ASSUME Init
             PROVE  SteadyInv
  OBVIOUS
<1>1. From(slotList, <<>>) /\ Len(slotList) \in Nat
  BY NoSlotsIsRun, RequestSlotsFrom, RequestSlotsIs, Sizes, SMTT(30) DEF Init, Full
<1>2. Backed(slotList)
  <2>1. \A i \in 1 .. Len(slotList) : slotList[i].second = <<>>
    BY <1>1 DEF From
  <2>2. \A b : b \notin Claimed(<<>>)
    BY ClaimedIs
  <2> QED
    BY <2>1, <2>2 DEF Backed
<1>3. Covered
  <2>1. PieceAbsPos(PieceOf(absRPos)) = absWPos /\ absWPos \in Nat
    BY Sizes DEF Init, PieceOf, FirstPieceOffset, FirstPiece
  <2> QED
    BY <2>1 DEF Covered
<1>4. WriteUnderWay /\ ReadsCorrect
  BY DEF Init, WriteUnderWay, ReadsCorrect
<1> QED
  BY <1>2, <1>3, <1>4 DEF SteadyInv

\* The steps that change no slot, no cell and neither position.
LEMMA OtherStepsSteady ==
  ASSUME Inv, SteadyInv,
         \/ \E len \in ReadLens : Read(len) \/ ReadBlocks(len)
         \/ \E pos \in SeekTargets : SeekBlocks(pos)
         \/ ReadWoken \/ SeekWokenTooLate
         \/ UNCHANGED vars
  PROVE  SteadyInv'
<1>1. UNCHANGED <<absRPos, absWPos, slotList, buffer, bytes, wpc, block, itr>>
  BY DEF Read, ReadBlocks, TakeLocals, ReadWoken, SeekBlocks, SeekWokenTooLate, vars, player, source
<1>2. rpc' = "commit" => rpc = "commit"
  BY DEF Read, ReadBlocks, TakeLocals, ReadWoken, SeekBlocks, SeekWokenTooLate, vars, player
<1>3. Backed(slotList)' /\ Covered'
  BY <1>1, HeldUnchanged
<1>4. WriteUnderWay' /\ ReadsCorrect'
  BY <1>1, <1>2 DEF SteadyInv, WriteUnderWay, ReadsCorrect, InCell
<1> QED
  BY <1>3, <1>4 DEF SteadyInv

LEMMA WriteSteady ==
  ASSUME Inv, SteadyInv, NEW i \in DOMAIN slotList, NEW b \in Blocks, Write(i, b)
  PROVE  SteadyInv'
<1>1. Backed(slotList)' /\ Covered'
  BY HeldUnchanged DEF Write
<1>2. i \in 1 .. Len(slotList)
  BY DEF Inv, TypeOK
<1>3. WriteUnderWay'
  BY <1>2 DEF WriteUnderWay, Write
<1>4. ReadsCorrect'
  BY DEF SteadyInv, ReadsCorrect, Write, player
<1> QED
  BY <1>1, <1>3, <1>4 DEF SteadyInv

\* write() finds its slot: its iterator is not beyond the list.
LEMMA NeverDangling ==
  ASSUME Inv, SteadyInv, WriteCommitDangling
  PROVE  FALSE
<1>1. slotList \in Seq(Slot)
  BY DEF Inv, TypeOK
<1> QED
  BY <1>1 DEF SteadyInv, WriteUnderWay, WriteCommitDangling

LEMMA NextSteadyKeeps ==
  ASSUME Inv, SteadyInv, [NextSteady]_vars
  PROVE  SteadyInv'
<1>1. CASE NextSteady
  <2>1. fault = "none"
    BY <1>1 DEF NextSteady, Next
  <2>2. CASE \/ \E len \in ReadLens : Read(len) \/ ReadBlocks(len)
             \/ \E pos \in SeekTargets : SeekBlocks(pos)
             \/ ReadWoken \/ SeekWokenTooLate
    BY <2>2, OtherStepsSteady
  <2>3. CASE ReadCopy
    BY <2>1, <2>3, ReadCopySteady
  <2>4. CASE ReadCommit
    BY <1>1, <2>4, ReadCommitSteady DEF NextSteady
  \* seek() goes on only when no write is under way
  <2>5. ASSUME NEW pos \in SeekTargets, Seek(pos)
        PROVE  SteadyInv'
    BY <2>5, DoSeekSteady, InputsAssumption DEF Seek, Inv, SourceInv
  <2>6. CASE SeekWoken
    <3>1. arg \in 0 .. FSize /\ wpc = "idle"
      BY <2>6, SizesAssumption DEF Inv, TypeOK, PlayerInv, SourceInv, SeekWoken
    <3> QED
      BY <2>6, <3>1, DoSeekSteady DEF SeekWoken
  <2>7. ASSUME NEW i \in DOMAIN slotList, NEW b \in Blocks, Write(i, b)
        PROVE  SteadyInv'
    BY <2>7, WriteSteady
  <2>8. CASE WriteCopy
    BY <2>8, WriteCopySteady
  <2>9. CASE WriteCommit
    BY <2>9, WriteCommitSteady
  <2>10. CASE WriteCommitDangling
    BY <2>10, NeverDangling
  <2> QED
    BY <1>1, <2>2, <2>3, <2>4, <2>5, <2>6, <2>7, <2>8, <2>9, <2>10
    DEF NextSteady, Next, PlayerNext, PlayerInternal, SourceNext, SourceInternal
<1>2. CASE UNCHANGED vars
  BY <1>2, OtherStepsSteady
<1> QED
  BY <1>1, <1>2

-----------------------------------------------------------------------------
(***************************************************************************)
(* The theorems on steady slots.                                           *)
(***************************************************************************)

\* Calls that do not overlap leave the slots steady: all that follows holds of
\* them.
THEOREM SerialIsSteady == SerialSpec => SteadySpec
<1>1. NextSerial => NextSteady
  BY DEF NextSerial, NextSteady, Next, ReadCommit
<1> QED
  BY <1>1, PTL DEF SerialSpec, SteadySpec

\* What is held is backed, what is announced is held, and what is read is the
\* file: as long as requestSlots() changes no slot between the two locks of a
\* write(), however else the calls overlap.
THEOREM SteadyInvariance == SteadySpec => [](Inv /\ SteadyInv)
<1>1. Init => Inv /\ SteadyInv
  BY InitInv, InitSteady
<1>2. Inv /\ SteadyInv /\ [NextSteady]_vars => (Inv /\ SteadyInv)'
  <2>1. [NextSteady]_vars => [Next]_vars
    BY DEF NextSteady
  <2> QED
    BY <2>1, NextInv, NextSteadyKeeps
<1> QED
  BY <1>1, <1>2, PTL DEF SteadySpec

\* The bytes from the reading to the writing position are all in their cells:
\* no block of a later piece has overwritten one of them, for any block sizes
\* and whether they arrive in order or not, and no seek makes old cells
\* readable.
THEOREM SteadyWindowIntact == SteadySpec => []WindowIntact
<1>1. Inv /\ SteadyInv => WindowIntact
  BY IntactWhenCovered DEF SteadyInv
<1> QED
  BY <1>1, SteadyInvariance, PTL

\* What read() gives to its caller is the file, in order, though writes go on
\* while it copies.
THEOREM SteadyReadsCorrect == SteadySpec => []ReadsCorrect
<1>1. SteadyInv => ReadsCorrect
  BY DEF SteadyInv
<1> QED
  BY <1>1, SteadyInvariance, PTL

\* What the bytes a read gives out are, as a function.
LEMMA BytesAreStream ==
  ASSUME Inv, ReadsCorrect, rpc = "commit"
  PROVE  bytes = [i \in 1 .. Len(bytes) |-> absRPos + i - 1]
<1>1. bytes \in Seq(Nat \cup {NoByte})
  BY DEF Inv, TypeOK
<1>2. bytes = [i \in 1 .. Len(bytes) |-> bytes[i]] /\ DOMAIN bytes = 1 .. Len(bytes)
  BY <1>1
<1>3. \A i \in 1 .. Len(bytes) : bytes[i] = absRPos + i - 1
  BY <1>2 DEF ReadsCorrect
<1> QED
  BY <1>2, <1>3

LEMMA InitStream == Init => Abstract!StreamInit
  BY InitImplements DEF Abstract!StreamInit, Init

LEMMA NextStream ==
  ASSUME Inv, SteadyInv, [NextSteady]_vars
  PROVE  [Abstract!StreamNext]_<<taken, absWPos, bytes>>
<1>1. CASE NextSteady
  <2>1. fault = "none" /\ Next /\ Inv' /\ SteadyInv'
    BY <1>1, NextInv, NextSteadyKeeps DEF NextSteady, Next
  <2>2. CASE \E len \in ReadLens : Read(len) \/ ReadBlocks(len)
    BY <2>2 DEF Read, ReadBlocks, TakeLocals, taken
  <2>3. CASE (\E pos \in SeekTargets : SeekBlocks(pos)) \/ SeekWokenTooLate \/ WriteCommitDangling
    BY <2>3 DEF SeekBlocks, SeekWokenTooLate, WriteCommitDangling, taken, player
  <2>4. ASSUME NEW pos \in SeekTargets, Seek(pos)
        PROVE  Abstract!StreamNext
    <3>1. Abstract!InFile(taken') /\ Abstract!Jump(taken')
      BY <2>4, DoSeekImplements, InputsAssumption DEF Seek
    <3> QED
      BY <2>4, <3>1 DEF Abstract!StreamNext, Seek, DoSeek
  <2>5. CASE SeekWoken
    <3>1. arg \in 0 .. FSize
      BY <2>5, SizesAssumption DEF Inv, TypeOK, PlayerInv, SeekWoken
    <3>2. Abstract!InFile(taken') /\ Abstract!Jump(taken')
      BY <3>1, <2>5, DoSeekImplements DEF SeekWoken
    <3> QED
      BY <2>5, <3>2 DEF Abstract!StreamNext, SeekWoken, DoSeek
  <2>6. CASE ReadWoken
    BY <2>6 DEF ReadWoken, TakeLocals, taken
  <2>7. CASE ReadCopy
    <3>1. taken' > taken /\ Abstract!Advance(taken' - taken)
      BY <2>1, <2>7, ReadCopyImplements
    <3>2. bytes = <<>> /\ rpc' = "commit" /\ absRPos' = absRPos
      BY <2>7 DEF Inv, PlayerInv, ReadCopy
    <3>3. /\ taken = absRPos /\ taken' = absRPos + Len(bytes')
          /\ absRPos \in Nat /\ Len(bytes') \in Nat
      BY <2>1, <2>7, WithinCache DEF ReadCopy, taken, Inv, TypeOK
    <3>4. taken' - taken = Len(bytes')
      BY <3>3
    <3>5. bytes' = [i \in 1 .. Len(bytes') |-> absRPos' + i - 1]
      <4>1. (Inv /\ ReadsCorrect /\ rpc = "commit" =>
               bytes = [i \in 1 .. Len(bytes) |-> absRPos + i - 1])'
        BY BytesAreStream, PTL
      <4> QED
        BY <2>1, <3>2, <4>1 DEF SteadyInv
    <3>6. bytes' = [i \in 1 .. taken' - taken |-> taken + i - 1]
      BY <3>2, <3>3, <3>4, <3>5
    <3>7. Abstract!TakeBytes(taken' - taken)
      BY <3>1, <3>2, <3>6 DEF Abstract!TakeBytes
    <3> QED
      BY <3>1, <3>7 DEF Abstract!StreamNext
  <2>8. CASE ReadCommit
    <3>1. bytes # <<>> /\ bytes' = <<>> /\ UNCHANGED <<taken, absWPos>>
      BY <2>8 DEF Inv, PlayerInv, ReadCommit, taken
    <3> QED
      BY <3>1 DEF Abstract!StreamNext, Abstract!Return
  <2>9. CASE \E i \in DOMAIN slotList, b \in Blocks : Write(i, b)
    BY <2>9 DEF Write, player, taken
  <2>10. CASE WriteCopy
    BY <2>10 DEF WriteCopy, player, taken
  <2>11. CASE WriteCommit
    <3>1. bytes' = bytes
      BY <2>11 DEF WriteCommit
    <3> QED
      BY <2>11, <3>1, WriteCommitImplements DEF Abstract!StreamNext
  <2> QED
    BY <2>1, <2>2, <2>3, <2>4, <2>5, <2>6, <2>7, <2>8, <2>9, <2>10, <2>11
    DEF Next, PlayerNext, PlayerInternal, SourceNext, SourceInternal
<1>2. CASE UNCHANGED vars
  BY <1>2 DEF vars, player, taken
<1> QED
  BY <1>1, <1>2

\* While the slots are steady, reads give out the bytes of the stream itself: the
\* cache with its slots implements the byte stream.
THEOREM StorageImplementsStream == SteadySpec => ImplementsStream
<1>1. Init => Abstract!StreamInit
  BY InitStream
<1>2. Inv /\ SteadyInv /\ [NextSteady]_vars => [Abstract!StreamNext]_<<taken, absWPos, bytes>>
  BY NextStream
<1> QED
  BY <1>1, <1>2, SteadyInvariance, PTL
  DEF SteadySpec, ImplementsStream, Abstract!StreamSpec

\* The byte stream is a window that also says which bytes a read gives out: of the
\* two promises the storage keeps one always, and the stronger one while the slots
\* are steady.
THEOREM StreamIsWindow == ImplementsStream => ImplementsWindow
<1>1. Abstract!StreamInit => Abstract!WindowInit
  BY DEF Abstract!StreamInit
<1>2. [Abstract!StreamNext]_<<taken, absWPos, bytes>> => [Abstract!WindowNext]_<<taken, absWPos>>
  BY DEF Abstract!StreamNext, Abstract!WindowNext, Abstract!TakeBytes, Abstract!Return
<1> QED
  BY <1>1, <1>2, PTL
  DEF ImplementsStream, ImplementsWindow, Abstract!StreamSpec, Abstract!WindowSpec

-----------------------------------------------------------------------------
(***************************************************************************)
(* The loop of write() that moves the writing position (line 124), one     *)
(* turn at a time.  AdvanceWPos is a closed form of it: it says what the   *)
(* first turn does, and then what the turns from the next slot on do.      *)
(***************************************************************************)

\* A slot where the loop may stop is the last one it visits.
LEMMA LastVisitedUnique ==
  ASSUME NEW list \in Seq(Slot), NEW i \in 1 .. Len(list), NEW m \in i .. Len(list),
         \A j \in i .. m - 1 : BytesAvailable(list[j].second) >= PieceLen,
         m < Len(list) => BytesAvailable(list[m].second) < PieceLen
  PROVE  LastVisited(list, i) = m
<1> DEFINE n == LastVisited(list, i)
<1>1. /\ n \in i .. Len(list)
      /\ \A j \in i .. n - 1 : BytesAvailable(list[j].second) >= PieceLen
      /\ n < Len(list) => BytesAvailable(list[n].second) < PieceLen
  BY LastVisitedIs
<1> HIDE DEF n
<1>2. \A j \in 1 .. Len(list) : BytesAvailable(list[j].second) \in Nat
  BY SlotFields, BytesAvailableIs, SizesAssumption
<1>3. CASE n < m
  <2>1. n \in i .. m - 1 /\ n < Len(list) /\ n \in 1 .. Len(list)
    BY <1>1, <1>3
  <2> QED
    BY <1>1, <1>2, <2>1, SizesAssumption
<1>4. CASE m < n
  <2>1. m \in i .. n - 1 /\ m < Len(list) /\ m \in 1 .. Len(list)
    BY <1>1, <1>4
  <2> QED
    BY <1>1, <1>2, <2>1, SizesAssumption
<1>5. n \in Int /\ m \in Int
  BY <1>1
<1>6. ~ (n < m) /\ ~ (m < n) => n = m
  BY <1>5
<1> QED
  BY <1>3, <1>4, <1>6 DEF n

\* Whether the turn at slot i is the last one.
Stops(list, i) == BytesAvailable(list[i].second) < PieceLen \/ i = Len(list)

LEMMA LastTurn ==
  ASSUME NEW list \in Seq(Slot), NEW i \in 1 .. Len(list), NEW wpos \in Nat, Stops(list, i)
  PROVE  AdvanceWPos(list, i, wpos) = Moved(list, i, wpos)
<1>1. i \in i .. Len(list) /\ \A j \in i .. i - 1 : FALSE
  OBVIOUS
<1>2. i < Len(list) => BytesAvailable(list[i].second) < PieceLen
  BY DEF Stops
<1>3. LastVisited(list, i) = i
  BY <1>1, <1>2, LastVisitedUnique
<1>4. \A j \in i .. i : j = i
  OBVIOUS
<1>5. i \in i .. i
  OBVIOUS
<1> QED
  BY <1>3, <1>4, <1>5 DEF AdvanceWPos, Moved

LEMMA NextTurnVisits ==
  ASSUME NEW list \in Seq(Slot), NEW i \in 1 .. Len(list), ~ Stops(list, i)
  PROVE  /\ i + 1 \in 1 .. Len(list)
         /\ LastVisited(list, i) = LastVisited(list, i + 1)
<1> DEFINE n == LastVisited(list, i + 1)
<1>1. /\ BytesAvailable(list[i].second) \in Nat
      /\ BytesAvailable(list[i].second) >= PieceLen /\ i # Len(list)
  BY SlotFields, BytesAvailableIs, SizesAssumption DEF Stops
<1>2. i + 1 \in 1 .. Len(list)
  BY <1>1
<1>4. /\ n \in i + 1 .. Len(list)
      /\ \A j \in i + 1 .. n - 1 : BytesAvailable(list[j].second) >= PieceLen
      /\ n < Len(list) => BytesAvailable(list[n].second) < PieceLen
  BY <1>2, LastVisitedIs
<1> HIDE DEF n
<1>5. n \in i .. Len(list)
  BY <1>4
<1>6. \A j \in i .. n - 1 : j = i \/ j \in i + 1 .. n - 1
  BY <1>4
<1>7. \A j \in i .. n - 1 : BytesAvailable(list[j].second) >= PieceLen
  BY <1>1, <1>4, <1>6
<1>8. LastVisited(list, i) = n
  BY <1>4, <1>5, <1>7, LastVisitedUnique
<1> QED
  BY <1>2, <1>8 DEF n

LEMMA NextTurn ==
  ASSUME NEW list, NEW k \in Nat, Run(list, k), NEW i \in 1 .. Len(list), NEW wpos \in Nat,
         ~ Stops(list, i)
  PROVE  AdvanceWPos(list, i, wpos) = AdvanceWPos(list, i + 1, Moved(list, i, wpos))
<1> DEFINE n == LastVisited(list, i)
           p == list[i].first
           reached == PieceAbsPos(list[n].first) + BytesAvailable(list[n].second)
<1>1. list \in Seq(Slot) /\ \A j \in 1 .. Len(list) : list[j].first = k + j - 1
  BY DEF Run
<1>2. i + 1 \in 1 .. Len(list) /\ n = LastVisited(list, i + 1)
  BY <1>1, NextTurnVisits
<1>3. n \in i + 1 .. Len(list) /\ n \in 1 .. Len(list)
  BY <1>1, <1>2, LastVisitedIs
<1> HIDE DEF n
<1>4. /\ AdvanceWPos(list, i, wpos) =
           IF \E j \in i .. n : list[j].first = PieceOf(wpos) THEN Larger(reached, wpos) ELSE wpos
      /\ \A w : AdvanceWPos(list, i + 1, w) =
           IF \E j \in i + 1 .. n : list[j].first = PieceOf(w) THEN Larger(reached, w) ELSE w
  BY <1>2 DEF AdvanceWPos, n
<1>5. p = k + i - 1 /\ list[i + 1].first = p + 1 /\ p \in Nat
      /\ list[n].first = k + n - 1 /\ k + n - 1 \in Nat /\ p + 1 <= k + n - 1
  <2>1. p = k + i - 1 /\ list[i + 1].first = k + (i + 1) - 1 /\ list[n].first = k + n - 1
    BY <1>1, <1>2, <1>3
  <2>2. i \in Nat /\ 1 <= i /\ n \in Nat /\ i + 1 <= n
    BY <1>3
  <2> HIDE DEF p
  <2> QED
    BY <2>1, <2>2
<1>6. \A j \in i .. n : j = i \/ j \in i + 1 .. n
  BY <1>3
<1>7. i \in i .. n /\ i + 1 \in i + 1 .. n /\ i + 1 .. n \subseteq i .. n
  BY <1>3
<1> HIDE DEF p
<1>8. CASE PieceOf(wpos) # p
  <2>1. Moved(list, i, wpos) = wpos
    BY <1>8 DEF Moved, p
  <2>2. (\E j \in i .. n : list[j].first = PieceOf(wpos))
          <=> \E j \in i + 1 .. n : list[j].first = PieceOf(wpos)
    BY <1>6, <1>7, <1>8 DEF p
  <2> QED
    BY <1>4, <2>1, <2>2
<1>9. CASE PieceOf(wpos) = p
  <2> DEFINE next == PieceAbsPos(p + 1)
  <2>1. /\ PieceAbsPos(p) \in Nat /\ next \in Nat /\ PieceAbsPos(p) + PieceLen = next
        /\ wpos < next
    <3>1. PieceAbsPos(p) \in Nat /\ wpos < PieceAbsPos(p) + PieceLen
      BY <1>9, Pieces
    <3>2. next \in Nat /\ PieceAbsPos(p) + PieceLen = next
      BY <1>5, SizesAssumption DEF PieceAbsPos
    <3> QED
      BY <3>1, <3>2
  <2>2. BytesAvailable(list[i].second) = PieceLen
    <3>1. BytesAvailable(list[i].second) \in 0 .. PieceLen
      BY <1>1, SlotFields, BytesAvailableIs, SizesAssumption
    <3> QED
      BY <3>1, SizesAssumption DEF Stops
  <2>3. Moved(list, i, wpos) = next
    <3>1. Moved(list, i, wpos) = Larger(PieceAbsPos(p) + PieceLen, wpos)
      BY <1>9, <2>2 DEF Moved, p
    <3> HIDE DEF next
    <3> QED
      BY <2>1, <3>1 DEF Larger
  <2>4. PieceOf(next) = list[i + 1].first
    <3>1. /\ PieceOf(next) \in Nat /\ PieceAbsPos(PieceOf(next)) \in Nat
          /\ PieceAbsPos(PieceOf(next)) <= next /\ p + 1 \in Nat
      <4>1. next \in Nat /\ p + 1 \in Nat
        BY <1>5, <2>1
      <4> HIDE DEF next
      <4> QED
        BY <4>1, Pieces
    <3>2. p + 1 <= PieceOf(next)
      BY <2>1, <3>1, PieceOfAtLeast
    <3>3. PieceAbsPos(PieceOf(next)) = PieceAbsPos(p + 1)
      BY <2>1, <3>1, <3>2, PiecesMonotonic, SMTT(30)
    <3>4. \A a, b \in Nat : PieceAbsPos(a) = PieceAbsPos(b) => a = b
      BY SizesAssumption DEF PieceAbsPos
    <3> HIDE DEF next
    <3> QED
      BY <1>5, <3>1, <3>3, <3>4
  <2>5. next <= reached /\ reached \in Nat
    <3>1. next <= PieceAbsPos(k + n - 1) /\ PieceAbsPos(k + n - 1) \in Nat
      BY <1>5, PiecesMonotonic
    <3>2. BytesAvailable(list[n].second) \in Nat
      BY <1>1, <1>3, SlotFields, BytesAvailableIs, SizesAssumption
    <3> HIDE DEF next
    <3> QED
      BY <1>5, <2>1, <3>1, <3>2, SMTT(30)
  <2> HIDE DEF next, reached
  <2>6. \E j \in i .. n : list[j].first = PieceOf(wpos)
    BY <1>7, <1>9 DEF p
  <2>7. \E j \in i + 1 .. n : list[j].first = PieceOf(next)
    BY <1>7, <2>4
  <2>8. Larger(reached, wpos) = reached /\ Larger(reached, next) = reached
    BY <2>1, <2>5 DEF Larger
  <2> QED
    BY <1>4, <2>3, <2>6, <2>7, <2>8
<1> QED
  BY <1>8, <1>9

-----------------------------------------------------------------------------
(***************************************************************************)
(* The three loops of requestSlots() (line 191), one turn at a time: the   *)
(* expression that stands for a loop is what one turn makes of it, or what *)
(* it began with when the loop's condition is false.                       *)
(***************************************************************************)

\* The list with all the empty slots that fit after it, from `piece` on.
FilledUp(list, piece) ==
  list \o EmptySlots(piece, Larger(0, Smaller(CacheSizeInPieces - Len(list), LastPiece - piece + 1)))

LEMMA EmptySlotIsSlot ==
  ASSUME NEW piece \in Nat
  PROVE  EmptySlot(piece) \in Slot
  BY DEF EmptySlot, Slot

LEMMA OneSlot ==
  ASSUME NEW slot \in Slot
  PROVE  <<slot>> \in Seq(Slot) /\ Len(<<slot>>) = 1 /\ <<slot>>[1] = slot
  OBVIOUS

LEMMA EmptySlotsExactly ==
  ASSUME NEW piece \in Nat, NEW n \in Nat
  PROVE  /\ EmptySlots(piece, n) \in Seq(Slot) /\ Len(EmptySlots(piece, n)) = n
         /\ \A i \in 1 .. n : EmptySlots(piece, n)[i] = EmptySlot(piece + i - 1)
<1>1. EmptySlots(piece, n) \in Seq(Slot) /\ Len(EmptySlots(piece, n)) = n
  BY EmptySlotsAre
<1>2. \A i \in 1 .. n : EmptySlots(piece, n)[i] = EmptySlot(piece + i - 1)
  BY DEF EmptySlots
<1> QED
  BY <1>1, <1>2

LEMMA EmptySlotsLast ==
  ASSUME NEW piece \in Nat, NEW n \in Nat
  PROVE  EmptySlots(piece, n + 1) = EmptySlots(piece, n) \o <<EmptySlot(piece + n)>>
<1> DEFINE s == EmptySlots(piece, n + 1)
           t == EmptySlots(piece, n)
           one == <<EmptySlot(piece + n)>>
<1>1. /\ s \in Seq(Slot) /\ Len(s) = n + 1 /\ \A i \in 1 .. n + 1 : s[i] = EmptySlot(piece + i - 1)
      /\ t \in Seq(Slot) /\ Len(t) = n /\ \A i \in 1 .. n : t[i] = EmptySlot(piece + i - 1)
  <2>1. n + 1 \in Nat /\ piece + 1 \in Nat
    OBVIOUS
  <2> QED
    BY <2>1, EmptySlotsExactly
<1>2. one \in Seq(Slot) /\ Len(one) = 1 /\ one[1] = EmptySlot(piece + n)
  BY EmptySlotIsSlot, OneSlot
<1> HIDE DEF s, t, one
<1>3. /\ t \o one \in Seq(Slot) /\ Len(t \o one) = n + 1
      /\ \A i \in 1 .. n + 1 : (t \o one)[i] = IF i <= n THEN t[i] ELSE one[i - n]
  <2>1. /\ t \o one \in Seq(Slot) /\ Len(t \o one) = Len(t) + Len(one)
        /\ \A i \in 1 .. Len(t) + Len(one) :
             (t \o one)[i] = IF i <= Len(t) THEN t[i] ELSE one[i - Len(t)]
    <3>1. t \in Seq(Slot) /\ one \in Seq(Slot)
      BY <1>1, <1>2
    <3> QED
      BY <3>1, ConcatProperties
  <2> QED
    BY <1>1, <1>2, <2>1
<1>4. ASSUME NEW i \in 1 .. n + 1
      PROVE  s[i] = (t \o one)[i]
  <2>1. CASE i <= n
    BY <1>1, <1>3, <2>1
  <2>2. CASE ~ (i <= n)
    <3>1. i = n + 1 /\ i - n = 1 /\ piece + i - 1 = piece + n
      BY <2>2
    <3> QED
      BY <1>1, <1>2, <1>3, <2>2, <3>1
  <2> QED
    BY <2>1, <2>2
<1> QED
  BY <1>1, <1>3, <1>4, SeqEqual DEF s, t, one

LEMMA EmptySlotsFirst ==
  ASSUME NEW piece \in Nat, NEW n \in Nat
  PROVE  EmptySlots(piece, n + 1) = <<EmptySlot(piece)>> \o EmptySlots(piece + 1, n)
<1> DEFINE s == EmptySlots(piece, n + 1)
           t == EmptySlots(piece + 1, n)
           one == <<EmptySlot(piece)>>
<1>1. /\ s \in Seq(Slot) /\ Len(s) = n + 1 /\ \A i \in 1 .. n + 1 : s[i] = EmptySlot(piece + i - 1)
      /\ t \in Seq(Slot) /\ Len(t) = n /\ \A i \in 1 .. n : t[i] = EmptySlot((piece + 1) + i - 1)
  <2>1. n + 1 \in Nat /\ piece + 1 \in Nat
    OBVIOUS
  <2> QED
    BY <2>1, EmptySlotsExactly
<1>2. one \in Seq(Slot) /\ Len(one) = 1 /\ one[1] = EmptySlot(piece)
  BY EmptySlotIsSlot, OneSlot
<1> HIDE DEF s, t, one
<1>3. /\ one \o t \in Seq(Slot) /\ Len(one \o t) = n + 1
      /\ \A i \in 1 .. n + 1 : (one \o t)[i] = IF i <= 1 THEN one[i] ELSE t[i - 1]
  <2>1. /\ one \o t \in Seq(Slot) /\ Len(one \o t) = Len(one) + Len(t)
        /\ \A i \in 1 .. Len(one) + Len(t) :
             (one \o t)[i] = IF i <= Len(one) THEN one[i] ELSE t[i - Len(one)]
    BY <1>1, <1>2, ConcatProperties
  <2>2. Len(one) + Len(t) = n + 1
    BY <1>1, <1>2
  <2> QED
    BY <1>2, <2>1, <2>2
<1>4. ASSUME NEW i \in 1 .. n + 1
      PROVE  s[i] = (one \o t)[i]
  <2>1. CASE i <= 1
    <3>1. i = 1 /\ piece + i - 1 = piece
      BY <2>1
    <3> QED
      BY <1>1, <1>2, <1>3, <3>1
  <2>2. CASE ~ (i <= 1)
    <3>1. i - 1 \in 1 .. n /\ (piece + 1) + (i - 1) - 1 = piece + i - 1
      BY <2>2
    <3> QED
      BY <1>1, <1>3, <2>2, <3>1
  <2> QED
    BY <2>1, <2>2
<1> QED
  BY <1>1, <1>3, <1>4, SeqEqual DEF s, t, one

LEMMA RemoveLastTurn ==
  ASSUME NEW list \in Seq(Slot), NEW gap \in Nat, gap < CacheSizeInPieces
  PROVE  KeepWithGap(list, gap) =
           IF gap + Len(list) > CacheSizeInPieces
           THEN KeepWithGap(SubSeq(list, 1, Len(list) - 1), gap) ELSE list
<1> DEFINE n == CacheSizeInPieces - gap
           short == SubSeq(list, 1, Len(list) - 1)
<1>1. n \in Nat \ {0} /\ ~ (gap >= CacheSizeInPieces)
  BY SizesAssumption
<1>2. \A l : KeepWithGap(l, gap) = SubSeq(l, 1, Smaller(Len(l), n))
  BY <1>1 DEF KeepWithGap
<1>3. gap + Len(list) > CacheSizeInPieces <=> Len(list) > n
  BY SizesAssumption
<1> HIDE DEF n
<1>4. CASE Len(list) > n
  <2>1. Len(list) - 1 \in Nat /\ n <= Len(list) - 1 /\ n <= Len(list)
    BY <1>1, <1>4
  <2>2. short \in Seq(Slot) /\ Len(short) = Len(list) - 1 /\ \A i \in 1 .. Len(list) - 1 : short[i] = list[i]
    <3> DEFINE m == Len(list) - 1
    <3>1. m \in 0 .. Len(list)
      BY <2>1
    <3> HIDE DEF m
    <3>2. /\ SubSeq(list, 1, m) \in Seq(Slot) /\ Len(SubSeq(list, 1, m)) = m
          /\ \A i \in 1 .. m : SubSeq(list, 1, m)[i] = list[i]
      BY <3>1
    <3> QED
      BY <3>2 DEF m
  <2> HIDE DEF short
  <2>3. Smaller(Len(list), n) = n /\ Smaller(Len(short), n) = n
    BY <1>1, <2>1, <2>2 DEF Smaller
  <2>4. /\ SubSeq(list, 1, n) \in Seq(Slot) /\ Len(SubSeq(list, 1, n)) = n
        /\ \A i \in 1 .. n : SubSeq(list, 1, n)[i] = list[i]
    BY <1>1, <2>1
  <2>5. /\ SubSeq(short, 1, n) \in Seq(Slot) /\ Len(SubSeq(short, 1, n)) = n
        /\ \A i \in 1 .. n : SubSeq(short, 1, n)[i] = short[i]
    BY <1>1, <2>1, <2>2
  <2>6. \A i \in 1 .. n : SubSeq(list, 1, n)[i] = SubSeq(short, 1, n)[i]
    BY <1>1, <2>1, <2>2, <2>4, <2>5
  <2>7. SubSeq(list, 1, n) = SubSeq(short, 1, n)
    BY <2>4, <2>5, <2>6, SeqEqual
  <2> QED
    BY <1>2, <1>3, <1>4, <2>3, <2>7 DEF short
<1>5. CASE ~ (Len(list) > n)
  <2>1. Smaller(Len(list), n) = Len(list)
    BY <1>1, <1>5 DEF Smaller
  <2> QED
    BY <1>2, <1>3, <1>5, <2>1, SubSeqFull
<1> QED
  BY <1>4, <1>5

LEMMA PrependTurn ==
  ASSUME NEW list \in Seq(Slot), NEW piece \in Nat, NEW slotIndex \in Nat, piece <= slotIndex
  PROVE  EmptySlots(piece, slotIndex - piece) \o list =
           IF slotIndex # piece
           THEN EmptySlots(piece, (slotIndex - 1) - piece) \o (<<EmptySlot(slotIndex - 1)>> \o list)
           ELSE list
<1>1. CASE slotIndex = piece
  <2>1. EmptySlots(piece, slotIndex - piece) = <<>>
    <3>1. slotIndex - piece = 0
      BY <1>1
    <3>2. EmptySlots(piece, 0) \in Seq(Slot) /\ Len(EmptySlots(piece, 0)) = 0
      BY EmptySlotsAre
    <3> QED
      BY <3>1, <3>2, EmptySeq
  <2> QED
    BY <1>1, <2>1, ConcatEmptySeq
<1>2. CASE slotIndex # piece
  <2> DEFINE n == (slotIndex - 1) - piece
  <2>1. n \in Nat /\ n + 1 = slotIndex - piece /\ piece + n = slotIndex - 1 /\ slotIndex - 1 \in Nat
    BY <1>2
  <2> HIDE DEF n
  <2>2. EmptySlots(piece, n + 1) = EmptySlots(piece, n) \o <<EmptySlot(slotIndex - 1)>>
    BY <2>1, EmptySlotsLast
  <2>3. EmptySlots(piece, n) \in Seq(Slot) /\ <<EmptySlot(slotIndex - 1)>> \in Seq(Slot)
    BY <2>1, EmptySlotsAre, EmptySlotIsSlot, OneSlot
  <2>4. EmptySlots(piece, n + 1) \o list =
          EmptySlots(piece, n) \o (<<EmptySlot(slotIndex - 1)>> \o list)
    <3> DEFINE a == EmptySlots(piece, n)
               b == <<EmptySlot(slotIndex - 1)>>
    <3> HIDE DEF a, b
    <3>1. a \in Seq(Slot) /\ b \in Seq(Slot) /\ EmptySlots(piece, n + 1) = a \o b
      BY <2>2, <2>3 DEF a, b
    <3>2. (a \o b) \o list = a \o (b \o list)
      BY <3>1, ConcatAssociative
    <3> QED
      BY <3>1, <3>2 DEF a, b
  <2> QED
    BY <1>2, <2>1, <2>4 DEF n
<1> QED
  BY <1>1, <1>2

LEMMA AppendTurn ==
  ASSUME NEW list \in Seq(Slot), NEW piece \in Nat
  PROVE  FilledUp(list, piece) =
           IF Len(list) < CacheSizeInPieces /\ piece <= LastPiece
           THEN FilledUp(Append(list, EmptySlot(piece)), piece + 1) ELSE list
<1> DEFINE more == Append(list, EmptySlot(piece))
           room == Larger(0, Smaller(CacheSizeInPieces - Len(list), LastPiece - piece + 1))
           rest == Larger(0, Smaller(CacheSizeInPieces - Len(more), LastPiece - (piece + 1) + 1))
<1>1. LastPiece \in Nat /\ CacheSizeInPieces \in Nat /\ Len(list) \in Nat
  BY Sizes, SizesAssumption
<1>2. more \in Seq(Slot) /\ Len(more) = Len(list) + 1 /\ more = list \o <<EmptySlot(piece)>>
  BY EmptySlotIsSlot, AppendProperties, AppendIsConcat
<1> HIDE DEF more
<1>3. CASE Len(list) < CacheSizeInPieces /\ piece <= LastPiece
  <2>1. rest \in Nat /\ room = rest + 1
    BY <1>1, <1>2, <1>3 DEF Larger, Smaller
  <2> HIDE DEF room, rest
  <2>2. EmptySlots(piece, room) = <<EmptySlot(piece)>> \o EmptySlots(piece + 1, rest)
    BY <2>1, EmptySlotsFirst
  <2>3. EmptySlots(piece + 1, rest) \in Seq(Slot) /\ <<EmptySlot(piece)>> \in Seq(Slot)
    BY <2>1, EmptySlotsAre, EmptySlotIsSlot, OneSlot
  <2>4. list \o EmptySlots(piece, room) = more \o EmptySlots(piece + 1, rest)
    <3> DEFINE one == <<EmptySlot(piece)>>
               others == EmptySlots(piece + 1, rest)
    <3>1. one \in Seq(Slot) /\ others \in Seq(Slot)
      BY <2>3
    <3>2. EmptySlots(piece, room) = one \o others /\ more = list \o one
      BY <1>2, <2>2
    <3> HIDE DEF one, others
    <3>3. (list \o one) \o others = list \o (one \o others)
      BY <3>1, ConcatAssociative
    <3> QED
      BY <3>2, <3>3 DEF others
  <2> QED
    BY <1>3, <2>4 DEF FilledUp, room, rest, more
<1>4. CASE ~ (Len(list) < CacheSizeInPieces /\ piece <= LastPiece)
  <2>1. room = 0
    BY <1>1, <1>4 DEF Larger, Smaller
  <2>2. EmptySlots(piece, 0) = <<>>
    <3>1. EmptySlots(piece, 0) \in Seq(Slot) /\ Len(EmptySlots(piece, 0)) = 0
      BY EmptySlotsAre
    <3> QED
      BY <3>1, EmptySeq
  <2> HIDE DEF room
  <2> QED
    BY <1>4, <2>1, <2>2, ConcatEmptySeq DEF FilledUp, room
<1> QED
  BY <1>3, <1>4

-----------------------------------------------------------------------------
(***************************************************************************)
(* The loops as they run (FlatPieceLoops).  What is left for them to do,   *)
(* in closed form, always ends in the slots and the writing position of    *)
(* the storage: at each turn this is one of the equations above.           *)
(***************************************************************************)

LoopState ==
  [at : {"erase", "remove", "prepend", "append", "advance", "end"},
   list : Seq(Slot), rest : Seq(Slot), from : Nat, index : Nat, wpos : Nat]

\* Empty slots from `piece` up to slotIndex, then the list, then all that fit.
Finished(list, piece, slotIndex) ==
  LET front == EmptySlots(piece, slotIndex - piece) \o list
  IN FilledUp(front, front[Len(front)].first + 1)

ErasesTo(l, slots) ==
  /\ \E k \in Nat : Run(l.list \o l.rest, k)
  /\ l.list # <<>> => l.from <= l.list[1].first
  /\ slots = RequestSlots(l.list \o l.rest, l.from)

RemovesTo(l, slots) ==
  /\ l.list # <<>> /\ l.from <= l.list[1].first
  /\ l.list[1].first - l.from < CacheSizeInPieces
  /\ slots = Finished(KeepWithGap(l.list, l.list[1].first - l.from), l.from, l.list[1].first)

PrependsTo(l, slots) ==
  /\ l.list # <<>> /\ l.from <= l.index /\ l.list[1].first = l.index
  /\ slots = Finished(l.list, l.from, l.index)

AdvancesTo(l, slots, wpos) ==
  /\ l.list = slots /\ l.index > 0
  /\ \E k \in Nat : Run(l.list, k)
  /\ wpos = IF l.index <= Len(l.list) THEN AdvanceWPos(l.list, l.index, l.wpos) ELSE l.wpos

Finishes(l, slots, wpos) ==
  /\ l \in LoopState
  /\ l.at = "erase" => ErasesTo(l, slots)
  /\ l.at = "remove" => RemovesTo(l, slots)
  /\ l.at = "prepend" => PrependsTo(l, slots)
  /\ l.at = "append" => slots = FilledUp(l.list, l.from)
  /\ l.at = "advance" => AdvancesTo(l, slots, wpos)
  /\ l.at = "end" => l.list = slots
  /\ l.at # "advance" => l.wpos = wpos

LoopInv == Finishes(loop, slotList, absWPos)

\* What RequestSlots is when no slot, or some slots, are kept.
LEMMA RequestNothingKept ==
  ASSUME NEW list, NEW k \in Nat, Run(list, k), NEW piece \in Nat,
         list # <<>> => piece <= k /\ k - piece >= CacheSizeInPieces
  PROVE  RequestSlots(list, piece) = FilledUp(<<>>, piece)
<1>1. list \in Seq(Slot) /\ (list # <<>> => 1 \in 1 .. Len(list) /\ list[1].first = k)
  BY DEF Run
<1>2. DropBelow(list, piece) = list
  <2>1. CASE list = <<>>
    <3>1. Len(list) = 0
      BY <2>1
    <3>2. piece >= k + Len(list) \/ piece < k
      BY <3>1
    <3> QED
      BY <2>1, <3>2, DropBelowIs
  <2>2. CASE list # <<>>
    <3>1. piece < k
      BY <2>2, SizesAssumption
    <3> QED
      BY <3>1, DropBelowIs
  <2> QED
    BY <2>1, <2>2
<1>3. CASE list = <<>>
  <2> QED
    BY <1>2, <1>3, ConcatEmptySeq DEF RequestSlots, FilledUp
<1>4. CASE list # <<>>
  <2>1. KeepWithGap(list, list[1].first - piece) = <<>>
    BY <1>1, <1>4 DEF KeepWithGap
  <2> QED
    BY <1>2, <1>4, <2>1 DEF RequestSlots, FilledUp
<1> QED
  BY <1>3, <1>4

LEMMA RequestSomeKept ==
  ASSUME NEW list, NEW k \in Nat, Run(list, k), NEW piece \in Nat,
         list # <<>>, piece <= k, k - piece < CacheSizeInPieces
  PROVE  RequestSlots(list, piece) = Finished(KeepWithGap(list, k - piece), piece, k)
<1> DEFINE held == KeepWithGap(list, k - piece)
           front == EmptySlots(piece, k - piece) \o held
<1>1. list \in Seq(Slot) /\ 1 \in 1 .. Len(list) /\ list[1].first = k
  BY DEF Run
<1>2. DropBelow(list, piece) = list
  <2>1. CASE piece < k
    BY <2>1, DropBelowIs
  <2>2. CASE piece = k
    <3>1. /\ Run(DropBelow(list, piece), piece)
          /\ Len(DropBelow(list, piece)) = Len(list) - (piece - k)
          /\ \A i \in 1 .. Len(DropBelow(list, piece)) :
               DropBelow(list, piece)[i] = list[(piece - k) + i]
      BY <1>1, <2>2, DropBelowIs
    <3>2. piece - k = 0 /\ Len(list) - (piece - k) = Len(list) /\ DropBelow(list, piece) \in Seq(Slot)
      BY <1>1, <2>2, <3>1 DEF Run
    <3>3. \A i \in 1 .. Len(list) : DropBelow(list, piece)[i] = list[i]
      BY <3>1, <3>2
    <3> QED
      BY <1>1, <3>1, <3>2, <3>3, SeqEqual
  <2> QED
    BY <2>1, <2>2
<1>3. held # <<>> /\ held \in Seq(Slot)
  <2> DEFINE n == Smaller(Len(list), CacheSizeInPieces - (k - piece))
  <2>1. n \in 1 .. Len(list)
    BY <1>1, SizesAssumption DEF Smaller
  <2>2. held = SubSeq(list, 1, n)
    <3>1. ~ (k - piece >= CacheSizeInPieces)
      BY SizesAssumption
    <3> QED
      BY <3>1, Zenon DEF KeepWithGap
  <2> HIDE DEF n
  <2>3. SubSeq(list, 1, n) \in Seq(Slot) /\ Len(SubSeq(list, 1, n)) = n
    BY <1>1, <2>1
  <2> QED
    BY <2>1, <2>2, <2>3
<1> HIDE DEF held
<1>4. front # <<>>
  <2>1. EmptySlots(piece, k - piece) \in Seq(Slot) /\ k - piece \in Nat
    BY EmptySlotsAre
  <2>2. Len(front) = Len(EmptySlots(piece, k - piece)) + Len(held) /\ Len(held) > 0
    BY <1>3, <2>1, ConcatProperties
  <2> QED
    BY <1>3, <2>1, <2>2
<1>5. RequestSlots(list, piece) = FilledUp(front, front[Len(front)].first + 1)
  BY <1>1, <1>2, <1>3, <1>4 DEF RequestSlots, FilledUp, held
<1> QED
  BY <1>5 DEF Finished, held

\* A slot that is to be erased makes no difference to what a request leaves.
LEMMA RequestWithoutHead ==
  ASSUME NEW list, NEW k \in Nat, Run(list, k), list # <<>>, NEW piece \in Nat, k < piece
  PROVE  /\ Run(Tail(list), k + 1)
         /\ RequestSlots(Tail(list), piece) = RequestSlots(list, piece)
<1> DEFINE tail == Tail(list)
           a == DropBelow(list, piece)
           b == DropBelow(tail, piece)
<1>1. /\ list \in Seq(Slot) /\ Len(list) \in Nat \ {0} /\ Len(list) <= CacheSizeInPieces
      /\ k + Len(list) - 1 <= LastPiece
      /\ \A i \in 1 .. Len(list) : list[i].first = k + i - 1
  BY DEF Run
<1>2. /\ tail \in Seq(Slot) /\ Len(tail) = Len(list) - 1
      /\ \A i \in 1 .. Len(tail) : tail[i] = list[i + 1]
  BY <1>1, HeadTailProperties
<1> HIDE DEF tail
<1>3. Run(tail, k + 1)
  <2>1. \A i \in 1 .. Len(tail) : tail[i].first = (k + 1) + i - 1
    <3> SUFFICES ASSUME NEW i \in 1 .. Len(tail)
                 PROVE  tail[i].first = (k + 1) + i - 1
      OBVIOUS
    <3>1. i + 1 \in 1 .. Len(list)
      BY <1>1, <1>2
    <3>2. tail[i].first = k + (i + 1) - 1
      BY <1>1, <1>2, <3>1
    <3> QED
      BY <3>2
  <2>2. Len(tail) <= CacheSizeInPieces /\ (Len(tail) > 0 => (k + 1) + Len(tail) - 1 <= LastPiece)
    BY <1>1, <1>2, SizesAssumption, Sizes
  <2> QED
    BY <1>2, <2>1, <2>2 DEF Run
<1>4. a = b
  <2>1. CASE piece >= k + Len(list)
    <3>1. a = <<>>
      BY <2>1, DropBelowIs
    <3>2. k + 1 \in Nat /\ piece >= (k + 1) + Len(tail)
      BY <1>1, <1>2, <2>1
    <3>3. b = <<>>
      BY <1>3, <3>2, DropBelowIs
    <3> QED
      BY <3>1, <3>3
  <2>2. CASE piece < k + Len(list)
    <3>1. /\ Run(a, piece) /\ Len(a) = Len(list) - (piece - k)
          /\ \A i \in 1 .. Len(a) : a[i] = list[(piece - k) + i]
      BY <2>2, DropBelowIs
    <3>2. k + 1 \in Nat /\ k + 1 <= piece /\ piece < (k + 1) + Len(tail)
      BY <1>1, <1>2, <2>2
    <3>3. /\ Run(b, piece) /\ Len(b) = Len(tail) - (piece - (k + 1))
          /\ \A i \in 1 .. Len(b) : b[i] = tail[(piece - (k + 1)) + i]
      BY <1>3, <3>2, DropBelowIs
    <3> HIDE DEF a, b
    <3>4. a \in Seq(Slot) /\ b \in Seq(Slot) /\ Len(a) = Len(b)
      BY <1>1, <1>2, <3>1, <3>3 DEF Run
    <3>5. ASSUME NEW i \in 1 .. Len(a)
          PROVE  a[i] = b[i]
      <4> DEFINE j == (piece - (k + 1)) + i
      <4>1. j \in 1 .. Len(tail) /\ j + 1 = (piece - k) + i
        <5> DEFINE n == Len(list)
        <5>1. n \in Nat /\ Len(a) = n - (piece - k) /\ Len(tail) = n - 1
          BY <1>1, <1>2, <3>1
        <5> HIDE DEF n
        <5>2. i \in 1 .. n - (piece - k) /\ k + 1 <= piece
          BY <3>2, <5>1
        <5> QED
          BY <5>1, <5>2
      <4>2. a[i] = list[j + 1] /\ b[i] = tail[j]
        BY <3>1, <3>3, <3>4, <4>1
      <4> HIDE DEF j
      <4> QED
        BY <1>2, <4>1, <4>2
    <3> QED
      BY <3>4, <3>5, SeqEqual
  <2> QED
    BY <1>1, <2>1, <2>2
<1> HIDE DEF a, b
<1> QED
  BY <1>3, <1>4 DEF RequestSlots, a, b, tail

(***************************************************************************)
(* One lemma for each turn: it leaves what the loops still have to do.     *)
(***************************************************************************)

LEMMA EraseSlotFinishes ==
  ASSUME NEW slots, NEW wpos, Finishes(loop, slots, wpos), EraseSlot
  PROVE  Finishes(loop', slots, wpos)
<1> DEFINE list == loop.list
           rest == loop.rest
<1>1. /\ loop \in LoopState /\ loop.at = "erase" /\ ErasesTo(loop, slots) /\ loop.wpos = wpos
      /\ rest # <<>>
  BY DEF Finishes, EraseSlot
<1>2. list \in Seq(Slot) /\ rest \in Seq(Slot) /\ loop.from \in Nat
  BY <1>1 DEF LoopState
<1>3. /\ Head(rest) \in Slot /\ Tail(rest) \in Seq(Slot) /\ Head(rest) = rest[1]
      /\ 1 \in 1 .. Len(rest) /\ rest = <<Head(rest)>> \o Tail(rest)
  BY <1>1, <1>2, HeadTailProperties
<1> DEFINE kept == IF Head(rest).first < loop.from THEN list ELSE Append(list, Head(rest))
<1>4. kept \in Seq(Slot)
  BY <1>2, <1>3
<1>5. loop' = [loop EXCEPT !.rest = Tail(rest), !.list = kept]
  BY DEF EraseSlot
<1> HIDE DEF kept
<1>6. /\ loop' \in LoopState /\ loop'.at = "erase" /\ loop'.list = kept /\ loop'.rest = Tail(rest)
      /\ loop'.from = loop.from /\ loop'.wpos = loop.wpos
  BY <1>1, <1>3, <1>4, <1>5 DEF LoopState
<1>7. PICK k \in Nat : Run(list \o rest, k)
  BY <1>1 DEF ErasesTo
<1>8. /\ list \o rest \in Seq(Slot) /\ Len(list \o rest) = Len(list) + Len(rest)
      /\ \A i \in 1 .. Len(list) + Len(rest) :
           (list \o rest)[i] = IF i <= Len(list) THEN list[i] ELSE rest[i - Len(list)]
  BY <1>2, ConcatProperties
<1>9. Head(rest).first = k + Len(list) /\ (list # <<>> => list[1].first = k)
  <2>1. Len(list) \in Nat /\ Len(rest) \in Nat /\ Len(list) + 1 \in 1 .. Len(list) + Len(rest)
    <3> DEFINE n == Len(list)
               m == Len(rest)
    <3>1. n \in Nat /\ m \in Nat /\ 1 <= m
      BY <1>2, <1>3
    <3> HIDE DEF n, m
    <3>2. n + 1 \in 1 .. n + m
      BY <3>1
    <3> QED
      BY <3>1, <3>2 DEF n, m
  <2>2. (list \o rest)[Len(list) + 1] = rest[1]
    BY <1>8, <2>1
  <2>3. (list \o rest)[Len(list) + 1].first = k + (Len(list) + 1) - 1
    BY <1>7, <1>8, <2>1 DEF Run
  <2>4. ASSUME list # <<>> PROVE list[1].first = k
    <3>1. Len(list) # 0
      BY <1>2, <2>4
    <3> DEFINE n == Len(list)
               m == Len(rest)
    <3> HIDE DEF n, m
    <3>2. 1 \in 1 .. Len(list) + Len(rest) /\ 1 <= Len(list)
      <4>1. n \in Nat /\ m \in Nat /\ n # 0
        BY <2>1, <3>1 DEF n, m
      <4>2. 1 \in 1 .. n + m /\ 1 <= n
        BY <4>1
      <4> QED
        BY <4>2 DEF n, m
    <3>3. (list \o rest)[1] = list[1]
      BY <1>8, <3>2
    <3>4. (list \o rest)[1].first = k + 1 - 1
      BY <1>7, <1>8, <3>2 DEF Run
    <3> QED
      BY <3>3, <3>4
  <2> QED
    BY <1>3, <2>1, <2>2, <2>3, <2>4
<1>10. CASE Head(rest).first < loop.from
  <2>1. list = <<>>
    BY <1>1, <1>2, <1>9, <1>10 DEF ErasesTo
  <2>2. kept = <<>> /\ list \o rest = rest /\ kept \o Tail(rest) = Tail(rest) /\ Len(list) = 0
    BY <1>2, <1>3, <1>10, <2>1, ConcatEmptySeq DEF kept
  <2>3. k < loop.from
    BY <1>9, <1>10, <2>2
  <2>4. Run(Tail(rest), k + 1) /\ RequestSlots(Tail(rest), loop.from) = RequestSlots(rest, loop.from)
    BY <1>1, <1>2, <1>7, <2>2, <2>3, RequestWithoutHead
  <2>5. ErasesTo(loop', slots)
    BY <1>1, <1>6, <2>2, <2>4 DEF ErasesTo
  <2> QED
    BY <1>1, <1>6, <2>5 DEF Finishes
<1>11. CASE ~ (Head(rest).first < loop.from)
  <2>1. kept = list \o <<Head(rest)>>
    BY <1>2, <1>3, <1>11, AppendIsConcat DEF kept
  <2>2. kept \o Tail(rest) = list \o rest
    <3> DEFINE one == <<Head(rest)>>
               tail == Tail(rest)
    <3>1. one \in Seq(Slot) /\ tail \in Seq(Slot) /\ rest = one \o tail /\ kept = list \o one
      BY <1>3, <2>1
    <3>2. list \in Seq(Slot)
      BY <1>2
    <3> HIDE DEF list, one, kept, tail
    <3>3. (list \o one) \o tail = list \o (one \o tail)
      BY <3>1, <3>2, ConcatAssociative
    <3> QED
      BY <3>1, <3>3 DEF tail
  <2>3. kept[1].first >= loop.from
    <3>1. CASE list = <<>>
      <4>1. kept[1] = Head(rest)
        BY <1>2, <1>3, <1>11, <3>1 DEF kept
      <4> QED
        BY <1>2, <1>3, <1>11, <4>1 DEF Slot
    <3>2. CASE list # <<>>
      <4>1. kept[1] = list[1]
        BY <1>2, <1>3, <1>11, <3>2 DEF kept
      <4>2. list[1].first >= loop.from
        BY <1>1, <3>2 DEF ErasesTo
      <4> QED
        BY <4>1, <4>2
    <3> QED
      BY <3>1, <3>2
  <2>4. kept[1].first \in Nat
    <3>1. kept # <<>>
      <4>1. list \in Seq(Slot) /\ Head(rest) \in Slot /\ kept = Append(list, Head(rest))
        BY <1>2, <1>3, <1>11 DEF kept
      <4> QED
        BY <4>1, AppendProperties
    <3>2. kept[1] \in Slot
      BY <1>4, <3>1
    <3> QED
      BY <3>2 DEF Slot
  <2>5. ErasesTo(loop', slots)
    BY <1>1, <1>2, <1>6, <1>7, <2>2, <2>3, <2>4 DEF ErasesTo
  <2> QED
    BY <1>1, <1>6, <2>5 DEF Finishes
<1> QED
  BY <1>10, <1>11

LEMMA KeptFinishes ==
  ASSUME NEW slots, NEW wpos, Finishes(loop, slots, wpos), NoneKept \/ SomeKept
  PROVE  Finishes(loop', slots, wpos)
<1> DEFINE list == loop.list
<1>1. /\ loop \in LoopState /\ loop.at = "erase" /\ ErasesTo(loop, slots) /\ loop.wpos = wpos
      /\ loop.rest = <<>> /\ list \in Seq(Slot) /\ loop.from \in Nat
  BY DEF Finishes, NoneKept, SomeKept, LoopState
<1>2. list \o loop.rest = list
  BY <1>1, ConcatEmptySeq
<1>3. PICK k \in Nat : Run(list, k)
  BY <1>1, <1>2 DEF ErasesTo
<1>4. slots = RequestSlots(list, loop.from)
  BY <1>1, <1>2 DEF ErasesTo
<1>5. list # <<>> => list[1].first = k /\ loop.from <= k
  BY <1>1, <1>3 DEF Run, ErasesTo
<1>6. CASE NoneKept
  <2>1. slots = FilledUp(<<>>, loop.from)
    BY <1>1, <1>3, <1>4, <1>5, <1>6, RequestNothingKept DEF NoneKept, GapSize
  <2>2. /\ loop' \in LoopState /\ loop'.at = "append" /\ loop'.list = <<>>
        /\ loop'.from = loop.from /\ loop'.wpos = loop.wpos
    BY <1>1, <1>6 DEF NoneKept, LoopState
  <2> QED
    BY <1>1, <2>1, <2>2 DEF Finishes
<1>7. CASE SomeKept
  <2>1. list # <<>> /\ list[1].first = k /\ k - loop.from < CacheSizeInPieces /\ loop.from <= k
    BY <1>5, <1>7 DEF SomeKept, GapSize
  <2>2. slots = Finished(KeepWithGap(list, k - loop.from), loop.from, k)
    BY <1>1, <1>3, <1>4, <2>1, RequestSomeKept
  <2>3. /\ loop' \in LoopState /\ loop'.at = "remove" /\ loop'.list = list
        /\ loop'.from = loop.from /\ loop'.wpos = loop.wpos
    BY <1>1, <1>7 DEF SomeKept, LoopState
  <2>4. RemovesTo(loop', slots)
    BY <2>1, <2>2, <2>3 DEF RemovesTo
  <2> QED
    BY <1>1, <2>3, <2>4 DEF Finishes
<1> QED
  BY <1>6, <1>7

LEMMA RemoveFinishes ==
  ASSUME NEW slots, NEW wpos, Finishes(loop, slots, wpos), RemoveLast \/ RemoveEnd
  PROVE  Finishes(loop', slots, wpos)
<1> DEFINE list == loop.list
           first == list[1].first
           short == SubSeq(list, 1, Len(list) - 1)
<1>1. /\ loop \in LoopState /\ loop.at = "remove" /\ RemovesTo(loop, slots) /\ loop.wpos = wpos
      /\ list \in Seq(Slot) /\ loop.from \in Nat
  BY DEF Finishes, RemoveLast, RemoveEnd, LoopState
<1>2. list # <<>> /\ list[1] \in Slot /\ first \in Nat /\ Len(list) \in Nat \ {0}
  <2>1. list # <<>>
    BY <1>1 DEF RemovesTo
  <2>2. list \in Seq(Slot)
    BY <1>1
  <2> HIDE DEF list
  <2>3. Len(list) \in Nat \ {0}
    BY <2>1, <2>2
  <2>4. list[1] \in Slot
    BY <2>2, <2>3
  <2> QED
    BY <2>1, <2>3, <2>4 DEF Slot
<1>3. /\ GapSize = first - loop.from /\ GapSize \in Nat /\ GapSize < CacheSizeInPieces
      /\ slots = Finished(KeepWithGap(list, GapSize), loop.from, first)
  BY <1>1, <1>2 DEF RemovesTo, GapSize
<1>4. KeepWithGap(list, GapSize) =
        IF GapSize + Len(list) > CacheSizeInPieces THEN KeepWithGap(short, GapSize) ELSE list
  BY <1>1, <1>3, RemoveLastTurn
<1>5. CASE RemoveLast
  <2>1. GapSize + Len(list) > CacheSizeInPieces
    BY <1>5 DEF RemoveLast
  <2>2. Len(list) - 1 \in 1 .. Len(list)
    BY <1>2, <1>3, <2>1, SizesAssumption
  <2>3. short \in Seq(Slot) /\ Len(short) = Len(list) - 1 /\ short[1] = list[1]
    <3> DEFINE m == Len(list) - 1
    <3>1. m \in 1 .. Len(list) /\ 1 \in 1 .. m
      BY <2>2
    <3> HIDE DEF m
    <3>2. SubSeq(list, 1, m) \in Seq(Slot) /\ Len(SubSeq(list, 1, m)) = m /\ SubSeq(list, 1, m)[1] = list[1]
      BY <1>1, <3>1
    <3> QED
      BY <3>2 DEF m
  <2> HIDE DEF short
  <2>4. short # <<>>
    BY <2>2, <2>3
  <2>5. loop' = [loop EXCEPT !.list = short]
    BY <1>5 DEF RemoveLast, short
  <2>6. /\ loop' \in LoopState /\ loop'.at = "remove" /\ loop'.list = short
        /\ loop'.from = loop.from /\ loop'.wpos = loop.wpos
    BY <1>1, <2>3, <2>5 DEF LoopState
  <2>7. RemovesTo(loop', slots)
    BY <1>1, <1>3, <1>4, <2>1, <2>3, <2>4, <2>6 DEF RemovesTo
  <2> QED
    BY <1>1, <2>6, <2>7 DEF Finishes
<1>6. CASE RemoveEnd
  <2>1. slots = Finished(list, loop.from, first)
    BY <1>3, <1>4, <1>6 DEF RemoveEnd
  <2>2. /\ loop' \in LoopState /\ loop'.at = "prepend" /\ loop'.list = list
        /\ loop'.from = loop.from /\ loop'.wpos = loop.wpos /\ loop'.index = first
    BY <1>1, <1>2, <1>6 DEF RemoveEnd, LoopState
  <2>3. PrependsTo(loop', slots)
    BY <1>1, <1>2, <2>1, <2>2 DEF RemovesTo, PrependsTo
  <2> QED
    BY <1>1, <2>2, <2>3 DEF Finishes
<1> QED
  BY <1>5, <1>6

LEMMA PrependFinishes ==
  ASSUME NEW slots, NEW wpos, Finishes(loop, slots, wpos), PrependSlot \/ PrependEnd
  PROVE  Finishes(loop', slots, wpos)
<1> DEFINE list == loop.list
           more == <<EmptySlot(loop.index - 1)>> \o list
<1>1. /\ loop \in LoopState /\ loop.at = "prepend" /\ PrependsTo(loop, slots) /\ loop.wpos = wpos
      /\ list \in Seq(Slot) /\ loop.from \in Nat /\ loop.index \in Nat
  BY DEF Finishes, PrependSlot, PrependEnd, LoopState
<1>2. list # <<>> /\ loop.from <= loop.index /\ list[1].first = loop.index
  BY <1>1 DEF PrependsTo
<1>3. EmptySlots(loop.from, loop.index - loop.from) \o list =
        IF loop.index # loop.from
        THEN EmptySlots(loop.from, (loop.index - 1) - loop.from) \o more ELSE list
  BY <1>1, <1>2, PrependTurn
<1>4. slots = Finished(list, loop.from, loop.index)
  BY <1>1 DEF PrependsTo
<1>5. CASE PrependSlot
  <2>1. loop.index - 1 \in Nat /\ loop.from <= loop.index - 1 /\ loop.index # loop.from
    BY <1>1, <1>2, <1>5 DEF PrependSlot
  <2>2. EmptySlot(loop.index - 1) \in Slot /\ EmptySlot(loop.index - 1).first = loop.index - 1
    BY <2>1, EmptySlotIsSlot DEF EmptySlot
  <2>3. more \in Seq(Slot) /\ more # <<>> /\ more[1] = EmptySlot(loop.index - 1)
    BY <1>1, <2>2
  <2>4. slots = Finished(more, loop.from, loop.index - 1)
    BY <1>3, <1>4, <2>1 DEF Finished
  <2> HIDE DEF more
  <2>5. loop' = [loop EXCEPT !.list = more, !.index = loop.index - 1]
    BY <1>5 DEF PrependSlot, more
  <2>6. /\ loop' \in LoopState /\ loop'.at = "prepend" /\ loop'.list = more
        /\ loop'.from = loop.from /\ loop'.wpos = loop.wpos /\ loop'.index = loop.index - 1
    BY <1>1, <2>1, <2>3, <2>5 DEF LoopState
  <2>7. PrependsTo(loop', slots)
    BY <2>1, <2>2, <2>3, <2>4, <2>6 DEF PrependsTo
  <2> QED
    BY <1>1, <2>6, <2>7 DEF Finishes
<1>6. CASE PrependEnd
  <2> DEFINE next == list[Len(list)].first + 1
  <2>1. slots = FilledUp(list, next)
    BY <1>3, <1>4, <1>6 DEF PrependEnd, Finished
  <2>2. next \in Nat
    <3>1. Len(list) \in 1 .. Len(list)
      BY <1>1, <1>2
    <3>2. list[Len(list)] \in Slot
      BY <1>1, <3>1
    <3> QED
      BY <3>2 DEF Slot
  <2>3. loop' = [loop EXCEPT !.at = "append", !.from = next]
    BY <1>6 DEF PrependEnd
  <2> HIDE DEF next
  <2>4. /\ loop' \in LoopState /\ loop'.at = "append" /\ loop'.list = list
        /\ loop'.from = next /\ loop'.wpos = loop.wpos
    BY <1>1, <2>2, <2>3 DEF LoopState
  <2> QED
    BY <1>1, <2>1, <2>4 DEF Finishes
<1> QED
  BY <1>5, <1>6

LEMMA AppendFinishes ==
  ASSUME NEW slots, NEW wpos, Finishes(loop, slots, wpos), AppendSlot \/ AppendEnd
  PROVE  Finishes(loop', slots, wpos)
<1> DEFINE list == loop.list
           more == Append(list, EmptySlot(loop.from))
<1>1. /\ loop \in LoopState /\ loop.at = "append" /\ slots = FilledUp(list, loop.from)
      /\ loop.wpos = wpos /\ list \in Seq(Slot) /\ loop.from \in Nat /\ loop.wpos \in Nat
  BY DEF Finishes, AppendSlot, AppendEnd, LoopState
<1>2. slots = IF Len(list) < CacheSizeInPieces /\ loop.from <= LastPiece
              THEN FilledUp(more, loop.from + 1) ELSE list
  BY <1>1, AppendTurn
<1>3. CASE AppendSlot
  <2>1. slots = FilledUp(more, loop.from + 1)
    BY <1>2, <1>3 DEF AppendSlot
  <2>2. more \in Seq(Slot)
    BY <1>1, EmptySlotIsSlot
  <2>3. loop' = [loop EXCEPT !.list = more, !.from = loop.from + 1]
    BY <1>3 DEF AppendSlot
  <2> HIDE DEF more
  <2>4. /\ loop' \in LoopState /\ loop'.at = "append" /\ loop'.list = more
        /\ loop'.from = loop.from + 1 /\ loop'.wpos = loop.wpos
    <3> DEFINE next == loop.from + 1
    <3>1. next \in Nat /\ loop' = [loop EXCEPT !.list = more, !.from = next]
      BY <1>1, <2>3
    <3> HIDE DEF next
    <3>2. /\ loop' \in LoopState /\ loop'.at = "append" /\ loop'.list = more
          /\ loop'.from = next /\ loop'.wpos = loop.wpos
      BY <1>1, <2>2, <3>1 DEF LoopState
    <3> QED
      BY <3>2 DEF next
  <2> QED
    BY <1>1, <2>1, <2>4 DEF Finishes
<1>4. CASE AppendEnd
  <2>1. slots = list
    BY <1>2, <1>4 DEF AppendEnd
  <2>2. /\ loop' \in LoopState /\ loop'.at = "end" /\ loop'.list = list /\ loop'.wpos = loop.wpos
    BY <1>1, <1>4 DEF AppendEnd, EndOfLoop, LoopState
  <2> QED
    BY <1>1, <2>1, <2>2 DEF Finishes
<1> QED
  BY <1>3, <1>4

LEMMA AdvanceFinishes ==
  ASSUME NEW slots, NEW wpos, Finishes(loop, slots, wpos), AdvanceOn \/ AdvanceBreak \/ AdvanceEnd
  PROVE  Finishes(loop', slots, wpos)
<1> DEFINE list == loop.list
           i == loop.index
           moved == Moved(list, i, loop.wpos)
<1>1. /\ loop \in LoopState /\ loop.at = "advance" /\ AdvancesTo(loop, slots, wpos)
      /\ list \in Seq(Slot) /\ i \in Nat \ {0} /\ loop.wpos \in Nat
  BY DEF Finishes, AdvanceOn, AdvanceBreak, AdvanceEnd, LoopState, AdvancesTo
<1>2. PICK k \in Nat : Run(list, k)
  BY <1>1 DEF AdvancesTo
<1>3. list = slots /\ wpos = IF i <= Len(list) THEN AdvanceWPos(list, i, loop.wpos) ELSE loop.wpos
  BY <1>1 DEF AdvancesTo
<1>4. CASE AdvanceEnd
  <2>1. wpos = loop.wpos
    BY <1>1, <1>3, <1>4 DEF AdvanceEnd
  <2>2. /\ loop' \in LoopState /\ loop'.at = "end" /\ loop'.list = list /\ loop'.wpos = loop.wpos
    BY <1>1, <1>4 DEF AdvanceEnd, EndOfLoop, LoopState
  <2> QED
    BY <1>3, <2>1, <2>2 DEF Finishes
<1>5. CASE AdvanceOn \/ AdvanceBreak
  <2>1. i \in 1 .. Len(list) /\ list[i] \in Slot
    BY <1>1, <1>5 DEF AdvanceOn, AdvanceBreak
  <2>2. BytesAvailable(list[i].second) \in Nat /\ list[i].first \in Nat
    BY <1>1, <2>1, SlotFields, BytesAvailableIs, SizesAssumption
  <2>3. moved \in Nat
    BY <1>1, <2>2, SizesAssumption DEF Moved, Larger, PieceAbsPos
  <2>4. wpos = AdvanceWPos(list, i, loop.wpos)
    BY <1>3, <2>1
  <2> HIDE DEF moved
  <2>5. CASE AdvanceBreak
    <3>1. Stops(list, i)
      BY <2>2, <2>5, SizesAssumption DEF AdvanceBreak, SlotIsFull, Stops
    <3>2. wpos = moved
      BY <1>1, <2>1, <2>4, <3>1, LastTurn DEF moved
    <3>3. loop' = EndOfLoop(list, moved)
      BY <2>5 DEF AdvanceBreak, moved
    <3>4. /\ loop' \in LoopState /\ loop'.at = "end" /\ loop'.list = list /\ loop'.wpos = moved
      BY <1>1, <2>3, <3>3 DEF EndOfLoop, LoopState
    <3> QED
      BY <1>3, <3>2, <3>4 DEF Finishes
  <2>6. CASE AdvanceOn
    <3>1. BytesAvailable(list[i].second) >= PieceLen
      BY <2>6 DEF AdvanceOn, SlotIsFull
    <3>2. wpos = IF i + 1 <= Len(list) THEN AdvanceWPos(list, i + 1, moved) ELSE moved
      <4>1. CASE i = Len(list)
        <5>1. Stops(list, i) /\ ~ (i + 1 <= Len(list))
          BY <2>1, <4>1 DEF Stops
        <5> QED
          BY <1>1, <2>1, <2>4, <5>1, LastTurn DEF moved
      <4>2. CASE i # Len(list)
        <5>1. ~ Stops(list, i) /\ i + 1 <= Len(list)
          BY <2>1, <2>2, <3>1, <4>2, SizesAssumption DEF Stops
        <5> QED
          BY <1>1, <1>2, <2>1, <2>4, <5>1, NextTurn DEF moved
      <4> QED
        BY <4>1, <4>2
    <3>3. loop' = [loop EXCEPT !.wpos = moved, !.index = i + 1]
      BY <2>6 DEF AdvanceOn, moved
    <3>4. /\ loop' \in LoopState /\ loop'.at = "advance" /\ loop'.list = list
          /\ loop'.index = i + 1 /\ loop'.wpos = moved
      <4>1. i + 1 \in Nat
        BY <1>1
      <4> HIDE DEF i
      <4> QED
        BY <1>1, <2>3, <3>3, <4>1 DEF LoopState
    <3>5. AdvancesTo(loop', slots, wpos)
      BY <1>1, <1>2, <1>3, <3>2, <3>4 DEF AdvancesTo
    <3> QED
      BY <1>1, <3>4, <3>5 DEF Finishes
  <2> QED
    BY <1>5, <2>5, <2>6
<1> QED
  BY <1>4, <1>5

LEMMA TurnFinishes ==
  ASSUME NEW slots, NEW wpos, Finishes(loop, slots, wpos), Turn
  PROVE  Finishes(loop', slots, wpos)
  BY EraseSlotFinishes, KeptFinishes, RemoveFinishes, PrependFinishes, AppendFinishes,
     AdvanceFinishes DEF Turn

\* The storage's own steps start a loop on what it has to work on, or leave it
\* alone.
LEMMA RequestsStart ==
  ASSUME Inv, Requests
  PROVE  Finishes(loop', slotList', absWPos')
<1> DEFINE piece == PieceOf(absRPos')
<1>1. /\ slotList' = RequestSlots(slotList, piece) /\ absRPos' \in Nat /\ absWPos' \in Nat
  <2>1. CASE ReadCommit
    <3>1. absRPos \in Nat /\ absWPos \in Nat /\ Len(bytes) \in Nat
      BY DEF Inv, TypeOK
    <3> QED
      BY <2>1, <3>1 DEF ReadCommit
  <2>2. ASSUME NEW pos \in Nat, DoSeek(pos)
        PROVE  /\ slotList' = RequestSlots(slotList, piece) /\ absRPos' \in Nat /\ absWPos' \in Nat
    <3> DEFINE new == pos + FOffset
    <3>1. new \in Nat /\ absWPos \in Nat
      BY SizesAssumption DEF Inv, TypeOK
    <3>2. absRPos' = new /\ absWPos' = WPosAfterSeek(new) /\ slotList' = RequestSlots(slotList, PieceOf(new))
      BY <2>2 DEF DoSeek
    <3> HIDE DEF new
    <3>3. PieceAbsPos(PieceOf(new)) \in Nat
      BY <3>1, Pieces
    <3> QED
      BY <3>1, <3>2, <3>3 DEF WPosAfterSeek
  <2>3. CASE SeekWoken
    <3>1. arg \in Nat
      BY DEF Inv, TypeOK
    <3> QED
      BY <2>2, <2>3, <3>1 DEF SeekWoken
  <2>4. CASE \E pos \in SeekTargets : Seek(pos)
    BY <2>2, <2>4, InputsAssumption DEF Seek
  <2> QED
    BY <2>1, <2>3, <2>4 DEF Requests
<1>2. piece \in Nat
  BY <1>1, Pieces
<1> HIDE DEF piece
<1>3. Run(slotList, PieceOf(absRPos)) /\ PieceOf(absRPos) \in Nat /\ slotList \in Seq(Slot)
  BY ReadPiece DEF Run
<1>4. loop' = RequestLoop(slotList, piece, absWPos')
  BY DEF Requests, piece
<1>5. /\ loop' \in LoopState /\ loop'.at = "erase" /\ loop'.list = <<>> /\ loop'.rest = slotList
      /\ loop'.from = piece /\ loop'.wpos = absWPos'
  BY <1>1, <1>2, <1>3, <1>4 DEF RequestLoop, LoopState
<1>6. <<>> \o slotList = slotList
  BY <1>3, ConcatEmptySeq
<1>7. ErasesTo(loop', slotList')
  BY <1>1, <1>3, <1>5, <1>6 DEF ErasesTo
<1> QED
  BY <1>5, <1>7 DEF Finishes

LEMMA AdvancesStart ==
  ASSUME Inv, Inv', Advances
  PROVE  Finishes(loop', slotList', absWPos')
<1>1. /\ absWPos' = AdvanceWPos(slotList', itr, absWPos) /\ itr \in DOMAIN slotList /\ absRPos' = absRPos
      /\ slotList' = [slotList EXCEPT ![itr].second = AddSegment(@, <<block.offset, block.offset + block.len>>)]
  BY DEF Advances, WriteCommit
<1>2. Run(slotList', PieceOf(absRPos')) /\ PieceOf(absRPos') \in Nat
  <2>1. (Inv => Run(slotList, PieceOf(absRPos)) /\ PieceOf(absRPos) \in Nat)'
    BY ReadPiece, PTL
  <2> QED
    BY <2>1
<1>3. slotList' \in Seq(Slot) /\ slotList \in Seq(Slot) /\ absWPos \in Nat
  BY <1>2 DEF Inv, TypeOK, Run
<1>4. Len(slotList') = Len(slotList) /\ itr \in 1 .. Len(slotList)
  BY <1>1, <1>3
<1>5. loop' = AdvanceLoop(slotList', itr, absWPos)
  BY DEF Advances
<1>6. /\ loop' \in LoopState /\ loop'.at = "advance" /\ loop'.list = slotList'
      /\ loop'.index = itr /\ loop'.wpos = absWPos
  BY <1>3, <1>4, <1>5 DEF AdvanceLoop, LoopState
<1>7. AdvancesTo(loop', slotList', absWPos')
  BY <1>1, <1>2, <1>4, <1>6 DEF AdvancesTo
<1> QED
  BY <1>6, <1>7 DEF Finishes

LEMMA OtherStepsLeaveLoops ==
  ASSUME OtherSteps
  PROVE  UNCHANGED <<slotList, absWPos, loop>>
  BY DEF OtherSteps, Read, ReadBlocks, TakeLocals, SeekBlocks, ReadWoken, SeekWokenTooLate,
         WriteCommitDangling, Write, ReadCopy, WriteCopy

LEMMA InitLoopInv == InitLoop => LoopInv
<1> SUFFICES ASSUME InitLoop
             PROVE  Finishes(loop, slotList, absWPos)
  BY DEF LoopInv
<1>1. /\ slotList = RequestSlots(<<>>, FirstPiece) /\ absWPos = FirstPieceOffset
      /\ loop = RequestLoop(<<>>, FirstPiece, FirstPieceOffset)
  BY DEF InitLoop, Init
<1>2. FirstPiece \in Nat /\ FirstPieceOffset \in Nat
  BY Sizes, SizesAssumption DEF FirstPieceOffset, PieceAbsPos
<1>3. /\ loop \in LoopState /\ loop.at = "erase" /\ loop.list = <<>> /\ loop.rest = <<>>
      /\ loop.from = FirstPiece /\ loop.wpos = FirstPieceOffset
  BY <1>1, <1>2 DEF RequestLoop, LoopState
<1>4. <<>> \o <<>> = <<>>
  OBVIOUS
<1>5. ErasesTo(loop, slotList)
  BY <1>1, <1>3, <1>4, NoSlotsIsRun DEF ErasesTo
<1> QED
  BY <1>1, <1>3, <1>5 DEF Finishes

LEMMA NextLoopIsNext == [NextLoop]_<<vars, loop>> => [Next]_vars
<1> SUFFICES ASSUME NextLoop, ~ UNCHANGED vars
             PROVE  Next
  OBVIOUS
<1>1. fault = "none" /\ (Requests \/ Advances \/ OtherSteps)
  BY DEF NextLoop
<1> QED
  BY <1>1 DEF Requests, Advances, OtherSteps, Next, PlayerNext, PlayerInternal, SourceNext, SourceInternal

LEMMA NextLoopInv ==
  ASSUME Inv, LoopInv, [NextLoop]_<<vars, loop>>
  PROVE  LoopInv'
<1> SUFFICES Finishes(loop', slotList', absWPos')
  BY DEF LoopInv
<1>1. Finishes(loop, slotList, absWPos)
  BY DEF LoopInv
<1>2. Inv'
  BY NextLoopIsNext, NextInv
<1>3. CASE Turn /\ UNCHANGED vars
  BY <1>1, <1>3, TurnFinishes DEF vars
<1>4. CASE Requests
  BY <1>4, RequestsStart
<1>5. CASE Advances
  BY <1>2, <1>5, AdvancesStart
<1>6. CASE OtherSteps
  BY <1>1, <1>6, OtherStepsLeaveLoops
<1>7. CASE UNCHANGED <<vars, loop>>
  BY <1>1, <1>7 DEF vars
<1> QED
  BY <1>3, <1>4, <1>5, <1>6, <1>7 DEF NextLoop

\* In every interleaving, at every turn of every loop: what the loop has still
\* to do ends in the slots and the writing position of the closed forms.
THEOREM LoopInvariance == LoopSpec => [](Inv /\ LoopInv)
<1>1. InitLoop => Inv /\ LoopInv
  BY InitInv, InitLoopInv DEF InitLoop
<1>2. Inv /\ LoopInv /\ [NextLoop]_<<vars, loop>> => (Inv /\ LoopInv)'
  BY NextLoopIsNext, NextInv, NextLoopInv
<1> QED
  BY <1>1, <1>2, PTL DEF LoopSpec

\* The loops of requestSlots() and of write() leave the slots and the writing
\* position that RequestSlots and AdvanceWPos say, and the asserts of
\* requestSlots() hold.
THEOREM LoopsAlwaysCompute == LoopSpec => []LoopsCompute
<1>1. LoopInv => LoopsCompute
  BY DEF LoopInv, Finishes, RemovesTo, PrependsTo, LoopsCompute
<1> QED
  BY <1>1, LoopInvariance, PTL

\* The loops add nothing to what the storage does: every theorem on Spec, and
\* on SteadySpec, holds of it with its loops.
THEOREM LoopsRefine == (LoopSpec => Spec) /\ (SteadyLoopSpec => SteadySpec /\ LoopSpec)
<1>1. InitLoop => Init
  BY DEF InitLoop
<1>2. [NextLoop]_<<vars, loop>> => [Next]_vars
  BY NextLoopIsNext
<1>3. [NextLoop /\ [NextSteady]_vars]_<<vars, loop>>
        => [NextSteady]_vars /\ [NextLoop]_<<vars, loop>>
  OBVIOUS
<1> QED
  BY <1>1, <1>2, <1>3, PTL DEF LoopSpec, Spec, SteadyLoopSpec, SteadySpec

(***************************************************************************)
(* Every turn brings the end of the loops closer: it goes on to a later    *)
(* loop, or leaves the same one less to do, and that is a natural number.  *)
(***************************************************************************)
Order(at) == CASE at = "erase" -> 1 [] at = "remove" -> 2 [] at = "prepend" -> 3
               [] at = "append" -> 4 [] at = "advance" -> 1 [] at = "end" -> 5

ToDo(l) ==
  CASE l.at = "erase" -> Len(l.rest)
    [] l.at = "remove" -> Len(l.list)
    [] l.at = "prepend" -> l.index - l.from
    [] l.at = "append" -> CacheSizeInPieces - Len(l.list)
    [] l.at = "advance" -> Len(l.list) + 1 - l.index
    [] l.at = "end" -> 0

Closer ==
  \/ Order(loop.at) < Order(loop'.at)
  \/ loop'.at = loop.at /\ ToDo(loop') \in Nat /\ ToDo(loop') < ToDo(loop)

LEMMA TurnIsCloser ==
  ASSUME LoopInv, Turn
  PROVE  Closer
<1>1. loop \in LoopState
  BY DEF LoopInv, Finishes
<1>2. CASE EraseSlot
  <2>1. loop'.at = "erase" /\ loop.at = "erase" /\ loop'.rest = Tail(loop.rest) /\ loop.rest # <<>>
    BY <1>1, <1>2 DEF EraseSlot, LoopState
  <2>2. Len(Tail(loop.rest)) = Len(loop.rest) - 1 /\ Len(Tail(loop.rest)) \in Nat
    BY <1>1, <2>1, HeadTailProperties DEF LoopState
  <2>3. ToDo(loop') = Len(Tail(loop.rest)) /\ ToDo(loop) = Len(loop.rest)
    BY <2>1 DEF ToDo
  <2> QED
    BY <2>1, <2>2, <2>3 DEF Closer
<1>3. CASE RemoveLast
  <2>1. loop'.at = "remove" /\ loop.at = "remove" /\ loop'.list = SubSeq(loop.list, 1, Len(loop.list) - 1)
    BY <1>1, <1>3 DEF RemoveLast, LoopState
  <2>2. Len(loop.list) \in Nat \ {0}
    BY <1>1, <2>1 DEF LoopInv, Finishes, RemovesTo, LoopState
  <2>3. Len(loop'.list) = Len(loop.list) - 1 /\ Len(loop'.list) \in Nat
    <3> DEFINE list == loop.list
               n == Len(list) - 1
    <3>1. list \in Seq(Slot) /\ n \in 0 .. Len(list)
      BY <1>1, <2>2 DEF LoopState
    <3> HIDE DEF list, n
    <3>2. Len(SubSeq(list, 1, n)) = n /\ n \in Nat
      BY <3>1
    <3> QED
      BY <2>1, <3>2 DEF list, n
  <2>4. ToDo(loop') = Len(loop'.list) /\ ToDo(loop) = Len(loop.list)
    BY <2>1 DEF ToDo
  <2> QED
    BY <2>1, <2>2, <2>3, <2>4 DEF Closer
<1>4. CASE PrependSlot
  <2>1. /\ loop'.at = "prepend" /\ loop.at = "prepend" /\ loop'.index = loop.index - 1
        /\ loop'.from = loop.from /\ loop.index # loop.from
    BY <1>1, <1>4 DEF PrependSlot, LoopState
  <2>2. loop.from <= loop.index /\ loop.from \in Nat /\ loop.index \in Nat
    BY <1>1, <2>1 DEF LoopInv, Finishes, PrependsTo, LoopState
  <2>3. ToDo(loop') = loop'.index - loop'.from /\ ToDo(loop) = loop.index - loop.from
    BY <2>1 DEF ToDo
  <2>4. ToDo(loop') \in Nat /\ ToDo(loop') < ToDo(loop)
    BY <2>1, <2>2, <2>3
  <2> QED
    BY <2>1, <2>4 DEF Closer
<1>5. CASE AppendSlot
  <2>1. /\ loop'.at = "append" /\ loop.at = "append" /\ Len(loop.list) < CacheSizeInPieces
        /\ loop'.list = Append(loop.list, EmptySlot(loop.from)) /\ loop.from \in Nat
    BY <1>1, <1>5 DEF AppendSlot, LoopState
  <2>2. loop.list \in Seq(Slot) /\ Len(loop.list) \in Nat /\ EmptySlot(loop.from) \in Slot
    BY <1>1, <2>1, EmptySlotIsSlot DEF LoopState
  <2>3. Len(loop'.list) = Len(loop.list) + 1
    BY <2>1, <2>2, AppendProperties
  <2>4. ToDo(loop') = CacheSizeInPieces - Len(loop'.list) /\ ToDo(loop) = CacheSizeInPieces - Len(loop.list)
    BY <2>1 DEF ToDo
  <2>5. ToDo(loop') \in Nat /\ ToDo(loop') < ToDo(loop)
    BY <2>1, <2>2, <2>3, <2>4, SizesAssumption
  <2> QED
    BY <2>1, <2>5 DEF Closer
<1>6. CASE AdvanceOn
  <2>1. /\ loop'.at = "advance" /\ loop.at = "advance" /\ loop'.index = loop.index + 1
        /\ loop'.list = loop.list /\ loop.index <= Len(loop.list)
    BY <1>1, <1>6 DEF AdvanceOn, LoopState
  <2>2. loop.index \in Nat /\ Len(loop.list) \in Nat
    BY <1>1 DEF LoopState
  <2>3. /\ ToDo(loop') = Len(loop'.list) + 1 - loop'.index
        /\ ToDo(loop) = Len(loop.list) + 1 - loop.index
    BY <2>1 DEF ToDo
  <2>4. ToDo(loop') \in Nat /\ ToDo(loop') < ToDo(loop)
    BY <2>1, <2>2, <2>3
  <2> QED
    BY <2>1, <2>4 DEF Closer
<1>7. CASE NoneKept \/ SomeKept \/ RemoveEnd \/ PrependEnd \/ AppendEnd \/ AdvanceBreak \/ AdvanceEnd
  <2>1. \/ loop.at = "erase" /\ loop'.at \in {"append", "remove"}
        \/ loop.at = "remove" /\ loop'.at = "prepend"
        \/ loop.at = "prepend" /\ loop'.at = "append"
        \/ loop.at \in {"append", "advance"} /\ loop'.at = "end"
    <3>1. CASE NoneKept \/ SomeKept
      BY <1>1, <3>1 DEF NoneKept, SomeKept, LoopState
    <3>2. CASE RemoveEnd \/ PrependEnd
      BY <1>1, <3>2 DEF RemoveEnd, PrependEnd, LoopState
    <3>3. CASE AppendEnd \/ AdvanceBreak \/ AdvanceEnd
      BY <1>1, <3>3 DEF AppendEnd, AdvanceBreak, AdvanceEnd, EndOfLoop, LoopState
    <3> QED
      BY <1>7, <3>1, <3>2, <3>3
  <2>2. Order(loop.at) < Order(loop'.at)
    BY <2>1 DEF Order
  <2> QED
    BY <2>2 DEF Closer
<1> QED
  BY <1>2, <1>3, <1>4, <1>5, <1>6, <1>7 DEF Turn

\* No loop of requestSlots() or of write() runs forever with the mutex held:
\* with every turn it comes closer to its end.
THEOREM LoopsComeToAnEnd == LoopSpec => [][Turn => Closer]_<<vars, loop>>
<1>1. Inv /\ LoopInv /\ [NextLoop]_<<vars, loop>> => [Turn => Closer]_<<vars, loop>>
  BY TurnIsCloser
<1> QED
  BY <1>1, LoopInvariance, PTL DEF LoopSpec

-----------------------------------------------------------------------------
(***************************************************************************)
(* What a blocked read can count on, in every interleaving: the part of    *)
(* BlockedReadReturns that no fairness is needed for.                      *)
(***************************************************************************)

\* A read that waits for a piece of the file has a slot for it, the first one:
\* the blocks it waits for are not dropped as out of range.
WaitedPieceHasSlot ==
  rpc = "waitNotEmpty" /\ PieceOf(absWPos) <= LastPiece =>
    1 \in DOMAIN slotList /\ slotList[1].first = PieceOf(absWPos)

\* A write into that slot that leaves the byte at the reading position
\* available wakes the reader.
HeadCommitWakes ==
  (/\ WriteCommit /\ itr = 1 /\ rpc = "waitNotEmpty"
   /\ PieceAbsPos(slotList[1].first) + BytesAvailable(slotList'[1].second) > absRPos)
  => rpc' = "woken"

\* A read that waits, waits in the piece of the writing position.
LEMMA WaitsInHead ==
  ASSUME Inv, rpc = "waitNotEmpty"
  PROVE  PieceOf(absWPos) = PieceOf(absRPos)
<1>1. absRPos \in Nat /\ absWPos \in Nat /\ absWPos <= absRPos
  BY DEF Inv, TypeOK, NoLostWakeup
<1>2. PieceOf(absWPos) <= PieceOf(absRPos)
  BY <1>1, DivMonotonic, SizesAssumption DEF PieceOf
<1>3. PieceOf(absRPos) <= PieceOf(absWPos)
  BY <1>1, ReadPiece, PieceOfAtLeast DEF Inv, Window
<1>4. PieceOf(absWPos) \in Nat /\ PieceOf(absRPos) \in Nat
  BY <1>1, Pieces
<1> QED
  BY <1>2, <1>3, <1>4

LEMMA WaitedPiece == Inv => WaitedPieceHasSlot
<1> SUFFICES ASSUME Inv, rpc = "waitNotEmpty", PieceOf(absWPos) <= LastPiece
             PROVE  1 \in DOMAIN slotList /\ slotList[1].first = PieceOf(absWPos)
  BY DEF WaitedPieceHasSlot
<1> DEFINE k == PieceOf(absRPos)
<1>1. PieceOf(absWPos) = k /\ k \in Nat /\ k <= LastPiece /\ Full(slotList, k)
  BY WaitsInHead, ReadPiece
<1> HIDE DEF k
<1>2. Len(slotList) = Larger(0, Smaller(CacheSizeInPieces, LastPiece - k + 1)) /\ slotList \in Seq(Slot)
  BY <1>1 DEF Full
<1>3. Len(slotList) > 0
  BY <1>1, <1>2, SizesAssumption, Sizes DEF Larger, Smaller
<1>4. 1 \in DOMAIN slotList
  BY <1>2, <1>3
<1> QED
  BY <1>1, <1>4 DEF Full

LEMMA HeadCommit ==
  ASSUME Inv, WriteCommit, itr = 1, rpc = "waitNotEmpty",
         PieceAbsPos(slotList[1].first) + BytesAvailable(slotList'[1].second) > absRPos
  PROVE  rpc' = "woken"
<1> DEFINE list == slotList'
           k == PieceOf(absRPos)
           n == LastVisited(list, 1)
           reached == PieceAbsPos(list[n].first) + BytesAvailable(list[n].second)
<1>1. k \in Nat /\ PieceOf(absWPos) = k /\ absWPos \in Nat /\ absRPos \in Nat
  BY WaitsInHead, ReadPiece, WithinCache
<1>2. Run(list, k)
  BY <1>1, ReadPiece, WriteCommitMoves, FullIsRun
<1>3. absWPos' = AdvanceWPos(list, 1, absWPos) /\ 1 \in DOMAIN slotList
  BY DEF WriteCommit
<1>4. slotList[1].first = k
  BY <1>3, ReadPiece DEF Full
<1>5. 1 \in 1 .. Len(list)
  <2>1. slotList' = [slotList EXCEPT ![1].second = AddSegment(@, <<block.offset, block.offset + block.len>>)]
    BY DEF WriteCommit
  <2>2. slotList \in Seq(Slot)
    BY DEF Inv, TypeOK
  <2> QED
    BY <1>3, <2>1, <2>2
<1> HIDE DEF list, k
<1>6. /\ list \in Seq(Slot) /\ \A i \in 1 .. Len(list) : list[i].first = k + i - 1
  BY <1>2 DEF Run
<1>7. n \in 1 .. Len(list)
  BY <1>5, <1>6, LastVisitedIs
<1>8. list[1].first = PieceOf(absWPos)
  BY <1>1, <1>5, <1>6
<1>9. absWPos' = Larger(reached, absWPos)
  <2>1. 1 \in 1 .. n
    BY <1>7
  <2> QED
    BY <1>3, <1>8, <2>1 DEF AdvanceWPos
<1>10. reached >= PieceAbsPos(k) + BytesAvailable(list[1].second) /\ reached \in Nat
  <2> HIDE DEF n
  <2>1. /\ BytesAvailable(list[1].second) \in 0 .. PieceLen
        /\ BytesAvailable(list[n].second) \in 0 .. PieceLen
    BY <1>5, <1>6, <1>7, SlotFields, BytesAvailableIs, SizesAssumption
  <2>2. list[n].first = k + n - 1 /\ k + n - 1 \in Nat
    BY <1>1, <1>6, <1>7
  <2>3. PieceAbsPos(k) \in Nat /\ PieceAbsPos(k + n - 1) \in Nat
    BY <1>1, <2>2, SizesAssumption DEF PieceAbsPos
  <2>4. CASE n = 1
    BY <1>1, <2>1, <2>2, <2>3, <2>4, SizesAssumption
  <2>5. CASE n # 1
    <3>1. k + 1 \in Nat /\ k + 1 <= k + n - 1
      BY <1>1, <1>7, <2>5
    <3>2. PieceAbsPos(k + 1) <= PieceAbsPos(k + n - 1) /\ PieceAbsPos(k + 1) = PieceAbsPos(k) + PieceLen
      <4>1. PieceAbsPos(k + 1) <= PieceAbsPos(k + n - 1)
        BY <2>2, <3>1, PiecesMonotonic
      <4>2. PieceAbsPos(k + 1) = PieceAbsPos(k) + PieceLen
        BY <1>1, SizesAssumption DEF PieceAbsPos
      <4> QED
        BY <4>1, <4>2
    <3> QED
      BY <2>1, <2>2, <2>3, <3>2, SizesAssumption
  <2> QED
    BY <2>4, <2>5
<1>11. absWPos' > absRPos
  <2>1. PieceAbsPos(k) + BytesAvailable(list[1].second) > absRPos
    BY <1>4 DEF list
  <2>2. PieceAbsPos(k) + BytesAvailable(list[1].second) \in Nat
    <3>1. PieceAbsPos(k) \in Nat /\ BytesAvailable(list[1].second) \in Nat
      BY <1>1, <1>5, <1>6, SlotFields, BytesAvailableIs, SizesAssumption DEF PieceAbsPos
    <3> QED
      BY <3>1
  <2> HIDE DEF reached
  <2> QED
    BY <1>1, <1>9, <1>10, <2>1, <2>2 DEF Larger
<1> QED
  BY <1>11 DEF WriteCommit, Wake

\* In every interleaving, a read that waits for a piece of the file has the
\* first slot for it.
THEOREM WaitsForHeadSlot == Spec => []WaitedPieceHasSlot
  BY WaitedPiece, Invariance, PTL

\* In every interleaving, the write that makes the byte at the reading position
\* available, or finds it available, wakes the read that waits for it, though
\* the loop that moves the writing position may have been stopped before.
THEOREM HeadWriteWakes == Spec => [][HeadCommitWakes]_vars
<1>1. Inv /\ [Next]_vars => [HeadCommitWakes]_vars
  BY HeadCommit DEF HeadCommitWakes
<1> QED
  BY <1>1, Invariance, PTL DEF Spec
=============================================================================
