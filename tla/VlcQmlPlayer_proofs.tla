------------------------- MODULE VlcQmlPlayer_proofs -------------------------
(***************************************************************************)
(* What holds of FileMediaStream for files and buffers of every size, and  *)
(* of the VlcQmlPlayer that makes, opens and deletes such streams for any  *)
(* number of files, other locations and outputs.                           *)
(***************************************************************************)
EXTENDS VlcQmlPlayer, TLAPS

(***************************************************************************)
(* The stream by itself.                                                   *)
(***************************************************************************)

\* The bytes that are buffered are those of the file before its position.
Ahead ==
  /\ totalBytesBuffer <= filePos
  /\ currentBufferPos < totalBytesBuffer => filePos <= FileSize
  /\ \A k \in currentBufferPos + 1 .. totalBytesBuffer :
       buff[k] = filePos - totalBytesBuffer + k - 1

\* A stream that was never opened is at the beginning of the file.
Unread == ~ isOpen /\ ~ closed => filePos = 0 /\ totalBytesBuffer = 0

Inv == TypeOK /\ Ahead /\ Unread

\* What filling the buffer again leads to.
LEMMA Refill ==
  ASSUME TypeOK, NEW n \in Readable
  PROVE  /\ n \in 0 .. BufferSize
         /\ n > 0 => filePos + n <= FileSize
         /\ n = 0 => filePos >= FileSize \/ MayFail
         /\ Filled(n) \in Seq(Nat) /\ Len(Filled(n)) = n
         /\ \A k \in 1 .. n : Filled(n)[k] = filePos + k - 1
<1>1. n \in 0 .. BufferSize /\ (n > 0 => filePos + n <= FileSize)
        /\ (n = 0 => filePos >= FileSize \/ MayFail)
  BY SizesAssumption, FlagsAssumption DEF TypeOK, Readable, Smaller
<1>2. filePos \in Nat
  BY DEF TypeOK
<1>3. \A k \in 1 .. n : filePos + k - 1 \in Nat
  BY <1>1, <1>2
<1> QED
  BY <1>1, <1>2, <1>3 DEF Filled

\* n bytes were given from a buffer `from` of `total` bytes of the file that
\* ends at `end`.
Given(n, from, total, cur, end) ==
  /\ n \in 0 .. total - cur /\ (n = 0 => cur = total)
  /\ buff' = from /\ totalBytesBuffer' = total /\ currentBufferPos' = cur + n
  /\ bytes' = [k \in 1 .. n |-> end - (total - cur) + k - 1]
  /\ bytes' \in Seq(Nat)

\* Giving bytes from a buffer of `total` bytes of the file that ends at `end`.
LEMMA GiveKeeps ==
  ASSUME NEW len \in Nat \ {0}, NEW from \in Seq(Nat), NEW total \in Nat, NEW cur \in 0 .. total,
         NEW end \in Nat, Len(from) = total, total <= end,
         \A k \in cur + 1 .. total : from[k] = end - total + k - 1,
         Give(len, from, total, cur)
  PROVE  Given(CopyBytes(len, total, cur), from, total, cur, end)
<1> DEFINE n == CopyBytes(len, total, cur)
           given == [k \in 1 .. n |-> end - (total - cur) + k - 1]
<1>1. n \in 0 .. total - cur /\ (n = 0 => cur = total)
  BY DEF CopyBytes, Smaller
<1>2. buff' = from /\ totalBytesBuffer' = total /\ currentBufferPos' = cur + n
        /\ bytes' = SubSeq(from, cur + 1, cur + n)
  BY DEF Give
<1>3. SubSeq(from, cur + 1, cur + n) = [k \in 1 .. n |-> from[cur + 1 + k - 1]]
  <2> HIDE DEF n
  <2>1. n \in Nat /\ cur \in Nat /\ cur + n \in 0 .. total
    BY <1>1
  <2>2. (cur + n) - (cur + 1) + 1 = n
    BY <2>1
  <2> QED
    BY <2>1, <2>2 DEF SubSeq
<1>4. \A k \in 1 .. n : from[cur + 1 + k - 1] = end - (total - cur) + k - 1
  <2> HIDE DEF n
  <2> SUFFICES ASSUME NEW k \in 1 .. n
               PROVE  from[cur + 1 + k - 1] = end - (total - cur) + k - 1
    OBVIOUS
  <2>1. cur + 1 + k - 1 = cur + k /\ cur + k \in cur + 1 .. total
    BY <1>1
  <2>2. from[cur + k] = end - total + (cur + k) - 1
    BY <2>1
  <2> QED
    BY <2>1, <2>2
<1>5. bytes' = given
  BY <1>2, <1>3, <1>4
<1>6. given \in Seq(Nat)
  <2> HIDE DEF n
  <2>1. \A k \in 1 .. n : end - (total - cur) + k - 1 \in Nat
    BY <1>1
  <2> QED
    BY <2>1, <1>1
<1> QED
  BY <1>1, <1>2, <1>5, <1>6 DEF Given

\* The types alone, which giving bytes keeps whatever the buffer holds.
LEMMA GiveTypes ==
  ASSUME NEW len \in Nat \ {0}, NEW from \in Seq(Nat), NEW total \in 0 .. BufferSize,
         NEW cur \in 0 .. total, Len(from) = total, Give(len, from, total, cur)
  PROVE  /\ totalBytesBuffer' \in 0 .. BufferSize /\ currentBufferPos' \in 0 .. totalBytesBuffer'
         /\ buff' \in Seq(Nat) /\ Len(buff') = totalBytesBuffer'
         /\ bytes' \in Seq(Nat)
<1> DEFINE n == CopyBytes(len, total, cur)
<1>1. n \in 0 .. total - cur
  BY SizesAssumption DEF CopyBytes, Smaller
<1>2. bytes' = SubSeq(from, cur + 1, cur + n) /\ buff' = from /\ totalBytesBuffer' = total
        /\ currentBufferPos' = cur + n
  BY DEF Give
<1> HIDE DEF n
<1>3. cur + n \in 0 .. total /\ cur + 1 \in 1 .. Len(from) + 1 /\ cur + n <= Len(from)
  BY <1>1, SizesAssumption
<1>4. SubSeq(from, cur + 1, cur + n) \in Seq(Nat)
  BY <1>3 DEF SubSeq
<1> QED
  BY <1>2, <1>3, <1>4

LEMMA ReadTypes ==
  ASSUME TypeOK, NEW len \in ReadLens, Read(len)
  PROVE  TypeOK'
<1>1. len \in Nat \ {0} /\ isOpen' = isOpen /\ closed' = closed
  BY InputsAssumption DEF Read
<1>2. CASE totalBytesBuffer = currentBufferPos
  <2>1. PICK n \in Readable : Give(len, Filled(n), n, 0) /\ filePos' = filePos + n
    BY <1>2 DEF Read
  <2>2. n \in 0 .. BufferSize /\ Filled(n) \in Seq(Nat) /\ Len(Filled(n)) = n
    BY Refill
  <2>3. 0 \in 0 .. n /\ filePos' \in Nat
    BY <2>1, <2>2, SizesAssumption DEF TypeOK
  <2>4. /\ totalBytesBuffer' \in 0 .. BufferSize /\ currentBufferPos' \in 0 .. totalBytesBuffer'
        /\ buff' \in Seq(Nat) /\ Len(buff') = totalBytesBuffer' /\ bytes' \in Seq(Nat)
    BY <1>1, <2>1, <2>2, <2>3, GiveTypes
  <2> QED
    BY <1>1, <2>3, <2>4 DEF TypeOK
<1>3. CASE totalBytesBuffer # currentBufferPos
  <2>1. Give(len, buff, totalBytesBuffer, currentBufferPos) /\ filePos' = filePos
    BY <1>3 DEF Read
  <2>2. /\ totalBytesBuffer' \in 0 .. BufferSize /\ currentBufferPos' \in 0 .. totalBytesBuffer'
        /\ buff' \in Seq(Nat) /\ Len(buff') = totalBytesBuffer' /\ bytes' \in Seq(Nat)
    BY <1>1, <2>1, GiveTypes DEF TypeOK
  <2> QED
    BY <1>1, <2>1, <2>2 DEF TypeOK
<1> QED
  BY <1>2, <1>3

\* A read gives the bytes from the position on and moves it behind them.
LEMMA ReadStep ==
  ASSUME Inv, NEW len \in ReadLens, Read(len)
  PROVE  Inv' /\ File!ReadFile(position' - position)
<1>1. len \in Nat \ {0}
  BY InputsAssumption
<1>2. isOpen /\ isOpen' = isOpen /\ closed' = closed /\ closed \in BOOLEAN /\ filePos \in Nat
  BY DEF Read, Inv, TypeOK
<1>3. CASE totalBytesBuffer = currentBufferPos
  <2>1. PICK n \in Readable : Give(len, Filled(n), n, 0) /\ filePos' = filePos + n
    BY <1>3 DEF Read
  <2>2. /\ n \in 0 .. BufferSize
        /\ n > 0 => filePos + n <= FileSize
        /\ n = 0 => filePos >= FileSize \/ MayFail
        /\ Filled(n) \in Seq(Nat) /\ Len(Filled(n)) = n
        /\ \A k \in 1 .. n : Filled(n)[k] = filePos + k - 1
    BY Refill DEF Inv
  <2> DEFINE m == CopyBytes(len, n, 0)
  <2>3. \A k \in 0 + 1 .. n : Filled(n)[k] = (filePos + n) - n + k - 1
    BY <2>2, <1>2
  <2>4. /\ m \in 0 .. n - 0 /\ (m = 0 => 0 = n)
        /\ buff' = Filled(n) /\ totalBytesBuffer' = n /\ currentBufferPos' = 0 + m
        /\ bytes' = [k \in 1 .. m |-> (filePos + n) - (n - 0) + k - 1]
        /\ bytes' \in Seq(Nat)
    <3>1. n \in Nat /\ 0 \in 0 .. n /\ filePos + n \in Nat /\ n <= filePos + n
      BY <2>2, <1>2
    <3>2. Given(m, Filled(n), n, 0, filePos + n)
      BY <2>1, <2>2, <2>3, <3>1, <1>1, GiveKeeps
    <3> QED
      BY <3>2 DEF Given
  <2> HIDE DEF m
  <2>5. position = filePos /\ position' = filePos + m
    BY <1>2, <1>3, <2>1, <2>2, <2>4 DEF position, Inv, TypeOK
  <2>6. bytes' = [k \in 1 .. m |-> filePos + k - 1]
    BY <2>2, <2>4, <1>2
  <2>7. Inv'
    BY <1>2, <2>1, <2>2, <2>3, <2>4 DEF Inv, TypeOK, Ahead, Unread
  <2>8. position' - position = m
    BY <2>5, <1>2, <2>4
  <2>9. File!ReadFile(m)
    BY <2>2, <2>4, <2>5, <2>6, <1>2, SizesAssumption DEF File!ReadFile
  <2> QED
    BY <2>7, <2>8, <2>9
<1>4. CASE totalBytesBuffer # currentBufferPos
  <2> DEFINE m == CopyBytes(len, totalBytesBuffer, currentBufferPos)
  <2>1. Give(len, buff, totalBytesBuffer, currentBufferPos) /\ filePos' = filePos
    BY <1>4 DEF Read
  <2>2. /\ totalBytesBuffer \in Nat /\ currentBufferPos \in 0 .. totalBytesBuffer
        /\ totalBytesBuffer <= BufferSize /\ totalBytesBuffer <= filePos
        /\ currentBufferPos < totalBytesBuffer /\ filePos <= FileSize
        /\ buff \in Seq(Nat) /\ Len(buff) = totalBytesBuffer
        /\ \A k \in currentBufferPos + 1 .. totalBytesBuffer :
             buff[k] = filePos - totalBytesBuffer + k - 1
    BY <1>4, SizesAssumption DEF Inv, TypeOK, Ahead
  <2>3. /\ m \in 0 .. totalBytesBuffer - currentBufferPos
        /\ m = 0 => currentBufferPos = totalBytesBuffer
        /\ buff' = buff /\ totalBytesBuffer' = totalBytesBuffer
        /\ currentBufferPos' = currentBufferPos + m
        /\ bytes' = [k \in 1 .. m |-> filePos - (totalBytesBuffer - currentBufferPos) + k - 1]
        /\ bytes' \in Seq(Nat)
    <3>1. /\ filePos \in Nat /\ totalBytesBuffer \in Nat
          /\ currentBufferPos \in 0 .. totalBytesBuffer
          /\ totalBytesBuffer <= filePos
          /\ buff \in Seq(Nat) /\ Len(buff) = totalBytesBuffer
          /\ Give(len, buff, totalBytesBuffer, currentBufferPos)
      BY <1>2, <2>1, <2>2
    <3>2. \A k \in currentBufferPos + 1 .. totalBytesBuffer :
             buff[k] = filePos - totalBytesBuffer + k - 1
      BY <2>2
    <3>3. Given(m, buff, totalBytesBuffer, currentBufferPos, filePos)
      BY <3>1, <3>2, <1>1, GiveKeeps
    <3> QED
      BY <3>3 DEF Given
  <2> HIDE DEF m
  <2>4. position' = position + m /\ position \in Nat
    BY <2>1, <2>2, <2>3, <1>2 DEF position
  <2>5. bytes' = [k \in 1 .. m |-> position + k - 1]
    BY <2>3 DEF position
  <2>6. Inv'
    BY <1>2, <2>1, <2>2, <2>3 DEF Inv, TypeOK, Ahead, Unread
  <2>7. position' - position = m
    BY <2>4, <2>3, <2>2
  <2>8. m > 0 /\ position + m <= FileSize
    BY <2>2, <2>3, <1>2, SizesAssumption DEF position
  <2>9. m # 0 /\ position' = position + m
    BY <2>3, <2>4, <2>8
  <2>10. File!ReadFile(m)
    BY <2>5, <2>8, <2>9, <1>2 DEF File!ReadFile
  <2> QED
    BY <2>6, <2>7, <2>10
<1> QED
  BY <1>3, <1>4

LEMMA InitInv == Init => Inv
<1> SUFFICES ASSUME Init PROVE Inv
  OBVIOUS
<1>1. <<>> \in Seq(Nat) /\ Len(<<>>) = 0
  OBVIOUS
<1>2. 0 \in Nat /\ FALSE \in BOOLEAN /\ 0 \in 0 .. BufferSize /\ 0 \in 0 .. 0
  BY SizesAssumption
<1>3. TypeOK
  BY <1>1, <1>2, Zenon DEF Init, TypeOK
<1>4. Ahead /\ Unread
  BY DEF Init, Ahead, Unread
<1> QED
  BY <1>3, <1>4 DEF Inv

LEMMA NextInv ==
  ASSUME Inv, [Next]_vars, ~ Reopens
  PROVE  Inv'
<1>1. CASE Open
  BY <1>1, SizesAssumption DEF Open, Inv, TypeOK, Ahead, Unread, buffer
<1>2. CASE Close
  BY <1>2 DEF Close, Inv, TypeOK, Ahead, Unread, buffer
<1>3. CASE \E len \in ReadLens : Read(len)
  BY <1>3, ReadStep
<1>4. CASE \E offset \in SeekTargets : Seek(offset)
  BY <1>4, InputsAssumption, SizesAssumption
  DEF Seek, DropBuffer, Inv, TypeOK, Ahead, Unread
<1>5. CASE UNCHANGED vars
  BY <1>5 DEF vars, Inv, TypeOK, Ahead, Unread
<1> QED
  BY <1>1, <1>2, <1>3, <1>4, <1>5 DEF Next

LEMMA NextTypes ==
  ASSUME TypeOK, [Next]_vars
  PROVE  TypeOK'
<1>1. CASE Open
  BY <1>1 DEF Open, TypeOK, buffer
<1>2. CASE Close
  BY <1>2 DEF Close, TypeOK, buffer
<1>3. CASE \E len \in ReadLens : Read(len)
  BY <1>3, ReadTypes
<1>4. CASE \E offset \in SeekTargets : Seek(offset)
  BY <1>4, InputsAssumption, SizesAssumption DEF Seek, DropBuffer, TypeOK
<1>5. CASE UNCHANGED vars
  BY <1>5 DEF vars, TypeOK
<1> QED
  BY <1>1, <1>2, <1>3, <1>4, <1>5 DEF Next

\* The buffer of a stream that is not opened again holds the bytes of the file
\* that come next.
THEOREM Invariance ==
  ASSUME ~ Reopens
  PROVE  Spec => []Inv
<1>1. Inv /\ [Next]_vars => Inv'
  BY NextInv
<1> QED
  BY InitInv, <1>1, PTL DEF Spec

\* Type correctness, with the two Q_ASSERTs of read(): the position in the buffer
\* never passes what was read into it.  It holds of a stream that is opened again.
THEOREM TypeCorrect == Spec => []TypeOK
<1>1. Init => TypeOK
  BY InitInv DEF Inv
<1>2. TypeOK /\ [Next]_vars => TypeOK'
  BY NextTypes
<1> QED
  BY <1>1, <1>2, PTL DEF Spec

LEMMA NothingLess == \A p \in Nat : p - (0 - 0) \in Nat
  OBVIOUS

LEMMA NextImplements ==
  ASSUME Inv, [Next]_vars, ~ Reopens
  PROVE  [File!FileNext]_<<isOpen, position, bytes>>
<1>1. CASE Open
  <2>1. position = 0 /\ position' = 0
    BY <1>1 DEF Open, Inv, TypeOK, Unread, position, buffer
  <2> QED
    BY <1>1, <2>1 DEF Open, File!FileNext, File!OpenFile
<1>2. CASE Close
  BY <1>2 DEF Close, buffer, position, File!FileNext, File!CloseFile
<1>3. CASE \E len \in ReadLens : Read(len)
  BY <1>3, ReadStep DEF File!FileNext
<1>4. ASSUME NEW offset \in SeekTargets, Seek(offset)
      PROVE  File!SeekFile
  <2>1. filePos' \in Nat
    BY <1>4, InputsAssumption DEF Seek, Inv, TypeOK
  <2>2. position' = filePos' - (0 - 0)
    BY <1>4, Zenon DEF Seek, DropBuffer, position
  <2>3. position' \in Nat
    BY <2>1, <2>2, NothingLess, Zenon
  <2> QED
    BY <1>4, <2>3 DEF Seek, File!SeekFile
<1>5. CASE UNCHANGED vars
  BY <1>5 DEF vars, position
<1> QED
  BY <1>1, <1>2, <1>3, <1>4, <1>5 DEF Next, File!FileNext

\* A stream that is not opened twice is a file: its buffer is not seen.
THEOREM StreamImplementsFile ==
  ASSUME ~ Reopens
  PROVE  Spec => ImplementsFile
<1>1. Init => File!FileInit
  BY DEF Init, File!FileInit, position
<1>2. Inv /\ [Next]_vars => [File!FileNext]_<<isOpen, position, bytes>>
  BY NextImplements
<1> QED
  BY <1>1, <1>2, Invariance, PTL DEF Spec, ImplementsFile, File!FileSpec

-----------------------------------------------------------------------------
(***************************************************************************)
(* The player.  Every action that touches the stream does to it what an    *)
(* action of FileMediaStream does, or closes it, or takes a new one.       *)
(***************************************************************************)

\* stop() closes the stream, if it is open, and leaves the rest of it alone.
Closing ==
  /\ isOpen' = FALSE /\ closed' = (closed \/ isOpen)
  /\ UNCHANGED <<filePos, buffer, bytes>>

\* new FileMediaStream()
Fresh ==
  /\ isOpen' = FALSE /\ filePos' = 0 /\ buff' = <<>> /\ closed' = FALSE
  /\ currentBufferPos' = 0 /\ totalBytesBuffer' = 0 /\ bytes' = <<>>

\* What becomes of the stream in a step of the player.
LEMMA StreamSteps ==
  ASSUME PlayerNext
  PROVE  [Next]_vars \/ Closing \/ Fresh
<1>1. CASE VlcOpens
  BY <1>1 DEF VlcOpens, Next, vars, stream
<1>2. CASE VlcReads
  BY <1>2 DEF VlcReads, Next
<1>3. CASE VlcEnds
  BY <1>3 DEF VlcEnds, CloseStream, Next, vars, stream
<1>4. CASE play
  BY <1>4 DEF play, vars, stream
<1>5. CASE stop
  BY <1>5 DEF stop, Stopped, Closing
<1>6. CASE \E value \in BOOLEAN : setAutoplay(value)
  BY <1>6 DEF setAutoplay, vars, stream
<1>7. ASSUME NEW u \in Files \cup Locations, MakeMedia(u)
      PROVE  Closing \/ Fresh
  BY <1>7 DEF MakeMedia, Stopped, Closing, Fresh
<1>8. CASE \E u \in Files \cup Locations : setUrl(u)
  BY <1>7, <1>8 DEF setUrl
<1>9. CASE \E u \in Files \cup Locations : setUrlFile(u)
  BY <1>7, <1>9 DEF setUrlFile, Stopped, Closing
<1>10. CASE \E m \in deletions : DeferredDelete(m)
  BY <1>10 DEF DeferredDelete, vars, stream
<1>11. CASE Destroy
  BY <1>11 DEF Destroy, Stopped, Closing
<1>12. CASE \E o \in Outputs : setSource(o) \/ DestroyOutput(o)
  BY <1>12 DEF setSource, DestroyOutput, vars, stream
<1> QED
  BY <1>1, <1>2, <1>3, <1>4, <1>5, <1>6, <1>8, <1>9, <1>10, <1>11, <1>12
  DEF PlayerNext, VlcThread

LEMMA FreshTypes ==
  ASSUME Fresh
  PROVE  Inv'
<1>1. <<>> \in Seq(Nat) /\ Len(<<>>) = 0
  OBVIOUS
<1>2. 0 \in Nat /\ FALSE \in BOOLEAN /\ 0 \in 0 .. BufferSize /\ 0 \in 0 .. 0
  BY SizesAssumption
<1>3. TypeOK'
  BY <1>1, <1>2, Zenon DEF Fresh, TypeOK
<1>4. Ahead' /\ Unread'
  BY DEF Fresh, Ahead, Unread
<1> QED
  BY <1>3, <1>4 DEF Inv

LEMMA ClosingKeeps ==
  ASSUME Closing, TypeOK
  PROVE  TypeOK' /\ (Inv => Inv')
<1>1. isOpen' \in BOOLEAN /\ closed' \in BOOLEAN
  BY Zenon DEF Closing, TypeOK
<1>2. UNCHANGED <<filePos, buff, currentBufferPos, totalBytesBuffer, bytes>>
  BY DEF Closing, buffer
<1>3. TypeOK'
  BY <1>1, <1>2 DEF TypeOK
<1>4. Ahead => Ahead'
  BY <1>2 DEF Ahead
<1>5. Unread => Unread'
  BY <1>2, Zenon DEF Unread, Closing
<1> QED
  BY <1>3, <1>4, <1>5 DEF Inv

\* The types of what is the player's own.
ObjectsOK ==
  /\ urls \in Seq(Files \cup Locations) /\ alive \subseteq Made /\ deletions \subseteq Made
  /\ _media \in 0 .. Len(urls) /\ streamOf \in 0 .. Len(urls) /\ native \in 0 .. Len(urls)
  /\ input \in {"none", "starting", "running", "ended"}
  /\ autoplay \in BOOLEAN /\ destroyed \in BOOLEAN

OutputsOK == items \subseteq Outputs /\ source \subseteq items /\ attached \subseteq Outputs

\* A media that is made is the last one.
LEMMA MadeLast ==
  ASSUME ObjectsOK, NEW u \in Files \cup Locations, MakeMedia(u)
  PROVE  /\ urls' \in Seq(Files \cup Locations) /\ Len(urls') = Len(urls) + 1 /\ Len(urls) \in Nat
         /\ Made' = Made \cup {Len(urls) + 1} /\ Len(urls) + 1 \notin Made
         /\ alive' = alive \cup {Len(urls) + 1}
         /\ _media' = Len(urls) + 1 /\ native' = Len(urls) + 1
         /\ input' \in {"none", "starting"}
         /\ streamOf' \in {streamOf, Len(urls) + 1}
<1>1. urls \in Seq(Files \cup Locations)
  BY DEF ObjectsOK
<1>2. urls' = Append(urls, u)
  BY DEF MakeMedia
<1>3. Len(urls) \in Nat /\ Len(urls') = Len(urls) + 1 /\ urls' \in Seq(Files \cup Locations)
  BY <1>1, <1>2
<1>4. Made' = Made \cup {Len(urls) + 1} /\ Len(urls) + 1 \notin Made
  BY <1>3 DEF Made
<1> QED
  BY <1>3, <1>4 DEF MakeMedia, Stopped

LEMMA ObjectsStep ==
  ASSUME ObjectsOK, [PlayerNext]_playerVars
  PROVE  ObjectsOK'
<1>1. CASE VlcOpens
  BY <1>1 DEF VlcOpens, ObjectsOK, objects, Made
<1>2. CASE VlcReads
  BY <1>2 DEF VlcReads, ObjectsOK, objects, player, Made
<1>3. CASE VlcEnds
  BY <1>3 DEF VlcEnds, ObjectsOK, objects, Made
<1>4. CASE play
  BY <1>4 DEF play, ObjectsOK, objects, Made
<1>5. CASE stop
  BY <1>5 DEF stop, Stopped, ObjectsOK, objects, Made
<1>6. CASE \E value \in BOOLEAN : setAutoplay(value)
  BY <1>6 DEF setAutoplay, ObjectsOK, objects, player, Made
<1>7. ASSUME NEW u \in Files \cup Locations, MakeMedia(u), deletions' = DeleteLater,
             UNCHANGED <<autoplay, destroyed>>
      PROVE  ObjectsOK'
  <2>1. DeleteLater \subseteq Made
    BY DEF DeleteLater, ObjectsOK, Made
  <2> QED
    BY <1>7, <2>1, MadeLast DEF ObjectsOK
<1>8. CASE \E u \in Files \cup Locations : setUrl(u)
  BY <1>7, <1>8 DEF setUrl
<1>9. CASE \E u \in Files \cup Locations : setUrlFile(u)
  <2>1. PICK u \in Files \cup Locations : setUrlFile(u)
    BY <1>9
  <2>2. CASE u \in Files
    BY <1>7, <2>1, <2>2 DEF setUrlFile
  <2>3. CASE u \notin Files
    <3>1. /\ UNCHANGED <<urls, alive, _media, streamOf, native, autoplay, destroyed>>
          /\ deletions' = DeleteLater /\ input' = "none"
      BY <2>1, <2>3 DEF setUrlFile, Stopped
    <3>2. DeleteLater \subseteq Made /\ Made' = Made
      BY <3>1 DEF DeleteLater, ObjectsOK, Made
    <3> QED
      BY <3>1, <3>2 DEF ObjectsOK
  <2> QED
    BY <2>2, <2>3
<1>10. CASE \E m \in deletions : DeferredDelete(m)
  BY <1>10 DEF DeferredDelete, ObjectsOK, player, Made
<1>11. CASE Destroy
  BY <1>11 DEF Destroy, Stopped, ObjectsOK, Made
<1>12. CASE \E o \in Outputs : setSource(o) \/ DestroyOutput(o)
  BY <1>12 DEF setSource, DestroyOutput, ObjectsOK, objects, player, Made
<1>13. CASE UNCHANGED playerVars
  BY <1>13 DEF playerVars, ObjectsOK, objects, player, Made
<1> QED
  BY <1>1, <1>2, <1>3, <1>4, <1>5, <1>6, <1>8, <1>9, <1>10, <1>11, <1>12, <1>13
  DEF PlayerNext, VlcThread

\* Only setSource(), an output's end and the player's touch the outputs.
LEMMA OutputSteps ==
  ASSUME PlayerNext
  PROVE  \/ \E o \in Outputs : setSource(o) \/ DestroyOutput(o)
         \/ Destroy
         \/ UNCHANGED outputs /\ UNCHANGED destroyed
BY DEF PlayerNext, VlcThread, VlcOpens, VlcReads, VlcEnds, play, stop, setAutoplay, setUrl,
       setUrlFile, DeferredDelete

LEMMA OutputsStep ==
  ASSUME OutputsOK, [PlayerNext]_playerVars
  PROVE  OutputsOK'
<1>1. CASE \E o \in Outputs : setSource(o) \/ DestroyOutput(o)
  BY <1>1 DEF setSource, DestroyOutput, OutputsOK
<1>2. CASE Destroy
  BY <1>2 DEF Destroy, OutputsOK
<1>3. CASE UNCHANGED outputs
  BY <1>3 DEF outputs, OutputsOK
<1> QED
  BY <1>1, <1>2, <1>3, OutputSteps DEF playerVars, outputs

LEMMA StreamTypes ==
  ASSUME TypeOK, [PlayerNext]_playerVars
  PROVE  TypeOK'
<1>1. CASE UNCHANGED playerVars
  BY <1>1, NextTypes DEF playerVars, stream, vars
<1>2. CASE PlayerNext
  BY <1>2, StreamSteps, NextTypes, ClosingKeeps, FreshTypes DEF Inv
<1> QED
  BY <1>1, <1>2

LEMMA PlayerTypeParts == PlayerTypeOK <=> TypeOK /\ ObjectsOK /\ OutputsOK
  BY DEF PlayerTypeOK, ObjectsOK, OutputsOK

\* The types of the player's state and of its stream's.
THEOREM PlayerTypeCorrect == PlayerSpec => []PlayerTypeOK
<1>1. PlayerInit => PlayerTypeOK
  <2> SUFFICES ASSUME PlayerInit PROVE PlayerTypeOK
    OBVIOUS
  <2>1. TypeOK
    BY InitInv DEF PlayerInit, Inv
  <2>2. <<>> \in Seq(Files \cup Locations) /\ Len(<<>>) = 0 /\ 0 \in 0 .. 0
    OBVIOUS
  <2>3. ObjectsOK
    BY <2>2 DEF PlayerInit, ObjectsOK
  <2>4. OutputsOK
    BY DEF PlayerInit, OutputsOK
  <2> QED
    BY <2>1, <2>3, <2>4, PlayerTypeParts
<1>2. PlayerTypeOK /\ [PlayerNext]_playerVars => PlayerTypeOK'
  <2> SUFFICES ASSUME PlayerTypeOK, [PlayerNext]_playerVars PROVE PlayerTypeOK'
    OBVIOUS
  <2>1. TypeOK /\ ObjectsOK /\ OutputsOK
    BY PlayerTypeParts
  <2>2. TypeOK' /\ ObjectsOK' /\ OutputsOK'
    BY <2>1, StreamTypes, ObjectsStep, OutputsStep
  <2> QED
    BY <2>2 DEF PlayerTypeOK, ObjectsOK, OutputsOK
<1> QED
  BY <1>1, <1>2, PTL DEF PlayerSpec

-----------------------------------------------------------------------------
(***************************************************************************)
(* Who owns what.                                                          *)
(***************************************************************************)

\* The player's media is the one libvlc was given, it lives, and nothing but the
\* end of the player or of its own turn makes it wait to be deleted.  A player
\* that is destroyed has stopped.
Owned ==
  IF destroyed THEN input = "none"
  ELSE /\ native = _media
       /\ alive \ deletions = {_media} \ {0} /\ _media \notin deletions

\* The input thread runs for a media that libvlc's player has.
Fed == input = "none" \/ native # 0

OwnedInv == ObjectsOK /\ Owned /\ Fed

\* A media that is made takes the place of the one before.
LEMMA MadeOwned ==
  ASSUME OwnedInv, ~ destroyed, destroyed' = destroyed,
         NEW u \in Files \cup Locations, MakeMedia(u), deletions' = DeleteLater
  PROVE  Owned' /\ Fed'
<1> DEFINE m == Len(urls) + 1
<1>1. ObjectsOK /\ native = _media /\ alive \ deletions = {_media} \ {0} /\ _media \notin deletions
  BY DEF OwnedInv, Owned
<1>2. /\ m \notin Made /\ alive' = alive \cup {m} /\ _media' = m /\ native' = m
      /\ Len(urls) \in Nat
  BY <1>1, MadeLast
<1>3. m # 0 /\ _media \in 0 .. Len(urls) /\ deletions \subseteq Made
  BY <1>1, <1>2 DEF ObjectsOK
<1>4. _media # m
  BY <1>2, <1>3
<1> HIDE DEF m
<1>5. deletions' = deletions \cup ({_media} \ {0})
  BY DEF DeleteLater
<1>6. alive' \ deletions' = {m} /\ m \notin deletions'
  BY <1>1, <1>2, <1>3, <1>4, <1>5
<1> QED
  BY <1>2, <1>3, <1>6 DEF Owned, Fed

LEMMA OwnedStep ==
  ASSUME OwnedInv, [PlayerNext]_playerVars, FilesOnly
  PROVE  Owned' /\ Fed'
<1>1. CASE VlcOpens
  BY <1>1 DEF VlcOpens, OwnedInv, Owned, Fed, objects
<1>2. CASE VlcReads
  BY <1>2 DEF VlcReads, OwnedInv, Owned, Fed, objects, player
<1>3. CASE VlcEnds
  BY <1>3 DEF VlcEnds, OwnedInv, Owned, Fed, objects
<1>4. CASE play
  BY <1>4 DEF play, OwnedInv, Owned, Fed, objects
<1>5. CASE stop
  BY <1>5 DEF stop, Stopped, OwnedInv, Owned, Fed, objects
<1>6. CASE \E value \in BOOLEAN : setAutoplay(value)
  BY <1>6 DEF setAutoplay, OwnedInv, Owned, Fed, objects, player
<1>7. CASE \E u \in Files \cup Locations : setUrl(u)
  BY <1>7, MadeOwned DEF setUrl
<1>8. CASE \E u \in Files \cup Locations : setUrlFile(u)
  <2>1. PICK u \in Files \cup Locations : setUrlFile(u)
    BY <1>8
  <2>2. u \in Files /\ ~ destroyed /\ deletions' = DeleteLater
    BY <2>1, Zenon DEF setUrlFile
  <2>3. MakeMedia(u) /\ destroyed' = destroyed
    BY <2>1, <2>2 DEF setUrlFile
  <2> QED
    BY <2>2, <2>3, MadeOwned
<1>9. CASE \E m \in deletions : DeferredDelete(m)
  BY <1>9 DEF DeferredDelete, OwnedInv, Owned, Fed, player
<1>10. CASE Destroy
  BY <1>10 DEF Destroy, Stopped, Owned, Fed
<1>11. CASE \E o \in Outputs : setSource(o) \/ DestroyOutput(o)
  BY <1>11 DEF setSource, DestroyOutput, OwnedInv, Owned, Fed, objects, player
<1>12. CASE UNCHANGED playerVars
  BY <1>12 DEF playerVars, OwnedInv, Owned, Fed, objects, player
<1> QED
  BY <1>1, <1>2, <1>3, <1>4, <1>5, <1>6, <1>7, <1>8, <1>9, <1>10, <1>11, <1>12
  DEF PlayerNext, VlcThread

LEMMA OwnedInit == PlayerInit => OwnedInv
<1> SUFFICES ASSUME PlayerInit PROVE OwnedInv
  OBVIOUS
<1>1. <<>> \in Seq(Files \cup Locations) /\ Len(<<>>) = 0 /\ 0 \in 0 .. 0
  OBVIOUS
<1>2. ObjectsOK
  BY <1>1 DEF PlayerInit, ObjectsOK
<1> QED
  BY <1>2 DEF PlayerInit, OwnedInv, Owned, Fed

\* The inductive invariant of the media holds, for any number of them: the player
\* owns the one libvlc was given, and the others wait for their deletion.
THEOREM Ownership ==
  ASSUME FilesOnly
  PROVE  PlayerSpec => []OwnedInv
<1>1. OwnedInv /\ [PlayerNext]_playerVars => OwnedInv'
  BY OwnedStep, ObjectsStep DEF OwnedInv
<1> QED
  BY OwnedInit, <1>1, PTL DEF PlayerSpec

\* Every media but the player's is on its way to be deleted, and the player's is
\* not, as long as setUrlFile() is given local files only.
THEOREM MediaIsOwned ==
  ASSUME FilesOnly
  PROVE  PlayerSpec => []MediaOwned
<1>1. OwnedInv => MediaOwned
  BY DEF OwnedInv, Owned, MediaOwned
<1> QED
  BY <1>1, Ownership, PTL

\* VLC's thread never calls into the stream of a media that was deleted.
THEOREM StreamIsAlive ==
  ASSUME FilesOnly
  PROVE  PlayerSpec => []StreamAlive
<1>1. OwnedInv => StreamAlive
  BY DEF OwnedInv, Owned, Fed, StreamAlive
<1> QED
  BY <1>1, Ownership, PTL

-----------------------------------------------------------------------------
(***************************************************************************)
(* The streams that the player opens one after the other are one file to   *)
(* VLC: a step of the player reads, seeks, opens, closes or changes it.    *)
(***************************************************************************)
LEMMA PlayerInvStep ==
  ASSUME Inv, [PlayerNext]_playerVars, ~ Reopens
  PROVE  Inv' /\ [File!FileNext]_<<isOpen, position, bytes>>
<1>1. CASE [Next]_vars
  BY <1>1, NextInv, NextImplements
<1>2. CASE Closing
  <2>1. Inv'
    BY <1>2, ClosingKeeps DEF Inv
  <2>2. position' = position
    BY <1>2 DEF Closing, position, buffer
  <2>3. bytes' = bytes /\ isOpen' = FALSE /\ isOpen \in BOOLEAN
    BY <1>2 DEF Closing, Inv, TypeOK
  <2> QED
    BY <2>1, <2>2, <2>3 DEF File!FileNext, File!CloseFile
<1>3. CASE Fresh
  <2>1. position' = 0 /\ ~ isOpen' /\ bytes' = <<>>
    BY <1>3 DEF Fresh, position
  <2> QED
    BY <1>3, <2>1, FreshTypes DEF File!FileNext, File!NewFile
<1>4. CASE UNCHANGED playerVars
  BY <1>1, <1>4 DEF playerVars, stream, vars
<1> QED
  BY <1>1, <1>2, <1>3, <1>4, StreamSteps

\* What VLC reads while the player changes files, stops and is destroyed is
\* always the file it was opened for, from where it left off.
THEOREM PlayerImplementsFile ==
  ASSUME ~ Reopens
  PROVE  PlayerSpec => ImplementsFile
<1>1. PlayerInit => Inv /\ File!FileInit
  BY InitInv DEF PlayerInit, Init, File!FileInit, position
<1>2. Inv /\ [PlayerNext]_playerVars => Inv' /\ [File!FileNext]_<<isOpen, position, bytes>>
  BY PlayerInvStep
<1> QED
  BY <1>1, <1>2, PTL DEF PlayerSpec, ImplementsFile, File!FileSpec
=============================================================================
