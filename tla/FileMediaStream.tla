-------------------------- MODULE FileMediaStream ---------------------------
(***************************************************************************)
(* FileMediaStream (src/FileMediaStream.{h,cpp}): the stream through which *)
(* VLC reads a local file.  VLC's input thread makes all the calls; what   *)
(* they hide is a buffer that holds the file's bytes ahead of the reader.  *)
(***************************************************************************)
EXTENDS Integers, Sequences

CONSTANTS FileSize,     \* file.size()
          BufferSize,   \* sizeof (buff)
          ReadLens,     \* lengths VLC asks for
          SeekTargets,  \* offsets VLC seeks to
          MayFail,      \* whether the operations of QFile may fail
          Reopens       \* whether a stream that was closed is opened again

ASSUME SizesAssumption == FileSize \in Nat /\ BufferSize \in Nat \ {0}
ASSUME InputsAssumption == ReadLens \subseteq Nat \ {0} /\ SeekTargets \subseteq Nat
ASSUME FlagsAssumption == MayFail \in BOOLEAN /\ Reopens \in BOOLEAN

VARIABLES isOpen,            \* file.isOpen()
          filePos,           \* file.pos()
          buff,              \* the bytes of buff that were read from the file
          currentBufferPos,
          totalBytesBuffer,
          bytes,             \* what the last read() copied to VLC
          closed             \* whether close() was called

vars == <<isOpen, filePos, buff, currentBufferPos, totalBytesBuffer, bytes, closed>>
buffer == <<buff, currentBufferPos, totalBytesBuffer>>

Smaller(a, b) == IF a <= b THEN a ELSE b

Init ==
  /\ isOpen = FALSE /\ filePos = 0 /\ buff = <<>>
  /\ currentBufferPos = 0 /\ totalBytesBuffer = 0
  /\ bytes = <<>> /\ closed = FALSE

\* An open() that fails changes nothing.
Open ==
  /\ ~ isOpen /\ (closed => Reopens)
  /\ isOpen' = TRUE /\ filePos' = 0
  /\ UNCHANGED <<buffer, bytes, closed>>

Close ==
  /\ isOpen
  /\ isOpen' = FALSE /\ closed' = TRUE
  /\ UNCHANGED <<filePos, buffer, bytes>>

\* How many bytes file.read() returns; -1 is turned into 0.
Readable ==
  {IF filePos >= FileSize THEN 0 ELSE Smaller(BufferSize, FileSize - filePos)}
    \cup (IF MayFail THEN {0} ELSE {})

\* The n bytes of the file from filePos on.
Filled(n) == [k \in 1 .. n |-> filePos + k - 1]

\* copyBytes
CopyBytes(len, total, cur) == Smaller(len, total - cur)

Give(len, from, total, cur) ==
  /\ bytes' = SubSeq(from, cur + 1, cur + CopyBytes(len, total, cur))
  /\ buff' = from /\ totalBytesBuffer' = total
  /\ currentBufferPos' = cur + CopyBytes(len, total, cur)

\* read() of len bytes: from the buffer, which is filled again when it is empty.
Read(len) ==
  /\ isOpen
  /\ IF totalBytesBuffer = currentBufferPos
     THEN \E n \in Readable : Give(len, Filled(n), n, 0) /\ filePos' = filePos + n
     ELSE Give(len, buff, totalBytesBuffer, currentBufferPos) /\ UNCHANGED filePos
  /\ UNCHANGED <<isOpen, closed>>

\* Mutants: the bytes that are buffered, or the position in them, stay when the
\* file is repositioned.
KeepBuffer == UNCHANGED buffer
DropCount == totalBytesBuffer' = 0 /\ buff' = <<>> /\ UNCHANGED currentBufferPos

\* The buffer is dropped.
DropBuffer == totalBytesBuffer' = 0 /\ currentBufferPos' = 0 /\ buff' = <<>>

\* seek(): file.seek(0) and file.seek(offset), either of which may fail.
Seek(offset) ==
  /\ isOpen
  /\ DropBuffer
  /\ filePos' \in {offset} \cup (IF MayFail THEN {0, filePos} ELSE {})
  /\ UNCHANGED <<isOpen, bytes, closed>>

Next ==
  \/ Open \/ Close
  \/ \E len \in ReadLens : Read(len)
  \/ \E offset \in SeekTargets : Seek(offset)

Spec == Init /\ [][Next]_vars

-----------------------------------------------------------------------------
\* The type invariant.  It says what the two Q_ASSERTs of read() say.
TypeOK ==
  /\ isOpen \in BOOLEAN /\ closed \in BOOLEAN /\ filePos \in Nat
  /\ totalBytesBuffer \in 0 .. BufferSize /\ currentBufferPos \in 0 .. totalBytesBuffer
  /\ buff \in Seq(Nat) /\ Len(buff) = totalBytesBuffer
  /\ bytes \in Seq(Nat)

\* Where the reader is: what is buffered has been read from the file already.
position == filePos - (totalBytesBuffer - currentBufferPos)

File == INSTANCE SeekableFile WITH opened <- isOpen, pos <- position

(***************************************************************************)
(* The buffer is not seen from outside: what VLC reads is the file, byte   *)
(* by byte, from where the last read or seek left off, and a read without  *)
(* bytes, which VLC takes for the end, comes at the end only.  For a       *)
(* stream that is opened once: close() leaves the buffer as it is, so that *)
(* a stream opened again would start with what was left in it.             *)
(***************************************************************************)
ImplementsFile == File!FileSpec
=============================================================================
