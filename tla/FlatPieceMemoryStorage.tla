----------------------- MODULE FlatPieceMemoryStorage ------------------------
(***************************************************************************)
(* FlatPieceMemoryStorage (src/FlatPieceMemoryStorage.{h,cpp}): the cache  *)
(* between a torrent source, which writes blocks of pieces, and a player,  *)
(* which reads the bytes of one file in order and seeks in it.             *)
(*                                                                         *)
(* Two threads: the player's (read and seek, never at the same time, as    *)
(* FlatPieceMemoryStorage.h:91 says) and the source's (write).  A stretch  *)
(* of code that holds the mutex is one action; the memcpy calls run with   *)
(* the mutex released, so they are actions of their own, and so are the    *)
(* two wait() calls, each an action that blocks and one that runs when the *)
(* thread is woken and has the mutex again.                                *)
(*                                                                         *)
(* A byte of the torrent is named by its absolute position: buffer[i] is   *)
(* the position of the byte that cell i holds, NoByte before any write.    *)
(*                                                                         *)
(* A failed assert() ends the program: fault names the assertion and no    *)
(* action is enabled after it.  The same is done when write() uses an      *)
(* iterator beyond the list, where the behaviour is undefined.             *)
(***************************************************************************)
EXTENDS ByteRange

CONSTANTS PieceLen,            \* pieceLen
          CacheSizeInPieces,   \* cacheSizeInPieces
          FOffset,             \* fOffset, where the file starts in the torrent
          FSize,               \* fSize
          Blocks,              \* blocks <<offset, len>> the source cuts pieces into
          ReadLens,            \* lengths the player asks for
          SeekTargets,         \* file positions the player seeks to
          MaxSegments          \* bound on the segments of a slot

ASSUME SizesAssumption ==
  /\ PieceLen \in Nat \ {0}
  /\ CacheSizeInPieces \in Nat \ {0}
  /\ FOffset \in Nat
  /\ FSize \in Nat \ {0}

ASSUME InputsAssumption ==
  /\ Blocks \subseteq {b \in (0 .. PieceLen) \X (1 .. PieceLen) : b[1] + b[2] <= PieceLen}
  /\ ReadLens \subseteq Nat \ {0}
  /\ SeekTargets \subseteq 0 .. FSize
  /\ MaxSegments \in Nat \ {0}

VARIABLES absRPos, absWPos, updatingBuffer, slotList, buffer,
          rpc,         \* where the player's thread is
          arg,         \* the length it asked to read, or the place it seeks to
          localWPos,   \* read(): the local variable, read under the first lock
          bytes,       \* read(): what it copied to the caller
          wpc,         \* where the source's thread is
          block,       \* write(): its arguments
          itr,         \* write(): the iterator into slotList, as an index
          fault

player == <<rpc, arg, localWPos, bytes>>
source == <<wpc, block, itr>>
vars == <<absRPos, absWPos, updatingBuffer, slotList, buffer, player, source, fault>>

NoByte == -1

-----------------------------------------------------------------------------
(***************************************************************************)
(* Geometry: pieces, absolute positions and positions in the cache.        *)
(***************************************************************************)

Smaller(a, b) == IF a <= b THEN a ELSE b
Larger(a, b) == IF a >= b THEN a ELSE b

FirstPiece == FOffset \div PieceLen
LastPiece == (FOffset + FSize - 1) \div PieceLen
CacheSize == PieceLen * CacheSizeInPieces
PieceOf(pos) == pos \div PieceLen
PieceAbsPos(piece) == piece * PieceLen
FirstPieceOffset == PieceAbsPos(FirstPiece)
\* Mutant: the modulus is forgotten.
PosInCacheNoWrap(pos) == pos - FirstPieceOffset
PosInCacheByAbsPos(pos) == (pos - FirstPieceOffset) % CacheSize
PosInCacheByPiece(piece) == ((piece - FirstPiece) % CacheSizeInPieces) * PieceLen

(***************************************************************************)
(* Slots: a slot is QPair(piece, Range), the list is sorted by piece.      *)
(***************************************************************************)

EmptySlot(piece) == [first |-> piece, second |-> <<>>]

\* n empty slots for consecutive pieces.
EmptySlots(piece, n) == [i \in 1 .. n |-> EmptySlot(piece + i - 1)]

\* erase(remove_if(... < piece)): in a sorted list the slots erased are a prefix.
DropBelow(list, piece) ==
  LET n == CHOOSE n \in 0 .. Len(list) :
             \A i \in 1 .. Len(list) : list[i].first < piece <=> i <= n
  IN SubSeq(list, n + 1, Len(list))

\* Mutant of KeepWithGap: the gap is not counted.
KeepTooMany(list, gap) ==
  IF gap >= CacheSizeInPieces THEN <<>>
  ELSE SubSeq(list, 1, Smaller(Len(list), CacheSizeInPieces))

\* What survives when the cache must hold `gap` more pieces in front.
KeepWithGap(list, gap) ==
  IF gap >= CacheSizeInPieces THEN <<>>
  ELSE SubSeq(list, 1, Smaller(Len(list), CacheSizeInPieces - gap))

\* requestSlots(): make the list start at `piece` and fill it up.
RequestSlots(list, piece) ==
  LET kept == DropBelow(list, piece)
      gap == IF kept = <<>> THEN 0 ELSE kept[1].first - piece
      held == IF kept = <<>> THEN <<>> ELSE KeepWithGap(kept, gap)
      front == IF held = <<>> THEN <<>> ELSE EmptySlots(piece, gap) \o held
      next == IF front = <<>> THEN piece ELSE front[Len(front)].first + 1
      room == Smaller(CacheSizeInPieces - Len(front), LastPiece - next + 1)
  IN front \o EmptySlots(next, Larger(0, room))

(***************************************************************************)
(* read(): how much is copied, by each of the two formulas it uses.        *)
(* r and w are the local reading and writing positions in the cache.       *)
(***************************************************************************)

\* Mutant: the bytes before the end of the cache are not subtracted from len.
BytesWithoutTail(len, r, w) ==
  IF w - r > 0 THEN Smaller(len, w - r) ELSE (CacheSize - r) + Smaller(len, w)

BytesToBeCopied(len, r, w) ==
  IF w - r > 0 THEN Smaller(len, w - r)
  ELSE (CacheSize - r) + Smaller(len - CacheSize + r, w)

\* One memcpy suffices; otherwise the copy wraps at the end of the cache.
Straight(len, r, w) == w - r > 0 \/ CacheSize - r > len

\* Mutant: a read goes on to the end of the cache.
ObtainToEnd(len, r, w) ==
  IF Straight(len, r, w) THEN Smaller(len, CacheSize - r)
  ELSE (CacheSize - r) + Smaller(len - (CacheSize - r), w)

ObtainBytes(len, r, w) ==
  IF Straight(len, r, w)
  THEN Smaller(len, IF w - r > 0 THEN w - r ELSE CacheSize - r)
  ELSE (CacheSize - r) + Smaller(len - (CacheSize - r), w)

\* Mutant: the second memcpy overwrites what the first one copied.
CopyOutOverTail(len, r, w) ==
  IF Straight(len, r, w)
  THEN [i \in 1 .. ObtainBytes(len, r, w) |-> buffer[r + i - 1]]
  ELSE [i \in 1 .. ObtainBytes(len, r, w) |-> buffer[(i - 1) % CacheSize]]

CopyOut(len, r, w) ==
  IF Straight(len, r, w)
  THEN [i \in 1 .. ObtainBytes(len, r, w) |-> buffer[r + i - 1]]
  ELSE [i \in 1 .. CacheSize - r |-> buffer[r + i - 1]]
         \o [i \in 1 .. ObtainBytes(len, r, w) - (CacheSize - r) |-> buffer[i - 1]]

(***************************************************************************)
(* write(): the last slot its loop visits, from slot i on over full slots, *)
(* and the writing position the loop leaves.  The loop moves absWPos to    *)
(* the end of what a visited slot holds when absWPos is in that slot; as   *)
(* visited slots before the last are full, it ends in the last one         *)
(* visited or, if the slot of absWPos is not visited, where it was.        *)
(***************************************************************************)

LastVisited(list, i) ==
  CHOOSE n \in i .. Len(list) :
    /\ \A j \in i .. n - 1 : BytesAvailable(list[j].second) >= PieceLen
    /\ n < Len(list) => BytesAvailable(list[n].second) < PieceLen

\* Mutant: the piece of absWPos need not be among those visited.
AdvanceAnyway(list, i, wpos) ==
  LET n == LastVisited(list, i)
  IN Larger(PieceAbsPos(list[n].first) + BytesAvailable(list[n].second), wpos)

AdvanceWPos(list, i, wpos) ==
  LET n == LastVisited(list, i)
  IN IF \E j \in i .. n : list[j].first = PieceOf(wpos)
     THEN Larger(PieceAbsPos(list[n].first) + BytesAvailable(list[n].second), wpos)
     ELSE wpos

-----------------------------------------------------------------------------
(***************************************************************************)
(* The constructor, and the first request for slots, which the owner makes *)
(* before it starts the two threads.                                       *)
(***************************************************************************)

Init ==
  /\ absRPos = FOffset
  /\ absWPos = FirstPieceOffset
  /\ updatingBuffer = FALSE
  /\ slotList = RequestSlots(<<>>, FirstPiece)
  /\ buffer = [cell \in 0 .. CacheSize - 1 |-> NoByte]
  /\ rpc = "idle" /\ arg = 0 /\ localWPos = 0 /\ bytes = <<>>
  /\ wpc = "idle" /\ block = [piece |-> FirstPiece, offset |-> 0, len |-> 0] /\ itr = 0
  /\ fault = "none"

(***************************************************************************)
(* The player's thread: read().                                            *)
(***************************************************************************)

\* From the assert after the wait to the first unlock, with the two asserts
\* on local variables that follow it.
TakeLocals(len) ==
  LET r == PosInCacheByAbsPos(absRPos)
      w == PosInCacheByAbsPos(absWPos)
  IN /\ localWPos' = w
     /\ rpc' = "copy"
     /\ fault' = IF absWPos <= absRPos THEN "position"
                 ELSE IF w = r \/ BytesToBeCopied(len, r, w) <= 0 THEN "distance"
                 ELSE "none"
     /\ UNCHANGED <<absRPos, absWPos, updatingBuffer, slotList, buffer, bytes, source>>

Read(len) ==
  /\ rpc = "idle"
  /\ absWPos > absRPos
  /\ arg' = len
  /\ TakeLocals(len)

ReadBlocks(len) ==
  /\ rpc = "idle"
  /\ absRPos >= absWPos
  /\ arg' = len
  /\ rpc' = "waitNotEmpty"
  /\ UNCHANGED <<absRPos, absWPos, updatingBuffer, slotList, buffer,
                 localWPos, bytes, source, fault>>

\* wait() has returned: it is not called again, whatever absWPos is now.
ReadWoken ==
  /\ rpc = "woken"
  /\ TakeLocals(arg)
  /\ UNCHANGED arg

\* The memcpy calls, with the mutex released.
ReadCopy ==
  LET r == PosInCacheByAbsPos(absRPos)
  IN /\ rpc = "copy"
     /\ bytes' = CopyOut(arg, r, localWPos)
     /\ rpc' = "commit"
     /\ fault' = IF ObtainBytes(arg, r, localWPos) = BytesToBeCopied(arg, r, localWPos)
                 THEN "none" ELSE "amount"
     /\ UNCHANGED <<absRPos, absWPos, updatingBuffer, slotList, buffer,
                    arg, localWPos, source>>

(***************************************************************************)
(* erase() on the whole of a list of odd length moves QList's begin, not   *)
(* its end: an iterator into the list then points at freed nodes (0).      *)
(* Otherwise the array of nodes stays and the iterator is an index into    *)
(* what the list holds now.                                                *)
(***************************************************************************)
Reindexed(list, piece) ==
  IF DropBelow(list, piece) = <<>> /\ Len(list) % 2 = 1 THEN 0 ELSE itr

\* bufferNotFull has no waiters.
ReadCommit ==
  LET piece == PieceOf(absRPos + Len(bytes))
  IN /\ rpc = "commit"
     /\ absRPos' = absRPos + Len(bytes)
     /\ slotList' = RequestSlots(slotList, piece)
     /\ itr' = Reindexed(slotList, piece)
     /\ rpc' = "idle" /\ arg' = 0 /\ localWPos' = 0 /\ bytes' = <<>>
     /\ UNCHANGED <<absWPos, updatingBuffer, buffer, wpc, block, fault>>

(***************************************************************************)
(* The player's thread: seek().                                            *)
(***************************************************************************)

\* Mutants of WPosAfterSeek: absWPos is left alone, or always reset.
WPosKept(pos) == absWPos
WPosReset(pos) == PieceAbsPos(PieceOf(pos))

\* absWPos after a seek to the absolute position pos.
WPosAfterSeek(pos) ==
  IF PieceOf(absWPos) = PieceOf(pos) THEN absWPos ELSE PieceAbsPos(PieceOf(pos))

DoSeek(pos) ==
  LET newAbsPos == pos + FOffset
      newPieceIndex == PieceOf(newAbsPos)
  IN /\ absRPos' = newAbsPos
     /\ absWPos' = WPosAfterSeek(newAbsPos)
     /\ slotList' = RequestSlots(slotList, newPieceIndex)
     /\ rpc' = "idle" /\ arg' = 0
     /\ UNCHANGED <<updatingBuffer, buffer, localWPos, bytes, source, fault>>

\* Bound: no seek once a slot holds MaxSegments segments.
SlotsHaveRoom == \A i \in DOMAIN slotList : Len(slotList[i].second) < MaxSegments

Seek(pos) ==
  /\ rpc = "idle"
  /\ ~ updatingBuffer
  /\ SlotsHaveRoom
  /\ DoSeek(pos)

SeekBlocks(pos) ==
  /\ rpc = "idle"
  /\ updatingBuffer
  /\ SlotsHaveRoom
  /\ rpc' = "seekWait"
  /\ arg' = pos
  /\ UNCHANGED <<absRPos, absWPos, updatingBuffer, slotList, buffer,
                 localWPos, bytes, source, fault>>

\* wait() has returned; assert(!updatingBuffer) follows.
SeekWoken ==
  /\ rpc = "seekWoken"
  /\ ~ updatingBuffer
  /\ DoSeek(arg)

SeekWokenTooLate ==
  /\ rpc = "seekWoken"
  /\ updatingBuffer
  /\ fault' = "updating"
  /\ UNCHANGED <<absRPos, absWPos, updatingBuffer, slotList, buffer, player, source>>

(***************************************************************************)
(* The source's thread: write().  A block of a piece that has no slot is   *)
(* not kept (only a signal is emitted): no action.                         *)
(***************************************************************************)

\* The bytes of the piece that a slot claims to have, and whether it lacks one.
BytesIn(slot) == UNION {Bytes(slot.second[j]) : j \in DOMAIN slot.second}
Lacks(slot) == ~ (0 .. PieceLen - 1 \subseteq BytesIn(slot))

\* Block b brings a byte that the slot does not have.
Brings(b, slot) == ~ (b[1] .. b[1] + b[2] - 1 \subseteq BytesIn(slot))

\* Bound: a slot takes MaxSegments segments, and then only what it lacks.
RoomForSegment(i, b) == Len(slotList[i].second) < MaxSegments \/ Brings(b, slotList[i])

Write(i, b) ==
  /\ wpc = "idle"
  /\ RoomForSegment(i, b)
  /\ updatingBuffer' = TRUE
  /\ itr' = i
  /\ block' = [piece |-> slotList[i].first, offset |-> b[1], len |-> b[2]]
  /\ wpc' = "copy"
  /\ UNCHANGED <<absRPos, absWPos, slotList, buffer, player, fault>>

\* memcpy, with the mutex released.
WriteCopy ==
  LET dataPos == PosInCacheByPiece(block.piece) + block.offset
      absPos == PieceAbsPos(block.piece) + block.offset
  IN /\ wpc = "copy"
     /\ buffer' = [cell \in 0 .. CacheSize - 1 |->
                     IF cell \in dataPos .. dataPos + block.len - 1
                     THEN absPos + (cell - dataPos) ELSE buffer[cell]]
     /\ wpc' = "commit"
     /\ UNCHANGED <<absRPos, absWPos, updatingBuffer, slotList, player, block, itr, fault>>

\* Mutants of Wake: the reader is woken whatever absWPos is, or never.
WakeEarly ==
  rpc' = IF rpc = "waitNotEmpty" THEN "woken"
         ELSE IF rpc = "seekWait" THEN "seekWoken" ELSE rpc

WakeSeekOnly == rpc' = IF rpc = "seekWait" THEN "seekWoken" ELSE rpc

\* The two wakeAll() calls.
Wake ==
  rpc' = IF rpc = "waitNotEmpty" /\ absWPos' > absRPos THEN "woken"
         ELSE IF rpc = "seekWait" THEN "seekWoken"
         ELSE rpc

\* From the second lock on: record the bytes, move absWPos, wake, reset.
WriteCommit ==
  /\ wpc = "commit"
  /\ itr \in DOMAIN slotList
  /\ LET seg == <<block.offset, block.offset + block.len>>
     IN slotList' = [slotList EXCEPT ![itr].second = AddSegment(@, seg)]
  /\ absWPos' = AdvanceWPos(slotList', itr, absWPos)
  /\ Wake
  /\ updatingBuffer' = FALSE
  /\ wpc' = "idle"
  /\ block' = [piece |-> FirstPiece, offset |-> 0, len |-> 0]
  /\ itr' = 0
  /\ UNCHANGED <<absRPos, buffer, arg, localWPos, bytes, fault>>

\* The list has become shorter, or has moved, under the iterator.
WriteCommitDangling ==
  /\ wpc = "commit"
  /\ itr \notin DOMAIN slotList
  /\ fault' = "iterator"
  /\ UNCHANGED <<absRPos, absWPos, updatingBuffer, slotList, buffer, player, source>>

-----------------------------------------------------------------------------
PlayerInternal == ReadWoken \/ ReadCopy \/ ReadCommit \/ SeekWoken \/ SeekWokenTooLate

PlayerNext ==
  \/ \E len \in ReadLens : Read(len) \/ ReadBlocks(len)
  \/ \E pos \in SeekTargets : Seek(pos) \/ SeekBlocks(pos)
  \/ PlayerInternal

SourceInternal == WriteCopy \/ WriteCommit \/ WriteCommitDangling

SourceNext ==
  \/ \E i \in DOMAIN slotList, b \in Blocks : Write(i, b)
  \/ SourceInternal

Next == fault = "none" /\ (PlayerNext \/ SourceNext)

Spec == Init /\ [][Next]_vars

(***************************************************************************)
(* The use that storage_test makes of the class: calls do not overlap,     *)
(* but for writes that come while a read is blocked.                       *)
(***************************************************************************)
NextSerial ==
  /\ fault = "none"
  /\ \/ wpc = "idle" /\ PlayerNext
     \/ rpc \in {"idle", "waitNotEmpty"} /\ SourceNext

SerialSpec == Init /\ [][NextSerial]_vars

(***************************************************************************)
(* Calls that overlap in every way but one: the end of a read() leaves     *)
(* the slots as they are if a write() is between its two locks.  seek()    *)
(* tests updatingBuffer for this, read() (line 95) does not.               *)
(***************************************************************************)
NextSteady == Next /\ (wpc # "idle" /\ ReadCommit => UNCHANGED slotList)

SteadySpec == Init /\ [][NextSteady]_vars

\* A block that the first slot lacks: that of the piece being read, which is
\* what a blocked read() waits for.
NewBlock(b) == slotList # <<>> /\ Brings(b, slotList[1]) /\ Write(1, b)

(***************************************************************************)
(* Fairness: a thread that runs goes on, and of the piece that is read,    *)
(* which is the first in every piecesRequested, the source does not leave  *)
(* out a block for ever whose bytes are not in its slot.  Nothing makes it *)
(* deliver again what is there: nobody asks while a read() is blocked.     *)
(***************************************************************************)
LiveSpec ==
  /\ SteadySpec
  /\ WF_vars(NextSteady /\ PlayerInternal)
  /\ WF_vars(NextSteady /\ SourceInternal)
  /\ \A b \in Blocks : SF_vars(NextSteady /\ NewBlock(b))

-----------------------------------------------------------------------------
(***************************************************************************)
(* Properties.                                                             *)
(***************************************************************************)

\* Every slot as the type Slot, QPair<int, Range<int>>.
Slot == [first : Nat, second : Seq(Segs(PieceLen))]

\* The type invariant.
TypeOK ==
  /\ absRPos \in Nat /\ absWPos \in Nat /\ updatingBuffer \in BOOLEAN
  /\ slotList \in Seq(Slot)
  /\ buffer \in [0 .. CacheSize - 1 -> Nat \cup {NoByte}]
  /\ rpc \in {"idle", "waitNotEmpty", "woken", "copy", "commit", "seekWait", "seekWoken"}
  /\ arg \in Nat /\ localWPos \in 0 .. CacheSize - 1
  /\ bytes \in Seq(Nat \cup {NoByte})
  /\ wpc \in {"idle", "copy", "commit"}
  /\ block \in [piece : Nat, offset : 0 .. PieceLen, len : 0 .. PieceLen]
  /\ itr \in Nat
  /\ fault \in {"none", "position", "distance", "amount", "updating", "iterator"}

(***************************************************************************)
(* checkSlotsInvariant (FlatPieceMemoryStorage.cpp:179) and more: after    *)
(* every read, write and seek, in any interleaving, the slots are those of *)
(* consecutive pieces, from the one being read on, as many as the cache    *)
(* holds and the file still has.  The lower_bound in write() and the       *)
(* placing of pieces in the cache rest on it.                              *)
(***************************************************************************)
SlotsConsecutive ==
  /\ Len(slotList) = Larger(0, Smaller(CacheSizeInPieces, LastPiece - PieceOf(absRPos) + 1))
  /\ \A i \in DOMAIN slotList : slotList[i].first = PieceOf(absRPos) + i - 1

(***************************************************************************)
(* The writing position never leaves the pieces the cache has room for:    *)
(* it is not before the piece being read, and not past the last piece of   *)
(* the cache.  Positions in the cache are positions modulo its size, so    *)
(* read() (line 44) can tell distances only because of this.               *)
(***************************************************************************)
Window ==
  /\ PieceAbsPos(PieceOf(absRPos)) <= absWPos
  /\ absWPos <= PieceAbsPos(PieceOf(absRPos) + CacheSizeInPieces)

(***************************************************************************)
(* No wake-up is lost, and none is premature: a reader that still waits    *)
(* has nothing to read, one that was woken has, though both conditions are *)
(* tested once (lines 32, 156) and not again after the wait; and a seek    *)
(* waits only while a write is under way that will wake it.                *)
(***************************************************************************)
NoLostWakeup ==
  /\ rpc = "waitNotEmpty" => absWPos <= absRPos
  /\ rpc \in {"woken", "copy", "commit"} /\ fault = "none" => absWPos > absRPos
  /\ rpc = "seekWait" => updatingBuffer /\ wpc # "idle"

(***************************************************************************)
(* read() never gives out bytes at or past the writing position, although  *)
(* it works from a copy of it that is stale after the unlock (line 42).    *)
(***************************************************************************)
NeverPastWriter == rpc = "commit" => absRPos + Len(bytes) <= absWPos

(***************************************************************************)
(* Of the asserts in read(), the one on positions (line 37) and the one on *)
(* the two ways the amount is computed (line 86) never fail.               *)
(***************************************************************************)
AssertsHold == fault \notin {"position", "amount"}

(***************************************************************************)
(* assert(distance != 0) (line 57): the two positions differ in the cache  *)
(* whenever there is something to read.                                    *)
(***************************************************************************)
DistanceNotZero == fault # "distance"

(***************************************************************************)
(* assert(!updatingBuffer) (line 157): no write is under way once seek()   *)
(* has waited for the end of one.                                          *)
(***************************************************************************)
SeekNotUpdating == fault # "updating"

(***************************************************************************)
(* Every byte a slot claims to have is in its cell of the cache.           *)
(***************************************************************************)
SlotsBacked ==
  \A i \in DOMAIN slotList :
    \A j \in DOMAIN slotList[i].second : \A b \in Bytes(slotList[i].second[j]) :
      buffer[PosInCacheByPiece(slotList[i].first) + b] = PieceAbsPos(slotList[i].first) + b

(***************************************************************************)
(* Every byte announced as readable, from the reading to the writing       *)
(* position, is in its cell of the cache: no block of a later piece has    *)
(* overwritten it, and no seek has made old cells readable.                *)
(***************************************************************************)
WindowIntact == \A p \in absRPos .. absWPos - 1 : buffer[PosInCacheByAbsPos(p)] = p

(***************************************************************************)
(* What read() gives to its caller is the file, in order: byte by byte     *)
(* what was written for those positions, as every memcmp in                *)
(* FlatPieceMemoryStorageTest.cpp expects.                                 *)
(***************************************************************************)
ReadsCorrect == rpc = "commit" => \A i \in DOMAIN bytes : bytes[i] = absRPos + i - 1

(***************************************************************************)
(* "no bytes available for reading" (line 33): a read that waits has no    *)
(* byte to give: its slot does not hold the byte at the reading position.  *)
(***************************************************************************)
WaitsOnlyWhenEmpty ==
  rpc = "waitNotEmpty" =>
    \A i \in DOMAIN slotList :
      slotList[i].first = PieceOf(absRPos) =>
        PieceAbsPos(slotList[i].first) + BytesAvailable(slotList[i].second) <= absRPos

Blocked == rpc = "waitNotEmpty" /\ slotList # <<>>

\* read() has returned, or the cache has become full to the last byte and
\* assert(distance != 0) (line 57) has ended it, see DistanceNotZero.
ReturnedOrFull == rpc = "idle" \/ (fault = "distance" /\ absWPos - absRPos = CacheSize)

\* The first slot was delivered a byte twice: addSegment() (Range.h:31) does not
\* join segments that overlap, and the slot may never be counted full.
DeliveredTwice ==
  /\ slotList # <<>>
  /\ LET segs == slotList[1].second
     IN \E j, k \in DOMAIN segs : j # k /\ Bytes(segs[j]) \cap Bytes(segs[k]) # {}

(***************************************************************************)
(* A read that waits for a byte of the file (lines 32-35) returns, while   *)
(* calls overlap, if the slot it waits for lacks a byte and is delivered   *)
(* none twice: the last block of the piece moves absWPos past absRPos,     *)
(* whatever the order of the blocks and whatever other slots hold.         *)
(***************************************************************************)
BlockedReadReturns ==
  (Blocked /\ Lacks(slotList[1])) ~> (ReturnedOrFull \/ DeliveredTwice)

(***************************************************************************)
(* bufferNotEmpty: a read that waits for a byte of the file returns,       *)
(* whatever is in its slot already.                                        *)
(***************************************************************************)
EveryReadReturns == Blocked ~> ReturnedOrFull

(***************************************************************************)
(* The abstract specification: a window of readable positions.  A read     *)
(* takes effect when it has copied.                                        *)
(***************************************************************************)
taken == IF rpc = "commit" THEN absRPos + Len(bytes) ELSE absRPos

Abstract == INSTANCE ByteStream WITH rd <- taken, wr <- absWPos, out <- bytes

\* Every interleaving of the calls is one of the window's steps.
ImplementsWindow == Abstract!WindowSpec

\* While the slots are steady, reads give out the bytes of the stream itself.
ImplementsStream == Abstract!StreamSpec
=============================================================================
