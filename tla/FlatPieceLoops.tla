---------------------------- MODULE FlatPieceLoops ---------------------------
(***************************************************************************)
(* FlatPieceMemoryStorage with the loops of requestSlots() and of the end  *)
(* of write(), one step for each turn.  A step of the storage that changes *)
(* the slots or the writing position, which RequestSlots and AdvanceWPos   *)
(* say in closed form, also starts the loop of the code on what it found;  *)
(* the turns then work on `loop`, and LoopsCompute compares when they end. *)
(*                                                                         *)
(* The mutex is held from the first turn to the last: meanwhile only the   *)
(* memcpy calls of the other thread run.                                   *)
(***************************************************************************)
EXTENDS FlatPieceMemoryStorage

(***************************************************************************)
(* The loop under way:                                                     *)
(*   at     the loop, "end" when none runs                                 *)
(*   list   the slots as the loops have left them                          *)
(*   rest   the slots that remove_if has still to look at                  *)
(*   from   pieceIndexStartFrom                                            *)
(*   index  slotIndex, or the iterator of write()                          *)
(*   wpos   absWPos                                                        *)
(***************************************************************************)
VARIABLE loop

RequestLoop(list, piece, wpos) ==
  [at |-> "erase", list |-> <<>>, rest |-> list, from |-> piece, index |-> 0, wpos |-> wpos]

AdvanceLoop(list, i, wpos) ==
  [at |-> "advance", list |-> list, rest |-> <<>>, from |-> 0, index |-> i, wpos |-> wpos]

EndOfLoop(list, wpos) ==
  [at |-> "end", list |-> list, rest |-> <<>>, from |-> 0, index |-> 0, wpos |-> wpos]

-----------------------------------------------------------------------------
(***************************************************************************)
(* requestSlots().                                                         *)
(***************************************************************************)

\* remove_if(): slots before `from` are erased, the others keep their order.
EraseSlot ==
  /\ loop.at = "erase" /\ loop.rest # <<>>
  /\ loop' = [loop EXCEPT !.rest = Tail(loop.rest),
                          !.list = IF Head(loop.rest).first < loop.from THEN loop.list
                                   ELSE Append(loop.list, Head(loop.rest))]

GapSize == loop.list[1].first - loop.from

\* None is left, or all are beyond the cache and clear() is called.
NoneKept ==
  /\ loop.at = "erase" /\ loop.rest = <<>>
  /\ loop.list # <<>> => GapSize >= CacheSizeInPieces
  /\ loop' = [loop EXCEPT !.at = "append", !.list = <<>>]

SomeKept ==
  /\ loop.at = "erase" /\ loop.rest = <<>>
  /\ loop.list # <<>> /\ GapSize < CacheSizeInPieces
  /\ loop' = [loop EXCEPT !.at = "remove"]

RemoveLast ==
  /\ loop.at = "remove" /\ GapSize + Len(loop.list) > CacheSizeInPieces
  /\ loop' = [loop EXCEPT !.list = SubSeq(loop.list, 1, Len(loop.list) - 1)]

RemoveEnd ==
  /\ loop.at = "remove" /\ ~ (GapSize + Len(loop.list) > CacheSizeInPieces)
  /\ loop' = [loop EXCEPT !.at = "prepend", !.index = loop.list[1].first]

PrependSlot ==
  /\ loop.at = "prepend" /\ loop.index # loop.from
  /\ loop' = [loop EXCEPT !.list = <<EmptySlot(loop.index - 1)>> \o loop.list,
                          !.index = loop.index - 1]

PrependEnd ==
  /\ loop.at = "prepend" /\ loop.index = loop.from
  /\ loop' = [loop EXCEPT !.at = "append", !.from = loop.list[Len(loop.list)].first + 1]

AppendSlot ==
  /\ loop.at = "append" /\ Len(loop.list) < CacheSizeInPieces /\ loop.from <= LastPiece
  /\ loop' = [loop EXCEPT !.list = Append(loop.list, EmptySlot(loop.from)),
                          !.from = loop.from + 1]

AppendEnd ==
  /\ loop.at = "append" /\ ~ (Len(loop.list) < CacheSizeInPieces /\ loop.from <= LastPiece)
  /\ loop' = EndOfLoop(loop.list, loop.wpos)

(***************************************************************************)
(* write(): the loop from the iterator on.                                 *)
(***************************************************************************)

\* absWPos after the turn at slot i.
Moved(list, i, wpos) ==
  IF PieceOf(wpos) = list[i].first
  THEN Larger(PieceAbsPos(list[i].first) + BytesAvailable(list[i].second), wpos)
  ELSE wpos

SlotIsFull == BytesAvailable(loop.list[loop.index].second) >= PieceLen

\* ++itr
AdvanceOn ==
  /\ loop.at = "advance" /\ loop.index <= Len(loop.list)
  /\ SlotIsFull
  /\ loop' = [loop EXCEPT !.wpos = Moved(loop.list, loop.index, loop.wpos),
                          !.index = loop.index + 1]

\* break
AdvanceBreak ==
  /\ loop.at = "advance" /\ loop.index <= Len(loop.list)
  /\ ~ SlotIsFull
  /\ loop' = EndOfLoop(loop.list, Moved(loop.list, loop.index, loop.wpos))

\* itr == slotList.end()
AdvanceEnd ==
  /\ loop.at = "advance" /\ loop.index > Len(loop.list)
  /\ loop' = EndOfLoop(loop.list, loop.wpos)

Turn ==
  \/ EraseSlot \/ NoneKept \/ SomeKept \/ RemoveLast \/ RemoveEnd
  \/ PrependSlot \/ PrependEnd \/ AppendSlot \/ AppendEnd
  \/ AdvanceOn \/ AdvanceBreak \/ AdvanceEnd

-----------------------------------------------------------------------------
\* The owner's first request is a loop, too.
InitLoop == Init /\ loop = RequestLoop(<<>>, FirstPiece, FirstPieceOffset)

\* The calls of requestSlots(), at the end of read() and of seek().
Requests ==
  /\ loop.at = "end"
  /\ ReadCommit \/ SeekWoken \/ \E pos \in SeekTargets : Seek(pos)
  /\ loop' = RequestLoop(slotList, PieceOf(absRPos'), absWPos')

Advances ==
  /\ loop.at = "end"
  /\ WriteCommit
  /\ loop' = AdvanceLoop(slotList', itr, absWPos)

\* The other steps, with the mutex held and without it.
OtherSteps ==
  /\ \/ /\ loop.at = "end"
        /\ \/ \E len \in ReadLens : Read(len) \/ ReadBlocks(len)
           \/ \E pos \in SeekTargets : SeekBlocks(pos)
           \/ ReadWoken \/ SeekWokenTooLate \/ WriteCommitDangling
           \/ \E i \in DOMAIN slotList, b \in Blocks : Write(i, b)
     \/ ReadCopy \/ WriteCopy
  /\ UNCHANGED loop

NextLoop ==
  \/ fault = "none" /\ (Requests \/ Advances \/ OtherSteps)
  \/ Turn /\ UNCHANGED vars

LoopSpec == InitLoop /\ [][NextLoop]_<<vars, loop>>

\* The same, while the slots are steady.
SteadyLoopSpec == InitLoop /\ [][NextLoop /\ [NextSteady]_vars]_<<vars, loop>>

-----------------------------------------------------------------------------
(***************************************************************************)
(* The loops leave the slots (line 191) and the writing position (line     *)
(* 124) that the closed forms say, whatever read, seek or write they run   *)
(* for; and requestSlots()'s own assert (lines 199, 214) holds, with slots *)
(* in the list as long as begin() or last() is asked for them.             *)
(***************************************************************************)
LoopsCompute ==
  /\ loop.at = "end" => loop.list = slotList /\ loop.wpos = absWPos
  /\ loop.at \in {"remove", "prepend"} => loop.list # <<>> /\ loop.from <= loop.list[1].first
=============================================================================
