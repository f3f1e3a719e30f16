----------------------------- MODULE ByteStream ------------------------------
(***************************************************************************)
(* What FlatPieceMemoryStorage promises, whatever its slots and its cache  *)
(* do: a window of a byte stream.  The positions rd .. wr - 1 can be read; *)
(* wr never goes beyond CacheSizeInPieces pieces from the one being read;  *)
(* a seek moves the window, and keeps wr when it stays in the same piece.  *)
(* In StreamSpec a read gives out the bytes of the stream (the byte at     *)
(* position p is p itself); in WindowSpec, only as many bytes.             *)
(***************************************************************************)
EXTENDS Integers, Sequences

CONSTANTS PieceLen, CacheSizeInPieces, FOffset, FSize

VARIABLES rd, wr, out

Start(pos) == (pos \div PieceLen) * PieceLen

WindowInit == rd = FOffset /\ wr = Start(FOffset)

\* Read n bytes that are there.
Advance(n) == n > 0 /\ rd + n <= wr /\ rd' = rd + n /\ wr' = wr

\* New bytes become readable.
Extend ==
  /\ wr' > wr
  /\ wr' <= Start(rd) + PieceLen * CacheSizeInPieces
  /\ rd' = rd

Jump(pos) ==
  /\ rd' = pos
  /\ wr' = IF Start(wr) = Start(pos) THEN wr ELSE Start(pos)

InFile(pos) == FOffset <= pos /\ pos <= FOffset + FSize

WindowNext ==
  \/ rd' > rd /\ Advance(rd' - rd)
  \/ Extend
  \/ InFile(rd') /\ Jump(rd')

WindowSpec == WindowInit /\ [][WindowNext]_<<rd, wr>>

-----------------------------------------------------------------------------
StreamInit == WindowInit /\ out = <<>>

TakeBytes(n) == Advance(n) /\ out = <<>> /\ out' = [i \in 1 .. n |-> rd + i - 1]

\* The call that read returns.
Return == out # <<>> /\ out' = <<>> /\ UNCHANGED <<rd, wr>>

StreamNext ==
  \/ rd' > rd /\ TakeBytes(rd' - rd)
  \/ Return
  \/ (Extend \/ (InFile(rd') /\ Jump(rd'))) /\ UNCHANGED out

StreamSpec == StreamInit /\ [][StreamNext]_<<rd, wr, out>>
=============================================================================
