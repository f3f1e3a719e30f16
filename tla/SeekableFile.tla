---------------------------- MODULE SeekableFile -----------------------------
(***************************************************************************)
(* What VLC expects of a VlcMediaMemoryStream (src/vlcqt/core/Media.cpp):  *)
(* a file that is opened, read from where the last read or seek left off,  *)
(* and closed.  The byte at position p of the file is p itself.            *)
(***************************************************************************)
EXTENDS Integers, Sequences

CONSTANTS FileSize, MayFail
VARIABLES opened, pos, bytes

FileInit == opened = FALSE /\ pos = 0 /\ bytes = <<>>

\* A stream that is opened is read from its beginning.
OpenFile == ~ opened /\ opened' = TRUE /\ pos' = 0 /\ UNCHANGED bytes
\* Another file is taken; the stream of the old one is closed first.
NewFile == ~ opened' /\ pos' = 0 /\ bytes' = <<>>
CloseFile == opened /\ opened' = FALSE /\ UNCHANGED <<pos, bytes>>

\* Some bytes from pos on; none at the end of the file, or after an error.
ReadFile(n) ==
  /\ opened
  /\ n = 0 => pos >= FileSize \/ MayFail
  /\ n > 0 => pos + n <= FileSize
  /\ bytes' = [k \in 1 .. n |-> pos + k - 1]
  /\ pos' = pos + n
  /\ UNCHANGED opened

\* A seek that fails may leave the position anywhere.
SeekFile == opened /\ pos' \in Nat /\ UNCHANGED <<opened, bytes>>

FileNext == OpenFile \/ NewFile \/ CloseFile \/ ReadFile(pos' - pos) \/ SeekFile

FileSpec == FileInit /\ [][FileNext]_<<opened, pos, bytes>>
=============================================================================
