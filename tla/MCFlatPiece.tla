----------------------------- MODULE MCFlatPiece -----------------------------
(* Small instances of FlatPieceMemoryStorage. *)
EXTENDS FlatPieceMemoryStorage

\* Whole pieces, and pieces cut into two blocks.
WholePieces == {<<0, 2>>}
HalfPieces == {<<0, 1>>, <<1, 1>>}
BothSizes == WholePieces \cup HalfPieces

Lens == {1, 3}
Targets == {0, 2, 5}
Ends == {0, 5}
=============================================================================
