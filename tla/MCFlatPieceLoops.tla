--------------------------- MODULE MCFlatPieceLoops --------------------------
(* Small instances of FlatPieceLoops. *)
EXTENDS MCFlatPiece, FlatPieceLoops
=============================================================================
