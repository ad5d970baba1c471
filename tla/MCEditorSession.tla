--------------------------- MODULE MCEditorSession ---------------------------
(* Instances of EditorSession for TLC. *)
EXTENDS EditorSession, TLC

CONSTANTS r1, r2, r3

OneFolder == <<r1>>
TwoFolders == <<r1, r2>>

PieceSymmetry == Permutations(Pieces)
===============================================================================
