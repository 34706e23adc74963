--------------------------- MODULE MCCanvasJournal ---------------------------
(* Two windows on one document, which are alike.                           *)
EXTENDS CanvasJournal, TLC

CONSTANTS w1, w2

TwoWindows == {w1, w2}

WindowsAlike == Permutations(TwoWindows)
=============================================================================
