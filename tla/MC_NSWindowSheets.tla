------------------------- MODULE MC_NSWindowSheets -------------------------
(* Model-checking instance of NSWindowSheets.  The windows and sheets are *)
(* model values given in the .cfg files.                                   *)
EXTENDS NSWindowSheets, TLC

\* Parent windows are interchangeable: no action or property names one.
MCSymmetry == Permutations(Windows)
=============================================================================
