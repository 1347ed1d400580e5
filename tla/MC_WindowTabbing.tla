--------------------------- MODULE MC_WindowTabbing ---------------------------
EXTENDS WindowTabbing, TLC

\* Windows are interchangeable, and so are identifier values.
MCSymmetry == Permutations(Windows) \cup Permutations(Identifiers)
=============================================================================
