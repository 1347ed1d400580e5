------------------------- MODULE MC_NSWindowKeyMain -------------------------
EXTENDS NSWindowKeyMain, TLC

\* Windows are interchangeable: eligibility is chosen per window in Init.
MCSymmetry == Permutations(Windows)
=============================================================================
