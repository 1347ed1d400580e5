------------------------ MODULE MC_NSWindowFullScreen ------------------------
EXTENDS NSWindowFullScreen, TLC

\* Windows are interchangeable: no action or property names one.
MCSymmetry == Permutations(Windows)
=============================================================================
