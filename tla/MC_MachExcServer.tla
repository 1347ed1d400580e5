------------------------- MODULE MC_MachExcServer -------------------------
EXTENDS MachExcServer, TLC

\* Faulting threads are interchangeable, and so are server threads.
MCSymmetry == Permutations(Threads) \cup Permutations(Servers)
=============================================================================
