\* 1-bit counters wrap on their second packet, the smallest width at which
\* a wrap can separate a counter from its part.
CONSTANTS
  Width = 1
SPECIFICATION Spec
INVARIANTS
  TypeOK
  DerivedCountsExact
