\* Two windows, each able to toggle, complete or fail a transition while
\* the other is in any phase; windows are interchangeable.
CONSTANTS
  Windows = {w1, w2}
SPECIFICATION Spec
SYMMETRY MCSymmetry
INVARIANTS
  TypeOK
  StyleMatchesSettledPhase
PROPERTIES
  DelegateProtocol
