\* Three windows: one key, another main, and a third to take either role,
\* with every combination of eligibility, changing at any time.
CONSTANTS
  Windows = {w1, w2, w3}
  NoWindow = NoWindow
SPECIFICATION Spec
SYMMETRY MCSymmetry
INVARIANTS
  TypeOK
  CallbacksMatchApplication
