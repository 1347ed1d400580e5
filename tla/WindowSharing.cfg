\* Two windows, so that a transfer can move the activity to another window
\* and the activity can move away from a transfer's receiver; two calls,
\* so that one request is pending while the other changes what it depends
\* on.
CONSTANTS
  Windows = {w1, w2}
  Ids     = {i1, i2}
SPECIFICATION FairSpec
INVARIANTS
  TypeOK
  CapturedOnlyInSession
PROPERTIES
  NilErrorIffShared
  EveryCallAnswered
