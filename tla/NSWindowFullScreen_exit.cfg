\* One window suffices: it enters full screen and then has its
\* collectionBehavior changed to FullScreenNone.
CONSTANTS
  Windows = {w1}
SPECIFICATION Spec
INVARIANT FullScreenExitable
