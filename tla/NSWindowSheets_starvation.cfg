\* The unconditional queue promise: expected to be violated by critical
\* sheets that keep replacing each other on top of the window.
CONSTANTS
  Windows  = {w1, w2}
  Sheets   = {s1, s2, s3}
  NoWindow = NoWindow

SPECIFICATION FairSpec

PROPERTY QueuedEventuallyPresented
