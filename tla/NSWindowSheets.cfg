\* Two parent windows and three sheet windows: enough for a critical sheet
\* over a presented sheet with another queued behind on one window, and for
\* a sheet presenting a sub-sheet of its own (a chain w -> s -> s') while
\* the other window is used independently.  No symmetry reduction, since
\* the run checks liveness.
CONSTANTS
  Windows  = {w1, w2}
  Sheets   = {s1, s2, s3}
  NoWindow = NoWindow

SPECIFICATION FairSpec

INVARIANT TypeOK
INVARIANT SheetsMatchParent
INVARIANT CriticalStaysOnTop
INVARIANT QueueDrains
PROPERTY PresentedUntilEnded
PROPERTY RefinesSheetQueue
PROPERTY QueuedPresentedOnceCriticalsStop
