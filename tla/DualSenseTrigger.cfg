\* Two arm positions besides rest, so that a zone can lie strictly between
\* start and end and the arm can be past it; two configurations in flight,
\* so that `mode` can lag behind two setMode... calls.
CONSTANTS
  NumPositions = 2
  MaxInFlight = 2
SPECIFICATION FairSpec
INVARIANTS
  TypeOK
PROPERTIES
  ModeSettlesOnLastRequest
