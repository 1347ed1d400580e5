\* Two threads raising exceptions and two server threads: enough for two
\* requests to be handled concurrently and for one to overtake the other.
\* No symmetry reduction, since the run checks a liveness property.
CONSTANTS
  Threads = {t1, t2}
  Servers = {s1, s2}
  NoThread = NoThread
SPECIFICATION FairSpec
INVARIANTS
  TypeOK
  RequestHeldOnce
PROPERTIES
  ExceptionsAnswered
  RefinesExceptionRPC
