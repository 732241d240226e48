\* Every thread inside the client keeps running.
SPECIFICATION FairSpec
CONSTANTS
  t1 = t1
  t2 = t2
  t3 = t3
  h1 = h1
  h2 = h2
  p1 = p1
  p2 = p2
  x1 = x1
  x2 = x2
  m1 = m1
  m2 = m2
  m3 = m3
  Name = {m1, m2, m3}
  One = 2
  Empty = Empty
  Torn = Torn
  NoThread = NoThread
  NoEndpoint = NoEndpoint
  NoDatagram = NoDatagram
  Newline = Newline
  Thread = {t1, t2}
  Host = {h1}
  Port = {p1}
  Prefix = {}
  UnspecifiedHost = {}
  Batch <- OneMetric
  Quiescent = FALSE
  MaxCalls = 3
PROPERTIES
  EveryCallReturns
  ImplementsSink
\* The number of calls is bounded, so the application stops.
CHECK_DEADLOCK FALSE
