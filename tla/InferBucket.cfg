SPECIFICATION FairSpec
CONSTANTS
  b1 = b1  b2 = b2
  c1 = c1  c2 = c2  c3 = c3  c4 = c4  c5 = c5
  w1 = w1  w2 = w2  w3 = w3
  Bucket = {b1, b2}
  Component = {c1, c2, c3, c4, c5}
  Worker = {w1, w2, w3}
  BucketOf <- TwoBuckets
  HasQueryAtom = {c1, c2, c3, c5}
  NoPushdown = FALSE
  SilentOnSingleThread = FALSE
  Faulty = {c1, c2}
  NoComponent = NoComponent
  MaxCalls = 2
INVARIANTS TypeOK SolvedOnce ReturnIsComplete
PROPERTIES ConsoleRestored CallReturns ImplementsTaskPool
