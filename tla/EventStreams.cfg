SPECIFICATION FairStreams
CONSTANTS
  Pages = {p1, p2}
  Streams = {s1, s2, s3}
  Sets = {c1, c2, c3}
  None = None
  MaxOps = 2
INVARIANT SubscribersAreServed
PROPERTIES NoEarlyWord EndIsHeard
