SPECIFICATION AccessFairSpec
CONSTANTS
  People <- JustAnn
  InitialKeys <- TwoKeys
  Sessions = {s1}
  Requests = {r1, r2}
  Expiring = {"b"}
  Changes = {"delete", "activate"}
  MaxKeys = 2
  AccessTTL = 1
  RefreshTTL = 2
INVARIANTS
  AccessTypeOK
  SessionBounded
PROPERTY AccessEnds
