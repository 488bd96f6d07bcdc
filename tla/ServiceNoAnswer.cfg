CONSTANTS
  c1 = c1
  c2 = c2
  i1 = i1
  i2 = i2
  t1 = t1
  t2 = t2
  NoId = NoId
  Nobody = Nobody
  Monitor = Monitor
  Sessions = {c1}
  Keys = {1, 2, 3, 4}
  Ids = {i1, i2}
  Trxs = {t1, t2}
  Seeds <- MCSeeds
  Messages <- MCMessages
SPECIFICATION ServiceSpec
INVARIANT ProcessReturns
