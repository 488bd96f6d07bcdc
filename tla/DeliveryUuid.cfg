CONSTANTS
  r1 = r1
  r2 = r2
  t1 = t1
  t2 = t2
  t3 = t3
  Free = Free
  Orphan = Orphan
  NoTrx = NoTrx
  Replicas = {r1}
  Trx = {t1, t2}
  Platform = {t1}
  Attempts = 2
  UuidText = {}
  Rejected = {}
  MaxFaults = 0
  MaxLapses = 0
SPECIFICATION FairSpec
PROPERTY EveryReported
