CONSTANTS
  r1 = r1
  r2 = r2
  t1 = t1
  t2 = t2
  t3 = t3
  Free = Free
  Orphan = Orphan
  NoTrx = NoTrx
  Replicas = {r1}
  Trx = {t1, t2, t3}
  Platform = {t1}
  Attempts = 2
  UuidText = {t1, t2, t3}
  Rejected = {t3}
  MaxFaults = 1
  MaxLapses = 1
SPECIFICATION FairSpec
INVARIANTS
  FreshWhenCalled
  ConfirmationKept
  ExchangerAfterMonitoring
PROPERTIES
  ImplementsLifecycle
  EverySent
  EveryReported
