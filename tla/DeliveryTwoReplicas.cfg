CONSTANTS
  r1 = r1
  r2 = r2
  t1 = t1
  t2 = t2
  t3 = t3
  Free = Free
  Orphan = Orphan
  NoTrx = NoTrx
  Replicas = {r1, r2}
  Trx = {t1, t2}
  Platform = {t1, t2}
  Attempts = 2
  UuidText = {t1}
  Rejected = {}
  MaxFaults = 2
  MaxLapses = 1
SPECIFICATION Spec
SYMMETRY ReplicaSymmetry
INVARIANTS
  TypeOK
  DeliveryInv
  RowConsistent
  MarkedWasDelivered
  OneSender
