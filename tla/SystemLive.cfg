CONSTANTS
  r1 = r1
  w1 = w1
  p1 = p1
  t1 = t1
  t2 = t2
  t3 = t3
  u1 = u1
  Null = Null
  Free = Free
  Orphan = Orphan
  NoWallet = NoWallet
  NoTrx = NoTrx
  Replicas = {r1}
  Wallets = {w1}
  ExchangeWallets = {p1, w1}
  Chain = {t1, t2}
  Listed <- MCListed
  Inputs <- MCInputs
  MixedCase = {}
  Uuids = {u1}
  Oversized = {}
  Shown <- MCShown
  Attempts = 2
  UuidText <- MCUuidText
  Rejected <- MCRejected
  Announced = {t1, t2}
  Expected <- MCExpected
  MaxFaults = 1
  MaxCrashes = 1
SPECIFICATION FairSpec
INVARIANT InsertNeverRefused
PROPERTIES
  ImplementsDelivery
  InputsAreTold
  AnnouncedAreReported
