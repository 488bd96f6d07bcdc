CONSTANTS
  r1 = r1
  r2 = r2
  w1 = w1
  w2 = w2
  p1 = p1
  t1 = t1
  t2 = t2
  t3 = t3
  u1 = u1
  Null = Null
  Free = Free
  Orphan = Orphan
  NoWallet = NoWallet
  Replicas = {r1}
  Wallets = {w1, w2}
  ExchangeWallets = {p1}
  Chain = {t1, t3}
  Listed <- MCListed
  Inputs <- MCInputs
  MixedCase = {}
  Uuids = {}
  Oversized = {}
  Shown <- MCShownOutput
  MaxFaults = 0
SPECIFICATION FairSpec
PROPERTY NoInputLost
