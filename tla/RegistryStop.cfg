CONSTANTS
  r1 = r1
  r2 = r2
  i1 = i1
  i2 = i2
  i3 = i3
  NoId = NoId
  Sessions = {r1}
  Keys = {1, 2, 3, 4}
  Ids = {i1, i2, i3}
  Seeds <- ScriptSeeds
SPECIFICATION Spec
INVARIANT StopStopsWallet
