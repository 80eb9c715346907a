CONSTANTS
  Supply = 3
  Accounts = {a1, a2}
  x = x
  y = y
  z = z
  Legends = {x, y, z}
  Confs <- MCConfs
  Seeds = {0, 1, 2, 3, 5, 6}
  Calls = {c1, c2}
  None = None
  NoSupply = NoSupply
SPECIFICATION Spec
INVARIANTS TypeOK MintsAreAnsweredOnce SoldOutIsFinal LegendsAreComplete
