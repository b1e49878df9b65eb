SPECIFICATION Spec
CONSTANTS
  w1 = w1
  w2 = w2
  None = None
  Wallets <- MCWallets
  MaxMoves = 5
  MaxFaults = 1
  MaxTxs = 4
INVARIANT UnpolledViewsFollow
INVARIANT BooksMatch
PROPERTY PolledViewsHeal
CHECK_DEADLOCK FALSE
