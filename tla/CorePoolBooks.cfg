SPECIFICATION Spec
CONSTANTS
  u1 = u1
  u2 = u2
  xlm = xlm
  usdc = usdc
  core = core
  other = other
  Users = {u1, u2}
  Pool = Pool
  Admins = {admin}
  Contracts = {peer}
  NoAddress = NoAddress
  Markets = {core, other}
  Assets = {xlm, usdc}
  Listings <- BooksListings
  Endowment <- BooksEndowment
  Amounts = {1, 2}
  Prices <- BooksPrices
  Flows = {0, 1, 2}
CONSTRAINT MCConstraint
INVARIANT TypeOK
INVARIANT TotalsMatch
INVARIANT ClaimsCovered
INVARIANT DebtCeilingHeld
PROPERTY ImplementsVaults
PROPERTY PausedMarketsOnlyShrink
