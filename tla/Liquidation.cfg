SPECIFICATION EngineSpec
CONSTANTS
  u1 = u1
  u2 = u2
  xlm = xlm
  usdc = usdc
  core = core
  other = other
  Users = {u1, u2}
  Pool = Pool
  Admins = {admin}
  Contracts = {Engine}
  NoAddress = NoAddress
  Markets = {core, other}
  Assets = {xlm, usdc}
  Engine = Engine
  Listings <- MCListings
  Endowment <- MCEndowment
  Amounts <- MCAmounts
  Prices <- MCPrices
  CallAmounts = {10, 20}
  FillAmounts = {10, 19, 20}
  Ledgers = {100}
  MaxSequence = 200
  MaxAuctions = 2
CONSTRAINT MCConstraint
INVARIANT EngineTypeOK
INVARIANT StrandsAtMostAnEleventh
INVARIANT DiscountCapped
PROPERTY CurrentFillsPay
