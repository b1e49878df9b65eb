SPECIFICATION Spec
CONSTANTS
  u1 = u1
  u2 = u2
  xlm = xlm
  usdc = usdc
  core = core
  other = other
  Users = {u1, u2}
  Pool = Pool
  Admins = {admin}
  Contracts = {peer}
  NoAddress = NoAddress
  Markets = {core, other}
  Assets = {xlm, usdc}
  Listings <- RiskListings
  Endowment <- RiskEndowment
  Amounts = {1, 2}
  Prices <- RiskPrices
  Flows = {0, 1, 2}
CONSTRAINT MCConstraint
PROPERTY NewDebtIsAdmissible
PROPERTY NoSuddenLiquidation
