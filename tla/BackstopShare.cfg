SPECIFICATION Spec
CONSTANTS
  u1 = u1
  u2 = u2
  p0 = p0
  p1 = p1
  Users = {u1, u2}
  Vault = Vault
  Engine = Engine
  Pools = {p0, p1}
  Amounts = {1, 2}
  Weights = {10000}
  Endowment <- MCEndowment
  COOLDOWN_SECONDS = 2
  MaxTime = 4
INVARIANT ShareInBps
