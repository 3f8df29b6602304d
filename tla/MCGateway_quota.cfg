CONSTANTS
  c1 = c1
  c2 = c2
  r1 = r1
  r2 = r2
  r3 = r3
  Conns = {c1, c2}
  Reqs = {r1, r2, r3}
  ConnOf <- TwoConns
  Sids = {}
  NoSid = NoSid
  Policies = {p1}
  NoPolicy = NoPolicy
  Limits = {1, 2}
  Denied = Denied
  Unlimited = Unlimited
  MaxTunnels = 1
  MaxConcurrent = 2
SPECIFICATION Spec
SYMMETRY PairSymmetry
INVARIANTS TunnelCap QuotaHolds PermitsReleased
