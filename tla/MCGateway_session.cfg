CONSTANTS
  c1 = c1
  c2 = c2
  r1 = r1
  r2 = r2
  r3 = r3
  Conns = {c1}
  Reqs = {r1, r2}
  ConnOf <- OneConn
  Sids = {s1}
  NoSid = NoSid
  Policies = {p1}
  NoPolicy = NoPolicy
  Limits = {1}
  Denied = Denied
  Unlimited = Unlimited
  MaxTunnels = 2
  MaxConcurrent = 1
SPECIFICATION FairSpec
INVARIANTS TypeOK RevocationPending ExpiryArmed
PROPERTIES SessionEndClosesTunnel SetupIsNotStarved DrainEnds
