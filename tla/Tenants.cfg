SPECIFICATION TenantsSpec
CONSTANTS
    Orgs = {"A", "B"}
    NoOrg = "none"
    Slugs = {"a", "b"}
    Keys = {"k1", "k2"}
    Owners = {"x", "y"}
    Lists <- TwoOrgs
    Requests = {1}
    MaxVersion = 3
    MaxFaults = 2
INVARIANT TenantInv
PROPERTY TenantsConverge
