SPECIFICATION PSpec
CONSTANTS
    Names <- MCNames
    Fields <- MCFields
    Spellings <- MCSpellings
    Rules <- MCRules
    Contexts <- MCContexts
    Inputs <- MCInputs
    OctetBits = 2
    Requests = {r1, r2}
    Keys = {k1, k2}
    Ttl = 1
    FetchMax = 1
    WordMax = 1000000
    PortMax = 4
    V4Bits = 2
    ByteBits = 4
    V4Len = 1
    V6Len = 2
    MaxValueLen = 16
    Chunk = 3
    Hostnames = {"db"}
    Addresses = {"public", "public6", "private"}
    Shut = {"private"}
    MaxAnswers = 2
INVARIANTS
    AllowedExactly
    DocumentsInv
    ExchangeInv
    ServiceInv
    WireInv
CHECK_DEADLOCK FALSE
