SPECIFICATION DiscoverySpec
SYMMETRY Symmetry
CHECK_DEADLOCK FALSE
CONSTANTS
    r1 = r1
    m1 = m1
    m2 = m2
    d1 = d1
    k1 = k1
    k2 = k2
    x1 = x1
    x2 = x2
    r2 = r2
    v1 = v1
    v2 = v2
    get = get
    set = set
    Requests = {r1, r2}
    Resources = {thing}
    Specs = {v1, v2}
    Configs = {c1, c2}
    Schemes = {nosec, bearer}
    NoSec = nosec
    Names = {get, set}
    Offers <- MCOffers
    None = None
    MaxOps = 4
INVARIANTS
    CredentialsConsistent
    
PROPERTIES
    GeneratedAsShown
    RefreshOverBase
