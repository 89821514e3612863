\* Two MCP requests at one instance, which may be replaced, while one handler
\* serves two users: keys and tokens as credentials, three server objects, three
\* draws (a code, a pair, and a second pair by rotation), one tick.
CONSTANTS
    h1 = h1
    k1 = k1
    k2 = k2
    registered = registered
    u1 = u1
    v1 = v1
    NoResource = NoResource
    None = None
    Client = {registered}
    MetadataClient = {}
    Key = {k1, k2}
    Verifier = {v1}
    RedirectURI = {u1}
    Resource = {NoResource}
    CodeTTL = 1
    AccessTTL = 1
    RefreshTTL = 2
    MaxDraws = 3
    MaxTime = 1
    Handler = {h1}
    m1 = m1
    m2 = m2
    Request = {m1, m2}
    i1 = i1
    Instance = {i1}
    NoServer = NoServer
    MaxServers = 3
SPECIFICATION GatewaySpec
SYMMETRY Symmetry
INVARIANTS
    GatewayTypeOK
    OneServerPerKey
    ServesConsentingAccount
    DeadTokenIsRefused
