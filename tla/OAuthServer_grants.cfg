\* Two requests at a time, two users, one client.  Four draws: two codes and
\* two pairs, or one code that is exchanged and rotated twice.
CONSTANTS
    h1 = h1
    h2 = h2
    k1 = k1
    k2 = k2
    registered = registered
    u1 = u1
    v1 = v1
    NoResource = NoResource
    None = None
    Client = {registered}
    MetadataClient = {}
    Key = {k1, k2}
    Verifier = {v1}
    RedirectURI = {u1}
    Resource = {NoResource}
    CodeTTL = 1
    AccessTTL = 1
    RefreshTTL = 2
    MaxDraws = 4
    MaxTime = 2
    Handler = {h1, h2}
SPECIFICATION Spec
SYMMETRY Symmetry
INVARIANTS
    TypeOK
    SpentOnce
    OneLivePair
    TokensBelongToGrant
    UnspentPairKeepsSession
PROPERTIES
    DeadStaysDead
    ConsentsLive
