\* One request for tokens at a time in OAuthServer, one user, a registered
\* client and one with a metadata document, two redirect URIs, two PKCE
\* verifiers, requests with and without a resource.  Three draws: a code, a pair
\* and the pair of a rotation.  No time passes there: see OAuthServer_grants.
\* Or two requests with client assertions, three key sets, Lifetime 2, Skew 1.
CONSTANTS
    h1 = h1
    k1 = k1
    registered = registered
    metadata = metadata
    u1 = u1
    u2 = u2
    v1 = v1
    v2 = v2
    r1 = r1
    NoResource = NoResource
    None = None
    Client = {registered, metadata}
    MetadataClient = {metadata}
    Key = {k1}
    Verifier = {v1, v2}
    RedirectURI = {u1, u2}
    Resource = {NoResource, r1}
    CodeTTL = 1
    AccessTTL = 1
    RefreshTTL = 2
    MaxDraws = 3
    MaxTime = 0
    MaxClock = 3
    Handler = {h1}
    q1 = q1
    q2 = q2
    Request = {q1, q2}
    Nothing = Nothing
    Malformed = Malformed
    kid1 = kid1
    kid2 = kid2
    KeyID = {kid1, kid2}
    s1 = s1
    s2 = s2
    Signer = {s1, s2}
    origin = origin
    Here = {origin}
    Elsewhere = Elsewhere
    Forms <- MCForms
    KeySets <- MCKeySets
    Lifetime = 2
    Skew = 1
SPECIFICATION MCSpec
SYMMETRY Symmetry
INVARIANTS
    BoundToConsent
    AssertionTypeOK
    AcceptedIsGenuine
    RepeatedWithinLifetime
    GenuineIsAccepted
