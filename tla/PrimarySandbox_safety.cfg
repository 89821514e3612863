\* Two instances, three concurrent calls, two sandboxes.
CONSTANTS
    i1 = i1
    i2 = i2
    c1 = c1
    c2 = c2
    c3 = c3
    s1 = s1
    s2 = s2
    Instance = {i1, i2}
    Call = {c1, c2, c3}
    Sandbox = {s1, s2}
    Host <- MCHost
    Path <- MCPath
    Home <- MCHome
    Tools <- MixedTools
    NoSandbox = NoSandbox
    NoPath = NoPath
    NoCall = NoCall
SPECIFICATION Spec
SYMMETRY Symmetry
INVARIANTS
    TypeOK
    HomeCacheCoherent
    ActsOnSelectedSandbox
\* Calls need not arrive, and a call that waits for a mutex it holds never ends.
CHECK_DEADLOCK FALSE
