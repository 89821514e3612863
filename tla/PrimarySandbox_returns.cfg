\* Two concurrent calls on one instance; nobody selects another sandbox.
CONSTANTS
    i1 = i1
    i2 = i2
    c1 = c1
    c2 = c2
    c3 = c3
    s1 = s1
    s2 = s2
    Instance = {i1}
    Call = {c1, c2}
    Sandbox = {s1, s2}
    Host <- MCHost
    Path <- MCPath
    Home <- MCHome
    Tools <- PinningTools
    NoSandbox = NoSandbox
    NoPath = NoPath
    NoCall = NoCall
SPECIFICATION FairSpec
PROPERTY EveryCallReturns
\* Calls need not arrive.
CHECK_DEADLOCK FALSE
