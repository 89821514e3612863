\* Three calls at a time that edit, put and parse two files: eight requests, in
\* every combination, and a file that is absent, empty, or has old_string twice
\* at first.  Uploads of every format, in sizes around its signature.  Texts of
\* one to five lines, and ints of five bits.
CONSTANTS
    c1 = c1
    c2 = c2
    c3 = c3
    f = f
    g = g
    x = x
    y = y
    Markdown = Markdown
    NoFile = NoFile
    Call = {c1, c2, c3}
    Path = {f, g}
    Token = {x, y}
    Requests <- MCRequests
    InitialFiles <- MCInitialFiles
    PeekSize = 512
    ReadSizes = {0, 1, 3, 4, 5, 7, 8, 14, 29, 40, 512}
    Bodies <- MCBodies
    MediaTypes = {"application/pdf", "application/x-unknown"}
    MediaExt <- MCMediaExt
    Payloads <- MCPayloads
    Unset = Unset
    Empty = Empty
    line = line
    Line = {Empty, line}
    Asked <- MCAsked
    DefaultLimit = 2
    DefaultHeadLimit = 3
    MaxOutput = 2
    MaxInt = 15
    MaxLines = 5
SPECIFICATION MCSpec
SYMMETRY Symmetry
INVARIANTS
    TypeOK
    AnswersAreTrue
    NothingDeletedTooEarly
    LeftoversHaveACause
    ReceivedWhole
    ExtensionFits
    PanicsHaveACause
    PagesCoverFile
    OmissionsAreTold
PROPERTIES
    KeepsFileStorePromise
    EmptyOldStringKeepsText
CHECK_DEADLOCK FALSE
