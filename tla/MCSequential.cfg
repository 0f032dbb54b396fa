CONSTANTS
    YamlKeys = {k1, k2}
    NoKey = NoKey
    MaxIndent = 2
    MaxLines = 4
    BlockParents = {0, 1}
    MaxBlockIndent = 2
    MaxBlockLines = 3
    MaxHeaderLength = 3
    MaxTextLength = 5
    MaxTokens = 8
    IntWidth = 2
    IniSections = {s1, s2}
    IniValues = {v1}
    MaxIniLines = 5
    TreeDepth = 3
    Base = 4
    UdidMax = 2
    Packs = 2
    Hops = 2
    Items = {i1, i2, i3}
    Nil = Nil
    Capacity = 3
SPECIFICATION Spec
SYMMETRY Symmetry
INVARIANTS
    ParsedAsIndented
    BlockKeepsText
    ValuesAsWritten
    DecodedAsWritten
    IniIntoStructs
    MaskedExactly
    TokenRoundTrip
    HandlerSeesCaller
PROPERTY
    RingIsDeque
CHECK_DEADLOCK FALSE
