CONSTANTS
    YamlKeys = {k1, k2}
    NoKey = NoKey
    MaxIndent = 2
    MaxLines = 3
SPECIFICATION YamlSpec
SYMMETRY Symmetry
INVARIANT MixedIsRefused
CHECK_DEADLOCK FALSE
