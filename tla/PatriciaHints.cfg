SPECIFICATION Spec
CONSTANTS
    Height = 3
    Value = {0, 1}
    MaxMods = 2
    MaxLeaves = 3
    MAX_KEYS = 1
INVARIANTS
    ProofsFollowKeys
    HintsFindTheirNodes
    DescentsAreMaximal
    WalksAgree
