CONSTANTS
    Unused = Unused
    Freed = Freed
    Nil = Nil
    NoKey = NoKey
    ka = ka
    kb = kb
    kab = kab
    Keys <- MCKeys
    Text <- MCText
    Vals = {0, 1, 2}
    InitSize = 1
    MaxSize = 4
    MaxAllocs = 7
    Junk = {0}
SPECIFICATION Spec
INVARIANT HeapMatchesItems
PROPERTY ImplementsKeyValueMap
