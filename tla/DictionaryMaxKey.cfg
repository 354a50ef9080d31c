\* GetKeyWithMaximumValue reads the strdup copy of an int count as *(int *).
CONSTANTS
    Unused = Unused
    Freed = Freed
    Nil = Nil
    NoKey = NoKey
    ka = ka
    kb = kb
    kab = kab
    Keys <- MCKeys
    Text <- MCText
    Vals = {1, 2}
    InitSize = 1
    MaxSize = 4
    MaxAllocs = 7
    Junk = {0, 1}
SPECIFICATION Spec
INVARIANT MaxKeyAgrees
