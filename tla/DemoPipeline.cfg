CONSTANTS
    Capacity = 3
    BlockSize = 3
    NumMessages = 10
    MessageSize = 2
    Chars <- MCChars
SPECIFICATION Spec
INVARIANT NoFalseError
INVARIANT ParityMatchesReference
PROPERTY ImplementsBoundedQueue
