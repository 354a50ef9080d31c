CONSTANTS
    Capacity = 1
    BlockSize = 3
    NumMessages = 10
    MessageSize = 2
    Chars <- MCChars
SPECIFICATION Spec
INVARIANT NoFalseError
