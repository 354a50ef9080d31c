CONSTANTS
    f1 = f1
    f2 = f2
    Stale = Stale
    KMax = 3
    Bytes = {0, 1}
    Fields <- MCFields
    HSize <- MCHSize
    AppSizes <- MCDefaultSizes
SPECIFICATION Spec
INVARIANT RoundTrip
