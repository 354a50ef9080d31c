CONSTANTS
    Nodes <- MCNodes
    AssertsEnabled = TRUE
SPECIFICATION Spec



INVARIANT NoSenderAfterOffline
