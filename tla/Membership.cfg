CONSTANTS
    Nodes <- MCNodes
    AssertsEnabled = TRUE
SPECIFICATION Spec
INVARIANT OneConnectionPerPair
PROPERTY EventuallyLinked
PROPERTY OfflineNodeWasOnline
