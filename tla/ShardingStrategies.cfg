CONSTANTS
    AllPeers = {1, 2, 3, 4}
    PartitionCount = 3
    MaxWord = 15
    UHash <- MCUHash
    MaxScore = 2
    MinPeers = 2
SPECIFICATION Spec
INVARIANTS
    SharesAsDefined
PROPERTIES
    StableShares
