CONSTANTS
    OwnKey = OwnKey
    OtherKey = OtherKey
    NoKey = NoKey
    NoURI = NoURI
    Configurations <- AllConfigurations
    WordLength <- Lengths
    Requests <- DocumentedRequests
    Earlier <- Others
    MaxIssued = 3
SPECIFICATION Spec
INVARIANT FoundIsRevocable
