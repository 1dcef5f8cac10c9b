CONSTANTS
    OwnKey = OwnKey
    OtherKey = OtherKey
    NoKey = NoKey
    NoURI = NoURI
    Configurations <- AllConfigurations
    WordLength <- Lengths
    Requests <- AllRequests
    Earlier <- Others
    MaxIssued = 3
SPECIFICATION Spec
INVARIANT TypeOK
INVARIANT IssuedAsAsked
INVARIANT IssuedIsAdmitted
PROPERTY FindsAsAsked
