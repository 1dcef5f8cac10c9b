CONSTANTS
    Base = 4
    MaxInputs = 64
    Requests <- AllRequests
SPECIFICATION Spec
INVARIANT TypeOK
INVARIANT ReadsWhatWasWritten
INVARIANT BundleSpendsEach
CHECK_DEADLOCK FALSE
