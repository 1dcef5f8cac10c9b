CONSTANTS
    Procs = {p1, p2}
    Topics = {t1, t2}
    Handlers = {h1, h2}
    EmptyTopic = EmptyTopic
    NoHandler = NoHandler
    NoProc = NoProc
    MaxMessages = 1
SPECIFICATION Spec
SYMMETRY Symmetry
INVARIANT TypeOK
INVARIANT HandlersMatchActive
INVARIANT ActiveHasHandler
INVARIANT GettersAreSnapshots
INVARIANT CountMatchesDeliveries
PROPERTY HistoryIsKept
PROPERTY Linearizable
