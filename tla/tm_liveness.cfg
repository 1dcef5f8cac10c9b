CONSTANTS
    Procs = {p1, p2}
    Topics = {t1}
    Handlers = {h1}
    EmptyTopic = EmptyTopic
    NoHandler = NoHandler
    NoProc = NoProc
    MaxMessages = 1
SPECIFICATION AliasSpec
INVARIANT OnlyHandlersAreCalled
PROPERTY EveryCallReturns
