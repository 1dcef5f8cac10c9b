CONSTANTS
    Procs = {p1}
    Services <- AnyServices
    Domains <- AnyDomains
    Characters <- Letters
    Separator <- At
    Handlers = {h1, h2}
    NoHandler = NoHandler
    MaxMessages = 1
SPECIFICATION Spec
INVARIANT CountedForItsOwnPair
