CONSTANTS
    o1 = o1
    o2 = o2
    x1 = x1
    x2 = x2
    Outputs = {o1, o2}
    Txs = {x1, x2}
    TxOf <- TwoTxs
    Scripts <- AllScripts
    OtherTopics = {tm_other}
    InOrder = TRUE
    Redelivery = TRUE
    MaxCopies = 2
SPECIFICATION Spec
INVARIANT TypeOK
INVARIANT SettledIndexIsExact
INVARIANT AdmittedIsParsed
INVARIANT NoForeignRecords
INVARIANT LiveIsFindable
CHECK_DEADLOCK FALSE
