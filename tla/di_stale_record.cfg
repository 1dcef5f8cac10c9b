CONSTANTS
    o1 = o1
    o2 = o2
    x1 = x1
    x2 = x2
    Outputs = {o1, o2}
    Txs = {x1, x2}
    TxOf <- TwoTxs
    Scripts <- FewScripts
    OtherTopics = {tm_other}
    InOrder = TRUE
    Redelivery = TRUE
    MaxCopies = 2
SPECIFICATION Spec
INVARIANT SpentRecordIsRemoved
CHECK_DEADLOCK FALSE
