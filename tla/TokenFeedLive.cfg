\* A host under weak fairness that may hand an entry to its handler a second
\* time, a library that traps on the value of a reverted call, a contract
\* that has decimals(): every logged entry gets its audit record, and no
\* audit record changes once saved.
SPECIFICATION AtLeastOnceSpec
CONSTANTS
    NULL = NULL
    Unknown = Unknown
    GENESIS_ADDRESS = Zero
    Tokens = {tokA}
    Holders = {h1, h2}
    Senders = {sender}
    Names = {named}
    Values = {5}
    MaxEvents = 3
    MaxBlock = 2
    MaxTx = 2
    MaxLog = 1
    TransferPairs <- ClassifiablePairs
    Erc20Answers <- WithDecimals
    RevertedValueTraps = TRUE
    Premine <- NoPremine
    MintAnnouncements <- MintsLoggedOnce
    BurnAnnouncements <- BurnsLoggedOnce
    MaxRedelivered = 1
CHECK_DEADLOCK FALSE
PROPERTY EveryLoggedEventIsAudited
PROPERTY AuditRecordsAreWriteOnce
