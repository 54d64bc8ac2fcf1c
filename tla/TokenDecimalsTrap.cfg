\* A contract without decimals() under a library that traps on the value of
\* a reverted call: loadToken aborts and the host never passes the entry.
SPECIFICATION FairFeedSpec
CONSTANTS
    NULL = NULL
    Unknown = Unknown
    GENESIS_ADDRESS = Zero
    Tokens = {tokA}
    Holders = {h1, h2}
    Senders = {sender}
    Names = {named}
    Values = {5}
    MaxEvents = 3
    MaxBlock = 2
    MaxTx = 2
    MaxLog = 1
    TransferPairs <- ClassifiablePairs
    Erc20Answers <- WithoutDecimals
    RevertedValueTraps = TRUE
    Premine <- NoPremine
    MintAnnouncements <- MintsLoggedOnce
    BurnAnnouncements <- BurnsLoggedOnce
    MaxRedelivered = 0
CHECK_DEADLOCK FALSE
PROPERTY EveryLoggedEventIsAudited
