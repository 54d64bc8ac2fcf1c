\* A mintable and burnable token that logs Mint and Burn beside the Transfer
\* from and to the zero address: both handlers move the same balance.
SPECIFICATION FeedSpec
CONSTANTS
    NULL = NULL
    Unknown = Unknown
    GENESIS_ADDRESS = Zero
    Tokens = {tokA}
    Holders = {h1, h2}
    Senders = {sender}
    Names = {named}
    Values = {5}
    MaxEvents = 4
    MaxBlock = 2
    MaxTx = 2
    MaxLog = 1
    TransferPairs <- ClassifiablePairs
    Erc20Answers <- AnswersChecked
    RevertedValueTraps = FALSE
    Premine <- NoPremine
    MintAnnouncements <- MintsLoggedTwice
    BurnAnnouncements <- BurnsLoggedTwice
    MaxRedelivered = 0
SYMMETRY HolderSymmetry
CHECK_DEADLOCK FALSE
INVARIANT LedgerFollowsChain
