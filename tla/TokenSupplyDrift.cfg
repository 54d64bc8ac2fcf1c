\* The first event of a token is a mint: loadToken reads the supply of the
\* block, handleMintEvent then adds the mint to it.
SPECIFICATION FeedSpec
CONSTANTS
    NULL = NULL
    Unknown = Unknown
    GENESIS_ADDRESS = Zero
    Tokens = {tokA}
    Holders = {h1, h2}
    Senders = {sender}
    Names = {named}
    Values = {5}
    MaxEvents = 4
    MaxBlock = 2
    MaxTx = 2
    MaxLog = 1
    TransferPairs <- ClassifiablePairs
    Erc20Answers <- AnswersChecked
    RevertedValueTraps = FALSE
    Premine <- NoPremine
    MintAnnouncements <- MintsLoggedOnce
    BurnAnnouncements <- BurnsLoggedOnce
    MaxRedelivered = 0
SYMMETRY HolderSymmetry
CHECK_DEADLOCK FALSE
INVARIANT RegistrySupplyFollowsChain
