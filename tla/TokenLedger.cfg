\* Two tokens, two holders and the zero address, up to three events over two
\* blocks: conservation, audit log, snapshots, one token per event.
SPECIFICATION Spec
CONSTANTS
    NULL = NULL
    Unknown = Unknown
    GENESIS_ADDRESS = Zero
    Tokens = {tokA, tokB}
    Holders = {h1, h2}
    Senders = {sender}
    Names = {named}
    Values = {5}
    MaxEvents = 3
    MaxBlock = 2
    MaxTx = 3
    MaxLog = 2
    TransferPairs <- ClassifiablePairs
    Erc20Answers <- AnswersChecked
    RevertedValueTraps = FALSE
SYMMETRY HolderAndTokenSymmetry
CHECK_DEADLOCK FALSE
INVARIANT TypeOK
INVARIANT LedgerMatchesSupply
INVARIANT AggregatesMatchAuditLog
INVARIANT LatestSnapshotMatchesBalance
PROPERTY SnapshotsOfEarlierBlocksAreKept
PROPERTY EventsTouchOneToken
