\* One collection indexed from its first event, two items, two holders, up
\* to five events over two blocks: inventories, supply, audit log, snapshots,
\* and the refinement of NftOwnership.
SPECIFICATION Spec
CONSTANTS
    NULL = NULL
    Unknown = Unknown
    GENESIS_ADDRESS = Zero
    Collections = {nftA}
    TokenIds = {1, 2}
    Holders = {h1, h2}
    Senders = {sender}
    Names = {named}
    Uris = {uri}
    MaxEvents = 5
    MaxBlock = 2
    MaxTx = 3
    MaxLog = 2
    InitialOwners <- FromGenesis
    MintSources <- StandardMints
    Erc721Answers <- Erc721AnswersChecked
    UriAnswers <- UriAnswersChecked
SYMMETRY HolderSymmetry
CHECK_DEADLOCK FALSE
INVARIANT TypeOK
INVARIANT InventoriesMatchOwners
INVARIANT SupplyCountsLiveItems
INVARIANT CountersMatchAuditLog
INVARIANT LatestSnapshotMatchesInventory
PROPERTY ImplementsOwnership
PROPERTY InventorySnapshotsOfEarlierBlocksAreKept
INVARIANT ItemNamesLastMintAndBurn
