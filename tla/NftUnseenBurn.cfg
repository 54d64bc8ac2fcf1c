\* A collection that has items and owners when indexing starts: the burn of
\* an item the store has never seen is taken for a burn and for a mint.
SPECIFICATION Spec
CONSTANTS
    NULL = NULL
    Unknown = Unknown
    GENESIS_ADDRESS = Zero
    Collections = {nftA}
    TokenIds = {1, 2}
    Holders = {h1, h2}
    Senders = {sender}
    Names = {named}
    Uris = {uri}
    MaxEvents = 2
    MaxBlock = 2
    MaxTx = 2
    MaxLog = 1
    InitialOwners <- JoinedLate
    MintSources <- StandardMints
    Erc721Answers <- Erc721AnswersChecked
    UriAnswers <- UriAnswersChecked
SYMMETRY HolderSymmetry
CHECK_DEADLOCK FALSE
INVARIANT InventoriesMatchOwners
