\* One collection indexed from its first event: the transfer count of an item.
SPECIFICATION Spec
CONSTANTS
    NULL = NULL
    Unknown = Unknown
    GENESIS_ADDRESS = Zero
    Collections = {nftA}
    TokenIds = {1, 2}
    Holders = {h1, h2}
    Senders = {sender}
    Names = {named}
    Uris = {uri}
    MaxEvents = 3
    MaxBlock = 2
    MaxTx = 2
    MaxLog = 1
    InitialOwners <- FromGenesis
    MintSources <- StandardMints
    Erc721Answers <- Erc721AnswersChecked
    UriAnswers <- UriAnswersChecked
SYMMETRY HolderSymmetry
CHECK_DEADLOCK FALSE
INVARIANT ItemTransferCountMatchesAuditLog
