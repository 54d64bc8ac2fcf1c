\* One collection that has items and owners when indexing starts and names
\* any source in a mint, two items, two holders, up to four events: the
\* owner of every item seen.
SPECIFICATION Spec
CONSTANTS
    NULL = NULL
    Unknown = Unknown
    GENESIS_ADDRESS = Zero
    Collections = {nftA}
    TokenIds = {1, 2}
    Holders = {h1, h2}
    Senders = {sender}
    Names = {named}
    Uris = {uri}
    MaxEvents = 4
    MaxBlock = 2
    MaxTx = 2
    MaxLog = 1
    InitialOwners <- JoinedLate
    MintSources <- AnyMints
    Erc721Answers <- Erc721AnswersChecked
    UriAnswers <- UriAnswersChecked
SYMMETRY HolderSymmetry
CHECK_DEADLOCK FALSE
INVARIANT OwnerFollowsChain
INVARIANT OwnerHoldsItem
