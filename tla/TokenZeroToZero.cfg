\* A Transfer may also go from the zero address to the zero address: it is
\* audited as a burn, and debited and credited.
SPECIFICATION Spec
CONSTANTS
    NULL = NULL
    Unknown = Unknown
    GENESIS_ADDRESS = Zero
    Tokens = {tokA}
    Holders = {h1, h2}
    Senders = {sender}
    Names = {named}
    Values = {5}
    MaxEvents = 2
    MaxBlock = 2
    MaxTx = 3
    MaxLog = 2
    TransferPairs <- AllPairs
    Erc20Answers <- AnswersChecked
    RevertedValueTraps = FALSE
SYMMETRY HolderSymmetry
CHECK_DEADLOCK FALSE
INVARIANT LedgerMatchesSupply
