\* Three blocks over three timestamps and up to three Transfer events of two
\* contracts, in any interleaving.
SPECIFICATION Spec
CONSTANTS
    Hashes = {b1, b2, b3}
    MaxTimestamp = 3
    Contracts = {c1, c2}
    Parties = {p1, p2}
    Values = {1, 2}
    MaxTransfers = 3
CHECK_DEADLOCK FALSE
INVARIANT TypeOK
INVARIANT EveryBlockIsKept
INVARIANT LastTransferIsKept
