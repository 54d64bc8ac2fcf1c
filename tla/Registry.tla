------------------------------ MODULE Registry ------------------------------
(***************************************************************************)
(* store.ts: the load-or-create registry of tokens, NFT collections, NFT   *)
(* items and transactions.  Each operator takes the store and returns the  *)
(* store after the call; the record the code returns is then the one       *)
(* stored under the key.                                                   *)
(*                                                                         *)
(* A contract read (erc20.try_name() ...) is answered by the environment   *)
(* with a record [reverted, value]; the answers of one creation are passed *)
(* in as one record with a field per call.                                 *)
(***************************************************************************)
EXTENDS Integers, EntityStore, Decimal

CONSTANT Unknown    \* the name and symbol of a contract that will not tell

\* what `r.reverted ? fallback : r.value` evaluates to
OrElse(r, fallback) == IF r.reverted THEN fallback ELSE r.value

Reverted    == [reverted |-> TRUE, value |-> NULL]
Answer(v)   == [reverted |-> FALSE, value |-> v]

\* The Token built by loadToken from the four contract reads.
NewToken(address, erc20) ==
    LET decimals == OrElse(erc20.decimals, 0)
    IN  [ id                 |-> address,
          name               |-> OrElse(erc20.name, Unknown),
          symbol             |-> OrElse(erc20.symbol, Unknown),
          decimals           |-> decimals,
          eventCount         |-> 0,
          burnEventCount     |-> 0,
          mintEventCount     |-> 0,
          transferEventCount |-> 0,
          totalSupply        |-> IF erc20.totalSupply.reverted
                                 THEN ZeroDec
                                 ELSE ToDecimal(erc20.totalSupply.value, decimals),
          totalBurned        |-> ZeroDec,
          totalMinted        |-> ZeroDec,
          totalTransferred   |-> ZeroDec ]

\* The log call of loadToken reads decimals.value whatever decimals.reverted
\* says: a new token whose contract has no decimals() has the value of a
\* reverted call read.
ReadsRevertedValue(s, address, erc20) ==
    ~Exists(s, "Token", address) /\ erc20.decimals.reverted

\* Mutant of LoadToken: the test `token == null` is missing, and the token
\* is built from the contract at every event.
LoadTokenReadAgain(s, address, erc20) ==
    Save(s, "Token", NewToken(address, erc20))

\* loadToken(address): the contract is read only when the token is new.
LoadToken(s, address, erc20) ==
    IF Exists(s, "Token", address)
    THEN s
    ELSE Save(s, "Token", NewToken(address, erc20))

\* The Nft built by loadNFT from the two contract reads.
NewNft(address, erc721) ==
    [ id                 |-> address,
      name               |-> OrElse(erc721.name, Unknown),
      symbol             |-> OrElse(erc721.symbol, Unknown),
      eventCount         |-> 0,
      burnEventCount     |-> 0,
      mintEventCount     |-> 0,
      transferEventCount |-> 0,
      totalSupply        |-> 0,
      totalBurned        |-> 0,
      totalMinted        |-> 0,
      tokenIds           |-> <<>> ]

\* loadNFT(address)
LoadNFT(s, address, erc721) ==
    IF Exists(s, "Nft", address)
    THEN s
    ELSE Save(s, "Nft", NewNft(address, erc721))

ItemId(address, tokenId) == <<address, tokenId>>

\* The NftItem built by loadNFTItem: no owner, no mint, no burn yet.
NewNftItem(address, tokenId, uri) ==
    [ id                 |-> ItemId(address, tokenId),
      token              |-> address,
      tokenId            |-> tokenId,
      tokenUri           |-> OrElse(uri, ""),
      eventCount         |-> 0,
      transferEventCount |-> 0,
      owner              |-> NULL,
      ownerInventory     |-> NULL,
      minter             |-> NULL,
      mint               |-> NULL,
      burner             |-> NULL,
      burn               |-> NULL ]

\* loadNFTItem(address, tokenId)
LoadNFTItem(s, address, tokenId, uri) ==
    IF Exists(s, "NftItem", ItemId(address, tokenId))
    THEN s
    ELSE Save(s, "NftItem", NewNftItem(address, tokenId, uri))

\* loadTransaction(event): the fields are those of the first event seen in
\* the transaction.  Of the eleven fields copied, the model keeps the ones
\* an event of the model carries.
LoadTransaction(s, event) ==
    IF Exists(s, "Transaction", event.transaction.hash)
    THEN s
    ELSE Save(s, "Transaction",
              [ id          |-> event.transaction.hash,
                blockNumber |-> event.block.number,
                from        |-> event.transaction.from,
                timestamp   |-> event.block.timestamp ])

=============================================================================
