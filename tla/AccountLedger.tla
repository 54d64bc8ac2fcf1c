---------------------------- MODULE AccountLedger ----------------------------
(***************************************************************************)
(* mappings/account.ts: accounts, the balance an account holds of a        *)
(* fungible token, the inventory it holds of an NFT collection, and the    *)
(* snapshots taken of both.                                                *)
(*                                                                         *)
(* The get-or-create functions and the mutators return an entity and save  *)
(* nothing: the caller stamps and saves it.  They are operators on the     *)
(* store that yield that entity.  Only the two snapshot functions save,    *)
(* and they yield the store after the save.                                *)
(***************************************************************************)
EXTENDS Integers, Sequences, EntityStore, Decimal

\* getOrCreateAccount(accountAddress)
GetOrCreateAccount(s, accountAddress) ==
    IF Exists(s, "Account", accountAddress)
    THEN Load(s, "Account", accountAddress)
    ELSE [id |-> accountAddress, address |-> accountAddress]

\* Mutant of HoldingId: the token is left out of the key.
HoldingIdOfAccount(account, token) == <<account.id, account.id>>

\* account.id + "-" + token.id, for balances and for inventories
HoldingId(account, token) == <<account.id, token.id>>

NewAccountBalance(account, token) ==
    [ id          |-> HoldingId(account, token),
      account     |-> account.id,
      token       |-> token.id,
      amount      |-> ZeroDec,
      block       |-> NULL,
      modified    |-> NULL,
      transaction |-> NULL ]

\* Mutant of GetOrCreateAccountBalance: the early return of the stored
\* balance is dropped.
AlwaysNewAccountBalance(s, account, token) == NewAccountBalance(account, token)

\* getOrCreateAccountBalance(account, token)
GetOrCreateAccountBalance(s, account, token) ==
    IF Exists(s, "AccountBalance", HoldingId(account, token))
    THEN Load(s, "AccountBalance", HoldingId(account, token))
    ELSE NewAccountBalance(account, token)

\* increaseAccountBalance(account, token, amount)
IncreaseAccountBalance(s, account, token, amount) ==
    [GetOrCreateAccountBalance(s, account, token)
        EXCEPT !.amount = DecPlus(@, amount)]

\* decreaseAccountBalance(account, token, amount): no floor at zero
DecreaseAccountBalance(s, account, token, amount) ==
    [GetOrCreateAccountBalance(s, account, token)
        EXCEPT !.amount = DecMinus(@, amount)]

\* Mutant of SnapshotId: the timestamp is left out of the key.
SnapshotIdOfHolding(holding, event) == <<holding.id, 0>>

\* balance.id + "-" + event.block.timestamp, for both kinds of snapshot
SnapshotId(holding, event) == <<holding.id, event.block.timestamp>>

\* saveAccountBalanceSnapshot(balance, eventId, event, tx)
SaveAccountBalanceSnapshot(s, balance, eventId, event, tx) ==
    Save(s, "AccountBalanceSnapshot",
         [ id          |-> SnapshotId(balance, event),
           account     |-> balance.account,
           token       |-> balance.token,
           amount      |-> balance.amount,
           block       |-> event.block.number,
           transaction |-> tx.id,
           timestamp   |-> event.block.timestamp,
           event       |-> eventId ])

\* getOrCreateAccountInventory(account, token)
GetOrCreateAccountInventory(s, account, token) ==
    IF Exists(s, "AccountInventory", HoldingId(account, token))
    THEN Load(s, "AccountInventory", HoldingId(account, token))
    ELSE [ id          |-> HoldingId(account, token),
           account     |-> account.id,
           token       |-> token.id,
           tokenIds    |-> <<>>,
           block       |-> NULL,
           modified    |-> NULL,
           transaction |-> NULL ]

\* tokenIds.filter(createTokenFilter(tokenId)): every occurrence goes
WithoutToken(tokenIds, tokenId) ==
    SelectSeq(tokenIds, LAMBDA held : held # tokenId)

\* addTokenToAccountInventory(account, token, item): appends, held or not
AddTokenToAccountInventory(s, account, token, item) ==
    [GetOrCreateAccountInventory(s, account, token)
        EXCEPT !.tokenIds = Append(@, item.tokenId)]

\* removeTokenFromAccountInventory(account, token, item)
RemoveTokenFromAccountInventory(s, account, token, item) ==
    [GetOrCreateAccountInventory(s, account, token)
        EXCEPT !.tokenIds = WithoutToken(@, item.tokenId)]

\* saveAccountInventorySnapshot(balance, eventId, event, tx)
SaveAccountInventorySnapshot(s, inventory, eventId, event, tx) ==
    Save(s, "AccountInventorySnapshot",
         [ id          |-> SnapshotId(inventory, event),
           account     |-> inventory.account,
           token       |-> inventory.token,
           tokenIds    |-> inventory.tokenIds,
           block       |-> event.block.number,
           transaction |-> tx.id,
           timestamp   |-> event.block.timestamp,
           event       |-> eventId ])

=============================================================================
