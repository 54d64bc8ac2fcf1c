# Model-checking the token and NFT indexer

This directory holds TLA+ models of the subgraph mappings under
`src/user-example/`, the TLC configurations that check them, and this
description of what is modelled and what the checks show.  `PROJECT.json`
lists every component, run, mutant, source mapping, finding and hazard in
machine-readable form.

## 1. The system

The mappings turn a stream of decoded chain events into entities of a
queryable store.  The host (a graph-node style runtime) decodes the events,
calls one handler per event, and commits what the handler saved.  A handler
runs alone and to completion; nothing in `src/` is concurrent.  What makes the
code hard is not interleaving but *sequence*: the same few entities are read,
changed and saved again by every event, under keys built from parts of the
event, and the aggregates are right only if every event is classified once
and applied to the right records in the right order.

### Components, their state and their operations

| Component | Source | State it keeps (entity tables) | Operations |
|---|---|---|---|
| Fungible-token dispatcher | `mappings/token.ts` | `BurnEvent`, `MintEvent`, `TransferEvent`; the counters and totals of `Token` | `handleTransfer`, `handleBurn`, `handleMint`; helpers `handleBurnEvent`, `handleMintEvent`, `handleTransferEvent` |
| NFT dispatcher | `mappings/nft.ts` | `NftBurnEvent`, `NftMintEvent`, `NftTransferEvent`; counters and `tokenIds` of `Nft`; owner of `NftItem` | `handleTransfer`; helpers `handleBurnEvent`, `handleMintEvent`, `handleTransferEvent` |
| Registry | `store.ts` | `Token`, `Nft`, `NftItem` | `loadToken`, `loadNFT`, `loadNFTItem` (load-or-create, contract read on creation) |
| Transaction recorder | `store.ts` | `Transaction` | `loadTransaction` (first event of the transaction wins) |
| Balance ledger | `mappings/account.ts` | `Account`, `AccountBalance`, `AccountBalanceSnapshot` | `getOrCreateAccount`, `getOrCreateAccountBalance`, `increaseAccountBalance`, `decreaseAccountBalance`, `saveAccountBalanceSnapshot` |
| Inventory ledger | `mappings/account.ts` | `AccountInventory`, `AccountInventorySnapshot` | `getOrCreateAccountInventory`, `addTokenToAccountInventory`, `removeTokenFromAccountInventory`, `saveAccountInventorySnapshot` |
| Amount converter | `helpers/number.ts` (imported, not in `src/`) | none | `toDecimal`, `ZERO`, `ONE` |
| Entity store | generated schema (not in `src/`) | all tables | `load(type, id)`, `save(entity)` |
| Event delivery | the host (not in `src/`) | position in the chain | delivers events in canonical order, each once |
| Token contract | the chain (not in `src/`) | what every holder has | mint, burn, transfer, each logged as `Transfer`, `Mint` or `Burn` |
| Block example | `ethereum/block/src/mapping.ts` | `MasterChefModel` | `handleBlock` |
| Test-event example | `ethereum/test-event/src/mapping.ts` | `StandardToken` | `handleTransfer` |
| Integration test driver | `tests/.../test.js` | none | runs three shell commands |

### How they interact

Every interaction is a synchronous call on shared store state:

    host --event--> handleTransfer / handleBurn / handleMint            (token.ts, nft.ts)
                       |-- loadToken / loadNFT / loadNFTItem   --> contract reads, Token/Nft/NftItem
                       |-- loadTransaction                     --> Transaction
                       |-- handle{Burn,Mint,Transfer}Event     --> audit record, Token/Nft counters, NftItem owner
                       |-- getOrCreateAccount, increase/decrease, add/remove --> Account, balance / inventory
                       `-- save...Snapshot                     --> snapshot keyed by holding and timestamp

The fungible and the NFT handlers share `Account` and `Transaction`; every
other table belongs to one of them.

### What is hard here

* **Classification is not exclusive.**  `isBurn` and `isMint` are computed
  independently; the audit record is chosen by an `if / else if` chain, the
  ledger blocks by two separate `if`s.  In `nft.ts` `isMint` is also true for
  an item never seen, whatever the addresses.
* **Keys decide identity.**  Balances and inventories are keyed by account and
  token, audit records by transaction and log index, snapshots by holding and
  *block timestamp*.  Two writes that share a key silently become one.
* **Read, change, save, read again.**  A transfer to oneself debits and
  credits the same balance in one handler; the credit is right only because
  it reloads what the debit saved.
* **Aggregates against the log.**  Counters and totals are running sums that
  nothing recomputes; one event counted twice or logged under a used id is
  never noticed.
* **Contract reads happen once.**  A reverted `decimals()` fixes the scale of
  every later amount of the token at zero digits; the supply is read when the
  first event has already happened.
* **Delivery is assumed exact.**  The handlers are not idempotent.

### What makes each component correct

| Component | Properties |
|---|---|
| Token dispatcher | balances add up to minted less burned; counters and totals equal those of the audit log; an event touches one token |
| Balance ledger | one balance per (account, token); every saved balance is stamped; its last snapshot equals it; snapshots of earlier blocks never change |
| NFT dispatcher | an NFT has at most one owner; the owner's inventory holds it and no other inventory does; the collection's `tokenIds` are the live items; supply counts them |
| Inventory ledger | no token id twice in an inventory; last snapshot equals inventory |
| Registry, recorder | one record per key, never re-read from the contract, never re-stamped |
| Amount converter | `toDecimal(v, d)` is exactly `v * 10^-d`; sums are exact |

## 2. Modules

| Module | Models | Kind |
|---|---|---|
| `Decimal` | exact decimals: `ToDecimal`, `DecPlus`, `DecMinus`, canonical form | operators, from the specification |
| `EntityStore` | the store contract: `Load`, `Save`, `Exists`, `EmptyStore` | operators, from the specification |
| `Registry` | `store.ts`: `LoadToken`, `LoadNFT`, `LoadNFTItem`, `LoadTransaction` | operators on the store |
| `AccountLedger` | `account.ts`: accounts, balances, inventories, snapshots | operators on the store |
| `EventStream` | positions of events on the chain and which position may follow which | environment |
| `TokenIndexer` | `token.ts`: one action per exported handler, its properties | state machine |
| `MCTokenIndexer` | values of the constants TLC checks `TokenIndexer` with | model |
| `TokenFeed` | `TokenIndexer` beside a token contract, the log it writes and the host that delivers the log | state machine with fairness |
| `MCTokenFeed` | values of the constants TLC checks `TokenFeed` with | model |
| `NftIndexer` | `nft.ts`: the action `HandleTransfer`, the collection that emits the events, the properties, the mapping to `NftOwnership` | state machine |
| `NftOwnership` | what the NFT index promises: owner, holdings and supply under mint, transfer and burn | abstract specification |
| `MCNftIndexer` | values of the constants TLC checks `NftIndexer` with | model |
| `ExampleMappings` | `block/src/mapping.ts` and `test-event/src/mapping.ts`: `HandleBlock`, `HandleTransfer` | state machine |

### State

The single variable of substance is `store`, a function from entity type to
table; a table is a function from the ids saved so far to the entity last
saved under the id.  `Load` of an absent id is `NULL`, `Save` inserts or
overwrites.  This is the store contract the code consumes and nothing more.
The second variable, `head`, is the position of the last event handled and
belongs to the environment.  `NftIndexer` has a third, `minted`: the owner
each item has on the chain.  It also belongs to the environment (it decides
which events the collection can emit) and the handler never reads it.

Ids are built in the code by joining hex strings with `"-"`.  On fixed-width
addresses and decimal numbers this is injective, so the model uses the tuple
of the parts (`<<account, token>>`, `<<tx, logIndex>>`,
`<<<<account, token>>, timestamp>>`).  The parts that go into a key are
exactly those the code joins: a key that forgets one is a mutant, below.

### Actions

A handler is one action (`HandleTransfer`, `HandleBurn`, `HandleMint`): the
host runs handlers one at a time and commits what each saved.  Inside an
action the code's calls are composed as operators from store to store, in
the order of the code, so that each call sees the saves of the ones before
it:

    registered -> recorded -> audited -> debited -> credited

for `loadToken`, `loadTransaction`, `handle…Event`, the source block and the
destination block of `handleTransfer`; in `NftIndexer`

    registered -> itemized -> recorded -> audited -> removed -> added

with `seen`, the item loaded before `loadNFTItem` creates it, deciding
`isMint`.  The functions of `account.ts` that
return an entity without saving it (`getOrCreateAccount`,
`increaseAccountBalance`, …) are operators that yield the entity; the caller's
`save()` calls are `Save` in `Persist`.

The `if (token != null)` guards are kept (`token # NULL` in the actions,
`token = NULL` in the audit operators).  `loadToken` never returns null, so
they never fail: the "registry-resolution failure" of the specification,
section 7, cannot happen in this code.

An action binds each intermediate store with `\E x \in {e}` rather than
`LET`: the meaning is the same, and TLC computes the value once where it
would expand a `LET` again at every use when it evaluates `ENABLED` for a
fairness condition.

`loadToken` passes `decimals.value` to `log.debug` whether or not the call
reverted (`ReadsRevertedValue`).  What the contract library does then is
not in `src/`: the constant `RevertedValueTraps` says whether reading the
value of a reverted call aborts the handler.  When it does, the guard
`LoadTokenReturns` is false, the action is not enabled, nothing is saved
and the host stays where it is.

### The token contract and the host

`TokenIndexer` alone is driven by any stream of events.  `TokenFeed` puts
it beside what produces the stream, so that the index can be compared with
the truth:

* a **contract** per token, which keeps what every holder has.  A holder
  can spend only what it has.  Every mint, burn and transfer appends to
  `log`, with the holdings right after it.  `token.ts` imports `Transfer`
  from a standard token, `Burn` from a burnable and `Mint` from a mintable
  one, so the ways a contract announces a mint or a burn are constants
  (`MintAnnouncements`, `BurnAnnouncements`): by the `Transfer` from or to
  the zero address, by its own event, or by both in one transaction;
* the **host**, which hands the next entry of the log to the handler the
  manifest names for its kind and moves on (`Deliver`).  A contract read
  during the handler is answered from the contract's state at the entry:
  `totalSupply()`, where the contract has it, is the sum of the holdings,
  and a read that reverts reverts at every block.  `Redeliver` is a host that
  resumes after an interruption without remembering that the last entry
  was handled; `MaxRedelivered` bounds how often.

The contract runs ahead of the host by any number of entries up to
`MaxEvents`.

### The NFT collection

`nft.ts` decides what an event is from the addresses and from what the store
already holds, so what it does depends on which events can reach it.  The
environment of `NftIndexer` is a collection that behaves as ERC-721 requires:
an item without owner can be minted, an owned item can be transferred by its
owner (to itself too) or burned.  Two constants widen it to the cases the
"item never seen" rule exists for:

* `InitialOwners`: who may own an item when indexing starts.  `{zero}` is a
  collection indexed from its first event; all addresses is a collection
  that was in use before.
* `MintSources`: what a mint event names as `from`.  `{zero}` is the
  convention; all addresses is a collection that does not keep it.

### The abstract specification

`NftOwnership` has three variables: `owner` of each item, the items `held`
by each party, the `supply` of each collection; and three actions, `Mint`,
`Transfer` and `Burn` of one item.  `NftIndexer` instantiates it with

    owner[item]    = the owner field of the NftItem, NULL if the item is not stored
    held[party]    = the items listed in the party's AccountInventory entities
                     (for NULL: in the zero address's)
    supply[c]      = totalSupply of the Nft, 0 if the collection is not stored

and `ImplementsOwnership` states that every behaviour of the handler is one
of `NftOwnership` under this mapping.

### Data abstraction

* Addresses, names and token contracts are model values.  The zero address
  is the constant `GENESIS_ADDRESS`.
* A block's number and its timestamp are the same natural number (timestamps
  grow with block numbers); a transaction hash is the transaction's number
  along the chain.
* `Transaction` keeps four of its eleven copied fields; audit records keep
  every field but `asset`, which duplicates `token`.
* Amounts are exact decimals `[mant, scale]` in canonical form; counters are
  naturals.  Nothing overflows: the code uses arbitrary-precision numbers.
* A contract read is answered with `[reverted, value]`; the model checks a
  contract that answers everything, one without `decimals()`, and one that
  answers nothing.
* Logging is left out.

## 3. Runs

| Run | Config | Expect | Properties | Bounds |
|---|---|---|---|---|
| `token_ledger` | `TokenLedger.cfg` | pass | `TypeOK`, `LedgerMatchesSupply`, `AggregatesMatchAuditLog`, `LatestSnapshotMatchesBalance`, `SnapshotsOfEarlierBlocksAreKept`, `EventsTouchOneToken` | 2 tokens, 2 holders + zero address, amount 5, 3 events over ≤ 2 blocks and ≤ 3 transactions |
| `token_feed` | `TokenFeed.cfg` | pass | `SupplyDriftIsFixedAtFirstSight`, `LedgerFollowsChain` | 1 token whose contract starts empty and logs each movement once, 2 holders, amount 5, 4 log entries |
| `token_feed_live` | `TokenFeedLive.cfg` | pass | `EveryLoggedEventIsAudited`, `AuditRecordsAreWriteOnce` | as `token_feed` with 3 entries, one redelivery, a contract with `decimals()`, a library that traps; weak fairness of `Deliver` |
| `token_zero_to_zero` | `TokenZeroToZero.cfg` | violation | `LedgerMatchesSupply` | 1 token, every pair of addresses as source and destination, 2 events |
| `token_supply_drift` | `TokenSupplyDrift.cfg` | violation | `RegistrySupplyFollowsChain` | as `token_feed` |
| `token_logged_twice` | `TokenLoggedTwice.cfg` | violation | `LedgerFollowsChain` | as `token_feed`, with a contract that logs `Mint` and `Transfer`, `Burn` and `Transfer` |
| `token_decimals_trap` | `TokenDecimalsTrap.cfg` | violation | `EveryLoggedEventIsAudited` | as `token_feed_live` without redelivery, with a contract without `decimals()` |
| `nft_inventory` | `NftInventory.cfg` | pass | `TypeOK`, `InventoriesMatchOwners`, `SupplyCountsLiveItems`, `CountersMatchAuditLog`, `LatestSnapshotMatchesInventory`, `InventorySnapshotsOfEarlierBlocksAreKept`, `ItemNamesLastMintAndBurn`, `ImplementsOwnership` | 1 collection indexed from its first event, 2 items, 2 holders, 5 events over ≤ 2 blocks and ≤ 3 transactions |
| `nft_joined_late` | `NftJoinedLate.cfg` | pass | `OwnerFollowsChain`, `OwnerHoldsItem` | items owned by anyone at the start, mints from any source, 4 events |
| `nft_unseen_burn` | `NftUnseenBurn.cfg` | violation | `InventoriesMatchOwners` | items owned by anyone at the start, 2 events |
| `nft_item_transfer_count` | `NftItemTransferCount.cfg` | violation | `ItemTransferCountMatchesAuditLog` | as `nft_inventory`, 3 events |
| `example_mappings` | `ExampleMappings.cfg` | pass | `TypeOK`, `EveryBlockIsKept`, `LastTransferIsKept` | 3 blocks over 3 timestamps, 3 events of 2 contracts |

### What the properties say

* `LedgerMatchesSupply`: for every token, the sum of its balances equals
  `totalMinted - totalBurned`.  It relates the ledger (`account.ts`) to the
  registry (`token.ts`) and holds only if each event's classification, its
  audit branch and its ledger blocks agree.
* `AggregatesMatchAuditLog`: the four counters and three of the totals of a
  token are recomputed from the `BurnEvent`, `MintEvent` and `TransferEvent`
  tables and compared.
* `LatestSnapshotMatchesBalance`: the snapshot keyed by a balance and its
  `modified` time exists, carries the balance's amount and transaction, and
  names an audit record of that transaction.
* `SnapshotsOfEarlierBlocksAreKept` (action property): a step never changes a
  snapshot whose timestamp is earlier than the event's.
* `EventsTouchOneToken` (action property): if a step changes what the store
  holds about one token, it changes nothing about any other.
* `TypeOK`: every entity is saved under its own id with every required field
  set and every decimal canonical; the token handlers write no NFT entity.
* `SupplyDriftIsFixedAtFirstSight` (action property): for every token
  already registered, a step leaves the difference between
  `Token.totalSupply` and the contract's supply (as of the entry the host is
  at, converted with the token's decimals) as it was.  `loadToken` reads
  `totalSupply()` once, at the first event; after that only
  `handleMintEvent` and `handleBurnEvent` move the figure, each by its
  event's amount and with the decimals fixed at the first event.  The
  property ties three things together: that the contract is not read
  again, that every mint and burn reaches exactly one of the two handlers,
  and that a contract without `decimals()` or without `totalSupply()` is
  converted the same way at every event.
* `LedgerFollowsChain`: for every registered token and every holder, the
  `AccountBalance` is what the holder has on the contract as of the entry
  the host is at, converted with the token's decimals.  Where
  `LedgerMatchesSupply` compares the index with itself, this compares it
  with the chain.
* `RegistrySupplyFollowsChain`: `Token.totalSupply` is the contract's supply
  as of the entry the host is at.
* `EveryLoggedEventIsAudited` (liveness): every entry a contract logs
  eventually has its audit record, under the transaction hash and log index
  of the entry.
* `AuditRecordsAreWriteOnce` (action property): no step changes an audit
  record once saved, redelivery included.
* `InventoriesMatchOwners`: an inventory lists a token id once, and lists it
  exactly when the item's owner is the inventory's account; the inventory an
  item names is stored.  It relates `NftItem` (written by `handle…Event`) to
  `AccountInventory` (written by the two blocks of `handleTransfer`).
* `SupplyCountsLiveItems`: `totalSupply` of a collection is the number of its
  items that have an owner, and `tokenIds` lists each of them once.
* `CountersMatchAuditLog`: the counters of a collection and the `eventCount`
  of an item are recomputed from the three NFT audit tables.
* `LatestSnapshotMatchesInventory`, `InventorySnapshotsOfEarlierBlocksAreKept`:
  as for balances.
* `ItemNamesLastMintAndBurn`: an item's `mint` and `minter` are those of the
  latest `NftMintEvent` about it, `burn` and `burner` those of the latest
  `NftBurnEvent`, and the item has an owner exactly when the mint is the
  later of the two.
* `ImplementsOwnership`: each step is one `Mint`, `Transfer` or `Burn` of
  `NftOwnership`, or changes nothing it can see; in particular an event
  changes one item, and nothing is ever held by nobody.
* `OwnerFollowsChain`, `OwnerHoldsItem`: what still holds when the indexer
  did not see the collection's history or a mint looks like a transfer: the
  stored owner of every item seen is the chain's, and that owner's inventory
  lists the item.
* `ItemTransferCountMatchesAuditLog`: an item's `transferEventCount` is the
  number of its `NftTransferEvent` records.
* `EveryBlockIsKept`, `LastTransferIsKept`: the tables of the two example
  mappings against the list of what was delivered.

### What the runs show

`token_ledger` passes (122,851 states).  Its stream includes transfers to
oneself, burns and mints to and from every address, `Burn` and `Mint`
events with the zero address as burner or receiver, balances that go
negative, several logs in one transaction, several transactions in one
block, events of two tokens in any order, and contracts that revert on any
read.  The one pair left out is the `Transfer` from the zero address to the
zero address (`ClassifiablePairs`), which `token_zero_to_zero` takes up.

`token_zero_to_zero` fails as expected, at the first event.  For
`Transfer(0, 0, v)` both `isBurn` and `isMint` are true: the `if`/`else if`
chain of `handleTransfer` writes the `BurnEvent` and lowers `totalSupply`,
and the two balance blocks, which test `isBurn` and `isMint` separately,
then debit and credit the zero address.  The supply has fallen by `v` and
no balance has.  The specification has exactly one of the three paths run
for an event.

`token_feed` passes (18,089 states): beside a contract that is indexed from
its first movement and logs each movement by one event, every balance of
the index is the holder's on the contract as of the entry the host has
reached, while the contract is up to four entries ahead.  The registry's
`totalSupply` is off by whatever the first event left (see
`token_supply_drift`) and by nothing more: no later step changes the
difference, for a contract that answers every read, one without
`decimals()`, and one that answers none, whose `totalSupply` starts at zero
(the fallback of `store.ts` line 29).

`token_feed_live` passes (5,525 states): with weak fairness of `Deliver`
every logged entry is audited, and audit records never change, although the
host may hand an entry to its handler twice.  A second delivery does count
the event again and move the balance again: the handlers have no
deduplication, and the specification (section 5) makes exactly-once
delivery the host's duty.  What the run shows is the part that survives a
redelivery: the audit log.

`token_supply_drift` fails as expected, after one delivery.  `loadToken`
creates the `Token` while the first event is handled and reads
`totalSupply()` at that event's block, where the supply already includes
the event; the handler then applies the amount again.  After the first mint
of 5 the contract's supply is 5 and `Token.totalSupply` is 10.

`token_logged_twice` fails as expected: for a contract that logs
`Mint(to, v)` and `Transfer(0, to, v)` for one mint, `handleMint` and
`handleTransfer` both credit the receiver.  The three handlers are right one
by one; together they are right only for contracts that never announce a
movement twice, which the specification does not require.

`token_decimals_trap` fails as expected, with a behaviour that stutters
forever with the first entry logged and not delivered: the contract has no `decimals()`, the
fallback of line 22 is applied, and line 38 then reads `decimals.value`.
With `RevertedValueTraps = TRUE` the handler aborts before `token.save()`,
and the host, which delivers in order, never gets past the entry.  The
specification says a failed read "never blocks or aborts the overall event
handling".  Whether the library traps is a fact outside `src/`; the run
shows what follows if it does, and `token_feed_live` that a contract with
`decimals()` is not affected.

`nft_inventory` passes (115,009 states): from its first event on, the
handler keeps owners, inventories, live ids, supply and each item's history
in step through every sequence of five mints, transfers, transfers to
oneself, burns and mints after a burn, with `tokenURI()`, `name()` and
`symbol()` answering or reverting, and each step is one step of
`NftOwnership`.  `nft_joined_late` passes: without the history, and with
mints that look like transfers, the owner of every item seen is still right
and is held by its owner.

`nft_unseen_burn` fails as expected: the burn of an item the store has no
record of is `isBurn` and, by the "never seen" rule, `isMint`.  The audit
chain runs `handleBurnEvent`, which takes `totalSupply` to -1, and the block
`if (isTransfer || isMint)` then lists the burned item in the inventory of
the zero address.  The specification has one handler per event and the
destination updated for a mint or a transfer only.

`nft_item_transfer_count` fails as expected: `handleTransferEvent` sets
`item.transferEventCount` to the *collection's* counter plus one, after
raising that counter; the first transfer of an item in a fresh collection
leaves it at 2.

### Known and not checked

The models reach three more behaviours that no run of the list above
checks; they follow from the code by the same definitions, and the pass
runs are configured around them.

* Two changes of one balance in one block share a snapshot id, and the
  second replaces the first: snapshots are not append-only within a block.
  `SnapshotsOfEarlierBlocksAreKept` and `LatestSnapshotMatchesBalance` are
  what does hold.
* In a collection that announces mints with a source other than the zero
  address, an item minted again after its burn is taken for a transfer;
  `SupplyCountsLiveItems` is checked for collections that keep the
  convention (`StandardMints`) only.
* A holder whose tokens arrived without an event, or before indexing
  started, gets a negative balance when spending them;
  `LedgerFollowsChain` is checked for a contract indexed from its first
  movement (`NoPremine`) only.

### Bounds, and why they are enough

* `MaxEvents = 3` (`token_ledger`): every property relates the state to at
  most the two events before it (a collision needs two events, a double
  count two, a mint–transfer–burn sequence three).
* `MaxBlock = 2`, `MaxTx = 3`, `MaxLog = 2`: enough for three events in one
  transaction, in three transactions of a block, or across two blocks.
* Two holders and the zero address give every kind of pair: mint, burn,
  transfer, transfer to oneself.  Holders and tokens are symmetric (they
  occur only as keys and fields); the sender of transactions is a separate
  address so that symmetry is sound.  The liveness run uses no symmetry.
* Amount 5 with one fractional digit is `0.5`, and twice that is `1`:
  sums land on both sides of the canonical form and renormalise.
* `token_feed`: four log entries let the contract be four ahead of the
  host, and give mint, transfer, burn and one more; a holder must have
  received before it spends, so shorter logs are mostly mints.  The
  violations appear after one and two deliveries.
* `token_feed_live`: three entries and one redelivery; the liveness
  property is per entry, and an entry is held up only by the one before.
  The contract answers (`WithDecimals`, `WithoutDecimals`) are one profile
  per run: with several, the handler of an entry would count as enabled
  through any of them.
* NFT runs: two items and two holders give transfers between holders, to
  oneself, and events of one item between those of another; five events
  cover mint, transfer, burn, second mint and one more.  The violations
  need one and two events.
* Deadlock checking is off where the stream is bounded: the handlers are
  passive, and a stream that has delivered its last event is a legitimate
  end.

### Mutants

Every property of a passing run is shown to be able to fail: one definition
that models code is replaced by a plausible bug and the run must then report
the property violated.

| Property | Mutated definition | Bug |
|---|---|---|
| `TypeOK` | `Stamped` | the transaction is not stamped on the balance |
| `LedgerMatchesSupply` | `GetOrCreateAccountBalance` | the stored balance is not returned; every change starts from zero |
| `AggregatesMatchAuditLog` | `EventId` | the log index is missing from the audit id |
| `LatestSnapshotMatchesBalance` | `DebitSource` | the snapshot is taken before the debit |
| `SnapshotsOfEarlierBlocksAreKept` | `SnapshotId` | the timestamp is missing from the snapshot id |
| `EventsTouchOneToken` | `HoldingId` | the token is missing from the balance id |
| `SupplyDriftIsFixedAtFirstSight` | `LoadToken` | the test `token == null` is missing: the token is built from the contract at every event |
| `LedgerFollowsChain` | `DebitSource` | the snapshot of the debited balance is saved, the balance is not |
| `EveryLoggedEventIsAudited` | `LoadTokenReturns` | `loadToken` returns only for a contract that has a name |
| `AuditRecordsAreWriteOnce` | `EventId` | the log index is missing from the audit id |
| `TypeOK` (NFT) | `Stamped` | the transaction is not stamped on the inventory |
| `InventoriesMatchOwners` | `BurnedItem` | a burned item keeps its owner |
| `SupplyCountsLiveItems` | `MintedInto` | a minted id is not added to `tokenIds` |
| `CountersMatchAuditLog` | `EventId` | the log index is missing from the audit id |
| `LatestSnapshotMatchesInventory` | `Persist` | the snapshot is taken of the inventory as it was stored before |
| `InventorySnapshotsOfEarlierBlocksAreKept` | `SnapshotId` | the timestamp is missing from the snapshot id |
| `ItemNamesLastMintAndBurn` | `BurnedItem` | the burn is not noted on the item |
| `ImplementsOwnership` | `RemoveFromSource` | the source's inventory is saved without removing the item |
| `OwnerFollowsChain` | `BurnedItem` | a burned item keeps its owner |
| `OwnerHoldsItem` | `AddToDestination` | the destination's inventory is saved without the item |
| `TypeOK` (examples) | `HandleBlock` | the entity is keyed by timestamp |
| `EveryBlockIsKept` | `HandleBlock` | the entity's time is the block's number |
| `LastTransferIsKept` | `HandleTransfer` | an existing entity is kept |

### Fairness and liveness

The code has no step of its own: it acts when the host calls it.  The one
fairness condition is therefore the host's, `WF_feedVars(Deliver)` in
`TokenFeed`: if the next entry of the log can be handled, it eventually is.
Weak fairness is enough and is what the system gives: the host delivers
every event of the chain in order (specification, section 5), `Deliver` for
the entry after `head` stays enabled until it is taken (nothing but
`Deliver` moves `head`, and the contracts only append), and a handler that
starts returns, being straight-line code over a finite store.  No fairness
is assumed of the contracts: a chain on which nothing more happens is a
legitimate behaviour.

`Deliver` is enabled only if the handler runs to its end.  That is where
liveness can fail, and `token_decimals_trap` shows it failing: an entry
whose handler aborts is never passed.

## 4. Plan

Order of work, most important behaviour first.

1. **Fungible tokens** (done): `Decimal`, `EntityStore`, `Registry`,
   `AccountLedger`, `EventStream`, `TokenIndexer`.
2. **NFT collections** (done): `NftIndexer` for `nft.ts` on the same store,
   with a collection as environment that the indexer may join late.
3. **What the NFT indexer promises** (done): `NftOwnership` and the
   refinement `ImplementsOwnership`.
4. **Small parts** (done): `ExampleMappings`.
5. **The token contract beside the indexer** (done): `TokenFeed`, with the
   contract's holdings as ground truth: `totalSupply` read at first sight,
   movements announced by two events, the index behind the chain.
6. **Delivery faults** (done): redelivery after an interruption, the trap
   on `decimals.value` in `loadToken`, liveness of delivery under weak
   fairness.
7. **History properties of the NFT index** (done): inventory snapshots of
   earlier blocks are kept; `minter`, `mint`, `burner` and `burn` of an item
   name the audit records of its last mint and burn.
8. **An abstract fungible ledger**: balances under mint, transfer and burn
   as a specification of its own for `TokenIndexer` to implement, as
   `NftOwnership` is for `NftIndexer`.  `LedgerFollowsChain` states the
   same relation as an invariant against the contract's holdings.
9. **An NFT feed**: the collection of `NftIndexer` with a log that runs
   ahead of the host, for the liveness and redelivery questions
   `TokenFeed` asks of `token.ts`.

## 5. Not modelled

* The integration test driver (`test.js`): three shell commands.
* The host: decoding, scheduling, commit, reorganisations.  Only its
  contract with the handlers is modelled (`EventStream`, `EntityStore`,
  and `Deliver` and `Redeliver` of `TokenFeed`).
* The two handlers on one store.  `token.ts` and `nft.ts` lie in two
  example directories (`user-example/ethereum/...` and
  `user-example/harmony/...`) and no manifest under `src/` deploys them
  together.  Where they are, they share `Account` and `Transaction` only,
  both written by load-or-create with the same fields; every other table
  belongs to one handler (`TypeOK` of each module: it writes no entity of
  the other).
* What `CallResult.value` does for a reverted call: library code outside
  `src/`, a constant of the model.
* Logging, and entity fields that no handler reads back (`type`, `asset`,
  `address`, and seven of the transaction's fields).
