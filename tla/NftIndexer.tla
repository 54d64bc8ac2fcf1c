----------------------------- MODULE NftIndexer -----------------------------
(***************************************************************************)
(* mappings/nft.ts: the handler of the Transfer events of an NFT           *)
(* collection.                                                             *)
(*                                                                         *)
(* handleTransfer classifies the event as burn (to the zero address), mint *)
(* (from the zero address, or of an item the store has never seen) or      *)
(* transfer, writes the audit record, updates the collection and the item, *)
(* then takes the item out of the source's inventory and puts it into the  *)
(* destination's, snapshotting each.                                       *)
(*                                                                         *)
(* The events come from a collection that behaves as ERC-721 does: an item *)
(* has at most one owner, only an owner's item is transferred or burned,   *)
(* only an item without owner is minted.  minted records that owner (the   *)
(* zero address for none); it is the environment's state, not the          *)
(* indexer's, and the handler never reads it.  Indexing may start on a     *)
(* collection that already has items (InitialOwners), and a collection may *)
(* announce a mint with another source than the zero address (MintSources),*)
(* the two cases the "item never seen" rule of handleTransfer is for.      *)
(***************************************************************************)
EXTENDS Integers, Sequences, FiniteSets, SequencesExt,
        Registry, AccountLedger, EventStream

CONSTANTS
    Collections,        \* addresses of the NFT contracts indexed
    TokenIds,           \* token ids of their items
    Holders,            \* addresses that hold items
    GENESIS_ADDRESS,    \* the zero address
    InitialOwners,      \* who may own an item when indexing starts
    MintSources,        \* whom the Transfer event of a mint may name as `from`
    Names,              \* what name() and symbol() answer
    Uris,               \* what tokenURI() answers
    Erc721Answers,      \* the answers a collection may give when first read
    UriAnswers          \* the answers tokenURI() may give

Addresses == Holders \cup {GENESIS_ADDRESS}
Items     == Collections \X TokenIds

ASSUME /\ GENESIS_ADDRESS \notin Holders
       /\ InitialOwners \subseteq Addresses
       /\ MintSources \subseteq Addresses
       /\ TokenIds \subseteq Nat

VARIABLES
    store,      \* the entity store
    head,       \* the position of the last event handled
    minted      \* the owner of each item on the chain, zero address if none

vars == <<store, head, minted>>

Init ==
    /\ store = EmptyStore
    /\ head = BeforeFirst
    /\ minted \in [Items -> InitialOwners]

-----------------------------------------------------------------------------
(* The helpers of nft.ts *)

\* Mutant of EventId: the log index is left out of the id.
EventIdOfTransaction(event) == <<event.transaction.hash, 0>>

\* event.transaction.hash.toHex() + "-" + event.logIndex.toString()
EventId(event) == <<event.transaction.hash, event.logIndex>>

\* what the three audit records have in common
AuditRecord(type, item, event, tx) ==
    [ id          |-> EventId(event),
      type        |-> type,
      token       |-> event.address,
      item        |-> item.id,
      tokenId     |-> item.tokenId,
      block       |-> event.block.number,
      timestamp   |-> event.block.timestamp,
      transaction |-> tx.id ]

\* createTokenFilter of nft.ts, the copy of the one in account.ts
LiveWithout(tokenIds, tokenId) == WithoutToken(tokenIds, tokenId)

\* Mutant of BurnedItem: the item keeps its owner.
BurnedItemKeepingOwner(item, burner, burnEvent) ==
    [item EXCEPT !.eventCount = @ + 1,
                 !.burner     = burner,
                 !.burn       = burnEvent.id]

\* Mutant of BurnedItem: the burn is not noted on the item.
BurnedItemUnrecorded(item, burner, burnEvent) ==
    [item EXCEPT !.eventCount     = @ + 1,
                 !.owner          = NULL,
                 !.ownerInventory = NULL]

\* what handleBurnEvent makes of the item: nobody's
BurnedItem(item, burner, burnEvent) ==
    [item EXCEPT !.eventCount     = @ + 1,
                 !.owner          = NULL,
                 !.ownerInventory = NULL,
                 !.burner         = burner,
                 !.burn           = burnEvent.id]

\* handleBurnEvent: the NftBurnEvent, the collection's counters and live
\* ids, the item without owner
HandleBurnEvent(s, token, item, burner, event, tx) ==
    LET burnEvent == AuditRecord("BURN", item, event, tx) @@
                     [sender |-> event.transaction.from, burner |-> burner]
        logged    == Save(s, "NftBurnEvent", burnEvent)
        counted   == [token EXCEPT !.eventCount     = @ + 1,
                                   !.burnEventCount = @ + 1,
                                   !.totalSupply    = @ - 1,
                                   !.totalBurned    = @ + 1,
                                   !.tokenIds = LiveWithout(@, event.params.tokenId)]
    IN  IF token = NULL THEN logged
        ELSE Save(Save(logged, "Nft", counted),
                  "NftItem", BurnedItem(item, burner, burnEvent))

\* Mutant of MintedInto: the minted id is not added to the live ids.
MintedIntoUnlisted(token, item) ==
    [token EXCEPT !.eventCount     = @ + 1,
                  !.mintEventCount = @ + 1,
                  !.totalSupply    = @ + 1,
                  !.totalMinted    = @ + 1]

\* what handleMintEvent makes of the collection: one more live item
MintedInto(token, item) ==
    [token EXCEPT !.eventCount     = @ + 1,
                  !.mintEventCount = @ + 1,
                  !.totalSupply    = @ + 1,
                  !.totalMinted    = @ + 1,
                  !.tokenIds       = Append(@, item.tokenId)]

\* handleMintEvent: the NftMintEvent, the collection's counters and live
\* ids, the item owned by the destination
HandleMintEvent(s, token, item, destination, event, tx) ==
    LET mintEvent == AuditRecord("MINT", item, event, tx) @@
                     [ sender      |-> event.transaction.from,
                       destination |-> destination,
                       minter      |-> event.transaction.from ]
        logged    == Save(s, "NftMintEvent", mintEvent)
        listed    == Save(logged, "Nft", MintedInto(token, item))
        destinationAccount == GetOrCreateAccount(listed, destination)
        destinationAccountInventory ==
            GetOrCreateAccountInventory(listed, destinationAccount, token)
        owned     == [item EXCEPT !.eventCount     = @ + 1,
                                  !.minter         = event.transaction.from,
                                  !.mint           = mintEvent.id,
                                  !.owner          = destinationAccount.id,
                                  !.ownerInventory = destinationAccountInventory.id]
    IN  IF token = NULL THEN logged ELSE Save(listed, "NftItem", owned)

\* handleTransferEvent: the NftTransferEvent, the collection's counters, the
\* item owned by the destination.  The item's transferEventCount is set
\* from the collection's, which line 193 has already raised.
HandleTransferEvent(s, token, item, source, destination, event, tx) ==
    LET transferEvent == AuditRecord("TRANSFER", item, event, tx) @@
                         [ sender      |-> source,
                           source      |-> source,
                           destination |-> destination ]
        logged    == Save(s, "NftTransferEvent", transferEvent)
        counted   == [token EXCEPT !.eventCount         = @ + 1,
                                   !.transferEventCount = @ + 1]
        listed    == Save(logged, "Nft", counted)
        destinationAccount == GetOrCreateAccount(listed, destination)
        destinationAccountInventory ==
            GetOrCreateAccountInventory(listed, destinationAccount, token)
        owned     == [item EXCEPT !.eventCount         = @ + 1,
                                  !.transferEventCount = counted.transferEventCount + 1,
                                  !.owner              = destinationAccount.id,
                                  !.ownerInventory     = destinationAccountInventory.id]
    IN  IF token = NULL THEN logged ELSE Save(listed, "NftItem", owned)

\* Mutant of Stamped: the transaction is not set.
StampedWithoutTransaction(accountInventory, event, tx) ==
    [accountInventory EXCEPT !.block    = event.block.number,
                             !.modified = event.block.timestamp]

\* accountInventory.block = ...; .modified = ...; .transaction = ...
Stamped(accountInventory, event, tx) ==
    [accountInventory EXCEPT !.block       = event.block.number,
                             !.modified    = event.block.timestamp,
                             !.transaction = tx.id]

\* Mutant of Persist: the snapshot is taken of the inventory as stored
\* before the save.
PersistStaleSnapshot(s, account, accountInventory, eventId, event, tx) ==
    SaveAccountInventorySnapshot(
        Save(Save(s, "Account", account), "AccountInventory", accountInventory),
        Stamped(GetOrCreateAccountInventory(s, account, [id |-> accountInventory.token]),
                event, tx),
        eventId, event, tx)

\* account.save(); accountInventory.save(); saveAccountInventorySnapshot(...)
Persist(s, account, accountInventory, eventId, event, tx) ==
    SaveAccountInventorySnapshot(
        Save(Save(s, "Account", account), "AccountInventory", accountInventory),
        accountInventory, eventId, event, tx)

\* Mutant of RemoveFromSource: the inventory is saved as it was loaded.
RemoveFromSourceStillListed(s, source, token, item, eventId, event, tx) ==
    LET sourceAccount == GetOrCreateAccount(s, source)
    IN  Persist(s, sourceAccount,
                Stamped(GetOrCreateAccountInventory(s, sourceAccount, token),
                        event, tx),
                eventId, event, tx)

\* the block "if (isTransfer || isBurn)": the item leaves the source
RemoveFromSource(s, source, token, item, eventId, event, tx) ==
    LET sourceAccount == GetOrCreateAccount(s, source)
        accountInventory ==
            Stamped(RemoveTokenFromAccountInventory(s, sourceAccount, token, item),
                    event, tx)
    IN  Persist(s, sourceAccount, accountInventory, eventId, event, tx)

\* Mutant of AddToDestination: the inventory is saved as it was loaded.
AddToDestinationUnlisted(s, destination, token, item, eventId, event, tx) ==
    LET destinationAccount == GetOrCreateAccount(s, destination)
    IN  Persist(s, destinationAccount,
                Stamped(GetOrCreateAccountInventory(s, destinationAccount, token),
                        event, tx),
                eventId, event, tx)

\* the block "if (isTransfer || isMint)": the item reaches the destination
AddToDestination(s, destination, token, item, eventId, event, tx) ==
    LET destinationAccount == GetOrCreateAccount(s, destination)
        accountInventory ==
            Stamped(AddTokenToAccountInventory(s, destinationAccount, token, item),
                    event, tx)
    IN  Persist(s, destinationAccount, accountInventory, eventId, event, tx)

-----------------------------------------------------------------------------
(* The handler *)

\* handleTransfer(event), the contract answering erc721 and uri if read
HandleTransfer(event, erc721, uri) ==
    LET registered == LoadNFT(store, event.address, erc721)
        token      == Load(registered, "Nft", event.address)
        tokenId    == event.params.tokenId
        seen       == Load(registered, "NftItem", ItemId(event.address, tokenId))
        isBurn     == event.params.to = GENESIS_ADDRESS
        isMint     == event.params.from = GENESIS_ADDRESS \/ seen = NULL
        itemized   == LoadNFTItem(registered, event.address, tokenId, uri)
        item       == Load(itemized, "NftItem", ItemId(event.address, tokenId))
        isTransfer == ~isBurn /\ ~isMint
        recorded   == LoadTransaction(itemized, event)
        tx         == Load(recorded, "Transaction", event.transaction.hash)
        audited    ==
            CASE isBurn ->
                   HandleBurnEvent(recorded, token, item,
                                   event.params.from, event, tx)
              [] isMint /\ ~isBurn ->
                   HandleMintEvent(recorded, token, item,
                                   event.params.to, event, tx)
              [] isTransfer ->
                   HandleTransferEvent(recorded, token, item,
                                       event.params.from, event.params.to,
                                       event, tx)
        removed    ==
            IF isTransfer \/ isBurn
            THEN RemoveFromSource(audited, event.params.from, token, item,
                                  EventId(event), event, tx)
            ELSE audited
        added      ==
            IF isTransfer \/ isMint
            THEN AddToDestination(removed, event.params.to, token, item,
                                  EventId(event), event, tx)
            ELSE removed
    IN  /\ token # NULL
        /\ store' = added

-----------------------------------------------------------------------------
(* The environment: what the collection does next, the event it emits for  *)
(* it, and its answers should the handler read it.                         *)

Erc721AnswersWanted(address) ==
    IF Exists(store, "Nft", address)
    THEN {CHOOSE erc721 \in Erc721Answers : TRUE}
    ELSE Erc721Answers

UriAnswersWanted(address, tokenId) ==
    IF Exists(store, "NftItem", ItemId(address, tokenId))
    THEN {CHOOSE uri \in UriAnswers : TRUE}
    ELSE UriAnswers

\* The collection moves the item from `from` to `to` and the handler sees
\* the Transfer event of it.
Delivered(address, tokenId, from, to) ==
    \E p \in Positions :
        /\ Follows(head, p)
        /\ head' = p
        /\ minted' = [minted EXCEPT ![<<address, tokenId>>] = to]
        /\ \E erc721 \in Erc721AnswersWanted(address),
              uri \in UriAnswersWanted(address, tokenId) :
              HandleTransfer(
                  EventAt(p, address,
                          [from |-> from, to |-> to, tokenId |-> tokenId]),
                  erc721, uri)

\* an item without owner is minted to a holder; a collection that keeps
\* the convention names the zero address as the source
MintDelivered ==
    \E item \in Items, from \in MintSources, to \in Holders :
        /\ minted[item] = GENESIS_ADDRESS
        /\ Delivered(item[1], item[2], from, to)

\* an owner passes the item on, possibly to itself
TransferDelivered ==
    \E item \in Items, to \in Holders :
        /\ minted[item] # GENESIS_ADDRESS
        /\ Delivered(item[1], item[2], minted[item], to)

\* an owner burns the item
BurnDelivered ==
    \E item \in Items :
        /\ minted[item] # GENESIS_ADDRESS
        /\ Delivered(item[1], item[2], minted[item], GENESIS_ADDRESS)

Next == MintDelivered \/ TransferDelivered \/ BurnDelivered

Spec == Init /\ [][Next]_vars

-----------------------------------------------------------------------------
(* Types *)

EventIds   == (1..MaxTx) \X (0..MaxLog)
HoldingIds == Addresses \X Collections
AuditTypes == {"NftBurnEvent", "NftMintEvent", "NftTransferEvent"}
OrNull(S)  == S \cup {NULL}

IsNft(r) ==
    /\ r.id \in Collections
    /\ r.name \in Names \cup {Unknown} /\ r.symbol \in Names \cup {Unknown}
    /\ \A counter \in {r.eventCount, r.burnEventCount, r.mintEventCount,
                        r.transferEventCount, r.totalBurned, r.totalMinted} :
          counter \in Nat
    /\ r.totalSupply \in Int
    /\ r.tokenIds \in Seq(TokenIds)

IsItem(r) ==
    /\ r.id = ItemId(r.token, r.tokenId) /\ r.id \in Items
    /\ r.tokenUri \in Uris \cup {""}
    /\ r.eventCount \in Nat /\ r.transferEventCount \in Nat
    /\ r.owner \in OrNull(Addresses) /\ r.ownerInventory \in OrNull(HoldingIds)
    /\ r.minter \in OrNull(Senders) /\ r.mint \in OrNull(EventIds)
    /\ r.burner \in OrNull(Addresses) /\ r.burn \in OrNull(EventIds)

IsHolding(r) ==
    /\ r.account \in Addresses /\ r.token \in Collections
    /\ r.tokenIds \in Seq(TokenIds)
    /\ r.block \in 1..MaxBlock /\ r.transaction \in 1..MaxTx

WellFormed(type, r) ==
    CASE type = "Nft"              -> IsNft(r)
      [] type = "NftItem"          -> IsItem(r)
      [] type = "Account"          -> r.id \in Addresses /\ r.address = r.id
      [] type = "AccountInventory" ->
            IsHolding(r) /\ r.id = <<r.account, r.token>> /\ r.modified = r.block
      [] type = "AccountInventorySnapshot" ->
            IsHolding(r) /\ r.id = <<<<r.account, r.token>>, r.timestamp>>
                         /\ r.timestamp = r.block /\ r.event \in EventIds
      [] type = "Transaction"      ->
            r.id \in 1..MaxTx /\ r.blockNumber \in 1..MaxBlock /\ r.from \in Senders
      [] type \in AuditTypes       ->
            /\ r.id \in EventIds /\ <<r.token, r.tokenId>> = r.item
            /\ r.item \in Items /\ r.block \in 1..MaxBlock
            /\ r.transaction = r.id[1]
      [] OTHER                     -> FALSE

\* The type invariant: every entity is saved under its own id with the
\* fields of its schema set (an inventory is never saved before
\* handleTransfer stamped it with the block, the time and the transaction),
\* and the NFT handler writes no entity of the fungible-token schema.
TypeOK ==
    /\ head \in Positions \cup {BeforeFirst}
    /\ minted \in [Items -> Addresses]
    /\ DOMAIN store = EntityTypes
    /\ \A type \in EntityTypes : \A id \in Ids(store, type) :
          /\ store[type][id].id = id
          /\ WellFormed(type, store[type][id])

-----------------------------------------------------------------------------
(* Properties *)

ItemsOf(s, token) == {id \in Ids(s, "NftItem") : s.NftItem[id].token = token}

LiveItemsOf(s, token) == {id \in ItemsOf(s, token) : s.NftItem[id].owner # NULL}

\* The store's owner of an item is the chain's.  Whatever the handler took
\* the event for (the mint of an item first seen in a transfer included),
\* handleBurnEvent must leave the item without owner and handleMintEvent
\* and handleTransferEvent with the one the event names.
OwnerFollowsChain ==
    \A id \in Ids(store, "NftItem") :
        store.NftItem[id].owner
            = IF minted[id] = GENESIS_ADDRESS THEN NULL ELSE minted[id]

\* An item's owner holds it: the inventory the item names exists, is the
\* owner's inventory of the collection, and lists the token id.  The item
\* is saved by handleMintEvent or handleTransferEvent before handleTransfer
\* has created the inventory, so it holds only at the end of the handler.
OwnerHoldsItem ==
    \A id \in Ids(store, "NftItem") :
        LET item == store.NftItem[id]
        IN  item.owner # NULL =>
              /\ item.ownerInventory = <<item.owner, item.token>>
              /\ Exists(store, "AccountInventory", item.ownerInventory)
              /\ item.tokenId
                    \in ToSet(store.AccountInventory[item.ownerInventory].tokenIds)

\* The inventories are the owners' view of the items: an inventory lists a
\* token id once, and lists it exactly when the item's owner is the
\* inventory's account.  It needs handleTransfer to remove the item from
\* the account that held it and to add it to no account but the new owner.
InventoriesMatchOwners ==
    /\ OwnerHoldsItem
    /\ \A id \in Ids(store, "AccountInventory") :
          LET inventory == store.AccountInventory[id]
          IN  /\ IsInjective(inventory.tokenIds)
              /\ \A tokenId \in ToSet(inventory.tokenIds) :
                    LET item == Load(store, "NftItem",
                                     ItemId(inventory.token, tokenId))
                    IN  item # NULL /\ item.owner = inventory.account

\* The supply of a collection is its live items: totalSupply counts the
\* items that have an owner, and tokenIds lists each of them once.
\* handleMintEvent and handleBurnEvent keep the counter and the list in
\* step with the owner they give the item.
SupplyCountsLiveItems ==
    \A id \in Ids(store, "Nft") :
        LET token == store.Nft[id]
        IN  /\ token.totalSupply = Cardinality(LiveItemsOf(store, id))
            /\ IsInjective(token.tokenIds)
            /\ ToSet(token.tokenIds)
                 = {store.NftItem[item].tokenId : item \in LiveItemsOf(store, id)}

AuditsOf(s, type, token) == {id \in Ids(s, type) : s[type][id].token = token}

AuditsOfItem(s, type, item) == {id \in Ids(s, type) : s[type][id].item = item}

\* The counters of a collection and the event count of an item are those
\* of the audit records: as many NftBurnEvent, NftMintEvent and
\* NftTransferEvent records exist as the three handlers counted.  It fails
\* if two events are saved under one id, or if one is counted in the
\* collection and not in the item.
CountersMatchAuditLog ==
    /\ \A id \in Ids(store, "Nft") :
          LET token == store.Nft[id]
              Count(type) == Cardinality(AuditsOf(store, type, id))
          IN  /\ token.burnEventCount = Count("NftBurnEvent")
              /\ token.mintEventCount = Count("NftMintEvent")
              /\ token.transferEventCount = Count("NftTransferEvent")
              /\ token.totalBurned = Count("NftBurnEvent")
              /\ token.totalMinted = Count("NftMintEvent")
              /\ token.eventCount = Count("NftBurnEvent") + Count("NftMintEvent")
                                      + Count("NftTransferEvent")
    /\ \A id \in Ids(store, "NftItem") :
          store.NftItem[id].eventCount
            = Cardinality(UNION {AuditsOfItem(store, type, id) : type \in AuditTypes})

\* An item's transferEventCount is the number of its transfers, as the
\* collection's is of the collection's: handleTransferEvent counts the
\* NftTransferEvent it saves once in each.
ItemTransferCountMatchesAuditLog ==
    \A id \in Ids(store, "NftItem") :
        store.NftItem[id].transferEventCount
            = Cardinality(AuditsOfItem(store, "NftTransferEvent", id))

\* Every inventory has the snapshot of its last change: the snapshot keyed
\* by the inventory and the time it was last modified exists, lists what
\* the inventory lists, and names an audit record of the same transaction.
\* A transfer of an account to itself takes two snapshots under one key, of
\* the inventory without the item and then with it; the second must win.
LatestSnapshotMatchesInventory ==
    \A id \in Ids(store, "AccountInventory") :
        LET inventory == store.AccountInventory[id]
            snapshot  == Load(store, "AccountInventorySnapshot",
                              <<id, inventory.modified>>)
        IN  /\ snapshot # NULL
            /\ snapshot.tokenIds = inventory.tokenIds
            /\ snapshot.transaction = inventory.transaction
            /\ \E type \in AuditTypes :
                  /\ Exists(store, type, snapshot.event)
                  /\ store[type][snapshot.event].transaction = snapshot.transaction

\* Inventory snapshots of earlier blocks are history: an event never
\* changes or removes a snapshot taken at an earlier timestamp than its own
\* (saveAccountInventorySnapshot keys a snapshot by inventory and timestamp).
InventorySnapshotsOfEarlierBlocksAreKept ==
    [][\A id \in Ids(store, "AccountInventorySnapshot") :
          store.AccountInventorySnapshot[id].timestamp < head'.block
              => /\ Exists(store', "AccountInventorySnapshot", id)
                 /\ store'.AccountInventorySnapshot[id]
                       = store.AccountInventorySnapshot[id]
      ]_vars

\* the audit record a is of a later event than b: of a later transaction,
\* or of a later log of the same one
LaterEvent(a, b) == a[1] > b[1] \/ (a[1] = b[1] /\ a[2] > b[2])

\* the latest audit record of a type about an item, NULL if there is none
LastAudit(type, item) ==
    LET audits == AuditsOfItem(store, type, item)
    IN  IF audits = {} THEN NULL
        ELSE CHOOSE a \in audits : \A b \in audits \ {a} : LaterEvent(a, b)

\* An item carries its own history: `mint` and `minter` are those of the
\* latest NftMintEvent about it, `burn` and `burner` those of the latest
\* NftBurnEvent, and the item has an owner exactly when it was minted after
\* it was last burned.  handleMintEvent and handleBurnEvent note the record
\* on the item after saving it, handleTransferEvent leaves both alone; an
\* item minted, burned and minted again must name the second mint.
ItemNamesLastMintAndBurn ==
    \A id \in Ids(store, "NftItem") :
        LET item == store.NftItem[id]
        IN  /\ item.mint = LastAudit("NftMintEvent", id)
            /\ item.burn = LastAudit("NftBurnEvent", id)
            /\ item.mint # NULL
                  => item.minter = store.NftMintEvent[item.mint].minter
            /\ item.burn # NULL
                  => item.burner = store.NftBurnEvent[item.burn].burner
            /\ item.owner # NULL
                  <=> /\ item.mint # NULL
                      /\ item.burn # NULL => LaterEvent(item.mint, item.burn)

-----------------------------------------------------------------------------
(* The index as its readers see it *)

\* the owner the store gives an item, NULL for an item it has not seen
OwnerInStore(item) ==
    IF Exists(store, "NftItem", item) THEN store.NftItem[item].owner ELSE NULL

\* the items the store lists in the inventories of an address
HeldInStore(address) ==
    {item \in Items :
        /\ Exists(store, "AccountInventory", <<address, item[1]>>)
        /\ item[2] \in ToSet(store.AccountInventory[<<address, item[1]>>].tokenIds)}

\* the supply the store gives a collection, none before its first event
SupplyInStore(collection) ==
    IF Exists(store, "Nft", collection) THEN store.Nft[collection].totalSupply ELSE 0

Ownership ==
    INSTANCE NftOwnership
    WITH Accounts <- Holders,
         NoOwner  <- NULL,
         owner    <- [item \in Items |-> OwnerInStore(item)],
         held     <- [party \in Holders \cup {NULL} |->
                        HeldInStore(IF party = NULL THEN GENESIS_ADDRESS ELSE party)],
         supply   <- [collection \in Collections |-> SupplyInStore(collection)]

\* handleTransfer implements NftOwnership: each event it handles is, for
\* the owners, the inventories and the supply together, the mint, the
\* transfer or the burn of one item, and the inventory of the zero address
\* stays empty.  The handler changes them in up to five saves; the step
\* is right only if all of them are about the same item and account.
ImplementsOwnership == Ownership!Spec

=============================================================================
