---------------------------- MODULE TokenIndexer ----------------------------
(***************************************************************************)
(* mappings/token.ts: the handlers of the events of a fungible token.      *)
(*                                                                         *)
(* handleTransfer classifies a Transfer as burn, mint or transfer by the   *)
(* zero address, writes the audit record of that kind, updates the token's *)
(* counters and totals, then moves the balances and snapshots them.        *)
(* handleBurn and handleMint do the same for the Burn and Mint events of   *)
(* burnable and mintable tokens.                                           *)
(*                                                                         *)
(* The host runs one handler at a time, to completion, and commits what it *)
(* saved (specification, section 5): a handler is one action.  Inside the  *)
(* action the saves happen in the order of the code, each operator taking  *)
(* the store the previous one left.                                        *)
(***************************************************************************)
EXTENDS Integers, FiniteSets, FiniteSetsExt, Registry, AccountLedger, EventStream

CONSTANTS
    Tokens,             \* addresses of the token contracts indexed
    Holders,            \* addresses that hold tokens
    GENESIS_ADDRESS,    \* the zero address
    Values,             \* raw amounts an event carries
    TransferPairs,      \* the <<from, to>> a Transfer event may carry
    Names,              \* what name() and symbol() answer
    Erc20Answers,       \* the answers a contract may give when first read
    RevertedValueTraps  \* whether reading the value of a reverted call aborts
                        \* the handler (the graph-ts of the build decides)

Addresses == Holders \cup {GENESIS_ADDRESS}

ASSUME /\ GENESIS_ADDRESS \notin Holders
       /\ TransferPairs \subseteq Addresses \X Addresses
       /\ Values \subseteq Nat
       /\ RevertedValueTraps \in BOOLEAN

VARIABLES
    store,      \* the entity store
    head        \* the position of the last event handled

vars == <<store, head>>

Init ==
    /\ store = EmptyStore
    /\ head = BeforeFirst

-----------------------------------------------------------------------------
(* The helpers of token.ts *)

\* Mutant of EventId: the log index is left out of the id.
EventIdOfTransaction(event) == <<event.transaction.hash, 0>>

\* event.transaction.hash.toHex() + "-" + event.logIndex.toString()
EventId(event) == <<event.transaction.hash, event.logIndex>>

\* what the three audit records have in common
AuditRecord(type, amount, event, tx) ==
    [ id          |-> EventId(event),
      type        |-> type,
      token       |-> event.address,
      amount      |-> amount,
      block       |-> event.block.number,
      timestamp   |-> event.block.timestamp,
      transaction |-> tx.id ]

\* handleBurnEvent: the BurnEvent, then the token's counters and totals
HandleBurnEvent(s, token, amount, burner, event, tx) ==
    LET burnEvent == AuditRecord("BURN", amount, event, tx) @@
                     [sender |-> event.transaction.from, burner |-> burner]
        logged    == Save(s, "BurnEvent", burnEvent)
    IN  IF token = NULL THEN logged
        ELSE Save(logged, "Token",
                  [token EXCEPT !.eventCount     = @ + 1,
                                !.burnEventCount = @ + 1,
                                !.totalSupply    = DecMinus(@, amount),
                                !.totalBurned    = DecPlus(@, amount)])

\* handleMintEvent
HandleMintEvent(s, token, amount, destination, event, tx) ==
    LET mintEvent == AuditRecord("MINT", amount, event, tx) @@
                     [ sender      |-> event.transaction.from,
                       destination |-> destination,
                       minter      |-> event.transaction.from ]
        logged    == Save(s, "MintEvent", mintEvent)
    IN  IF token = NULL THEN logged
        ELSE Save(logged, "Token",
                  [token EXCEPT !.eventCount     = @ + 1,
                                !.mintEventCount = @ + 1,
                                !.totalSupply    = DecPlus(@, amount),
                                !.totalMinted    = DecPlus(@, amount)])

\* handleTransferEvent
HandleTransferEvent(s, token, amount, source, destination, event, tx) ==
    LET transferEvent == AuditRecord("TRANSFER", amount, event, tx) @@
                         [ sender      |-> source,
                           source      |-> source,
                           destination |-> destination ]
        logged        == Save(s, "TransferEvent", transferEvent)
    IN  IF token = NULL THEN logged
        ELSE Save(logged, "Token",
                  [token EXCEPT !.eventCount         = @ + 1,
                                !.transferEventCount = @ + 1,
                                !.totalTransferred   = DecPlus(@, amount)])

\* Mutant of Stamped: the transaction is not set.
StampedWithoutTransaction(accountBalance, event, tx) ==
    [accountBalance EXCEPT !.block    = event.block.number,
                           !.modified = event.block.timestamp]

\* accountBalance.block = ...; .modified = ...; .transaction = ...
Stamped(accountBalance, event, tx) ==
    [accountBalance EXCEPT !.block       = event.block.number,
                           !.modified    = event.block.timestamp,
                           !.transaction = tx.id]

\* account.save(); accountBalance.save(); saveAccountBalanceSnapshot(...)
Persist(s, account, accountBalance, eventId, event, tx) ==
    SaveAccountBalanceSnapshot(
        Save(Save(s, "Account", account), "AccountBalance", accountBalance),
        accountBalance, eventId, event, tx)

\* Mutant of DebitSource: the snapshot is taken before the debit.
DebitSourceSnapshotFirst(s, source, token, amount, eventId, event, tx) ==
    LET sourceAccount == GetOrCreateAccount(s, source)
        before == Stamped(GetOrCreateAccountBalance(s, sourceAccount, token),
                          event, tx)
        after  == Stamped(DecreaseAccountBalance(s, sourceAccount, token, amount),
                          event, tx)
    IN  Save(Persist(s, sourceAccount, before, eventId, event, tx),
             "AccountBalance", after)

\* Mutant of DebitSource: the debited balance is snapshot and not saved.
DebitSourceUnsaved(s, source, token, amount, eventId, event, tx) ==
    LET sourceAccount == GetOrCreateAccount(s, source)
    IN  SaveAccountBalanceSnapshot(
            Save(s, "Account", sourceAccount),
            Stamped(DecreaseAccountBalance(s, sourceAccount, token, amount),
                    event, tx),
            eventId, event, tx)

\* the block "if (isTransfer || isBurn)": the source pays
DebitSource(s, source, token, amount, eventId, event, tx) ==
    LET sourceAccount == GetOrCreateAccount(s, source)
        accountBalance ==
            Stamped(DecreaseAccountBalance(s, sourceAccount, token, amount),
                    event, tx)
    IN  Persist(s, sourceAccount, accountBalance, eventId, event, tx)

\* the block "if (isTransfer || isMint)": the destination receives
CreditDestination(s, destination, token, amount, eventId, event, tx) ==
    LET destinationAccount == GetOrCreateAccount(s, destination)
        accountBalance ==
            Stamped(IncreaseAccountBalance(s, destinationAccount, token, amount),
                    event, tx)
    IN  Persist(s, destinationAccount, accountBalance, eventId, event, tx)

-----------------------------------------------------------------------------
(* The handlers *)

\* Mutant of LoadTokenReturns: the value of name() is read unguarded too.
LoadTokenReturnsIfNamed(event, erc20) ==
    ~(/\ RevertedValueTraps
      /\ ~Exists(store, "Token", event.address)
      /\ erc20.decimals.reverted \/ erc20.name.reverted)

\* loadToken(event.address) returns: it does not when the read of a
\* reverted value aborts the handler, which then has saved nothing.
LoadTokenReturns(event, erc20) ==
    ~(RevertedValueTraps /\ ReadsRevertedValue(store, event.address, erc20))

\* handleTransfer(event), the contract answering erc20 if it is read.  In
\* the handlers the store each step leaves is bound by \E over a singleton,
\* which TLC computes once (a LET it computes again at every use when it
\* evaluates ENABLED).
HandleTransfer(event, erc20) ==
    \E registered \in {LoadToken(store, event.address, erc20)} :
    \E recorded \in {LoadTransaction(registered, event)} :
    \E token \in {Load(registered, "Token", event.address)} :
    \E amount \in {ToDecimal(event.params.value, token.decimals)} :
        LET isBurn     == event.params.to = GENESIS_ADDRESS
            isMint     == event.params.from = GENESIS_ADDRESS
            isTransfer == ~isBurn /\ ~isMint
            tx         == Load(recorded, "Transaction", event.transaction.hash)
        IN  \E audited \in
                  {CASE isBurn ->
                          HandleBurnEvent(recorded, token, amount,
                                          event.params.from, event, tx)
                     [] isMint /\ ~isBurn ->
                          HandleMintEvent(recorded, token, amount,
                                          event.params.to, event, tx)
                     [] isTransfer ->
                          HandleTransferEvent(recorded, token, amount,
                                              event.params.from, event.params.to,
                                              event, tx)} :
            \E debited \in
                  {IF isTransfer \/ isBurn
                   THEN DebitSource(audited, event.params.from, token, amount,
                                    EventId(event), event, tx)
                   ELSE audited} :
                /\ LoadTokenReturns(event, erc20)
                /\ token # NULL
                /\ store' = IF isTransfer \/ isMint
                            THEN CreditDestination(debited, event.params.to,
                                                   token, amount,
                                                   EventId(event), event, tx)
                            ELSE debited

\* handleBurn(event)
HandleBurn(event, erc20) ==
    \E registered \in {LoadToken(store, event.address, erc20)} :
    \E recorded \in {LoadTransaction(registered, event)} :
    \E token \in {Load(registered, "Token", event.address)} :
    \E amount \in {ToDecimal(event.params.value, token.decimals)} :
        LET tx     == Load(recorded, "Transaction", event.transaction.hash)
        IN  \E audited \in {HandleBurnEvent(recorded, token, amount,
                                            event.params.burner, event, tx)} :
                /\ LoadTokenReturns(event, erc20)
                /\ token # NULL
                /\ store' = DebitSource(audited, event.params.burner, token,
                                        amount, EventId(event), event, tx)

\* handleMint(event)
HandleMint(event, erc20) ==
    \E registered \in {LoadToken(store, event.address, erc20)} :
    \E recorded \in {LoadTransaction(registered, event)} :
    \E token \in {Load(registered, "Token", event.address)} :
    \E amount \in {ToDecimal(event.params.amount, token.decimals)} :
        LET tx     == Load(recorded, "Transaction", event.transaction.hash)
        IN  \E audited \in {HandleMintEvent(recorded, token, amount,
                                            event.params.to, event, tx)} :
                /\ LoadTokenReturns(event, erc20)
                /\ token # NULL
                /\ store' = CreditDestination(audited, event.params.to, token,
                                              amount, EventId(event), event, tx)

-----------------------------------------------------------------------------
(* The environment: the next event of the stream, and the contract's       *)
(* answers should the handler read it.                                     *)

\* a contract is read only when its token is not yet registered
AnswersWanted(address) ==
    IF Exists(store, "Token", address)
    THEN {CHOOSE erc20 \in Erc20Answers : TRUE}
    ELSE Erc20Answers

TransferDelivered ==
    \E p \in Positions, address \in Tokens, pair \in TransferPairs, value \in Values :
        /\ Follows(head, p)
        /\ head' = p
        /\ \E erc20 \in AnswersWanted(address) :
              HandleTransfer(
                  EventAt(p, address,
                          [from |-> pair[1], to |-> pair[2], value |-> value]),
                  erc20)

BurnDelivered ==
    \E p \in Positions, address \in Tokens, burner \in Addresses, value \in Values :
        /\ Follows(head, p)
        /\ head' = p
        /\ \E erc20 \in AnswersWanted(address) :
              HandleBurn(EventAt(p, address, [burner |-> burner, value |-> value]),
                         erc20)

MintDelivered ==
    \E p \in Positions, address \in Tokens, to \in Addresses, amount \in Values :
        /\ Follows(head, p)
        /\ head' = p
        /\ \E erc20 \in AnswersWanted(address) :
              HandleMint(EventAt(p, address, [to |-> to, amount |-> amount]),
                         erc20)

Next == TransferDelivered \/ BurnDelivered \/ MintDelivered

Spec == Init /\ [][Next]_vars

-----------------------------------------------------------------------------
(* What the store holds *)

Counters == {"eventCount", "burnEventCount", "mintEventCount", "transferEventCount"}
Totals   == {"totalSupply", "totalBurned", "totalMinted", "totalTransferred"}
AuditTypes == {"BurnEvent", "MintEvent", "TransferEvent"}
EventIds == (1..MaxTx) \X (0..MaxLog)
HoldingIds == Addresses \X Tokens

IsToken(r) ==
    /\ r.id \in Tokens
    /\ r.name \in Names \cup {Unknown} /\ r.symbol \in Names \cup {Unknown}
    /\ r.decimals \in Nat
    /\ \A c \in Counters : r[c] \in Nat
    /\ \A t \in Totals : r[t] \in Decimals /\ IsCanonical(r[t])

IsAudit(r) ==
    /\ r.id \in EventIds /\ r.token \in Tokens
    /\ r.amount \in Decimals /\ IsCanonical(r.amount)
    /\ r.block \in 1..MaxBlock /\ r.timestamp = r.block
    /\ r.transaction \in 1..MaxTx

IsBalance(r) ==
    /\ r.id = <<r.account, r.token>> /\ r.id \in HoldingIds
    /\ r.amount \in Decimals /\ IsCanonical(r.amount)
    /\ r.block \in 1..MaxBlock /\ r.modified = r.block
    /\ r.transaction \in 1..MaxTx

IsBalanceSnapshot(r) ==
    /\ r.id = <<<<r.account, r.token>>, r.timestamp>>
    /\ <<r.account, r.token>> \in HoldingIds
    /\ r.amount \in Decimals /\ IsCanonical(r.amount)
    /\ r.block \in 1..MaxBlock /\ r.timestamp = r.block
    /\ r.transaction \in 1..MaxTx /\ r.event \in EventIds

IsTransaction(r) ==
    /\ r.id \in 1..MaxTx /\ r.blockNumber \in 1..MaxBlock
    /\ r.timestamp = r.blockNumber /\ r.from \in Senders

WellFormed(type, r) ==
    CASE type = "Token"                  -> IsToken(r)
      [] type = "Transaction"            -> IsTransaction(r)
      [] type = "Account"                -> r.id \in Addresses /\ r.address = r.id
      [] type = "AccountBalance"         -> IsBalance(r)
      [] type = "AccountBalanceSnapshot" -> IsBalanceSnapshot(r)
      [] type \in AuditTypes             -> IsAudit(r)
      [] OTHER                           -> FALSE

\* The type invariant: every entity is saved under its own id, with every
\* field the schema requires set (a balance is never saved before
\* handleTransfer, handleBurn or handleMint stamped it with the block, the
\* time and the transaction), every decimal in canonical form, and the
\* token handlers write no entity of the NFT schema.
TypeOK ==
    /\ head \in Positions \cup {BeforeFirst}
    /\ DOMAIN store = EntityTypes
    /\ \A type \in EntityTypes : \A id \in Ids(store, type) :
          /\ store[type][id].id = id
          /\ WellFormed(type, store[type][id])

-----------------------------------------------------------------------------
(* Properties *)

BalancesOf(s, token) ==
    {id \in Ids(s, "AccountBalance") : s.AccountBalance[id].token = token}

\* the sum of what the accounts hold of the token
HeldSupply(s, token) ==
    FoldSet(LAMBDA id, sum : DecPlus(s.AccountBalance[id].amount, sum),
            ZeroDec, BalancesOf(s, token))

\* Conservation between the ledger and the registry: what the accounts
\* hold of a token, added up, is what was minted less what was burned.
\* handleTransfer, handleBurn and handleMint keep it only if every burn
\* debits exactly one balance, every mint credits exactly one, and every
\* transfer does both, on the balance last saved.
LedgerMatchesSupply ==
    \A id \in Ids(store, "Token") :
        HeldSupply(store, id)
            = DecMinus(store.Token[id].totalMinted, store.Token[id].totalBurned)

AuditsOf(s, type, token) == {id \in Ids(s, type) : s[type][id].token = token}

AuditedAmount(s, type, token) ==
    FoldSet(LAMBDA id, sum : DecPlus(s[type][id].amount, sum),
            ZeroDec, AuditsOf(s, type, token))

\* The counters and totals of a token are those of its audit records: as
\* many BurnEvent, MintEvent and TransferEvent records exist as
\* handleBurnEvent, handleMintEvent and handleTransferEvent counted, and
\* their amounts add up to the totals.  It fails if two events are saved
\* under one id, or if an event is counted and not logged.
AggregatesMatchAuditLog ==
    \A id \in Ids(store, "Token") :
        LET token == store.Token[id]
            Count(type) == Cardinality(AuditsOf(store, type, id))
        IN  /\ token.burnEventCount = Count("BurnEvent")
            /\ token.mintEventCount = Count("MintEvent")
            /\ token.transferEventCount = Count("TransferEvent")
            /\ token.eventCount
                 = Count("BurnEvent") + Count("MintEvent") + Count("TransferEvent")
            /\ token.totalBurned = AuditedAmount(store, "BurnEvent", id)
            /\ token.totalMinted = AuditedAmount(store, "MintEvent", id)
            /\ token.totalTransferred = AuditedAmount(store, "TransferEvent", id)

\* Audit records are write-once (specification, section 3): once
\* handleBurnEvent, handleMintEvent or handleTransferEvent has saved the
\* record of an event, no later event changes it, and the same event
\* handled again saves the same record.  A record depends on the event
\* alone, and no two events share transaction hash and log index.
AuditRecordsAreWriteOnce ==
    [][\A type \in AuditTypes : \A id \in Ids(store, type) :
          store'[type][id] = store[type][id]]_vars

\* Every balance has the snapshot of its last change: the snapshot keyed
\* by the balance and the time it was last modified exists, carries the
\* balance's amount, and names an audit record of the same transaction.
\* This is the order of handleTransfer's steps: audit record, balance,
\* then saveAccountBalanceSnapshot of the balance just saved.
LatestSnapshotMatchesBalance ==
    \A id \in Ids(store, "AccountBalance") :
        LET balance  == store.AccountBalance[id]
            snapshot == Load(store, "AccountBalanceSnapshot",
                             <<id, balance.modified>>)
        IN  /\ snapshot # NULL
            /\ snapshot.amount = balance.amount
            /\ snapshot.transaction = balance.transaction
            /\ \E type \in AuditTypes :
                  /\ Exists(store, type, snapshot.event)
                  /\ store[type][snapshot.event].transaction = snapshot.transaction

\* Snapshots of earlier blocks are history: an event never changes or
\* removes a snapshot taken at an earlier timestamp than its own
\* (saveAccountBalanceSnapshot keys a snapshot by balance and timestamp).
SnapshotsOfEarlierBlocksAreKept ==
    [][\A id \in Ids(store, "AccountBalanceSnapshot") :
          store.AccountBalanceSnapshot[id].timestamp < head'.block
              => /\ Exists(store', "AccountBalanceSnapshot", id)
                 /\ store'.AccountBalanceSnapshot[id] = store.AccountBalanceSnapshot[id]
      ]_vars

\* what the store holds about one token
LedgerOf(s, token) ==
    [ token     |-> Load(s, "Token", token),
      balances  |-> {s.AccountBalance[id] : id \in BalancesOf(s, token)},
      snapshots |-> {r \in {s.AccountBalanceSnapshot[id] :
                               id \in Ids(s, "AccountBalanceSnapshot")} :
                        r.token = token} ]

\* An event of one token leaves the ledger of every other token alone:
\* the registry entry, the balances and the snapshots of a token change
\* only in a step that handles an event of that token.  The balance of an
\* account is keyed by account and token in getOrCreateAccountBalance.
EventsTouchOneToken ==
    [][\A t, u \in Tokens :
          t # u /\ LedgerOf(store', t) # LedgerOf(store, t)
              => LedgerOf(store', u) = LedgerOf(store, u)
      ]_vars

=============================================================================
