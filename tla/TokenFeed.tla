----------------------------- MODULE TokenFeed -----------------------------
(***************************************************************************)
(* mappings/token.ts beside what it indexes: a token contract, the log the *)
(* contract writes, and the host that hands the log to the handlers.       *)
(*                                                                         *)
(* The contract and the host are the environment (specification, sections  *)
(* 5 and 6), not code of the repository.  The contract keeps what every    *)
(* holder has and logs every movement; token.ts imports the Transfer event *)
(* of a standard token, the Burn event of a burnable one and the Mint      *)
(* event of a mintable one, so a contract announces a mint or a burn by a  *)
(* Transfer from or to the zero address, by its own event, or by both.     *)
(* The host delivers the log in order, one entry at a time, and answers a  *)
(* contract read from the state of the entry's block.  The model takes the *)
(* state right after the entry, the earliest state that block can show.    *)
(***************************************************************************)
EXTENDS TokenIndexer

CONSTANTS
    Premine,            \* what every holder has before the first logged entry
    MintAnnouncements,  \* the ways a mint is logged: sequences of event kinds
    BurnAnnouncements,  \* the ways a burn is logged
    MaxRedelivered      \* entries a host without exactly-once delivery repeats

ASSUME /\ Premine \in [Holders -> Nat]
       /\ MintAnnouncements \subseteq Seq({"Transfer", "Mint"})
       /\ BurnAnnouncements \subseteq Seq({"Transfer", "Burn"})
       /\ MaxRedelivered \in Nat

VARIABLE log    \* the entries the contracts have logged, in chain order

feedVars == <<store, head, log>>

FeedInit == Init /\ log = <<>>

-----------------------------------------------------------------------------
(* The contracts *)

\* the position of the last entry logged
Tip == IF log = <<>> THEN BeforeFirst ELSE log[Len(log)].at

\* what the holders have of every token after the n-th entry of the log
HeldAfter(n) == IF n = 0 THEN [token \in Tokens |-> Premine] ELSE log[n].held

\* the parameters of the event of a kind that announces a movement
Params(kind, from, to, value) ==
    CASE kind = "Transfer" -> [from |-> from, to |-> to, value |-> value]
      [] kind = "Mint"     -> [to |-> to, amount |-> value]
      [] kind = "Burn"     -> [burner |-> from, value |-> value]

\* The contract `token` moves value, which a holder can spare, and logs the
\* movement once for every kind of `kinds`, in one transaction, from the
\* position p on.
Logs(p, token, from, to, value, kinds) ==
    LET at(i) == [p EXCEPT !.nth = @ + i - 1, !.log = @ + i - 1]
        held  == [HeldAfter(Len(log)) EXCEPT ![token] =
                    [h \in Holders |->
                        @[h] - (IF h = from THEN value ELSE 0)
                             + (IF h = to THEN value ELSE 0)]]
    IN  /\ Follows(Tip, p)
        /\ at(Len(kinds)) \in Positions
        /\ from \in Holders => HeldAfter(Len(log))[token][from] >= value
        /\ log' = log \o [i \in 1..Len(kinds) |->
                            [ at     |-> at(i),
                              token  |-> token,
                              kind   |-> kinds[i],
                              params |-> Params(kinds[i], from, to, value),
                              held   |-> held ]]

ContractMints ==
    \E p \in Positions, token \in Tokens, to \in Holders, value \in Values :
        /\ \E kinds \in MintAnnouncements :
              Logs(p, token, GENESIS_ADDRESS, to, value, kinds)
        /\ UNCHANGED <<store, head>>

ContractBurns ==
    \E p \in Positions, token \in Tokens, burner \in Holders, value \in Values :
        /\ \E kinds \in BurnAnnouncements :
              Logs(p, token, burner, GENESIS_ADDRESS, value, kinds)
        /\ UNCHANGED <<store, head>>

ContractTransfers ==
    \E p \in Positions, token \in Tokens, from \in Holders, to \in Holders :
        /\ \E value \in Values : Logs(p, token, from, to, value, <<"Transfer">>)
        /\ UNCHANGED <<store, head>>

-----------------------------------------------------------------------------
(* The host *)

\* what the contract answers when read at the block of the entry: if it
\* has totalSupply(), the supply is what the holders have between them
Erc20At(entry, profile) ==
    IF profile.totalSupply.reverted THEN profile
    ELSE [profile EXCEPT
            !.totalSupply = Answer(SumFunction(entry.held[entry.token]))]

\* the handler the manifest names for the kind of the entry runs on it
Handles(entry) ==
    LET event == EventAt(entry.at, entry.token, entry.params)
    IN  \E profile \in AnswersWanted(entry.token) :
            \/ entry.kind = "Transfer"
                  /\ HandleTransfer(event, Erc20At(entry, profile))
            \/ entry.kind = "Burn"
                  /\ HandleBurn(event, Erc20At(entry, profile))
            \/ entry.kind = "Mint"
                  /\ HandleMint(event, Erc20At(entry, profile))

\* the next entry of the log is handled, and the host moves past it
Deliver ==
    /\ head.nth < Len(log)
    /\ Handles(log[head.nth + 1])
    /\ head' = log[head.nth + 1].at
    /\ UNCHANGED log

\* every delivery counts one event on a token, so what the tokens count
\* beyond the host's position was delivered again
Redelivered ==
    MapThenSumSet(LAMBDA token : store.Token[token].eventCount,
                  Ids(store, "Token")) - head.nth

\* a host that resumes without exactly-once delivery hands the last entry
\* to its handler again
Redeliver ==
    /\ head.nth > 0
    /\ Redelivered < MaxRedelivered
    /\ Handles(log[head.nth])
    /\ UNCHANGED <<head, log>>

FeedNext == ContractMints \/ ContractBurns \/ ContractTransfers \/ Deliver

FeedSpec == FeedInit /\ [][FeedNext]_feedVars

\* The host delivers every entry of the log (specification, section 5), and
\* a handler that starts finishes: the handlers are straight-line code.
FairFeedSpec == FeedSpec /\ WF_feedVars(Deliver)

\* the same host when it may repeat deliveries
AtLeastOnceSpec ==
    FeedInit /\ [][FeedNext \/ Redeliver]_feedVars /\ WF_feedVars(Deliver)

-----------------------------------------------------------------------------
(* Properties *)

\* what the store says a holder has of a token
IndexedBalance(holder, token) ==
    LET balance == Load(store, "AccountBalance", <<holder, token>>)
    IN  IF balance = NULL THEN ZeroDec ELSE balance.amount

\* The ledger is the contract's, as of the entry the host is at: for every
\* registered token, every holder's AccountBalance is what the holder has
\* on the contract, in the token's decimals.  It needs every movement to be
\* indexed from the first one on and announced by one event: handleTransfer
\* and handleBurn debit the same balance for a burn logged by both events,
\* and decreaseAccountBalance goes below zero for value that arrived
\* without an event.
LedgerFollowsChain ==
    \A token \in Ids(store, "Token"), holder \in Holders :
        IndexedBalance(holder, token)
            = ToDecimal(HeldAfter(head.nth)[token][holder],
                        store.Token[token].decimals)

\* Token.totalSupply is the contract's supply as of the entry the host is
\* at ("Counter conservation" of the specification: mint 100, transfer 40,
\* burn 10 leave totalSupply = 90).  loadToken reads totalSupply() at the
\* first event of the token, handleMintEvent and handleBurnEvent then
\* apply that event to what was read.
RegistrySupplyFollowsChain ==
    \A token \in Ids(store, "Token") :
        store.Token[token].totalSupply
            = ToDecimal(SumFunction(HeldAfter(head.nth)[token]),
                        store.Token[token].decimals)

\* how far Token.totalSupply of s is from the contract's supply as of the
\* entry at h
SupplyDrift(s, h, token) ==
    DecMinus(s.Token[token].totalSupply,
             ToDecimal(SumFunction(HeldAfter(h.nth)[token]),
                       s.Token[token].decimals))

\* Once a token is registered, Token.totalSupply moves with the contract's
\* supply: loadToken reads totalSupply() at the first event only, and
\* handleMintEvent and handleBurnEvent apply every later mint and burn
\* once, with the decimals fixed at the first event, however the mint or
\* burn is announced.  Whatever distance the first event leaves between
\* the two stays as it is.
SupplyDriftIsFixedAtFirstSight ==
    [][\A token \in Ids(store, "Token") :
          SupplyDrift(store', head', token) = SupplyDrift(store, head, token)
      ]_feedVars

\* the n-th entry of the log has its audit record, under the transaction
\* hash and the log index of the entry
Audited(n) ==
    /\ n <= Len(log)
    /\ \E type \in AuditTypes :
          Exists(store, type, <<log[n].at.tx, log[n].at.log>>)

\* Every entry a contract logs is eventually indexed: handleTransfer,
\* handleBurn or handleMint runs on it to the end and saves its audit
\* record.  It fails if a handler aborts, since the host cannot move past
\* the entry, or if the record is saved under the id of another entry.
EveryLoggedEventIsAudited ==
    \A n \in 1..MaxEvents : (Len(log) >= n) ~> Audited(n)

=============================================================================
