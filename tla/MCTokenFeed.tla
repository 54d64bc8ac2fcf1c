---------------------------- MODULE MCTokenFeed ----------------------------
(***************************************************************************)
(* TokenFeed for TLC: what the holders start with, how a contract          *)
(* announces a mint and a burn, and what it answers when read.             *)
(***************************************************************************)
EXTENDS TokenFeed, MCTokenIndexer

\* a contract indexed from its deployment, with nothing given out yet
NoPremine == [holder \in Holders |-> 0]

\* every mint and burn is logged once, by the Transfer or by the own event
MintsLoggedOnce == {<<"Transfer">>, <<"Mint">>}
BurnsLoggedOnce == {<<"Transfer">>, <<"Burn">>}

\* a mintable and burnable token that logs its own event and the Transfer
MintsLoggedTwice == {<<"Mint", "Transfer">>}
BurnsLoggedTwice == {<<"Burn", "Transfer">>}

\* The liveness runs index one kind of contract each: a token is read once,
\* so a set of answers stands for a set of contracts only where no
\* property depends on what is enabled.

\* a contract that has decimals() and neither name() nor symbol()
WithDecimals ==
    { [ name |-> Reverted, symbol |-> Reverted,
        decimals |-> Answer(1), totalSupply |-> Reverted ] }

\* a contract that has no decimals()
WithoutDecimals ==
    { [ name |-> Answer(AName), symbol |-> Answer(AName),
        decimals |-> Reverted, totalSupply |-> Reverted ] }

=============================================================================
