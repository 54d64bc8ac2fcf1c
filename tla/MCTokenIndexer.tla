--------------------------- MODULE MCTokenIndexer ---------------------------
(***************************************************************************)
(* TokenIndexer for TLC: the pairs a Transfer event carries, the answers a *)
(* token contract gives, and the symmetry of the holders.                  *)
(***************************************************************************)
EXTENDS TokenIndexer

\* Every pair but zero-to-zero: a Transfer is a mint, a burn, or a
\* transfer between any two addresses, the same one twice included.
ClassifiablePairs ==
    (Addresses \X Addresses) \ {<<GENESIS_ADDRESS, GENESIS_ADDRESS>>}

\* Every pair, zero-to-zero included.
AllPairs == Addresses \X Addresses

AName == CHOOSE name \in Names : TRUE

\* A contract that answers every read (one fractional digit, so that
\* amounts meet the canonical form on both sides of the decimal point),
\* one that has no decimals(), and one that answers nothing.
AnswersChecked ==
    { [ name |-> Answer(AName), symbol |-> Answer(AName),
        decimals |-> Answer(1), totalSupply |-> Answer(100) ],
      [ name |-> Answer(AName), symbol |-> Answer(AName),
        decimals |-> Reverted, totalSupply |-> Answer(100) ],
      [ name |-> Reverted, symbol |-> Reverted,
        decimals |-> Reverted, totalSupply |-> Reverted ] }

HolderSymmetry == Permutations(Holders)

HolderAndTokenSymmetry == Permutations(Holders) \cup Permutations(Tokens)

=============================================================================
