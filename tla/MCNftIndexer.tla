---------------------------- MODULE MCNftIndexer ----------------------------
(***************************************************************************)
(* NftIndexer for TLC: where a collection may stand when indexing starts,  *)
(* the answers an NFT contract gives, and the symmetry of the holders.     *)
(***************************************************************************)
EXTENDS NftIndexer

\* Indexing starts with the collection: no item has an owner yet.
FromGenesis == {GENESIS_ADDRESS}

\* Indexing starts on a collection in use: an item may have any owner.
JoinedLate == Addresses

\* Mints are announced as ERC-721 says: from the zero address.
StandardMints == {GENESIS_ADDRESS}

\* Mints are announced with any source.
AnyMints == Addresses

AName == CHOOSE name \in Names : TRUE
AUri  == CHOOSE uri \in Uris : TRUE

\* A contract that has name() and symbol(), and one that has neither.
Erc721AnswersChecked ==
    { [name |-> Answer(AName), symbol |-> Answer(AName)],
      [name |-> Reverted,      symbol |-> Reverted] }

\* tokenURI() answers, or reverts.
UriAnswersChecked == {Answer(AUri), Reverted}

HolderSymmetry == Permutations(Holders)

=============================================================================
