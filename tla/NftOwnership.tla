---------------------------- MODULE NftOwnership ----------------------------
(***************************************************************************)
(* What the index of an NFT collection promises to whoever queries it:     *)
(* every item has at most one owner, an account holds exactly the items it *)
(* owns, and the supply of a collection is the number of its owned items.  *)
(* An event mints, transfers or burns one item and changes nothing else.   *)
(***************************************************************************)
EXTENDS Integers, FiniteSets

CONSTANTS
    Collections,    \* the collections
    TokenIds,       \* the token ids of their items
    Accounts,       \* who may own an item
    NoOwner         \* the owner of an item that is not minted, or is burned

Items   == Collections \X TokenIds
Parties == Accounts \cup {NoOwner}

VARIABLES
    owner,      \* the owner of each item
    held,       \* the items each party holds
    supply      \* the number of owned items of each collection

vars == <<owner, held, supply>>

TypeOK ==
    /\ owner \in [Items -> Parties]
    /\ held \in [Parties -> SUBSET Items]
    /\ supply \in [Collections -> Nat]

Init ==
    /\ owner = [item \in Items |-> NoOwner]
    /\ held = [party \in Parties |-> {}]
    /\ supply = [collection \in Collections |-> 0]

\* The item passes from whoever owns it to `to`.
Pass(item, to) ==
    /\ owner' = [owner EXCEPT ![item] = to]
    /\ held' = [party \in Parties |->
                   IF party = to /\ to # NoOwner THEN held[party] \cup {item}
                   ELSE held[party] \ {item}]

Mint(item, to) ==
    /\ owner[item] = NoOwner
    /\ Pass(item, to)
    /\ supply' = [supply EXCEPT ![item[1]] = @ + 1]

Transfer(item, to) ==
    /\ owner[item] # NoOwner
    /\ Pass(item, to)
    /\ UNCHANGED supply

Burn(item) ==
    /\ owner[item] # NoOwner
    /\ Pass(item, NoOwner)
    /\ supply' = [supply EXCEPT ![item[1]] = @ - 1]

Next ==
    \E item \in Items :
        \/ \E to \in Accounts : Mint(item, to) \/ Transfer(item, to)
        \/ Burn(item)

Spec == Init /\ [][Next]_vars

\* An account holds exactly the items it owns, nobody holds an item
\* without owner, and the supply counts the owned items.
HeldIsOwned ==
    /\ \A party \in Accounts : held[party] = {item \in Items : owner[item] = party}
    /\ held[NoOwner] = {}
    /\ \A collection \in Collections :
          supply[collection]
            = Cardinality({item \in Items :
                             item[1] = collection /\ owner[item] # NoOwner})

=============================================================================
