---------------------------- MODULE EntityStore ----------------------------
(***************************************************************************)
(* The entity store the mappings persist into.  Its engine belongs to the  *)
(* host; the mappings consume only its contract (specification, section    *)
(* 6): load(entityType, id) returns the entity or null, save(entity)       *)
(* replaces whatever is stored under the entity's id.  The generated       *)
(* schema classes that wrap it (Token.load, token.save(), ...) are not     *)
(* under src/, so the operators here are written from that contract.       *)
(*                                                                         *)
(* A store is a function from entity type to table, a table a function     *)
(* from the ids saved so far to the entity last saved under the id.  Ids   *)
(* are opaque: the code builds them by joining hex strings with "-", which *)
(* is injective on fixed-width addresses, and the model uses the address   *)
(* or the tuple of the joined parts.                                       *)
(***************************************************************************)
EXTENDS TLC

CONSTANT NULL       \* the null a failed load returns, and an unset field

EntityTypes ==
    { "Token", "Transaction", "Account",
      "AccountBalance", "AccountBalanceSnapshot",
      "BurnEvent", "MintEvent", "TransferEvent",
      "Nft", "NftItem",
      "AccountInventory", "AccountInventorySnapshot",
      "NftBurnEvent", "NftMintEvent", "NftTransferEvent" }

EmptyStore == [type \in EntityTypes |-> <<>>]

Ids(s, type) == DOMAIN s[type]

Exists(s, type, id) == id \in Ids(s, type)

\* Entity.load(id)
Load(s, type, id) == IF Exists(s, type, id) THEN s[type][id] ELSE NULL

\* entity.save(): insert or overwrite, by id
Save(s, type, entity) == [s EXCEPT ![type] = (entity.id :> entity) @@ @]

=============================================================================
