----------------------------- MODULE EventStream -----------------------------
(***************************************************************************)
(* The events the host hands to the mappings (specification, sections 5    *)
(* and 6): decoded, in canonical chain order (block, then log index), one  *)
(* at a time, each at most once.  This is the environment of the handlers, *)
(* not code of the repository.                                             *)
(*                                                                         *)
(* A position is where an event sits on the chain: its block, its          *)
(* transaction, its log index in the block, the sender of the              *)
(* transaction, and how many events the stream has delivered up to it.     *)
(* Transactions are numbered along the chain, so a transaction hash is its *)
(* number; the timestamp of a block grows with its number, so both are the *)
(* block's number.                                                         *)
(***************************************************************************)
EXTENDS Integers

CONSTANTS
    MaxEvents,  \* events of the stream
    MaxBlock,   \* blocks that carry an event
    MaxTx,      \* transactions that carry an event
    MaxLog,     \* highest log index of an event in its block
    Senders     \* addresses that send transactions

Positions ==
    [ nth : 1..MaxEvents, block : 1..MaxBlock, tx : 1..MaxTx, log : 0..MaxLog,
      from : Senders ]

\* the position of the stream before its first event
BeforeFirst == [nth |-> 0, block |-> 0, tx |-> 0, log |-> 0, from |-> "none"]

\* p can be the position of the event delivered after the one at h: a
\* later log of the same transaction, the first log of the next transaction
\* of the block, or the first log of a later block.
Follows(h, p) ==
    /\ p.nth = h.nth + 1
    /\ \/ /\ p.block = h.block
          /\ p.log = h.log + 1
          /\ \/ p.tx = h.tx /\ p.from = h.from
             \/ p.tx = h.tx + 1
       \/ /\ p.block = h.block + 1
          /\ p.tx = h.tx + 1
          /\ p.log = 0

\* the part of ethereum.Event every event has, for the contract `address`
EventAt(p, address, params) ==
    [ address     |-> address,
      params      |-> params,
      block       |-> [number |-> p.block, timestamp |-> p.block],
      transaction |-> [hash |-> p.tx, from |-> p.from],
      logIndex    |-> p.log ]

=============================================================================
