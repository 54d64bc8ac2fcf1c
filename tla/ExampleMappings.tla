-------------------------- MODULE ExampleMappings --------------------------
(***************************************************************************)
(* The two example mappings: block/src/mapping.ts, which keeps an entity   *)
(* for every block, and test-event/src/mapping.ts, which keeps for every   *)
(* contract the Transfer it emitted last.  Each is deployed on its own and *)
(* has its own table; the module runs them side by side.                   *)
(*                                                                         *)
(* Both create the entity anew and save it, without loading what the table *)
(* holds under the id.  seen and emitted record what the host delivered.   *)
(***************************************************************************)
EXTENDS Integers, Sequences, TLC

CONSTANTS
    Hashes,         \* block hashes
    MaxTimestamp,   \* block timestamps are 1..MaxTimestamp
    Contracts,      \* contracts that emit Transfer
    Parties,        \* the addresses a Transfer names
    Values,         \* the values a Transfer names
    MaxTransfers    \* the run ends after this many Transfer events

VARIABLES
    masterChefModel,    \* the table of block/src/mapping.ts, by id
    standardToken,      \* the table of test-event/src/mapping.ts, by id
    seen,               \* the blocks delivered, in order
    emitted             \* the Transfer events delivered, in order

vars == <<masterChefModel, standardToken, seen, emitted>>

Blocks    == [hash : Hashes, number : Nat, timestamp : 1..MaxTimestamp]
Transfers == [address : Contracts, params : [from : Parties, to : Parties, value : Values]]

Init ==
    /\ masterChefModel = <<>>
    /\ standardToken = <<>>
    /\ seen = <<>>
    /\ emitted = <<>>

\* Mutant of HandleBlock: the entity is keyed by the block's timestamp.
HandleBlockKeyedByTime(block) ==
    masterChefModel' =
        (block.timestamp :> [id |-> block.timestamp, timestamp |-> block.timestamp])
            @@ masterChefModel

\* Mutant of HandleBlock: the entity's time is the block's number.
HandleBlockTimedByNumber(block) ==
    masterChefModel' =
        (block.hash :> [id |-> block.hash, timestamp |-> block.number])
            @@ masterChefModel

\* handleBlock(block) of block/src/mapping.ts
HandleBlock(block) ==
    masterChefModel' =
        (block.hash :> [id |-> block.hash, timestamp |-> block.timestamp])
            @@ masterChefModel

\* Mutant of HandleTransfer: the entity is loaded and, if there, kept.
HandleTransferKeepingFirst(event) ==
    standardToken' =
        standardToken @@
        (event.address :> [ id    |-> event.address,
                            from  |-> event.params.from,
                            to    |-> event.params.to,
                            value |-> event.params.value ])

\* handleTransfer(event) of test-event/src/mapping.ts
HandleTransfer(event) ==
    standardToken' =
        (event.address :> [ id    |-> event.address,
                            from  |-> event.params.from,
                            to    |-> event.params.to,
                            value |-> event.params.value ])
            @@ standardToken

\* The host delivers the next block: a hash never seen, a time not before
\* the last block's.
BlockDelivered ==
    \E hash \in Hashes, timestamp \in 1..MaxTimestamp :
        LET block == [ hash      |-> hash,
                       number    |-> Len(seen) + 1,
                       timestamp |-> timestamp ]
        IN  /\ \A i \in DOMAIN seen : /\ seen[i].hash # hash
                                      /\ seen[i].timestamp <= timestamp
            /\ seen' = Append(seen, block)
            /\ HandleBlock(block)
            /\ UNCHANGED <<standardToken, emitted>>

\* The host delivers a Transfer event of a contract.
TransferDelivered ==
    \E event \in Transfers :
        /\ Len(emitted) < MaxTransfers
        /\ emitted' = Append(emitted, event)
        /\ HandleTransfer(event)
        /\ UNCHANGED <<masterChefModel, seen>>

Next == BlockDelivered \/ TransferDelivered

Spec == Init /\ [][Next]_vars

-----------------------------------------------------------------------------

\* The type invariant: each table holds, under an id of its kind, an
\* entity with that id and every field handleBlock or handleTransfer sets.
TypeOK ==
    /\ seen \in Seq(Blocks)
    /\ emitted \in Seq(Transfers)
    /\ DOMAIN masterChefModel \subseteq Hashes
    /\ \A id \in DOMAIN masterChefModel :
          masterChefModel[id] \in [id : {id}, timestamp : 1..MaxTimestamp]
    /\ DOMAIN standardToken \subseteq Contracts
    /\ \A id \in DOMAIN standardToken :
          standardToken[id] \in [id : {id}, from : Parties, to : Parties, value : Values]

\* handleBlock keeps one entity for every block delivered, with the time
\* of that block, however many blocks share a timestamp.
EveryBlockIsKept ==
    /\ DOMAIN masterChefModel = {seen[i].hash : i \in DOMAIN seen}
    /\ \A i \in DOMAIN seen : masterChefModel[seen[i].hash].timestamp = seen[i].timestamp

\* handleTransfer keeps, for a contract, the Transfer it emitted last: the
\* entity is replaced by every later event of the contract and by no event
\* of another.
LastTransferIsKept ==
    \A contract \in Contracts :
        LET mine == SelectSeq(emitted, LAMBDA event : event.address = contract)
        IN  IF mine = <<>>
            THEN contract \notin DOMAIN standardToken
            ELSE /\ contract \in DOMAIN standardToken
                 /\ LET last == mine[Len(mine)].params
                    IN  /\ standardToken[contract].from = last.from
                        /\ standardToken[contract].to = last.to
                        /\ standardToken[contract].value = last.value

=============================================================================
