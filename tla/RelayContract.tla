---------------------------- MODULE RelayContract ----------------------------
(***************************************************************************)
(* The BtcRelay contract as the relayer uses it.  The contract is not in   *)
(* the repository: its behaviour is taken from the calls in                *)
(* src/evm_relay_contract_client.rs and from the fake contract             *)
(* (BranchRelay) the tests of src/sync_engine.rs run against.              *)
(*                                                                         *)
(* The contract keeps one main chain above a checkpoint, and per fork id a *)
(* fork that is not (yet) heavier.  Of each block it stores the hash of a  *)
(* 160-byte stored header: the header, the chainwork and the timestamps of *)
(* earlier blocks.  The hash is collision free, so the stored header       *)
(* stands for it; the timestamps stand for the blocks they come from.      *)
(***************************************************************************)
EXTENDS Chains

CONSTANTS
    Checkpoint,  \* height of the lowest block the contract holds
    ForkIds      \* the fork ids in use: a wall-clock reading each

ASSUME ContractAssumption ==
    /\ Checkpoint \in 0..MaxHeight
    /\ ForkIds \subseteq Nat

VARIABLES
    main,   \* the contract's main chain
    forks   \* fork id -> the fork's chain, or None

contractVars == <<main, forks>>

StoredHeader(block, work, context) ==
    [block |-> block, work |-> work, context |-> context]

Commitment(b) == StoredHeader(b, Work[b], ParentOf(b))

\* getCommitHash: all zero below the checkpoint and above the tip.
CommitAt(h) ==
    IF h \in Checkpoint..Height(main) THEN Commitment(BlockAt(main, h)) ELSE None

\* The compact headers carry no parent hash: the contract fills it in, and the
\* proof of work of a header holds only over its real parent.
Linked(parent, headers) ==
    \A i \in 1..Len(headers) :
        /\ Height(headers[i]) > 0
        /\ ParentOf(headers[i]) = IF i = 1 THEN parent ELSE headers[i - 1]

\* The stored header of a transaction is one that `chain` commits to.
Anchored(chain, tx) ==
    /\ Height(tx.stored.block) >= Checkpoint
    /\ Holds(chain, tx.stored.block)
    /\ tx.stored = Commitment(tx.stored.block)

\* The block a transaction makes the tip of the chain it extends.
TipOf(tx) == tx.headers[Len(tx.headers)]

ForkBase(id) == IF forks[id] = None THEN main ELSE forks[id]

\* submitMainBlockheaders: only on top of the main chain.
AcceptsMain(tx) ==
    /\ tx.kind = "main"
    /\ tx.stored = Commitment(main)
    /\ Linked(tx.stored.block, tx.headers)

\* submitShortForkBlockheaders: from any held block, and heavier than main.
AcceptsShortFork(tx) ==
    /\ tx.kind = "short"
    /\ Anchored(main, tx)
    /\ Linked(tx.stored.block, tx.headers)
    /\ Work[TipOf(tx)] > Work[main]

\* submitForkBlockheaders: continues the fork of that id, or starts one.
AcceptsFork(tx) ==
    /\ tx.kind = "fork"
    /\ Anchored(ForkBase(tx.id), tx)
    /\ Linked(tx.stored.block, tx.headers)

Accepts(tx) == AcceptsMain(tx) \/ AcceptsShortFork(tx) \/ AcceptsFork(tx)

\* A fork becomes the main chain once it is heavier.
Promotes(tx) == AcceptsFork(tx) /\ Work[TipOf(tx)] > Work[main]

Execute(tx) ==
    \/ /\ AcceptsMain(tx) \/ AcceptsShortFork(tx)
       /\ main' = TipOf(tx)
       /\ UNCHANGED forks
    \/ /\ Promotes(tx)
       /\ main' = TipOf(tx)
       /\ forks' = [forks EXCEPT ![tx.id] = None]
    \/ /\ AcceptsFork(tx) /\ ~Promotes(tx)
       /\ forks' = [forks EXCEPT ![tx.id] = TipOf(tx)]
       /\ UNCHANGED main

ContractTypeOK ==
    /\ main \in Chain
    /\ forks \in [ForkIds -> Chain \cup {None}]

ContractInit ==
    /\ main \in {c \in Chain : Height(c) = Checkpoint}
    /\ forks = [id \in ForkIds |-> None]
=============================================================================
