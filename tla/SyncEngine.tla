----------------------------- MODULE SyncEngine -----------------------------
(***************************************************************************)
(* The relayer daemon of src/sync_engine.rs between a Bitcoin node and the *)
(* relay contract.                                                         *)
(*                                                                         *)
(* One action is one RPC (or one read of several values that nothing tells *)
(* apart), so the node may switch branch and a pending transaction may be  *)
(* mined between any two of them.  `pc` is the next RPC, `task` the        *)
(* function on whose behalf it is made:                                    *)
(*    tips    run_poll_cycle / follow_reorg reading the tips               *)
(*    main    process_catchup_range: one batch on top of the relay tip     *)
(*    scan    find_fork_point                                              *)
(*    branch  submit_branch: a short fork, or the batches of a fork        *)
(*    verify  the end of submit_branch: does the relay hold the branch     *)
(*    record  follow_reorg saving the new progress                         *)
(* The stored-header and payload steps are shared by the tasks, as         *)
(* build_stored_header and build_payload_hex are.                          *)
(*                                                                         *)
(* What goes wrong is drawn from one of FaultSets, at most MaxFaults times:*)
(*    retryable / hard  an RPC fails, with a text classify_retry_decision  *)
(*                      finds retryable or not                             *)
(*    lost     the transaction is broadcast and the answer is lost         *)
(*    timeout  the confirmation does not come in time, or asking for it    *)
(*             fails with a retryable text                                 *)
(*    drop     a pending transaction disappears from the mempool           *)
(*    revert   a transaction that passed the estimate fails when mined     *)
(*    save     the state file cannot be written                            *)
(*    crash    the process dies (the supervisor restarts it)               *)
(***************************************************************************)
EXTENDS RelayContract, SyncPolicy, FiniteSets

CONSTANTS
    StartHeight,     \* START_HEIGHT, 0 when unset
    BatchLimit,      \* catchup_batch_size, at least 1
    LiveLag,         \* live_lag_threshold
    ShortForkLimit,  \* short_fork_limit, at least 1
    TsWindow,        \* a stored header needs this many earlier blocks (10)
    FaultSets,       \* sets of kinds of faults, of which a behaviour meets one
    MaxFaults        \* bound on injected faults

ASSUME EngineAssumption ==
    /\ {StartHeight, LiveLag} \subseteq Nat
    /\ {BatchLimit, ShortForkLimit, TsWindow} \subseteq Nat \ {0}
    /\ FaultSets \subseteq SUBSET
           {"retryable", "hard", "lost", "timeout", "drop", "revert", "save",
            "crash"}
    /\ MaxFaults \in Nat
    /\ MaxHeight < MaxU64

\* The None of an Option is none of its values: fork ids, stored headers, holds.
ASSUME OptionAssumption ==
    /\ None \notin ForkIds
    /\ None \notin [block : Chain, work : Nat, context : Chain]
    /\ None \notin (0..MaxHeight) \X (0..MaxHeight)

VARIABLES
    node,      \* the Bitcoin node's active chain
    mempool,   \* the relayer's pending transaction, or None
    receipt,   \* the awaited transaction: none, pending, dropped, ok, reverted
    pc, task,
    btcTip,    \* bitcoin_tip of this cycle
    relayTip,  \* relay_tip as last read
    parent,    \* height of the parent of the next payload, or the height probed
    last,      \* the last height of the payload
    endHash,   \* end_block_hash, read before the payload is built
    commit,    \* relay_commit_hash at the probed height
    stored,    \* the stored header being built
    headers,   \* the compact headers read so far
    forkId,    \* id of the fork being submitted, or None
    hold,      \* SyncLoopState.reorg_hold, or None
    file,      \* the block the state file names, or None
    faults     \* the kinds of faults of this behaviour, and how many are left

tips == <<btcTip, relayTip>>
span == <<parent, last>>
locals == <<tips, span, endHash, commit, stored, headers, forkId>>
vars == <<node, main, forks, mempool, receipt, pc, task, locals, hold, file, faults>>

Blank == StoredHeader(None, 0, None)

Pcs == {"tipBitcoin", "tipRelay", "endHash", "commit", "work", "parent",
        "context", "headers", "send", "wait", "reorgTip", "verifyTip",
        "tipHash", "stopped"}
Tasks == {"tips", "main", "scan", "branch", "verify", "record"}

Tx == [kind : {"main", "short", "fork"}, id : ForkIds \cup {None},
       stored : [block : Chain, work : Nat, context : Chain],
       headers : Seq(Chain) \ {<<>>}]

TypeOK ==
    /\ ContractTypeOK
    /\ node \in Chain
    /\ mempool \in Tx \cup {None}
    /\ receipt \in {"none", "pending", "dropped", "ok", "reverted"}
    /\ pc \in Pcs
    /\ task \in Tasks
    /\ {btcTip, relayTip, parent, last} \subseteq 0..MaxHeight
    /\ {endHash, file} \subseteq Chain \cup {None}
    /\ commit \in [block : Chain, work : Nat, context : Chain] \cup {None}
    /\ stored \in [block : Chain \cup {None}, work : Nat, context : Chain \cup {None}]
    /\ headers \in Seq(Chain)
    /\ forkId \in ForkIds \cup {None}
    /\ hold \in ((0..MaxHeight) \X (0..MaxHeight)) \cup {None}
    /\ faults \in [kinds : FaultSets, left : 0..MaxFaults]

----------------------------------------------------------------------------
\* Control: how a function returns.

\* The payload's locals go out of scope.
ClearPayload ==
    /\ endHash' = None
    /\ commit' = None
    /\ stored' = Blank
    /\ headers' = <<>>
    /\ receipt' = "none"

\* Every local of run_poll_cycle goes out of scope.
Leave(where) ==
    /\ pc' = where
    /\ task' = "tips"
    /\ btcTip' = 0 /\ relayTip' = 0 /\ parent' = 0 /\ last' = 0
    /\ forkId' = None
    /\ ClearPayload

\* run_poll_cycle returns Ok: sleep, then the next cycle.
EndCycle == Leave("tipBitcoin") /\ UNCHANGED hold

\* An error reaches run_sync_loop, which returns: the process ends.
Exit == Leave("stopped") /\ hold' = None

\* Mutant: the pair is remembered with the tips swapped.
HoldMutant == hold' = <<relayTip, btcTip>>

RememberHold == hold' = <<btcTip, relayTip>>

\* The node branch was not followed: no new attempt at this pair of tips.
HoldBranch == Leave("tipBitcoin") /\ RememberHold

\* Start (again) the batch of heights parent+1 .. last on the relay tip.
StartBatch(p, l) ==
    /\ pc' = "endHash"
    /\ task' = "main"
    /\ parent' = p
    /\ last' = l
    /\ forkId' = None
    /\ ClearPayload
    /\ UNCHANGED <<btcTip, hold>>

\* process_catchup_range failed: follow_reorg, with the node tip of this cycle.
EnterReorg ==
    /\ pc' = "reorgTip"
    /\ task' = "tips"
    /\ parent' = 0
    /\ last' = 0
    /\ forkId' = None
    /\ ClearPayload
    /\ UNCHANGED <<tips, hold>>

\* Mutant: every error of a branch attempt is a hard one.
RetryableMutant ==
    \/ task = "main" /\ StartBatch(parent, last) /\ UNCHANGED relayTip
    \/ task \in {"branch", "verify"} /\ HoldBranch
    \/ task \in {"tips", "scan", "record"} /\ Exit

\* A retryable error: the batch is tried again, a branch waits for the next
\* cycle; where the code uses `?` up to run_sync_loop it ends the process.
RetryableError ==
    \/ task = "main" /\ StartBatch(parent, last) /\ UNCHANGED relayTip
    \/ task \in {"branch", "verify"} /\ EndCycle
    \/ task \in {"tips", "scan", "record"} /\ Exit

\* Any other error.
HardError ==
    \/ task = "main" /\ EnterReorg
    \/ task \in {"branch", "verify"} /\ HoldBranch
    \/ task \in {"tips", "scan", "record"} /\ Exit

\* Mutant: a revert is retried.
RevertMutant == RetryableError

\* "A revert is deterministic ... It must reach the reorg path."
RevertError == HardError

----------------------------------------------------------------------------
\* Tip discovery.

ReadBitcoinTip ==
    /\ pc = "tipBitcoin"
    /\ btcTip' = Height(node)
    /\ pc' = "tipRelay"
    /\ UNCHANGED <<task, relayTip, span, endHash, commit, stored, headers, forkId,
                   hold, receipt>>

NextBatchEnd(from) == BatchEnd(from, btcTip, BatchLimit, LiveLag)

Resume == ResumeHeight(Height(main), StartHeight, file # None)

\* Mutants: the reported pair is not looked at; or it is never forgotten.
OnHoldMutant(r) == FALSE
OnHoldForeverMutant(r) == hold # None

\* This pair of tips was reported: "waiting for a new tip".
OnHold(r) == hold = <<btcTip, r>>

\* Up to date, on hold, or the catch-up range is empty (an error: exit).
ReadRelayTip ==
    /\ pc = "tipRelay"
    /\ LET r == Height(main)
       IN  \/ /\ r >= btcTip \/ OnHold(r)
              /\ EndCycle
           \/ /\ r < btcTip
              /\ ~OnHold(r)
              /\ ~RangeExists(r, btcTip, Resume)
              /\ Exit
           \/ /\ ~OnHold(r)
              /\ RangeExists(r, btcTip, Resume)
              /\ relayTip' = r
              /\ LET from == FromHeight(r, Resume)
                 IN  StartBatch(from - 1, NextBatchEnd(from))

----------------------------------------------------------------------------
\* Reading a payload (and the stored header a commitment is compared with).

\* The height the next node RPC asks for.
WantedHeight ==
    CASE pc = "endHash"                  -> last
      [] pc = "work" /\ task = "main"    -> 0
      [] pc = "work" /\ task # "main"    -> parent
      [] pc = "parent"                   -> parent
      [] pc = "context"                  -> parent - 1
      [] pc = "headers"                  -> parent + 1 + Len(headers)
      [] pc = "tipHash"                  -> btcTip
      [] OTHER                           -> 0

NodeHasIt == WantedHeight <= Height(node)

\* "Block height out of range": the node's chain got shorter.
OutOfRange == ~NodeHasIt /\ HardError

ReadEndHash ==
    /\ pc = "endHash" /\ NodeHasIt
    /\ endHash' = BlockAt(node, last)
    /\ pc' = "work"
    /\ UNCHANGED <<task, tips, span, commit, stored, headers, forkId, hold, receipt>>

\* The main chain's payload carries the relay's chainwork, every other one the
\* node's chainwork at the parent.
ReadWork ==
    /\ pc = "work" /\ NodeHasIt
    /\ stored' = [stored EXCEPT !.work =
                      IF task = "main" THEN Work[main] ELSE Work[BlockAt(node, parent)]]
    /\ pc' = "parent"
    /\ UNCHANGED <<task, tips, span, endHash, commit, headers, forkId, hold, receipt>>

\* Below TsWindow there are too few earlier blocks: a hard error.
ReadParent ==
    /\ pc = "parent" /\ NodeHasIt
    /\ \/ /\ parent >= TsWindow
          /\ stored' = [stored EXCEPT !.block = BlockAt(node, parent)]
          /\ pc' = "context"
          /\ UNCHANGED <<task, tips, span, endHash, commit, headers, forkId, hold, receipt>>
       \/ parent < TsWindow /\ HardError

\* The timestamps of the earlier blocks and of the epoch start complete the
\* stored header of a payload.
ReadContext ==
    /\ pc = "context" /\ NodeHasIt
    /\ task \in {"main", "branch"}
    /\ stored' = [stored EXCEPT !.context = BlockAt(node, parent - 1)]
    /\ pc' = "headers"
    /\ UNCHANGED <<task, tips, span, endHash, commit, headers, forkId, hold, receipt>>

ReadHeader ==
    /\ pc = "headers" /\ NodeHasIt
    /\ headers' = Append(headers, BlockAt(node, parent + 1 + Len(headers)))
    /\ pc' = IF parent + Len(headers) + 1 = last THEN "send" ELSE "headers"
    /\ UNCHANGED <<task, tips, span, endHash, commit, stored, forkId, hold, receipt>>

----------------------------------------------------------------------------
\* Sending and waiting for the confirmation.

Kind == IF task = "main" THEN "main" ELSE IF forkId = None THEN "short" ELSE "fork"

ThisTx == [kind |-> Kind, id |-> forkId, stored |-> stored, headers |-> headers]

\* Gas estimation runs the transaction: one that would revert is not sent.
\* The nonce is the number of mined transactions (the EVM client's default), so
\* a transaction still pending is replaced ...
Send ==
    /\ pc = "send"
    /\ Accepts(ThisTx)
    /\ mempool' = ThisTx
    /\ receipt' = "pending"
    /\ pc' = "wait"
    /\ UNCHANGED <<task, tips, span, endHash, commit, stored, headers, forkId, hold>>

\* ... or the new one is refused ("replacement transaction underpriced",
\* "already known"), which no marker finds retryable.
Refused ==
    /\ pc = "send"
    /\ Accepts(ThisTx)
    /\ mempool # None
    /\ HardError
    /\ UNCHANGED mempool

RejectedByEstimate ==
    /\ pc = "send"
    /\ ~Accepts(ThisTx)
    /\ RevertError
    /\ UNCHANGED mempool

\* Mutant: a mined transaction counts as landed whatever its status.
LandedMutant == receipt \in {"ok", "reverted"}

Landed == receipt = "ok"

\* "transaction reverted on-chain"
Reverted ==
    /\ pc = "wait" /\ receipt = "reverted" /\ ~Landed
    /\ RevertError

\* Mutant: the state file takes the last height of the range, not of the batch.
SavedMutant(b) == BlockAt(node, Least(btcTip, Height(node)))

Saved(b) == b

\* A main batch landed: save, then the next batch or the end of the range.
MainConfirmed ==
    /\ pc = "wait" /\ Landed /\ task = "main"
    /\ file' = Saved(endHash)
    /\ \/ /\ last < btcTip
          /\ StartBatch(last, NextBatchEnd(last + 1))
          /\ UNCHANGED relayTip
       \/ /\ last = btcTip
          /\ EndCycle

\* A branch transaction landed: the next batch of the fork, or the verification.
BranchConfirmed ==
    /\ pc = "wait" /\ Landed /\ task = "branch"
    /\ ClearPayload
    /\ \/ /\ last < btcTip
          /\ pc' = "work"
          /\ parent' = last
          /\ last' = ForkBatchEnd(last, btcTip, BatchLimit)
          /\ UNCHANGED <<task, forkId>>
       \/ /\ last = btcTip
          /\ pc' = "verifyTip"
          /\ task' = "verify"
          /\ parent' = btcTip
          /\ last' = 0
          /\ forkId' = None
    /\ UNCHANGED <<tips, hold>>

----------------------------------------------------------------------------
\* follow_reorg: find the fork point, submit the branch, verify, record.

\* find_fork_point starts at the lower of the two tips.
Top == Least(relayTip, btcTip)

Probe(h) ==
    /\ pc' = "commit"
    /\ parent' = h
    /\ ClearPayload

ReadReorgTip ==
    /\ pc = "reorgTip"
    /\ relayTip' = Height(main)
    /\ task' = "scan"
    /\ Probe(Least(Height(main), btcTip))
    /\ UNCHANGED <<btcTip, last, forkId, hold>>

\* relay_holds_node_block says None too low for a stored header or where the
\* relay has no commitment; neither the scan nor the verification can go on.
ReadCommit ==
    /\ pc = "commit"
    /\ \/ /\ parent < TsWindow
          /\ HoldBranch
       \/ /\ parent >= TsWindow
          /\ CommitAt(parent) = None
          /\ HoldBranch
       \/ /\ parent >= TsWindow
          /\ CommitAt(parent) # None
          /\ commit' = CommitAt(parent)
          /\ pc' = "work"
          /\ UNCHANGED <<task, tips, span, endHash, stored, headers, forkId, hold, receipt>>

\* The fork id is the clock's reading, so no transaction before this attempt
\* carries it.  Ids of ForkIds that no pending transaction carries stand for
\* such readings: nothing can refer to what the contract holds under the old
\* reading any more, and the slot is the new reading's.
FreshIds == ForkIds \ {tx.id : tx \in {mempool} \ {None}}

IsNextId(id) == id \in FreshIds /\ \A j \in FreshIds : id <= j

\* Mutant: one fixed id, so the fork of an earlier attempt is continued.
NewSlotMutant(id) == forks

NewSlot(id) == [forks EXCEPT ![id] = None]

\* submit_branch above forkPoint.
StartBranch(forkPoint) ==
    /\ task' = "branch"
    /\ pc' = "work"
    /\ parent' = forkPoint
    /\ ClearPayload
    /\ \/ /\ UsesShortFork(forkPoint, btcTip, ShortForkLimit)
          /\ last' = btcTip
          /\ UNCHANGED <<forkId, forks>>
       \/ /\ ~UsesShortFork(forkPoint, btcTip, ShortForkLimit)
          /\ last' = ForkBatchEnd(forkPoint, btcTip, BatchLimit)
          /\ \E id \in ForkIds :
                 /\ IsNextId(id)
                 /\ forkId' = id
                 /\ forks' = NewSlot(id)
    /\ UNCHANGED <<tips, hold>>

\* Mutant: agreement at `top` is taken for a fork point like any other.
NoReorgMutant == FALSE

\* The relay holds the node's block at `top`: it is on the node's chain.
NoReorg == parent = Top

\* Mutant: the height of the relay's tip is verification enough.
AgreesMutant(full) == task = "verify" \/ commit = full

\* The commitment of the stored header is the one the relay returned.
Agrees(full) == commit = full

\* The last read of a scan's or the verification's stored header, and the
\* comparison.  Agreement at `top`: there is no reorg, the main error stands.
Compare ==
    /\ pc = "context" /\ NodeHasIt
    /\ task \in {"scan", "verify"}
    /\ LET full == [stored EXCEPT !.context = BlockAt(node, parent - 1)]
       IN  \/ /\ task = "scan" /\ Agrees(full) /\ NoReorg
              /\ Exit
              /\ UNCHANGED forks
           \/ /\ task = "scan" /\ Agrees(full) /\ ~NoReorg
              /\ StartBranch(parent)
           \/ /\ task = "scan" /\ ~Agrees(full)
              /\ Probe(parent - 1)
              /\ UNCHANGED <<task, tips, last, forkId, hold, forks>>
           \/ /\ task = "verify" /\ Agrees(full)
              /\ task' = "record"
              /\ pc' = "tipHash"
              /\ stored' = full
              /\ UNCHANGED <<tips, span, endHash, commit, headers, forkId, hold,
                             receipt, forks>>
           \/ /\ task = "verify" /\ ~Agrees(full)
              /\ HoldBranch
              /\ UNCHANGED forks

\* "A fork with less work stays off the main chain and does not revert."
ReadVerifyTip ==
    /\ pc = "verifyTip"
    /\ \/ /\ Height(main) >= btcTip
          /\ Probe(btcTip)
          /\ UNCHANGED <<task, tips, last, forkId, hold>>
       \/ /\ Height(main) < btcTip
          /\ HoldBranch

RecordProgress ==
    /\ pc = "tipHash" /\ NodeHasIt
    /\ file' = BlockAt(node, btcTip)
    /\ EndCycle

----------------------------------------------------------------------------
\* What goes wrong.

Fault(kind) ==
    /\ kind \in faults.kinds
    /\ faults.left > 0
    /\ faults' = [faults EXCEPT !.left = @ - 1]

\* Any RPC of the daemon fails; a pending transaction stays pending.
RpcFault ==
    /\ pc \notin {"stopped", "tipHash"}
    /\ \/ pc # "wait" /\ Fault("retryable") /\ RetryableError
       \/ Fault("hard") /\ HardError
    /\ UNCHANGED <<node, main, forks, mempool, file>>

\* The read or the save at the end of follow_reorg fails: `?`.
RecordFault ==
    /\ pc = "tipHash"
    /\ Fault("retryable") \/ Fault("hard") \/ Fault("save")
    /\ Exit
    /\ UNCHANGED <<node, main, forks, mempool, file>>

\* The node of the EVM chain takes the transaction, its answer is lost.
SendLost ==
    /\ pc = "send"
    /\ Accepts(ThisTx)
    /\ Fault("lost")
    /\ mempool' = ThisTx
    /\ RetryableError
    /\ UNCHANGED <<node, main, forks, file>>

\* "timed out waiting for tx confirmation", or the poll of the receipt fails,
\* whatever became of the transaction.
Timeout ==
    /\ pc = "wait" /\ receipt # "dropped"
    /\ Fault("timeout")
    /\ RetryableError
    /\ UNCHANGED <<node, main, forks, mempool, file>>

\* The receipt of a dropped transaction stays null until the deadline passes.
TimeoutOfDropped ==
    /\ pc = "wait" /\ receipt = "dropped"
    /\ UNCHANGED faults
    /\ RetryableError
    /\ UNCHANGED <<node, main, forks, mempool, file>>

\* The batch landed and the save fails: an error like any other of the catch-up.
SaveFault ==
    /\ pc = "wait" /\ Landed /\ task = "main"
    /\ Fault("save")
    /\ EnterReorg
    /\ UNCHANGED <<node, main, forks, mempool, file>>

Crash ==
    /\ pc # "stopped"
    /\ Fault("crash")
    /\ Exit
    /\ UNCHANGED <<node, main, forks, mempool, file>>

\* The container's restart policy: a new process, with nothing in memory.
Restart ==
    /\ pc = "stopped"
    /\ EndCycle
    /\ UNCHANGED <<node, main, forks, mempool, file, faults>>

----------------------------------------------------------------------------
\* The environment.

\* The node's chain grows or is replaced by a heavier one.
NodeAdvance ==
    /\ \E c \in Chain :
           /\ Work[c] > Work[node]
           /\ node' = c
    /\ UNCHANGED <<main, forks, mempool, receipt, pc, task, locals, hold, file, faults>>

\* Nobody else writes to the contract, so a transaction that passed the
\* estimate is still acceptable; it may fail for another reason (gas).
MineTx ==
    /\ mempool # None
    /\ \/ /\ Execute(mempool)
          /\ receipt' = IF receipt = "pending" THEN "ok" ELSE receipt
          /\ UNCHANGED faults
       \/ /\ Fault("revert")
          /\ UNCHANGED contractVars
          /\ receipt' = IF receipt = "pending" THEN "reverted" ELSE receipt
    /\ mempool' = None
    /\ UNCHANGED <<node, pc, task, locals, hold, file>>

\* A pending transaction vanishes.
DropTx ==
    /\ mempool # None
    /\ mempool' = None
    /\ Fault("drop")
    /\ receipt' = IF receipt = "pending" THEN "dropped" ELSE receipt
    /\ UNCHANGED <<node, main, forks, pc, task, locals, hold, file>>

----------------------------------------------------------------------------
Init ==
    /\ ContractInit
    /\ node = main
    /\ mempool = None
    /\ receipt = "none"
    /\ pc = "tipBitcoin" /\ task = "tips"
    /\ btcTip = 0 /\ relayTip = 0 /\ parent = 0 /\ last = 0
    /\ endHash = None /\ commit = None /\ stored = Blank /\ headers = <<>>
    /\ forkId = None /\ hold = None /\ file = None
    /\ faults \in [kinds : FaultSets, left : {MaxFaults}]

\* Steps of the daemon that only read.
ReadStep ==
    /\ \/ ReadBitcoinTip \/ ReadRelayTip
       \/ ReadEndHash \/ ReadWork \/ ReadParent \/ ReadContext \/ ReadHeader
       \/ ReadReorgTip \/ ReadCommit \/ ReadVerifyTip
       \/ Reverted \/ BranchConfirmed \/ OutOfRange
    /\ UNCHANGED <<node, main, forks, mempool, file, faults>>

WriteStep ==
    \/ (Send \/ Refused \/ RejectedByEstimate) /\ UNCHANGED <<node, main, forks, file, faults>>
    \/ (MainConfirmed \/ RecordProgress) /\ UNCHANGED <<node, main, forks, mempool, faults>>
    \/ Compare /\ UNCHANGED <<node, main, mempool, file, faults>>

Daemon == ReadStep \/ WriteStep

Misfortune == RpcFault \/ RecordFault \/ SendLost \/ Timeout \/ TimeoutOfDropped \/ SaveFault \/ Crash

Environment == NodeAdvance \/ MineTx \/ DropTx

Next == Daemon \/ Misfortune \/ Restart \/ Environment

Spec == Init /\ [][Next]_vars

\* The daemon is one thread that runs until its process ends; the supervisor
\* restarts it; a transaction the EVM chain holds is mined at some time; and
\* the deadline of a confirmation passes.
Fairness ==
    /\ WF_vars(Daemon)
    /\ WF_vars(TimeoutOfDropped)
    /\ WF_vars(Restart)
    /\ WF_vars(MineTx)

FairSpec == Spec /\ Fairness

----------------------------------------------------------------------------
\* Safety.

\* The unsigned subtractions and the loops of the payload builder are in
\* range: no batch, short fork or fork batch is empty, none reaches above the
\* node tip of the cycle (so `end - fork_point` cannot wrap and the checks at
\* the head of process_submit_batch never fire), no header is read twice, and
\* the scan stays at or below both tips.
RangeSafe ==
    /\ task \in {"main", "branch"} => parent < last /\ last <= btcTip
    /\ pc = "headers" => parent + Len(headers) < last
    /\ pc \in {"send", "wait"} => parent + Len(headers) = last
    /\ task = "scan" => parent <= Top

\* No height is submitted twice and none is left out: a main batch starts at
\* or above the relay tip this cycle read, and its parent is on the relay.
\* (Blocks of equal work; START_HEIGHT at most one above the checkpoint.)
BatchAnchored == task = "main" => relayTip <= parent /\ parent <= Height(main)

\* The state file never runs ahead of the relay: the height it names has
\* landed, through timeouts, crashes and restarts.  (Blocks of equal work.)
SavedNotAhead == file # None => Height(file) <= Height(main)

\* A branch reported as not followed is not tried again while neither tip
\* moves, not even by a cycle that first submits on top of the relay tip.
\* (Blocks of equal work.)
NoRepeatedAttempt ==
    task \in {"main", "scan", "branch", "verify"} => hold # <<btcTip, relayTip>>

\* What the verification saw is still so when the progress is saved: the relay
\* commits to the node block the daemon compared, whatever earlier
\* transactions of its own were mined in between.
VerifiedStays == task = "record" => CommitAt(btcTip) = stored

\* The fork a batch extends is this attempt's: the contract holds nothing under
\* its id, or the batches of this attempt up to the parent.
ForkIsThisAttempts ==
    task = "branch" /\ forkId # None /\ receipt = "none" =>
        forks[forkId] = None \/ Height(forks[forkId]) = parent

\* The relay and the node share a block the relay can build a fork on.
Joined ==
    \E h \in Greatest(Checkpoint, TsWindow)..Least(Height(main), Height(node)) :
        BlockAt(main, h) = BlockAt(node, h)

\* No hard RPC error, and no fault that leaves a transaction behind for the next
\* one to be refused over.
CleanFaults == faults.kinds \subseteq {"retryable", "drop", "save"}

\* A hold in force is right: the node's branch starts below what the relay can
\* follow.  A failed attempt alone never silences the daemon for these tips.
\* (Blocks of equal work, and behaviours with clean faults.)
HoldJustified == CleanFaults /\ hold = <<Height(node), Height(main)>> => ~Joined

\* What those who read the contract, and a process that starts again, can rely
\* on, through every fault: the relay moves to heavier chains only, never to one
\* heavier than the node's and never off its checkpoint, and the progress on disk
\* is at a height the relay has; with blocks of equal work it rises.
Ledger == INSTANCE RelayLedger WITH relay <- main, saved <- file, Base <- Checkpoint

KeepsLedger == Ledger!Spec

\* A saved block is one the relay holds when it is saved.
SavedBlockLanded == [][file' # file => Holds(main, file')]_vars

----------------------------------------------------------------------------
\* Liveness.

\* Every poll cycle ends: a batch that can only revert is not retried for ever.
CycleEnds == pc = "tipRelay" ~> pc \in {"tipBitcoin", "stopped"}

\* "Never returns unless something fatals": while the node's chain goes on holding the
\* relay's tip, however it grows or is replaced above it, the process does not end.
\* Checked where nothing but the hazard in question happens.
StaysUp == []Holds(node, main) => [](pc # "stopped")

\* Once the node rests, the relay ends at its height, whatever reorgs, faults and
\* crashes came before, unless the branches are disjoint above the checkpoint or the
\* daemon has reported the node's branch as not followed at just these tips: nothing
\* but a hold leaves a daemon that runs behind.
Converges ==
    <>[](\/ Height(main) >= Height(node) \/ ~Joined
         \/ hold = <<Height(node), Height(main)>>)
=============================================================================
