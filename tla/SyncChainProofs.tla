-------------------------- MODULE SyncChainProofs ---------------------------
(***************************************************************************)
(* What the daemon's reads and writes come to on the two chains.           *)
(*                                                                         *)
(* The ledger, for every assignment of work.  What the contract holds goes *)
(* through the block it was set up with (BaseOK) and has been on the       *)
(* node's chain or below its work (SeenOK); a batch that landed is what    *)
(* the relay ends with (LandedOK).  So SyncEngine implements RelayLedger.  *)
(*                                                                         *)
(* What a remembered pair of tips (reorg_hold) says, for blocks of equal   *)
(* work.  The tips rise, so a pair of them does not come back (HoldKept);  *)
(* and a chain whose tip is still as high as it was read is still the      *)
(* chain that was read, so an attempt which fails without an error to      *)
(* blame has failed for a reason (HoldInv).                                *)
(***************************************************************************)
EXTENDS SyncEngineProofs

----------------------------------------------------------------------------
\* The ledger, for every assignment of work.

\* What the contract holds goes through the block it was set up with.
OnBase(c) == Height(c) >= Checkpoint /\ BlockAt(c, Checkpoint) = BlockAt(main, Checkpoint)

BaseOK ==
    /\ OnBase(main)
    /\ \A id \in ForkIds : forks[id] # None => OnBase(forks[id])
    /\ mempool # None /\ mempool.kind = "fork" => mempool.id \in ForkIds

\* The node has had what the daemon and the contract hold of it, so its chain is
\* as heavy.
Seen(c) == Work[c] <= Work[node]

SeenOK ==
    /\ Seen(main)
    /\ \A i \in 1..Len(headers) : Seen(headers[i])
    /\ mempool # None => \A i \in 1..Len(mempool.headers) : Seen(mempool.headers[i])
    /\ endHash # None => Seen(endHash)

\* A main batch that landed is what the relay ends with.
LandedOK ==
    /\ Followed
    /\ receipt = "ok" /\ task = "main" => Height(main) = last

Following == pc = "reorgTip" \/ task \in {"scan", "branch", "verify", "record"}

\* The progress on disk is below what the daemon is about to save.
SavedBehind ==
    file # None =>
        /\ task = "main" => Height(file) <= parent
        /\ Following => Height(file) < btcTip

LedgerOK ==
    /\ BaseOK /\ SeenOK /\ LandedOK
    /\ EqualWork => Progress /\ SavedBehind

\* --- the block the relay was set up with

LEMMA BaseTypes ==
    ASSUME IInv
    PROVE  /\ main \in Chain /\ node \in Chain
           /\ Height(main) \in Nat /\ Height(node) \in Nat /\ Checkpoint \in Nat
           /\ Work[main] \in Nat /\ Work[node] \in Nat
  BY ChainIsSeq, HeightAssumption, ContractAssumption, WorkAssumption DEF IInv, WorldOK

\* A transaction extends a chain above its base.
LEMMA TipOnBase ==
    ASSUME IInv, NEW tx \in Tx, NEW c \in Chain, OnBase(c), Anchored(c, tx),
           Linked(tx.stored.block, tx.headers)
    PROVE  /\ TipOf(tx) \in Chain /\ OnBase(TipOf(tx))
           /\ Work[tx.stored.block] < Work[TipOf(tx)]
<1> DEFINE b == tx.stored.block
           t == TipOf(tx)
<1>1. b \in Chain /\ tx.headers \in Seq(Chain) /\ tx.headers # <<>>
  BY DEF Tx
<1>2. /\ t \in Chain /\ Height(t) = Height(b) + Len(tx.headers) /\ BlockAt(t, Height(b)) = b
      /\ Len(tx.headers) \in Nat \ {0}
  BY <1>1, LinkedTip DEF TipOf
<1>3. Height(b) >= Checkpoint /\ Height(b) <= Height(c) /\ BlockAt(c, Height(b)) = b
  BY DEF Anchored, Holds
<1> HIDE DEF b, t
<1>4. /\ Height(b) \in 0..Height(t) /\ Height(b) \in 0..Height(c) /\ Height(b) < Height(t)
      /\ Checkpoint \in 0..Height(b) /\ Height(t) >= Checkpoint
  BY <1>1, <1>2, <1>3, ChainIsSeq, HeightAssumption, ContractAssumption
<1>5. BlockAt(t, Checkpoint) = BlockAt(b, Checkpoint)
  BY <1>2, <1>4, NestedBlock
<1>6. BlockAt(c, Checkpoint) = BlockAt(b, Checkpoint)
  BY <1>3, <1>4, NestedBlock
<1>7. Work[b] < Work[t]
  BY <1>2, <1>4, WorkBelow
<1> QED
  BY <1>2, <1>4, <1>5, <1>6, <1>7 DEF OnBase, t, b

\* Mined: a chain that takes over is heavier and on the base, and so is a fork.
LEMMA MinedOnBase ==
    ASSUME IInv, BaseOK, mempool # None, Execute(mempool)
    PROVE  /\ main' # main => /\ Work[main] < Work[main'] /\ OnBase(main')
                              /\ main' = TipOf(mempool)
           /\ \A id \in ForkIds : forks'[id] # None => OnBase(forks'[id])
<1> DEFINE t == TipOf(mempool)
           id == mempool.id
<1>1. mempool \in Tx
  BY DEF IInv, WorldOK
<1>2. CASE AcceptsMain(mempool) /\ main' = t /\ UNCHANGED forks
  <2>1. mempool.stored = Commitment(main) /\ mempool.stored.block = main
    BY <1>2 DEF AcceptsMain, Commitment, StoredHeader
  <2>2. Anchored(main, mempool)
    BY <2>1, BaseTypes, WholeChain DEF Anchored, Holds, BaseOK, OnBase
  <2>3. OnBase(t) /\ Work[main] < Work[t]
    BY <1>1, <1>2, <2>1, <2>2, BaseTypes, TipOnBase DEF AcceptsMain, BaseOK
  <2> QED
    BY <1>2, <2>3 DEF BaseOK
<1>3. CASE AcceptsShortFork(mempool) /\ main' = t /\ UNCHANGED forks
  <2>1. OnBase(t)
    BY <1>1, <1>3, BaseTypes, TipOnBase DEF AcceptsShortFork, BaseOK
  <2>2. t \in Chain
    BY <1>1, <1>3, BaseTypes, TipOnBase DEF AcceptsShortFork, BaseOK
  <2>3. Work[t] > Work[main] /\ Work[t] \in Nat
    BY <1>3, <2>2, WorkAssumption DEF AcceptsShortFork
  <2> QED
    BY <1>3, <2>1, <2>3, BaseTypes DEF BaseOK
<1>4. CASE AcceptsFork(mempool)
  <2>1. id \in ForkIds
    BY <1>4 DEF AcceptsFork, BaseOK
  <2>2. OnBase(t) /\ t \in Chain
    <3>1. CASE id \in ForkIds /\ forks[id] # None
      <4>1. OnBase(forks[id]) /\ forks[id] \in Chain /\ ForkBase(id) = forks[id]
        BY <3>1 DEF BaseOK, IInv, WorldOK, ForkBase
      <4> QED
        BY <1>1, <1>4, <4>1, TipOnBase DEF AcceptsFork
    <3>2. CASE forks[id] = None
      <4>1. ForkBase(id) = main
        BY <3>2 DEF ForkBase
      <4> QED
        BY <1>1, <1>4, <4>1, BaseTypes, TipOnBase DEF AcceptsFork, BaseOK
    <3> QED
      BY <2>1, <3>1, <3>2
  <2>3. CASE Work[t] > Work[main] /\ main' = t /\ forks' = [forks EXCEPT ![id] = None]
    <3>1. Work[t] \in Nat
      BY <2>2, WorkAssumption
    <3>2. \A i \in ForkIds : forks'[i] # None => forks'[i] = forks[i]
      BY <2>1, <2>3 DEF IInv, WorldOK
    <3> QED
      BY <2>2, <2>3, <3>1, <3>2, BaseTypes DEF BaseOK
  <2>4. CASE UNCHANGED main /\ forks' = [forks EXCEPT ![id] = t]
    <3>1. \A i \in ForkIds : forks'[i] \in {forks[i], t}
      BY <2>1, <2>4 DEF IInv, WorldOK
    <3> QED
      BY <2>2, <2>4, <3>1 DEF BaseOK
  <2> QED
    BY <1>4, <2>3, <2>4 DEF Execute, Promotes, AcceptsFork, AcceptsMain, AcceptsShortFork
<1> QED
  BY <1>2, <1>3, <1>4 DEF Execute, Promotes

\* Of the daemon's steps only a new fork id touches any of it, and a broadcast.
LEMMA DaemonBaseOK ==
    ASSUME IInv, BaseOK, Daemon \/ Misfortune \/ Restart
    PROVE  BaseOK'
<1>1. UNCHANGED main
  BY DEF Daemon, ReadStep, WriteStep, Misfortune, RpcFault, RecordFault, SendLost, Timeout,
         TimeoutOfDropped, SaveFault, Crash, Restart
<1>2. mempool' \in {mempool, ThisTx}
  BY DEF Daemon, ReadStep, WriteStep, Send, Refused, RejectedByEstimate, Misfortune, RpcFault,
         RecordFault, SendLost, Timeout, TimeoutOfDropped, SaveFault, Crash, Restart
<1>3. ThisTx.kind = "fork" => ThisTx.id \in ForkIds
  BY DEF ThisTx, Kind, IInv, DaemonOK, LocalsOK
<1>4. \A id \in ForkIds : forks'[id] \in {forks[id], None}
  <2>1. UNCHANGED forks \/ \E id \in ForkIds : forks' = NewSlot(id)
    BY DEF Daemon, ReadStep, WriteStep, Compare, StartBranch, Misfortune, RpcFault,
           RecordFault, SendLost, Timeout, TimeoutOfDropped, SaveFault, Crash, Restart
  <2> QED
    BY <2>1 DEF NewSlot, IInv, WorldOK
<1> QED
  BY <1>1, <1>2, <1>3, <1>4 DEF BaseOK, OnBase

LEMMA EnvironmentBaseOK ==
    ASSUME IInv, BaseOK, Environment \/ UNCHANGED vars
    PROVE  BaseOK'
<1>1. CASE MineTx /\ Execute(mempool)
  <2>1. /\ main' # main => OnBase(main')
        /\ \A id \in ForkIds : forks'[id] # None => OnBase(forks'[id])
    BY <1>1, MinedOnBase DEF MineTx
  <2> QED
    BY <1>1, <2>1 DEF MineTx, BaseOK, OnBase
<1>2. CASE UNCHANGED <<main, forks>> /\ mempool' \in {mempool, None}
  BY <1>2 DEF BaseOK, OnBase
<1> QED
  BY <1>1, <1>2 DEF Environment, NodeAdvance, MineTx, DropTx, contractVars, vars

\* --- what the node has had

LEMMA ReadIsSeen ==
    ASSUME IInv, NEW h \in 0..Height(node)
    PROVE  Seen(BlockAt(node, h))
  BY WorkBelow DEF Seen, IInv, WorldOK

LEMMA ReturnClears ==
    ASSUME RetryableError \/ HardError \/ EndCycle \/ Exit \/ HoldBranch \/ EnterReorg
    PROVE  headers' = <<>> /\ endHash' = None
  BY DEF RetryableError, HardError, EndCycle, Exit, HoldBranch, EnterReorg, StartBatch, Leave,
         ClearPayload

\* What is left of the payload after a step that reads none of it.
LEMMA DaemonPayload ==
    ASSUME Daemon \/ Misfortune \/ Restart, ~ReadHeader, ~ReadEndHash
    PROVE  headers' \in {headers, <<>>} /\ endHash' \in {endHash, None}
<1>1. CASE RetryableError \/ HardError \/ EndCycle \/ Exit \/ HoldBranch \/ EnterReorg
  BY <1>1, ReturnClears
<1>2. CASE ReadStep
  BY <1>1, <1>2
  DEF ReadStep, ReadBitcoinTip, ReadRelayTip, ReadWork, ReadParent, ReadContext, ReadReorgTip,
      ReadCommit, ReadVerifyTip, Reverted, RevertError, BranchConfirmed, OutOfRange, Probe,
      StartBatch, ClearPayload
<1>3. CASE WriteStep
  BY <1>1, <1>3
  DEF WriteStep, Send, Refused, RejectedByEstimate, RevertError, MainConfirmed,
      RecordProgress, Compare, StartBranch, Probe, StartBatch, ClearPayload
<1>4. CASE Misfortune \/ Restart
  BY <1>1, <1>4
  DEF Misfortune, RpcFault, RecordFault, SendLost, Timeout, TimeoutOfDropped, SaveFault,
      Crash, Restart
<1> QED
  BY <1>2, <1>3, <1>4 DEF Daemon

LEMMA ReadHeaderSeen ==
    ASSUME IInv, SeenOK, ReadHeader
    PROVE  \A i \in 1..Len(headers') : Seen(headers'[i])
<1> USE HeightAssumption DEF ReadHeader, IInv, DaemonOK
<1> DEFINE h == parent + 1 + Len(headers)
<1>1. parent \in 0..MaxHeight /\ headers \in Seq(Chain) /\ Len(headers) \in Nat
  BY LenProperties DEF LocalsOK
<1>2. h \in 0..Height(node)
  BY <1>1, BaseTypes DEF NodeHasIt, WantedHeight
<1>3. Seen(BlockAt(node, h)) /\ BlockAt(node, h) \in Chain
  BY <1>2, ReadIsSeen, BlockAtIsChain DEF WorldOK
<1>4. /\ Len(headers') = Len(headers) + 1
      /\ \A i \in 1..Len(headers) : headers'[i] = headers[i]
      /\ headers'[Len(headers) + 1] = BlockAt(node, h)
  BY <1>1, <1>3, AppendProperties
<1>5. SUFFICES ASSUME NEW i \in 1..Len(headers') PROVE Seen(headers'[i])
  OBVIOUS
<1>6. i \in 1..Len(headers) \/ i = Len(headers) + 1
  BY <1>1, <1>4
<1> QED
  BY <1>3, <1>4, <1>6 DEF SeenOK

LEMMA DaemonSeenOK ==
    ASSUME IInv, SeenOK, Daemon \/ Misfortune \/ Restart
    PROVE  SeenOK'
<1>1. UNCHANGED <<node, main>>
  BY DEF Daemon, ReadStep, WriteStep, Misfortune, RpcFault, RecordFault, SendLost, Timeout,
         TimeoutOfDropped, SaveFault, Crash, Restart
<1>2. mempool' # None => \A i \in 1..Len(mempool'.headers) : Seen(mempool'.headers[i])
  <2>1. mempool' \in {mempool, ThisTx}
    BY DEF Daemon, ReadStep, WriteStep, Send, Refused, RejectedByEstimate, Misfortune,
           RpcFault, RecordFault, SendLost, Timeout, TimeoutOfDropped, SaveFault, Crash, Restart
  <2> QED
    BY <2>1 DEF SeenOK, ThisTx
<1>3. \A i \in 1..Len(headers') : Seen(headers'[i])
  <2>1. CASE ReadHeader
    BY <2>1, ReadHeaderSeen
  <2>2. CASE ReadEndHash
    BY <2>2 DEF ReadEndHash, SeenOK
  <2>3. CASE ~ReadHeader /\ ~ReadEndHash
    BY <2>3, DaemonPayload, EmptySeq DEF SeenOK
  <2> QED
    BY <2>1, <2>2, <2>3
<1>4. endHash' # None => Seen(endHash')
  <2>1. CASE ReadEndHash
    <3>1. last \in 0..Height(node)
      BY <2>1, HeightAssumption, BaseTypes
      DEF ReadEndHash, NodeHasIt, WantedHeight, IInv, DaemonOK, LocalsOK
    <3> QED
      BY <2>1, <3>1, ReadIsSeen DEF ReadEndHash
  <2>2. CASE ReadHeader
    BY <2>2 DEF ReadHeader, SeenOK
  <2>3. CASE ~ReadHeader /\ ~ReadEndHash
    BY <2>3, DaemonPayload DEF SeenOK
  <2> QED
    BY <2>1, <2>2, <2>3
<1> QED
  BY <1>1, <1>2, <1>3, <1>4 DEF SeenOK, Seen

\* The node only gets heavier, and the relay takes over what was broadcast.
LEMMA EnvironmentSeenOK ==
    ASSUME IInv, BaseOK, SeenOK, Environment \/ UNCHANGED vars
    PROVE  SeenOK'
<1>1. UNCHANGED <<headers, endHash>> /\ mempool' \in {mempool, None}
  BY DEF Environment, NodeAdvance, MineTx, DropTx, vars, locals
<1>2. main' # main => Seen(main')
  <2>1. SUFFICES ASSUME main' # main PROVE Seen(main')
    OBVIOUS
  <2>2. mempool # None /\ Execute(mempool)
    BY <2>1 DEF Environment, NodeAdvance, MineTx, DropTx, vars, contractVars
  <2>3. main' = TipOf(mempool)
    BY <2>1, <2>2, MinedOnBase
  <2>4. Len(mempool.headers) \in 1..Len(mempool.headers)
    BY <2>2, LenProperties, EmptySeq DEF IInv, WorldOK, Tx
  <2> QED
    BY <2>2, <2>3, <2>4 DEF SeenOK, TipOf
<1>3. CASE UNCHANGED node
  BY <1>1, <1>2, <1>3 DEF SeenOK, Seen
<1>4. CASE node' # node
  <2>1. UNCHANGED main /\ node' \in Chain /\ Work[node'] > Work[node]
    BY <1>4 DEF Environment, NodeAdvance, MineTx, DropTx, vars
  <2>2. Work[node'] \in Nat /\ Work[node] \in Nat
    BY <2>1, BaseTypes, WorkAssumption
  <2>3. \A c \in Chain : Seen(c) => Work[c] <= Work[node']
    BY <2>1, <2>2, WorkAssumption DEF Seen
  <2>4. /\ main \in Chain /\ \A i \in 1..Len(headers) : headers[i] \in Chain
        /\ mempool # None => \A i \in 1..Len(mempool.headers) : mempool.headers[i] \in Chain
        /\ endHash # None => endHash \in Chain
    BY ElementOfSeq DEF IInv, WorldOK, Tx, DaemonOK, LocalsOK
  <2> QED
    BY <1>1, <2>1, <2>3, <2>4 DEF SeenOK, Seen
<1> QED
  BY <1>3, <1>4

\* --- what a landed batch leaves the relay with

LEMMA QuietLanded ==
    ASSUME Quiet'
    PROVE  LandedOK'
  BY DEF Quiet, LandedOK, Followed

LEMMA DaemonLandedOK ==
    ASSUME IInv, LandedOK, Daemon \/ Misfortune \/ Restart
    PROVE  LandedOK'
<1> USE DEF LandedOK
<1>1. CASE ReadStep
  BY <1>1, ReadStepQuiet, QuietLanded
<1>2. CASE Send /\ UNCHANGED main
  BY <1>2 DEF Send, Followed, PayloadOK, Verified, IInv, DaemonOK, Control, tips, span
<1>3. CASE Compare /\ UNCHANGED main
  BY <1>3, CompareQuiet, QuietLanded
<1>4. CASE MainConfirmed
  BY <1>4, StartBatchQuiet, ReturnQuiet, QuietLanded DEF MainConfirmed
<1>5. CASE RetryableError \/ HardError \/ Exit \/ EnterReorg \/ EndCycle
  BY <1>5, ErrorQuiet, EnterReorgQuiet, ReturnQuiet, QuietLanded
<1> QED
  BY <1>1, <1>2, <1>3, <1>4, <1>5
  DEF Daemon, WriteStep, Refused, RejectedByEstimate, RevertError, RecordProgress,
      Misfortune, RpcFault, RecordFault, SendLost, Timeout, TimeoutOfDropped, SaveFault,
      Crash, Restart

\* A main transaction is the payload that is awaited, whose last height is `last`.
LEMMA MineTxLandedOK ==
    ASSUME IInv, ForkOK, VerifyOK, LandedOK, MineTx
    PROVE  LandedOK'
<1>1. /\ UNCHANGED <<pc, task, locals>> /\ mempool # None
      /\ receipt' # "none" => receipt # "none"
  BY DEF MineTx
<1>2. task \notin {"verify", "record"} /\ receipt # "ok"
  BY <1>1 DEF VerifyOK
<1>3. Followed'
  BY <1>1, <1>2 DEF LandedOK, Followed, PayloadOK, Verified, locals, tips, span
<1>4. ASSUME receipt' = "ok", task = "main"
      PROVE  Height(main') = last
  <2>1. receipt = "pending" /\ Execute(mempool) /\ mempool = ThisTx /\ pc = "wait"
    BY <1>2, <1>4 DEF MineTx, ForkOK
  <2>2. ThisTx.kind = "main" /\ ThisTx.headers = headers
    BY <1>4 DEF ThisTx, Kind
  <2>3. main' = headers[Len(headers)]
    BY <2>1, <2>2 DEF Execute, AcceptsMain, AcceptsShortFork, AcceptsFork, Promotes, TipOf
  <2>4. /\ parent + Len(headers) = last /\ parent < last
        /\ Stacked(headers, parent) /\ parent \in Nat /\ last \in Nat /\ Len(headers) \in Nat
    BY <1>4, <2>1, LenProperties, HeightAssumption
    DEF IInv, DaemonOK, RangeSafe, LocalsOK, LandedOK, Followed, PayloadOK
  <2> QED
    BY <2>3, <2>4 DEF Stacked
<1> QED
  BY <1>1, <1>3, <1>4 DEF LandedOK, locals, span

LEMMA EnvironmentLandedOK ==
    ASSUME IInv, ForkOK, VerifyOK, LandedOK, Environment \/ UNCHANGED vars
    PROVE  LandedOK'
<1>1. CASE MineTx
  BY <1>1, MineTxLandedOK
<1>2. CASE /\ UNCHANGED <<main, pc, task, locals>>
           /\ receipt' \in {receipt, "dropped"} /\ (receipt' # "none" => receipt # "none")
  BY <1>2 DEF LandedOK, Followed, PayloadOK, Verified, locals, tips, span
<1> QED
  BY <1>1, <1>2 DEF Environment, NodeAdvance, DropTx, vars

\* --- what is on disk is below what comes next

\* A cycle's first batch starts at or above the relay's tip.
LEMMA FirstBatchAbove ==
    ASSUME IInv, ReadRelayTip, task' = "main"
    PROVE  Height(main) <= parent'
<1> DEFINE from == FromHeight(Height(main), Resume)
<1>1. /\ Height(main) \in 0..MaxHeight /\ btcTip \in 0..MaxHeight
      /\ Resume \in Nat
  <2>1. Height(main) \in 0..MaxHeight /\ btcTip \in 0..MaxHeight
    BY ChainIsSeq DEF IInv, WorldOK, DaemonOK, LocalsOK
  <2> QED
    BY <2>1, HeightAssumption, EngineAssumption, WidthAssumption
    DEF Resume, ResumeHeight, SatAdd, Least, Greatest
<1>2. StartBatch(from - 1, NextBatchEnd(from))
  BY DEF ReadRelayTip, EndCycle, Exit, Leave
<1>3. from \in Nat /\ from >= Height(main) + 1
  BY <1>1, HeightAssumption, EngineAssumption, WidthAssumption
  DEF FromHeight, SatAdd, Least, Greatest
<1> HIDE DEF from
<1> QED
  BY <1>1, <1>2, <1>3 DEF StartBatch

\* Any other step stays with the batch or the branch, or gives the batch up.
LEMMA DaemonStays ==
    ASSUME IInv, Daemon \/ Misfortune \/ Restart, ~ReadRelayTip, ~MainConfirmed
    PROVE  /\ task' = "main" => task = "main" /\ parent' = parent
           /\ Following' => (Following \/ task = "main") /\ btcTip' = btcTip
<1> USE DEF Following
<1>1. CASE RetryableError \/ HardError \/ Exit \/ HoldBranch \/ EndCycle
  BY <1>1
  DEF RetryableError, HardError, Exit, HoldBranch, EndCycle, Leave, StartBatch, EnterReorg,
      tips
<1>2. CASE SaveFault
  BY <1>2 DEF SaveFault, EnterReorg, tips
<1>3. CASE ReadStep
  <2>1. CASE ReadReorgTip
    BY <2>1 DEF ReadReorgTip
  <2> QED
    BY <1>1, <1>3, <2>1
    DEF ReadStep, ReadBitcoinTip, ReadEndHash, ReadWork, ReadParent, ReadContext, ReadHeader,
        ReadCommit, ReadVerifyTip, Reverted, RevertError, BranchConfirmed, OutOfRange, Probe,
        IInv, DaemonOK, Control, tips, span
<1>4. CASE WriteStep
  BY <1>1, <1>4
  DEF WriteStep, Send, Refused, RejectedByEstimate, RevertError, RecordProgress, Compare,
      StartBranch, Probe, tips, span
<1>5. CASE Misfortune \/ Restart
  BY <1>1, <1>2, <1>5
  DEF Misfortune, RpcFault, RecordFault, SendLost, Timeout, TimeoutOfDropped, Crash, Restart
<1> QED
  BY <1>3, <1>4, <1>5 DEF Daemon

LEMMA SavedBehindInduction ==
    ASSUME IInv, Progress, SavedBehind, [Next]_vars
    PROVE  SavedBehind'
<1>1. CASE ReadRelayTip /\ UNCHANGED <<main, file>>
  <2>1. ~Following'
    BY <1>1 DEF ReadRelayTip, EndCycle, Exit, Leave, StartBatch, Following
  <2>2. ASSUME file # None, task' = "main"
        PROVE  Height(file) <= parent'
    <3>1. Height(main) <= parent' /\ Height(file) <= Height(main)
      BY <1>1, <2>2, FirstBatchAbove DEF Progress, RelayOK, SavedNotAhead
    <3>2. Height(main) \in Nat /\ Height(file) \in Nat /\ parent' \in Nat
      <4>1. IInv'
        BY Induction
      <4> QED
        BY <2>2, <4>1, ChainIsSeq, HeightAssumption DEF IInv, WorldOK, DaemonOK, LocalsOK
    <3> QED
      BY <3>1, <3>2
  <2> QED
    BY <1>1, <2>1, <2>2 DEF SavedBehind
<1>2. CASE MainConfirmed
  <2>1. Height(file') = last /\ last \in Nat
    BY <1>2, HeightAssumption
    DEF MainConfirmed, Landed, Saved, Progress, PayloadOK, ReceiptOK, IInv, DaemonOK, LocalsOK
  <2> QED
    BY <1>2, <2>1
    DEF MainConfirmed, EndCycle, Leave, StartBatch, SavedBehind, Following
<1>3. CASE (Daemon \/ Misfortune \/ Restart) /\ ~ReadRelayTip /\ ~MainConfirmed
  <2>1. /\ task' = "main" => task = "main" /\ parent' = parent
        /\ Following' => (Following \/ task = "main") /\ btcTip' = btcTip
    BY <1>3, DaemonStays
  <2>2. UNCHANGED file \/ (task' = "tips" /\ pc' = "tipBitcoin")
    BY <1>3
    DEF Daemon, ReadStep, WriteStep, RecordProgress, EndCycle, Leave, Misfortune, RpcFault,
        RecordFault, SendLost, Timeout, TimeoutOfDropped, SaveFault, Crash, Restart
  <2>3. task = "main" => parent < last /\ last <= btcTip
    BY DEF IInv, DaemonOK, RangeSafe
  <2>4. /\ parent \in Nat /\ last \in Nat /\ btcTip \in Nat
        /\ file # None => Height(file) \in Nat
    BY ChainIsSeq, HeightAssumption DEF IInv, WorldOK, DaemonOK, LocalsOK
  <2>5. CASE UNCHANGED file
    BY <2>1, <2>3, <2>4, <2>5 DEF SavedBehind
  <2>6. CASE task' = "tips" /\ pc' = "tipBitcoin"
    BY <2>6 DEF SavedBehind, Following
  <2> QED
    BY <2>2, <2>5, <2>6
<1>4. CASE UNCHANGED <<pc, task, locals, file>>
  BY <1>4 DEF SavedBehind, Following, locals, tips, span
<1>5. ReadRelayTip => UNCHANGED <<main, file>>
  <2>1. ReadRelayTip => pc = "tipRelay" /\ pc' # "tipRelay"
    BY DEF ReadRelayTip, EndCycle, Exit, Leave, StartBatch
  <2>2. CASE Daemon
    BY <2>1, <2>2 DEF Daemon, ReadStep, WriteStep, Send, Refused, RejectedByEstimate,
                      MainConfirmed, RecordProgress, Compare
  <2>3. CASE Misfortune \/ Restart
    BY <2>3 DEF Misfortune, RpcFault, RecordFault, SendLost, Timeout, TimeoutOfDropped,
                SaveFault, Crash, Restart
  <2>4. CASE UNCHANGED pc
    BY <2>1, <2>4
  <2> QED
    BY <2>2, <2>3, <2>4 DEF Next, Environment, NodeAdvance, MineTx, DropTx, vars
<1> QED
  BY <1>1, <1>2, <1>3, <1>4, <1>5 DEF Next, Environment, NodeAdvance, MineTx, DropTx, vars

\* --- the induction, and each step as a step of the ledger

LEMMA LedgerInit == Init => LedgerOK
<1> SUFFICES ASSUME Init PROVE LedgerOK
  OBVIOUS
<1>1. main \in Chain /\ Height(main) = Checkpoint /\ Work[main] \in Nat
  BY WorkAssumption DEF Init, ContractInit
<1>2. BaseOK
  BY <1>1, ContractAssumption DEF Init, ContractInit, BaseOK, OnBase
<1>3. SeenOK
  BY <1>1, EmptySeq DEF Init, SeenOK, Seen
<1>4. LandedOK
  BY DEF Init, LandedOK, Followed, PayloadOK, Verified
<1>5. SavedBehind
  BY DEF Init, SavedBehind
<1> QED
  BY <1>2, <1>3, <1>4, <1>5, ProgressInit DEF LedgerOK

LEMMA LedgerInduction ==
    ASSUME IInv, ForkOK, VerifyOK, LedgerOK, [Next]_vars
    PROVE  LedgerOK'
<1>1. BaseOK' /\ SeenOK' /\ LandedOK'
  <2>1. CASE Daemon \/ Misfortune \/ Restart
    BY <2>1, DaemonBaseOK, DaemonSeenOK, DaemonLandedOK DEF LedgerOK
  <2>2. CASE Environment \/ UNCHANGED vars
    BY <2>2, EnvironmentBaseOK, EnvironmentSeenOK, EnvironmentLandedOK DEF LedgerOK
  <2> QED
    BY <2>1, <2>2 DEF Next
<1>2. EqualWork => Progress' /\ SavedBehind'
  BY ProgressInduction, SavedBehindInduction DEF LedgerOK
<1>3. EqualWork' = EqualWork
  BY DEF EqualWork
<1> QED
  BY <1>1, <1>2, <1>3 DEF LedgerOK

LEMMA LedgerTerms ==
    /\ Ledger!Chain = Chain
    /\ Ledger!EqualWork <=> EqualWork
    /\ \A c, b : Ledger!Holds(c, b) <=> Holds(c, b)
    /\ \A c, h : Ledger!BlockAt(c, h) = BlockAt(c, h)
    /\ \A c : Ledger!Height(c) = Height(c)
<1>1. Ledger!Chain = Chain
  BY DEF Chain, Ledger!Chain
<1>2. \A c : Ledger!Height(c) = Height(c)
  BY DEF Height, Ledger!Height
<1>3. \A c, h : Ledger!BlockAt(c, h) = BlockAt(c, h)
  BY DEF BlockAt, Ledger!BlockAt
<1>4. \A c, b : Ledger!Holds(c, b) <=> Holds(c, b)
  BY <1>2, <1>3 DEF Holds, Ledger!Holds
<1>5. Ledger!EqualWork <=> EqualWork
  BY <1>1, <1>2 DEF EqualWork, Ledger!EqualWork
<1> QED
  BY <1>1, <1>2, <1>3, <1>4, <1>5

LEMMA MineTxLands ==
    ASSUME IInv, LedgerOK, SeenOK', MineTx
    PROVE  Ledger!Land \/ UNCHANGED <<node, main, file>>
<1>1. UNCHANGED <<node, file>>
  BY DEF MineTx
<1>2. ASSUME main' # main
      PROVE  Ledger!Land
  <2>1. mempool # None /\ Execute(mempool)
    BY <1>2 DEF MineTx, contractVars
  <2>2. Work[main] < Work[main'] /\ OnBase(main') /\ OnBase(main)
    BY <1>2, <2>1, MinedOnBase DEF LedgerOK, BaseOK
  <2>3. main' \in Chain /\ Work[main'] <= Work[node]
    BY <1>1, <2>1, MinedChain DEF IInv, SeenOK, Seen
  <2>4. Holds(main', BlockAt(main, Checkpoint))
    <3>1. Height(main') \in Nat /\ Checkpoint \in Nat
      BY <2>3, ChainIsSeq, HeightAssumption, ContractAssumption
    <3>2. Checkpoint \in 0..Height(main')
      BY <2>2, <3>1 DEF OnBase
    <3> QED
      BY <2>2, <2>3, <3>2, HoldsOwnBlock DEF OnBase
  <2> QED
    BY <1>1, <2>2, <2>3, <2>4, LedgerTerms DEF Ledger!Land
<1> QED
  BY <1>1, <1>2

LEMMA MainConfirmedSaves ==
    ASSUME IInv, LedgerOK, MainConfirmed, UNCHANGED <<node, main>>
    PROVE  Ledger!Save
<1>1. /\ file' = endHash /\ endHash \in Chain /\ Height(endHash) = last
      /\ Height(main) = last /\ Seen(endHash)
  BY NoneAssumption
  DEF MainConfirmed, Landed, Saved, LedgerOK, LandedOK, Followed, PayloadOK, SeenOK
<1>2. last \in Nat /\ parent \in Nat /\ parent < last
      /\ (file # None => Height(file) \in Nat)
  BY ChainIsSeq, HeightAssumption
  DEF IInv, WorldOK, DaemonOK, LocalsOK, RangeSafe, MainConfirmed
<1>3. EqualWork /\ file # None => Height(file) < last
  BY <1>2 DEF LedgerOK, SavedBehind, MainConfirmed
<1> QED
  BY <1>1, <1>2, <1>3, LedgerTerms DEF Ledger!Save, Seen

LEMMA RecordProgressSaves ==
    ASSUME IInv, LedgerOK, RecordProgress, UNCHANGED <<node, main>>
    PROVE  Ledger!Save
<1>1. /\ task = "record" /\ btcTip \in 0..Height(node) /\ btcTip <= Height(main)
  BY HeightAssumption
  DEF RecordProgress, NodeHasIt, WantedHeight, IInv, DaemonOK, LocalsOK, Control,
      LedgerOK, LandedOK, Followed, Verified
<1>2. file' \in Chain /\ Height(file') = btcTip /\ Seen(file')
  BY <1>1, BlockAtIsChain, ReadIsSeen DEF RecordProgress, IInv, WorldOK
<1>3. EqualWork /\ file # None => Height(file) < btcTip
  BY <1>1 DEF LedgerOK, SavedBehind, Following
<1> QED
  BY <1>1, <1>2, <1>3, LedgerTerms DEF Ledger!Save, Seen

LEMMA LedgerStep ==
    ASSUME IInv, LedgerOK, SeenOK', [Next]_vars
    PROVE  [Ledger!Next]_(Ledger!vars)
<1>1. CASE NodeAdvance
  BY <1>1, LedgerTerms DEF NodeAdvance, Ledger!NodeMoves, Ledger!Next
<1>2. CASE MineTx
  BY <1>2, MineTxLands DEF Ledger!Next, Ledger!vars
<1>3. CASE MainConfirmed /\ UNCHANGED <<node, main>>
  BY <1>3, MainConfirmedSaves DEF Ledger!Next
<1>4. CASE RecordProgress /\ UNCHANGED <<node, main>>
  BY <1>4, RecordProgressSaves DEF Ledger!Next
<1>5. CASE UNCHANGED <<node, main, file>>
  BY <1>5 DEF Ledger!vars
<1> QED
  BY <1>1, <1>2, <1>3, <1>4, <1>5
  DEF Next, Daemon, ReadStep, WriteStep, Misfortune, RpcFault, RecordFault, SendLost, Timeout,
      TimeoutOfDropped, SaveFault, Crash, Restart, Environment, DropTx, vars

\* In every behaviour the ledger's share of the state is in order.
THEOREM LedgerInductive == Spec => []LedgerOK
<1>1. Init => LedgerOK
  BY LedgerInit
<1>2. IInv /\ ForkOK /\ VerifyOK /\ LedgerOK /\ [Next]_vars => LedgerOK'
  BY LedgerInduction
<1> QED
  BY <1>1, <1>2, Inductive, ForkInductive, VerifyInductive, PTL DEF Spec

\* The daemon implements the ledger: whatever difficulties, forks, lost answers,
\* late transactions, crashes and restarts a behaviour has, the relay moves to
\* heavier chains only, none heavier than the node's and all through the block it
\* was set up with, and what process_catchup_range or follow_reorg saves is of a
\* height the relay has; with blocks of equal work it is above what was saved before.
THEOREM LedgerKept == Spec => KeepsLedger
<1>1. Init => Ledger!Init
  BY LedgerTerms DEF Init, ContractInit, Ledger!Init
<1>2. IInv /\ LedgerOK /\ LedgerOK' /\ [Next]_vars => [Ledger!Next]_(Ledger!vars)
  BY LedgerStep DEF LedgerOK
<1> QED
  BY <1>1, <1>2, Inductive, LedgerInductive, PTL DEF Spec, KeepsLedger, Ledger!Spec

\* Those who read the contract never see a chain with more work than the node's:
\* the relay is late, never ahead, for every assignment of work.
THEOREM RelayNeverAhead == Spec => [](Work[main] <= Work[node])
<1>1. LedgerOK => Work[main] <= Work[node]
  BY DEF LedgerOK, SeenOK, Seen
<1> QED
  BY <1>1, LedgerInductive, PTL

----------------------------------------------------------------------------
\* The remembered pair of tips, for blocks of equal work.

Attempt == task \in {"main", "scan", "branch", "verify"} \/ pc = "reorgTip"

\* The pair is of tips read earlier, and the relay tip only rises.
HoldKept ==
    /\ relayTip <= Height(main)
    /\ hold # None => hold[2] <= Height(main)
    /\ Attempt /\ hold # None => hold[1] # btcTip \/ hold[2] < relayTip

LEMMA HeldTypes ==
    ASSUME IInv
    PROVE  /\ relayTip \in Nat /\ btcTip \in Nat
           /\ Height(main) \in Nat /\ Height(node) \in Nat
           /\ hold # None => hold[1] \in Nat /\ hold[2] \in Nat
<1>1. relayTip \in 0..MaxHeight /\ btcTip \in 0..MaxHeight
  BY DEF IInv, DaemonOK, LocalsOK
<1>2. main \in Chain /\ node \in Chain
  BY DEF IInv, WorldOK
<1>3. hold # None => hold \in (0..MaxHeight) \X (0..MaxHeight)
  BY DEF IInv, HoldOK
<1>4. \A c \in Chain : Height(c) \in Nat
  BY ChainIsSeq
<1>5. hold # None => hold[1] \in Nat /\ hold[2] \in Nat
  BY <1>3
<1> QED
  BY <1>1, <1>2, <1>4, <1>5

LEMMA LeaveHoldKept ==
    ASSUME IInv, HoldKept, NEW w \in {"tipBitcoin", "stopped"}, Leave(w), UNCHANGED main,
           hold' \in {hold, None, <<btcTip, relayTip>>}
    PROVE  HoldKept'
<1>1. relayTip' = 0 /\ ~Attempt' /\ relayTip' <= Height(main)'
  BY HeldTypes DEF Leave, Attempt
<1>2. hold' # None => hold'[2] <= Height(main)
  BY DEF HoldKept
<1> QED
  BY <1>1, <1>2 DEF HoldKept

\* Within an attempt nothing moves the pair or the tips.
LEMMA SameTipsHoldKept ==
    ASSUME HoldKept, UNCHANGED <<main, tips, hold>>, Attempt' => Attempt
    PROVE  HoldKept'
  BY DEF HoldKept, tips

LEMMA ErrorHoldKept ==
    ASSUME IInv, HoldKept, UNCHANGED main,
           RetryableError \/ HardError \/ EndCycle \/ Exit \/ HoldBranch
           \/ (task = "main" /\ EnterReorg)
    PROVE  HoldKept'
<1>1. CASE task = "main" /\ (EnterReorg \/ (StartBatch(parent, last) /\ UNCHANGED relayTip))
  BY <1>1, SameTipsHoldKept DEF EnterReorg, StartBatch, Attempt, tips
<1>2. CASE EndCycle \/ Exit \/ HoldBranch
  BY <1>2, LeaveHoldKept DEF EndCycle, Exit, HoldBranch, RememberHold
<1> QED
  BY <1>1, <1>2 DEF RetryableError, HardError

\* The cycle goes on only with a pair that is not on hold.
LEMMA ReadRelayTipHoldKept ==
    ASSUME IInv, HoldKept, ReadRelayTip, UNCHANGED main
    PROVE  HoldKept'
<1>1. CASE EndCycle \/ Exit
  BY <1>1, ErrorHoldKept
<1>2. CASE /\ ~OnHold(Height(main)) /\ relayTip' = Height(main)
           /\ UNCHANGED <<btcTip, hold>>
  <2>1. hold # None => hold = <<hold[1], hold[2]>>
    BY DEF IInv, HoldOK
  <2>2. hold # None => hold[1] # btcTip \/ hold[2] # Height(main)
    BY <1>2, <2>1 DEF OnHold
  <2>3. hold # None => hold[1] # btcTip \/ hold[2] < Height(main)
    BY <2>2, HeldTypes DEF HoldKept
  <2> QED
    BY <1>2, <2>3, HeldTypes DEF HoldKept
<1> QED
  BY <1>1, <1>2 DEF ReadRelayTip, StartBatch

LEMMA DaemonHoldKept ==
    ASSUME IInv, HoldKept, Daemon
    PROVE  HoldKept'
<1> USE DEF Daemon, ReadStep, WriteStep
<1>1. UNCHANGED main
  OBVIOUS
<1>2. CASE RetryableError \/ HardError \/ EndCycle \/ Exit \/ HoldBranch
  BY <1>1, <1>2, ErrorHoldKept
<1>3. CASE OutOfRange \/ Reverted \/ Refused \/ RejectedByEstimate \/ RecordProgress
  BY <1>2, <1>3 DEF OutOfRange, Reverted, RevertError, Refused, RejectedByEstimate, RecordProgress
<1>4. CASE ReadBitcoinTip
  BY <1>1, <1>4, HeldTypes DEF ReadBitcoinTip, HoldKept, Attempt, IInv, DaemonOK, Control
<1>5. CASE ReadRelayTip
  BY <1>1, <1>5, ReadRelayTipHoldKept
<1>6. CASE ReadEndHash \/ ReadWork \/ ReadContext \/ ReadHeader \/ Send
  BY <1>1, <1>6, SameTipsHoldKept
  DEF ReadEndHash, ReadWork, ReadContext, ReadHeader, Send, Attempt
<1>7. CASE ReadParent
  BY <1>1, <1>2, <1>7, SameTipsHoldKept DEF ReadParent, Attempt
<1>8. CASE ReadReorgTip
  BY <1>1, <1>8, HeldTypes DEF ReadReorgTip, Probe, HoldKept, Attempt
<1>9. CASE ReadCommit \/ ReadVerifyTip
  <2>1. CASE UNCHANGED <<task, tips, hold>> /\ pc' # "reorgTip"
    BY <1>1, <2>1, SameTipsHoldKept DEF Attempt
  <2> QED
    BY <1>2, <1>9, <2>1 DEF ReadCommit, ReadVerifyTip, Probe
<1>10. CASE BranchConfirmed
  BY <1>1, <1>10, SameTipsHoldKept DEF BranchConfirmed, Attempt
<1>11. CASE MainConfirmed
  <2>1. CASE StartBatch(last, NextBatchEnd(last + 1)) /\ UNCHANGED relayTip
    BY <1>1, <1>11, <2>1, SameTipsHoldKept DEF MainConfirmed, StartBatch, Attempt, tips
  <2> QED
    BY <1>2, <1>11, <2>1 DEF MainConfirmed
<1>12. CASE Compare
  <2>1. CASE task \in {"scan", "verify"} /\ UNCHANGED <<tips, hold>>
    BY <1>1, <2>1, SameTipsHoldKept DEF Attempt
  <2> QED
    BY <1>2, <1>12, <2>1 DEF Compare, StartBranch
<1> QED
  BY <1>3, <1>4, <1>5, <1>6, <1>7, <1>8, <1>9, <1>10, <1>11, <1>12

LEMMA MisfortuneHoldKept ==
    ASSUME IInv, HoldKept, Misfortune \/ Restart
    PROVE  HoldKept'
  BY ErrorHoldKept
  DEF Misfortune, RpcFault, RecordFault, SendLost, Timeout, TimeoutOfDropped, SaveFault,
      Crash, Restart

LEMMA EnvironmentHoldKept ==
    ASSUME EqualWork, IInv, Progress, HoldKept, Environment \/ UNCHANGED vars
    PROVE  HoldKept'
<1>1. UNCHANGED <<tips, hold, task, pc>>
  BY DEF Environment, NodeAdvance, MineTx, DropTx, vars, locals
<1>2. Height(main) <= Height(main') \/ UNCHANGED main
  BY MinedHeight DEF Environment, NodeAdvance, MineTx, DropTx, vars, contractVars
<1>3. IInv'
  BY Induction DEF Next
<1>4. Height(main') \in Nat
  BY <1>3, ChainIsSeq, HeightAssumption DEF IInv, WorldOK
<1>5. relayTip' = relayTip /\ btcTip' = btcTip /\ hold' = hold /\ Attempt' = Attempt
  BY <1>1 DEF tips, Attempt
<1> QED
  BY <1>2, <1>4, <1>5, HeldTypes DEF HoldKept

\* In every behaviour the remembered pair is behind the tips of an attempt.
THEOREM HoldInductive ==
    ASSUME EqualWork
    PROVE  Spec => []HoldKept
<1>1. Init => HoldKept
  BY InitOK, HeldTypes DEF Init, HoldKept, Attempt
<1>2. IInv /\ Progress /\ HoldKept /\ [Next]_vars => HoldKept'
  BY DaemonHoldKept, MisfortuneHoldKept, EnvironmentHoldKept DEF Next
<1> QED
  BY <1>1, <1>2, Inductive, ProgressInductive, PTL DEF Spec

\* A pair of tips that was reported as not followed is not attempted again
\* before one of them moves: run_poll_cycle's check is enough although it reads
\* the relay tip once and follow_reorg reads it again, after batches that may
\* have landed in between.
THEOREM NoRepeatCorrect ==
    ASSUME EqualWork
    PROVE  Spec => []NoRepeatedAttempt
<1>1. IInv /\ HoldKept => NoRepeatedAttempt
  <2>1. SUFFICES ASSUME IInv, HoldKept, Attempt, hold = <<btcTip, relayTip>> PROVE FALSE
    BY DEF NoRepeatedAttempt, Attempt
  <2>2. <<btcTip, relayTip>> \in (0..MaxHeight) \X (0..MaxHeight)
    BY <2>1 DEF IInv, DaemonOK, LocalsOK
  <2>3. hold # None /\ hold[1] = btcTip /\ hold[2] = relayTip
    BY <2>1, <2>2, OptionAssumption
  <2> QED
    BY <2>1, <2>3, HeldTypes DEF HoldKept
<1> QED
  BY <1>1, Inductive, HoldInductive, PTL

----------------------------------------------------------------------------
\* Where the heavier chain is the higher one, the higher one is the heavier.
LEMMA HigherIsHeavier ==
    ASSUME EqualWork, NEW c \in Chain, NEW d \in Chain, Height(c) > Height(d)
    PROVE  Work[c] > Work[d]
<1> DEFINE b == BlockAt(c, Height(c) - 1)
<1>1. Height(c) \in Nat /\ Height(d) \in Nat
  BY ChainIsSeq, HeightAssumption
<1>2. Height(c) - 1 \in 0..Height(c) /\ Height(c) - 1 \in 0..(Height(c) - 1)
  BY <1>1
<1>3. b \in Chain /\ Height(b) = Height(c) - 1
  BY <1>2, BlockAtIsChain
<1>4. Work[b] < Work[c]
  BY <1>2, WorkAssumption
<1> HIDE DEF b
<1>5. Work[b] \in Nat /\ Work[c] \in Nat /\ Work[d] \in Nat
  BY <1>3, WorkAssumption
<1>6. ~(Work[d] > Work[b])
  <2>1. SUFFICES ASSUME Work[d] > Work[b] PROVE FALSE
    OBVIOUS
  <2>2. Height(d) > Height(b)
    BY <1>3, <2>1 DEF EqualWork
  <2> QED
    BY <1>1, <1>3, <2>2
<1> QED
  BY <1>4, <1>5, <1>6

----------------------------------------------------------------------------
\* A hold in force is right, for blocks of equal work.

\* What HoldJustified says of behaviours with clean faults.
Justified == hold = <<Height(node), Height(main)>> => ~Joined

\* Neither chain has moved since its tip was read.
NodeStill == btcTip = Height(node)
RelayStill == relayTip = Height(main)

TipsBehind ==
    /\ btcTip <= Height(node)
    /\ hold # None => hold[1] <= Height(node)

\* Whatever is pending is awaited.
Alone ==
    /\ mempool # None => receipt = "pending"
    /\ receipt # "reverted"

\* What has been read of the node is on its chain while that chain rests.
NodesHeaders ==
    task \in {"main", "branch"} /\ NodeStill =>
        \A i \in 1..Len(headers) : headers[i] = BlockAt(node, parent + i)

NodesFields ==
    task \in {"scan", "branch"} /\ NodeStill =>
        /\ pc \in {"parent", "context", "headers", "send", "wait"} =>
               stored.work = Work[BlockAt(node, parent)]
        /\ pc \in {"context", "headers", "send", "wait"} =>
               stored.block = BlockAt(node, parent)
        /\ pc \in {"headers", "send", "wait"} =>
               stored.context = BlockAt(node, parent - 1)

\* Main batches do not reach the node's tip on another branch.
RelayBelow ==
    (task \in {"main", "scan"} \/ pc = "reorgTip") /\ NodeStill =>
        Height(main) < btcTip \/ Holds(node, main)

\* The scan has found no agreement above the height it looks at.
ScanOK ==
    task = "scan" =>
        /\ RelayStill
        /\ pc \in {"work", "parent", "context"} =>
               parent >= Checkpoint /\ commit = CommitAt(parent)
        /\ NodeStill => \A h \in (parent + 1)..Top : BlockAt(main, h) # BlockAt(node, h)

\* The branch starts on a block of the relay or continues its own fork.
OnRelay == parent <= Height(main) /\ BlockAt(main, parent) = BlockAt(node, parent)

BranchOK ==
    task = "branch" =>
        /\ parent >= TsWindow /\ parent >= Checkpoint
        /\ forkId = None => last = btcTip
        /\ NodeStill => relayTip < btcTip
        /\ NodeStill /\ RelayStill =>
               \/ /\ OnRelay
                  /\ forkId = None \/ (forks[forkId] = None /\ receipt # "ok")
               \/ forkId # None /\ forks[forkId] = BlockAt(node, Landing)

\* A branch of the resting node that landed whole has moved the relay.
FollowedOK ==
    (task = "verify" \/ (task = "branch" /\ receipt = "ok" /\ last = btcTip)) /\ NodeStill =>
        relayTip < Height(main)

AttemptOK == NodesHeaders /\ NodesFields /\ RelayBelow /\ ScanOK /\ BranchOK /\ FollowedOK

HoldInv == TipsBehind /\ Alone /\ AttemptOK /\ Justified

\* What the steps below may use of the earlier invariants.
Before == EqualWork /\ CleanFaults /\ IInv /\ Progress /\ ForkOK /\ HoldKept /\ HoldInv

\* --- the attempt, step by step

LEMMA LeaveAttemptOK ==
    ASSUME task' \notin {"main", "scan", "branch", "verify"}, pc' # "reorgTip"
    PROVE  AttemptOK'
  BY DEF AttemptOK, NodesHeaders, NodesFields, RelayBelow, ScanOK, BranchOK, FollowedOK

\* A main batch (again), or the end of the main batches.
LEMMA MainAttemptOK ==
    ASSUME UNCHANGED <<node, main, btcTip>>,
           task' = "main" \/ (task' = "tips" /\ pc' = "reorgTip"),
           headers' = <<>>,
           NodeStill => Height(main) < btcTip \/ Holds(node, main)
    PROVE  AttemptOK'
<1>1. NodesHeaders'
  BY EmptySeq DEF NodesHeaders
<1>2. RelayBelow'
  BY DEF RelayBelow, NodeStill, Holds
<1> QED
  BY <1>1, <1>2 DEF AttemptOK, NodesFields, ScanOK, BranchOK, FollowedOK

LEMMA ErrorAttemptOK ==
    ASSUME Before, UNCHANGED <<node, main>>,
           RetryableError \/ HardError \/ EndCycle \/ Exit \/ HoldBranch
           \/ (task = "main" /\ EnterReorg)
    PROVE  AttemptOK'
<1>1. CASE task = "main" /\ (EnterReorg \/ (StartBatch(parent, last) /\ UNCHANGED relayTip))
  <2>1. NodeStill => Height(main) < btcTip \/ Holds(node, main)
    BY <1>1 DEF Before, HoldInv, AttemptOK, RelayBelow
  <2>2. UNCHANGED btcTip /\ headers' = <<>>
        /\ (task' = "main" \/ (task' = "tips" /\ pc' = "reorgTip"))
    BY <1>1 DEF EnterReorg, StartBatch, ClearPayload, tips
  <2> QED
    BY <2>1, <2>2, MainAttemptOK
<1>2. CASE EndCycle \/ Exit \/ HoldBranch
  BY <1>2, LeaveAttemptOK, LeaveNoBranch DEF EndCycle, Exit, HoldBranch, Leave
<1> QED
  BY <1>1, <1>2 DEF RetryableError, HardError

\* The daemon's reads leave the world and the attempt's heights alone.
Reading ==
    /\ pc # "wait"
    /\ UNCHANGED <<node, main, forks, task, tips, span, forkId, receipt>>

LEMMA ReadingRest ==
    ASSUME Before, Reading, pc # "reorgTip", pc' # "reorgTip"
    PROVE  RelayBelow' /\ BranchOK' /\ FollowedOK'
<1> USE DEF Before, HoldInv, AttemptOK, Reading, tips, span
<1>1. NodeStill' = NodeStill /\ RelayStill' = RelayStill
  BY DEF NodeStill, RelayStill
<1>2. RelayBelow'
  BY <1>1 DEF RelayBelow, Holds
<1>3. BranchOK'
  <2>1. OnRelay' = OnRelay /\ Landing' = Landing
    BY DEF OnRelay, Landing
  <2> QED
    BY <1>1, <2>1 DEF BranchOK
<1>4. FollowedOK'
  BY <1>1 DEF FollowedOK
<1> QED
  BY <1>2, <1>3, <1>4

\* A read that fills in a field of the stored header.
LEMMA FieldAttemptOK ==
    ASSUME Before, Reading, pc \in {"work", "parent", "context"},
           pc' \in {"parent", "context", "headers"},
           UNCHANGED <<commit, headers>>, NodesFields'
    PROVE  AttemptOK'
<1>1. RelayBelow' /\ BranchOK' /\ FollowedOK'
  BY ReadingRest
<1>2. NodesHeaders'
  BY DEF Before, HoldInv, AttemptOK, Reading, tips, span, NodesHeaders, NodeStill
<1>3. ScanOK'
  BY DEF Before, HoldInv, AttemptOK, Reading, tips, span, ScanOK, NodeStill, RelayStill,
         CommitAt, Top
<1> QED
  BY <1>1, <1>2, <1>3 DEF AttemptOK

LEMMA ReadWorkAttemptOK ==
    ASSUME Before, ReadWork, UNCHANGED <<node, main, forks>>
    PROVE  AttemptOK'
<1>1. Reading
  BY DEF ReadWork, Reading
<1>2. stored.work' = IF task = "main" THEN Work[main] ELSE Work[BlockAt(node, parent)]
  BY DEF ReadWork, Before, IInv, DaemonOK, LocalsOK
<1>3. NodesFields'
  BY <1>2 DEF ReadWork, NodesFields, span
<1> QED
  BY <1>1, <1>3, FieldAttemptOK DEF ReadWork

LEMMA ReadParentAttemptOK ==
    ASSUME Before, ReadParent, ~HardError, UNCHANGED <<node, main, forks>>
    PROVE  AttemptOK'
<1>1. Reading
  BY DEF ReadParent, Reading
<1>2. stored.block' = BlockAt(node, parent) /\ stored.work' = stored.work
  BY DEF ReadParent, Before, IInv, DaemonOK, LocalsOK
<1>3. NodesFields'
  BY <1>2 DEF ReadParent, NodesFields, NodeStill, Before, HoldInv, AttemptOK, tips, span
<1> QED
  BY <1>1, <1>3, FieldAttemptOK DEF ReadParent

LEMMA ReadContextAttemptOK ==
    ASSUME Before, ReadContext, UNCHANGED <<node, main, forks>>
    PROVE  AttemptOK'
<1>1. Reading
  BY DEF ReadContext, Reading
<1>2. /\ stored.context' = BlockAt(node, parent - 1)
      /\ stored.block' = stored.block /\ stored.work' = stored.work
  BY DEF ReadContext, Before, IInv, DaemonOK, LocalsOK
<1>3. NodesFields'
  BY <1>2 DEF ReadContext, NodesFields, NodeStill, Before, HoldInv, AttemptOK, tips, span
<1> QED
  BY <1>1, <1>3, FieldAttemptOK DEF ReadContext

LEMMA ReadHeaderAttemptOK ==
    ASSUME Before, ReadHeader, UNCHANGED <<node, main, forks>>
    PROVE  AttemptOK'
<1> USE DEF Before, HoldInv, AttemptOK
<1>1. Reading /\ task \in {"main", "branch"}
  BY DEF ReadHeader, Reading, IInv, DaemonOK, Control
<1>2. RelayBelow' /\ BranchOK' /\ FollowedOK'
  BY <1>1, ReadingRest DEF ReadHeader
<1>3. NodesFields' /\ ScanOK'
  BY <1>1 DEF ReadHeader, NodesFields, ScanOK, NodeStill, tips, span
<1>4. NodesHeaders'
  <2>1. headers \in Seq(Chain) /\ Len(headers) \in Nat /\ parent \in Nat
    BY LenProperties, HeightAssumption DEF IInv, DaemonOK, LocalsOK
  <2>2. BlockAt(node, parent + 1 + Len(headers)) \in Chain
    <3>1. parent + 1 + Len(headers) \in 0..Height(node)
      BY <2>1, HeldTypes DEF ReadHeader, NodeHasIt, WantedHeight
    <3> QED
      BY <3>1, BlockAtIsChain DEF IInv, WorldOK
  <2>3. /\ Len(headers') = Len(headers) + 1
        /\ \A i \in 1..Len(headers) : headers'[i] = headers[i]
        /\ headers'[Len(headers) + 1] = BlockAt(node, parent + 1 + Len(headers))
    BY <2>1, <2>2, AppendProperties DEF ReadHeader
  <2>4. SUFFICES ASSUME NodeStill', NEW i \in 1..Len(headers')
                 PROVE  headers'[i] = BlockAt(node, parent + i)
    BY DEF NodesHeaders, ReadHeader, span
  <2>5. NodeStill
    BY <2>4 DEF NodeStill, ReadHeader, tips
  <2>6. CASE i \in 1..Len(headers)
    BY <1>1, <2>3, <2>5, <2>6 DEF NodesHeaders
  <2>7. CASE i = Len(headers) + 1
    <3>1. parent + i = parent + 1 + Len(headers)
      BY <2>1, <2>7
    <3> QED
      BY <2>3, <2>7, <3>1
  <2> QED
    BY <2>1, <2>3, <2>6, <2>7
<1> QED
  BY <1>2, <1>3, <1>4

LEMMA ReadEndHashAttemptOK ==
    ASSUME Before, ReadEndHash, UNCHANGED <<node, main, forks>>
    PROVE  AttemptOK'
<1> USE DEF Before, HoldInv, AttemptOK
<1>1. Reading /\ task = "main"
  BY DEF ReadEndHash, Reading, IInv, DaemonOK, Control
<1>2. RelayBelow' /\ BranchOK' /\ FollowedOK'
  BY <1>1, ReadingRest DEF ReadEndHash
<1> QED
  BY <1>1, <1>2 DEF ReadEndHash, NodesHeaders, NodesFields, ScanOK, NodeStill, tips, span

LEMMA SendAttemptOK ==
    ASSUME Before, Send, UNCHANGED <<node, main, forks>>
    PROVE  AttemptOK'
<1> USE DEF Before, HoldInv, AttemptOK, Send, tips, span
<1>1. task \in {"main", "branch"} /\ receipt = "none"
  BY DEF IInv, DaemonOK, Control, ForkOK
<1>2. NodeStill' = NodeStill /\ RelayStill' = RelayStill /\ OnRelay' = OnRelay
      /\ Landing' = Landing
  BY <1>1 DEF NodeStill, RelayStill, OnRelay, Landing
<1>3. NodesHeaders' /\ NodesFields'
  BY <1>2 DEF NodesHeaders, NodesFields
<1>4. RelayBelow'
  BY <1>2 DEF RelayBelow, Holds
<1>5. ScanOK' /\ FollowedOK'
  BY <1>1 DEF ScanOK, FollowedOK
<1>6. BranchOK'
  BY <1>2 DEF BranchOK
<1> QED
  BY <1>3, <1>4, <1>5, <1>6

LEMMA ReadRelayTipAttemptOK ==
    ASSUME Before, ReadRelayTip, UNCHANGED <<node, main>>
    PROVE  AttemptOK'
<1>1. CASE EndCycle \/ Exit
  BY <1>1, ErrorAttemptOK
<1>2. CASE ~(EndCycle \/ Exit)
  <2>1. /\ task' = "main" /\ headers' = <<>> /\ UNCHANGED btcTip
        /\ Height(main) < btcTip
    BY <1>2 DEF ReadRelayTip, StartBatch, ClearPayload, RangeExists
  <2> QED
    BY <2>1, MainAttemptOK
<1> QED
  BY <1>1, <1>2

\* A batch landed: the next one, or the end of the range.
LEMMA MainConfirmedAttemptOK ==
    ASSUME Before, MainConfirmed, UNCHANGED <<node, main>>
    PROVE  AttemptOK'
<1>1. CASE EndCycle
  BY <1>1, ErrorAttemptOK
<1>2. CASE StartBatch(last, NextBatchEnd(last + 1))
  <2>1. task' = "main" /\ headers' = <<>> /\ UNCHANGED btcTip
    BY <1>2 DEF StartBatch, ClearPayload
  <2>2. NodeStill => Height(main) < btcTip \/ Holds(node, main)
    BY DEF MainConfirmed, Before, HoldInv, AttemptOK, RelayBelow
  <2> QED
    BY <2>1, <2>2, MainAttemptOK
<1> QED
  BY <1>1, <1>2 DEF MainConfirmed

LEMMA NothingAbove == \A p \in Nat : \A h \in (p + 1)..p : FALSE
  OBVIOUS

\* The scan starts at the lower tip, with nothing above it to compare.
LEMMA ReadReorgTipAttemptOK ==
    ASSUME Before, ReadReorgTip, UNCHANGED <<node, main>>
    PROVE  AttemptOK'
<1> USE DEF Before, HoldInv, AttemptOK
<1>1. /\ task' = "scan" /\ pc' = "commit" /\ relayTip' = Height(main)
      /\ parent' = Least(Height(main), btcTip) /\ UNCHANGED btcTip
  BY DEF ReadReorgTip, Probe
<1>2. parent' \in Nat /\ Top' = parent'
  BY <1>1, HeldTypes DEF Top, Least
<1>3. \A h \in (parent' + 1)..Top' : FALSE
  BY <1>2, NothingAbove
<1>4. ScanOK'
  BY <1>1, <1>3 DEF ScanOK, RelayStill
<1>5. RelayBelow'
  BY <1>1 DEF ReadReorgTip, RelayBelow, NodeStill, Holds
<1>6. NodesHeaders' /\ NodesFields' /\ BranchOK' /\ FollowedOK'
  BY <1>1 DEF NodesHeaders, NodesFields, BranchOK, FollowedOK
<1> QED
  BY <1>4, <1>5, <1>6

LEMMA ReadCommitAttemptOK ==
    ASSUME Before, ReadCommit, ~HoldBranch, UNCHANGED <<node, main, forks>>
    PROVE  AttemptOK'
<1> USE DEF Before, HoldInv, AttemptOK
<1>1. /\ Reading /\ task \in {"scan", "verify"} /\ pc' = "work" /\ commit' = CommitAt(parent)
  BY DEF ReadCommit, Reading, IInv, DaemonOK, Control
<1>2. RelayBelow' /\ BranchOK' /\ FollowedOK'
  BY <1>1, ReadingRest DEF ReadCommit
<1>3. NodesHeaders' /\ NodesFields'
  BY <1>1 DEF Reading, NodesHeaders, NodesFields
<1>4. parent >= Checkpoint
  BY DEF ReadCommit, CommitAt
<1>5. ScanOK'
  BY <1>1, <1>4 DEF Reading, ScanOK, RelayStill, NodeStill, Top, CommitAt, tips, span
<1> QED
  BY <1>2, <1>3, <1>5

LEMMA ReadVerifyTipAttemptOK ==
    ASSUME Before, ReadVerifyTip, ~HoldBranch, UNCHANGED <<node, main>>
    PROVE  AttemptOK'
<1>1. task = "verify" /\ task' = "verify" /\ pc' = "commit" /\ UNCHANGED tips
  BY DEF ReadVerifyTip, Probe, Before, IInv, DaemonOK, Control
<1> QED
  BY <1>1 DEF Before, HoldInv, AttemptOK, NodesHeaders, NodesFields, RelayBelow, ScanOK,
              BranchOK, FollowedOK, NodeStill, tips

\* A batch of the branch landed: it is what the fork now ends with.
LEMMA BranchConfirmedAttemptOK ==
    ASSUME Before, BranchConfirmed, UNCHANGED <<node, main, forks>>
    PROVE  AttemptOK'
<1> USE DEF Before, HoldInv, AttemptOK
<1>1. /\ pc = "wait" /\ receipt = "ok" /\ task = "branch"
      /\ headers' = <<>> /\ receipt' = "none" /\ UNCHANGED <<tips, hold>>
  BY DEF BranchConfirmed, Landed, ClearPayload
<1>2. NodeStill' = NodeStill /\ RelayStill' = RelayStill
  BY <1>1 DEF NodeStill, RelayStill, tips
<1>3. CASE /\ last < btcTip /\ pc' = "work" /\ parent' = last
           /\ UNCHANGED <<task, forkId>>
  <2>1. NodesHeaders' /\ NodesFields' /\ RelayBelow' /\ ScanOK' /\ FollowedOK'
    BY <1>1, <1>3, EmptySeq DEF NodesHeaders, NodesFields, RelayBelow, ScanOK, FollowedOK
  <2>2. /\ parent \in Nat /\ last \in Nat /\ btcTip \in Nat /\ parent < last
        /\ TsWindow \in Nat /\ Checkpoint \in Nat
    BY <1>1, HeightAssumption, EngineAssumption, ContractAssumption
    DEF IInv, DaemonOK, LocalsOK, RangeSafe
  <2>3. forkId # None /\ last >= TsWindow /\ last >= Checkpoint
    BY <1>1, <1>3, <2>2 DEF BranchOK
  <2>4. Landing = last /\ Landing' = last
    BY <1>1, <1>3 DEF Landing
  <2>5. NodeStill /\ RelayStill => forks[forkId] = BlockAt(node, last)
    BY <1>1, <2>3, <2>4 DEF BranchOK
  <2>6. NodeStill => relayTip < btcTip
    BY <1>1 DEF BranchOK
  <2>7. /\ task' = "branch" /\ parent' = last /\ forkId' = forkId
        /\ relayTip' = relayTip /\ btcTip' = btcTip /\ node' = node /\ forks' = forks
    BY <1>1, <1>3 DEF tips
  <2>8. BranchOK'
    BY <1>2, <2>3, <2>4, <2>5, <2>6, <2>7 DEF BranchOK
  <2> QED
    BY <2>1, <2>8
<1>4. CASE last = btcTip /\ pc' = "verifyTip" /\ task' = "verify"
  BY <1>1, <1>2, <1>4
  DEF NodesHeaders, NodesFields, RelayBelow, ScanOK, BranchOK, FollowedOK, tips
<1> QED
  BY <1>3, <1>4 DEF BranchConfirmed

\* While both chains rest, the comparison of the stored headers is one of blocks.
LEMMA CommitmentOfFields ==
    ASSUME NEW c \in Chain, NEW h \in 1..Height(c)
    PROVE  Commitment(BlockAt(c, h)) =
               [block |-> BlockAt(c, h), work |-> Work[BlockAt(c, h)],
                context |-> BlockAt(c, h - 1)]
  BY ParentOfBlock DEF Commitment, StoredHeader

LEMMA ScanComparesBlocks ==
    ASSUME Before, pc = "context", task = "scan", NodeHasIt, NodeStill
    PROVE  Agrees([stored EXCEPT !.context = BlockAt(node, parent - 1)])
               <=> BlockAt(main, parent) = BlockAt(node, parent)
<1> DEFINE full == [stored EXCEPT !.context = BlockAt(node, parent - 1)]
<1> USE DEF Before, IInv, HoldInv, AttemptOK
<1>1. /\ parent \in 1..Height(node) /\ parent \in 1..Height(main)
      /\ parent >= Checkpoint /\ main \in Chain /\ node \in Chain
  <2>1. /\ parent \in Nat /\ parent >= TsWindow /\ parent <= Top
        /\ TsWindow \in Nat \ {0} /\ parent >= Checkpoint
        /\ relayTip = Height(main) /\ btcTip = Height(node)
    BY HeightAssumption, EngineAssumption
    DEF DaemonOK, LocalsOK, Filled, RangeSafe, ScanOK, RelayStill, NodeStill
  <2>2. parent <= Height(main) /\ parent <= Height(node)
    BY <2>1, HeldTypes DEF Top, Least
  <2> QED
    BY <2>1, <2>2, HeldTypes DEF WorldOK
<1>2. commit = Commitment(BlockAt(main, parent))
  BY <1>1, ContractAssumption, HeightAssumption DEF ScanOK, CommitAt
<1>3. full = Commitment(BlockAt(node, parent))
  <2>1. stored.work = Work[BlockAt(node, parent)] /\ stored.block = BlockAt(node, parent)
    BY DEF NodesFields
  <2>2. full = [block |-> BlockAt(node, parent), work |-> Work[BlockAt(node, parent)],
                context |-> BlockAt(node, parent - 1)]
    BY <2>1 DEF DaemonOK, LocalsOK
  <2> QED
    BY <1>1, <2>2, CommitmentOfFields
<1>4. Commitment(BlockAt(main, parent)).block = BlockAt(main, parent)
      /\ Commitment(BlockAt(node, parent)).block = BlockAt(node, parent)
  BY DEF Commitment, StoredHeader
<1> QED
  BY <1>2, <1>3, <1>4 DEF Agrees

\* Agreement below the lower tip: the relay has not reached the node's tip on
\* the node's own branch, else the scan would have agreed at the top.
LEMMA ScanBelowTip ==
    ASSUME Before, task = "scan", ~NoReorg, NodeStill
    PROVE  relayTip < btcTip
<1> USE DEF Before, IInv, HoldInv, AttemptOK
<1>1. /\ relayTip = Height(main) /\ parent <= Top /\ parent # Top /\ parent \in Nat
      /\ btcTip = Height(node)
  BY HeightAssumption
  DEF ScanOK, RelayStill, DaemonOK, LocalsOK, RangeSafe, NoReorg, NodeStill
<1>2. SUFFICES ASSUME Holds(node, main) PROVE FALSE
  BY <1>1 DEF RelayBelow
<1>3. Height(main) <= Height(node) /\ BlockAt(node, Height(main)) = main
  BY <1>2 DEF Holds
<1>4. Top = Height(main)
  BY <1>1, <1>3 DEF Top, Least
<1>5. BlockAt(main, Top) = BlockAt(node, Top)
  BY <1>3, <1>4, WholeChain DEF WorldOK
<1>6. Top \in (parent + 1)..Top
  BY <1>1, <1>4, HeldTypes
<1> QED
  BY <1>5, <1>6 DEF ScanOK

LEMMA StartBranchAttemptOK ==
    ASSUME Before, pc = "context", task = "scan", NodeHasIt, ~NoReorg,
           Agrees([stored EXCEPT !.context = BlockAt(node, parent - 1)]),
           StartBranch(parent), UNCHANGED <<node, main>>
    PROVE  AttemptOK'
<1> USE DEF Before, IInv, HoldInv, AttemptOK
<1>1. /\ task' = "branch" /\ pc' = "work" /\ parent' = parent /\ headers' = <<>>
      /\ receipt' = "none" /\ UNCHANGED <<btcTip, relayTip>> /\ forkId = None
  BY DEF StartBranch, ClearPayload, tips, ForkOK
<1>2. NodeStill' = NodeStill /\ RelayStill' = RelayStill
  BY <1>1 DEF NodeStill, RelayStill
<1>3. parent >= TsWindow /\ parent >= Checkpoint
  BY DEF DaemonOK, Filled, ScanOK
<1>4. NodeStill => relayTip < btcTip
  BY ScanBelowTip
<1>5. NodeStill => OnRelay
  <2>1. parent \in Nat /\ parent <= relayTip /\ relayTip = Height(main)
    BY HeldTypes, HeightAssumption
    DEF DaemonOK, LocalsOK, RangeSafe, ScanOK, RelayStill, Top, Least
  <2> QED
    BY <2>1, ScanComparesBlocks DEF OnRelay
<1>6. OnRelay' = OnRelay
  BY <1>1 DEF OnRelay
<1>7. \/ forkId' = None /\ last' = btcTip
      \/ forkId' # None /\ forks'[forkId'] = None
  <2>1. CASE UNCHANGED forkId /\ last' = btcTip
    BY <1>1, <2>1
  <2>2. CASE \E id \in ForkIds : IsNextId(id) /\ forkId' = id /\ forks' = NewSlot(id)
    BY <2>2, OptionAssumption DEF NewSlot, WorldOK
  <2> QED
    BY <2>1, <2>2 DEF StartBranch
<1>8. BranchOK'
  BY <1>1, <1>2, <1>3, <1>4, <1>5, <1>6, <1>7 DEF BranchOK
<1>9. NodesHeaders' /\ NodesFields' /\ RelayBelow' /\ ScanOK' /\ FollowedOK'
  BY <1>1, EmptySeq DEF NodesHeaders, NodesFields, RelayBelow, ScanOK, FollowedOK
<1> QED
  BY <1>8, <1>9

LEMMA CompareAttemptOK ==
    ASSUME Before, Compare, UNCHANGED <<node, main>>
    PROVE  AttemptOK'
<1> USE DEF Before, IInv, HoldInv, AttemptOK
<1> DEFINE full == [stored EXCEPT !.context = BlockAt(node, parent - 1)]
<1>1. CASE Exit \/ HoldBranch
  BY <1>1, ErrorAttemptOK
<1>2. CASE task = "scan" /\ Agrees(full) /\ ~NoReorg /\ StartBranch(parent)
  BY <1>2, StartBranchAttemptOK DEF Compare
<1>3. CASE task = "scan" /\ ~Agrees(full) /\ Probe(parent - 1) /\ UNCHANGED <<task, tips>>
  <2>1. /\ task' = "scan" /\ pc' = "commit" /\ parent' = parent - 1
        /\ UNCHANGED <<btcTip, relayTip>>
    BY <1>3 DEF Probe, tips
  <2>2. NodeStill' = NodeStill /\ RelayStill' = RelayStill /\ Top' = Top
    BY <2>1 DEF NodeStill, RelayStill, Top
  <2>3. parent \in Nat
    BY HeightAssumption DEF DaemonOK, LocalsOK
  <2>4. NodeStill => \A h \in parent..Top : BlockAt(main, h) # BlockAt(node, h)
    <3>1. SUFFICES ASSUME NodeStill, NEW h \in parent..Top
                   PROVE  BlockAt(main, h) # BlockAt(node, h)
      OBVIOUS
    <3>2. CASE h = parent
      BY <1>3, <3>1, <3>2, ScanComparesBlocks DEF Compare
    <3>3. CASE h \in (parent + 1)..Top
      BY <1>3, <3>1, <3>3 DEF ScanOK
    <3> QED
      BY <2>3, <3>2, <3>3
  <2>5. parent' + 1 = parent
    BY <2>1, <2>3
  <2>6. ScanOK'
    BY <1>3, <2>1, <2>2, <2>4, <2>5 DEF ScanOK
  <2>7. RelayBelow'
    BY <1>3, <2>1, <2>2 DEF RelayBelow, Holds
  <2>8. NodesHeaders' /\ NodesFields' /\ BranchOK' /\ FollowedOK'
    BY <2>1 DEF NodesHeaders, NodesFields, BranchOK, FollowedOK
  <2> QED
    BY <2>6, <2>7, <2>8
<1>4. CASE task' = "record" /\ pc' = "tipHash"
  BY <1>4, LeaveAttemptOK
<1> QED
  BY <1>1, <1>2, <1>3, <1>4 DEF Compare

\* --- what is sent: the node's blocks, on a block the relay can build on

\* A whole payload read while the node rests ends with its block at `last`.
LEMMA PayloadTip ==
    ASSUME Before, pc \in {"send", "wait"}, NodeStill
    PROVE  /\ headers[Len(headers)] = BlockAt(node, last)
           /\ last \in 1..Height(node) /\ parent \in 0..(last - 1)
           /\ parent + Len(headers) = last
           /\ \A i \in 1..Len(headers) : headers[i] = BlockAt(node, parent + i)
<1> USE DEF Before, IInv, HoldInv, AttemptOK
<1>1. /\ task \in {"main", "branch"} /\ parent \in Nat /\ last \in Nat /\ Len(headers) \in Nat
      /\ parent < last /\ last <= btcTip /\ parent + Len(headers) = last
      /\ btcTip = Height(node)
  BY LenProperties, HeightAssumption DEF DaemonOK, LocalsOK, Control, RangeSafe, NodeStill
<1>2. \A i \in 1..Len(headers) : headers[i] = BlockAt(node, parent + i)
  BY <1>1 DEF NodesHeaders
<1>3. Len(headers) \in 1..Len(headers)
  BY <1>1
<1>4. headers[Len(headers)] = BlockAt(node, last)
  BY <1>1, <1>2, <1>3
<1>5. last \in 1..Height(node) /\ parent \in 0..(last - 1)
  BY <1>1, HeldTypes
<1> QED
  BY <1>1, <1>2, <1>4, <1>5

LEMMA PayloadLinked ==
    ASSUME Before, pc \in {"send", "wait"}, NodeStill
    PROVE  Linked(BlockAt(node, parent), headers)
<1>1. /\ last \in 1..Height(node) /\ parent \in 0..(last - 1)
      /\ parent + Len(headers) = last
      /\ \A i \in 1..Len(headers) : headers[i] = BlockAt(node, parent + i)
  BY PayloadTip
<1>2. node \in Chain /\ Height(node) \in Nat /\ Len(headers) \in Nat
  BY HeldTypes, LenProperties DEF Before, IInv, WorldOK, DaemonOK, LocalsOK
<1>3. SUFFICES ASSUME NEW i \in 1..Len(headers)
               PROVE  /\ Height(headers[i]) > 0
                      /\ ParentOf(headers[i]) =
                             IF i = 1 THEN BlockAt(node, parent) ELSE headers[i - 1]
  BY DEF Linked
<1>4. parent + i \in 1..Height(node) /\ parent + i \in 0..Height(node) /\ parent + i > 0
  BY <1>1, <1>2
<1>5. headers[i] = BlockAt(node, parent + i) /\ Height(headers[i]) = parent + i
  BY <1>1, <1>2, <1>4, BlockAtIsChain
<1>6. ParentOf(headers[i]) = BlockAt(node, (parent + i) - 1)
  BY <1>2, <1>4, <1>5, ParentOfBlock
<1>7. CASE i = 1
  <2>1. (parent + i) - 1 = parent
    BY <1>1, <1>2, <1>7
  <2> QED
    BY <1>4, <1>5, <1>6, <1>7, <2>1
<1>8. CASE i # 1
  <2>1. i - 1 \in 1..Len(headers) /\ parent + (i - 1) = (parent + i) - 1
    BY <1>1, <1>2, <1>8
  <2>2. headers[i - 1] = BlockAt(node, (parent + i) - 1)
    BY <1>1, <2>1
  <2> QED
    BY <1>4, <1>5, <1>6, <1>8, <2>2
<1> QED
  BY <1>7, <1>8

\* While both chains rest the estimate of a branch transaction cannot fail.
LEMMA StillAccepted ==
    ASSUME Before, pc = "send", task = "branch", NodeStill, RelayStill
    PROVE  Accepts(ThisTx)
<1> USE DEF Before, IInv, HoldInv, AttemptOK
<1> DEFINE b == BlockAt(node, parent)
<1>1. /\ headers[Len(headers)] = BlockAt(node, last)
      /\ last \in 1..Height(node) /\ parent \in 0..(last - 1)
      /\ Linked(b, headers)
  BY PayloadTip, PayloadLinked
<1>2. /\ node \in Chain /\ main \in Chain /\ Height(node) \in Nat /\ Height(main) \in Nat
      /\ receipt = "none" /\ Landing = parent
  BY HeldTypes DEF WorldOK, ForkOK, Landing
<1>3. parent \in 1..Height(node) /\ parent >= Checkpoint
  BY <1>1, <1>2, EngineAssumption DEF BranchOK
<1>4. b \in Chain /\ Height(b) = parent
  BY <1>2, <1>3, BlockAtIsChain
<1>5. stored = Commitment(b)
  <2>1. /\ stored.work = Work[b] /\ stored.block = b
        /\ stored.context = BlockAt(node, parent - 1)
    BY DEF NodesFields
  <2>2. stored \in Fields
    BY DEF DaemonOK, Filled
  <2>3. stored = [block |-> b, work |-> Work[b], context |-> BlockAt(node, parent - 1)]
    BY <2>1, <2>2 DEF Fields
  <2> QED
    BY <1>2, <1>3, <2>3, CommitmentOfFields
<1>6. stored.block = b
  BY DEF NodesFields
<1> HIDE DEF b
<1>7. ASSUME NEW c, Holds(c, b) PROVE Anchored(c, ThisTx)
  BY <1>3, <1>4, <1>5, <1>6, <1>7 DEF Anchored, ThisTx
<1>8. OnRelay => Holds(main, b)
  BY <1>4 DEF OnRelay, Holds, b
<1>9. CASE forkId = None
  <2>1. OnRelay /\ last = btcTip /\ relayTip < btcTip
    BY <1>9 DEF BranchOK
  <2>2. BlockAt(node, last) \in Chain /\ Height(BlockAt(node, last)) > Height(main)
    BY <1>1, <1>2, <2>1, BlockAtIsChain DEF RelayStill
  <2>3. Work[TipOf(ThisTx)] > Work[main]
    BY <1>1, <1>2, <2>2, HigherIsHeavier DEF TipOf, ThisTx
  <2>4. Anchored(main, ThisTx)
    BY <1>7, <1>8, <2>1
  <2> QED
    BY <1>1, <1>6, <1>9, <2>3, <2>4 DEF Accepts, AcceptsShortFork, ThisTx, Kind
<1>10. CASE forkId # None
  <2>1. Anchored(ForkBase(forkId), ThisTx)
    <3>1. CASE OnRelay /\ forks[forkId] = None
      BY <1>7, <1>8, <3>1 DEF ForkBase
    <3>2. CASE forks[forkId] = b
      <4>1. Holds(b, b)
        BY <1>2, <1>3, <1>4, WholeChain DEF Holds
      <4>2. b # None
        BY <1>4, NoneAssumption
      <4> QED
        BY <1>7, <3>2, <4>1, <4>2 DEF ForkBase
    <3> QED
      BY <1>2, <1>10, <3>1, <3>2 DEF BranchOK, b
  <2> QED
    BY <1>1, <1>6, <1>10, <2>1 DEF Accepts, AcceptsFork, ThisTx, Kind
<1> QED
  BY <1>9, <1>10

\* --- the environment

\* Without faults that leave a transaction behind, what is mined is awaited.
LEMMA MinedIsAwaited ==
    ASSUME Before, MineTx
    PROVE  /\ receipt = "pending" /\ receipt' = "ok" /\ pc = "wait"
           /\ mempool = ThisTx /\ mempool # None /\ mempool' = None
           /\ Execute(mempool)
           /\ task \in {"main", "branch"}
           /\ UNCHANGED <<node, pc, task, locals, hold>>
<1>1. receipt = "pending" /\ pc = "wait" /\ mempool = ThisTx
  BY DEF MineTx, Before, HoldInv, Alone, ForkOK
<1>2. ~Fault("revert")
  BY DEF Fault, Before, CleanFaults
<1> QED
  BY <1>1, <1>2 DEF MineTx, Before, IInv, DaemonOK, Control

\* A main batch of the resting node leaves the relay on the node's chain.
LEMMA MinedMainAttemptOK ==
    ASSUME Before, MineTx, task = "main"
    PROVE  AttemptOK'
<1> USE DEF Before, HoldInv, AttemptOK
<1>1. /\ pc = "wait" /\ mempool = ThisTx /\ mempool # None /\ Execute(mempool)
      /\ UNCHANGED <<node, pc, task, locals, hold>>
  BY MinedIsAwaited
<1>2. main' = headers[Len(headers)]
  BY <1>1, MinedRises DEF ThisTx, Kind, TipOf
<1>3. NodeStill => Holds(node, main')
  <2>1. SUFFICES ASSUME NodeStill PROVE Holds(node, main')
    OBVIOUS
  <2>2. main' = BlockAt(node, last) /\ last \in 1..Height(node)
    BY <1>1, <1>2, <2>1, PayloadTip
  <2>3. last \in 0..Height(node)
    BY <2>2, HeldTypes
  <2> QED
    BY <2>2, <2>3, HoldsOwnBlock DEF IInv, WorldOK
<1>4. RelayBelow'
  BY <1>1, <1>3 DEF RelayBelow, NodeStill, Holds, locals, tips
<1>5. NodesHeaders' /\ NodesFields' /\ ScanOK' /\ BranchOK' /\ FollowedOK'
  BY <1>1 DEF NodesHeaders, NodesFields, ScanOK, BranchOK, FollowedOK, NodeStill, locals,
              tips, span
<1> QED
  BY <1>4, <1>5

\* A batch of a branch: a promoted one has moved the relay, another one is where
\* the fork now ends; and the whole branch of the resting node is promoted,
\* unless the relay was there already.
LEMMA MinedBranchAttemptOK ==
    ASSUME Before, MineTx, task = "branch"
    PROVE  AttemptOK'
<1> USE DEF Before, HoldInv, AttemptOK
<1>1. /\ receipt = "pending" /\ receipt' = "ok" /\ pc = "wait"
      /\ mempool = ThisTx /\ mempool # None /\ Execute(mempool)
      /\ UNCHANGED <<node, pc, task, locals, hold>>
  BY MinedIsAwaited
<1>2. main' = main \/ Height(main) < Height(main')
  BY <1>1, MinedRises
<1>3. main' \in Chain /\ Height(main') \in Nat /\ main \in Chain /\ node \in Chain
  BY <1>1, MinedChain, ChainIsSeq, HeightAssumption DEF IInv, WorldOK
<1>4. /\ relayTip \in Nat /\ btcTip \in Nat /\ Height(main) \in Nat
      /\ relayTip <= Height(main)
  BY HeldTypes DEF HoldKept
<1>5. NodeStill' = NodeStill /\ Landing' = last /\ relayTip' = relayTip
  BY <1>1 DEF NodeStill, Landing, locals, tips, span
<1>6. TipOf(mempool) = headers[Len(headers)]
  BY <1>1 DEF ThisTx, TipOf
<1>7. ASSUME NodeStill, RelayStill'
      PROVE  forkId # None /\ forks'[forkId] = BlockAt(node, last)
  <2>1. main' = main
    BY <1>2, <1>3, <1>4, <1>5, <1>7 DEF RelayStill
  <2>2. TipOf(mempool) = BlockAt(node, last) /\ last \in 0..Height(node)
    BY <1>1, <1>6, <1>7, PayloadTip, HeldTypes
  <2>3. TipOf(mempool) \in Chain
    BY <1>3, <2>2, BlockAtIsChain
  <2>4. ~(Work[TipOf(mempool)] > Work[main] /\ main' = TipOf(mempool))
    BY <1>3, <2>1, <2>3, WorkAssumption
  <2>5. AcceptsFork(mempool) /\ forks' = [forks EXCEPT ![mempool.id] = TipOf(mempool)]
    BY <1>1, <2>4 DEF Execute, AcceptsMain, AcceptsShortFork, Promotes, ThisTx, Kind
  <2>6. forkId # None /\ mempool.id = forkId
    BY <1>1, <2>5 DEF AcceptsFork, ThisTx, Kind
  <2> QED
    BY <2>2, <2>5, <2>6 DEF IInv, WorldOK, DaemonOK, LocalsOK
<1>8. ASSUME NodeStill, last = btcTip
      PROVE  relayTip < Height(main')
  <2>1. CASE Height(main) < Height(main')
    BY <1>3, <1>4, <2>1
  <2>2. CASE main' = main
    <3>1. TipOf(mempool) = BlockAt(node, last) /\ last \in 0..Height(node)
      BY <1>1, <1>6, <1>8, PayloadTip, HeldTypes
    <3>2. TipOf(mempool) \in Chain /\ Height(TipOf(mempool)) = btcTip
      BY <1>3, <1>8, <3>1, BlockAtIsChain
    <3>3. ~(Work[TipOf(mempool)] > Work[main])
      BY <1>1, <1>3, <2>2, <3>2, WorkAssumption
      DEF Execute, AcceptsMain, AcceptsShortFork, AcceptsFork, Promotes, ThisTx, Kind
    <3>4. ~(Height(TipOf(mempool)) > Height(main))
      BY <1>3, <3>2, <3>3, HigherIsHeavier
    <3>5. relayTip < btcTip
      BY <1>8 DEF BranchOK
    <3> QED
      BY <1>4, <2>2, <3>2, <3>4, <3>5
  <2> QED
    BY <1>2, <2>1, <2>2
<1>9. BranchOK'
  <2>1. /\ parent' = parent /\ last' = last /\ forkId' = forkId /\ btcTip' = btcTip
        /\ task' = task /\ node' = node
    BY <1>1 DEF locals, tips, span
  <2> QED
    BY <1>5, <1>7, <2>1 DEF BranchOK
<1>10. FollowedOK'
  BY <1>1, <1>5, <1>8 DEF FollowedOK, locals, tips, span
<1>11. NodesHeaders' /\ NodesFields' /\ RelayBelow' /\ ScanOK'
  BY <1>1 DEF NodesHeaders, NodesFields, RelayBelow, ScanOK, NodeStill, locals, tips, span
<1> QED
  BY <1>9, <1>10, <1>11

LEMMA DropTxAttemptOK ==
    ASSUME Before, DropTx
    PROVE  AttemptOK'
<1> USE DEF Before, HoldInv, AttemptOK
<1>1. /\ UNCHANGED <<node, main, forks, pc, task, locals, hold>>
      /\ receipt = "pending" /\ receipt' = "dropped"
  BY DEF DropTx, Alone
<1> QED
  BY <1>1 DEF NodesHeaders, NodesFields, RelayBelow, ScanOK, BranchOK, FollowedOK,
              NodeStill, RelayStill, OnRelay, Landing, Top, CommitAt, Holds, locals, tips, span

\* A heavier node chain is a higher one: the node is above the tip that was read.
LEMMA NodeAdvanceAttemptOK ==
    ASSUME Before, NodeAdvance
    PROVE  AttemptOK' /\ Height(node) < Height(node') /\ Height(node') \in Nat
<1> USE DEF Before, HoldInv, AttemptOK
<1>1. /\ UNCHANGED <<main, forks, mempool, receipt, pc, task, locals, hold>>
      /\ node' \in Chain /\ Work[node'] > Work[node]
  BY DEF NodeAdvance
<1>2. Height(node) < Height(node') /\ Height(node') \in Nat /\ Height(node) \in Nat
  BY <1>1, ChainIsSeq, HeightAssumption DEF EqualWork, IInv, WorldOK
<1>3. ~NodeStill'
  BY <1>1, <1>2, HeldTypes DEF TipsBehind, NodeStill, locals, tips
<1>4. ScanOK'
  BY <1>1, <1>3 DEF ScanOK, RelayStill, CommitAt, locals, tips, span
<1>5. BranchOK'
  BY <1>1, <1>3 DEF BranchOK, locals, tips, span
<1>6. NodesHeaders' /\ NodesFields' /\ RelayBelow' /\ FollowedOK'
  BY <1>3 DEF NodesHeaders, NodesFields, RelayBelow, FollowedOK
<1> QED
  BY <1>2, <1>4, <1>5, <1>6

LEMMA StutterAttemptOK ==
    ASSUME AttemptOK, UNCHANGED vars
    PROVE  AttemptOK'
  BY DEF vars, AttemptOK, NodesHeaders, NodesFields, RelayBelow, ScanOK, BranchOK, FollowedOK,
         NodeStill, RelayStill, OnRelay, Landing, Top, CommitAt, Holds, locals, tips, span

\* --- all steps of the attempt

LEMMA DaemonAttemptOK ==
    ASSUME Before, Daemon
    PROVE  AttemptOK'
<1> USE DEF Daemon, ReadStep, WriteStep
<1>1. UNCHANGED <<node, main>>
  OBVIOUS
<1>2. CASE RetryableError \/ HardError \/ EndCycle \/ Exit \/ HoldBranch
  BY <1>1, <1>2, ErrorAttemptOK
<1>3. CASE OutOfRange \/ Reverted \/ Refused \/ RejectedByEstimate \/ RecordProgress
  BY <1>2, <1>3 DEF OutOfRange, Reverted, RevertError, Refused, RejectedByEstimate, RecordProgress
<1>4. CASE ReadBitcoinTip
  BY <1>4, LeaveAttemptOK DEF ReadBitcoinTip, Before, IInv, DaemonOK, Control
<1>5. CASE ReadRelayTip
  BY <1>1, <1>5, ReadRelayTipAttemptOK
<1>6. CASE ReadParent /\ UNCHANGED forks
  BY <1>1, <1>2, <1>6, ReadParentAttemptOK
<1>7. CASE (ReadEndHash \/ ReadWork \/ ReadContext \/ ReadHeader) /\ UNCHANGED forks
  BY <1>1, <1>7, ReadEndHashAttemptOK, ReadWorkAttemptOK, ReadContextAttemptOK,
     ReadHeaderAttemptOK
<1>8. CASE Send /\ UNCHANGED forks
  BY <1>1, <1>8, SendAttemptOK
<1>9. CASE ReadReorgTip
  BY <1>1, <1>9, ReadReorgTipAttemptOK
<1>10. CASE ReadCommit /\ UNCHANGED forks
  BY <1>1, <1>2, <1>10, ReadCommitAttemptOK
<1>11. CASE ReadVerifyTip
  BY <1>1, <1>2, <1>11, ReadVerifyTipAttemptOK
<1>12. CASE BranchConfirmed /\ UNCHANGED forks
  BY <1>1, <1>12, BranchConfirmedAttemptOK
<1>13. CASE MainConfirmed
  BY <1>1, <1>13, MainConfirmedAttemptOK
<1>14. CASE Compare
  BY <1>1, <1>14, CompareAttemptOK
<1> QED
  BY <1>3, <1>4, <1>5, <1>6, <1>7, <1>8, <1>9, <1>10, <1>11, <1>12, <1>13, <1>14

LEMMA MisfortuneAttemptOK ==
    ASSUME Before, Misfortune \/ Restart
    PROVE  AttemptOK'
  BY ErrorAttemptOK
  DEF Misfortune, RpcFault, RecordFault, SendLost, Timeout, TimeoutOfDropped, SaveFault,
      Crash, Restart

LEMMA EnvironmentAttemptOK ==
    ASSUME Before, Environment \/ UNCHANGED vars
    PROVE  AttemptOK'
<1>1. CASE MineTx
  BY <1>1, MinedIsAwaited, MinedMainAttemptOK, MinedBranchAttemptOK
<1> QED
  BY <1>1, DropTxAttemptOK, NodeAdvanceAttemptOK, StutterAttemptOK
  DEF Environment, Before, HoldInv

----------------------------------------------------------------------------
\* The tips, the pending transaction and the hold.

\* The node's tip is only read, and the hold is what was read.
LEMMA LeaveTips ==
    ASSUME RetryableError \/ HardError \/ EndCycle \/ Exit \/ HoldBranch \/ EnterReorg
    PROVE  btcTip' \in {btcTip, 0} /\ hold' \in {hold, None, <<btcTip, relayTip>>}
  BY DEF RetryableError, HardError, EndCycle, Exit, HoldBranch, RememberHold, EnterReorg,
         StartBatch, Leave, tips

LEMMA DaemonTips ==
    ASSUME Daemon \/ Misfortune \/ Restart
    PROVE  /\ btcTip' \in {btcTip, 0, Height(node)}
           /\ hold' \in {hold, None, <<btcTip, relayTip>>}
           /\ node' = node /\ main' = main
<1> USE DEF Daemon, ReadStep, WriteStep
<1>1. node' = node /\ main' = main
  BY DEF Misfortune, RpcFault, RecordFault, SendLost, Timeout, TimeoutOfDropped, SaveFault,
         Crash, Restart
<1>2. CASE RetryableError \/ HardError \/ EndCycle \/ Exit \/ HoldBranch \/ EnterReorg
  BY <1>1, <1>2, LeaveTips
<1>3. CASE Misfortune \/ Restart
  BY <1>2, <1>3
  DEF Misfortune, RpcFault, RecordFault, SendLost, Timeout, TimeoutOfDropped, SaveFault,
      Crash, Restart
<1>4. CASE OutOfRange \/ Reverted \/ Refused \/ RejectedByEstimate \/ RecordProgress
  BY <1>2, <1>4 DEF OutOfRange, Reverted, RevertError, Refused, RejectedByEstimate, RecordProgress
<1>5. CASE ReadRelayTip
  BY <1>1, <1>2, <1>5 DEF ReadRelayTip, StartBatch
<1>6. CASE ReadParent \/ ReadCommit \/ ReadVerifyTip
  BY <1>1, <1>2, <1>6 DEF ReadParent, ReadCommit, ReadVerifyTip, tips
<1>7. CASE MainConfirmed
  BY <1>1, <1>2, <1>7 DEF MainConfirmed, StartBatch
<1>8. CASE Compare
  BY <1>1, <1>2, <1>8 DEF Compare, StartBranch, tips
<1>9. CASE \/ ReadBitcoinTip \/ ReadEndHash \/ ReadWork \/ ReadContext \/ ReadHeader
           \/ ReadReorgTip \/ BranchConfirmed \/ Send
  BY <1>1, <1>9 DEF ReadBitcoinTip, ReadEndHash, ReadWork, ReadContext, ReadHeader,
                    ReadReorgTip, BranchConfirmed, Send, tips
<1> QED
  BY <1>3, <1>4, <1>5, <1>6, <1>7, <1>8, <1>9

LEMMA TipsBehindStays ==
    ASSUME Before, [Next]_vars
    PROVE  TipsBehind'
<1> USE DEF Before, HoldInv, TipsBehind
<1>1. CASE Daemon \/ Misfortune \/ Restart
  <2>1. btcTip' <= Height(node')
    BY <1>1, DaemonTips, HeldTypes
  <2>2. hold' # None => hold'[1] <= Height(node')
    BY <1>1, DaemonTips
  <2> QED
    BY <2>1, <2>2
<1>2. CASE NodeAdvance
  <2>1. Height(node) < Height(node') /\ Height(node') \in Nat
    BY <1>2, NodeAdvanceAttemptOK
  <2>2. btcTip' = btcTip /\ hold' = hold
    BY <1>2 DEF NodeAdvance, locals, tips
  <2> QED
    BY <2>1, <2>2, HeldTypes
<1>3. CASE MineTx \/ DropTx \/ UNCHANGED vars
  BY <1>3 DEF MineTx, DropTx, vars, locals, tips
<1> QED
  BY <1>1, <1>2, <1>3 DEF Next, Environment

\* A transaction is left only once it is mined or gone.
LEMMA ReturnAlone ==
    ASSUME Before, receipt # "pending", UNCHANGED mempool,
           RetryableError \/ HardError \/ EndCycle \/ Exit \/ HoldBranch \/ EnterReorg
    PROVE  Alone'
  BY ReturnNoBranch DEF Before, HoldInv, Alone, NoBranch

LEMMA DaemonAlone ==
    ASSUME Before, Daemon \/ Misfortune \/ Restart
    PROVE  Alone'
<1> USE DEF Before, HoldInv
<1>1. pc # "wait" => receipt = "none"
  BY DEF ForkOK
<1>2. CASE Misfortune \/ Restart
  <2>1. /\ RetryableError \/ HardError \/ EndCycle \/ Exit \/ EnterReorg
        /\ receipt # "pending" /\ UNCHANGED mempool
    BY <1>1, <1>2
    DEF Misfortune, RpcFault, RecordFault, SendLost, Timeout, TimeoutOfDropped, SaveFault,
        Crash, Restart, Fault, CleanFaults, Landed
  <2> QED
    BY <2>1, ReturnAlone
<1>3. CASE ReadStep
  <2>1. UNCHANGED mempool
    BY <1>3 DEF ReadStep
  <2>2. CASE RetryableError \/ HardError \/ EndCycle \/ Exit \/ HoldBranch
    <3>1. receipt' = "none"
      BY <2>2, ReturnNoBranch DEF NoBranch
    <3>2. receipt # "pending"
      BY <1>1, <1>3, HeldTypes
      DEF ReadStep, ReadBitcoinTip, ReadRelayTip, ReadEndHash, ReadWork, ReadParent,
          ReadContext, ReadHeader, ReadReorgTip, ReadCommit, ReadVerifyTip, Reverted,
          BranchConfirmed, OutOfRange, Landed, NodeHasIt, WantedHeight
    <3> QED
      BY <2>1, <3>1, <3>2 DEF Alone
  <2>3. CASE BranchConfirmed
    BY <2>1, <2>3 DEF BranchConfirmed, Landed, ClearPayload, Alone
  <2>4. CASE ~BranchConfirmed /\ ~(RetryableError \/ HardError \/ EndCycle \/ Exit \/ HoldBranch)
    <3>1. receipt' \in {receipt, "none"} /\ receipt = "none"
      BY <1>1, <1>3, <2>4
      DEF ReadStep, ReadBitcoinTip, ReadRelayTip, ReadEndHash, ReadWork, ReadParent,
          ReadContext, ReadHeader, ReadReorgTip, ReadCommit, ReadVerifyTip, Reverted,
          RevertError, OutOfRange, StartBatch, Probe, ClearPayload
    <3> QED
      BY <2>1, <3>1 DEF Alone
  <2> QED
    BY <2>2, <2>3, <2>4
<1>4. CASE Send
  BY <1>4 DEF Send, Alone
<1>5. CASE Refused \/ RejectedByEstimate
  BY <1>1, <1>5, ReturnAlone DEF Refused, RejectedByEstimate, RevertError
<1>6. CASE MainConfirmed /\ UNCHANGED mempool
  BY <1>6, ReturnAlone
  DEF MainConfirmed, Landed, Alone, StartBatch, ClearPayload
<1>7. CASE RecordProgress /\ UNCHANGED mempool
  BY <1>1, <1>7, ReturnAlone DEF RecordProgress
<1>8. CASE Compare /\ UNCHANGED mempool
  <2>1. receipt' = "none" /\ mempool' = None
    BY <1>1, <1>8, ReturnNoBranch
    DEF Compare, StartBranch, Probe, ClearPayload, Alone, NoBranch
  <2> QED
    BY <2>1 DEF Alone
<1> QED
  BY <1>2, <1>3, <1>4, <1>5, <1>6, <1>7, <1>8 DEF Daemon, WriteStep

\* --- the hold

LEMMA SameHoldJustified ==
    ASSUME Before, UNCHANGED <<node, main>>, hold' \in {hold, None}
    PROVE  Justified'
<1>1. Joined' = Joined
  BY DEF Joined
<1>2. None # <<Height(node), Height(main)>>
  BY ChainIsSeq, OptionAssumption DEF Before, IInv, WorldOK
<1> QED
  BY <1>1, <1>2 DEF Justified, Before, HoldInv

LEMMA HoldBranchJustified ==
    ASSUME HoldBranch, UNCHANGED <<node, main>>, ~(NodeStill /\ RelayStill /\ Joined)
    PROVE  Justified'
<1>1. Joined' = Joined
  BY DEF Joined
<1>2. hold' = <<btcTip, relayTip>>
  BY DEF HoldBranch, RememberHold
<1> QED
  BY <1>1, <1>2 DEF Justified, NodeStill, RelayStill

\* A branch that landed whole moved the relay: its verification decides nothing
\* about the tips that were read.
LEMMA VerifyNotStill ==
    ASSUME Before, task = "verify"
    PROVE  ~(NodeStill /\ RelayStill)
  BY HeldTypes DEF Before, HoldInv, AttemptOK, FollowedOK, RelayStill

LEMMA ReturnJustified ==
    ASSUME Before, UNCHANGED <<node, main>>,
           RetryableError \/ EndCycle \/ Exit \/ EnterReorg
    PROVE  Justified'
<1>1. hold' \in {hold, None}
  BY DEF RetryableError, EndCycle, Exit, EnterReorg, StartBatch
<1> QED
  BY <1>1, SameHoldJustified

LEMMA HardErrorJustified ==
    ASSUME Before, UNCHANGED <<node, main>>, HardError,
           task = "branch" => ~(NodeStill /\ RelayStill)
    PROVE  Justified'
<1>1. CASE task \in {"branch", "verify"} /\ HoldBranch
  BY <1>1, VerifyNotStill, HoldBranchJustified
<1> QED
  BY <1>1, ReturnJustified DEF HardError

\* The scan gave up at a height where no branch can start: it saw no agreement
\* from there to the lower tip.
LEMMA ScanGivesUp ==
    ASSUME Before, ReadCommit, HoldBranch, task = "scan"
    PROVE  ~(NodeStill /\ RelayStill /\ Joined)
<1> USE DEF Before, IInv, HoldInv, AttemptOK
<1>1. SUFFICES ASSUME NodeStill, RelayStill, Joined PROVE FALSE
  OBVIOUS
<1>2. Least(Height(main), Height(node)) = Top
  BY <1>1, HeldTypes DEF Top, Least, NodeStill, RelayStill
<1>3. PICK h \in Greatest(Checkpoint, TsWindow)..Top : BlockAt(main, h) = BlockAt(node, h)
  BY <1>1, <1>2 DEF Joined
<1>4. /\ Checkpoint \in Nat /\ TsWindow \in Nat /\ parent \in Nat /\ parent <= Top
      /\ Top \in Nat /\ Top <= Height(main)
  BY <1>1, HeldTypes, HeightAssumption, ContractAssumption, EngineAssumption
  DEF DaemonOK, LocalsOK, RangeSafe, Top, Least, RelayStill
<1>5. h >= Checkpoint /\ h >= TsWindow /\ h \in Nat
  BY <1>3, <1>4 DEF Greatest
<1>6. h \notin (parent + 1)..Top
  BY <1>1, <1>3 DEF ScanOK
<1>7. h <= parent
  BY <1>3, <1>4, <1>5, <1>6
<1>8. parent >= TsWindow /\ parent \in Checkpoint..Height(main)
  BY <1>4, <1>5, <1>7, HeldTypes
<1>9. CommitAt(parent) # None
  <2>1. CommitAt(parent) = Commitment(BlockAt(main, parent))
    BY <1>8 DEF CommitAt
  <2>2. parent \in 1..Height(main)
    BY <1>4, <1>8, EngineAssumption
  <2>3. Commitment(BlockAt(main, parent)) \in Fields
    BY <2>2, CommitmentFields DEF WorldOK
  <2> QED
    BY <2>1, <2>3, OptionAssumption DEF Fields
<1>10. pc' = "tipBitcoin"
  BY DEF HoldBranch, Leave
<1>11. parent >= TsWindow /\ CommitAt(parent) # None
  BY <1>8, <1>9
<1> QED
  BY <1>4, <1>10, <1>11, EngineAssumption DEF ReadCommit

LEMMA ReadStepJustified ==
    ASSUME Before, ReadStep
    PROVE  Justified'
<1> USE DEF ReadStep
<1>1. UNCHANGED <<node, main>>
  OBVIOUS
<1>2. CASE OutOfRange
  <2>1. task = "branch" => ~NodeStill
    <3>1. SUFFICES ASSUME task = "branch", NodeStill PROVE FALSE
      OBVIOUS
    <3>2. /\ parent \in Nat /\ last \in Nat /\ Len(headers) \in Nat
          /\ parent < last /\ last <= Height(node)
          /\ pc = "headers" => parent + Len(headers) < last
          /\ pc \in {"work", "parent", "context", "headers", "send", "wait"}
      BY <1>2, <3>1, LenProperties, HeightAssumption
      DEF Before, IInv, DaemonOK, LocalsOK, RangeSafe, Control, NodeStill, Pcs,
          OutOfRange, NodeHasIt, WantedHeight
    <3>3. WantedHeight <= Height(node)
      BY <3>1, <3>2, HeldTypes DEF WantedHeight, Before
    <3> QED
      BY <1>2, <3>3 DEF OutOfRange, NodeHasIt
  <2> QED
    BY <1>1, <1>2, <2>1, HardErrorJustified DEF OutOfRange
<1>3. CASE Reverted
  BY <1>3 DEF Reverted, Before, HoldInv, Alone
<1>4. CASE ReadParent
  <2>1. CASE parent < TsWindow /\ HardError
    <3>1. task # "branch"
      BY <2>1, HeightAssumption, EngineAssumption
      DEF Before, HoldInv, AttemptOK, BranchOK, IInv, DaemonOK, LocalsOK
    <3> QED
      BY <1>1, <2>1, <3>1, HardErrorJustified
  <2> QED
    BY <1>1, <1>4, <2>1, SameHoldJustified DEF ReadParent
<1>5. CASE ReadCommit
  <2>1. CASE HoldBranch
    BY <1>1, <1>5, <2>1, ScanGivesUp, VerifyNotStill, HoldBranchJustified
    DEF ReadCommit, Before, IInv, DaemonOK, Control
  <2> QED
    BY <1>1, <1>5, <2>1, SameHoldJustified DEF ReadCommit
<1>6. CASE ReadVerifyTip
  <2>1. CASE HoldBranch
    BY <1>1, <1>6, <2>1, VerifyNotStill, HoldBranchJustified
    DEF ReadVerifyTip, Before, IInv, DaemonOK, Control
  <2> QED
    BY <1>1, <1>6, <2>1, SameHoldJustified DEF ReadVerifyTip
<1>7. CASE ReadRelayTip
  BY <1>1, <1>7, ReturnJustified, SameHoldJustified DEF ReadRelayTip, StartBatch
<1>8. CASE \/ ReadBitcoinTip \/ ReadEndHash \/ ReadWork \/ ReadContext \/ ReadHeader
           \/ ReadReorgTip \/ BranchConfirmed
  BY <1>1, <1>8, SameHoldJustified
  DEF ReadBitcoinTip, ReadEndHash, ReadWork, ReadContext, ReadHeader, ReadReorgTip,
      BranchConfirmed
<1> QED
  BY <1>2, <1>3, <1>4, <1>5, <1>6, <1>7, <1>8

LEMMA WriteStepJustified ==
    ASSUME Before, WriteStep
    PROVE  Justified'
<1>1. UNCHANGED <<node, main>>
  BY DEF WriteStep
<1>2. CASE Send
  BY <1>1, <1>2, SameHoldJustified DEF Send
<1>3. CASE Refused
  BY <1>3 DEF Refused, Before, HoldInv, Alone, ForkOK
<1>4. CASE RejectedByEstimate
  BY <1>1, <1>4, StillAccepted, HardErrorJustified DEF RejectedByEstimate, RevertError
<1>5. CASE MainConfirmed
  BY <1>1, <1>5, ReturnJustified, SameHoldJustified DEF MainConfirmed, StartBatch
<1>6. CASE RecordProgress
  BY <1>1, <1>6, ReturnJustified DEF RecordProgress
<1>7. CASE Compare
  <2>1. CASE task = "verify" /\ HoldBranch
    BY <1>1, <2>1, VerifyNotStill, HoldBranchJustified
  <2>2. CASE hold' \in {hold, None}
    BY <1>1, <2>2, SameHoldJustified
  <2> QED
    BY <1>7, <2>1, <2>2 DEF Compare, Exit, StartBranch
<1> QED
  BY <1>2, <1>3, <1>4, <1>5, <1>6, <1>7 DEF WriteStep

LEMMA MisfortuneJustified ==
    ASSUME Before, Misfortune \/ Restart
    PROVE  Justified'
<1>1. /\ UNCHANGED <<node, main>>
      /\ RetryableError \/ EndCycle \/ Exit \/ EnterReorg
  BY DEF Misfortune, RpcFault, RecordFault, SendLost, Timeout, TimeoutOfDropped, SaveFault,
         Crash, Restart, Fault, Before, CleanFaults
<1> QED
  BY <1>1, ReturnJustified

\* A chain that moves is above the tip a hold remembers: the hold is over.
LEMMA EnvironmentJustified ==
    ASSUME Before, Environment \/ UNCHANGED vars
    PROVE  Justified'
<1> USE DEF Before, HoldInv
<1>1. UNCHANGED hold
  BY DEF Environment, NodeAdvance, MineTx, DropTx, vars
<1>2. hold = <<Height(node'), Height(main')>> =>
          hold # None /\ hold[1] = Height(node') /\ hold[2] = Height(main')
  <2>1. IInv'
    BY Induction DEF Next
  <2>2. <<Height(node'), Height(main')>> \in (0..MaxHeight) \X (0..MaxHeight)
    BY <2>1, ChainIsSeq DEF IInv, WorldOK
  <2> QED
    BY <2>2, OptionAssumption
<1>3. CASE NodeAdvance
  <2>1. Height(node) < Height(node') /\ Height(node') \in Nat
    BY <1>3, NodeAdvanceAttemptOK
  <2>2. hold # <<Height(node'), Height(main')>>
    BY <1>2, <2>1, HeldTypes DEF TipsBehind
  <2> QED
    BY <1>1, <2>2 DEF Justified
<1>4. CASE MineTx
  <2>1. node' = node /\ (main' = main \/ Height(main) < Height(main'))
    BY <1>4, MinedIsAwaited, MinedRises
  <2>2. CASE main' = main
    BY <1>1, <2>1, <2>2, SameHoldJustified
  <2>3. CASE Height(main) < Height(main')
    <3>1. Height(main') \in Nat
      BY <1>4, MinedIsAwaited, MinedChain, ChainIsSeq, HeightAssumption DEF IInv
    <3>2. hold # <<Height(node'), Height(main')>>
      BY <1>2, <2>3, <3>1, HeldTypes DEF HoldKept
    <3> QED
      BY <1>1, <3>2 DEF Justified
  <2> QED
    BY <2>1, <2>2, <2>3
<1>5. CASE DropTx \/ UNCHANGED vars
  BY <1>1, <1>5, SameHoldJustified DEF DropTx, vars
<1> QED
  BY <1>3, <1>4, <1>5 DEF Environment

LEMMA EnvironmentAlone ==
    ASSUME Before, Environment \/ UNCHANGED vars
    PROVE  Alone'
<1>1. CASE MineTx
  BY <1>1, MinedIsAwaited DEF Alone
<1> QED
  BY <1>1 DEF Environment, NodeAdvance, DropTx, vars, Before, HoldInv, Alone

LEMMA HoldInduction ==
    ASSUME Before, [Next]_vars
    PROVE  HoldInv'
<1>1. TipsBehind'
  BY TipsBehindStays
<1>2. Alone'
  BY DaemonAlone, EnvironmentAlone DEF Next
<1>3. AttemptOK'
  BY DaemonAttemptOK, MisfortuneAttemptOK, EnvironmentAttemptOK DEF Next
<1>4. Justified'
  BY ReadStepJustified, WriteStepJustified, MisfortuneJustified, EnvironmentJustified
  DEF Next, Daemon
<1> QED
  BY <1>1, <1>2, <1>3, <1>4 DEF HoldInv

LEMMA HoldInit == Init => HoldInv
<1> SUFFICES ASSUME Init PROVE HoldInv
  OBVIOUS
<1>1. Height(node) \in Nat /\ Height(main) \in 0..MaxHeight /\ Height(node) \in 0..MaxHeight
  BY InitOK, ChainIsSeq, HeightAssumption DEF IInv, WorldOK
<1>2. TipsBehind /\ Alone
  BY <1>1 DEF Init, TipsBehind, Alone
<1>3. AttemptOK
  BY DEF Init, AttemptOK, NodesHeaders, NodesFields, RelayBelow, ScanOK, BranchOK, FollowedOK
<1>4. Justified
  BY <1>1, OptionAssumption DEF Init, Justified
<1> QED
  BY <1>2, <1>3, <1>4 DEF HoldInv

\* What may go wrong in a behaviour is settled when it begins.
LEMMA KindsStay ==
    ASSUME IInv, [Next]_vars
    PROVE  faults'.kinds = faults.kinds
<1>1. ASSUME NEW kind, Fault(kind)
      PROVE  faults'.kinds = faults.kinds
  BY <1>1 DEF Fault, IInv, WorldOK
<1>2. CASE UNCHANGED faults
  BY <1>2
<1>3. UNCHANGED faults \/ \E kind \in {"retryable", "hard", "lost", "timeout", "drop",
                                        "revert", "save", "crash"} : Fault(kind)
  <2>1. CASE Daemon \/ UNCHANGED vars
    BY <2>1 DEF Daemon, ReadStep, WriteStep, vars
  <2>2. CASE Misfortune \/ Restart
    BY <2>2 DEF Misfortune, RpcFault, RecordFault, SendLost, Timeout, TimeoutOfDropped,
                SaveFault, Crash, Restart
  <2>3. CASE Environment
    BY <2>3 DEF Environment, NodeAdvance, MineTx, DropTx
  <2> QED
    BY <2>1, <2>2, <2>3 DEF Next
<1> QED
  BY <1>1, <1>2, <1>3

\* In every behaviour with clean faults an attempt has read what the chains hold,
\* until one of them moves, and only a branch out of reach is put on hold.
THEOREM JustInductive ==
    ASSUME EqualWork
    PROVE  Spec => [](CleanFaults => HoldInv)
<1>1. Init => HoldInv
  BY HoldInit
<1>2. IInv /\ Progress /\ ForkOK /\ HoldKept /\ (CleanFaults => HoldInv) /\ [Next]_vars
      => (CleanFaults => HoldInv)'
  BY HoldInduction, KindsStay DEF Before, CleanFaults
<1> QED
  BY <1>1, <1>2, Inductive, ProgressInductive, ForkInductive, HoldInductive, PTL DEF Spec

\* A remembered pair of tips is right as long as it is in force: when run_poll_cycle
\* waits for a new tip, the node's branch leaves the relay below what the contract
\* can build a fork on.  No reorg while the branch is read, submitted or verified,
\* no RPC failure with a retryable text, no dropped transaction and no failed save
\* makes the daemon go silent on a branch it could follow.
THEOREM HoldCorrect ==
    ASSUME EqualWork
    PROVE  Spec => []HoldJustified
<1>1. (CleanFaults => HoldInv) => HoldJustified
  BY DEF HoldInv, Justified, HoldJustified
<1> QED
  BY <1>1, JustInductive, PTL
=============================================================================
